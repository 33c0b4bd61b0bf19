---------------------------- MODULE Ps2Handshake ----------------------------
(***************************************************************************)
(* InitializePs2Mouse of BootApp.c and the port helpers under it, run      *)
(* against an 8042 controller, a keyboard and a mouse that act on their    *)
(* own.                                                                    *)
(*                                                                         *)
(* The driver polls the status port; nothing is interrupt driven, so       *)
(* whatever the devices put into the controller's output buffer between    *)
(* two polls is what the next read returns, whoever it came from.  A byte  *)
(* carries its source, of which the driver sees one status bit (auxiliary  *)
(* data or not), and its role, which the driver cannot see.                *)
(***************************************************************************)
EXTENDS Bytes, Sequences

CONSTANTS
  Attempts,      \* polls of one wait loop (100000)
  FlushLimit,    \* reads of one flush (64)
  OutCapacity,   \* bytes the controller can hold for the driver
  Configs,       \* configuration bytes the firmware may leave
  Scancodes,     \* bytes the keyboard may send
  Motions,       \* movement bytes the mouse may send
  MaxKeys,       \* bound: bytes the keyboard sends
  MaxMoves       \* bound: packets the mouse sends

ASSUME LimitsAssumption ==
  /\ Attempts \in Nat \ {0}
  /\ FlushLimit \in Nat
  /\ OutCapacity \in Nat \ {0}
  /\ MaxKeys \in Nat
  /\ MaxMoves \in Nat

ASSUME BytesAssumption ==
  /\ Configs \subseteq Byte
  /\ Scancodes \subseteq Byte
  /\ Motions \subseteq Byte

ACK == 250        \* 0xFA
RESEND == 254     \* 0xFE

VARIABLES
  pc,                \* the next step of InitializePs2Mouse
  attempt,           \* counter of the current wait loop or flush
  Enabled,           \* mouseState->Enabled
  controllerConfig,  \* the local of that name
  timedOut,          \* some wait loop gave up (history)
  out,               \* controller: bytes waiting at port 0x60
  inbuf,             \* controller: the byte written and not yet processed
  expect,            \* controller: who the next byte at port 0x60 is for
  config,            \* controller: its configuration byte
  present,           \* a mouse is connected
  streaming,         \* mouse: it reports movement
  devq,              \* mouse: bytes it still has to send
  keys, moves,       \* bytes and packets the devices have sent
  firmware,          \* what the firmware left behind (history)
  raced              \* a byte was in the output buffer, or came into it,
                     \* between the first flush and the reply to 0x20 (history)

driver == <<pc, attempt, Enabled, controllerConfig, timedOut>>
controller == <<out, inbuf, expect, config>>
devices == <<present, streaming, devq, keys, moves>>
vars == <<driver, controller, devices, firmware, raced>>

OutByte == [src : {"kbd", "aux", "ctl"}, data : Byte,
            role : {"key", "reply", "ack", "head", "dx", "dy"}]
Idle == [port |-> "none", data |-> 0]

Init ==
  /\ pc = "flush1"
  /\ attempt = 0
  /\ Enabled = FALSE
  /\ controllerConfig = 0
  /\ timedOut = FALSE
  /\ config \in Configs
  /\ inbuf = Idle
  /\ expect = "keyboard"
  /\ present \in BOOLEAN
  /\ streaming \in (IF present THEN BOOLEAN ELSE {FALSE})
  /\ devq = <<>>
  /\ keys = 0 /\ moves = 0
  /\ \E stale \in BOOLEAN, code \in Scancodes :
       out = IF stale
             THEN <<[src |-> "kbd", data |-> code, role |-> "key"]>>
             ELSE <<>>
  /\ firmware = [streaming |-> streaming, config |-> config]
  /\ raced = FALSE

-----------------------------------------------------------------------------
(* The keyboard, the mouse and the controller (external).                  *)

\* The steps of the driver between the end of the first flush and the
\* acceptance of the configuration byte.
ReadingConfig == pc \in {"A8", "20", "readConfig"}

\* A keyboard byte arrives, unless the keyboard's clock is disabled (bit 4).
KeyPress ==
  /\ keys < MaxKeys
  /\ Bit(config, 4) = 0
  /\ Len(out) < OutCapacity
  /\ \E code \in Scancodes :
       out' = Append(out, [src |-> "kbd", data |-> code, role |-> "key"])
  /\ keys' = keys + 1
  /\ raced' = (raced \/ ReadingConfig)
  /\ UNCHANGED <<driver, inbuf, expect, config, present, streaming, devq,
                 moves, firmware>>

\* A streaming mouse has moved: a three byte packet to send.
MouseMove ==
  /\ streaming
  /\ devq = <<>>
  /\ moves < MaxMoves
  /\ \E dx, dy \in Motions :
       devq' = <<[src |-> "aux", data |-> 8, role |-> "head"],
                 [src |-> "aux", data |-> dx, role |-> "dx"],
                 [src |-> "aux", data |-> dy, role |-> "dy"]>>
  /\ moves' = moves + 1
  /\ UNCHANGED <<driver, controller, present, streaming, keys, firmware,
                 raced>>

\* The controller takes one byte from the mouse, unless its clock is disabled
\* (bit 5).
AuxTransfer ==
  /\ devq # <<>>
  /\ Bit(config, 5) = 0
  /\ Len(out) < OutCapacity
  /\ out' = Append(out, Head(devq))
  /\ devq' = Tail(devq)
  /\ raced' = (raced \/ ReadingConfig)
  /\ UNCHANGED <<driver, inbuf, expect, config, present, streaming, keys,
                 moves, firmware>>

\* The controller acts on a command (port 0x64).
ProcessCommand ==
  /\ inbuf.port = "0x64"
  /\ \/ /\ inbuf.data = 168                     \* 0xA8: enable the mouse port
        /\ config' = ClearBit(config, 5)
        /\ UNCHANGED <<out, expect>>
     \/ /\ inbuf.data = 32                      \* 0x20: report the config
        /\ Len(out) < OutCapacity
        /\ out' = Append(out, [src |-> "ctl", data |-> config,
                               role |-> "reply"])
        /\ UNCHANGED <<expect, config>>
     \/ /\ inbuf.data = 96                      \* 0x60: config follows
        /\ expect' = "config"
        /\ UNCHANGED <<out, config>>
     \/ /\ inbuf.data = 212                     \* 0xD4: byte for the mouse
        /\ expect' = "mouse"
        /\ UNCHANGED <<out, config>>
  /\ inbuf' = Idle
  /\ UNCHANGED <<driver, devices, firmware, raced>>

\* The controller acts on a data byte (port 0x60).  A mouse drops what it was
\* sending when a command reaches it and answers ACK; 0xF6 also stops its
\* reports and 0xF4 starts them.  Without a mouse there is no answer, or the
\* controller's own RESEND.
ProcessData ==
  /\ inbuf.port = "0x60"
  /\ \/ /\ expect = "config"
        /\ config' = inbuf.data
        /\ UNCHANGED <<out, devices>>
     \/ /\ expect = "mouse" /\ present
        /\ devq' = <<[src |-> "aux", data |-> ACK, role |-> "ack"]>>
        /\ streaming' = (inbuf.data = 244)      \* 0xF4
        /\ UNCHANGED <<out, config, present, keys, moves>>
     \/ /\ expect = "mouse" /\ ~present
        /\ \/ UNCHANGED out
           \/ /\ Len(out) < OutCapacity
              /\ out' = Append(out, [src |-> "aux", data |-> RESEND,
                                     role |-> "reply"])
        /\ UNCHANGED <<config, devices>>
  /\ inbuf' = Idle
  /\ expect' = "keyboard"
  /\ UNCHANGED <<driver, firmware, raced>>

Environment ==
  KeyPress \/ MouseMove \/ AuxTransfer \/ ProcessCommand \/ ProcessData

-----------------------------------------------------------------------------
(* The port helpers.                                                       *)

Goto(label) == pc' = label /\ attempt' = 0

\* A helper returned 0: InitializePs2Mouse returns 0 with Enabled still 0.
GiveUp(label) ==
  /\ pc = label
  /\ attempt >= Attempts
  /\ Goto("failed")
  /\ timedOut' = TRUE
  /\ UNCHANGED <<Enabled, controllerConfig, controller, devices, firmware,
                 raced>>

\* Mutant: the loop forgets to count.
NextAttemptNever(n) == n

\* The loop variable of a wait loop after a poll that did not succeed.
NextAttempt(n) == n + 1

\* One poll of Ps2WaitForInputClear that finds the input buffer full.
PollInputFull(label) ==
  /\ pc = label
  /\ attempt < Attempts
  /\ inbuf # Idle
  /\ attempt' = NextAttempt(attempt)
  /\ UNCHANGED <<pc, Enabled, controllerConfig, timedOut, controller, devices,
                 firmware, raced>>

\* Ps2WriteControllerCommand / Ps2WriteControllerData: the write after a poll
\* that found the input buffer empty.
Write(label, port, data, next) ==
  /\ pc = label
  /\ attempt < Attempts
  /\ inbuf = Idle
  /\ inbuf' = [port |-> port, data |-> data]
  /\ Goto(next)
  /\ UNCHANGED <<Enabled, controllerConfig, timedOut, out, expect, config,
                 devices, firmware, raced>>

\* The whole of one write with its wait loop.
WriteStep(label, port, data, next) ==
  PollInputFull(label) \/ Write(label, port, data, next) \/ GiveUp(label)

\* Mutant: the status bit that tells mouse data apart is ignored.
AcceptsAny(requireMouseData, byte) == TRUE

\* Whether Ps2WaitForOutputByte takes a byte: any byte, or one whose status had
\* the auxiliary bit when mouse data is required.
Accepts(requireMouseData, byte) == ~requireMouseData \/ byte.src = "aux"

\* One poll of Ps2WaitForOutputByte that does not succeed: nothing to read, or
\* a byte read and thrown away.
PollOutput(label, requireMouseData) ==
  /\ pc = label
  /\ attempt < Attempts
  /\ \/ out = <<>> /\ UNCHANGED out
     \/ /\ out # <<>>
        /\ ~Accepts(requireMouseData, Head(out))
        /\ out' = Tail(out)
  /\ attempt' = NextAttempt(attempt)
  /\ UNCHANGED <<pc, Enabled, controllerConfig, timedOut, inbuf, expect,
                 config, devices, firmware, raced>>

\* The poll that succeeds takes the first byte.
Take(label, requireMouseData) ==
  /\ pc = label
  /\ attempt < Attempts
  /\ out # <<>>
  /\ Accepts(requireMouseData, Head(out))
  /\ out' = Tail(out)

\* Mutant: the flush is left out.
FlushSkipped(label, next) ==
  /\ pc = label
  /\ Goto(next)
  /\ raced' = raced
  /\ UNCHANGED <<Enabled, controllerConfig, timedOut, controller, devices,
                 firmware>>

\* Ps2FlushOutputBuffer: read and drop until the buffer is empty or the limit
\* is reached; then the next step.
Flush(label, next) ==
  /\ pc = label
  /\ \/ /\ attempt < FlushLimit /\ out # <<>>
        /\ out' = Tail(out)
        /\ attempt' = attempt + 1
        /\ UNCHANGED <<pc, raced>>
     \/ /\ attempt >= FlushLimit \/ out = <<>>
        /\ Goto(next)
        /\ raced' = (raced \/ (label = "flush1" /\ out # <<>>))
        /\ UNCHANGED out
  /\ UNCHANGED <<Enabled, controllerConfig, timedOut, inbuf, expect, config,
                 devices, firmware>>

-----------------------------------------------------------------------------
(* InitializePs2Mouse, step by step.                                       *)

\* The configuration written back: interrupt bit on, mouse clock bit off.
ConfigToWrite(byte) == ClearBit(SetBit(byte, 1), 5)

ReadConfig ==
  \/ PollOutput("readConfig", FALSE)
  \/ GiveUp("readConfig")
  \/ /\ Take("readConfig", FALSE)
     /\ controllerConfig' = ConfigToWrite(Head(out).data)
     /\ Goto("60")
     /\ UNCHANGED <<Enabled, timedOut, inbuf, expect, config, devices,
                    firmware, raced>>

\* Wait for the mouse's answer; anything but ACK ends the initialisation.
AwaitAck(label, next, enables) ==
  \/ PollOutput(label, TRUE)
  \/ GiveUp(label)
  \/ /\ Take(label, TRUE)
     /\ \/ /\ Head(out).data = ACK
           /\ Goto(next)
           /\ Enabled' = enables
        \/ /\ Head(out).data # ACK
           /\ Goto("failed")
           /\ UNCHANGED Enabled
     /\ UNCHANGED <<controllerConfig, timedOut, inbuf, expect, config,
                    devices, firmware, raced>>

\* Mutant: the answer to 0xF4 is not waited for.
AwaitStreamingAckSkipped ==
  /\ pc = "ackF4"
  /\ Goto("enabled")
  /\ Enabled' = TRUE
  /\ UNCHANGED <<controllerConfig, timedOut, controller, devices, firmware,
                 raced>>

AwaitDefaultsAck == AwaitAck("ackF6", "D4F4", FALSE)
AwaitStreamingAck == AwaitAck("ackF4", "enabled", TRUE)

EnablePort == WriteStep("A8", "0x64", 168, "20")
AskConfig == WriteStep("20", "0x64", 32, "readConfig")
AnnounceConfig == WriteStep("60", "0x64", 96, "config")
SendConfig == WriteStep("config", "0x60", controllerConfig, "flush2")
AddressDefaults == WriteStep("D4F6", "0x64", 212, "F6")
SendDefaults == WriteStep("F6", "0x60", 246, "ackF6")
AddressStreaming == WriteStep("D4F4", "0x64", 212, "F4")
SendStreaming == WriteStep("F4", "0x60", 244, "ackF4")

InitializePs2Mouse ==
  \/ Flush("flush1", "A8")
  \/ EnablePort \/ AskConfig
  \/ ReadConfig
  \/ AnnounceConfig \/ SendConfig
  \/ Flush("flush2", "D4F6")
  \/ AddressDefaults \/ SendDefaults \/ AwaitDefaultsAck
  \/ AddressStreaming \/ SendStreaming \/ AwaitStreamingAck

Next == InitializePs2Mouse \/ Environment

Spec == Init /\ [][Next]_vars

\* The driver runs on the only processor with nothing to preempt it.  The
\* controller and the devices may be slow or never answer.
FairSpec == Spec /\ WF_vars(InitializePs2Mouse)

-----------------------------------------------------------------------------
(* Properties.                                                             *)

Finished == pc \in {"enabled", "failed"}

\* Without a mouse InitializePs2Mouse never reports one, whatever the keyboard
\* sends: a key code with the value of an acknowledgement is not one.
NoMouseNoEnable == ~present => ~Enabled

\* A mouse the firmware left silent is always found unless a wait loop ran out:
\* keyboard bytes that arrive at any moment of the handshake, even one taken
\* for the configuration byte, do not make it fail.
SilentMouseIsFound ==
  (pc = "failed" /\ present /\ ~firmware.streaming) => timedOut

\* When the mouse is reported, the controller's configuration is the firmware's
\* with the mouse's interrupt bit set and its clock running; if a key code was
\* taken for it, modified and written back, the two bits at least are right.
ConfigurationWritten ==
  Enabled => IF raced THEN Bit(config, 1) = 1 /\ Bit(config, 5) = 0
                      ELSE config = ConfigToWrite(firmware.config)

\* The first mouse byte behind place i of the controller's buffer, or that the
\* mouse will send if there is none, is the head of a packet.
HeadFollows(buffer, queue, i) ==
  LET mouseBytes == {k \in i + 1 .. Len(buffer) : buffer[k].src = "aux"}
  IN  /\ \A k \in mouseBytes :
           (\A j \in mouseBytes : k <= j) => buffer[k].role = "head"
      /\ mouseBytes = {} /\ queue # <<>> => Head(queue).role = "head"

\* A mouse the firmware left silent is streaming when it is reported, and the
\* first mouse byte UpdateCursorFromPs2Mouse will read is the head of a packet:
\* no acknowledgement is left in the stream to shift the packets.
PacketsStartAligned ==
  (Enabled /\ ~firmware.streaming) => streaming /\ HeadFollows(out, devq, 0)

\* Every wait is bounded: InitializePs2Mouse returns even if the controller or
\* the mouse never answers.
HandshakeReturns == <>Finished

=============================================================================
