------------------------- MODULE Ps2HandshakeProofs -------------------------
(***************************************************************************)
(* Proofs about Ps2Handshake for every number of polls, every buffer size, *)
(* every configuration byte and whatever the keyboard and the mouse send   *)
(* at whatever moment.                                                     *)
(***************************************************************************)
EXTENDS Ps2Handshake, SequenceTheorems, TLAPS

Labels == {"flush1", "A8", "20", "readConfig", "60", "config", "flush2", "D4F6", "F6",
           "ackF6", "D4F4", "F4", "ackF4", "enabled", "failed"}

TypeOK ==
  /\ pc \in Labels
  /\ attempt \in Nat
  /\ Enabled \in BOOLEAN
  /\ controllerConfig \in Byte
  /\ timedOut \in BOOLEAN
  /\ out \in Seq(OutByte)
  /\ inbuf \in [port : {"none", "0x60", "0x64"}, data : Byte]
  /\ expect \in {"keyboard", "config", "mouse"}
  /\ config \in Byte
  /\ present \in BOOLEAN
  /\ streaming \in BOOLEAN
  /\ devq \in Seq(OutByte)
  /\ keys \in Nat /\ moves \in Nat
  /\ firmware \in [streaming : BOOLEAN, config : Byte]
  /\ raced \in BOOLEAN

-----------------------------------------------------------------------------
(* What is in the controller: the byte written last, who the next one is   *)
(* for, and the configuration.                                             *)

Command(data) == [port |-> "0x64", data |-> data]
Data(data) == [port |-> "0x60", data |-> data]

\* The step of the driver says what the controller has still to act on.
ControllerInv ==
  LET left == firmware.config
      enabledPort == ClearBit(left, 5)
      written == controllerConfig
  IN  /\ pc \in {"flush1", "A8"} =>
           inbuf = Idle /\ expect = "keyboard" /\ config = left
      /\ pc = "20" =>
           /\ expect = "keyboard"
           /\ \/ inbuf = Command(168) /\ config = left
              \/ inbuf = Idle /\ config = enabledPort
      /\ pc \in {"readConfig", "60"} =>
           expect = "keyboard" /\ config = enabledPort /\ inbuf \in {Idle, Command(32)}
      /\ pc = "config" =>
           \/ inbuf = Command(96) /\ expect = "keyboard"
           \/ inbuf = Idle /\ expect = "config"
      /\ pc \in {"flush2", "D4F6"} =>
           \/ inbuf = Data(written) /\ expect = "config"
           \/ inbuf = Idle /\ expect = "keyboard" /\ config = written
      /\ pc \in {"F6", "F4"} =>
           /\ config = written
           /\ \/ inbuf = Command(212) /\ expect = "keyboard"
              \/ inbuf = Idle /\ expect = "mouse"
      /\ pc \in {"ackF6", "D4F4"} =>
           /\ config = written
           /\ \/ inbuf = Data(246) /\ expect = "mouse"
              \/ inbuf = Idle /\ expect = "keyboard"
      /\ pc \in {"ackF4", "enabled"} =>
           /\ config = written
           /\ \/ inbuf = Data(244) /\ expect = "mouse"
              \/ inbuf = Idle /\ expect = "keyboard"

\* What the driver takes for the configuration byte.
ConfigInv ==
  LET reply == [src |-> "ctl", data |-> ClearBit(firmware.config, 5), role |-> "reply"]
  IN  /\ pc \in {"A8", "20"} /\ ~raced => out = <<>>
      /\ pc = "readConfig" /\ ~raced =>
           \/ out = <<>>
           \/ out = <<reply>> /\ inbuf = Idle
      /\ pc \in {"60", "config", "flush2", "D4F6", "F6", "ackF6", "D4F4", "F4", "ackF4",
                 "enabled"} =>
           /\ Bit(controllerConfig, 1) = 1 /\ Bit(controllerConfig, 5) = 0
           /\ ~raced => controllerConfig = ConfigToWrite(firmware.config)

-----------------------------------------------------------------------------
(* What is on its way from the mouse.                                      *)

Ack == [src |-> "aux", data |-> ACK, role |-> "ack"]

\* No mouse byte is in the first n places.
Quiet(buffer, n) == \A i \in 1 .. n : buffer[i].src # "aux"

\* The only mouse byte is an acknowledgement.
SoleAck(buffer) ==
  \E i \in 1 .. Len(buffer) :
    buffer[i] = Ack /\ \A j \in 1 .. Len(buffer) : j # i => buffer[j].src # "aux"

\* The first mouse byte is an acknowledgement, and whole packets follow it.
LeadingAck(buffer, queue) ==
  \E i \in 1 .. Len(buffer) :
    buffer[i] = Ack /\ Quiet(buffer, i - 1) /\ HeadFollows(buffer, queue, i)

\* The mouse has nothing to say and nothing of it is waiting.
Resting == ~streaming /\ devq = <<>> /\ Quiet(out, Len(out))

\* Its acknowledgement is not yet in the controller.
AckQueued == inbuf = Idle /\ devq = <<Ack>> /\ Quiet(out, Len(out))

\* Without a mouse, only the controller answers for it.
NoMouseInv ==
  ~present => /\ ~Enabled /\ ~streaming /\ devq = <<>>
              /\ \A i \in 1 .. Len(out) : out[i].src = "aux" => out[i].data = RESEND

\* A mouse the firmware left silent says nothing but what it was asked for.
SilentInv ==
  present /\ ~firmware.streaming =>
    /\ pc \notin {"ackF6", "ackF4", "enabled", "failed"} => Resting
    /\ pc = "D4F4" => inbuf = Idle
    /\ pc = "ackF6" =>
         \/ inbuf # Idle /\ Resting
         \/ ~streaming /\ AckQueued
         \/ inbuf = Idle /\ ~streaming /\ devq = <<>> /\ SoleAck(out)
    /\ pc = "ackF4" =>
         \/ inbuf # Idle /\ Resting
         \/ streaming /\ AckQueued
         \/ inbuf = Idle /\ streaming /\ LeadingAck(out, devq)
    /\ pc = "enabled" => inbuf = Idle /\ streaming /\ HeadFollows(out, devq, 0)
    /\ pc = "failed" => timedOut

\* InitializePs2Mouse reports the mouse as its last step, and only the mouse
\* sends what the controller marks as mouse data.
DriverInv ==
  /\ Enabled = (pc = "enabled")
  /\ \A i \in 1 .. Len(devq) : devq[i].src = "aux"

HandshakeInv == DriverInv /\ ControllerInv /\ ConfigInv /\ NoMouseInv /\ SilentInv

-----------------------------------------------------------------------------
(* The steps of the driver by what they do.                                *)

\* A poll that finds nothing: only the counter moves.
Waits ==
  /\ attempt' \in Nat
  /\ UNCHANGED <<pc, Enabled, controllerConfig, timedOut, controller, devices, firmware, raced>>

\* A wait loop runs out.
Fails ==
  /\ pc \notin {"flush1", "flush2", "enabled", "failed"}
  /\ pc' = "failed" /\ attempt' = 0 /\ timedOut' = TRUE
  /\ UNCHANGED <<Enabled, controllerConfig, controller, devices, firmware, raced>>

\* A byte is read and thrown away.
Drops ==
  /\ pc \in {"flush1", "flush2", "ackF6", "ackF4"}
  /\ out # <<>> /\ out' = Tail(out)
  /\ pc \in {"ackF6", "ackF4"} => Head(out).src # "aux"
  /\ attempt' \in Nat
  /\ UNCHANGED <<pc, Enabled, controllerConfig, timedOut, inbuf, expect, config, devices,
                 firmware, raced>>

FlushEnds(label, next) ==
  /\ pc = label /\ pc' = next /\ attempt' = 0
  /\ raced' = (raced \/ (label = "flush1" /\ out # <<>>))
  /\ UNCHANGED <<Enabled, controllerConfig, timedOut, controller, devices, firmware>>

TakesConfig ==
  /\ pc = "readConfig" /\ pc' = "60" /\ attempt' = 0
  /\ out # <<>> /\ out' = Tail(out)
  /\ controllerConfig' = ConfigToWrite(Head(out).data)
  /\ UNCHANGED <<Enabled, timedOut, inbuf, expect, config, devices, firmware, raced>>

\* The mouse's answer is an acknowledgement, or not.
TakesAnswer(label, next) ==
  /\ pc = label /\ out # <<>> /\ Head(out).src = "aux"
  /\ out' = Tail(out) /\ attempt' = 0
  /\ \/ Head(out).data = ACK /\ pc' = next /\ Enabled' = (next = "enabled")
     \/ Head(out).data # ACK /\ pc' = "failed" /\ UNCHANGED Enabled
  /\ UNCHANGED <<controllerConfig, timedOut, inbuf, expect, config, devices, firmware, raced>>

Writes ==
  \/ Write("A8", "0x64", 168, "20")
  \/ Write("20", "0x64", 32, "readConfig")
  \/ Write("60", "0x64", 96, "config")
  \/ Write("config", "0x60", controllerConfig, "flush2")
  \/ Write("D4F6", "0x64", 212, "F6")
  \/ Write("F6", "0x60", 246, "ackF6")
  \/ Write("D4F4", "0x64", 212, "F4")
  \/ Write("F4", "0x60", 244, "ackF4")

\* Every step of InitializePs2Mouse is one of these.
LEMMA DriverSteps ==
  ASSUME attempt \in Nat, InitializePs2Mouse
  PROVE  \/ Waits \/ Fails \/ Drops \/ Writes \/ TakesConfig
         \/ FlushEnds("flush1", "A8") \/ FlushEnds("flush2", "D4F6")
         \/ TakesAnswer("ackF6", "D4F4") \/ TakesAnswer("ackF4", "enabled")
<1>1. attempt + 1 \in Nat
  OBVIOUS
<1>2. ASSUME NEW label, NEW port, NEW data, NEW next,
             label \notin {"flush1", "flush2", "enabled", "failed"},
             WriteStep(label, port, data, next)
      PROVE  Waits \/ Fails \/ Write(label, port, data, next)
  BY <1>1, <1>2 DEF WriteStep, PollInputFull, GiveUp, Goto, NextAttempt, Waits, Fails
<1>3. ASSUME NEW label \in {"flush1", "flush2"}, NEW next, Flush(label, next)
      PROVE  Drops \/ FlushEnds(label, next)
  BY <1>1, <1>3 DEF Flush, Goto, Drops, FlushEnds, controller
<1>4. ASSUME NEW label \in {"ackF6", "ackF4"}, NEW next, AwaitAck(label, next, next = "enabled")
      PROVE  Waits \/ Drops \/ Fails \/ TakesAnswer(label, next)
  <2>1. CASE PollOutput(label, TRUE)
    BY <1>1, <2>1 DEF PollOutput, Accepts, NextAttempt, Waits, Drops, controller
  <2>2. CASE GiveUp(label)
    BY <2>2 DEF GiveUp, Goto, Fails
  <2>3. CASE ~PollOutput(label, TRUE) /\ ~GiveUp(label)
    BY <1>4, <2>3 DEF AwaitAck, Take, Accepts, Goto, TakesAnswer
  <2> QED
    BY <2>1, <2>2, <2>3
<1>5. ASSUME ReadConfig
      PROVE  Waits \/ Fails \/ TakesConfig
  <2>1. CASE PollOutput("readConfig", FALSE)
    BY <1>1, <2>1 DEF PollOutput, Accepts, NextAttempt, Waits, controller
  <2>2. CASE GiveUp("readConfig")
    BY <2>2 DEF GiveUp, Goto, Fails
  <2>3. CASE ~PollOutput("readConfig", FALSE) /\ ~GiveUp("readConfig")
    BY <1>5, <2>3 DEF ReadConfig, Take, Goto, TakesConfig
  <2> QED
    BY <2>1, <2>2, <2>3
<1>6. CASE EnablePort
  BY <1>2, <1>6 DEF EnablePort, Writes
<1>7. CASE AskConfig
  BY <1>2, <1>7 DEF AskConfig, Writes
<1>8. CASE AnnounceConfig
  BY <1>2, <1>8 DEF AnnounceConfig, Writes
<1>9. CASE SendConfig
  BY <1>2, <1>9 DEF SendConfig, Writes
<1>10. CASE AddressDefaults
  BY <1>2, <1>10 DEF AddressDefaults, Writes
<1>11. CASE SendDefaults
  BY <1>2, <1>11 DEF SendDefaults, Writes
<1>12. CASE AddressStreaming
  BY <1>2, <1>12 DEF AddressStreaming, Writes
<1>13. CASE SendStreaming
  BY <1>2, <1>13 DEF SendStreaming, Writes
<1>14. CASE AwaitDefaultsAck
  <2>1. AwaitAck("ackF6", "D4F4", "D4F4" = "enabled")
    BY <1>14, ("D4F4" = "enabled") = FALSE DEF AwaitDefaultsAck
  <2> QED
    BY <1>4, <2>1
<1>15. CASE AwaitStreamingAck
  <2>1. AwaitAck("ackF4", "enabled", "enabled" = "enabled")
    BY <1>15, ("enabled" = "enabled") = TRUE DEF AwaitStreamingAck
  <2> QED
    BY <1>4, <2>1
<1> QED
  BY <1>3, <1>5, <1>6, <1>7, <1>8, <1>9, <1>10, <1>11, <1>12, <1>13, <1>14, <1>15
     DEF InitializePs2Mouse

\* The steps of the whole system.
LEMMA AllSteps ==
  ASSUME attempt \in Nat, [Next]_vars
  PROVE  \/ Waits \/ Fails \/ Drops \/ Writes \/ TakesConfig
         \/ FlushEnds("flush1", "A8") \/ FlushEnds("flush2", "D4F6")
         \/ TakesAnswer("ackF6", "D4F4") \/ TakesAnswer("ackF4", "enabled")
         \/ KeyPress \/ MouseMove \/ AuxTransfer \/ ProcessCommand \/ ProcessData
         \/ UNCHANGED vars
  BY DriverSteps DEF Next, Environment

-----------------------------------------------------------------------------
(* Bits of the configuration.                                              *)

LEMMA ConfigBits ==
  ASSUME NEW b \in Byte
  PROVE  /\ ClearBit(b, 5) \in Byte
         /\ ConfigToWrite(b) \in Byte
         /\ Bit(ConfigToWrite(b), 1) = 1 /\ Bit(ConfigToWrite(b), 5) = 0
         /\ ConfigToWrite(ClearBit(b, 5)) = ConfigToWrite(b)
  BY DEF Byte, ConfigToWrite, SetBit, ClearBit, Bit

-----------------------------------------------------------------------------
(* Types.                                                                  *)

LEMMA ByteTypes ==
  /\ \A code \in Scancodes : [src |-> "kbd", data |-> code, role |-> "key"] \in OutByte
  /\ \A dx, dy \in Motions :
       <<[src |-> "aux", data |-> 8, role |-> "head"],
         [src |-> "aux", data |-> dx, role |-> "dx"],
         [src |-> "aux", data |-> dy, role |-> "dy"]>> \in Seq(OutByte)
  /\ \A c \in Byte : [src |-> "ctl", data |-> c, role |-> "reply"] \in OutByte
  /\ Ack \in OutByte /\ <<Ack>> \in Seq(OutByte)
  /\ [src |-> "aux", data |-> RESEND, role |-> "reply"] \in OutByte
<1>1. \A d \in Byte, r \in {"head", "dx", "dy"} :
        [src |-> "aux", data |-> d, role |-> r] \in OutByte
  BY DEF OutByte
<1>2. \A dx, dy \in Motions :
       <<[src |-> "aux", data |-> 8, role |-> "head"],
         [src |-> "aux", data |-> dx, role |-> "dx"],
         [src |-> "aux", data |-> dy, role |-> "dy"]>> \in Seq(OutByte)
  <2> SUFFICES ASSUME NEW dx \in Motions, NEW dy \in Motions
               PROVE  <<[src |-> "aux", data |-> 8, role |-> "head"],
                        [src |-> "aux", data |-> dx, role |-> "dx"],
                        [src |-> "aux", data |-> dy, role |-> "dy"]>> \in Seq(OutByte)
    OBVIOUS
  <2> DEFINE h == [src |-> "aux", data |-> 8, role |-> "head"]
             x == [src |-> "aux", data |-> dx, role |-> "dx"]
             y == [src |-> "aux", data |-> dy, role |-> "dy"]
  <2>1. 8 \in Byte /\ dx \in Byte /\ dy \in Byte
    BY BytesAssumption DEF Byte
  <2>2. h \in OutByte /\ x \in OutByte /\ y \in OutByte
    BY <2>1 DEF OutByte
  <2> HIDE DEF h, x, y
  <2>3. <<h, x, y>> \in Seq(OutByte)
    BY <2>2
  <2> QED
    BY <2>3 DEF h, x, y
<1>3. Ack \in OutByte /\ [src |-> "aux", data |-> RESEND, role |-> "reply"] \in OutByte
  BY DEF Ack, ACK, RESEND, OutByte, Byte
<1>4. \A code \in Scancodes : [src |-> "kbd", data |-> code, role |-> "key"] \in OutByte
  BY BytesAssumption DEF OutByte
<1>5. \A c \in Byte : [src |-> "ctl", data |-> c, role |-> "reply"] \in OutByte
  BY DEF OutByte
<1>6. <<Ack>> \in Seq(OutByte)
  BY <1>3
<1> QED
  BY <1>2, <1>3, <1>4, <1>5, <1>6

\* Reading a byte from the buffer.
LEMMA TailType ==
  ASSUME NEW q \in Seq(OutByte), q # <<>>
  PROVE  /\ Head(q) \in OutByte /\ Head(q) = q[1] /\ Head(q).data \in Byte
         /\ Tail(q) \in Seq(OutByte) /\ Len(q) \in Nat /\ Len(q) >= 1
         /\ Len(Tail(q)) = Len(q) - 1
         /\ \A i \in 1 .. Len(q) - 1 : Tail(q)[i] = q[i + 1]
<1>1. Head(q) \in OutByte /\ Head(q) = q[1] /\ Tail(q) \in Seq(OutByte)
      /\ Len(q) \in Nat /\ Len(q) >= 1 /\ Len(Tail(q)) = Len(q) - 1
      /\ \A i \in 1 .. Len(q) - 1 : Tail(q)[i] = q[i + 1]
  BY HeadTailProperties, LenProperties, EmptySeq
<1> QED
  BY <1>1 DEF OutByte

\* Every variable has its type, whatever the devices send.
THEOREM TypeCorrect == Spec => []TypeOK
<1>1. Init => TypeOK
  <2> SUFFICES ASSUME Init PROVE TypeOK
    OBVIOUS
  <2>1. out \in Seq(OutByte)
    <3>1. PICK stale \in BOOLEAN, code \in Scancodes :
            out = IF stale THEN <<[src |-> "kbd", data |-> code, role |-> "key"]>> ELSE <<>>
      BY DEF Init
    <3> DEFINE b == [src |-> "kbd", data |-> code, role |-> "key"]
    <3>2. b \in OutByte
      BY ByteTypes
    <3> HIDE DEF b
    <3>3. <<b>> \in Seq(OutByte) /\ <<>> \in Seq(OutByte)
      BY <3>2
    <3> QED
      BY <3>1, <3>3 DEF b
  <2>2. config \in Byte /\ firmware \in [streaming : BOOLEAN, config : Byte]
        /\ streaming \in BOOLEAN /\ present \in BOOLEAN
    BY BytesAssumption DEF Init
  <2>3. inbuf \in [port : {"none", "0x60", "0x64"}, data : Byte] /\ controllerConfig \in Byte
    BY DEF Init, Idle, Byte
  <2>4. pc \in Labels /\ attempt \in Nat /\ keys \in Nat /\ moves \in Nat
        /\ expect \in {"keyboard", "config", "mouse"}
    BY DEF Init, Labels
  <2>5. Enabled \in BOOLEAN /\ timedOut \in BOOLEAN /\ raced \in BOOLEAN
    BY DEF Init
  <2>6. devq \in Seq(OutByte)
    BY DEF Init
  <2> QED
    BY <2>1, <2>2, <2>3, <2>4, <2>5, <2>6 DEF TypeOK
<1>2. TypeOK /\ [Next]_vars => TypeOK'
  <2> SUFFICES ASSUME TypeOK, [Next]_vars PROVE TypeOK'
    OBVIOUS
  <2> USE DEF TypeOK, driver, controller, devices
  <2>1. CASE Waits
    BY <2>1 DEF Waits
  <2>2. CASE Fails
    BY <2>2 DEF Fails, Labels
  <2>3. CASE Drops
    BY <2>3, TailType DEF Drops
  <2>4. CASE FlushEnds("flush1", "A8") \/ FlushEnds("flush2", "D4F6")
    <3>1. raced' \in BOOLEAN
      BY <2>4 DEF FlushEnds
    <3>2. pc' \in Labels /\ attempt' \in Nat
      BY <2>4 DEF FlushEnds, Labels
    <3> QED
      BY <2>4, <3>1, <3>2 DEF FlushEnds
  <2>5. CASE TakesConfig
    <3>1. controllerConfig' \in Byte
      BY <2>5, TailType, ConfigBits DEF TakesConfig
    <3>2. out' \in Seq(OutByte)
      BY <2>5, TailType DEF TakesConfig
    <3> QED
      BY <2>5, <3>1, <3>2 DEF TakesConfig, Labels
  <2>6. CASE TakesAnswer("ackF6", "D4F4") \/ TakesAnswer("ackF4", "enabled")
    <3>1. Enabled' \in BOOLEAN
      BY <2>6 DEF TakesAnswer
    <3>2. out' \in Seq(OutByte)
      BY <2>6, TailType DEF TakesAnswer
    <3>3. pc' \in Labels /\ attempt' \in Nat
      BY <2>6 DEF TakesAnswer, Labels
    <3> QED
      BY <2>6, <3>1, <3>2, <3>3 DEF TakesAnswer
  <2>7. CASE Writes
    <3>1. \A port \in {"0x60", "0x64"}, data \in Byte :
            [port |-> port, data |-> data] \in [port : {"none", "0x60", "0x64"}, data : Byte]
      OBVIOUS
    <3>2. {168, 32, 96, 212, 246, 244} \subseteq Byte
      BY DEF Byte
    <3>3. inbuf' \in [port : {"none", "0x60", "0x64"}, data : Byte]
      BY <2>7, <3>1, <3>2 DEF Writes, Write
    <3> QED
      BY <2>7, <3>3 DEF Writes, Write, Goto, Labels
  <2>8. CASE KeyPress
    BY <2>8, ByteTypes, AppendProperties DEF KeyPress
  <2>9. CASE MouseMove
    BY <2>9, ByteTypes DEF MouseMove
  <2>10. CASE AuxTransfer
    BY <2>10, TailType, AppendProperties DEF AuxTransfer
  <2>11. CASE ProcessCommand
    <3>1. ClearBit(config, 5) \in Byte
      BY ConfigBits
    <3>2. Idle \in [port : {"none", "0x60", "0x64"}, data : Byte]
      BY DEF Idle, Byte
    <3>3. config' \in Byte /\ expect' \in {"keyboard", "config", "mouse"}
      BY <2>11, <3>1 DEF ProcessCommand
    <3>4. out' \in Seq(OutByte)
      <4> DEFINE b == [src |-> "ctl", data |-> config, role |-> "reply"]
      <4>1. b \in OutByte
        BY ByteTypes
      <4>2. out' = out \/ out' = Append(out, b)
        BY <2>11 DEF ProcessCommand
      <4> HIDE DEF b
      <4> QED
        BY <4>1, <4>2, AppendProperties
    <3> QED
      BY <2>11, <3>2, <3>3, <3>4 DEF ProcessCommand
  <2>12. CASE ProcessData
    <3>1. Idle \in [port : {"none", "0x60", "0x64"}, data : Byte]
      BY DEF Idle, Byte
    <3>2. out' \in Seq(OutByte)
      <4> DEFINE b == [src |-> "aux", data |-> RESEND, role |-> "reply"]
      <4>1. b \in OutByte
        BY ByteTypes
      <4>2. out' = out \/ out' = Append(out, b)
        BY <2>12 DEF ProcessData
      <4> HIDE DEF b
      <4> QED
        BY <4>1, <4>2, AppendProperties
    <3>3. devq' \in Seq(OutByte)
      BY <2>12, ByteTypes, ZenonT(40) DEF ProcessData, Ack
    <3>4. config' \in Byte
      BY <2>12 DEF ProcessData
    <3>5. present' \in BOOLEAN /\ streaming' \in BOOLEAN /\ keys' \in Nat /\ moves' \in Nat
      BY <2>12 DEF ProcessData
    <3> QED
      BY <2>12, <3>1, <3>2, <3>3, <3>4, <3>5 DEF ProcessData
  <2>13. CASE UNCHANGED vars
    BY <2>13 DEF vars
  <2> QED
    BY <2>1, <2>2, <2>3, <2>4, <2>5, <2>6, <2>7, <2>8, <2>9, <2>10, <2>11, <2>12, <2>13,
       AllSteps
<1> QED
  BY <1>1, <1>2, PTL DEF Spec

-----------------------------------------------------------------------------
(* The driver and the controller.                                          *)

LEMMA DriverHolds ==
  ASSUME TypeOK, DriverInv, [Next]_vars
  PROVE  DriverInv'
<1> USE DEF DriverInv, driver, controller, devices
<1>1. CASE Waits
  BY <1>1 DEF Waits
<1>2. CASE Fails
  BY <1>2 DEF Fails
<1>3. CASE Drops
  BY <1>3 DEF Drops
<1>4. CASE FlushEnds("flush1", "A8") \/ FlushEnds("flush2", "D4F6")
  BY <1>4 DEF FlushEnds
<1>5. CASE TakesConfig
  BY <1>5 DEF TakesConfig
<1>6. CASE TakesAnswer("ackF6", "D4F4") \/ TakesAnswer("ackF4", "enabled")
  BY <1>6 DEF TakesAnswer
<1>7. CASE Writes
  BY <1>7 DEF Writes, Write, Goto
<1>8. CASE KeyPress
  BY <1>8 DEF KeyPress
<1>9. CASE MouseMove
  <2>1. \A i \in 1 .. Len(devq') : devq'[i].src = "aux"
    BY <1>9 DEF MouseMove
  <2> QED
    BY <1>9, <2>1 DEF MouseMove
<1>10. CASE AuxTransfer
  <2>1. devq \in Seq(OutByte) /\ devq # <<>> /\ devq' = Tail(devq)
    BY <1>10 DEF AuxTransfer, TypeOK
  <2>2. Len(devq) \in Nat /\ Len(devq') = Len(devq) - 1
        /\ \A i \in 1 .. Len(devq) - 1 : devq'[i] = devq[i + 1]
    BY <2>1, TailType
  <2>3. \A i \in 1 .. Len(devq') : devq'[i].src = "aux"
    BY <2>2
  <2> QED
    BY <1>10, <2>3 DEF AuxTransfer
<1>11. CASE ProcessCommand
  BY <1>11 DEF ProcessCommand
<1>12. CASE ProcessData
  <2>1. devq' = devq \/ devq' = <<Ack>>
    BY <1>12 DEF ProcessData, Ack
  <2>2. \A i \in 1 .. Len(devq') : devq'[i].src = "aux"
    BY <2>1 DEF Ack
  <2> QED
    BY <1>12, <2>2 DEF ProcessData
<1>13. CASE UNCHANGED vars
  BY <1>13 DEF vars
<1> QED
  BY <1>1, <1>2, <1>3, <1>4, <1>5, <1>6, <1>7, <1>8, <1>9, <1>10, <1>11, <1>12, <1>13,
     AllSteps DEF TypeOK

\* The contents of the input buffer can be told apart.
LEMMA InputBytes ==
  /\ Idle.port = "none"
  /\ \A d : Command(d).port = "0x64" /\ Command(d).data = d /\ Command(d) # Idle
  /\ \A d : Data(d).port = "0x60" /\ Data(d).data = d /\ Data(d) # Idle
  /\ \A d, e : Command(d) # Data(e)
  BY DEF Idle, Command, Data

LEMMA ControllerHolds ==
  ASSUME TypeOK, ControllerInv, [Next]_vars
  PROVE  ControllerInv'
<1> USE DEF ControllerInv, driver, controller, devices
<1>1. CASE Waits
  BY <1>1 DEF Waits
<1>2. CASE Fails
  BY <1>2 DEF Fails
<1>3. CASE Drops
  BY <1>3 DEF Drops
<1>4. CASE FlushEnds("flush1", "A8") \/ FlushEnds("flush2", "D4F6")
  BY <1>4 DEF FlushEnds
<1>5. CASE TakesConfig
  BY <1>5 DEF TakesConfig
<1>6. CASE TakesAnswer("ackF6", "D4F4") \/ TakesAnswer("ackF4", "enabled")
  BY <1>6 DEF TakesAnswer
<1>7. CASE Writes
  <2>1. CASE Write("A8", "0x64", 168, "20")
    BY <2>1 DEF Write, Goto, Command
  <2>2. CASE Write("20", "0x64", 32, "readConfig")
    BY <2>2, InputBytes DEF Write, Goto, Command
  <2>3. CASE Write("60", "0x64", 96, "config")
    BY <2>3, InputBytes DEF Write, Goto, Command
  <2>4. CASE Write("config", "0x60", controllerConfig, "flush2")
    BY <2>4, InputBytes DEF Write, Goto, Data
  <2>5. CASE Write("D4F6", "0x64", 212, "F6")
    BY <2>5, InputBytes DEF Write, Goto, Command
  <2>6. CASE Write("F6", "0x60", 246, "ackF6")
    BY <2>6, InputBytes DEF Write, Goto, Data
  <2>7. CASE Write("D4F4", "0x64", 212, "F4")
    BY <2>7, InputBytes DEF Write, Goto, Command
  <2>8. CASE Write("F4", "0x60", 244, "ackF4")
    BY <2>8, InputBytes DEF Write, Goto, Data
  <2> QED
    BY <1>7, <2>1, <2>2, <2>3, <2>4, <2>5, <2>6, <2>7, <2>8 DEF Writes
<1>8. CASE KeyPress
  BY <1>8 DEF KeyPress
<1>9. CASE MouseMove
  BY <1>9 DEF MouseMove
<1>10. CASE AuxTransfer
  BY <1>10 DEF AuxTransfer
<1>11. CASE ProcessCommand
  BY <1>11, InputBytes DEF ProcessCommand
<1>12. CASE ProcessData
  BY <1>12, InputBytes DEF ProcessData
<1>13. CASE UNCHANGED vars
  BY <1>13 DEF vars
<1> QED
  BY <1>1, <1>2, <1>3, <1>4, <1>5, <1>6, <1>7, <1>8, <1>9, <1>10, <1>11, <1>12, <1>13,
     AllSteps DEF TypeOK

LEMMA ConfigHolds ==
  ASSUME TypeOK, ControllerInv, ConfigInv, [Next]_vars
  PROVE  ConfigInv'
<1> USE DEF ConfigInv, driver, controller, devices
<1>1. CASE Waits
  BY <1>1 DEF Waits
<1>2. CASE Fails
  BY <1>2 DEF Fails
<1>3. CASE Drops
  BY <1>3 DEF Drops
<1>4. CASE FlushEnds("flush1", "A8") \/ FlushEnds("flush2", "D4F6")
  BY <1>4 DEF FlushEnds
<1>5. CASE TakesConfig
  <2> DEFINE left == ClearBit(firmware.config, 5)
             reply == [src |-> "ctl", data |-> left, role |-> "reply"]
  <2>1. Head(out).data \in Byte /\ firmware.config \in Byte
    BY <1>5, TailType DEF TakesConfig, TypeOK
  <2>2. ~raced => Head(out).data = left
    <3>1. ~raced => out = <<reply>>
      BY <1>5 DEF TakesConfig
    <3>2. reply.data = left
      OBVIOUS
    <3> HIDE DEF reply, left
    <3>3. Head(<<reply>>) = reply
      OBVIOUS
    <3> QED
      BY <3>1, <3>2, <3>3
  <2> QED
    BY <1>5, <2>1, <2>2, ConfigBits DEF TakesConfig
<1>6. CASE TakesAnswer("ackF6", "D4F4") \/ TakesAnswer("ackF4", "enabled")
  BY <1>6 DEF TakesAnswer
<1>7. CASE Writes
  BY <1>7 DEF Writes, Write, Goto
<1>8. CASE KeyPress
  BY <1>8 DEF KeyPress, ReadingConfig
<1>9. CASE MouseMove
  BY <1>9 DEF MouseMove
<1>10. CASE AuxTransfer
  BY <1>10 DEF AuxTransfer, ReadingConfig
<1>11. CASE ProcessCommand
  <2>1. CASE pc \in {"A8", "20"}
    BY <1>11, <2>1, InputBytes DEF ProcessCommand, ControllerInv
  <2>2. CASE pc = "readConfig"
    <3> DEFINE reply == [src |-> "ctl", data |-> ClearBit(firmware.config, 5), role |-> "reply"]
    <3>1. inbuf = Command(32) /\ config = ClearBit(firmware.config, 5)
      BY <1>11, <2>2, InputBytes DEF ProcessCommand, ControllerInv
    <3>2. out' = Append(out, reply) /\ inbuf' = Idle
      BY <1>11, <3>1, InputBytes DEF ProcessCommand
    <3>3. ~raced => out = <<>>
      BY <2>2, <3>1, InputBytes
    <3>4. ~raced => out' = <<reply>>
      <4> HIDE DEF reply
      <4> QED
        BY <3>2, <3>3
    <3> QED
      BY <1>11, <2>2, <3>2, <3>4 DEF ProcessCommand
  <2>3. CASE pc \notin {"A8", "20", "readConfig"}
    BY <1>11, <2>3 DEF ProcessCommand
  <2> QED
    BY <2>1, <2>2, <2>3
<1>12. CASE ProcessData
  BY <1>12, InputBytes DEF ProcessData, ControllerInv
<1>13. CASE UNCHANGED vars
  BY <1>13 DEF vars
<1> QED
  BY <1>1, <1>2, <1>3, <1>4, <1>5, <1>6, <1>7, <1>8, <1>9, <1>10, <1>11, <1>12, <1>13,
     AllSteps DEF TypeOK

-----------------------------------------------------------------------------
(* What the driver reads for the mouse.                                    *)

\* What an appended byte leaves in place.
LEMMA Appended ==
  ASSUME NEW q \in Seq(OutByte), NEW b \in OutByte
  PROVE  /\ Append(q, b) \in Seq(OutByte) /\ Len(q) \in Nat
         /\ Len(Append(q, b)) = Len(q) + 1
         /\ \A i \in 1 .. Len(q) : Append(q, b)[i] = q[i]
         /\ Append(q, b)[Len(q) + 1] = b
  BY AppendProperties, LenProperties

LEMMA NoMouseHolds ==
  ASSUME TypeOK, DriverInv, ControllerInv, NoMouseInv, [Next]_vars
  PROVE  NoMouseInv'
<1> DEFINE Resent(q) == \A i \in 1 .. Len(q) : q[i].src = "aux" => q[i].data = RESEND
<1>1. ASSUME NEW q \in Seq(OutByte), q # <<>>, Resent(q)
      PROVE  Resent(Tail(q))
  BY <1>1, TailType
<1>2. ASSUME NEW q \in Seq(OutByte), NEW b \in OutByte, Resent(q),
             b.src = "aux" => b.data = RESEND
      PROVE  Resent(Append(q, b))
  <2> SUFFICES ASSUME NEW i \in 1 .. Len(Append(q, b)), Append(q, b)[i].src = "aux"
               PROVE  Append(q, b)[i].data = RESEND
    OBVIOUS
  <2>1. i \in 1 .. Len(q) \/ i = Len(q) + 1
    BY Appended
  <2> QED
    BY <1>2, <2>1, Appended
<1>3. NoMouseInv <=> (~present => ~Enabled /\ ~streaming /\ devq = <<>> /\ Resent(out))
  BY DEF NoMouseInv
<1>4. NoMouseInv' <=> (~present' => ~Enabled' /\ ~streaming' /\ devq' = <<>> /\ Resent(out'))
  BY DEF NoMouseInv
<1>5. out \in Seq(OutByte)
  BY DEF TypeOK
<1> USE DEF driver, controller, devices
<1> HIDE DEF Resent
<1> SUFFICES ASSUME ~present'
             PROVE  ~Enabled' /\ ~streaming' /\ devq' = <<>> /\ Resent(out')
  BY <1>4
<1>6. present' = present
  BY AllSteps DEF TypeOK, Waits, Fails, Drops, Writes, Write, TakesConfig, FlushEnds, TakesAnswer,
     KeyPress, MouseMove, AuxTransfer, ProcessCommand, ProcessData, vars
<1>7. ~Enabled /\ ~streaming /\ devq = <<>> /\ Resent(out)
  BY <1>3, <1>6
<1>8. CASE Waits
  BY <1>7, <1>8 DEF Waits
<1>9. CASE Fails
  BY <1>7, <1>9 DEF Fails
<1>10. CASE Drops
  BY <1>1, <1>5, <1>7, <1>10 DEF Drops
<1>11. CASE FlushEnds("flush1", "A8") \/ FlushEnds("flush2", "D4F6")
  BY <1>7, <1>11 DEF FlushEnds
<1>12. CASE TakesConfig
  BY <1>1, <1>5, <1>7, <1>12 DEF TakesConfig
<1>13. CASE TakesAnswer("ackF6", "D4F4") \/ TakesAnswer("ackF4", "enabled")
  <2>1. out # <<>> /\ out' = Tail(out) /\ Head(out).src = "aux"
    BY <1>13 DEF TakesAnswer
  <2>2. Head(out).data = RESEND
    BY <1>5, <1>7, <2>1, TailType DEF Resent
  <2>3. Enabled' = Enabled
    BY <1>13, <2>2 DEF TakesAnswer, ACK, RESEND
  <2> QED
    BY <1>1, <1>5, <1>7, <1>13, <2>1, <2>3 DEF TakesAnswer
<1>14. CASE Writes
  BY <1>7, <1>14 DEF Writes, Write
<1>15. CASE KeyPress
  <2>1. PICK code \in Scancodes :
          out' = Append(out, [src |-> "kbd", data |-> code, role |-> "key"])
    BY <1>15 DEF KeyPress
  <2>2. Resent(out')
    BY <1>2, <1>5, <1>7, <2>1, ByteTypes
  <2> QED
    BY <1>7, <1>15, <2>2 DEF KeyPress
<1>16. CASE MouseMove
  BY <1>7, <1>16 DEF MouseMove
<1>17. CASE AuxTransfer
  BY <1>7, <1>17 DEF AuxTransfer
<1>18. CASE ProcessCommand
  <2> DEFINE b == [src |-> "ctl", data |-> config, role |-> "reply"]
  <2>1. out' = out \/ out' = Append(out, b)
    BY <1>18 DEF ProcessCommand
  <2>2. b \in OutByte /\ b.src = "ctl"
    BY ByteTypes DEF TypeOK
  <2> HIDE DEF b
  <2>3. Resent(out')
    BY <1>2, <1>5, <1>7, <2>1, <2>2
  <2> QED
    BY <1>7, <1>18, <2>3 DEF ProcessCommand
<1>19. CASE ProcessData
  <2> DEFINE b == [src |-> "aux", data |-> RESEND, role |-> "reply"]
  <2>1. out' = out \/ out' = Append(out, b)
    BY <1>19 DEF ProcessData
  <2>2. b \in OutByte /\ b.data = RESEND
    BY ByteTypes
  <2> HIDE DEF b
  <2>3. Resent(out')
    BY <1>2, <1>5, <1>7, <2>1, <2>2
  <2> QED
    BY <1>6, <1>7, <1>19, <2>3 DEF ProcessData
<1>20. CASE UNCHANGED vars
  BY <1>7, <1>20 DEF vars
<1> QED
  BY <1>8, <1>9, <1>10, <1>11, <1>12, <1>13, <1>14, <1>15, <1>16, <1>17, <1>18, <1>19, <1>20,
     AllSteps DEF TypeOK

-----------------------------------------------------------------------------
(* Packets behind the acknowledgement.                                     *)

\* A byte that is not the mouse's does not disturb its packets.
LEMMA FollowsAppend ==
  ASSUME NEW q \in Seq(OutByte), NEW b \in OutByte, b.src # "aux",
         NEW d, NEW i \in 0 .. Len(q), HeadFollows(q, d, i)
  PROVE  HeadFollows(Append(q, b), d, i)
<1> DEFINE S(r) == {k \in i + 1 .. Len(r) : r[k].src = "aux"}
<1>1. S(Append(q, b)) = S(q)
  <2>1. ASSUME NEW k \in i + 1 .. Len(Append(q, b)), Append(q, b)[k].src = "aux"
        PROVE  k \in i + 1 .. Len(q) /\ q[k].src = "aux"
    <3>1. k \in 1 .. Len(q) \/ k = Len(q) + 1
      BY Appended
    <3> QED
      BY <2>1, <3>1, Appended
  <2>2. ASSUME NEW k \in i + 1 .. Len(q), q[k].src = "aux"
        PROVE  k \in i + 1 .. Len(Append(q, b)) /\ Append(q, b)[k].src = "aux"
    BY <2>2, Appended
  <2> QED
    BY <2>1, <2>2
<1>2. \A k \in S(q) : Append(q, b)[k] = q[k]
  BY Appended
<1> QED
  BY <1>1, <1>2 DEF HeadFollows

\* The controller takes the mouse's next byte.
LEMMA FollowsTransfer ==
  ASSUME NEW q \in Seq(OutByte), NEW d \in Seq(OutByte), d # <<>>, Head(d).src = "aux",
         NEW i \in 0 .. Len(q), HeadFollows(q, d, i)
  PROVE  HeadFollows(Append(q, Head(d)), Tail(d), i)
<1> DEFINE b == Head(d)
           r == Append(q, b)
           S(x) == {k \in i + 1 .. Len(x) : x[k].src = "aux"}
<1>1. b \in OutByte /\ b.src = "aux"
  BY TailType
<1> HIDE DEF b
<1>2. Len(q) \in Nat /\ Len(r) = Len(q) + 1 /\ r[Len(q) + 1] = b
      /\ \A k \in 1 .. Len(q) : r[k] = q[k]
  BY <1>1, Appended
<1> HIDE DEF r
<1>3. Len(q) + 1 \in S(r)
  BY <1>1, <1>2
<1>4. ASSUME NEW k \in S(r), \A j \in S(r) : k <= j
      PROVE  r[k].role = "head"
  <2>1. k \in S(q) \/ k = Len(q) + 1
    BY <1>2
  <2>2. S(q) \subseteq S(r)
    BY <1>2
  <2>3. CASE k \in S(q)
    <3>1. \A j \in S(q) : k <= j
      BY <1>4, <2>2
    <3>2. q[k].role = "head"
      BY <2>3, <3>1 DEF HeadFollows
    <3> QED
      BY <1>2, <2>3, <3>2
  <2>4. CASE k = Len(q) + 1
    <3>1. S(q) = {}
      BY <1>2, <1>4, <2>2, <2>4
    <3>2. b.role = "head"
      BY <3>1 DEF HeadFollows, b
    <3> QED
      BY <1>2, <2>4, <3>2
  <2> QED
    BY <2>1, <2>3, <2>4
<1>5. HeadFollows(r, Tail(d), i)
  BY <1>3, <1>4 DEF HeadFollows
<1> QED
  BY <1>5 DEF r, b

\* A mouse with nothing to send starts a packet.
LEMMA FollowsMove ==
  ASSUME NEW q, NEW i, NEW d, d # <<>>, Head(d).role = "head", HeadFollows(q, <<>>, i)
  PROVE  HeadFollows(q, d, i)
  BY DEF HeadFollows

\* The byte in front is read.
LEMMA FollowsTail ==
  ASSUME NEW q \in Seq(OutByte), q # <<>>, NEW d, NEW i \in Nat, HeadFollows(q, d, i + 1)
  PROVE  HeadFollows(Tail(q), d, i)
<1> DEFINE S(x, n) == {k \in n + 1 .. Len(x) : x[k].src = "aux"}
           r == Tail(q)
<1>1. Len(q) \in Nat /\ Len(r) = Len(q) - 1 /\ \A k \in 1 .. Len(q) - 1 : r[k] = q[k + 1]
  BY TailType
<1> HIDE DEF r
<1>2. \A k \in S(r, i) : k \in Nat /\ k + 1 \in S(q, i + 1) /\ r[k] = q[k + 1]
  BY <1>1
<1>3. \A k \in S(q, i + 1) : k \in Nat /\ k - 1 \in S(r, i)
  <2> SUFFICES ASSUME NEW k \in S(q, i + 1) PROVE k \in Nat /\ k - 1 \in S(r, i)
    OBVIOUS
  <2>1. k - 1 \in i + 1 .. Len(r) /\ k - 1 \in 1 .. Len(q) - 1 /\ (k - 1) + 1 = k /\ k \in Nat
    BY <1>1
  <2>2. r[k - 1] = q[k]
    BY <1>1, <2>1
  <2> QED
    BY <2>1, <2>2
<1>4. ASSUME NEW k \in S(r, i), \A j \in S(r, i) : k <= j
      PROVE  r[k].role = "head"
  <2>1. \A j \in S(q, i + 1) : k + 1 <= j
    <3> SUFFICES ASSUME NEW j \in S(q, i + 1) PROVE k + 1 <= j
      OBVIOUS
    <3>1. j \in Nat /\ j - 1 \in S(r, i) /\ k \in Nat
      BY <1>2, <1>3
    <3>2. k <= j - 1
      BY <1>4, <3>1
    <3> QED
      BY <3>1, <3>2
  <2>2. k + 1 \in S(q, i + 1) /\ r[k] = q[k + 1]
    BY <1>2
  <2>3. q[k + 1].role = "head"
    BY <2>1, <2>2 DEF HeadFollows
  <2> QED
    BY <2>2, <2>3
<1>5. S(r, i) = {} => S(q, i + 1) = {}
  BY <1>3
<1>6. HeadFollows(r, d, i)
  BY <1>4, <1>5 DEF HeadFollows
<1> QED
  BY <1>6 DEF r

\* A byte that is not the mouse's arrives.
LEMMA OtherByteArrives ==
  ASSUME NEW q \in Seq(OutByte), NEW b \in OutByte, b.src # "aux", NEW d
  PROVE  /\ Quiet(q, Len(q)) => Quiet(Append(q, b), Len(Append(q, b)))
         /\ SoleAck(q) => SoleAck(Append(q, b))
         /\ LeadingAck(q, d) => LeadingAck(Append(q, b), d)
<1> DEFINE r == Append(q, b)
<1>1. Len(q) \in Nat /\ Len(r) = Len(q) + 1 /\ r[Len(q) + 1] = b
      /\ \A k \in 1 .. Len(q) : r[k] = q[k]
  BY Appended
<1>2. ASSUME NEW i \in 0 .. Len(q), HeadFollows(q, d, i)
      PROVE  HeadFollows(r, d, i)
  BY <1>2, FollowsAppend
<1> HIDE DEF r
<1>3. \A k \in 1 .. Len(r) : k \in 1 .. Len(q) \/ k = Len(q) + 1
  BY <1>1
<1>4. Quiet(q, Len(q)) => Quiet(r, Len(r))
  BY <1>1, <1>3 DEF Quiet
<1>5. SoleAck(q) => SoleAck(r)
  <2> SUFFICES ASSUME NEW i \in 1 .. Len(q), q[i] = Ack,
                      \A j \in 1 .. Len(q) : j # i => q[j].src # "aux"
               PROVE  SoleAck(r)
    BY DEF SoleAck
  <2>1. i \in 1 .. Len(r) /\ r[i] = Ack
    BY <1>1
  <2>2. \A j \in 1 .. Len(r) : j # i => r[j].src # "aux"
    BY <1>1, <1>3
  <2> QED
    BY <2>1, <2>2 DEF SoleAck
<1>6. LeadingAck(q, d) => LeadingAck(r, d)
  <2> SUFFICES ASSUME NEW i \in 1 .. Len(q), q[i] = Ack, Quiet(q, i - 1), HeadFollows(q, d, i)
               PROVE  LeadingAck(r, d)
    BY DEF LeadingAck
  <2>1. i \in 1 .. Len(r) /\ i \in 0 .. Len(q) /\ r[i] = Ack
    BY <1>1
  <2>2. Quiet(r, i - 1)
    BY <1>1 DEF Quiet
  <2> QED
    BY <1>2, <2>1, <2>2 DEF LeadingAck
<1> QED
  BY <1>4, <1>5, <1>6 DEF r

\* The acknowledgement arrives.
LEMMA AckArrives ==
  ASSUME NEW q \in Seq(OutByte), Quiet(q, Len(q))
  PROVE  SoleAck(Append(q, Ack)) /\ LeadingAck(Append(q, Ack), <<>>)
<1> DEFINE r == Append(q, Ack)
<1>1. Len(q) \in Nat /\ Len(r) = Len(q) + 1 /\ r[Len(q) + 1] = Ack
      /\ \A k \in 1 .. Len(q) : r[k] = q[k]
  BY Appended, ByteTypes
<1> HIDE DEF r
<1>2. \A k \in 1 .. Len(q) : r[k].src # "aux"
  BY <1>1 DEF Quiet
<1>3. Len(q) + 1 \in 1 .. Len(r) /\ \A j \in 1 .. Len(r) : j # Len(q) + 1 => j \in 1 .. Len(q)
  BY <1>1
<1>4. SoleAck(r)
  BY <1>1, <1>2, <1>3 DEF SoleAck
<1>5. HeadFollows(r, <<>>, Len(q) + 1)
  BY <1>1 DEF HeadFollows
<1>6. Quiet(r, (Len(q) + 1) - 1)
  BY <1>1, <1>2 DEF Quiet
<1>7. LeadingAck(r, <<>>)
  BY <1>1, <1>3, <1>5, <1>6 DEF LeadingAck
<1> QED
  BY <1>4, <1>7 DEF r

\* A byte that is not the mouse's is read and thrown away.
LEMMA OtherByteDropped ==
  ASSUME NEW q \in Seq(OutByte), q # <<>>, NEW d
  PROVE  /\ Quiet(q, Len(q)) => Quiet(Tail(q), Len(Tail(q)))
         /\ Head(q).src # "aux" /\ SoleAck(q) => SoleAck(Tail(q))
         /\ Head(q).src # "aux" /\ LeadingAck(q, d) => LeadingAck(Tail(q), d)
<1> DEFINE r == Tail(q)
<1>1. Len(q) \in Nat /\ Len(r) = Len(q) - 1 /\ \A k \in 1 .. Len(q) - 1 : r[k] = q[k + 1]
      /\ Head(q) = q[1]
  BY TailType
<1>2. ASSUME NEW i \in Nat, HeadFollows(q, d, i + 1)
      PROVE  HeadFollows(r, d, i)
  BY <1>2, FollowsTail
<1> HIDE DEF r
<1>3. Quiet(q, Len(q)) => Quiet(r, Len(r))
  BY <1>1 DEF Quiet
<1>4. Ack.src = "aux"
  BY DEF Ack
<1>5. ASSUME NEW i \in 1 .. Len(q), q[i] = Ack, Head(q).src # "aux"
      PROVE  i - 1 \in 1 .. Len(r) /\ i - 1 \in Nat /\ (i - 1) + 1 = i /\ r[i - 1] = Ack
  <2>1. i # 1
    BY <1>1, <1>4, <1>5
  <2>2. i - 1 \in 1 .. Len(q) - 1 /\ (i - 1) + 1 = i
    BY <1>1, <2>1
  <2> QED
    BY <1>1, <1>5, <2>2
<1>6. Head(q).src # "aux" /\ SoleAck(q) => SoleAck(r)
  <2> SUFFICES ASSUME Head(q).src # "aux", NEW i \in 1 .. Len(q), q[i] = Ack,
                      \A j \in 1 .. Len(q) : j # i => q[j].src # "aux"
               PROVE  SoleAck(r)
    BY DEF SoleAck
  <2>1. \A j \in 1 .. Len(r) : j # i - 1 => r[j].src # "aux"
    <3> SUFFICES ASSUME NEW j \in 1 .. Len(r), j # i - 1 PROVE r[j].src # "aux"
      OBVIOUS
    <3>1. j + 1 \in 1 .. Len(q) /\ j + 1 # i /\ r[j] = q[j + 1]
      BY <1>1
    <3> QED
      BY <3>1
  <2> QED
    BY <1>5, <2>1 DEF SoleAck
<1>7. Head(q).src # "aux" /\ LeadingAck(q, d) => LeadingAck(r, d)
  <2> SUFFICES ASSUME Head(q).src # "aux", NEW i \in 1 .. Len(q), q[i] = Ack,
                      Quiet(q, i - 1), HeadFollows(q, d, i)
               PROVE  LeadingAck(r, d)
    BY DEF LeadingAck
  <2>1. Quiet(r, (i - 1) - 1)
    <3> SUFFICES ASSUME NEW j \in 1 .. (i - 1) - 1 PROVE r[j].src # "aux"
      BY DEF Quiet
    <3>1. j + 1 \in 1 .. i - 1 /\ r[j] = q[j + 1]
      BY <1>1
    <3> QED
      BY <3>1 DEF Quiet
  <2>2. HeadFollows(r, d, i - 1)
    BY <1>2, <1>5
  <2> QED
    BY <1>5, <2>1, <2>2 DEF LeadingAck
<1> QED
  BY <1>3, <1>6, <1>7 DEF r

\* The first mouse byte is read.
LEMMA AckTaken ==
  ASSUME NEW q \in Seq(OutByte), q # <<>>, Head(q).src = "aux", NEW d
  PROVE  /\ ~Quiet(q, Len(q))
         /\ SoleAck(q) => Head(q) = Ack /\ Quiet(Tail(q), Len(Tail(q)))
         /\ LeadingAck(q, d) => Head(q) = Ack /\ HeadFollows(Tail(q), d, 0)
<1>1. Len(q) \in Nat /\ Len(q) >= 1 /\ Len(Tail(q)) = Len(q) - 1 /\ Head(q) = q[1]
      /\ \A k \in 1 .. Len(q) - 1 : Tail(q)[k] = q[k + 1]
  BY TailType
<1>2. 1 \in 1 .. Len(q)
  BY <1>1
<1>3. ~Quiet(q, Len(q))
  BY <1>1, <1>2 DEF Quiet
<1>4. SoleAck(q) => Head(q) = Ack /\ Quiet(Tail(q), Len(Tail(q)))
  <2> SUFFICES ASSUME NEW i \in 1 .. Len(q), q[i] = Ack,
                      \A j \in 1 .. Len(q) : j # i => q[j].src # "aux"
               PROVE  Head(q) = Ack /\ Quiet(Tail(q), Len(Tail(q)))
    BY DEF SoleAck
  <2>1. i = 1
    BY <1>1, <1>2
  <2>2. \A k \in 1 .. Len(Tail(q)) : Tail(q)[k].src # "aux"
    <3> SUFFICES ASSUME NEW k \in 1 .. Len(Tail(q)) PROVE Tail(q)[k].src # "aux"
      OBVIOUS
    <3>1. k + 1 \in 1 .. Len(q) /\ k + 1 # i /\ Tail(q)[k] = q[k + 1]
      BY <1>1, <2>1
    <3> QED
      BY <3>1
  <2> QED
    BY <1>1, <2>1, <2>2 DEF Quiet
<1>5. LeadingAck(q, d) => Head(q) = Ack /\ HeadFollows(Tail(q), d, 0)
  <2> SUFFICES ASSUME NEW i \in 1 .. Len(q), q[i] = Ack, Quiet(q, i - 1), HeadFollows(q, d, i)
               PROVE  Head(q) = Ack /\ HeadFollows(Tail(q), d, 0)
    BY DEF LeadingAck
  <2>1. i = 1
    BY <1>1 DEF Quiet
  <2>2. HeadFollows(q, d, 0 + 1)
    BY <2>1
  <2> QED
    BY <1>1, <2>1, <2>2, FollowsTail
<1> QED
  BY <1>3, <1>4, <1>5

\* Behind a waiting acknowledgement the controller takes the mouse's next byte,
\* and the mouse starts a packet.
LEMMA LeadTransfer ==
  ASSUME NEW q \in Seq(OutByte), NEW d \in Seq(OutByte), d # <<>>, Head(d).src = "aux",
         LeadingAck(q, d)
  PROVE  LeadingAck(Append(q, Head(d)), Tail(d))
<1> PICK i \in 1 .. Len(q) : q[i] = Ack /\ Quiet(q, i - 1) /\ HeadFollows(q, d, i)
  BY DEF LeadingAck
<1>1. Head(d) \in OutByte
  BY TailType
<1> DEFINE b == Head(d)
           r == Append(q, b)
<1>2. i \in 0 .. Len(q)
  OBVIOUS
<1>3. HeadFollows(r, Tail(d), i)
  BY <1>2, FollowsTransfer
<1> HIDE DEF b
<1>4. Len(q) \in Nat /\ Len(r) = Len(q) + 1 /\ \A k \in 1 .. Len(q) : r[k] = q[k]
  BY <1>1, Appended DEF b
<1> HIDE DEF r
<1>5. i \in 1 .. Len(r) /\ r[i] = Ack /\ Quiet(r, i - 1)
  BY <1>4 DEF Quiet
<1> QED
  BY <1>3, <1>5 DEF LeadingAck, r, b

LEMMA LeadMove ==
  ASSUME NEW q, NEW d, d # <<>>, Head(d).role = "head", LeadingAck(q, <<>>)
  PROVE  LeadingAck(q, d)
  BY FollowsMove DEF LeadingAck

LEMMA SilentHolds ==
  ASSUME TypeOK, DriverInv, ControllerInv, SilentInv, [Next]_vars
  PROVE  SilentInv'
<1> USE DEF driver, controller, devices
<1>1. present' = present /\ firmware' = firmware
  BY AllSteps DEF TypeOK, Waits, Fails, Drops, Writes, Write, TakesConfig, FlushEnds, TakesAnswer,
     KeyPress, MouseMove, AuxTransfer, ProcessCommand, ProcessData, vars
<1> SUFFICES ASSUME present, ~firmware.streaming
             PROVE  SilentInv'
  BY <1>1 DEF SilentInv
<1>2. out \in Seq(OutByte) /\ devq \in Seq(OutByte)
  BY DEF TypeOK
<1>3. CASE Waits
  BY <1>3 DEF Waits, SilentInv, Resting, AckQueued
<1>4. CASE Fails
  BY <1>4 DEF Fails, SilentInv
<1>5. CASE Drops
  <2>1. out # <<>> /\ out' = Tail(out)
    BY <1>5 DEF Drops
  <2>2. /\ Quiet(out, Len(out)) => Quiet(out', Len(out'))
        /\ Head(out).src # "aux" /\ SoleAck(out) => SoleAck(out')
        /\ Head(out).src # "aux" /\ LeadingAck(out, devq) => LeadingAck(out', devq)
    BY <1>2, <2>1, OtherByteDropped
  <2> QED
    BY <1>5, <2>2 DEF Drops, SilentInv, Resting, AckQueued
<1>6. CASE FlushEnds("flush1", "A8") \/ FlushEnds("flush2", "D4F6")
  BY <1>6 DEF FlushEnds, SilentInv, Resting, AckQueued
<1>7. CASE TakesConfig
  <2>1. out # <<>> /\ out' = Tail(out)
    BY <1>7 DEF TakesConfig
  <2>2. Quiet(out, Len(out)) => Quiet(out', Len(out'))
    BY <1>2, <2>1, OtherByteDropped
  <2> QED
    BY <1>7, <2>2 DEF TakesConfig, SilentInv, Resting
<1>8. CASE TakesAnswer("ackF6", "D4F4")
  <2>1. out # <<>> /\ out' = Tail(out) /\ Head(out).src = "aux" /\ pc = "ackF6"
    BY <1>8 DEF TakesAnswer
  <2>2. ~Quiet(out, Len(out)) /\ (SoleAck(out) => Head(out) = Ack /\ Quiet(out', Len(out')))
    BY <1>2, <2>1, AckTaken
  <2>3. inbuf = Idle /\ ~streaming /\ devq = <<>> /\ SoleAck(out)
    BY <2>1, <2>2 DEF SilentInv, Resting, AckQueued
  <2>4. Head(out).data = ACK
    BY <2>2, <2>3 DEF Ack
  <2>5. pc' = "D4F4"
    BY <1>8, <2>4 DEF TakesAnswer
  <2> QED
    BY <1>8, <2>2, <2>3, <2>5 DEF TakesAnswer, SilentInv, Resting
<1>9. CASE TakesAnswer("ackF4", "enabled")
  <2>1. out # <<>> /\ out' = Tail(out) /\ Head(out).src = "aux" /\ pc = "ackF4"
    BY <1>9 DEF TakesAnswer
  <2>2. /\ ~Quiet(out, Len(out))
        /\ LeadingAck(out, devq) => Head(out) = Ack /\ HeadFollows(out', devq, 0)
    BY <1>2, <2>1, AckTaken
  <2>3. inbuf = Idle /\ streaming /\ LeadingAck(out, devq)
    BY <2>1, <2>2 DEF SilentInv, Resting, AckQueued
  <2>4. Head(out).data = ACK
    BY <2>2, <2>3 DEF Ack
  <2>5. pc' = "enabled"
    BY <1>9, <2>4 DEF TakesAnswer
  <2> QED
    BY <1>9, <2>2, <2>3, <2>5 DEF TakesAnswer, SilentInv
<1>10. CASE Writes
  <2>1. pc \notin {"ackF6", "ackF4", "enabled", "failed"}
        /\ UNCHANGED <<out, devq, streaming>>
    BY <1>10 DEF Writes, Write
  <2>2. pc' \notin {"D4F4", "enabled", "failed"}
    BY <1>10 DEF Writes, Write, Goto
  <2>3. pc' \in {"ackF6", "ackF4"} => inbuf' # Idle
    <3>1. pc' \in {"ackF6", "ackF4"} => inbuf' = Data(246) \/ inbuf' = Data(244)
      BY <1>10 DEF Writes, Write, Goto, Data
    <3> QED
      BY <3>1, InputBytes
  <2>4. Resting'
    <3>1. Resting
      BY <2>1 DEF SilentInv
    <3> QED
      BY <2>1, <3>1 DEF Resting
  <2> QED
    BY <2>2, <2>3, <2>4 DEF SilentInv
<1>11. CASE KeyPress
  <2>1. PICK code \in Scancodes :
          out' = Append(out, [src |-> "kbd", data |-> code, role |-> "key"])
    BY <1>11 DEF KeyPress
  <2> DEFINE b == [src |-> "kbd", data |-> code, role |-> "key"]
  <2>2. b \in OutByte /\ b.src # "aux" /\ out' = Append(out, b)
    BY <2>1, ByteTypes
  <2> HIDE DEF b
  <2>3. /\ Quiet(out, Len(out)) => Quiet(out', Len(out'))
        /\ SoleAck(out) => SoleAck(out')
        /\ LeadingAck(out, devq) => LeadingAck(out', devq)
    BY <1>2, <2>2, OtherByteArrives
  <2>4. HeadFollows(out, devq, 0) => HeadFollows(out', devq, 0)
    <3>1. 0 \in 0 .. Len(out)
      BY <1>2, LenProperties
    <3> QED
      BY <1>2, <2>2, <3>1, FollowsAppend
  <2> QED
    BY <1>11, <2>3, <2>4 DEF KeyPress, SilentInv, Resting, AckQueued
<1>12. CASE MouseMove
  <2>1. streaming /\ devq = <<>> /\ devq' # <<>> /\ Head(devq').role = "head"
    BY <1>12 DEF MouseMove
  <2>2. LeadingAck(out, devq) => LeadingAck(out, devq')
    BY <2>1, LeadMove
  <2>3. HeadFollows(out, devq, 0) => HeadFollows(out, devq', 0)
    BY <2>1, FollowsMove
  <2>4. devq # <<Ack>>
    BY <2>1
  <2>5. UNCHANGED <<pc, out, inbuf, streaming, timedOut>>
    BY <1>12 DEF MouseMove
  <2> QED
    BY <2>1, <2>2, <2>3, <2>4, <2>5 DEF SilentInv, Resting, AckQueued
<1>13. CASE AuxTransfer
  <2>1. devq # <<>> /\ out' = Append(out, Head(devq)) /\ devq' = Tail(devq)
        /\ UNCHANGED <<pc, inbuf, streaming, timedOut>>
    BY <1>13 DEF AuxTransfer
  <2>2. Head(devq).src = "aux"
    BY <1>2, <2>1, TailType DEF DriverInv
  <2>3. LeadingAck(out, devq) => LeadingAck(out', devq')
    BY <1>2, <2>1, <2>2, LeadTransfer
  <2>4. HeadFollows(out, devq, 0) => HeadFollows(out', devq', 0)
    <3>1. 0 \in 0 .. Len(out)
      BY <1>2, LenProperties
    <3> QED
      BY <1>2, <2>1, <2>2, <3>1, FollowsTransfer
  <2>5. devq = <<Ack>> /\ Quiet(out, Len(out)) =>
          devq' = <<>> /\ SoleAck(out') /\ LeadingAck(out', devq')
    BY <1>2, <2>1, AckArrives
  <2> QED
    BY <2>1, <2>3, <2>4, <2>5 DEF SilentInv, Resting, AckQueued
<1>14. CASE ProcessCommand
  <2>1. inbuf.port = "0x64" /\ inbuf' = Idle /\ UNCHANGED <<pc, streaming, devq, timedOut>>
    BY <1>14 DEF ProcessCommand
  <2>2. inbuf # Idle /\ pc \notin {"ackF6", "ackF4", "D4F4"}
    BY <2>1, InputBytes DEF ControllerInv, SilentInv
  <2>3. pc # "failed" /\ Quiet(out, Len(out)) => Quiet(out', Len(out'))
    <3> DEFINE b == [src |-> "ctl", data |-> config, role |-> "reply"]
    <3>1. out' = out \/ out' = Append(out, b)
      BY <1>14 DEF ProcessCommand
    <3>2. b \in OutByte /\ b.src # "aux"
      BY ByteTypes DEF TypeOK
    <3> HIDE DEF b
    <3> QED
      BY <1>2, <3>1, <3>2, OtherByteArrives
  <2> QED
    BY <2>1, <2>2, <2>3 DEF SilentInv, Resting
<1>15. CASE ProcessData
  <2>1. inbuf.port = "0x60" /\ inbuf' = Idle /\ inbuf # Idle /\ UNCHANGED <<pc, timedOut>>
    BY <1>15, InputBytes DEF ProcessData
  <2>2. CASE pc = "ackF6"
    <3>1. inbuf = Data(246) /\ expect = "mouse" /\ Resting
      BY <2>1, <2>2 DEF ControllerInv, SilentInv, AckQueued
    <3>2. out' = out /\ devq' = <<Ack>> /\ streaming' = (inbuf.data = 244)
      BY <1>15, <3>1 DEF ProcessData, Ack
    <3>3. inbuf.data # 244
      <4>1. inbuf.data = 246
        BY <3>1, InputBytes
      <4> QED
        BY <4>1
    <3>4. ~streaming'
      BY <3>2, <3>3, Zenon
    <3> QED
      BY <2>1, <2>2, <3>1, <3>2, <3>4 DEF SilentInv, Resting, AckQueued
  <2>3. CASE pc = "ackF4"
    <3>1. inbuf = Data(244) /\ expect = "mouse" /\ Resting
      BY <2>1, <2>3 DEF ControllerInv, SilentInv, AckQueued
    <3>2. out' = out /\ devq' = <<Ack>> /\ streaming'
      BY <1>15, <3>1, InputBytes, ZenonT(40) DEF ProcessData, Ack
    <3> QED
      BY <2>1, <2>3, <3>1, <3>2 DEF SilentInv, Resting, AckQueued
  <2>4. CASE pc = "failed"
    BY <2>1, <2>4 DEF SilentInv
  <2>5. CASE pc \notin {"ackF6", "ackF4", "failed"}
    <3>1. expect # "mouse" /\ pc # "D4F4" /\ pc # "enabled"
      BY <2>1, <2>5, InputBytes DEF ControllerInv, SilentInv, TypeOK, Labels
    <3>2. UNCHANGED <<out, devq, streaming>>
      BY <1>15, <3>1 DEF ProcessData
    <3> QED
      BY <2>1, <2>5, <3>1, <3>2 DEF SilentInv, Resting
  <2> QED
    BY <2>2, <2>3, <2>4, <2>5
<1>16. CASE UNCHANGED vars
  BY <1>16 DEF vars, SilentInv, Resting, AckQueued
<1> QED
  BY <1>3, <1>4, <1>5, <1>6, <1>7, <1>8, <1>9, <1>10, <1>11, <1>12, <1>13, <1>14, <1>15, <1>16,
     AllSteps DEF TypeOK

-----------------------------------------------------------------------------
(* The theorems.                                                           *)

\* The state of the driver, of the controller and of the bytes in between,
\* step by step of InitializePs2Mouse.
LEMMA InvariantHolds == Spec => []HandshakeInv
<1>1. Init => HandshakeInv
  <2> SUFFICES ASSUME Init PROVE HandshakeInv
    OBVIOUS
  <2>1. PICK stale \in BOOLEAN, code \in Scancodes :
          out = IF stale THEN <<[src |-> "kbd", data |-> code, role |-> "key"]>> ELSE <<>>
    BY DEF Init
  <2>2. \A i \in 1 .. Len(out) : out[i].src # "aux"
    BY <2>1
  <2>3. DriverInv
    <3>1. pc # "enabled" /\ ~Enabled /\ devq = <<>>
      BY DEF Init
    <3>2. Enabled \in BOOLEAN
      BY DEF Init
    <3> QED
      BY <3>1, <3>2 DEF DriverInv
  <2>4. ControllerInv
    BY DEF Init, ControllerInv
  <2>5. ConfigInv
    BY DEF Init, ConfigInv
  <2>6. NoMouseInv
    BY <2>2 DEF Init, NoMouseInv
  <2>7. SilentInv
    <3>1. pc = "flush1" /\ devq = <<>> /\ firmware.streaming = streaming
      BY DEF Init
    <3>2. streaming \in BOOLEAN
      BY DEF Init
    <3> QED
      BY <2>2, <3>1, <3>2 DEF SilentInv, Resting, Quiet
  <2> QED
    BY <2>3, <2>4, <2>5, <2>6, <2>7 DEF HandshakeInv
<1>2. TypeOK /\ HandshakeInv /\ [Next]_vars => HandshakeInv'
  BY DriverHolds, ControllerHolds, ConfigHolds, NoMouseHolds, SilentHolds DEF HandshakeInv
<1> QED
  BY <1>1, <1>2, TypeCorrect, PTL DEF Spec

\* Without a mouse none is ever reported, whatever bytes the keyboard sends
\* while InitializePs2Mouse waits for an acknowledgement.
THEOREM NoMouseReported == Spec => []NoMouseNoEnable
<1>1. HandshakeInv => NoMouseNoEnable
  BY DEF HandshakeInv, NoMouseInv, NoMouseNoEnable
<1> QED
  BY <1>1, InvariantHolds, PTL

\* A mouse the firmware left silent makes InitializePs2Mouse return 0 only
\* after a wait loop ran out, never because of a byte read out of turn.
THEOREM SilentMouseFound == Spec => []SilentMouseIsFound
<1>1. HandshakeInv => SilentMouseIsFound
  BY DEF HandshakeInv, SilentInv, SilentMouseIsFound
<1> QED
  BY <1>1, InvariantHolds, PTL

\* When InitializePs2Mouse reports the mouse the controller holds the
\* firmware's configuration with the two bits of the mouse set right, or at
\* least the two bits if another byte was read in its place.
THEOREM ConfigurationIsWritten == Spec => []ConfigurationWritten
<1>1. HandshakeInv => ConfigurationWritten
  BY DEF HandshakeInv, DriverInv, ControllerInv, ConfigInv, ConfigurationWritten
<1> QED
  BY <1>1, InvariantHolds, PTL

\* Behind a reported mouse the first byte UpdateCursorFromPs2Mouse reads is
\* the first of a packet, if the firmware had left the mouse silent.
THEOREM PacketsAreAligned == Spec => []PacketsStartAligned
<1>1. TypeOK /\ HandshakeInv => PacketsStartAligned
  <2> SUFFICES ASSUME TypeOK, HandshakeInv, Enabled, ~firmware.streaming
               PROVE  streaming /\ HeadFollows(out, devq, 0)
    BY DEF PacketsStartAligned
  <2>1. pc = "enabled" /\ present
    BY DEF HandshakeInv, DriverInv, NoMouseInv
  <2> QED
    BY <2>1 DEF HandshakeInv, SilentInv
<1> QED
  BY <1>1, TypeCorrect, InvariantHolds, PTL

=============================================================================
