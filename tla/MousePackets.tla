---------------------------- MODULE MousePackets ----------------------------
(***************************************************************************)
(* UpdateCursorFromPs2Mouse of BootApp.c as the kernel loop calls it, over *)
(* and over, while the mouse and the keyboard put bytes into the           *)
(* controller's output buffer.                                             *)
(*                                                                         *)
(* A call reads bytes one at a time (Ps2TryReadByte), so a packet may be   *)
(* split over two calls and keyboard bytes may lie between its bytes; the  *)
(* decoder keeps PacketIndex and Packet between calls.  The link may lose  *)
(* a byte, and the handshake may leave a stray one at its head (see        *)
(* Ps2Handshake): from then on the decoder has to find the packet heads    *)
(* again by their bit 3.                                                   *)
(***************************************************************************)
EXTENDS CursorMotion, Bytes, Sequences

CONSTANTS
  Packets,      \* the packets <<head, dx, dy>> the mouse may send
  Scancodes,    \* bytes the keyboard may send
  ReadLimit,    \* bytes one call reads (96)
  PacketLimit,  \* packets one call counts (32)
  OutCapacity,  \* bytes the controller can hold for the driver
  MaxPackets,   \* bound: packets the mouse sends
  MaxKeys,      \* bound: bytes the keyboard sends
  MaxLosses     \* bound: mouse bytes lost, a stray byte included

ASSUME PacketsAssumption ==
  /\ Packets \subseteq Byte \X Byte \X Byte
  /\ \A p \in Packets : Bit(p[1], 3) = 1
  /\ Scancodes \subseteq Byte

ASSUME LimitsAssumption ==
  /\ ReadLimit \in Nat \ {0}
  /\ PacketLimit \in Nat \ {0}
  /\ OutCapacity \in Nat \ {0}
  /\ MaxPackets \in Nat /\ MaxKeys \in Nat /\ MaxLosses \in Nat

VARIABLES
  mouse,    \* PS2_MOUSE_STATE
  cursor,   \* SOFTWARE_CURSOR, without its pixels
  call,     \* the locals of a running call, or Idle; meant and ordinary (history)
            \* are the movement the mouse meant with the packets counted so far,
            \* and whether each of them was from -128 to 127
  out,      \* controller: bytes waiting at port 0x60, oldest first
  devq,     \* mouse device: the rest of the packet it is sending
  sent,     \* packets the mouse has sent (history)
  decoded,  \* packets the driver has put together (history)
  keys,     \* keyboard bytes sent
  losses,   \* mouse bytes lost, a stray byte included
  sync      \* the place in its packet of the last mouse byte read, and how
            \* many bytes were read since one was out of the ordinary (history)

vars == <<mouse, cursor, call, out, devq, sent, decoded, keys, losses, sync>>

\* A byte at port 0x60 with the status bit that came with it and, unseen by the
\* driver, the number of its packet and its place in it (0 and 3 for other bytes).
OutByte == [aux : BOOLEAN, data : Byte, packet : Nat, place : 0 .. 3]

KeyByte(code) == [aux |-> FALSE, data |-> code, packet |-> 0, place |-> 3]
Stray == [aux |-> TRUE, data |-> 250, packet |-> 0, place |-> 3]
PacketBytes(p, n) ==
  [i \in 1 .. 3 |-> [aux |-> TRUE, data |-> p[i], packet |-> n, place |-> i - 1]]

\* The movement along an axis.
Axes == {"X", "Y"}
Still == [axis \in Axes |-> 0]

Idle == [running |-> FALSE, readCount |-> 0, totalDeltaX |-> 0,
         totalDeltaY |-> 0, packetCount |-> 0, leftButtonDown |-> 0,
         meant |-> Still, ordinary |-> TRUE]

\* The cursor and the mouse as RunKernelMouseLoop and InitializePs2Mouse leave
\* them; Packet[] is not initialised, but read only once written.
Init ==
  /\ mouse = [PacketIndex |-> 0, Packet |-> <<0, 0, 0>>,
              LastDeltaX |-> 0, LastDeltaY |-> 0, PacketCount |-> 0]
  /\ cursor = [X |-> ClampCursorX(ScreenWidth \div 2),
               Y |-> ClampCursorY(ScreenHeight \div 2),
               AccumX |-> 0, AccumY |-> 0, LeftButtonDown |-> 0,
               LastRawX |-> 0, LastRawY |-> 0,
               LastPixelX |-> 0, LastPixelY |-> 0, LastPollCount |-> 0]
  /\ call = Idle
  /\ devq = <<>>
  /\ sent = <<>> /\ decoded = <<>>
  /\ keys = 0
  /\ sync = [place |-> 2, steady |-> 0]
  /\ \/ out = <<>> /\ losses = 0
     \/ out = <<Stray>> /\ losses = 1 /\ MaxLosses > 0

-----------------------------------------------------------------------------
(* The devices (external).                                                 *)

MousePacket ==
  /\ Len(sent) < MaxPackets
  /\ devq = <<>>
  /\ \E p \in Packets : /\ devq' = PacketBytes(p, Len(sent) + 1)
                     /\ sent' = Append(sent, p)
  /\ UNCHANGED <<mouse, cursor, call, out, decoded, keys, losses, sync>>

AuxTransfer ==
  /\ devq # <<>>
  /\ Len(out) < OutCapacity
  /\ out' = Append(out, Head(devq))
  /\ devq' = Tail(devq)
  /\ UNCHANGED <<mouse, cursor, call, sent, decoded, keys, losses, sync>>

\* The controller or the cable loses a byte of the mouse.
AuxLost ==
  /\ devq # <<>>
  /\ losses < MaxLosses
  /\ losses' = losses + 1
  /\ devq' = Tail(devq)
  /\ UNCHANGED <<mouse, cursor, call, out, sent, decoded, keys, sync>>

KeyPress ==
  /\ keys < MaxKeys
  /\ Len(out) < OutCapacity
  /\ \E code \in Scancodes : out' = Append(out, KeyByte(code))
  /\ keys' = keys + 1
  /\ UNCHANGED <<mouse, cursor, call, devq, sent, decoded, losses, sync>>

-----------------------------------------------------------------------------
(* UpdateCursorFromPs2Mouse: the call, its loop and its tail.              *)

\* Mutant: the place in the packet is a local of the call.
BeginUpdateAfresh ==
  /\ ~call.running
  /\ call' = [Idle EXCEPT !.running = TRUE,
                          !.leftButtonDown = cursor.LeftButtonDown]
  /\ mouse' = [mouse EXCEPT !.PacketIndex = 0]
  /\ UNCHANGED <<cursor, out, devq, sent, decoded, keys, losses, sync>>

BeginUpdate ==
  /\ ~call.running
  /\ call' = [Idle EXCEPT !.running = TRUE,
                          !.leftButtonDown = cursor.LeftButtonDown]
  /\ UNCHANGED <<mouse, cursor, out, devq, sent, decoded, keys, losses, sync>>

\* The loop condition, and a byte to read.
Reading ==
  /\ call.running
  /\ call.readCount < ReadLimit
  /\ call.packetCount < PacketLimit
  /\ out # <<>>

\* Where the decoder would put a byte of this place if it were in step.
NextPlace(place) == (place + 1) % 3

\* History: the place of a mouse byte just read, and for how many bytes the
\* stream has been steady: in order, with no movement byte that could be taken
\* for a packet head.
Observed(byte) ==
  [place |-> byte.place,
   steady |-> IF \/ byte.place # NextPlace(sync.place)
                 \/ byte.place \in {1, 2} /\ Bit(byte.data, 3) = 1
              THEN 0
              ELSE IF sync.steady < 4 THEN sync.steady + 1 ELSE 4]

\* Mutant: a byte that is not for the mouse is left in the buffer.
ReadForeignPeeks ==
  /\ Reading
  /\ ~Head(out).aux
  /\ call' = [call EXCEPT !.readCount = @ + 1]
  /\ UNCHANGED <<mouse, cursor, out, devq, sent, decoded, keys, losses, sync>>

\* A keyboard byte is read and dropped.
ReadForeign ==
  /\ Reading
  /\ ~Head(out).aux
  /\ out' = Tail(out)
  /\ call' = [call EXCEPT !.readCount = @ + 1]
  /\ UNCHANGED <<mouse, cursor, devq, sent, decoded, keys, losses, sync>>

\* Mutant: any byte may start a packet.
IsHeadAny(byte) == TRUE

\* Whether a byte may start a packet.
IsHead(byte) == Bit(byte, 3) = 1

\* The decoder looks for a packet head and this is none.
SkipByte ==
  /\ Reading
  /\ Head(out).aux
  /\ mouse.PacketIndex = 0 /\ ~IsHead(Head(out).data)
  /\ out' = Tail(out)
  /\ call' = [call EXCEPT !.readCount = @ + 1]
  /\ sync' = Observed(Head(out))
  /\ UNCHANGED <<mouse, cursor, devq, sent, decoded, keys, losses>>

\* The head or the first movement byte of a packet.
StoreByte ==
  /\ Reading
  /\ Head(out).aux
  /\ mouse.PacketIndex < 2
  /\ mouse.PacketIndex = 0 => IsHead(Head(out).data)
  /\ mouse' = [mouse EXCEPT !.Packet[mouse.PacketIndex + 1] = Head(out).data,
                            !.PacketIndex = @ + 1]
  /\ out' = Tail(out)
  /\ call' = [call EXCEPT !.readCount = @ + 1]
  /\ sync' = Observed(Head(out))
  /\ UNCHANGED <<cursor, devq, sent, decoded, keys, losses>>

Overflowed(head) == Bit(head, 6) = 1 \/ Bit(head, 7) = 1

\* What a whole packet adds to the call: its button always, its movement unless
\* it overflowed.  The sign bits of the packet head are not used.
AddPacket(c, packet) ==
  LET button == [c EXCEPT !.leftButtonDown = Bit(packet[1], 0)]
  IN  IF Overflowed(packet[1])
      THEN button
      ELSE [button EXCEPT !.totalDeltaX = @ + SignedByte(packet[2]),
                          !.totalDeltaY = @ + SignedByte(packet[3]),
                          !.packetCount = @ + 1]

\* What the mouse meant with a packet: nine bits, the sign in the packet head.
Meant(packet, axis) ==
  IF axis = "X" THEN packet[2] - 256 * Bit(packet[1], 4)
                ELSE packet[3] - 256 * Bit(packet[1], 5)

\* History: what a whole packet means, unless it is dropped for its overflow.
NoteMeaning(c, packet) ==
  IF Overflowed(packet[1])
  THEN c
  ELSE [c EXCEPT !.meant = [axis \in Axes |-> @[axis] + Meant(packet, axis)],
                 !.ordinary = @ /\ \A axis \in Axes : Meant(packet, axis) \in -128 .. 127]

\* The third byte completes a packet.
CompletePacket ==
  /\ Reading
  /\ Head(out).aux
  /\ mouse.PacketIndex = 2
  /\ LET packet == [mouse.Packet EXCEPT ![3] = Head(out).data]
     IN  /\ mouse' = [mouse EXCEPT !.Packet = packet, !.PacketIndex = 0]
         /\ call' = [NoteMeaning(AddPacket(call, packet), packet)
                     EXCEPT !.readCount = @ + 1]
         /\ decoded' = Append(decoded, packet)
  /\ out' = Tail(out)
  /\ sync' = Observed(Head(out))
  /\ UNCHANGED <<cursor, devq, sent, keys, losses>>

\* The cursor after a call that counted packets with some movement.
Moved(c, deltaX, deltaY) ==
  LET accumX == Accumulate(c.AccumX, deltaX)
      accumY == Accumulate(c.AccumY, deltaY)
      pixelX == WholePixels(accumX)
      pixelY == WholePixels(accumY)
      moves == pixelX # 0 \/ pixelY # 0
  IN  [c EXCEPT !.AccumX = Remainder(accumX), !.AccumY = Remainder(accumY),
                !.LastPixelX = pixelX, !.LastPixelY = pixelY,
                !.X = IF moves THEN ClampCursorX(@ + pixelX) ELSE @,
                !.Y = IF moves THEN ClampCursorY(@ + pixelY) ELSE @]

\* The loop is left (limit, packets or no byte) and the tail of the call runs:
\* the button and the poll count always; then no packet, no movement, or a
\* movement.
EndUpdate ==
  /\ call.running
  /\ ~Reading
  /\ LET x == call.totalDeltaX
         y == call.totalDeltaY
         polled == [cursor EXCEPT !.LeftButtonDown = call.leftButtonDown,
                                  !.LastPollCount = call.packetCount]
         raw == [polled EXCEPT !.LastRawX = ClampI32(x, -9999, 9999),
                               !.LastRawY = ClampI32(y, -9999, 9999)]
     IN  \/ /\ call.packetCount = 0
            /\ cursor' = polled
            /\ UNCHANGED mouse
         \/ /\ call.packetCount > 0 /\ x = 0 /\ y = 0
            /\ cursor' = [raw EXCEPT !.LastPixelX = 0, !.LastPixelY = 0]
            /\ UNCHANGED mouse
         \/ /\ call.packetCount > 0 /\ (x # 0 \/ y # 0)
            /\ mouse' = [mouse EXCEPT !.LastDeltaX = CountsToDelta(x),
                                      !.LastDeltaY = CountsToDeltaY(y),
                                      !.PacketCount = @ + call.packetCount]
            /\ cursor' = Moved(raw, CountsToDelta(x), CountsToDeltaY(y))
  /\ call' = Idle
  /\ UNCHANGED <<out, devq, sent, decoded, keys, losses, sync>>

Driver ==
  \/ BeginUpdate
  \/ ReadForeign \/ SkipByte \/ StoreByte \/ CompletePacket
  \/ EndUpdate

Devices == MousePacket \/ AuxTransfer \/ AuxLost \/ KeyPress

Next == Driver \/ Devices

Spec == Init /\ [][Next]_vars

\* The kernel loop never stops calling UpdateCursorFromPs2Mouse, and the
\* controller passes on what the mouse sends.
FairSpec == Spec /\ WF_vars(Driver) /\ WF_vars(AuxTransfer)

-----------------------------------------------------------------------------
(* Properties.                                                             *)

\* On a screen larger than the cursor the whole sprite is on the screen, on a
\* smaller one it is at the edge: what SaveCursorBackground and DrawCursor rely
\* on when they compute the clipped rectangle without a lower bound.  And less
\* than a pixel is carried over from call to call, however large the movement
\* was and wherever the cursor was stopped.
CursorOnScreen ==
  /\ cursor.X <= IF ScreenWidth > CursorWidth THEN ScreenWidth - CursorWidth ELSE 0
  /\ cursor.Y <= IF ScreenHeight > CursorHeight THEN ScreenHeight - CursorHeight ELSE 0
  /\ Abs(cursor.AccumX) < FIXED_PIXEL_ONE /\ Abs(cursor.AccumY) < FIXED_PIXEL_ONE

\* A call never moves the cursor against the hand: whatever was carried over from
\* earlier calls, X only grows when the mouse moved to the right and only shrinks
\* when it moved to the left, and Y the other way round.  The driver takes the
\* low byte for the movement and does not look at the sign in the packet head, so
\* this holds for packets that move by -128 to 127 only.
MovesWithMouse ==
  [][call.ordinary =>
       /\ cursor'.X > cursor.X => call.meant["X"] > 0
       /\ cursor'.X < cursor.X => call.meant["X"] < 0
       /\ cursor'.Y > cursor.Y => call.meant["Y"] < 0
       /\ cursor'.Y < cursor.Y => call.meant["Y"] > 0]_vars

\* The bytes of the packets, counted from the first one the mouse sent: the number
\* of a byte, and how many the driver has read.
Serial(byte) == 3 * byte.packet + byte.place - 2
BytesRead == 3 * Len(decoded) + mouse.PacketIndex

\* The places in the controller's buffer where mouse bytes wait.
MouseBytes == {i \in 1 .. Len(out) : out[i].aux}

\* As long as the link loses nothing, the packets the driver puts together are
\* the packets the mouse sent, in order, none twice; the bytes that it has not
\* read are waiting in order, none missing, however they are spread over calls
\* and mixed with keyboard bytes; and after a call the button is what the last
\* packet says, also if that packet's movement was dropped for its overflow.
PacketsIntact ==
  losses = 0 =>
    /\ Len(decoded) <= Len(sent)
    /\ \A i \in 1 .. Len(decoded) : decoded[i] = sent[i]
    /\ {Serial(out[i]) : i \in MouseBytes} = BytesRead + 1 .. 3 * Len(sent) - Len(devq)
    /\ \A i, j \in MouseBytes : i < j => Serial(out[i]) < Serial(out[j])
    /\ ~call.running /\ decoded # <<>> =>
         cursor.LeftButtonDown = Bit(decoded[Len(decoded)][1], 0)

\* After a lost or a stray byte the decoder is in step again once it has read
\* four mouse bytes in order none of whose movement bytes looks like a head.
ResyncWithinFour ==
  sync.steady = 4 => mouse.PacketIndex = NextPlace(sync.place)

\* The loop keeps up: a packet the mouse has sent over a link that loses nothing is
\* put together and its call ends, whatever the keyboard puts between its bytes.
PacketsArrive ==
  \A n \in 1 .. MaxPackets :
    Len(sent) >= n ~> (Len(decoded) >= n /\ ~call.running) \/ losses > 0

=============================================================================
