-------------------------- MODULE KernelLoopProofs --------------------------
(***************************************************************************)
(* Proofs about the kernel loop, for every screen, scan line length,       *)
(* sprite and layout, with and without the two extra surfaces, and         *)
(* whatever the mouse and the keyboard send.                               *)
(*                                                                         *)
(* The first part is about UpdateCursorFromPs2Mouse (MousePackets): the    *)
(* packets stay intact, the decoder gets into step, the cursor follows the *)
(* mouse on the screen.  The second is about the loop around it            *)
(* (KernelLoop): the partially refreshed shadow is the scene, and the loop *)
(* implements CursorDisplay.                                               *)
(***************************************************************************)
EXTENDS KernelLoop, SequenceTheorems, TLAPS

-----------------------------------------------------------------------------
(***************************************************************************)
(* Part one: the decoder.                                                  *)
(***************************************************************************)

-----------------------------------------------------------------------------
(* Types.                                                                  *)

Packet == [1 .. 3 -> Byte]

MouseState == [PacketIndex : 0 .. 2, Packet : Packet,
               LastDeltaX : Int, LastDeltaY : Int, PacketCount : Nat]

Cursor == [X : Nat, Y : Nat, AccumX : Int, AccumY : Int, LeftButtonDown : {0, 1},
           LastRawX : Int, LastRawY : Int, LastPixelX : Int, LastPixelY : Int,
           LastPollCount : Nat]

Call == [running : BOOLEAN, readCount : Nat, totalDeltaX : Int, totalDeltaY : Int,
         packetCount : Nat, leftButtonDown : {0, 1}, meant : [Axes -> Int],
         ordinary : BOOLEAN]

TypeOK ==
  /\ mouse \in MouseState
  /\ cursor \in Cursor
  /\ call \in Call
  /\ out \in Seq(OutByte)
  /\ devq \in Seq(OutByte)
  /\ sent \in Seq(Packet)
  /\ decoded \in Seq(Packet)
  /\ keys \in Nat
  /\ losses \in Nat
  /\ sync \in [place : 0 .. 3, steady : 0 .. 4]

-----------------------------------------------------------------------------
(* Arithmetic of bytes and of the cursor.                                  *)

LEMMA BitType ==
  ASSUME NEW b \in Nat, NEW n \in Nat
  PROVE  Bit(b, n) \in {0, 1}
  BY DEF Bit

LEMMA PacketType ==
  ASSUME NEW p \in Packets
  PROVE  p \in Packet /\ Bit(p[1], 3) = 1
<1>1. p \in Byte \X Byte \X Byte
  BY PacketsAssumption
<1>2. p = [i \in 1 .. 3 |-> p[i]] /\ \A i \in 1 .. 3 : p[i] \in Byte
  BY <1>1
<1> QED
  BY <1>2, PacketsAssumption DEF Packet

LEMMA PacketBytesType ==
  ASSUME NEW p \in Packet, NEW n \in Nat
  PROVE  /\ PacketBytes(p, n) \in Seq(OutByte)
         /\ Len(PacketBytes(p, n)) = 3
         /\ \A i \in 1 .. 3 : PacketBytes(p, n)[i] =
              [aux |-> TRUE, data |-> p[i], packet |-> n, place |-> i - 1]
<1>1. \A i \in 1 .. 3 : [aux |-> TRUE, data |-> p[i], packet |-> n, place |-> i - 1]
                          \in OutByte
  BY DEF Packet, OutByte
<1> QED
  BY <1>1 DEF PacketBytes

LEMMA ClampType ==
  ASSUME NEW v \in Int
  PROVE  /\ ClampCursorX(v) \in Nat
         /\ ClampCursorY(v) \in Nat
         /\ ClampCursorX(v) <= IF ScreenWidth > CursorWidth THEN ScreenWidth - CursorWidth ELSE 0
         /\ ClampCursorY(v) <= IF ScreenHeight > CursorHeight THEN ScreenHeight - CursorHeight ELSE 0
  BY ScreenAssumption DEF ClampCursorX, ClampCursorY, ClampCursor, ClampCoordinate

LEMMA TruncDivPixels ==
  ASSUME NEW a \in Int
  PROVE  /\ WholePixels(a) \in Int
         /\ Remainder(a) \in Int
         /\ Abs(Remainder(a)) < FIXED_PIXEL_ONE
         /\ WholePixels(a) > 0 => a >= FIXED_PIXEL_ONE
         /\ WholePixels(a) < 0 => a <= -FIXED_PIXEL_ONE
  BY DEF WholePixels, Remainder, TruncDiv, Abs, FIXED_PIXEL_ONE

\* The product of the gain, which is positive, has the sign of the movement.
LEMMA AccelerationSign ==
  ASSUME NEW d \in Int
  PROVE  /\ ApplyMouseAcceleration(d) \in Int
         /\ ApplyMouseAcceleration(d) > 0 => d > 0
         /\ ApplyMouseAcceleration(d) < 0 => d < 0
<1>1. Gain1024(d) \in Nat \ {0}
  BY DEF Gain1024, Abs, FIXED_PIXEL_ONE
<1>2. \A g \in Nat \ {0} : /\ d * g \in Int
                           /\ d * g > 0 => d > 0
                           /\ d * g < 0 => d < 0
  BY Z3
<1>3. \A x \in Int : /\ TruncDiv(x, 1024) \in Int
                     /\ TruncDiv(x, 1024) > 0 => x > 0
                     /\ TruncDiv(x, 1024) < 0 => x < 0
  BY DEF TruncDiv
<1> QED
  BY <1>1, <1>2, <1>3 DEF ApplyMouseAcceleration

\* The counts of a call and the delta made of them have one sign.
LEMMA DeltaSign ==
  ASSUME NEW n \in Int
  PROVE  /\ CountsToDelta(n) \in Int /\ CountsToDeltaY(n) \in Int
         /\ CountsToDelta(n) > 0 => n > 0
         /\ CountsToDelta(n) < 0 => n < 0
         /\ CountsToDeltaY(n) > 0 => n < 0
         /\ CountsToDeltaY(n) < 0 => n > 0
<1>1. \A x \in Int : LET c == ClampI32(x, -MaxCounts, MaxCounts) * (FIXED_PIXEL_ONE \div 2)
                     IN  /\ c \in Int
                         /\ c > 0 => x > 0
                         /\ c < 0 => x < 0
  BY DEF ClampI32, MaxCounts, FIXED_PIXEL_ONE
<1>2. \A x \in Int : /\ CountsToDelta(x) \in Int
                     /\ CountsToDelta(x) > 0 => x > 0
                     /\ CountsToDelta(x) < 0 => x < 0
  BY <1>1, AccelerationSign DEF CountsToDelta
<1>3. -n \in Int
  OBVIOUS
<1> QED
  BY <1>2, <1>3 DEF CountsToDeltaY

-----------------------------------------------------------------------------
(* Type correctness.                                                       *)

\* The locals of a call, updated field by field.
LEMMA CallUpdate ==
  ASSUME NEW c \in Call
  PROVE  /\ \A n \in Nat : [c EXCEPT !.readCount = n] \in Call
         /\ \A b \in {0, 1} : [c EXCEPT !.leftButtonDown = b] \in Call
         /\ \A x, y \in Int, n \in Nat :
              [c EXCEPT !.totalDeltaX = x, !.totalDeltaY = y, !.packetCount = n] \in Call
         /\ \A f \in [Axes -> Int], b \in BOOLEAN :
              [c EXCEPT !.meant = f, !.ordinary = b] \in Call
  BY DEF Call

\* What a whole packet adds to the locals of a call.
LEMMA AddPacketType ==
  ASSUME NEW c \in Call, NEW p \in Packet
  PROVE  /\ AddPacket(c, p) \in Call
         /\ NoteMeaning(c, p) \in Call
<1>1. \A n \in Nat : Bit(p[1], n) \in {0, 1}
  BY BitType DEF Packet, Byte
<1>2. p[2] \in Int /\ p[3] \in Int
  BY DEF Packet, Byte
<1>3. AddPacket(c, p) \in Call
  <2> DEFINE button == [c EXCEPT !.leftButtonDown = Bit(p[1], 0)]
  <2>1. button \in Call
    BY <1>1, CallUpdate
  <2>2. /\ button.totalDeltaX + SignedByte(p[2]) \in Int
        /\ button.totalDeltaY + SignedByte(p[3]) \in Int
        /\ button.packetCount + 1 \in Nat
    BY <1>2, <2>1 DEF Call, SignedByte
  <2> HIDE DEF button
  <2>3. [button EXCEPT !.totalDeltaX = button.totalDeltaX + SignedByte(p[2]),
                       !.totalDeltaY = button.totalDeltaY + SignedByte(p[3]),
                       !.packetCount = button.packetCount + 1] \in Call
    BY <2>1, <2>2, CallUpdate
  <2> QED
    BY <2>1, <2>3 DEF AddPacket, button
<1>4. \A axis \in Axes : Meant(p, axis) \in Int
  BY <1>1, <1>2 DEF Meant
<1>5. NoteMeaning(c, p) \in Call
  <2>1. c.meant \in [Axes -> Int]
    BY DEF Call
  <2>2. [axis \in Axes |-> c.meant[axis] + Meant(p, axis)] \in [Axes -> Int]
    BY <1>4, <2>1
  <2>3. (c.ordinary /\ \A axis \in Axes : Meant(p, axis) \in -128 .. 127) \in BOOLEAN
    OBVIOUS
  <2>4. [c EXCEPT !.meant = [axis \in Axes |-> c.meant[axis] + Meant(p, axis)],
                  !.ordinary = c.ordinary /\ \A axis \in Axes : Meant(p, axis) \in -128 .. 127]
          \in Call
    BY <2>2, <2>3, CallUpdate
  <2> QED
    BY <2>4 DEF NoteMeaning
<1> QED
  BY <1>3, <1>5

LEMMA ObservedType ==
  ASSUME TypeOK, NEW b \in OutByte
  PROVE  Observed(b) \in [place : 0 .. 3, steady : 0 .. 4]
  BY DEF Observed, TypeOK, OutByte

\* The head of the buffer when a byte is read.
LEMMA ReadType ==
  ASSUME TypeOK, Reading
  PROVE  /\ Head(out) \in OutByte /\ Head(out).data \in Byte
         /\ Head(out) = out[1] /\ Len(out) >= 1
         /\ Tail(out) \in Seq(OutByte) /\ Len(Tail(out)) = Len(out) - 1
         /\ \A i \in 1 .. Len(out) - 1 : Tail(out)[i] = out[i + 1]
<1>1. out \in Seq(OutByte) /\ out # <<>>
  BY DEF TypeOK, Reading
<1>2. /\ Head(out) \in OutByte
      /\ Tail(out) \in Seq(OutByte) /\ Len(Tail(out)) = Len(out) - 1
      /\ \A i \in 1 .. Len(out) - 1 : Tail(out)[i] = out[i + 1]
  BY <1>1, HeadTailProperties
<1>3. Head(out) = out[1] /\ Len(out) >= 1
  BY <1>1, EmptySeq, LenProperties
<1> QED
  BY <1>2, <1>3 DEF OutByte

\* Reading counts, in every action that reads.
LEMMA CountType ==
  ASSUME TypeOK
  PROVE  [call EXCEPT !.readCount = @ + 1] \in Call
<1>1. call \in Call /\ call.readCount + 1 \in Nat
  BY DEF TypeOK, Call
<1> QED
  BY <1>1, CallUpdate

\* The cursor, updated field by field.
LEMMA CursorUpdate ==
  ASSUME NEW c \in Cursor
  PROVE  /\ \A b \in {0, 1}, n \in Nat :
              [c EXCEPT !.LeftButtonDown = b, !.LastPollCount = n] \in Cursor
         /\ \A x, y \in Int : [c EXCEPT !.LastRawX = x, !.LastRawY = y] \in Cursor
         /\ \A x, y \in Int : [c EXCEPT !.LastPixelX = x, !.LastPixelY = y] \in Cursor
  BY DEF Cursor

\* The state of the decoder, updated field by field.
LEMMA MouseUpdate ==
  ASSUME NEW m \in MouseState
  PROVE  /\ \A f \in Packet, n \in 0 .. 2 :
              [m EXCEPT !.Packet = f, !.PacketIndex = n] \in MouseState
         /\ \A x, y \in Int, n \in Nat :
              [m EXCEPT !.LastDeltaX = x, !.LastDeltaY = y, !.PacketCount = n] \in MouseState
  BY DEF MouseState

LEMMA MovedType ==
  ASSUME NEW c \in Cursor, NEW dx \in Int, NEW dy \in Int
  PROVE  Moved(c, dx, dy) \in Cursor
<1>1. \A a, d \in Int : Accumulate(a, d) \in Int
  BY DEF Accumulate, ClampI32, FIXED_PIXEL_ONE, MaxPixels
<1>2. /\ c.AccumX \in Int /\ c.AccumY \in Int /\ c.X \in Nat /\ c.Y \in Nat
  BY DEF Cursor
<1> DEFINE ax == Accumulate(c.AccumX, dx)
           ay == Accumulate(c.AccumY, dy)
<1>3. ax \in Int /\ ay \in Int
  BY <1>1, <1>2
<1>4. /\ WholePixels(ax) \in Int /\ WholePixels(ay) \in Int
      /\ Remainder(ax) \in Int /\ Remainder(ay) \in Int
  BY <1>3, TruncDivPixels
<1>5. ClampCursorX(c.X + WholePixels(ax)) \in Nat /\ ClampCursorY(c.Y + WholePixels(ay)) \in Nat
  BY <1>2, <1>4, ClampType
<1> HIDE DEF ax, ay
<1> QED
  BY <1>2, <1>4, <1>5 DEF Moved, Cursor, ax, ay

\* The cursor at the end of a call: with the button and the poll count, with the
\* counts too, and with no movement.
Polled == [cursor EXCEPT !.LeftButtonDown = call.leftButtonDown,
                         !.LastPollCount = call.packetCount]
Raw == [Polled EXCEPT !.LastRawX = ClampI32(call.totalDeltaX, -9999, 9999),
                      !.LastRawY = ClampI32(call.totalDeltaY, -9999, 9999)]
Calm == [Raw EXCEPT !.LastPixelX = 0, !.LastPixelY = 0]
MovedBy == Moved(Raw, CountsToDelta(call.totalDeltaX), CountsToDeltaY(call.totalDeltaY))

\* The three ways a call can end, and their types.
LEMMA EndTypes ==
  ASSUME TypeOK
  PROVE  /\ call.totalDeltaX \in Int /\ call.totalDeltaY \in Int
         /\ Polled \in Cursor /\ Raw \in Cursor /\ Calm \in Cursor /\ MovedBy \in Cursor
         /\ EndUpdate => cursor' \in {Polled, Calm, MovedBy}
         /\ EndUpdate => cursor' \in Cursor
<1> DEFINE x == call.totalDeltaX
           y == call.totalDeltaY
           rawX == ClampI32(x, -9999, 9999)
           rawY == ClampI32(y, -9999, 9999)
<1>1. /\ x \in Int /\ y \in Int
      /\ call.leftButtonDown \in {0, 1} /\ call.packetCount \in Nat
  BY DEF TypeOK, Call
<1>2. Polled \in Cursor
  BY <1>1, CursorUpdate DEF TypeOK, Polled
<1>3. rawX \in Int /\ rawY \in Int
  BY <1>1 DEF ClampI32
<1>4. Raw = [Polled EXCEPT !.LastRawX = rawX, !.LastRawY = rawY]
  BY DEF Raw
<1> HIDE DEF rawX, rawY, x, y
<1>5. Raw \in Cursor
  BY <1>2, <1>3, <1>4, CursorUpdate
<1>6. Calm \in Cursor
  BY <1>5, 0 \in Int, CursorUpdate DEF Calm
<1>7. CountsToDelta(x) \in Int /\ CountsToDeltaY(y) \in Int
  BY <1>1, DeltaSign
<1>8. MovedBy \in Cursor
  BY <1>5, <1>7, MovedType DEF MovedBy, x, y
<1>9. EndUpdate => cursor' \in {Polled, Calm, MovedBy}
  BY DEF EndUpdate, Polled, Raw, Calm, MovedBy
<1> QED
  BY <1>1, <1>2, <1>5, <1>6, <1>8, <1>9 DEF x, y

\* Every variable has its type, whatever the devices send.
THEOREM TypeCorrect == Spec => []TypeOK
<1>1. Init => TypeOK
  <2> SUFFICES ASSUME Init PROVE TypeOK
    OBVIOUS
  <2>1. ScreenWidth \div 2 \in Int /\ ScreenHeight \div 2 \in Int
    BY ScreenAssumption
  <2>2. cursor \in Cursor
    BY <2>1, ClampType DEF Init, Cursor
  <2>3. <<0, 0, 0>> \in Packet
    BY DEF Packet, Byte
  <2>4. mouse \in MouseState
    BY <2>3 DEF Init, MouseState
  <2>5. out \in Seq(OutByte)
    <3>1. Stray \in OutByte
      BY DEF Stray, OutByte, Byte
    <3>2. <<Stray>> \in Seq(OutByte) /\ <<>> \in Seq(OutByte)
      BY <3>1
    <3> QED
      BY <3>2 DEF Init
  <2> QED
    BY <2>2, <2>4, <2>5 DEF Init, TypeOK, Idle, Still, Call
<1>2. TypeOK /\ [Next]_vars => TypeOK'
  <2> SUFFICES ASSUME TypeOK, [Next]_vars PROVE TypeOK'
    OBVIOUS
  <2>1. CASE MousePacket
    <3>1. PICK p \in Packets : /\ devq' = PacketBytes(p, Len(sent) + 1)
                               /\ sent' = Append(sent, p)
      BY <2>1 DEF MousePacket
    <3>2. p \in Packet /\ Len(sent) + 1 \in Nat
      BY PacketType, LenProperties DEF TypeOK
    <3> QED
      BY <2>1, <3>1, <3>2, PacketBytesType, AppendProperties DEF MousePacket, TypeOK
  <2>2. CASE AuxTransfer
    BY <2>2, HeadTailProperties, AppendProperties DEF AuxTransfer, TypeOK
  <2>3. CASE AuxLost
    BY <2>3, HeadTailProperties DEF AuxLost, TypeOK
  <2>4. CASE KeyPress
    <3>1. PICK code \in Scancodes : out' = Append(out, KeyByte(code))
      BY <2>4 DEF KeyPress
    <3>2. KeyByte(code) \in OutByte
      BY PacketsAssumption DEF KeyByte, OutByte
    <3> QED
      BY <2>4, <3>1, <3>2, AppendProperties DEF KeyPress, TypeOK
  <2>5. CASE BeginUpdate
    <3>1. cursor.LeftButtonDown \in {0, 1}
      BY DEF TypeOK, Cursor
    <3>2. call' \in Call
      <4> DEFINE button == cursor.LeftButtonDown
      <4>1. call' = [running |-> TRUE, readCount |-> 0, totalDeltaX |-> 0,
                     totalDeltaY |-> 0, packetCount |-> 0, leftButtonDown |-> button,
                     meant |-> Still, ordinary |-> TRUE]
        BY <2>5 DEF BeginUpdate, Idle
      <4>2. Still \in [Axes -> Int]
        BY DEF Still
      <4> HIDE DEF button
      <4> QED
        BY <3>1, <4>1, <4>2 DEF Call, button
    <3> QED
      BY <2>5, <3>2 DEF BeginUpdate, TypeOK
  <2>6. CASE ReadForeign
    <3>1. Reading
      BY <2>6 DEF ReadForeign
    <3> QED
      BY <2>6, <3>1, ReadType, CountType DEF ReadForeign, TypeOK
  <2>7. CASE SkipByte
    <3>1. Reading
      BY <2>7 DEF SkipByte
    <3> QED
      BY <2>7, <3>1, ReadType, ObservedType, CountType DEF SkipByte, TypeOK
  <2>8. CASE StoreByte
    <3>1. Reading
      BY <2>8 DEF StoreByte
    <3>2. mouse' \in MouseState
      <4>1. /\ mouse \in MouseState /\ mouse.Packet \in [1 .. 3 -> Byte]
            /\ mouse.PacketIndex \in 0 .. 1 /\ Head(out).data \in Byte
        BY <2>8, <3>1, ReadType DEF StoreByte, TypeOK, MouseState, Packet
      <4>2. [mouse.Packet EXCEPT ![mouse.PacketIndex + 1] = Head(out).data] \in Packet
        BY <4>1 DEF Packet
      <4>3. mouse.PacketIndex + 1 \in 0 .. 2
        BY <4>1
      <4>4. mouse' = [mouse EXCEPT
              !.Packet = [mouse.Packet EXCEPT ![mouse.PacketIndex + 1] = Head(out).data],
              !.PacketIndex = mouse.PacketIndex + 1]
        BY <2>8 DEF StoreByte
      <4> QED
        BY <4>1, <4>2, <4>3, <4>4, MouseUpdate
    <3> QED
      BY <2>8, <3>1, <3>2, ReadType, ObservedType, CountType DEF StoreByte, TypeOK
  <2>9. CASE CompletePacket
    <3> DEFINE packet == [mouse.Packet EXCEPT ![3] = Head(out).data]
    <3>1. Reading
      BY <2>9 DEF CompletePacket
    <3>2. packet \in Packet
      BY <3>1, ReadType DEF TypeOK, MouseState, Packet
    <3>3. mouse' \in MouseState
      <4>1. [mouse EXCEPT !.Packet = packet, !.PacketIndex = 0] \in MouseState
        <5>1. mouse \in MouseState /\ 0 \in 0 .. 2
          BY DEF TypeOK
        <5> QED
          BY <3>2, <5>1, MouseUpdate
      <4> QED
        BY <2>9, <4>1 DEF CompletePacket
    <3>4. NoteMeaning(AddPacket(call, packet), packet) \in Call
      BY <3>2, AddPacketType DEF TypeOK
    <3>5. call' \in Call
      <4> DEFINE c == NoteMeaning(AddPacket(call, packet), packet)
      <4>1. c.readCount + 1 \in Nat
        BY <3>4 DEF Call
      <4>2. [c EXCEPT !.readCount = c.readCount + 1] \in Call
        BY <3>4, <4>1, CallUpdate
      <4> QED
        BY <2>9, <4>2 DEF CompletePacket
    <3>6. decoded' \in Seq(Packet)
      BY <2>9, <3>2, AppendProperties DEF CompletePacket, TypeOK
    <3> QED
      BY <2>9, <3>1, <3>3, <3>5, <3>6, ReadType, ObservedType DEF CompletePacket, TypeOK
  <2>10. CASE EndUpdate
    <3>1. call' \in Call
      BY <2>10 DEF EndUpdate, Call, Idle, Still
    <3>2. call.totalDeltaX \in Int /\ call.totalDeltaY \in Int /\ cursor' \in Cursor
      BY <2>10, EndTypes
    <3>5. CountsToDelta(call.totalDeltaX) \in Int /\ CountsToDeltaY(call.totalDeltaY) \in Int
      BY <3>2, DeltaSign
    <3>9. mouse' \in MouseState
      <4>1. [mouse EXCEPT !.LastDeltaX = CountsToDelta(call.totalDeltaX),
                          !.LastDeltaY = CountsToDeltaY(call.totalDeltaY),
                          !.PacketCount = @ + call.packetCount] \in MouseState
        <5>1. mouse \in MouseState /\ mouse.PacketCount + call.packetCount \in Nat
          BY DEF TypeOK, MouseState, Call
        <5> QED
          BY <3>5, <5>1, MouseUpdate
      <4> QED
        BY <2>10, <4>1 DEF EndUpdate, TypeOK
    <3> QED
      BY <2>10, <3>1, <3>2, <3>9 DEF EndUpdate, TypeOK
  <2>11. CASE UNCHANGED vars
    BY <2>11 DEF vars, TypeOK
  <2> QED
    BY <2>1, <2>2, <2>3, <2>4, <2>5, <2>6, <2>7, <2>8, <2>9, <2>10, <2>11
       DEF Next, Driver, Devices
<1> QED
  BY <1>1, <1>2, PTL DEF Spec

-----------------------------------------------------------------------------
(* The cursor stays on the screen and moves with the mouse.                *)

LimitX == IF ScreenWidth > CursorWidth THEN ScreenWidth - CursorWidth ELSE 0
LimitY == IF ScreenHeight > CursorHeight THEN ScreenHeight - CursorHeight ELSE 0

\* A position that is on the screen only moves in the direction it is pushed.
LEMMA ClampMoves ==
  ASSUME NEW v \in Nat, NEW d \in Int
  PROVE  /\ v <= LimitX => /\ ClampCursorX(v + d) > v => d > 0
                           /\ ClampCursorX(v + d) < v => d < 0
         /\ v <= LimitY => /\ ClampCursorY(v + d) > v => d > 0
                           /\ ClampCursorY(v + d) < v => d < 0
  BY ScreenAssumption
     DEF ClampCursorX, ClampCursorY, ClampCursor, ClampCoordinate, LimitX, LimitY

\* Less than a pixel is carried over, so whole pixels come from the new movement.
LEMMA AccumulateSign ==
  ASSUME NEW a \in Int, NEW d \in Int, Abs(a) < FIXED_PIXEL_ONE
  PROVE  /\ Accumulate(a, d) \in Int
         /\ WholePixels(Accumulate(a, d)) > 0 => d > 0
         /\ WholePixels(Accumulate(a, d)) < 0 => d < 0
<1>1. /\ Accumulate(a, d) \in Int
      /\ Accumulate(a, d) >= FIXED_PIXEL_ONE => a + d >= FIXED_PIXEL_ONE
      /\ Accumulate(a, d) <= -FIXED_PIXEL_ONE => a + d <= -FIXED_PIXEL_ONE
  BY DEF Accumulate, ClampI32, FIXED_PIXEL_ONE, MaxPixels
<1> QED
  BY <1>1, TruncDivPixels DEF Abs, FIXED_PIXEL_ONE

\* A cursor that CursorOnScreen allows.
OnScreen(c) ==
  /\ c.X <= LimitX
  /\ c.Y <= LimitY
  /\ Abs(c.AccumX) < FIXED_PIXEL_ONE /\ Abs(c.AccumY) < FIXED_PIXEL_ONE

\* The tail of a call that counted movement.
LEMMA MovedOnScreen ==
  ASSUME NEW c \in Cursor, NEW dx \in Int, NEW dy \in Int, OnScreen(c)
  PROVE  /\ OnScreen(Moved(c, dx, dy))
         /\ Moved(c, dx, dy).X > c.X => dx > 0
         /\ Moved(c, dx, dy).X < c.X => dx < 0
         /\ Moved(c, dx, dy).Y > c.Y => dy > 0
         /\ Moved(c, dx, dy).Y < c.Y => dy < 0
<1> DEFINE ax == Accumulate(c.AccumX, dx)
           ay == Accumulate(c.AccumY, dy)
           m == Moved(c, dx, dy)
<1>1. /\ c.AccumX \in Int /\ c.AccumY \in Int /\ c.X \in Nat /\ c.Y \in Nat
  BY DEF Cursor
<1>2. /\ ax \in Int /\ ay \in Int
      /\ WholePixels(ax) > 0 => dx > 0
      /\ WholePixels(ax) < 0 => dx < 0
      /\ WholePixels(ay) > 0 => dy > 0
      /\ WholePixels(ay) < 0 => dy < 0
  BY <1>1, AccumulateSign DEF OnScreen
<1> HIDE DEF ax, ay
<1>3. /\ WholePixels(ax) \in Int /\ WholePixels(ay) \in Int
      /\ Abs(Remainder(ax)) < FIXED_PIXEL_ONE /\ Abs(Remainder(ay)) < FIXED_PIXEL_ONE
  BY <1>2, TruncDivPixels
<1>4. /\ m.AccumX = Remainder(ax) /\ m.AccumY = Remainder(ay)
      /\ m.X = c.X \/ m.X = ClampCursorX(c.X + WholePixels(ax))
      /\ m.Y = c.Y \/ m.Y = ClampCursorY(c.Y + WholePixels(ay))
  BY DEF Moved, Cursor, ax, ay
<1> HIDE DEF m
<1>5. /\ ClampCursorX(c.X + WholePixels(ax)) \in Nat
      /\ ClampCursorY(c.Y + WholePixels(ay)) \in Nat
      /\ ClampCursorX(c.X + WholePixels(ax)) <= LimitX
      /\ ClampCursorY(c.Y + WholePixels(ay)) <= LimitY
  BY <1>1, <1>3, ClampType DEF LimitX, LimitY
<1>6. OnScreen(m)
  BY <1>3, <1>4, <1>5 DEF OnScreen
<1>7. /\ m.X > c.X => WholePixels(ax) > 0
      /\ m.X < c.X => WholePixels(ax) < 0
  BY <1>1, <1>3, <1>4, ClampMoves DEF OnScreen
<1>8. /\ m.Y > c.Y => WholePixels(ay) > 0
      /\ m.Y < c.Y => WholePixels(ay) < 0
  BY <1>1, <1>3, <1>4, ClampMoves DEF OnScreen
<1> QED
  BY <1>2, <1>6, <1>7, <1>8 DEF m

\* What the end of a call does to the cursor.
LEMMA EndMoves ==
  ASSUME TypeOK, OnScreen(cursor), EndUpdate
  PROVE  /\ OnScreen(cursor')
         /\ cursor'.X > cursor.X => call.totalDeltaX > 0
         /\ cursor'.X < cursor.X => call.totalDeltaX < 0
         /\ cursor'.Y > cursor.Y => call.totalDeltaY < 0
         /\ cursor'.Y < cursor.Y => call.totalDeltaY > 0
<1> DEFINE x == call.totalDeltaX
           y == call.totalDeltaY
<1>1. Raw \in Cursor /\ x \in Int /\ y \in Int /\ cursor' \in {Polled, Calm, MovedBy}
  BY EndTypes
<1>2. \A c \in {Polled, Raw, Calm} :
        /\ c.X = cursor.X /\ c.Y = cursor.Y
        /\ c.AccumX = cursor.AccumX /\ c.AccumY = cursor.AccumY
  <2> DEFINE Stays(c, d) == /\ d.X = c.X /\ d.Y = c.Y
                            /\ d.AccumX = c.AccumX /\ d.AccumY = c.AccumY
  <2>1. cursor \in Cursor /\ Polled \in Cursor /\ Raw \in Cursor
    BY EndTypes DEF TypeOK
  <2>2. Stays(cursor, Polled)
    BY <2>1 DEF Cursor, Polled
  <2>3. Stays(Polled, Raw)
    BY <2>1 DEF Cursor, Raw
  <2>4. Stays(Raw, Calm)
    BY <2>1 DEF Cursor, Calm
  <2> QED
    BY <2>2, <2>3, <2>4
<1> HIDE DEF x, y
<1>4. OnScreen(Polled) /\ OnScreen(Raw) /\ OnScreen(Calm)
  BY <1>2 DEF OnScreen
<1>5. /\ CountsToDelta(x) \in Int /\ CountsToDeltaY(y) \in Int
      /\ CountsToDelta(x) > 0 => x > 0
      /\ CountsToDelta(x) < 0 => x < 0
      /\ CountsToDeltaY(y) > 0 => y < 0
      /\ CountsToDeltaY(y) < 0 => y > 0
  BY <1>1, DeltaSign
<1>6. /\ OnScreen(MovedBy)
      /\ MovedBy.X > Raw.X => CountsToDelta(x) > 0
      /\ MovedBy.X < Raw.X => CountsToDelta(x) < 0
      /\ MovedBy.Y > Raw.Y => CountsToDeltaY(y) > 0
      /\ MovedBy.Y < Raw.Y => CountsToDeltaY(y) < 0
  BY <1>1, <1>4, <1>5, MovedOnScreen DEF MovedBy, x, y
<1>7. cursor.X \in Nat /\ cursor.Y \in Nat
  BY DEF TypeOK, Cursor
<1>8. OnScreen(cursor')
  BY <1>1, <1>4, <1>6
<1>9. CASE cursor' = MovedBy
  BY <1>2, <1>5, <1>6, <1>8, <1>9 DEF x, y
<1>10. CASE cursor' \in {Polled, Calm}
  BY <1>2, <1>7, <1>8, <1>10
<1> QED
  BY <1>1, <1>9, <1>10

\* The cursor starts in the middle of the screen.
LEMMA InitOnScreen == Init => OnScreen(cursor)
<1> SUFFICES ASSUME Init PROVE OnScreen(cursor)
  OBVIOUS
<1>1. ScreenWidth \div 2 \in Int /\ ScreenHeight \div 2 \in Int
  BY ScreenAssumption
<1>2. /\ cursor.X = ClampCursorX(ScreenWidth \div 2)
      /\ cursor.Y = ClampCursorY(ScreenHeight \div 2)
      /\ cursor.AccumX = 0 /\ cursor.AccumY = 0
  BY DEF Init
<1>3. cursor.X <= LimitX /\ cursor.Y <= LimitY
  BY <1>1, <1>2, ClampType DEF LimitX, LimitY
<1> QED
  BY <1>2, <1>3 DEF OnScreen, Abs, FIXED_PIXEL_ONE

\* The step of CursorOnScreen.
LEMMA OnScreenStep ==
  ASSUME TypeOK, OnScreen(cursor), [Next]_vars
  PROVE  OnScreen(cursor')
<1>1. CASE EndUpdate
  BY <1>1, EndMoves
<1>2. CASE ~EndUpdate
  <2>1. UNCHANGED cursor
    BY <1>2 DEF Next, Driver, Devices, BeginUpdate, ReadForeign, SkipByte, StoreByte,
       CompletePacket, MousePacket, AuxTransfer, AuxLost, KeyPress, vars
  <2> QED
    BY <2>1
<1> QED
  BY <1>1, <1>2

\* On every screen and whatever the mouse sends, the sprite stays where SaveCursorBackground
\* and DrawCursor need it, and the accumulators keep less than a pixel.
THEOREM CursorStaysOnScreen == Spec => []CursorOnScreen
<1>1. Init => OnScreen(cursor)
  BY InitOnScreen
<1>2. OnScreen(cursor) /\ TypeOK /\ [Next]_vars => OnScreen(cursor)'
  BY OnScreenStep
<1>3. OnScreen(cursor) => CursorOnScreen
  BY DEF OnScreen, CursorOnScreen, LimitX, LimitY
<1> QED
  BY <1>1, <1>2, <1>3, TypeCorrect, PTL DEF Spec

-----------------------------------------------------------------------------
(* A call moves the cursor with the hand.                                  *)

\* As long as every packet is from -128 to 127, the totals are what the mouse meant.
TotalsAreMeant ==
  call.ordinary => /\ call.totalDeltaX = call.meant["X"]
                   /\ call.totalDeltaY = call.meant["Y"]

LEMMA PacketTotals ==
  ASSUME NEW c \in Call, NEW p \in Packet,
         c.ordinary => /\ c.totalDeltaX = c.meant["X"]
                       /\ c.totalDeltaY = c.meant["Y"],
         NEW d, d = NoteMeaning(AddPacket(c, p), p), d.ordinary
  PROVE  d.totalDeltaX = d.meant["X"] /\ d.totalDeltaY = d.meant["Y"]
<1> DEFINE a == AddPacket(c, p)
<1>1. a \in Call /\ d \in Call
  BY AddPacketType
<1>2. a.meant = c.meant /\ a.ordinary = c.ordinary
  BY DEF AddPacket, Call
<1>3. CASE Overflowed(p[1])
  <2>1. a.totalDeltaX = c.totalDeltaX /\ a.totalDeltaY = c.totalDeltaY
    BY <1>3 DEF AddPacket, Call
  <2>2. d = a
    BY <1>3 DEF NoteMeaning
  <2> QED
    BY <1>2, <2>1, <2>2
<1>4. CASE ~Overflowed(p[1])
  <2>1. /\ a.totalDeltaX = c.totalDeltaX + SignedByte(p[2])
        /\ a.totalDeltaY = c.totalDeltaY + SignedByte(p[3])
    BY <1>4 DEF AddPacket, Call
  <2>2. d = [a EXCEPT !.meant = [axis \in Axes |-> a.meant[axis] + Meant(p, axis)],
                      !.ordinary = a.ordinary /\ \A axis \in Axes : Meant(p, axis) \in -128 .. 127]
    BY <1>4 DEF NoteMeaning
  <2> HIDE DEF a
  <2>3. /\ d.totalDeltaX = a.totalDeltaX /\ d.totalDeltaY = a.totalDeltaY
        /\ d.meant = [axis \in Axes |-> a.meant[axis] + Meant(p, axis)]
        /\ d.ordinary = (a.ordinary /\ \A axis \in Axes : Meant(p, axis) \in -128 .. 127)
    BY <1>1, <2>2 DEF Call
  <2>4. /\ d.meant["X"] = c.meant["X"] + Meant(p, "X")
        /\ d.meant["Y"] = c.meant["Y"] + Meant(p, "Y")
        /\ Meant(p, "X") \in -128 .. 127 /\ Meant(p, "Y") \in -128 .. 127
        /\ c.ordinary
    <3>1. "X" \in Axes /\ "Y" \in Axes
      BY DEF Axes
    <3>2. a.ordinary /\ \A axis \in Axes : Meant(p, axis) \in -128 .. 127
      BY <2>3
    <3>3. \A axis \in Axes : d.meant[axis] = c.meant[axis] + Meant(p, axis)
      BY <1>2, <2>3 DEF a
    <3> QED
      BY <1>2, <3>1, <3>2, <3>3 DEF a
  <2>5. p[1] \in Nat /\ p[2] \in Byte /\ p[3] \in Byte
    BY DEF Packet, Byte
  <2>6. Bit(p[1], 4) \in {0, 1} /\ Bit(p[1], 5) \in {0, 1}
    BY <2>5, BitType
  \* A ninth bit that is the sign of the low byte may be ignored.
  <2>7. SignedByte(p[2]) = Meant(p, "X") /\ SignedByte(p[3]) = Meant(p, "Y")
    <3>1. Meant(p, "X") = p[2] - 256 * Bit(p[1], 4) /\ Meant(p, "Y") = p[3] - 256 * Bit(p[1], 5)
      BY DEF Meant
    <3>2. SignedByte(p[2]) = Meant(p, "X")
      <4>1. CASE Bit(p[1], 4) = 0
        BY <2>4, <2>5, <3>1, <4>1, SMTT(30) DEF Byte, SignedByte
      <4>2. CASE Bit(p[1], 4) = 1
        <5>1. Meant(p, "X") = p[2] - 256
          BY <2>5, <3>1, <4>2
        <5>2. Meant(p, "X") >= -128
          BY <2>4
        <5>3. p[2] \in Int /\ ~(p[2] < 128)
          BY <2>5, <5>1, <5>2 DEF Byte
        <5> QED
          BY <5>1, <5>3 DEF SignedByte
      <4> QED
        BY <2>6, <4>1, <4>2
    <3>3. SignedByte(p[3]) = Meant(p, "Y")
      <4>1. CASE Bit(p[1], 5) = 0
        BY <2>4, <2>5, <3>1, <4>1, SMTT(30) DEF Byte, SignedByte
      <4>2. CASE Bit(p[1], 5) = 1
        <5>1. Meant(p, "Y") = p[3] - 256
          BY <2>5, <3>1, <4>2
        <5>2. Meant(p, "Y") >= -128
          BY <2>4
        <5>3. p[3] \in Int /\ ~(p[3] < 128)
          BY <2>5, <5>1, <5>2 DEF Byte
        <5> QED
          BY <5>1, <5>3 DEF SignedByte
      <4> QED
        BY <2>6, <4>1, <4>2
    <3> QED
      BY <3>2, <3>3
  <2> QED
    BY <2>1, <2>3, <2>4, <2>7
<1> QED
  BY <1>3, <1>4

LEMMA TotalsStep ==
  ASSUME TypeOK, TotalsAreMeant, [Next]_vars
  PROVE  TotalsAreMeant'
<1> SUFFICES ASSUME call'.ordinary
             PROVE  call'.totalDeltaX = call'.meant["X"] /\ call'.totalDeltaY = call'.meant["Y"]
  BY DEF TotalsAreMeant
<1>1. CASE UNCHANGED call
  BY <1>1 DEF TotalsAreMeant
<1>2. CASE BeginUpdate
  BY <1>2 DEF BeginUpdate, Idle, Still, Axes
<1>3. CASE EndUpdate
  BY <1>3 DEF EndUpdate, Idle, Still, Axes
<1>4. CASE ReadForeign \/ SkipByte \/ StoreByte
  <2>1. call \in Call /\ call' = [call EXCEPT !.readCount = @ + 1]
    BY <1>4 DEF ReadForeign, SkipByte, StoreByte, TypeOK
  <2>2. /\ call'.ordinary = call.ordinary /\ call'.meant = call.meant
        /\ call'.totalDeltaX = call.totalDeltaX /\ call'.totalDeltaY = call.totalDeltaY
    BY <2>1 DEF Call
  <2> QED
    BY <2>2 DEF TotalsAreMeant
<1>5. CASE CompletePacket
  <2> DEFINE packet == [mouse.Packet EXCEPT ![3] = Head(out).data]
             d == NoteMeaning(AddPacket(call, packet), packet)
  <2>1. packet \in Packet /\ call \in Call
    BY <1>5, ReadType DEF CompletePacket, TypeOK, MouseState, Packet
  <2>2. d \in Call /\ call' = [d EXCEPT !.readCount = d.readCount + 1]
    BY <1>5, <2>1, AddPacketType DEF CompletePacket
  <2> HIDE DEF d
  <2>3. /\ call'.ordinary = d.ordinary /\ call'.meant = d.meant
        /\ call'.totalDeltaX = d.totalDeltaX /\ call'.totalDeltaY = d.totalDeltaY
    BY <2>2 DEF Call
  <2> HIDE DEF packet
  <2>4. d.ordinary => d.totalDeltaX = d.meant["X"] /\ d.totalDeltaY = d.meant["Y"]
    BY <2>1, PacketTotals DEF TotalsAreMeant, d
  <2> QED
    BY <2>3, <2>4
<1>6. CASE Devices \/ UNCHANGED vars
  BY <1>1, <1>6 DEF Devices, MousePacket, AuxTransfer, AuxLost, KeyPress, vars
<1> QED
  BY <1>2, <1>3, <1>4, <1>5, <1>6 DEF Next, Driver

\* No call moves the cursor against the hand, for every screen and every stream of packets,
\* lost bytes and foreign packets included.
THEOREM CallMovesWithMouse == Spec => MovesWithMouse
<1> DEFINE Follows ==
      call.ordinary =>
        /\ cursor'.X > cursor.X => call.meant["X"] > 0
        /\ cursor'.X < cursor.X => call.meant["X"] < 0
        /\ cursor'.Y > cursor.Y => call.meant["Y"] < 0
        /\ cursor'.Y < cursor.Y => call.meant["Y"] > 0
<1>1. Init => OnScreen(cursor) /\ TotalsAreMeant
  <2>2. Init => OnScreen(cursor)
    BY InitOnScreen
  <2>3. Init => TotalsAreMeant
    BY DEF Init, TotalsAreMeant, Idle, Still, Axes
  <2> QED
    BY <2>2, <2>3
<1>2. OnScreen(cursor) /\ TotalsAreMeant /\ TypeOK /\ [Next]_vars
        => OnScreen(cursor)' /\ TotalsAreMeant'
  BY OnScreenStep, TotalsStep
<1>3. OnScreen(cursor) /\ TotalsAreMeant /\ TypeOK /\ [Next]_vars => [Follows]_vars
  <2> SUFFICES ASSUME OnScreen(cursor), TotalsAreMeant, TypeOK, Next, call.ordinary
               PROVE  Follows
    BY DEF vars
  <2>1. cursor.X \in Nat /\ cursor.Y \in Nat
    BY DEF TypeOK, Cursor
  <2>2. CASE EndUpdate
    BY <2>2, EndMoves DEF TotalsAreMeant
  <2>3. CASE UNCHANGED cursor
    BY <2>1, <2>3
  <2> QED
    BY <2>2, <2>3 DEF Next, Driver, Devices, BeginUpdate, ReadForeign, SkipByte, StoreByte,
       CompletePacket, MousePacket, AuxTransfer, AuxLost, KeyPress
<1>4. [][Follows]_vars => MovesWithMouse
  BY PTL DEF MovesWithMouse
<1> QED
  BY <1>1, <1>2, <1>3, <1>4, TypeCorrect, PTL DEF Spec

-----------------------------------------------------------------------------
(* The decoder finds the packet heads again.                               *)

\* The heads that are on their way have their bit 3.
HeadsMarked ==
  /\ \A i \in 1 .. Len(out) : out[i].aux /\ out[i].place = 0 => IsHead(out[i].data)
  /\ \A i \in 1 .. Len(devq) : devq[i].place = 0 => IsHead(devq[i].data)

\* How many bytes in order the decoder needs, at most, to be in step, from the index
\* of its next byte and the place of the last one it read.
Distance(index, place) ==
  CASE index = NextPlace(place) -> 0
    [] index = 0 /\ place = 1 -> 1
    [] index \in {0, 2} /\ place \in {0, 3} -> 2
    [] index \in {1, 2} /\ place = 2 -> 3
    [] OTHER -> 4

ResyncInvariant ==
  /\ HeadsMarked
  /\ Distance(mouse.PacketIndex, sync.place) + sync.steady <= 4

LEMMA HeadsStep ==
  ASSUME TypeOK, HeadsMarked, [Next]_vars
  PROVE  HeadsMarked'
<1>1. /\ out \in Seq(OutByte) /\ devq \in Seq(OutByte)
      /\ Len(out) \in Nat /\ Len(devq) \in Nat
  BY LenProperties DEF TypeOK
<1>2. CASE MousePacket
  <2>1. PICK p \in Packets : devq' = PacketBytes(p, Len(sent) + 1)
    BY <1>2 DEF MousePacket
  <2>2. p \in Packet /\ Bit(p[1], 3) = 1 /\ Len(sent) + 1 \in Nat
    BY PacketType, LenProperties DEF TypeOK
  <2>3. /\ Len(devq') = 3
        /\ \A i \in 1 .. 3 : devq'[i] =
             [aux |-> TRUE, data |-> p[i], packet |-> Len(sent) + 1, place |-> i - 1]
    BY <2>1, <2>2, PacketBytesType
  <2>4. \A i \in 1 .. Len(devq') : devq'[i].place = 0 => IsHead(devq'[i].data)
    BY <2>2, <2>3 DEF IsHead
  <2> QED
    BY <1>2, <2>4 DEF HeadsMarked, MousePacket
<1>3. CASE AuxTransfer
  <2>1. devq # <<>> /\ out' = Append(out, Head(devq)) /\ devq' = Tail(devq)
    BY <1>3 DEF AuxTransfer
  <2>2. /\ Head(devq) \in OutByte /\ Head(devq) = devq[1] /\ Len(devq) >= 1
        /\ Len(devq') = Len(devq) - 1
        /\ \A i \in 1 .. Len(devq) - 1 : devq'[i] = devq[i + 1]
    BY <1>1, <2>1, HeadTailProperties, EmptySeq
  <2>3. /\ Len(out') = Len(out) + 1
        /\ \A i \in 1 .. Len(out) : out'[i] = out[i]
        /\ out'[Len(out) + 1] = devq[1]
    BY <1>1, <2>1, <2>2, AppendProperties
  <2>4. \A i \in 1 .. Len(out') : out'[i].aux /\ out'[i].place = 0 => IsHead(out'[i].data)
    BY <1>1, <2>2, <2>3 DEF HeadsMarked
  <2>5. \A i \in 1 .. Len(devq') : devq'[i].place = 0 => IsHead(devq'[i].data)
    BY <1>1, <2>2 DEF HeadsMarked
  <2> QED
    BY <2>4, <2>5 DEF HeadsMarked
<1>4. CASE AuxLost
  <2>1. devq # <<>> /\ devq' = Tail(devq)
    BY <1>4 DEF AuxLost
  <2>2. /\ Len(devq') = Len(devq) - 1
        /\ \A i \in 1 .. Len(devq) - 1 : devq'[i] = devq[i + 1]
    BY <1>1, <2>1, HeadTailProperties
  <2>3. \A i \in 1 .. Len(devq') : devq'[i].place = 0 => IsHead(devq'[i].data)
    BY <1>1, <2>2 DEF HeadsMarked
  <2> QED
    BY <1>4, <2>3 DEF HeadsMarked, AuxLost
<1>5. CASE KeyPress
  <2>1. PICK code \in Scancodes : out' = Append(out, KeyByte(code))
    BY <1>5 DEF KeyPress
  <2>2. KeyByte(code) \in OutByte /\ ~KeyByte(code).aux
    BY PacketsAssumption DEF KeyByte, OutByte
  <2>3. /\ Len(out') = Len(out) + 1
        /\ \A i \in 1 .. Len(out) : out'[i] = out[i]
        /\ out'[Len(out) + 1] = KeyByte(code)
    BY <1>1, <2>1, <2>2, AppendProperties
  <2>4. \A i \in 1 .. Len(out') : out'[i].aux /\ out'[i].place = 0 => IsHead(out'[i].data)
    BY <1>1, <2>2, <2>3 DEF HeadsMarked
  <2> QED
    BY <1>5, <2>4 DEF HeadsMarked, KeyPress
<1>6. CASE ReadForeign \/ SkipByte \/ StoreByte \/ CompletePacket
  <2>1. Reading /\ out' = Tail(out) /\ devq' = devq
    BY <1>6 DEF ReadForeign, SkipByte, StoreByte, CompletePacket
  <2>2. /\ Len(out') = Len(out) - 1
        /\ \A i \in 1 .. Len(out) - 1 : out'[i] = out[i + 1]
    BY <2>1, ReadType
  <2>3. \A i \in 1 .. Len(out') : out'[i].aux /\ out'[i].place = 0 => IsHead(out'[i].data)
    BY <1>1, <2>2 DEF HeadsMarked
  <2> QED
    BY <2>1, <2>3 DEF HeadsMarked
<1>7. CASE BeginUpdate \/ EndUpdate \/ UNCHANGED vars
  BY <1>7 DEF BeginUpdate, EndUpdate, vars, HeadsMarked
<1> QED
  BY <1>2, <1>3, <1>4, <1>5, <1>6, <1>7 DEF Next, Driver, Devices

\* One byte read: the distance of the next byte is one less if it was in order.
LEMMA DistanceStep ==
  ASSUME NEW q \in 0 .. 2, NEW r \in 0 .. 2, NEW p \in 0 .. 3, NEW b \in 0 .. 3,
         NEW head \in BOOLEAN,
         b = 0 => head,
         NEW s \in 0 .. 4,
         Distance(q, p) + s <= 4,
         r = IF q = 0 /\ ~head THEN 0 ELSE IF q = 2 THEN 0 ELSE q + 1
  PROVE  Distance(r, b) + (IF b # NextPlace(p) \/ (b \in {1, 2} /\ head) THEN 0
                           ELSE IF s < 4 THEN s + 1 ELSE 4) <= 4
  BY DEF Distance, NextPlace

LEMMA ResyncStep ==
  ASSUME TypeOK, ResyncInvariant, [Next]_vars
  PROVE  ResyncInvariant'
<1>1. HeadsMarked'
  BY HeadsStep DEF ResyncInvariant
<1>2. mouse.PacketIndex \in 0 .. 2 /\ sync.place \in 0 .. 3 /\ sync.steady \in 0 .. 4
  BY DEF TypeOK, MouseState
<1>3. CASE SkipByte \/ StoreByte \/ CompletePacket
  <2> DEFINE byte == Head(out)
             head == Bit(byte.data, 3) = 1
  <2>1. Reading /\ byte.aux /\ sync' = Observed(byte)
    BY <1>3 DEF SkipByte, StoreByte, CompletePacket
  <2>2. byte \in OutByte /\ byte = out[1] /\ Len(out) >= 1
    BY <2>1, ReadType
  <2>3. byte.place \in 0 .. 3 /\ (byte.place = 0 => head)
    BY <2>1, <2>2, 1 \in 1 .. Len(out) DEF OutByte, ResyncInvariant, HeadsMarked, IsHead
  <2>4. /\ mouse'.PacketIndex = IF mouse.PacketIndex = 0 /\ ~head THEN 0
                                ELSE IF mouse.PacketIndex = 2 THEN 0
                                ELSE mouse.PacketIndex + 1
        /\ mouse'.PacketIndex \in 0 .. 2
    <3>1. mouse \in MouseState
      BY DEF TypeOK
    <3>2. CASE SkipByte
      BY <3>2, <1>2 DEF SkipByte, IsHead
    <3>3. CASE StoreByte
      <4>1. mouse'.PacketIndex = mouse.PacketIndex + 1
        BY <3>1, <3>3 DEF StoreByte, MouseState
      <4> QED
        BY <1>2, <3>3, <4>1 DEF StoreByte, IsHead
    <3>4. CASE CompletePacket
      <4>1. mouse'.PacketIndex = 0
        BY <3>1, <3>4 DEF CompletePacket, MouseState
      <4> QED
        BY <1>2, <3>4, <4>1 DEF CompletePacket
    <3> QED
      BY <1>3, <3>2, <3>3, <3>4
  <2>5. /\ sync'.place = byte.place
        /\ sync'.steady = IF \/ byte.place # NextPlace(sync.place)
                             \/ byte.place \in {1, 2} /\ head
                          THEN 0
                          ELSE IF sync.steady < 4 THEN sync.steady + 1 ELSE 4
    BY <2>1 DEF Observed
  <2> HIDE DEF head, byte
  <2>6. head \in BOOLEAN
    BY DEF head
  <2>7. Distance(mouse'.PacketIndex, byte.place) +
          (IF byte.place # NextPlace(sync.place) \/ (byte.place \in {1, 2} /\ head) THEN 0
           ELSE IF sync.steady < 4 THEN sync.steady + 1 ELSE 4) <= 4
    BY <1>2, <2>3, <2>4, <2>6, DistanceStep DEF ResyncInvariant
  <2> QED
    BY <1>1, <2>5, <2>7 DEF ResyncInvariant
<1>4. CASE UNCHANGED sync /\ mouse'.PacketIndex = mouse.PacketIndex
  BY <1>1, <1>4 DEF ResyncInvariant
<1>5. CASE EndUpdate
  <2>1. mouse'.PacketIndex = mouse.PacketIndex /\ UNCHANGED sync
    <3>1. mouse \in MouseState
      BY DEF TypeOK
    <3>2. \/ mouse' = mouse
          \/ mouse' = [mouse EXCEPT !.LastDeltaX = CountsToDelta(call.totalDeltaX),
                                    !.LastDeltaY = CountsToDeltaY(call.totalDeltaY),
                                    !.PacketCount = @ + call.packetCount]
      BY <1>5 DEF EndUpdate
    <3>3. mouse'.PacketIndex = mouse.PacketIndex
      BY <3>1, <3>2 DEF MouseState
    <3> QED
      BY <1>5, <3>3 DEF EndUpdate
  <2> QED
    BY <1>4, <2>1
<1> QED
  BY <1>3, <1>4, <1>5 DEF Next, Driver, Devices, MousePacket, AuxTransfer, AuxLost, KeyPress,
     BeginUpdate, ReadForeign, vars

\* Whatever was lost and whatever stray byte the handshake left, four bytes in order bring
\* UpdateCursorFromPs2Mouse back into step.
THEOREM DecoderResyncs == Spec => []ResyncWithinFour
<1>1. Init => ResyncInvariant
  <2> SUFFICES ASSUME Init PROVE ResyncInvariant
    OBVIOUS
  <2>1. HeadsMarked
    <3>1. CASE out = <<>>
      BY <3>1 DEF Init, HeadsMarked
    <3>2. CASE out = <<Stray>>
      BY <3>2 DEF Init, HeadsMarked, Stray
    <3> QED
      BY <3>1, <3>2 DEF Init
  <2>2. Distance(mouse.PacketIndex, sync.place) + sync.steady <= 4
    BY DEF Init, Distance, NextPlace
  <2> QED
    BY <2>1, <2>2 DEF ResyncInvariant
<1>2. ResyncInvariant /\ TypeOK /\ [Next]_vars => ResyncInvariant'
  BY ResyncStep
<1>3. ResyncInvariant /\ TypeOK => ResyncWithinFour
  <2> SUFFICES ASSUME ResyncInvariant, TypeOK, sync.steady = 4
               PROVE  mouse.PacketIndex = NextPlace(sync.place)
    BY DEF ResyncWithinFour
  <2>1. mouse.PacketIndex \in 0 .. 2 /\ sync.place \in 0 .. 3
    BY DEF TypeOK, MouseState
  <2> QED
    BY <2>1 DEF ResyncInvariant, Distance, NextPlace
<1> QED
  BY <1>1, <1>2, <1>3, TypeCorrect, PTL DEF Spec

-----------------------------------------------------------------------------
(* Nothing is lost, doubled or reordered between the mouse and the decoder. *)

\* A byte that is what its packet says.
Truthful(b, packets) ==
  /\ b.packet \in 1 .. Len(packets) /\ b.place \in 0 .. 2
  /\ b.data = packets[b.packet][b.place + 1]

\* The mouse bytes of q are the bytes numbered first to last, in that order.
Window(q, first, last) ==
  /\ \A i \in 1 .. Len(q) : q[i].aux => first <= Serial(q[i]) /\ Serial(q[i]) <= last
  /\ \A n \in first .. last : \E i \in 1 .. Len(q) : q[i].aux /\ Serial(q[i]) = n
  /\ \A i, j \in 1 .. Len(q) : i < j /\ q[i].aux /\ q[j].aux => Serial(q[i]) < Serial(q[j])

\* The last byte of the mouse that the controller has.
BytesPassed == 3 * Len(sent) - Len(devq)

\* The rest of a packet is the rest of the last one sent.
DeviceIntact ==
  /\ Len(devq) <= 3 /\ (Len(devq) > 0 => Len(sent) > 0)
  /\ \A i \in 1 .. Len(devq) : /\ devq[i].aux /\ Truthful(devq[i], sent)
                               /\ Serial(devq[i]) = BytesPassed + i

\* The packet that is being put together is the next one sent.
DecoderIntact ==
  /\ BytesRead <= BytesPassed
  /\ \A i \in 1 .. Len(decoded) : decoded[i] = sent[i]
  /\ \A k \in 1 .. mouse.PacketIndex : mouse.Packet[k] = sent[Len(decoded) + 1][k]

\* The button of the last packet, in the running call or since.
ButtonIntact ==
  decoded # <<>> =>
    (IF call.running THEN call.leftButtonDown ELSE cursor.LeftButtonDown)
      = Bit(decoded[Len(decoded)][1], 0)

StreamIntact ==
  /\ \A i \in 1 .. Len(out) : out[i].aux => Truthful(out[i], sent)
  /\ Window(out, BytesRead + 1, BytesPassed)
  /\ DeviceIntact
  /\ DecoderIntact

IntactInvariant ==
  /\ HeadsMarked
  /\ ButtonIntact
  /\ losses = 0 => StreamIntact

LEMMA SerialType ==
  ASSUME NEW b \in OutByte
  PROVE  Serial(b) \in Int /\ b.aux \in BOOLEAN
  BY DEF Serial, OutByte

\* A mouse byte enters the buffer behind the last one.
LEMMA WindowAppend ==
  ASSUME NEW q \in Seq(OutByte), NEW b \in OutByte, NEW first \in Int, NEW last \in Int,
         Window(q, first, last)
  PROVE  /\ ~b.aux => Window(Append(q, b), first, last)
         /\ b.aux /\ first <= last + 1 /\ Serial(b) = last + 1
              => Window(Append(q, b), first, last + 1)
<1> DEFINE r == Append(q, b)
<1>1. /\ Len(q) \in Nat /\ Len(r) = Len(q) + 1 /\ r[Len(q) + 1] = b
      /\ \A i \in 1 .. Len(q) : r[i] = q[i] /\ q[i] \in OutByte
  BY LenProperties, AppendProperties, ElementOfSeq
<1>2. Serial(b) \in Int /\ \A i \in 1 .. Len(q) : Serial(q[i]) \in Int
  BY <1>1, SerialType
<1> HIDE DEF r
<1>3. ASSUME ~b.aux PROVE Window(r, first, last)
  <2>1. \A i \in 1 .. Len(r) : r[i].aux => i \in 1 .. Len(q)
    BY <1>1, <1>3
  <2>2. \A i \in 1 .. Len(r) : r[i].aux => first <= Serial(r[i]) /\ Serial(r[i]) <= last
    BY <1>1, <2>1 DEF Window
  <2>3. \A n \in first .. last : \E i \in 1 .. Len(r) : r[i].aux /\ Serial(r[i]) = n
    <3> SUFFICES ASSUME NEW n \in first .. last
                 PROVE  \E i \in 1 .. Len(r) : r[i].aux /\ Serial(r[i]) = n
      OBVIOUS
    <3>1. PICK i \in 1 .. Len(q) : q[i].aux /\ Serial(q[i]) = n
      BY DEF Window
    <3> QED
      BY <1>1, <3>1
  <2>4. \A i, j \in 1 .. Len(r) : i < j /\ r[i].aux /\ r[j].aux => Serial(r[i]) < Serial(r[j])
    BY <1>1, <2>1 DEF Window
  <2> QED
    BY <2>2, <2>3, <2>4 DEF Window
<1>4. ASSUME b.aux, first <= last + 1, Serial(b) = last + 1
      PROVE  Window(r, first, last + 1)
  <2>2. \A i \in 1 .. Len(r) : r[i].aux => first <= Serial(r[i]) /\ Serial(r[i]) <= last + 1
    <3> SUFFICES ASSUME NEW i \in 1 .. Len(r), r[i].aux
                 PROVE  first <= Serial(r[i]) /\ Serial(r[i]) <= last + 1
      OBVIOUS
    <3>1. CASE i = Len(q) + 1
      BY <1>1, <1>4, <3>1
    <3>2. CASE i \in 1 .. Len(q)
      BY <1>1, <1>2, <3>2 DEF Window
    <3> QED
      BY <1>1, <3>1, <3>2
  <2>3. \A n \in first .. last + 1 : \E i \in 1 .. Len(r) : r[i].aux /\ Serial(r[i]) = n
    <3> SUFFICES ASSUME NEW n \in first .. last + 1
                 PROVE  \E i \in 1 .. Len(r) : r[i].aux /\ Serial(r[i]) = n
      OBVIOUS
    <3>1. CASE n = last + 1
      BY <1>1, <1>4, <3>1, Len(q) + 1 \in 1 .. Len(r)
    <3>2. CASE n \in first .. last
      <4>1. PICK i \in 1 .. Len(q) : q[i].aux /\ Serial(q[i]) = n
        BY <3>2 DEF Window
      <4> QED
        BY <1>1, <4>1
    <3> QED
      BY <3>1, <3>2
  <2>4. \A i, j \in 1 .. Len(r) : i < j /\ r[i].aux /\ r[j].aux => Serial(r[i]) < Serial(r[j])
    <3> SUFFICES ASSUME NEW i \in 1 .. Len(r), NEW j \in 1 .. Len(r), i < j, r[i].aux, r[j].aux
                 PROVE  Serial(r[i]) < Serial(r[j])
      OBVIOUS
    <3>1. i \in 1 .. Len(q)
      BY <1>1
    <3>2. CASE j = Len(q) + 1
      BY <1>1, <1>2, <1>4, <3>1, <3>2 DEF Window
    <3>3. CASE j \in 1 .. Len(q)
      BY <1>1, <3>1, <3>3 DEF Window
    <3> QED
      BY <1>1, <3>2, <3>3
  <2> QED
    BY <2>2, <2>3, <2>4 DEF Window
<1> QED
  BY <1>3, <1>4 DEF r

\* The byte that is read is the first one that was not; what remains is in order.
LEMMA WindowTail ==
  ASSUME NEW q \in Seq(OutByte), q # <<>>, NEW first \in Int, NEW last \in Int,
         Window(q, first, last)
  PROVE  /\ ~q[1].aux => Window(Tail(q), first, last)
         /\ q[1].aux => /\ Serial(q[1]) = first /\ first <= last
                        /\ Window(Tail(q), first + 1, last)
<1> DEFINE r == Tail(q)
<1>1. /\ Len(q) \in Nat /\ Len(q) >= 1 /\ Len(r) = Len(q) - 1
      /\ \A i \in 1 .. Len(q) : q[i] \in OutByte
      /\ \A i \in 1 .. Len(r) : r[i] = q[i + 1]
  BY LenProperties, HeadTailProperties, ElementOfSeq, EmptySeq
<1>2. \A i \in 1 .. Len(q) : Serial(q[i]) \in Int
  BY <1>1, SerialType
<1> HIDE DEF r
<1>3. \A i \in 1 .. Len(r) : i + 1 \in 1 .. Len(q)
  BY <1>1
<1>4. \A i, j \in 1 .. Len(r) : i < j /\ r[i].aux /\ r[j].aux => Serial(r[i]) < Serial(r[j])
  BY <1>1, <1>3 DEF Window
<1>5. ASSUME ~q[1].aux PROVE Window(r, first, last)
  <2>1. \A i \in 1 .. Len(r) : r[i].aux => first <= Serial(r[i]) /\ Serial(r[i]) <= last
    BY <1>1, <1>3 DEF Window
  <2>2. \A n \in first .. last : \E i \in 1 .. Len(r) : r[i].aux /\ Serial(r[i]) = n
    <3> SUFFICES ASSUME NEW n \in first .. last
                 PROVE  \E i \in 1 .. Len(r) : r[i].aux /\ Serial(r[i]) = n
      OBVIOUS
    <3>1. PICK i \in 1 .. Len(q) : q[i].aux /\ Serial(q[i]) = n
      BY DEF Window
    <3>2. i # 1 /\ i - 1 \in 1 .. Len(r) /\ r[i - 1] = q[i]
      BY <1>1, <1>5, <3>1
    <3> QED
      BY <3>1, <3>2
  <2> QED
    BY <1>4, <2>1, <2>2 DEF Window
<1>6. ASSUME q[1].aux
      PROVE  Serial(q[1]) = first /\ first <= last /\ Window(r, first + 1, last)
  <2>1. 1 \in 1 .. Len(q) /\ first <= Serial(q[1]) /\ Serial(q[1]) <= last
    BY <1>1, <1>6 DEF Window
  <2>2. first \in first .. last
    BY <1>2, <2>1
  <2>3. PICK k \in 1 .. Len(q) : q[k].aux /\ Serial(q[k]) = first
    BY <2>2 DEF Window
  <2>4. k = 1
    <3> SUFFICES ASSUME k > 1 PROVE FALSE
      BY <1>1
    <3>1. Serial(q[1]) < Serial(q[k])
      BY <1>6, <2>1, <2>3 DEF Window
    <3> QED
      BY <1>2, <2>1, <2>3, <3>1
  <2>5. \A i \in 1 .. Len(r) : r[i].aux => first + 1 <= Serial(r[i]) /\ Serial(r[i]) <= last
    <3> SUFFICES ASSUME NEW i \in 1 .. Len(r), r[i].aux
                 PROVE  first + 1 <= Serial(r[i]) /\ Serial(r[i]) <= last
      OBVIOUS
    <3>1. i + 1 \in 1 .. Len(q) /\ 1 < i + 1 /\ r[i] = q[i + 1]
      BY <1>1, <1>3
    <3>2. Serial(q[1]) < Serial(q[i + 1]) /\ Serial(q[i + 1]) <= last
      BY <1>6, <2>1, <3>1 DEF Window
    <3> QED
      BY <1>2, <2>3, <2>4, <3>1, <3>2
  <2>6. \A n \in first + 1 .. last : \E i \in 1 .. Len(r) : r[i].aux /\ Serial(r[i]) = n
    <3> SUFFICES ASSUME NEW n \in first + 1 .. last
                 PROVE  \E i \in 1 .. Len(r) : r[i].aux /\ Serial(r[i]) = n
      OBVIOUS
    <3>1. n \in first .. last /\ n # first
      OBVIOUS
    <3>2. PICK i \in 1 .. Len(q) : q[i].aux /\ Serial(q[i]) = n
      BY <3>1 DEF Window
    <3>3. i # 1
      BY <2>3, <2>4, <3>1, <3>2
    <3>4. i - 1 \in 1 .. Len(r) /\ r[i - 1] = q[i]
      BY <1>1, <3>3
    <3> QED
      BY <3>2, <3>4
  <2> QED
    BY <1>2, <1>4, <2>1, <2>3, <2>4, <2>5, <2>6 DEF Window
<1> QED
  BY <1>5, <1>6 DEF r

\* The tail of a call takes the button from the packets, and nothing else touches it.
LEMMA ButtonStep ==
  ASSUME TypeOK, ButtonIntact, [Next]_vars
  PROVE  ButtonIntact'
<1>1. call \in Call /\ cursor \in Cursor /\ mouse \in MouseState /\ decoded \in Seq(Packet)
  BY DEF TypeOK
<1>2. CASE BeginUpdate
  <2>1. /\ ~call.running /\ call'.running /\ call'.leftButtonDown = cursor.LeftButtonDown
        /\ decoded' = decoded
    BY <1>2 DEF BeginUpdate, Idle
  <2> QED
    BY <2>1 DEF ButtonIntact
<1>3. CASE EndUpdate
  <2>1. call.running /\ ~call'.running /\ decoded' = decoded
    BY <1>3 DEF EndUpdate, Idle
  <2>2. cursor'.LeftButtonDown = call.leftButtonDown
    <3>1. Polled \in Cursor /\ Raw \in Cursor /\ cursor' \in {Polled, Calm, MovedBy}
      BY <1>3, EndTypes
    <3>2. Polled.LeftButtonDown = call.leftButtonDown
      BY <1>1 DEF Polled, Cursor
    <3>3. Raw.LeftButtonDown = Polled.LeftButtonDown
      BY <3>1 DEF Raw, Cursor
    <3>4. Calm.LeftButtonDown = Raw.LeftButtonDown
      BY <3>1 DEF Calm, Cursor
    <3>5. MovedBy.LeftButtonDown = Raw.LeftButtonDown
      BY <3>1 DEF MovedBy, Moved, Cursor
    <3> QED
      BY <3>1, <3>2, <3>3, <3>4, <3>5
  <2> QED
    BY <2>1, <2>2 DEF ButtonIntact
<1>4. CASE ReadForeign \/ SkipByte \/ StoreByte
  <2>1. /\ call' = [call EXCEPT !.readCount = @ + 1]
        /\ decoded' = decoded /\ cursor' = cursor
    BY <1>4 DEF ReadForeign, SkipByte, StoreByte
  <2>2. call'.running = call.running /\ call'.leftButtonDown = call.leftButtonDown
    BY <1>1, <2>1 DEF Call
  <2> QED
    BY <2>1, <2>2 DEF ButtonIntact
<1>5. CASE CompletePacket
  <2> DEFINE packet == [mouse.Packet EXCEPT ![3] = Head(out).data]
             a == AddPacket(call, packet)
             d == NoteMeaning(a, packet)
  <2>1. call.running /\ packet \in Packet
    BY <1>5, ReadType DEF CompletePacket, Reading, TypeOK, MouseState, Packet
  <2>2. decoded' = Append(decoded, packet) /\ call' = [d EXCEPT !.readCount = d.readCount + 1]
    BY <1>5 DEF CompletePacket
  <2> HIDE DEF packet
  <2>3. a \in Call /\ a.running /\ a.leftButtonDown = Bit(packet[1], 0)
    <3>1. a \in Call
      BY <1>1, <2>1, AddPacketType
    <3>2. a.running /\ a.leftButtonDown = Bit(packet[1], 0)
      BY <1>1, <2>1 DEF AddPacket, Call
    <3> QED
      BY <3>1, <3>2
  <2> HIDE DEF a
  <2>4. d \in Call /\ d.running /\ d.leftButtonDown = Bit(packet[1], 0)
    <3>1. d \in Call
      BY <2>1, <2>3, AddPacketType
    <3>2. d.running = a.running /\ d.leftButtonDown = a.leftButtonDown
      BY <2>3 DEF NoteMeaning, Call
    <3> QED
      BY <2>3, <3>1, <3>2
  <2> HIDE DEF d
  <2>5. call'.running = d.running /\ call'.leftButtonDown = d.leftButtonDown
    BY <2>2, <2>4 DEF Call
  <2>6. decoded'[Len(decoded')] = packet
    BY <1>1, <2>1, <2>2, AppendProperties, LenProperties
  <2> QED
    BY <2>4, <2>5, <2>6 DEF ButtonIntact
<1>6. CASE Devices \/ UNCHANGED vars
  <2>1. UNCHANGED <<call, cursor, decoded>>
    BY <1>6 DEF Devices, MousePacket, AuxTransfer, AuxLost, KeyPress, vars
  <2> QED
    BY <2>1 DEF ButtonIntact
<1> QED
  BY <1>2, <1>3, <1>4, <1>5, <1>6 DEF Next, Driver

\* The types the stream is about.
LEMMA StreamTypes ==
  ASSUME TypeOK
  PROVE  /\ out \in Seq(OutByte) /\ devq \in Seq(OutByte)
         /\ sent \in Seq(Packet) /\ decoded \in Seq(Packet)
         /\ Len(out) \in Nat /\ Len(devq) \in Nat /\ Len(sent) \in Nat /\ Len(decoded) \in Nat
         /\ mouse \in MouseState /\ mouse.PacketIndex \in 0 .. 2 /\ mouse.Packet \in Packet
         /\ BytesRead \in Int /\ BytesPassed \in Int
<1>1. /\ Len(out) \in Nat /\ Len(devq) \in Nat /\ Len(sent) \in Nat /\ Len(decoded) \in Nat
      /\ mouse.PacketIndex \in 0 .. 2 /\ mouse.Packet \in Packet
  BY LenProperties DEF TypeOK, MouseState
<1> QED
  BY <1>1 DEF TypeOK, BytesRead, BytesPassed

\* The mouse byte at the head of the buffer is the one the decoder waits for.
LEMMA HeadIsNext ==
  ASSUME TypeOK, HeadsMarked, StreamIntact, Reading, Head(out).aux
  PROVE  /\ Len(decoded) + 1 <= Len(sent)
         /\ Head(out).data = sent[Len(decoded) + 1][mouse.PacketIndex + 1]
         /\ mouse.PacketIndex = 0 => IsHead(Head(out).data)
         /\ BytesRead + 1 <= BytesPassed
         /\ Window(Tail(out), BytesRead + 2, BytesPassed)
         /\ \A i \in 1 .. Len(Tail(out)) : Tail(out)[i].aux => Truthful(Tail(out)[i], sent)
<1> DEFINE b == Head(out)
<1>1. /\ b \in OutByte /\ b = out[1] /\ Len(out) >= 1 /\ out # <<>>
      /\ Len(Tail(out)) = Len(out) - 1
      /\ \A i \in 1 .. Len(out) - 1 : Tail(out)[i] = out[i + 1]
  BY ReadType DEF Reading
<1>2. /\ Serial(b) = BytesRead + 1 /\ BytesRead + 1 <= BytesPassed
      /\ Window(Tail(out), BytesRead + 2, BytesPassed)
  <2>1. BytesRead + 1 \in Int /\ BytesRead + 2 = (BytesRead + 1) + 1
    BY StreamTypes
  <2>2. /\ Serial(out[1]) = BytesRead + 1 /\ BytesRead + 1 <= BytesPassed
        /\ Window(Tail(out), (BytesRead + 1) + 1, BytesPassed)
    BY <1>1, <2>1, StreamTypes, WindowTail DEF StreamIntact
  <2> QED
    BY <1>1, <2>1, <2>2
<1>3. Truthful(b, sent)
  BY <1>1, StreamTypes, 1 \in 1 .. Len(out) DEF StreamIntact
<1>4. b.packet = Len(decoded) + 1 /\ b.place = mouse.PacketIndex
  <2>1. b.packet \in Nat /\ b.place \in 0 .. 2
    BY <1>1, <1>3 DEF OutByte, Truthful
  <2>2. 3 * b.packet + b.place - 2 = 3 * Len(decoded) + mouse.PacketIndex + 1
    BY <1>2 DEF Serial, BytesRead
  <2>3. \A m, n \in Nat, x, y \in 0 .. 2 :
          3 * m + x - 2 = 3 * n + y + 1 => m = n + 1 /\ x = y
    OBVIOUS
  <2>4. Len(decoded) \in Nat /\ mouse.PacketIndex \in 0 .. 2
    BY StreamTypes
  <2> DEFINE m == b.packet
             x == b.place
             n == Len(decoded)
             y == mouse.PacketIndex
  <2>5. m \in Nat /\ n \in Nat /\ x \in 0 .. 2 /\ y \in 0 .. 2 /\ 3 * m + x - 2 = 3 * n + y + 1
    BY <2>1, <2>2, <2>4
  <2> HIDE DEF m, n, x, y
  <2>6. m = n + 1 /\ x = y
    BY <2>3, <2>5
  <2> QED
    BY <2>6 DEF m, n, x, y
<1>5. mouse.PacketIndex = 0 => IsHead(b.data)
  BY <1>1, <1>4, StreamTypes, 1 \in 1 .. Len(out) DEF HeadsMarked
<1>6. \A i \in 1 .. Len(Tail(out)) : Tail(out)[i].aux => Truthful(Tail(out)[i], sent)
  BY <1>1, StreamTypes DEF StreamIntact
<1>7. /\ Len(decoded) + 1 <= Len(sent)
      /\ b.data = sent[Len(decoded) + 1][mouse.PacketIndex + 1]
  BY <1>3, <1>4, StreamTypes DEF Truthful
<1> QED
  BY <1>2, <1>5, <1>6, <1>7

\* A byte is put where it belongs: what StoreByte and CompletePacket share.
LEMMA ReadStep ==
  ASSUME TypeOK, HeadsMarked, StreamIntact, Reading, Head(out).aux,
         out' = Tail(out), UNCHANGED <<devq, sent>>,
         BytesRead' = BytesRead + 1,
         \A i \in 1 .. Len(decoded') : decoded'[i] = sent[i],
         \A k \in 1 .. mouse'.PacketIndex : mouse'.Packet[k] = sent[Len(decoded') + 1][k]
  PROVE  StreamIntact'
<1>1. /\ BytesRead + 1 <= BytesPassed
      /\ Window(Tail(out), BytesRead + 2, BytesPassed)
      /\ \A i \in 1 .. Len(Tail(out)) : Tail(out)[i].aux => Truthful(Tail(out)[i], sent)
  BY HeadIsNext
<1>2. BytesPassed' = BytesPassed
  BY DEF BytesPassed
<1>3. BytesRead' + 1 = BytesRead + 2
  BY StreamTypes
<1>4. Window(out, BytesRead + 1, BytesPassed)'
  BY <1>1, <1>2, <1>3 DEF Window
<1>5. DeviceIntact'
  BY <1>2 DEF StreamIntact, DeviceIntact
<1>6. DecoderIntact'
  BY <1>1, <1>2 DEF DecoderIntact
<1> QED
  BY <1>1, <1>4, <1>5, <1>6 DEF StreamIntact

LEMMA StoreStep ==
  ASSUME TypeOK, HeadsMarked, StreamIntact, StoreByte
  PROVE  StreamIntact'
<1> DEFINE q == mouse.PacketIndex
<1>1. /\ Reading /\ Head(out).aux /\ q < 2 /\ out' = Tail(out)
      /\ UNCHANGED <<devq, sent, decoded>>
  BY DEF StoreByte
<1>2. /\ q \in 0 .. 1 /\ mouse \in MouseState /\ mouse.Packet \in Packet
      /\ Len(decoded) \in Nat /\ BytesRead \in Int
  BY <1>1, StreamTypes
<1>3. mouse'.PacketIndex = q + 1
  BY <1>2 DEF StoreByte, MouseState
<1>4. mouse'.Packet = [mouse.Packet EXCEPT ![q + 1] = Head(out).data]
  BY <1>2 DEF StoreByte, MouseState
<1>5. BytesRead' = BytesRead + 1
  BY <1>1, <1>2, <1>3 DEF BytesRead
<1>6. \A i \in 1 .. Len(decoded') : decoded'[i] = sent[i]
  BY <1>1 DEF StreamIntact, DecoderIntact
<1>7. \A k \in 1 .. mouse'.PacketIndex : mouse'.Packet[k] = sent[Len(decoded') + 1][k]
  <2> SUFFICES ASSUME NEW k \in 1 .. q + 1
               PROVE  [mouse.Packet EXCEPT ![q + 1] = Head(out).data][k]
                        = sent[Len(decoded) + 1][k]
    BY <1>1, <1>3, <1>4
  <2>1. CASE k = q + 1
    BY <1>1, <1>2, <2>1, HeadIsNext DEF Packet
  <2>2. CASE k \in 1 .. q
    BY <1>2, <2>2 DEF Packet, StreamIntact, DecoderIntact
  <2> QED
    BY <1>2, <2>1, <2>2
<1> QED
  BY <1>1, <1>5, <1>6, <1>7, ReadStep

LEMMA CompleteStep ==
  ASSUME TypeOK, HeadsMarked, StreamIntact, CompletePacket
  PROVE  StreamIntact'
<1> DEFINE packet == [mouse.Packet EXCEPT ![3] = Head(out).data]
           n == Len(decoded) + 1
<1>1. /\ Reading /\ Head(out).aux /\ mouse.PacketIndex = 2 /\ out' = Tail(out)
      /\ UNCHANGED <<devq, sent>>
      /\ mouse' = [mouse EXCEPT !.Packet = packet, !.PacketIndex = 0]
      /\ decoded' = Append(decoded, packet)
  BY DEF CompletePacket
<1>2. /\ mouse \in MouseState /\ mouse.Packet \in Packet
      /\ Len(decoded) \in Nat /\ BytesRead \in Int /\ decoded \in Seq(Packet)
  BY StreamTypes
<1>3. packet \in Packet
  BY <1>1, <1>2, ReadType DEF Packet
<1>4. n <= Len(sent) /\ Head(out).data = sent[n][3]
  BY <1>1, HeadIsNext
<1>5. sent[n] \in Packet
  BY <1>2, <1>4, StreamTypes, ElementOfSeq
<1>6. packet = sent[n]
  <2>1. \A k \in 1 .. 2 : mouse.Packet[k] = sent[n][k]
    BY <1>1 DEF StreamIntact, DecoderIntact
  <2>2. \A k \in 1 .. 3 : packet[k] = sent[n][k]
    BY <1>2, <1>4, <2>1 DEF Packet
  <2> HIDE DEF packet
  <2> QED
    BY <1>3, <1>5, <2>2 DEF Packet
<1>7. mouse'.PacketIndex = 0
  BY <1>1, <1>2 DEF MouseState
<1> HIDE DEF packet
<1>8. Len(decoded') = n /\ decoded'[n] = packet /\ \A i \in 1 .. Len(decoded) : decoded'[i] = decoded[i]
  BY <1>1, <1>2, <1>3, AppendProperties
<1>9. BytesRead' = BytesRead + 1
  BY <1>1, <1>2, <1>7, <1>8 DEF BytesRead
<1>10. \A i \in 1 .. Len(decoded') : decoded'[i] = sent[i]
  BY <1>2, <1>6, <1>8 DEF StreamIntact, DecoderIntact
<1>11. \A k \in 1 .. mouse'.PacketIndex : mouse'.Packet[k] = sent[Len(decoded') + 1][k]
  BY <1>7
<1> QED
  BY <1>1, <1>9, <1>10, <1>11, ReadStep

\* Nothing that concerns the stream changes.
LEMMA StreamUnchanged ==
  ASSUME StreamIntact, UNCHANGED <<out, devq, sent, decoded>>,
         mouse'.PacketIndex = mouse.PacketIndex, mouse'.Packet = mouse.Packet
  PROVE  StreamIntact'
<1>1. BytesRead' = BytesRead /\ BytesPassed' = BytesPassed
  BY DEF BytesRead, BytesPassed
<1> QED
  BY <1>1 DEF StreamIntact, DeviceIntact, DecoderIntact, Window

\* The mouse starts a packet: what was sent before is as it was.
LEMMA PacketStep ==
  ASSUME TypeOK, StreamIntact, MousePacket
  PROVE  StreamIntact'
<1>1. PICK p \in Packets : devq' = PacketBytes(p, Len(sent) + 1) /\ sent' = Append(sent, p)
  BY DEF MousePacket
<1>2. devq = <<>> /\ Len(devq) = 0 /\ UNCHANGED <<mouse, out, decoded>>
  BY DEF MousePacket
<1>3. p \in Packet /\ Len(sent) + 1 \in Nat
  BY PacketType, StreamTypes
<1>4. /\ Len(devq') = 3
      /\ \A i \in 1 .. 3 : devq'[i] =
           [aux |-> TRUE, data |-> p[i], packet |-> Len(sent) + 1, place |-> i - 1]
  BY <1>1, <1>3, PacketBytesType
<1>5. /\ Len(sent') = Len(sent) + 1 /\ sent'[Len(sent) + 1] = p
      /\ \A i \in 1 .. Len(sent) : sent'[i] = sent[i]
  BY <1>1, <1>3, StreamTypes, AppendProperties
<1>6. BytesPassed' = BytesPassed /\ BytesRead' = BytesRead /\ BytesPassed = 3 * Len(sent)
  BY <1>2, <1>4, <1>5, StreamTypes DEF BytesPassed, BytesRead
<1>7. \A i \in 1 .. Len(out') : out'[i].aux => Truthful(out'[i], sent')
  <2> SUFFICES ASSUME NEW i \in 1 .. Len(out), out[i].aux
               PROVE  Truthful(out[i], sent')
    BY <1>2
  <2>1. Truthful(out[i], sent)
    BY DEF StreamIntact
  <2> QED
    BY <1>5, <2>1, StreamTypes DEF Truthful
<1>8. Window(out, BytesRead + 1, BytesPassed)'
  BY <1>2, <1>6 DEF StreamIntact, Window
<1>9. DeviceIntact'
  <2>1. \A i \in 1 .. 3 : /\ devq'[i].aux
                          /\ Truthful(devq'[i], sent')
                          /\ Serial(devq'[i]) = BytesPassed' + i
    <3> SUFFICES ASSUME NEW i \in 1 .. 3
                 PROVE  /\ devq'[i].aux
                        /\ Truthful(devq'[i], sent')
                        /\ Serial(devq'[i]) = BytesPassed' + i
      OBVIOUS
    <3>1. /\ devq'[i].aux /\ devq'[i].data = p[i]
          /\ devq'[i].packet = Len(sent) + 1 /\ devq'[i].place = i - 1
      BY <1>4
    <3>2. Truthful(devq'[i], sent')
      BY <1>5, <3>1, StreamTypes DEF Truthful
    <3>3. Serial(devq'[i]) = BytesPassed' + i
      BY <1>6, <3>1, StreamTypes DEF Serial
    <3> QED
      BY <3>1, <3>2, <3>3
  <2> QED
    BY <1>4, <1>5, <2>1, StreamTypes DEF DeviceIntact
<1>10. DecoderIntact'
  <2>1. BytesRead <= 3 * Len(sent)
    BY <1>6 DEF StreamIntact, DecoderIntact
  <2>2. /\ Len(decoded) <= Len(sent)
        /\ mouse.PacketIndex > 0 => Len(decoded) + 1 <= Len(sent)
    BY <2>1, StreamTypes DEF BytesRead
  <2>3. \A i \in 1 .. Len(decoded) : decoded[i] = sent'[i]
    BY <1>5, <2>2, StreamTypes DEF StreamIntact, DecoderIntact
  <2>4. \A k \in 1 .. mouse.PacketIndex : mouse.Packet[k] = sent'[Len(decoded) + 1][k]
    BY <1>5, <2>2, StreamTypes DEF StreamIntact, DecoderIntact
  <2> QED
    BY <1>2, <1>6, <2>3, <2>4 DEF StreamIntact, DecoderIntact
<1> QED
  BY <1>7, <1>8, <1>9, <1>10 DEF StreamIntact

\* The controller takes the next byte of the mouse.
LEMMA TransferStep ==
  ASSUME TypeOK, StreamIntact, AuxTransfer
  PROVE  StreamIntact'
<1>1. /\ devq # <<>> /\ out' = Append(out, Head(devq)) /\ devq' = Tail(devq)
      /\ UNCHANGED <<mouse, sent, decoded>>
  BY DEF AuxTransfer
<1>2. /\ Head(devq) \in OutByte /\ Head(devq) = devq[1] /\ Len(devq) >= 1
      /\ Len(devq') = Len(devq) - 1
      /\ \A i \in 1 .. Len(devq) - 1 : devq'[i] = devq[i + 1]
  BY <1>1, StreamTypes, HeadTailProperties, EmptySeq
<1>3. /\ Len(out') = Len(out) + 1 /\ out'[Len(out) + 1] = devq[1]
      /\ \A i \in 1 .. Len(out) : out'[i] = out[i]
  BY <1>1, <1>2, StreamTypes, AppendProperties
<1>4. devq[1].aux /\ Truthful(devq[1], sent) /\ Serial(devq[1]) = BytesPassed + 1
  BY <1>2, StreamTypes, 1 \in 1 .. Len(devq) DEF StreamIntact, DeviceIntact
<1>5. BytesPassed' = BytesPassed + 1 /\ BytesRead' = BytesRead
  BY <1>1, <1>2, StreamTypes DEF BytesPassed, BytesRead
<1>6. \A i \in 1 .. Len(out') : out'[i].aux => Truthful(out'[i], sent')
  BY <1>1, <1>3, <1>4, StreamTypes, SMTT(30) DEF StreamIntact
<1>7. Window(out, BytesRead + 1, BytesPassed)'
  <2>1. BytesRead + 1 \in Int /\ BytesRead + 1 <= BytesPassed + 1
    BY StreamTypes DEF StreamIntact, DecoderIntact
  <2>2. Window(Append(out, Head(devq)), BytesRead + 1, BytesPassed + 1)
    BY <1>2, <1>4, <2>1, StreamTypes, WindowAppend DEF StreamIntact
  <2> QED
    BY <1>1, <1>5, <2>2 DEF Window
<1>8. DeviceIntact'
  <2>1. \A i \in 1 .. Len(devq') : /\ devq'[i].aux
                                   /\ Truthful(devq'[i], sent')
                                   /\ Serial(devq'[i]) = BytesPassed' + i
    <3> SUFFICES ASSUME NEW i \in 1 .. Len(devq')
                 PROVE  /\ devq'[i].aux
                        /\ Truthful(devq'[i], sent')
                        /\ Serial(devq'[i]) = BytesPassed' + i
      OBVIOUS
    <3>1. i + 1 \in 1 .. Len(devq) /\ devq'[i] = devq[i + 1]
      BY <1>2, StreamTypes
    <3>2. /\ devq[i + 1].aux /\ Truthful(devq[i + 1], sent)
          /\ Serial(devq[i + 1]) = BytesPassed + (i + 1)
      BY <3>1 DEF StreamIntact, DeviceIntact
    <3> QED
      BY <1>1, <1>2, <1>5, <3>1, <3>2, StreamTypes
  <2>2. Len(devq') <= 3 /\ (Len(devq') > 0 => Len(sent') > 0)
    BY <1>1, <1>2, StreamTypes DEF StreamIntact, DeviceIntact
  <2> QED
    BY <2>1, <2>2 DEF DeviceIntact
<1>9. DecoderIntact'
  BY <1>1, <1>5, StreamTypes DEF StreamIntact, DecoderIntact
<1> QED
  BY <1>6, <1>7, <1>8, <1>9 DEF StreamIntact

LEMMA StreamStep ==
  ASSUME TypeOK, HeadsMarked, StreamIntact, losses = 0, [Next]_vars, losses' = 0
  PROVE  StreamIntact'
<1>1. CASE MousePacket
  BY <1>1, PacketStep
<1>2. CASE AuxTransfer
  BY <1>2, TransferStep
<1>3. CASE AuxLost
  BY <1>3 DEF AuxLost
<1>4. CASE KeyPress
  <2>1. PICK code \in Scancodes : out' = Append(out, KeyByte(code))
    BY <1>4 DEF KeyPress
  <2>2. KeyByte(code) \in OutByte /\ ~KeyByte(code).aux
    BY PacketsAssumption DEF KeyByte, OutByte
  <2>3. /\ Len(out') = Len(out) + 1 /\ out'[Len(out) + 1] = KeyByte(code)
        /\ \A i \in 1 .. Len(out) : out'[i] = out[i]
    BY <2>1, <2>2, StreamTypes, AppendProperties
  <2>4. UNCHANGED <<mouse, devq, sent, decoded>>
    BY <1>4 DEF KeyPress
  <2>5. BytesPassed' = BytesPassed /\ BytesRead' = BytesRead /\ BytesRead + 1 \in Int
    BY <2>4, StreamTypes DEF BytesPassed, BytesRead
  <2>6. \A i \in 1 .. Len(out') : out'[i].aux => Truthful(out'[i], sent')
    <3>1. \A i \in 1 .. Len(out') : i \in 1 .. Len(out) \/ i = Len(out) + 1
      BY <2>3, StreamTypes
    <3>2. \A i \in 1 .. Len(out) : out[i].aux => Truthful(out[i], sent)
      BY DEF StreamIntact
    <3> QED
      BY <2>2, <2>3, <2>4, <3>1, <3>2
  <2>7. Window(Append(out, KeyByte(code)), BytesRead + 1, BytesPassed)
    BY <2>2, <2>5, StreamTypes, WindowAppend DEF StreamIntact
  <2>8. Window(out, BytesRead + 1, BytesPassed)'
    BY <2>1, <2>5, <2>7 DEF Window
  <2>9. DeviceIntact' /\ DecoderIntact'
    BY <2>4, <2>5 DEF StreamIntact, DeviceIntact, DecoderIntact
  <2> QED
    BY <2>6, <2>8, <2>9 DEF StreamIntact
<1>5. CASE ReadForeign
  <2>1. Reading /\ ~Head(out).aux /\ out' = Tail(out) /\ UNCHANGED <<mouse, devq, sent, decoded>>
    BY <1>5 DEF ReadForeign
  <2>2. /\ Head(out) = out[1] /\ out # <<>> /\ Len(out') = Len(out) - 1
        /\ \A i \in 1 .. Len(out) - 1 : out'[i] = out[i + 1]
    BY <2>1, ReadType DEF Reading
  <2>3. BytesPassed' = BytesPassed /\ BytesRead' = BytesRead /\ BytesRead + 1 \in Int
    BY <2>1, StreamTypes DEF BytesPassed, BytesRead
  <2>4. \A i \in 1 .. Len(out') : out'[i].aux => Truthful(out'[i], sent')
    BY <2>1, <2>2, StreamTypes DEF StreamIntact
  <2>5. Window(Tail(out), BytesRead + 1, BytesPassed)
    BY <2>1, <2>2, <2>3, StreamTypes, WindowTail DEF StreamIntact
  <2>6. Window(out, BytesRead + 1, BytesPassed)'
    BY <2>1, <2>3, <2>5 DEF Window
  <2>7. DeviceIntact' /\ DecoderIntact'
    BY <2>1, <2>3 DEF StreamIntact, DeviceIntact, DecoderIntact
  <2> QED
    BY <2>4, <2>6, <2>7 DEF StreamIntact
<1>6. CASE SkipByte
  BY <1>6, HeadIsNext DEF SkipByte
<1>7. CASE StoreByte
  BY <1>7, StoreStep
<1>8. CASE CompletePacket
  BY <1>8, CompleteStep
<1>9. CASE BeginUpdate \/ UNCHANGED vars
  BY <1>9, StreamUnchanged DEF BeginUpdate, vars
<1>10. CASE EndUpdate
  <2>1. mouse \in MouseState
    BY DEF TypeOK
  <2>2. \/ mouse' = mouse
        \/ mouse' = [mouse EXCEPT !.LastDeltaX = CountsToDelta(call.totalDeltaX),
                                  !.LastDeltaY = CountsToDeltaY(call.totalDeltaY),
                                  !.PacketCount = @ + call.packetCount]
    BY <1>10 DEF EndUpdate
  <2>3. mouse'.PacketIndex = mouse.PacketIndex /\ mouse'.Packet = mouse.Packet
    BY <2>1, <2>2 DEF MouseState
  <2>4. UNCHANGED <<out, devq, sent, decoded>>
    BY <1>10 DEF EndUpdate
  <2> QED
    BY <2>3, <2>4, StreamUnchanged
<1> QED
  BY <1>1, <1>2, <1>3, <1>4, <1>5, <1>6, <1>7, <1>8, <1>9, <1>10 DEF Next, Driver, Devices

\* Between the mouse and UpdateCursorFromPs2Mouse, a link that loses nothing loses, doubles
\* and reorders nothing, however the bytes are spread over calls and mixed with keys.
THEOREM PacketsStayIntact == Spec => []PacketsIntact
<1>1. Init => IntactInvariant
  <2> SUFFICES ASSUME Init PROVE IntactInvariant
    OBVIOUS
  <2>1. HeadsMarked
    <3>1. CASE out = <<>>
      BY <3>1 DEF Init, HeadsMarked
    <3>2. CASE out = <<Stray>>
      BY <3>2 DEF Init, HeadsMarked, Stray
    <3> QED
      BY <3>1, <3>2 DEF Init
  <2>2. ButtonIntact
    BY DEF Init, ButtonIntact
  <2>3. ASSUME losses = 0 PROVE StreamIntact
    <3>1. out = <<>> /\ devq = <<>> /\ sent = <<>> /\ decoded = <<>> /\ mouse.PacketIndex = 0
      BY <2>3 DEF Init
    <3>2. BytesRead = 0 /\ BytesPassed = 0
      BY <3>1 DEF BytesRead, BytesPassed
    <3> QED
      BY <3>1, <3>2 DEF StreamIntact, Window, DeviceIntact, DecoderIntact
  <2> QED
    BY <2>1, <2>2, <2>3 DEF IntactInvariant
<1>2. IntactInvariant /\ TypeOK /\ [Next]_vars => IntactInvariant'
  <2> SUFFICES ASSUME IntactInvariant, TypeOK, [Next]_vars PROVE IntactInvariant'
    OBVIOUS
  <2>1. HeadsMarked' /\ ButtonIntact'
    BY HeadsStep, ButtonStep DEF IntactInvariant
  <2>2. ASSUME losses' = 0 PROVE StreamIntact'
    <3>1. losses \in Nat /\ (losses' = losses \/ losses' = losses + 1)
      BY DEF TypeOK, Next, Driver, Devices, BeginUpdate, ReadForeign, SkipByte, StoreByte,
         CompletePacket, EndUpdate, MousePacket, AuxTransfer, AuxLost, KeyPress, vars
    <3>2. losses = 0
      BY <2>2, <3>1
    <3> QED
      BY <2>2, <3>2, StreamStep DEF IntactInvariant
  <2> QED
    BY <2>1, <2>2 DEF IntactInvariant
<1>3. IntactInvariant /\ TypeOK => PacketsIntact
  <2> SUFFICES ASSUME IntactInvariant, TypeOK, losses = 0
               PROVE  /\ Len(decoded) <= Len(sent)
                      /\ \A i \in 1 .. Len(decoded) : decoded[i] = sent[i]
                      /\ {Serial(out[i]) : i \in MouseBytes}
                           = BytesRead + 1 .. 3 * Len(sent) - Len(devq)
                      /\ \A i, j \in MouseBytes : i < j => Serial(out[i]) < Serial(out[j])
                      /\ ~call.running /\ decoded # <<>> =>
                           cursor.LeftButtonDown = Bit(decoded[Len(decoded)][1], 0)
    BY DEF PacketsIntact
  <2>1. StreamIntact /\ ButtonIntact
    BY DEF IntactInvariant
  <2>2. Len(decoded) <= Len(sent)
    BY <2>1, StreamTypes DEF StreamIntact, DecoderIntact, BytesRead, BytesPassed
  <2>3. \A i \in 1 .. Len(decoded) : decoded[i] = sent[i]
    BY <2>1 DEF StreamIntact, DecoderIntact
  <2>4. \A i \in MouseBytes : Serial(out[i]) \in Int
    BY StreamTypes, ElementOfSeq, SerialType DEF MouseBytes
  <2>5. {Serial(out[i]) : i \in MouseBytes} \subseteq BytesRead + 1 .. BytesPassed
    BY <2>1, <2>4, StreamTypes DEF MouseBytes, StreamIntact, Window
  <2>6. BytesRead + 1 .. BytesPassed \subseteq {Serial(out[i]) : i \in MouseBytes}
    BY <2>1 DEF MouseBytes, StreamIntact, Window
  <2>7. \A i, j \in MouseBytes : i < j => Serial(out[i]) < Serial(out[j])
    BY <2>1 DEF MouseBytes, StreamIntact, Window
  <2>8. ~call.running /\ decoded # <<>> =>
          cursor.LeftButtonDown = Bit(decoded[Len(decoded)][1], 0)
    BY <2>1 DEF ButtonIntact
  <2> QED
    BY <2>2, <2>3, <2>5, <2>6, <2>7, <2>8 DEF BytesPassed
<1> QED
  BY <1>1, <1>2, <1>3, TypeCorrect, PTL DEF Spec

-----------------------------------------------------------------------------
(***************************************************************************)
(* Part two: the loop.                                                     *)
(***************************************************************************)

-----------------------------------------------------------------------------
(* Types.                                                                  *)

Surfaces == {"fb", "shadow", "compose"}
Surface == [C!Cells -> Nat]
Memory == [Surfaces -> Surface]

SpriteCells == 0 .. CursorWidth * CursorHeight - 1

Sprite == [X : 0 .. ScreenWidth - 1, Y : 0 .. ScreenHeight - 1,
           SavedWidth : Nat, SavedHeight : Nat, Visible : BOOLEAN,
           SavedPixels : [SpriteCells -> Nat]]

\* Every pixel of every surface and every saved pixel holds a value: what is
\* copied into them was read at an address inside the surface it came from.
SurfacesOK ==
  /\ mem \in Memory
  /\ sprite \in Sprite
  /\ HoveredButton \in 0 .. 2
  /\ shadowPtr \in {"shadow", "fb"}
  /\ composePtr \in {"compose", "NULL"}

-----------------------------------------------------------------------------
(* Addresses.                                                              *)

LEMMA Constants ==
  /\ ScreenWidth \in Nat \ {0} /\ ScreenHeight \in Nat \ {0}
  /\ CursorWidth \in Nat \ {0} /\ CursorHeight \in Nat \ {0}
  /\ PixelsPerScanLine \in Nat \ {0} /\ PixelsPerScanLine >= ScreenWidth
  /\ OpaqueMask \subseteq SpriteCells
  /\ Panel \in C!Box /\ InstallButton \in C!Box /\ TryButton \in C!Box
  /\ InstallButton.Y + InstallButton.Height <= TryButton.Y
  /\ ShadowChoices \subseteq BOOLEAN /\ ComposeChoices \subseteq BOOLEAN
  BY ScreenAssumption, SurfacesAssumption DEF C!SurfaceAssumption, SpriteCells

\* A cell is its row and its column.
LEMMA CellPlace ==
  ASSUME NEW cell \in C!Cells
  PROVE  /\ C!Row(cell) \in 0 .. ScreenHeight - 1
         /\ C!Column(cell) \in 0 .. PixelsPerScanLine - 1
         /\ cell = C!Row(cell) * PixelsPerScanLine + C!Column(cell)
  BY Constants DEF C!Cells, C!Row, C!Column

\* Rows do not overlap: a place in a table of rows of one width.
LEMMA TablePlace ==
  ASSUME NEW w \in Nat \ {0}, NEW h \in Nat \ {0}, NEW x \in 0 .. w - 1, NEW y \in 0 .. h - 1
  PROVE  /\ y * w + x \in 0 .. w * h - 1
         /\ (y * w + x) % w = x
         /\ (y * w + x) \div w = y
<1>1. (y * w + x) % w = x /\ (y * w + x) \div w = y
  BY Z3
<1>2. y * w + x \in Nat
  BY Z3
<1>3. (h - 1 - y) * w >= 0
  BY Z3
<1>4. (h - 1 - y) * w = w * h - w - y * w
  BY Z3
<1>5. y * w \in Int /\ w * h \in Int
  BY Z3
<1> QED
  BY <1>1, <1>2, <1>3, <1>4, <1>5

LEMMA CellOf ==
  ASSUME NEW x \in 0 .. PixelsPerScanLine - 1, NEW y \in 0 .. ScreenHeight - 1
  PROVE  y * PixelsPerScanLine + x \in C!Cells
  BY Constants, TablePlace DEF C!Cells

\* The place in a table, from its number.
LEMMA TableNumber ==
  ASSUME NEW w \in Nat \ {0}, NEW h \in Nat \ {0}, NEW i \in 0 .. w * h - 1
  PROVE  i % w \in 0 .. w - 1 /\ i \div w \in 0 .. h - 1
  BY Z3

-----------------------------------------------------------------------------
(* Copies and drawing, cell by cell.                                       *)

LEMMA VisibleCell ==
  ASSUME NEW cell \in C!Visible
  PROVE  /\ cell \in C!Cells
         /\ C!Column(cell) \in 0 .. ScreenWidth - 1
         /\ C!Row(cell) \in 0 .. ScreenHeight - 1
  BY CellPlace, Constants DEF C!Visible

\* A copy to the screen changes the cells of the rectangle; for the cells that
\* can be seen the clipping makes no difference.
LEMMA Blit ==
  ASSUME NEW m \in Memory, NEW src \in Surfaces,
         NEW X \in Nat, NEW Y \in Nat, NEW width \in Nat, NEW height \in Nat
  PROVE  LET n == C!BlitSurfaceRect(m, "fb", src, X, Y, width, height)
         IN  /\ n \in Memory
             /\ n["shadow"] = m["shadow"]
             /\ \A cell \in C!Visible :
                  n["fb"][cell] = IF C!InBox(C!Column(cell), C!Row(cell), X, Y, width, height)
                                 THEN m[src][cell] ELSE m["fb"][cell]
<1> DEFINE n == C!BlitSurfaceRect(m, "fb", src, X, Y, width, height)
           clipped(cell) == C!InBox(C!Column(cell), C!Row(cell), X, Y,
                                    C!Min2(width, ScreenWidth - X),
                                    C!Min2(height, ScreenHeight - Y))
           inside(cell) == C!InBox(C!Column(cell), C!Row(cell), X, Y, width, height)
           copied == [cell \in C!Cells |-> IF clipped(cell) THEN m[src][cell] ELSE m["fb"][cell]]
<1>1. "fb" \in Surfaces /\ "shadow" \in Surfaces /\ src # "NULL"
  BY DEF Surfaces
<1>2. CASE X >= ScreenWidth \/ Y >= ScreenHeight
  <2>1. n = m
    BY <1>2 DEF C!BlitSurfaceRect
  <2>2. \A cell \in C!Visible : ~inside(cell)
    BY <1>2, VisibleCell, Constants DEF C!InBox
  <2> QED
    BY <2>1, <2>2
<1>3. CASE X < ScreenWidth /\ Y < ScreenHeight
  <2>1. n = [m EXCEPT !["fb"] = copied]
    BY <1>1, <1>3, Constants DEF C!BlitSurfaceRect
  <2>2. copied \in Surface
    <3>1. \A cell \in C!Cells : m[src][cell] \in Nat /\ m["fb"][cell] \in Nat
      BY <1>1 DEF Memory, Surface
    <3> QED
      BY <3>1 DEF Surface
  <2>3. \A cell \in C!Visible : clipped(cell) <=> inside(cell)
    BY <1>3, VisibleCell, Constants DEF C!InBox, C!Min2
  <2>4. \A cell \in C!Visible :
          copied[cell] = IF inside(cell) THEN m[src][cell] ELSE m["fb"][cell]
    BY <2>3, VisibleCell
  <2> HIDE DEF copied, inside, n
  <2>5. n \in Memory /\ n["fb"] = copied /\ n["shadow"] = m["shadow"]
    BY <1>1, <2>1, <2>2 DEF Memory
  <2>6. \A cell \in C!Visible :
          n["fb"][cell] = IF inside(cell) THEN m[src][cell] ELSE m["fb"][cell]
    BY <2>4, <2>5
  <2> QED
    BY <2>5, <2>6 DEF n, inside
<1> QED
  BY <1>2, <1>3, Constants

\* A point of a rounded box is one of the box.
LEMMA RoundedInBox ==
  ASSUME NEW x, NEW y, NEW box, C!PointInRoundedBox(x, y, box)
  PROVE  C!InBox(x, y, box.X, box.Y, box.Width, box.Height)
  BY DEF C!PointInRoundedBox

\* Whether a cell is on the panel or on a button.
On(cell, box) == C!PointInRoundedBox(C!Column(cell), C!Row(cell), box)

LEMMA DrawBox ==
  ASSUME NEW f \in Surface, NEW box, NEW color \in Nat
  PROVE  /\ C!DrawRoundedBox(f, box, color) \in Surface
         /\ \A cell \in C!Visible :
              C!DrawRoundedBox(f, box, color)[cell] = IF On(cell, box) THEN color ELSE f[cell]
<1> DEFINE drawn == [cell \in C!Cells |->
                       IF C!Column(cell) < ScreenWidth /\ On(cell, box) THEN color ELSE f[cell]]
<1>1. C!DrawRoundedBox(f, box, color) = drawn
  BY DEF C!DrawRoundedBox, On
<1>2. drawn \in Surface
  <2>1. \A cell \in C!Cells : f[cell] \in Nat
    BY DEF Surface
  <2> QED
    BY <2>1 DEF Surface
<1>3. \A cell \in C!Visible : drawn[cell] = IF On(cell, box) THEN color ELSE f[cell]
  BY VisibleCell DEF C!Visible
<1> HIDE DEF drawn
<1> QED
  BY <1>1, <1>2, <1>3

\* No cell is on both buttons.
LEMMA ButtonsApart ==
  ASSUME NEW cell \in C!Cells
  PROVE  ~(On(cell, InstallButton) /\ On(cell, TryButton))
<1>1. C!Row(cell) \in Nat
  BY CellPlace
<1>2. /\ InstallButton.Y \in Nat /\ InstallButton.Height \in Nat /\ TryButton.Y \in Nat
      /\ InstallButton.Y + InstallButton.Height <= TryButton.Y
  BY Constants DEF C!Box
<1>3. On(cell, InstallButton) => C!Row(cell) < InstallButton.Y + InstallButton.Height
  BY RoundedInBox DEF On, C!InBox
<1>4. On(cell, TryButton) => C!Row(cell) >= TryButton.Y
  BY RoundedInBox DEF On, C!InBox
<1> QED
  BY <1>1, <1>2, <1>3, <1>4

-----------------------------------------------------------------------------
(* The scene.                                                              *)

\* The color of a cell of the scene.
SceneColor(cell, hovered) ==
  IF On(cell, TryButton) THEN C!ButtonColor(2, hovered = 2)
  ELSE IF On(cell, InstallButton) THEN C!ButtonColor(1, hovered = 1)
  ELSE IF On(cell, Panel) THEN C!PanelColor
  ELSE C!Background

\* A surface shows the scene for a hovered button.
Shows(f, hovered) == \A cell \in C!Visible : f[cell] = SceneColor(cell, hovered)

LEMMA ButtonDrawn ==
  ASSUME NEW f \in Surface, NEW hovered
  PROVE  /\ C!DrawSetupButton(f, 1, hovered) \in Surface
         /\ C!DrawSetupButton(f, 2, hovered) \in Surface
         /\ \A cell \in C!Visible :
              /\ C!DrawSetupButton(f, 1, hovered)[cell] =
                   IF On(cell, InstallButton) THEN C!ButtonColor(1, hovered = 1) ELSE f[cell]
              /\ C!DrawSetupButton(f, 2, hovered)[cell] =
                   IF On(cell, TryButton) THEN C!ButtonColor(2, hovered = 2) ELSE f[cell]
<1>1. C!ButtonColor(1, hovered = 1) \in Nat /\ C!ButtonColor(2, hovered = 2) \in Nat
  BY DEF C!ButtonColor
<1>2. C!DrawSetupButton(f, 1, hovered) =
        C!DrawRoundedBox(f, InstallButton, C!ButtonColor(1, hovered = 1))
  BY DEF C!DrawSetupButton
<1>3. C!DrawSetupButton(f, 2, hovered) =
        C!DrawRoundedBox(f, TryButton, C!ButtonColor(2, hovered = 2))
  BY DEF C!DrawSetupButton
<1> QED
  BY <1>1, <1>2, <1>3, DrawBox

\* DrawSetupScreen shows the scene, whatever was there before.
LEMMA SceneDrawn ==
  ASSUME NEW f, NEW hovered
  PROVE  C!DrawSetupScreen(f, hovered) \in Surface /\ Shows(C!DrawSetupScreen(f, hovered), hovered)
<1> DEFINE empty == [cell \in C!Cells |-> C!Background]
           panel == C!DrawRoundedBox(empty, Panel, C!PanelColor)
           install == C!DrawSetupButton(panel, 1, hovered)
           try == C!DrawSetupButton(install, 2, hovered)
<1>1. C!DrawSetupScreen(f, hovered) = try
  BY DEF C!DrawSetupScreen
<1>2. empty \in Surface /\ \A cell \in C!Visible : empty[cell] = C!Background
  BY VisibleCell DEF Surface, C!Background
<1> HIDE DEF empty
<1>3. panel \in Surface /\ \A cell \in C!Visible :
        panel[cell] = IF On(cell, Panel) THEN C!PanelColor ELSE empty[cell]
  <2>1. C!PanelColor \in Nat
    BY DEF C!PanelColor
  <2> QED
    BY <1>2, <2>1, DrawBox
<1> HIDE DEF panel
<1>4. install \in Surface /\ \A cell \in C!Visible :
        install[cell] = IF On(cell, InstallButton) THEN C!ButtonColor(1, hovered = 1)
                                                   ELSE panel[cell]
  BY <1>3, ButtonDrawn
<1> HIDE DEF install
<1>5. try \in Surface /\ \A cell \in C!Visible :
        try[cell] = IF On(cell, TryButton) THEN C!ButtonColor(2, hovered = 2) ELSE install[cell]
  BY <1>4, ButtonDrawn
<1> HIDE DEF try
<1>6. Shows(try, hovered)
  BY <1>2, <1>3, <1>4, <1>5 DEF Shows, SceneColor
<1> QED
  BY <1>1, <1>5, <1>6

LEMMA SceneCell ==
  ASSUME NEW hovered, NEW cell \in C!Visible
  PROVE  C!SceneOf(hovered)[cell] = SceneColor(cell, hovered)
<1> DEFINE blank == [c \in C!Cells |-> C!Undrawn]
<1>1. C!SceneOf(hovered)[cell] = C!DrawSetupScreen(blank, hovered)[cell]
  BY DEF C!SceneOf, C!OnScreen
<1> HIDE DEF blank
<1> QED
  BY <1>1, SceneDrawn DEF Shows

\* Drawing the buttons that gained or lost the hover makes the old scene the
\* new one, and changes nothing outside their boxes.
LEMMA SceneRefreshed ==
  ASSUME NEW f \in Surface, NEW previous \in 0 .. 2, NEW current \in 0 .. 2, previous # current
  PROVE  LET g == C!RefreshSetupButtons(f, previous, current)
         IN  /\ g \in Surface
             /\ Shows(f, previous) => Shows(g, current)
             /\ \A cell \in C!Visible :
                  \/ g[cell] = f[cell]
                  \/ 1 \in {previous, current} /\ On(cell, InstallButton)
                  \/ 2 \in {previous, current} /\ On(cell, TryButton)
<1> DEFINE first == IF 1 \in {previous, current} THEN C!DrawSetupButton(f, 1, current) ELSE f
           second == IF 2 \in {previous, current} THEN C!DrawSetupButton(first, 2, current)
                                                  ELSE first
<1>1. C!RefreshSetupButtons(f, previous, current) = second
  BY DEF C!RefreshSetupButtons
<1>2. first \in Surface /\ \A cell \in C!Visible :
        first[cell] = IF 1 \in {previous, current} /\ On(cell, InstallButton)
                      THEN C!ButtonColor(1, current = 1) ELSE f[cell]
  BY ButtonDrawn
<1> HIDE DEF first
<1>3. second \in Surface /\ \A cell \in C!Visible :
        second[cell] = IF 2 \in {previous, current} /\ On(cell, TryButton)
                       THEN C!ButtonColor(2, current = 2) ELSE first[cell]
  BY <1>2, ButtonDrawn
<1> HIDE DEF second
<1>4. /\ 1 \notin {previous, current} =>
           C!ButtonColor(1, previous = 1) = C!ButtonColor(1, current = 1)
      /\ 2 \notin {previous, current} =>
           C!ButtonColor(2, previous = 2) = C!ButtonColor(2, current = 2)
  BY DEF C!ButtonColor
<1>5. ASSUME Shows(f, previous)
      PROVE  Shows(second, current)
  <2> SUFFICES ASSUME NEW cell \in C!Visible
               PROVE  second[cell] = SceneColor(cell, current)
    BY DEF Shows
  <2>1. f[cell] = SceneColor(cell, previous)
    BY <1>5 DEF Shows
  <2>2. ~(On(cell, InstallButton) /\ On(cell, TryButton))
    BY VisibleCell, ButtonsApart
  <2>3. CASE On(cell, TryButton)
    BY <1>2, <1>3, <1>4, <2>1, <2>2, <2>3 DEF SceneColor
  <2>4. CASE ~On(cell, TryButton) /\ On(cell, InstallButton)
    BY <1>2, <1>3, <1>4, <2>1, <2>4 DEF SceneColor
  <2>5. CASE ~On(cell, TryButton) /\ ~On(cell, InstallButton)
    BY <1>2, <1>3, <2>1, <2>5 DEF SceneColor
  <2> QED
    BY <2>3, <2>4, <2>5
<1>6. \A cell \in C!Visible :
        \/ second[cell] = f[cell]
        \/ 1 \in {previous, current} /\ On(cell, InstallButton)
        \/ 2 \in {previous, current} /\ On(cell, TryButton)
  BY <1>2, <1>3
<1> QED
  BY <1>1, <1>3, <1>5, <1>6

-----------------------------------------------------------------------------
(* The cursor.                                                             *)

InSprite(c, cell) ==
  C!InBox(C!Column(cell), C!Row(cell), c.X, c.Y, CursorWidth, CursorHeight)

\* The saved rectangle is the part of the sprite on the screen.
Clipped(c) ==
  /\ c.SavedWidth = C!Min2(CursorWidth, ScreenWidth - c.X)
  /\ c.SavedHeight = C!Min2(CursorHeight, ScreenHeight - c.Y)

LEMMA ClippedCells ==
  ASSUME NEW c \in Sprite, Clipped(c)
  PROVE  /\ \A cell \in C!Visible : C!InSaved(c, cell) <=> InSprite(c, cell)
         /\ \A cell \in C!Cells : C!InSaved(c, cell) => cell \in C!Visible
<1>1. c.X \in 0 .. ScreenWidth - 1 /\ c.Y \in 0 .. ScreenHeight - 1
  BY DEF Sprite
<1> DEFINE w == c.SavedWidth
           h == c.SavedHeight
<1>2. w = C!Min2(CursorWidth, ScreenWidth - c.X) /\ h = C!Min2(CursorHeight, ScreenHeight - c.Y)
  BY DEF Clipped
<1> HIDE DEF w, h
<1>3. \A cell \in C!Cells :
        C!InSaved(c, cell) <=> C!InBox(C!Column(cell), C!Row(cell), c.X, c.Y, w, h)
  BY DEF C!InSaved, w, h
<1>4. \A cell \in C!Visible : C!InSaved(c, cell) <=> InSprite(c, cell)
  BY <1>1, <1>2, <1>3, VisibleCell, Constants DEF C!InBox, C!Min2, InSprite
<1>5. \A cell \in C!Cells : C!InSaved(c, cell) => cell \in C!Visible
  BY <1>1, <1>2, <1>3, CellPlace, Constants DEF C!InBox, C!Min2, C!Visible
<1> QED
  BY <1>4, <1>5

\* The sprite's pixel for a cell under it: an index of the sprite, whose row
\* and column lead back to the cell.
LEMMA SpritePlace ==
  ASSUME NEW c \in Sprite, NEW cell \in C!Visible, InSprite(c, cell)
  PROVE  LET i == C!SpriteIndex(c, cell)
         IN  /\ i \in SpriteCells
             /\ i % CursorWidth = C!Column(cell) - c.X
             /\ i \div CursorWidth = C!Row(cell) - c.Y
             /\ (c.Y + i \div CursorWidth) * PixelsPerScanLine + c.X + (i % CursorWidth) = cell
<1> DEFINE x == C!Column(cell) - c.X
           y == C!Row(cell) - c.Y
           i == C!SpriteIndex(c, cell)
<1>1. c.X \in 0 .. ScreenWidth - 1 /\ c.Y \in 0 .. ScreenHeight - 1
  BY DEF Sprite
<1>2. cell \in C!Cells /\ C!Column(cell) \in Nat /\ C!Row(cell) \in Nat
      /\ cell = C!Row(cell) * PixelsPerScanLine + C!Column(cell)
  BY VisibleCell, CellPlace
<1>3. x \in 0 .. CursorWidth - 1 /\ y \in 0 .. CursorHeight - 1
  BY <1>1, <1>2, Constants DEF InSprite, C!InBox
<1>4. c.Y + y = C!Row(cell) /\ c.X + x = C!Column(cell)
  BY <1>1, <1>2
<1>5. i = y * CursorWidth + x
  BY DEF C!SpriteIndex
<1> HIDE DEF x, y, i
<1>6. i \in SpriteCells /\ i % CursorWidth = x /\ i \div CursorWidth = y
  BY <1>3, <1>5, TablePlace, Constants DEF SpriteCells
<1>7. C!Row(cell) * PixelsPerScanLine \in Int
  BY <1>2, Constants
<1>8. \A r \in Int : r + c.X + x = r + (c.X + x)
  BY <1>1, <1>3
<1>9. (c.Y + y) * PixelsPerScanLine + c.X + x = cell
  BY <1>2, <1>4, <1>7, <1>8
<1> QED
  BY <1>6, <1>9 DEF x, y, i

\* SaveCursorBackground keeps what is under the sprite.
LEMMA BackgroundSaved ==
  ASSUME NEW f \in Surface, NEW c \in Sprite
  PROVE  LET s == C!SaveCursorBackground(f, c)
         IN  /\ s \in Sprite /\ s.X = c.X /\ s.Y = c.Y /\ Clipped(s)
             /\ \A cell \in C!Visible :
                  InSprite(c, cell) => s.SavedPixels[C!SpriteIndex(c, cell)] = f[cell]
<1> DEFINE width == C!Min2(CursorWidth, ScreenWidth - c.X)
           height == C!Min2(CursorHeight, ScreenHeight - c.Y)
           from(i) == (c.Y + i \div CursorWidth) * PixelsPerScanLine + c.X + (i % CursorWidth)
           under(i) == i % CursorWidth < width /\ i \div CursorWidth < height
           pixels == [i \in SpriteCells |-> IF under(i) THEN f[from(i)] ELSE c.SavedPixels[i]]
           s == C!SaveCursorBackground(f, c)
<1>1. c.X \in 0 .. ScreenWidth - 1 /\ c.Y \in 0 .. ScreenHeight - 1
  BY DEF Sprite
<1>2. width \in Nat /\ height \in Nat
  BY <1>1, Constants DEF C!Min2
<1>3. \A i \in SpriteCells : i % CursorWidth \in Nat /\ i \div CursorWidth \in Nat
  BY TableNumber, Constants DEF SpriteCells
<1>4. \A i \in SpriteCells : under(i) => from(i) \in C!Cells
  <2> SUFFICES ASSUME NEW i \in SpriteCells, under(i)
               PROVE  from(i) \in C!Cells
    OBVIOUS
  <2> DEFINE x == i % CursorWidth
             y == i \div CursorWidth
  <2>1. x \in Nat /\ y \in Nat /\ x < width /\ y < height
    BY <1>3
  <2>2. from(i) = (c.Y + y) * PixelsPerScanLine + c.X + x
    OBVIOUS
  <2> HIDE DEF x, y, from
  <2>3. c.X + x \in 0 .. PixelsPerScanLine - 1 /\ c.Y + y \in 0 .. ScreenHeight - 1
    BY <1>1, <2>1, Constants DEF C!Min2
  <2>4. (c.Y + y) * PixelsPerScanLine \in Int
    BY <2>3, Constants
  <2>5. \A r \in Int : r + c.X + x = r + (c.X + x)
    BY <1>1, <2>1
  <2> QED
    BY <2>2, <2>3, <2>4, <2>5, CellOf
<1>5. pixels \in [SpriteCells -> Nat]
  <2>1. \A i \in SpriteCells : c.SavedPixels[i] \in Nat
    BY DEF Sprite
  <2>2. \A cell \in C!Cells : f[cell] \in Nat
    BY DEF Surface
  <2> HIDE DEF from, under
  <2> QED
    BY <1>4, <2>1, <2>2
<1>6. s = [c EXCEPT !.SavedWidth = width, !.SavedHeight = height, !.SavedPixels = pixels]
  BY DEF C!SaveCursorBackground, SpriteCells
<1>7. ASSUME NEW cell \in C!Visible, InSprite(c, cell)
      PROVE  pixels[C!SpriteIndex(c, cell)] = f[cell]
  <2> DEFINE i == C!SpriteIndex(c, cell)
  <2>1. i \in SpriteCells /\ i % CursorWidth = C!Column(cell) - c.X
        /\ i \div CursorWidth = C!Row(cell) - c.Y /\ from(i) = cell
    BY <1>7, SpritePlace
  <2>2. C!Column(cell) - c.X < width /\ C!Row(cell) - c.Y < height
    BY <1>1, <1>7, VisibleCell, Constants DEF InSprite, C!InBox, C!Min2
  <2>3. under(i)
    BY <2>1, <2>2
  <2> HIDE DEF i, under, from
  <2>4. pixels[i] = f[from(i)]
    BY <2>1, <2>3
  <2> QED
    BY <2>1, <2>4 DEF i
<1> HIDE DEF width, height, pixels, s
<1>8. s \in Sprite /\ s.X = c.X /\ s.Y = c.Y /\ s.SavedWidth = width /\ s.SavedHeight = height
      /\ s.SavedPixels = pixels
  BY <1>2, <1>5, <1>6 DEF Sprite
<1>9. Clipped(s)
  BY <1>8 DEF Clipped, width, height
<1> QED
  BY <1>7, <1>8, <1>9 DEF s

\* The cell is under an opaque pixel of the sprite.
Covered(c, cell) == InSprite(c, cell) /\ C!SpriteIndex(c, cell) \in OpaqueMask

LEMMA CursorDrawn ==
  ASSUME NEW f \in Surface, NEW c \in Sprite, Clipped(c)
  PROVE  /\ C!DrawCursor(f, c) \in Surface
         /\ \A cell \in C!Visible :
              C!DrawCursor(f, c)[cell] = IF Covered(c, cell)
                                         THEN C!CursorPixel(C!SpriteIndex(c, cell)) ELSE f[cell]
<1> DEFINE drawn(cell) == IF C!InSaved(c, cell) /\ C!SpriteIndex(c, cell) \in OpaqueMask
                          THEN C!CursorPixel(C!SpriteIndex(c, cell)) ELSE f[cell]
<1>1. C!DrawCursor(f, c) = [cell \in C!Cells |-> drawn(cell)]
  BY DEF C!DrawCursor
<1>2. \A cell \in C!Cells : drawn(cell) \in Nat
  <2>1. \A cell \in C!Cells : f[cell] \in Nat
    BY DEF Surface
  <2>2. \A i \in OpaqueMask : C!CursorPixel(i) \in Nat
    BY Constants DEF C!CursorPixel, SpriteCells
  <2> QED
    BY <2>1, <2>2
<1>3. \A cell \in C!Visible :
        drawn(cell) = IF Covered(c, cell)
                      THEN C!CursorPixel(C!SpriteIndex(c, cell)) ELSE f[cell]
  BY ClippedCells DEF Covered
<1> HIDE DEF drawn
<1> QED
  BY <1>1, <1>2, <1>3, VisibleCell DEF Surface

LEMMA BackgroundPut ==
  ASSUME NEW f \in Surface, NEW c \in Sprite, Clipped(c)
  PROVE  /\ C!PutSaved(f, c) \in Surface
         /\ \A cell \in C!Visible :
              C!PutSaved(f, c)[cell] = IF InSprite(c, cell)
                                       THEN c.SavedPixels[C!SpriteIndex(c, cell)] ELSE f[cell]
<1> DEFINE put(cell) == IF C!InSaved(c, cell) THEN c.SavedPixels[C!SpriteIndex(c, cell)]
                                              ELSE f[cell]
<1>1. C!PutSaved(f, c) = [cell \in C!Cells |-> put(cell)]
  BY DEF C!PutSaved
<1>2. \A cell \in C!Cells : put(cell) \in Nat
  <2> SUFFICES ASSUME NEW cell \in C!Cells PROVE put(cell) \in Nat
    OBVIOUS
  <2>1. f[cell] \in Nat
    BY DEF Surface
  <2>2. CASE C!InSaved(c, cell)
    <3>1. cell \in C!Visible /\ InSprite(c, cell)
      BY <2>2, ClippedCells
    <3>2. C!SpriteIndex(c, cell) \in SpriteCells
      BY <3>1, SpritePlace
    <3>3. c.SavedPixels \in [SpriteCells -> Nat]
      BY DEF Sprite
    <3> QED
      BY <2>2, <3>2, <3>3
  <2> QED
    BY <2>1, <2>2
<1>3. \A cell \in C!Visible :
        put(cell) = IF InSprite(c, cell) THEN c.SavedPixels[C!SpriteIndex(c, cell)] ELSE f[cell]
  BY ClippedCells
<1> HIDE DEF put
<1> QED
  BY <1>1, <1>2, <1>3, VisibleCell DEF Surface

\* A copy of the saved rectangle to the screen.
LEMMA SpriteCopied ==
  ASSUME NEW m \in Memory, NEW src \in Surfaces, NEW c \in Sprite, Clipped(c)
  PROVE  LET n == C!BlitSurfaceRect(m, "fb", src, c.X, c.Y, c.SavedWidth, c.SavedHeight)
         IN  /\ n \in Memory
             /\ n["shadow"] = m["shadow"]
             /\ \A cell \in C!Visible :
                  n["fb"][cell] = IF InSprite(c, cell) THEN m[src][cell] ELSE m["fb"][cell]
<1> DEFINE X == c.X
           Y == c.Y
           w == c.SavedWidth
           h == c.SavedHeight
           n == C!BlitSurfaceRect(m, "fb", src, X, Y, w, h)
<1>1. X \in Nat /\ Y \in Nat /\ w \in Nat /\ h \in Nat
  BY DEF Sprite
<1>2. \A cell \in C!Visible : C!InBox(C!Column(cell), C!Row(cell), X, Y, w, h) <=> InSprite(c, cell)
  BY ClippedCells DEF C!InSaved
<1> HIDE DEF X, Y, w, h
<1>3. /\ n \in Memory /\ n["shadow"] = m["shadow"]
      /\ \A cell \in C!Visible :
           n["fb"][cell] = IF C!InBox(C!Column(cell), C!Row(cell), X, Y, w, h)
                           THEN m[src][cell] ELSE m["fb"][cell]
  BY <1>1, Blit
<1> HIDE DEF n
<1>4. \A cell \in C!Visible :
        n["fb"][cell] = IF InSprite(c, cell) THEN m[src][cell] ELSE m["fb"][cell]
  BY <1>2, <1>3
<1> QED
  BY <1>3, <1>4 DEF n, X, Y, w, h

\* BlitCursorComposite draws the cursor over the screen; with a compose surface
\* the transparent pixels of the sprite are taken from the shadow.
LEMMA Composite ==
  ASSUME NEW m \in Memory, NEW c \in Sprite,
         shadowPtr \in {"shadow", "fb"}, composePtr \in {"compose", "NULL"}
  PROVE  LET b == C!BlitCursorComposite(m, c)
         IN  /\ b.mem \in Memory /\ b.mem["shadow"] = m["shadow"]
             /\ b.cursor \in Sprite /\ b.cursor.X = c.X /\ b.cursor.Y = c.Y
             /\ b.cursor.Visible /\ Clipped(b.cursor)
             /\ \A cell \in C!Visible :
                  b.mem["fb"][cell] =
                    IF Covered(c, cell) THEN C!CursorPixel(C!SpriteIndex(c, cell))
                    ELSE IF InSprite(c, cell) /\ composePtr = "compose" THEN m[shadowPtr][cell]
                    ELSE m["fb"][cell]
<1> DEFINE b == C!BlitCursorComposite(m, c)
           s == C!SaveCursorBackground(m[shadowPtr], c)
           composed == C!ComposeCursor(m, s)
           direct == [m EXCEPT !["fb"] = C!DrawCursor(@, s)]
<1>1. \A x \in Surfaces : m[x] \in Surface
  BY DEF Memory
<1>2. shadowPtr \in Surfaces /\ "fb" \in Surfaces /\ "compose" \in Surfaces /\ "shadow" \in Surfaces
  BY DEF Surfaces
<1>3. /\ s \in Sprite /\ s.X = c.X /\ s.Y = c.Y /\ Clipped(s)
      /\ \A cell \in C!Visible :
           InSprite(c, cell) => s.SavedPixels[C!SpriteIndex(c, cell)] = m[shadowPtr][cell]
  BY <1>1, <1>2, BackgroundSaved
<1>4. /\ b.mem = IF composePtr = "compose" THEN composed ELSE direct
      /\ b.cursor = [s EXCEPT !.Visible = TRUE]
  <2>1. composePtr \notin {"NULL", "fb", shadowPtr} <=> composePtr = "compose"
    OBVIOUS
  <2> QED
    BY <2>1 DEF C!BlitCursorComposite
<1> HIDE DEF b, s, composed, direct
<1>5. /\ b.cursor \in Sprite /\ b.cursor.X = c.X /\ b.cursor.Y = c.Y /\ b.cursor.Visible
      /\ b.cursor.SavedWidth = s.SavedWidth /\ b.cursor.SavedHeight = s.SavedHeight
  BY <1>3, <1>4 DEF Sprite
<1>6. Clipped(b.cursor)
  BY <1>3, <1>5 DEF Clipped
<1>7. \A cell : /\ InSprite(s, cell) <=> InSprite(c, cell)
                /\ C!SpriteIndex(s, cell) = C!SpriteIndex(c, cell)
                /\ Covered(s, cell) <=> Covered(c, cell)
  BY <1>3 DEF InSprite, C!SpriteIndex, Covered
<1>8. CASE composePtr = "compose"
  <2> DEFINE put == C!PutSaved(m["compose"], s)
             drawn == C!DrawCursor(put, s)
             n == [m EXCEPT !["compose"] = drawn]
  <2>1. composed = C!BlitSurfaceRect(n, "fb", "compose", s.X, s.Y, s.SavedWidth, s.SavedHeight)
    BY DEF C!ComposeCursor, composed
  <2>2. put \in Surface /\ \A cell \in C!Visible :
          InSprite(c, cell) => put[cell] = m[shadowPtr][cell]
    BY <1>1, <1>2, <1>3, <1>7, BackgroundPut
  <2> HIDE DEF put
  <2>3. drawn \in Surface /\ \A cell \in C!Visible :
          drawn[cell] = IF Covered(c, cell) THEN C!CursorPixel(C!SpriteIndex(c, cell))
                                            ELSE put[cell]
    BY <1>3, <1>7, <2>2, CursorDrawn
  <2> HIDE DEF drawn
  <2>4. n \in Memory /\ n["compose"] = drawn /\ n["fb"] = m["fb"] /\ n["shadow"] = m["shadow"]
    BY <1>2, <2>3 DEF Memory
  <2> HIDE DEF n
  <2>5. /\ composed \in Memory /\ composed["shadow"] = n["shadow"]
        /\ \A cell \in C!Visible :
             composed["fb"][cell] = IF InSprite(s, cell) THEN n["compose"][cell] ELSE n["fb"][cell]
    BY <1>2, <1>3, <2>1, <2>4, SpriteCopied
  <2>6. \A cell \in C!Visible :
          composed["fb"][cell] =
            IF Covered(c, cell) THEN C!CursorPixel(C!SpriteIndex(c, cell))
            ELSE IF InSprite(c, cell) THEN m[shadowPtr][cell]
            ELSE m["fb"][cell]
    BY <1>7, <2>2, <2>3, <2>4, <2>5 DEF Covered
  <2> QED
    BY <1>4, <1>5, <1>6, <1>8, <2>4, <2>5, <2>6 DEF b
<1>9. CASE composePtr # "compose"
  <2> DEFINE drawn == C!DrawCursor(m["fb"], s)
  <2>1. drawn \in Surface /\ \A cell \in C!Visible :
          drawn[cell] = IF Covered(c, cell) THEN C!CursorPixel(C!SpriteIndex(c, cell))
                                            ELSE m["fb"][cell]
    BY <1>1, <1>2, <1>3, <1>7, CursorDrawn
  <2>2. direct = [m EXCEPT !["fb"] = drawn]
    BY DEF direct
  <2> HIDE DEF drawn
  <2>3. direct \in Memory /\ direct["fb"] = drawn /\ direct["shadow"] = m["shadow"]
    BY <1>2, <2>1, <2>2 DEF Memory
  <2> QED
    BY <1>4, <1>5, <1>6, <1>9, <2>1, <2>3 DEF b
<1> QED
  BY <1>8, <1>9

-----------------------------------------------------------------------------
(* One round of the loop.                                                  *)

\* The screen is the shadow, everywhere or outside the sprite.
Agree(m) == \A cell \in C!Visible : m["fb"][cell] = m["shadow"][cell]

AgreeOutside(m, c) ==
  \A cell \in C!Visible : ~InSprite(c, cell) => m["fb"][cell] = m["shadow"][cell]

\* Between rounds: the saved rectangle is what was drawn, and with a shadow the
\* shadow is the scene and the screen is the shadow except under the sprite.
ScreenInv ==
  /\ SurfacesOK
  /\ Clipped(sprite) /\ sprite.Visible
  /\ shadowPtr = "shadow" => Shows(mem["shadow"], HoveredButton) /\ AgreeOutside(mem, sprite)

LEMMA Erased ==
  ASSUME ScreenInv
  PROVE  /\ C!EraseCursor(mem) \in Memory
         /\ C!EraseCursor(mem)["shadow"] = mem["shadow"]
         /\ shadowPtr = "shadow" => Agree(C!EraseCursor(mem))
<1> DEFINE n == C!BlitSurfaceRect(mem, "fb", shadowPtr, sprite.X, sprite.Y, sprite.SavedWidth,
                                  sprite.SavedHeight)
<1>1. C!EraseCursor(mem) = n
  BY DEF ScreenInv, C!EraseCursor
<1>2. shadowPtr \in Surfaces /\ mem \in Memory /\ sprite \in Sprite /\ Clipped(sprite)
  BY DEF ScreenInv, SurfacesOK, Surfaces
<1>3. /\ n \in Memory /\ n["shadow"] = mem["shadow"]
      /\ \A cell \in C!Visible :
           n["fb"][cell] = IF InSprite(sprite, cell) THEN mem[shadowPtr][cell] ELSE mem["fb"][cell]
  BY <1>2, SpriteCopied
<1> HIDE DEF n
<1>4. shadowPtr = "shadow" => Agree(n)
  BY <1>3 DEF ScreenInv, Agree, AgreeOutside
<1> QED
  BY <1>1, <1>3, <1>4

LEMMA HitType ==
  ASSUME NEW x, NEW y
  PROVE  C!HitTestSetupUi(x, y) \in 0 .. 2
  BY DEF C!HitTestSetupUi

\* One button is copied to the screen.
LEMMA ButtonShown ==
  ASSUME NEW m \in Memory, NEW box \in C!Box
  PROVE  LET n == C!BlitSurfaceRect(m, "fb", "shadow", box.X, box.Y, box.Width, box.Height)
         IN  /\ n \in Memory /\ n["shadow"] = m["shadow"]
             /\ \A cell \in C!Visible :
                  \/ n["fb"][cell] = m["shadow"][cell]
                  \/ n["fb"][cell] = m["fb"][cell] /\ ~On(cell, box)
<1> DEFINE X == box.X
           Y == box.Y
           w == box.Width
           h == box.Height
           n == C!BlitSurfaceRect(m, "fb", "shadow", X, Y, w, h)
<1>1. X \in Nat /\ Y \in Nat /\ w \in Nat /\ h \in Nat
  BY DEF C!Box
<1>2. \A cell \in C!Visible : On(cell, box) => C!InBox(C!Column(cell), C!Row(cell), X, Y, w, h)
  BY RoundedInBox DEF On
<1>3. "shadow" \in Surfaces
  BY DEF Surfaces
<1> HIDE DEF X, Y, w, h
<1>4. /\ n \in Memory /\ n["shadow"] = m["shadow"]
      /\ \A cell \in C!Visible :
           n["fb"][cell] = IF C!InBox(C!Column(cell), C!Row(cell), X, Y, w, h)
                           THEN m["shadow"][cell] ELSE m["fb"][cell]
  BY <1>1, <1>3, Blit
<1> HIDE DEF n
<1>5. \A cell \in C!Visible :
        \/ n["fb"][cell] = m["shadow"][cell]
        \/ n["fb"][cell] = m["fb"][cell] /\ ~On(cell, box)
  BY <1>2, <1>4
<1> QED
  BY <1>4, <1>5 DEF n, X, Y, w, h

\* Copying the two boxes makes the screen the shadow again if they differ in
\* the touched buttons only.
LEMMA ButtonsShown ==
  ASSUME NEW m \in Memory, NEW previous, NEW current, shadowPtr = "shadow",
         \A cell \in C!Visible :
           \/ m["shadow"][cell] = m["fb"][cell]
           \/ 1 \in {previous, current} /\ On(cell, InstallButton)
           \/ 2 \in {previous, current} /\ On(cell, TryButton)
  PROVE  LET n == C!ShowButtons(m, previous, current)
         IN  n \in Memory /\ n["shadow"] = m["shadow"] /\ Agree(n)
<1> DEFINE show(k, box) == C!BlitSurfaceRect(k, "fb", "shadow", box.X, box.Y, box.Width, box.Height)
           first == IF 1 \in {previous, current} THEN show(m, InstallButton) ELSE m
           second == IF 2 \in {previous, current} THEN show(first, TryButton) ELSE first
<1>1. C!ShowButtons(m, previous, current) = second
  BY DEF C!ShowButtons
<1>2. ASSUME NEW k \in Memory, NEW box \in C!Box
      PROVE  /\ show(k, box) \in Memory /\ show(k, box)["shadow"] = k["shadow"]
             /\ \A cell \in C!Visible :
                  \/ show(k, box)["fb"][cell] = k["shadow"][cell]
                  \/ show(k, box)["fb"][cell] = k["fb"][cell] /\ ~On(cell, box)
  BY ButtonShown
<1> HIDE DEF show
<1>3. /\ first \in Memory /\ first["shadow"] = m["shadow"]
      /\ \A cell \in C!Visible :
           \/ first["fb"][cell] = m["shadow"][cell]
           \/ /\ first["fb"][cell] = m["fb"][cell]
              /\ ~(1 \in {previous, current} /\ On(cell, InstallButton))
  BY <1>2, Constants
<1> HIDE DEF first
<1>4. /\ show(first, TryButton) \in Memory
      /\ show(first, TryButton)["shadow"] = first["shadow"]
      /\ \A cell \in C!Visible :
           \/ show(first, TryButton)["fb"][cell] = first["shadow"][cell]
           \/ show(first, TryButton)["fb"][cell] = first["fb"][cell] /\ ~On(cell, TryButton)
  <2>1. first \in Memory /\ TryButton \in C!Box
    BY <1>3, Constants
  <2> QED
    BY <1>2, <2>1
<1>5. /\ second \in Memory /\ second["shadow"] = m["shadow"]
      /\ \A cell \in C!Visible :
           \/ second["fb"][cell] = m["shadow"][cell]
           \/ /\ second["fb"][cell] = first["fb"][cell]
              /\ ~(2 \in {previous, current} /\ On(cell, TryButton))
  BY <1>3, <1>4
<1> HIDE DEF second
<1>6. \A cell \in C!Visible : second["fb"][cell] = m["shadow"][cell]
  BY <1>3, <1>5
<1> QED
  BY <1>1, <1>5, <1>6 DEF Agree

\* The memory of a round before the cursor is drawn.
Refreshed(hovered) ==
  LET erased == C!EraseCursor(mem)
  IN  IF hovered = HoveredButton
      THEN erased
      ELSE C!ShowButtons([erased EXCEPT ![shadowPtr] =
                            C!RefreshSetupButtons(@, HoveredButton, hovered)],
                         HoveredButton, hovered)

LEMMA SceneOnScreen ==
  ASSUME ScreenInv, NEW hovered \in 0 .. 2
  PROVE  /\ Refreshed(hovered) \in Memory
         /\ shadowPtr = "shadow" =>
              Shows(Refreshed(hovered)["shadow"], hovered) /\ Agree(Refreshed(hovered))
<1> DEFINE erased == C!EraseCursor(mem)
<1>1. /\ erased \in Memory /\ erased["shadow"] = mem["shadow"]
      /\ shadowPtr = "shadow" => Agree(erased)
  BY Erased
<1>2. /\ shadowPtr \in {"shadow", "fb"} /\ HoveredButton \in 0 .. 2
      /\ shadowPtr = "shadow" => Shows(mem["shadow"], HoveredButton)
  BY DEF ScreenInv, SurfacesOK
<1>3. CASE hovered = HoveredButton
  <2>1. Refreshed(hovered) = erased
    BY <1>3 DEF Refreshed
  <2> HIDE DEF erased
  <2> QED
    BY <1>1, <1>2, <1>3, <2>1
<1>4. CASE hovered # HoveredButton
  <2> DEFINE g == C!RefreshSetupButtons(erased[shadowPtr], HoveredButton, hovered)
             n == [erased EXCEPT ![shadowPtr] = g]
  <2>1. Refreshed(hovered) = C!ShowButtons(n, HoveredButton, hovered)
    BY <1>4 DEF Refreshed
  <2> HIDE DEF erased
  <2>2. erased[shadowPtr] \in Surface
    BY <1>1, <1>2 DEF Memory, Surfaces
  <2>3. /\ g \in Surface
        /\ Shows(erased[shadowPtr], HoveredButton) => Shows(g, hovered)
        /\ \A cell \in C!Visible :
             \/ g[cell] = erased[shadowPtr][cell]
             \/ 1 \in {HoveredButton, hovered} /\ On(cell, InstallButton)
             \/ 2 \in {HoveredButton, hovered} /\ On(cell, TryButton)
    <3> DEFINE f == erased[shadowPtr]
               previous == HoveredButton
    <3>1. f \in Surface /\ previous \in 0 .. 2 /\ previous # hovered
      BY <1>2, <1>4, <2>2
    <3> HIDE DEF f, previous
    <3>2. LET r == C!RefreshSetupButtons(f, previous, hovered)
          IN  /\ r \in Surface
              /\ Shows(f, previous) => Shows(r, hovered)
              /\ \A cell \in C!Visible :
                   \/ r[cell] = f[cell]
                   \/ 1 \in {previous, hovered} /\ On(cell, InstallButton)
                   \/ 2 \in {previous, hovered} /\ On(cell, TryButton)
      BY <3>1, SceneRefreshed
    <3> QED
      BY <3>2 DEF f, previous
  <2> HIDE DEF g
  <2>4. n \in Memory /\ n[shadowPtr] = g /\ (shadowPtr = "shadow" => n["fb"] = erased["fb"])
    BY <1>1, <1>2, <2>3 DEF Memory, Surfaces
  <2> HIDE DEF n
  <2>5. CASE shadowPtr = "shadow"
    <3>1. \A cell \in C!Visible :
            \/ n["shadow"][cell] = n["fb"][cell]
            \/ 1 \in {HoveredButton, hovered} /\ On(cell, InstallButton)
            \/ 2 \in {HoveredButton, hovered} /\ On(cell, TryButton)
      BY <1>1, <2>3, <2>4, <2>5 DEF Agree
    <3>2. Shows(n["shadow"], hovered)
      BY <1>1, <1>2, <2>3, <2>4, <2>5
    <3> DEFINE previous == HoveredButton
               r == C!ShowButtons(n, previous, hovered)
    <3>3. \A cell \in C!Visible :
            \/ n["shadow"][cell] = n["fb"][cell]
            \/ 1 \in {previous, hovered} /\ On(cell, InstallButton)
            \/ 2 \in {previous, hovered} /\ On(cell, TryButton)
      BY <3>1
    <3>4. Refreshed(hovered) = r
      BY <2>1
    <3> HIDE DEF previous
    <3>5. r \in Memory /\ r["shadow"] = n["shadow"] /\ Agree(r)
      BY <2>4, <2>5, <3>3, ButtonsShown
    <3> QED
      BY <2>5, <3>2, <3>4, <3>5
  <2>6. CASE shadowPtr = "fb"
    <3>1. C!ShowButtons(n, HoveredButton, hovered) = n
      BY <2>6 DEF C!ShowButtons
    <3> QED
      BY <2>1, <2>4, <2>6, <3>1
  <2> QED
    BY <1>2, <2>5, <2>6
<1> QED
  BY <1>3, <1>4

\* A screen with the sprite over it, cell by cell.
LEMMA OverlayCell ==
  ASSUME NEW f, NEW c, NEW cell \in C!Visible
  PROVE  C!OverlayAt(f, <<c.X, c.Y>>)[cell] =
           IF Covered(c, cell) THEN C!CursorPixel(C!SpriteIndex(c, cell)) ELSE f[cell]
  BY DEF C!OverlayAt, Covered, InSprite, C!SpriteIndex

\* Drawing the cursor over a screen that is its shadow, or has none, puts the
\* sprite over it.
LEMMA CursorShown ==
  ASSUME NEW m \in Memory, NEW c \in Sprite,
         shadowPtr \in {"shadow", "fb"}, composePtr \in {"compose", "NULL"},
         shadowPtr = "shadow" => Agree(m)
  PROVE  LET b == C!BlitCursorComposite(m, c)
         IN  /\ b.mem \in Memory /\ b.mem["shadow"] = m["shadow"]
             /\ b.cursor \in Sprite /\ b.cursor.X = c.X /\ b.cursor.Y = c.Y
             /\ b.cursor.Visible /\ Clipped(b.cursor)
             /\ \A cell \in C!Visible :
                  b.mem["fb"][cell] =
                    IF Covered(c, cell) THEN C!CursorPixel(C!SpriteIndex(c, cell))
                    ELSE m["fb"][cell]
<1> DEFINE b == C!BlitCursorComposite(m, c)
<1>1. /\ b.mem \in Memory /\ b.mem["shadow"] = m["shadow"]
      /\ b.cursor \in Sprite /\ b.cursor.X = c.X /\ b.cursor.Y = c.Y
      /\ b.cursor.Visible /\ Clipped(b.cursor)
      /\ \A cell \in C!Visible :
           b.mem["fb"][cell] =
             IF Covered(c, cell) THEN C!CursorPixel(C!SpriteIndex(c, cell))
             ELSE IF InSprite(c, cell) /\ composePtr = "compose" THEN m[shadowPtr][cell]
             ELSE m["fb"][cell]
  BY Composite
<1>2. \A cell \in C!Visible : m[shadowPtr][cell] = m["fb"][cell]
  BY DEF Agree
<1> HIDE DEF b
<1> QED
  BY <1>1, <1>2 DEF b

\* A round shows the scene for the button under the cursor, if there is a
\* shadow to keep it in, with the cursor over it.
LEMMA RoundShows ==
  ASSUME ScreenInv, NEW x \in 0 .. ScreenWidth - 1, NEW y \in 0 .. ScreenHeight - 1, C!Round(x, y)
  PROVE  /\ ScreenInv'
         /\ sprite'.X = x /\ sprite'.Y = y
         /\ HoveredButton' = C!HitAt(<<x, y>>)
         /\ UNCHANGED shadowPtr
         /\ shadowPtr = "shadow" =>
              C!OnScreen(mem'["fb"]) = C!OverlayAt(C!SceneOf(C!HitAt(<<x, y>>)), <<x, y>>)
         /\ C!OnScreen(mem'["fb"]) = C!OverlayAt(C!OnScreen(mem'["fb"]), <<x, y>>)
<1> DEFINE hovered == C!HitTestSetupUi(x, y)
           m == Refreshed(hovered)
           c == [sprite EXCEPT !.X = x, !.Y = y, !.Visible = FALSE]
           b == C!BlitCursorComposite(m, c)
<1>1. mem' = b.mem /\ sprite' = b.cursor /\ HoveredButton' = hovered
      /\ UNCHANGED <<shadowPtr, composePtr>>
  BY DEF C!Round, Refreshed
<1>2. hovered \in 0 .. 2 /\ hovered = C!HitAt(<<x, y>>)
  BY HitType DEF C!HitAt
<1> HIDE DEF hovered
<1>3. /\ m \in Memory
      /\ shadowPtr = "shadow" => Shows(m["shadow"], hovered) /\ Agree(m)
  BY <1>2, SceneOnScreen
<1> HIDE DEF m
<1>4. c \in Sprite /\ c.X = x /\ c.Y = y
  BY DEF ScreenInv, SurfacesOK, Sprite
<1>5. shadowPtr \in {"shadow", "fb"} /\ composePtr \in {"compose", "NULL"}
  BY DEF ScreenInv, SurfacesOK
<1> HIDE DEF c
<1>6. /\ b.mem \in Memory /\ b.mem["shadow"] = m["shadow"]
      /\ b.cursor \in Sprite /\ b.cursor.X = c.X /\ b.cursor.Y = c.Y
      /\ b.cursor.Visible /\ Clipped(b.cursor)
      /\ \A cell \in C!Visible :
           b.mem["fb"][cell] =
             IF Covered(c, cell) THEN C!CursorPixel(C!SpriteIndex(c, cell)) ELSE m["fb"][cell]
  BY <1>3, <1>4, <1>5, CursorShown
<1> HIDE DEF b
<1>7. SurfacesOK'
  BY <1>1, <1>2, <1>5, <1>6 DEF SurfacesOK
<1>8. shadowPtr = "shadow" => AgreeOutside(mem', sprite')
  <2> SUFFICES ASSUME shadowPtr = "shadow", NEW cell \in C!Visible, ~InSprite(sprite', cell)
               PROVE  mem'["fb"][cell] = mem'["shadow"][cell]
    BY DEF AgreeOutside
  <2>1. ~Covered(c, cell)
    BY <1>1, <1>6 DEF Covered, InSprite
  <2> QED
    BY <1>1, <1>3, <1>6, <2>1 DEF Agree
<1>9. ScreenInv'
  BY <1>1, <1>3, <1>6, <1>7, <1>8 DEF ScreenInv
<1>10. ASSUME shadowPtr = "shadow"
       PROVE  C!OnScreen(mem'["fb"]) = C!OverlayAt(C!SceneOf(hovered), <<x, y>>)
  <2>1. \A cell \in C!Visible : m["fb"][cell] = C!SceneOf(hovered)[cell]
    BY <1>3, <1>10, SceneCell DEF Agree, Shows
  <2>2. \A cell \in C!Visible :
          mem'["fb"][cell] = C!OverlayAt(C!SceneOf(hovered), <<c.X, c.Y>>)[cell]
    BY <1>1, <1>6, <2>1, OverlayCell
  <2> QED
    BY <1>4, <2>2 DEF C!OnScreen, C!OverlayAt
<1>11. C!OnScreen(mem'["fb"]) = C!OverlayAt(C!OnScreen(mem'["fb"]), <<x, y>>)
  <2> DEFINE screen == C!OnScreen(mem'["fb"])
  <2>1. \A cell \in C!Visible : screen[cell] = mem'["fb"][cell]
    BY DEF C!OnScreen
  <2>2. \A cell \in C!Visible :
          C!OverlayAt(screen, <<c.X, c.Y>>)[cell] =
            IF Covered(c, cell) THEN C!CursorPixel(C!SpriteIndex(c, cell)) ELSE screen[cell]
    BY OverlayCell
  <2>3. \A cell \in C!Visible : screen[cell] = C!OverlayAt(screen, <<c.X, c.Y>>)[cell]
    BY <1>1, <1>6, <2>1, <2>2
  <2>4. screen = [cell \in C!Visible |-> screen[cell]]
    BY DEF C!OnScreen
  <2> HIDE DEF screen
  <2>5. C!OverlayAt(screen, <<x, y>>) =
          [cell \in C!Visible |-> C!OverlayAt(screen, <<x, y>>)[cell]]
    BY DEF C!OverlayAt
  <2>6. screen = C!OverlayAt(screen, <<x, y>>)
    BY <1>4, <2>3, <2>4, <2>5
  <2> QED
    BY <2>6 DEF screen
<1> QED
  BY <1>1, <1>2, <1>4, <1>6, <1>9, <1>10, <1>11

-----------------------------------------------------------------------------
(* The whole loop.                                                         *)

KernelInv == ScreenInv /\ sprite.X = cursor.X /\ sprite.Y = cursor.Y

LEMMA FirstFrame ==
  ASSUME KernelInit
  PROVE  /\ KernelInv
         /\ <<cursor.X, cursor.Y>> = <<C!FirstX, C!FirstY>> /\ HoveredButton = 0
         /\ C!OnScreen(mem["fb"]) = C!OverlayAt(C!SceneOf(0), <<C!FirstX, C!FirstY>>)
<1> DEFINE blank == [c \in C!Cells |-> C!Undrawn]
           scene == C!DrawSetupScreen(blank, 0)
           m == [s \in Surfaces |-> IF s \in {"fb", shadowPtr} THEN scene ELSE blank]
           c == [X |-> C!FirstX, Y |-> C!FirstY, SavedWidth |-> 0, SavedHeight |-> 0,
                 Visible |-> FALSE, SavedPixels |-> [i \in SpriteCells |-> C!Undrawn]]
           b == C!BlitCursorComposite(m, c)
<1>1. mem = b.mem /\ sprite = b.cursor /\ HoveredButton = 0
  BY DEF KernelInit, C!Init, Surfaces, SpriteCells
<1>2. shadowPtr \in {"shadow", "fb"} /\ composePtr \in {"compose", "NULL"}
  BY DEF KernelInit, C!Init
<1>3. C!FirstX = cursor.X /\ C!FirstY = cursor.Y
  BY DEF KernelInit, Init, C!FirstX, C!FirstY, C!ClampCursorX, C!ClampCursorY, ClampCursorX,
     ClampCursorY, C!ClampCursor, C!ClampCoordinate, ClampCursor, ClampCoordinate
<1>4. C!FirstX \in 0 .. ScreenWidth - 1 /\ C!FirstY \in 0 .. ScreenHeight - 1
  BY Constants DEF C!FirstX, C!FirstY, C!ClampCursorX, C!ClampCursorY, C!ClampCursor,
     C!ClampCoordinate
<1>5. c \in Sprite /\ c.X = C!FirstX /\ c.Y = C!FirstY
  <2> DEFINE pixels == [i \in SpriteCells |-> C!Undrawn]
  <2>1. pixels \in [SpriteCells -> Nat]
    BY DEF C!Undrawn
  <2> HIDE DEF pixels
  <2> QED
    BY <1>4, <2>1 DEF Sprite, pixels
<1> HIDE DEF c
<1>6. scene \in Surface /\ Shows(scene, 0)
  BY SceneDrawn
<1>7. blank \in Surface
  BY DEF Surface, C!Undrawn
<1> HIDE DEF scene, blank
<1>8. m \in Memory /\ m["fb"] = scene /\ (shadowPtr = "shadow" => m["shadow"] = scene)
  BY <1>6, <1>7 DEF Memory, Surfaces
<1> HIDE DEF m
<1>9. shadowPtr = "shadow" => Agree(m)
  BY <1>8 DEF Agree
<1>10. /\ b.mem \in Memory /\ b.mem["shadow"] = m["shadow"]
       /\ b.cursor \in Sprite /\ b.cursor.X = c.X /\ b.cursor.Y = c.Y
       /\ b.cursor.Visible /\ Clipped(b.cursor)
       /\ \A cell \in C!Visible :
            b.mem["fb"][cell] =
              IF Covered(c, cell) THEN C!CursorPixel(C!SpriteIndex(c, cell)) ELSE m["fb"][cell]
  BY <1>2, <1>5, <1>8, <1>9, CursorShown
<1> HIDE DEF b
<1>11. SurfacesOK
  BY <1>1, <1>2, <1>10 DEF SurfacesOK
<1>12. shadowPtr = "shadow" => AgreeOutside(mem, sprite)
  <2> SUFFICES ASSUME shadowPtr = "shadow", NEW cell \in C!Visible, ~InSprite(sprite, cell)
               PROVE  mem["fb"][cell] = mem["shadow"][cell]
    BY DEF AgreeOutside
  <2>1. ~Covered(c, cell)
    BY <1>1, <1>10 DEF Covered, InSprite
  <2> QED
    BY <1>1, <1>8, <1>10, <2>1
<1>13. KernelInv
  BY <1>1, <1>3, <1>5, <1>6, <1>8, <1>10, <1>11, <1>12 DEF KernelInv, ScreenInv
<1>14. C!OnScreen(mem["fb"]) = C!OverlayAt(C!SceneOf(0), <<C!FirstX, C!FirstY>>)
  <2>1. \A cell \in C!Visible : m["fb"][cell] = C!SceneOf(0)[cell]
    BY <1>6, <1>8, SceneCell DEF Shows
  <2>2. \A cell \in C!Visible :
          mem["fb"][cell] = C!OverlayAt(C!SceneOf(0), <<c.X, c.Y>>)[cell]
    BY <1>1, <1>10, <2>1, OverlayCell
  <2> QED
    BY <1>5, <2>2 DEF C!OnScreen, C!OverlayAt
<1> QED
  BY <1>1, <1>3, <1>13, <1>14

\* The decoder in the loop is the decoder of MousePackets.
LEMMA LoopDecodes == KernelSpec => Spec
<1>1. KernelInit => Init
  BY DEF KernelInit
<1>2. [KernelNext]_kernelVars => [Next]_vars
  BY DEF KernelNext, KernelDriver, InCallStep, EndRound, DeviceStep, Next, Driver, kernelVars
<1> QED
  BY <1>1, <1>2, PTL DEF KernelSpec, Spec

\* A step of the loop repaints for the position the call left, or leaves the
\* cursor and the surfaces alone.
LEMMA LoopStep ==
  ASSUME TypeOK, [KernelNext]_kernelVars
  PROVE  \/ C!Round(cursor'.X, cursor'.Y)
         \/ UNCHANGED <<surfaces, cursor.X, cursor.Y>>
<1>1. CASE EndRound /\ UpdateReturns
  BY <1>1 DEF EndRound
<1>2. CASE EndRound /\ ~UpdateReturns
  <2>1. UNCHANGED surfaces /\ EndUpdate /\ ~(call.packetCount > 0)
    BY <1>2 DEF EndRound, UpdateReturns
  <2>2. cursor' = [cursor EXCEPT !.LeftButtonDown = call.leftButtonDown,
                                 !.LastPollCount = call.packetCount]
    BY <2>1 DEF EndUpdate
  <2>3. cursor'.X = cursor.X /\ cursor'.Y = cursor.Y
    BY <2>2 DEF TypeOK, Cursor
  <2> QED
    BY <2>1, <2>3
<1>3. CASE InCallStep
  BY <1>3 DEF InCallStep, BeginUpdate, ReadForeign, SkipByte, StoreByte, CompletePacket
<1>4. CASE DeviceStep
  BY <1>4 DEF DeviceStep, Devices, MousePacket, AuxTransfer, AuxLost, KeyPress
<1>5. CASE UNCHANGED kernelVars
  BY <1>5 DEF kernelVars, vars
<1> QED
  BY <1>1, <1>2, <1>3, <1>4, <1>5 DEF KernelNext, KernelDriver

\* The positions of the decoder are positions of the display.
InPlace ==
  /\ cursor.X \in 0 .. ScreenWidth - 1 /\ cursor.Y \in 0 .. ScreenHeight - 1
  /\ <<cursor.X, cursor.Y>> \in C!PositionsX \X C!PositionsY

LEMMA PositionKnown == TypeOK /\ CursorOnScreen => InPlace
<1> SUFFICES ASSUME TypeOK, CursorOnScreen PROVE InPlace
  OBVIOUS
<1>1. cursor.X \in Nat /\ cursor.Y \in Nat
  BY DEF TypeOK, Cursor
<1>2. /\ cursor.X <= IF ScreenWidth > CursorWidth THEN ScreenWidth - CursorWidth ELSE 0
      /\ cursor.Y <= IF ScreenHeight > CursorHeight THEN ScreenHeight - CursorHeight ELSE 0
  BY DEF CursorOnScreen
<1>3. cursor.X \in 0 .. ScreenWidth - 1 /\ cursor.Y \in 0 .. ScreenHeight - 1
  BY <1>1, <1>2, Constants
<1>4. C!ClampCursorX(cursor.X) = cursor.X /\ C!ClampCursorY(cursor.Y) = cursor.Y
  BY <1>1, <1>2, Constants DEF C!ClampCursorX, C!ClampCursorY, C!ClampCursor, C!ClampCoordinate
<1>5. cursor.X \in 0 .. ScreenWidth /\ cursor.Y \in 0 .. ScreenHeight
  BY <1>3, Constants
<1>6. cursor.X \in C!PositionsX /\ cursor.Y \in C!PositionsY
  BY <1>4, <1>5 DEF C!PositionsX, C!PositionsY
<1> QED
  BY <1>3, <1>6 DEF InPlace

\* The screen after a step, if there was a round.
LEMMA KernelStep ==
  ASSUME KernelInv, TypeOK, InPlace', [KernelNext]_kernelVars
  PROVE  /\ KernelInv'
         /\ \/ UNCHANGED <<surfaces, cursor.X, cursor.Y>>
            \/ Display!Next
<1>1. CASE UNCHANGED <<surfaces, cursor.X, cursor.Y>>
  BY <1>1 DEF KernelInv, ScreenInv, SurfacesOK, surfaces
<1>2. CASE C!Round(cursor'.X, cursor'.Y)
  <2>1. /\ cursor'.X \in 0 .. ScreenWidth - 1 /\ cursor'.Y \in 0 .. ScreenHeight - 1
        /\ <<cursor'.X, cursor'.Y>> \in C!PositionsX \X C!PositionsY
    BY DEF InPlace
  <2>2. PICK x \in 0 .. ScreenWidth - 1 : x = cursor'.X
    BY <2>1
  <2>3. PICK y \in 0 .. ScreenHeight - 1 : y = cursor'.Y
    BY <2>1
  <2>4. ScreenInv /\ C!Round(x, y)
    BY <1>2, <2>2, <2>3 DEF KernelInv
  <2>5. /\ ScreenInv'
        /\ sprite'.X = x /\ sprite'.Y = y
        /\ HoveredButton' = C!HitAt(<<x, y>>)
        /\ UNCHANGED shadowPtr
        /\ shadowPtr = "shadow" =>
             C!OnScreen(mem'["fb"]) = C!OverlayAt(C!SceneOf(C!HitAt(<<x, y>>)), <<x, y>>)
        /\ C!OnScreen(mem'["fb"]) = C!OverlayAt(C!OnScreen(mem'["fb"]), <<x, y>>)
    BY <2>4, RoundShows
  <2>6. KernelInv'
    BY <2>2, <2>3, <2>5 DEF KernelInv
  <2>7. Display!Move(<<x, y>>)
    BY <2>2, <2>3, <2>5 DEF Display!Move
  <2>8. <<x, y>> \in C!PositionsX \X C!PositionsY
    BY <2>1, <2>2, <2>3
  <2> QED
    BY <2>6, <2>7, <2>8 DEF Display!Next
<1> QED
  BY <1>1, <1>2, LoopStep

\* Between rounds the screen and the shadow differ under the sprite only, and
\* the sprite is where the decoder left the cursor.
LEMMA KernelInvariant == KernelSpec => [](KernelInv /\ TypeOK /\ InPlace)
<1>1. KernelInit => KernelInv
  BY FirstFrame
<1>2. KernelInv /\ TypeOK /\ InPlace' /\ [KernelNext]_kernelVars => KernelInv'
  BY KernelStep
<1> QED
  BY <1>1, <1>2, LoopDecodes, TypeCorrect, CursorStaysOnScreen, PositionKnown, PTL DEF KernelSpec

\* On a screen of any size and with scan lines of any length the loop reads
\* pixels of the surfaces, and saved pixels of the sprite, at addresses inside
\* them only.
THEOREM ReadsStayInside == KernelSpec => []SurfacesOK
<1>1. KernelInv => SurfacesOK
  BY DEF KernelInv, ScreenInv
<1> QED
  BY <1>1, KernelInvariant, PTL

\* RefreshSetupButtons, which draws only the buttons that gained or lost the
\* hover, always leaves the complete scene in the shadow.
THEOREM ShadowStaysScene == KernelSpec => []ShadowIsScene
<1>1. KernelInv => ShadowIsScene
  <2> SUFFICES ASSUME KernelInv, shadowPtr = "shadow"
               PROVE  C!OnScreen(mem["shadow"]) = C!SceneOf(HoveredButton)
    BY DEF ShadowIsScene, C!ShadowIsScene
  <2>1. \A cell \in C!Visible : mem["shadow"][cell] = C!SceneOf(HoveredButton)[cell]
    BY SceneCell DEF KernelInv, ScreenInv, Shows
  <2> QED
    BY <2>1 DEF C!OnScreen, C!SceneOf
<1> QED
  BY <1>1, KernelInvariant, PTL

\* The kernel loop implements CursorDisplay: after every round the screen is
\* the scene for the button under the mouse with one cursor over it, where the
\* decoded packets have moved it.
THEOREM LoopImplementsDisplay == KernelSpec => ScreenFollowsMouse
<1> DEFINE view == <<shadowPtr = "shadow", <<cursor.X, cursor.Y>>, HoveredButton,
                     C!OnScreen(mem["fb"])>>
<1>1. KernelInit => Display!Init
  <2> SUFFICES ASSUME KernelInit PROVE Display!Init
    OBVIOUS
  <2>1. (shadowPtr = "shadow") \in BOOLEAN
    OBVIOUS
  <2> QED
    BY <2>1, FirstFrame DEF Display!Init
<1>2. KernelInv /\ TypeOK /\ InPlace' /\ [KernelNext]_kernelVars
        => [Display!Next]_view
  <2> SUFFICES ASSUME KernelInv, TypeOK, InPlace', [KernelNext]_kernelVars
               PROVE  [Display!Next]_view
    OBVIOUS
  <2>1. CASE UNCHANGED <<surfaces, cursor.X, cursor.Y>>
    BY <2>1 DEF surfaces, C!OnScreen
  <2>2. CASE Display!Next
    BY <2>2
  <2> QED
    BY <2>1, <2>2, KernelStep
<1> QED
  BY <1>1, <1>2, KernelInvariant, PTL DEF KernelSpec, ScreenFollowsMouse, Display!Spec

=============================================================================
