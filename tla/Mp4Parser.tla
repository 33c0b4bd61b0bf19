------------------------------ MODULE Mp4Parser ------------------------------
(***************************************************************************)
(* Mp4MetadataParser of Program.cs: three loops over boxes that call each  *)
(* other, on a file that may hold anything.                                *)
(*                                                                         *)
(* A call of a loop is a frame with the position its boxes end at; leaving *)
(* a frame puts the stream where the caller's box ends, which is the same  *)
(* position.  The file is not stored: a header is any size and type when   *)
(* it is read.  A duration and a picture size are the position of the box  *)
(* they were read from, and 0 when there is none.                          *)
(***************************************************************************)
EXTENDS Integers, Sequences

CONSTANTS
  Lengths,             \* the possible lengths of the file
  Sizes,               \* what the 32 bit size of a header may be
  LargeSizes,          \* what the 64 bit size may be
  MaxLong              \* long.MaxValue

\* A length and a 32 bit size are a long.
ASSUME SizesAssumption ==
  /\ MaxLong \in Nat /\ Lengths \subseteq 0 .. MaxLong
  /\ Sizes \subseteq 0 .. MaxLong /\ LargeSizes \subseteq Nat

VARIABLES
  length,
  parser,              \* "loop", or how TryParse ended
  position,            \* reader.BaseStream.Position
  frames,              \* the calls under way, the innermost last
  duration, picture,   \* durationSeconds; width and height
  inTrack,             \* ParseTrack's localWidth and localHeight, and isVideo
  tracks, handlers     \* history: the trak boxes, and the hdlr boxes in order

result == <<duration, picture>>
history == <<tracks, handlers>>
parserVars == <<length, parser, position, frames, result, inTrack, history>>

Frame(proc, end) == [proc |-> proc, end |-> end]

Top == frames[Len(frames)]

ParserInit ==
  /\ length \in Lengths /\ parser = "loop" /\ position = 0
  /\ frames = <<Frame("range", length)>>
  /\ duration = 0 /\ picture = 0 /\ inTrack = [picture |-> 0, isVideo |-> FALSE]
  /\ tracks = {} /\ handlers = <<>>

Throw ==
  /\ parser' = "thrown"
  /\ UNCHANGED <<length, position, frames, result, inTrack, history>>

\* BaseStream.Position = at; a negative position throws.
Seek(at) == position' = at /\ parser' = IF at < 0 THEN "thrown" ELSE "loop"

\* Mutant: a track that is no video gives its size, too.
CommitAlways == picture' = inTrack.picture

\* What ParseBoxRange takes over from a track.
Commit == picture' = IF inTrack.isVideo THEN inTrack.picture ELSE picture

\* The end of a loop and its method.
Leave ==
  /\ IF Len(frames) = 1
     THEN parser' = "returned" /\ UNCHANGED <<position, picture>>
     ELSE /\ Seek(Top.end)
          /\ IF Top.proc = "track" THEN Commit ELSE UNCHANGED picture
  /\ frames' = SubSeq(frames, 1, Len(frames) - 1)
  /\ UNCHANGED <<length, duration, inTrack, history>>

LoopEnds ==
  /\ parser = "loop" /\ position + 8 > Top.end
  /\ Leave

-----------------------------------------------------------------------------
\* Adding to a position wraps around.
BoxEnd(payload) ==
  LET sum == position + payload IN IF sum > MaxLong THEN sum - 2 * (MaxLong + 1) ELSE sum

\* A call of a loop on the contents of the box.
Call(proc, header, boxEnd) ==
  /\ frames' = Append(frames, Frame(proc, boxEnd))
  /\ position' = position + header
  /\ UNCHANGED parser

Skip(boxEnd) == Seek(boxEnd) /\ UNCHANGED frames

\* ReadByte, the first read of ParseMovieHeader and ParseTrackHeader, throws at
\* the end of the file; the others then return less.
ReadsByte(header) == position + header < length

VisitInRange(type, header, boxEnd) ==
  CASE type \in {"moov", "mdia"} ->
         Call("range", header, boxEnd) /\ UNCHANGED <<result, inTrack, history>>
    [] type = "trak" ->
         /\ Call("track", header, boxEnd)
         /\ inTrack' = [picture |-> picture, isVideo |-> FALSE]
         /\ tracks' = tracks \cup {[from |-> position, to |-> boxEnd]}
         /\ UNCHANGED <<result, handlers>>
    [] type = "mvhd" ->
         /\ duration' \in {0, position}     \* 0 for a timescale of 0
         /\ Skip(boxEnd) /\ UNCHANGED <<picture, inTrack, history>>
    [] OTHER -> Skip(boxEnd) /\ UNCHANGED <<result, inTrack, history>>

VisitInTrack(type, header, boxEnd) ==
  CASE type = "mdia" ->
         Call("media", header, boxEnd) /\ UNCHANGED <<result, inTrack, history>>
    [] type = "tkhd" ->
         /\ inTrack' = [inTrack EXCEPT !.picture = position]
         /\ Skip(boxEnd) /\ UNCHANGED <<result, history>>
    [] OTHER -> Skip(boxEnd) /\ UNCHANGED <<result, inTrack, history>>

\* The handler is four bytes, eight behind the header; it is not "vide" if the
\* file ends before.
VisitInMedia(type, header, boxEnd) ==
  IF type = "hdlr"
  THEN \E video \in IF position + header + 12 <= length THEN BOOLEAN ELSE {FALSE} :
         /\ inTrack' = [inTrack EXCEPT !.isVideo = video]
         /\ handlers' = Append(handlers, [at |-> position, video |-> video])
         /\ Skip(boxEnd) /\ UNCHANGED <<result, tracks>>
  ELSE Skip(boxEnd) /\ UNCHANGED <<result, inTrack, history>>

Visit(type, header, boxEnd) ==
  /\ CASE Top.proc = "range" -> VisitInRange(type, header, boxEnd)
       [] Top.proc = "track" -> VisitInTrack(type, header, boxEnd)
       [] OTHER -> VisitInMedia(type, header, boxEnd)
  /\ UNCHANGED length

\* Mutant: a box may be smaller than its header.
TooSmallNever(payload) == FALSE

TooSmall(payload) == payload < 8

Types == {"moov", "mdia", "trak", "mvhd", "tkhd", "hdlr", "free"}

\* ParseMovieHeader or ParseTrackHeader reads behind the end of the file.
HeaderThrows(type, header) ==
  /\ ~ReadsByte(header)
  /\ \/ type = "mvhd" /\ Top.proc = "range"
     \/ type = "tkhd" /\ Top.proc = "track"

\* One box: the sizes first, then what the loop does with its type.
Box(payload, header, type) ==
  LET boxEnd == BoxEnd(payload)
  IN  IF TooSmall(payload) \/ boxEnd > Top.end \/ boxEnd > length THEN Leave
      ELSE IF HeaderThrows(type, header) THEN Throw
      ELSE Visit(type, header, boxEnd)

ReadBox ==
  /\ parser = "loop" /\ position + 8 <= Top.end
  /\ \E type \in Types :
       \/ \E size \in Sizes \ {0, 1} : Box(size, 8, type)
       \/ Box(Top.end - position, 8, type)
       \/ \E size \in LargeSizes : IF size > MaxLong THEN Throw ELSE Box(size, 16, type)

TryParse == LoopEnds \/ ReadBox

\* The parser runs alone in its thread.
ParserSpec == ParserInit /\ [][TryParse]_parserVars /\ WF_parserVars(TryParse)

-----------------------------------------------------------------------------
\* A trak box whose handler, the last one ParseMedia saw in it, is video.
IsVideoTrack(track) ==
  LET within == {i \in DOMAIN handlers : track.from < handlers[i].at /\ handlers[i].at < track.to}
  IN  \E i \in within : handlers[i].video /\ \A j \in within : j <= i

\* The picture size reported is that of a tkhd box in a trak box of a video: a sound
\* track never gives its size, wherever it stands in the file.
SizeOfVideoTrack ==
  picture # 0 =>
    \E t \in tracks : t.from < picture /\ picture < t.to /\ IsVideoTrack(t)

\* Whatever sizes the headers have, zero, smaller than a header, larger than the
\* file or wrapping around, TryParse comes to an end.
ParserEnds == <>(parser \in {"returned", "thrown"})
=============================================================================
