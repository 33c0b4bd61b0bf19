----------------------------- MODULE ToolProcess -----------------------------
(***************************************************************************)
(* RunProcess of NativeUefiCompiler.cs: it starts cl or link with both     *)
(* outputs redirected, reads standard output to its end, then standard     *)
(* error, then waits for the exit code.                                    *)
(*                                                                         *)
(* The tool (external) writes a list of lines to either pipe and exits.  A *)
(* pipe holds Capacity lines; a write to a full one blocks.                *)
(***************************************************************************)
EXTENDS Integers, Sequences, FiniteSets

CONSTANTS
  Capacity,   \* of a pipe
  Programs    \* what the tool may write: sequences over {"out", "err"}

ASSUME PipeAssumption ==
  Capacity \in Nat \ {0} /\ \A p \in Programs : p \in Seq({"out", "err"})

Streams == {"out", "err"}

VARIABLES
  program,    \* what the tool writes
  written,    \* how many lines it has written
  exitCode,   \* "running", or the code it exited with
  pipe,       \* stream -> the lines in its pipe
  read,       \* stream -> the lines read from it
  awaits      \* what RunProcess waits for: a stream's end, the exit, or nothing

tool == <<program, written, exitCode>>
toolVars == <<tool, pipe, read, awaits>>

\* Mutant: standard error is read first.
FirstStreamErr == "err"

\* The stream that is read first.
FirstStream == "out"

ToolInit ==
  /\ program \in Programs /\ written = 0 /\ exitCode = "running"
  /\ pipe = [s \in Streams |-> <<>>] /\ read = [s \in Streams |-> <<>>]
  /\ awaits = FirstStream

\* The tool writes its next line, unless the pipe is full.
ToolWrite ==
  /\ exitCode = "running" /\ written < Len(program)
  /\ LET s == program[written + 1]
     IN  /\ Len(pipe[s]) < Capacity
         /\ pipe' = [pipe EXCEPT ![s] = Append(@, written + 1)]
  /\ written' = written + 1
  /\ UNCHANGED <<program, exitCode, read, awaits>>

ToolExit ==
  /\ exitCode = "running" /\ written = Len(program)
  /\ exitCode' \in {"0", "2"}
  /\ UNCHANGED <<program, written, pipe, read, awaits>>

\* ReadToEnd takes what is in the pipe.
Read(s) ==
  /\ awaits = s /\ pipe[s] # <<>>
  /\ read' = [read EXCEPT ![s] = @ \o pipe[s]]
  /\ pipe' = [pipe EXCEPT ![s] = <<>>]
  /\ UNCHANGED <<tool, awaits>>

\* Mutant: ReadToEnd ends with an empty pipe.
AtEndEarly(s) == pipe[s] = <<>>

\* The end of a stream: its writer has gone.
AtEnd(s) == pipe[s] = <<>> /\ exitCode # "running"

\* A stream has ended: the other one follows, then the wait.
EndOfStream(s) ==
  /\ awaits = s /\ AtEnd(s)
  /\ awaits' = IF s # FirstStream THEN "wait"
               ELSE CHOOSE other \in Streams : other # s
  /\ UNCHANGED <<tool, pipe, read>>

\* Throws for an exit code other than zero.
WaitForExit ==
  /\ awaits = "wait" /\ exitCode # "running"
  /\ awaits' = IF exitCode = "0" THEN "returned" ELSE "thrown"
  /\ UNCHANGED <<tool, pipe, read>>

RunProcessStep == (\E s \in Streams : Read(s) \/ EndOfStream(s)) \/ WaitForExit
Tool == ToolWrite \/ ToolExit

ToolNext == Tool \/ RunProcessStep

\* The builder's thread runs; a tool that can write or exit does.
ToolSpec ==
  /\ ToolInit /\ [][ToolNext]_toolVars
  /\ WF_toolVars(RunProcessStep) /\ WF_toolVars(Tool)

-----------------------------------------------------------------------------
\* The lines the tool writes to a stream.
LinesOf(s) == {i \in 1 .. Len(program) : program[i] = s}

\* Both outputs are complete and in order when RunProcess returns or throws,
\* however the tool mixed them: its message has all a failed tool said.
OutputsComplete ==
  awaits \in {"returned", "thrown"} =>
    \A s \in Streams :
      /\ {read[s][i] : i \in DOMAIN read[s]} = LinesOf(s)
      /\ \A i, j \in DOMAIN read[s] : i < j => read[s][i] < read[s][j]

\* RunProcess comes to an end, however much the tool writes to standard output, as
\* long as what it writes to standard error fits into a pipe.
RunEnds ==
  Cardinality(LinesOf("err")) <= Capacity => <>(awaits \in {"returned", "thrown"})
=============================================================================
