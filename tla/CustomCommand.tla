---------------------------- MODULE CustomCommand ----------------------------
(***************************************************************************)
(* A `command` transformer (src/transform/custom.rs): one external process *)
(* that all dump workers share behind a mutex, one JSON line out and one   *)
(* line back per value, through two pipes of bounded size.                 *)
(*                                                                         *)
(* The line of value v is Size[v] cells <<v, 1>>, ..., <<v, Size[v]>>, the *)
(* last one its newline; the answer to v is the same cells coming back.    *)
(* The process itself is not leafmask's: its `kind` says how it behaves.   *)
(***************************************************************************)
EXTENDS Integers, Sequences, SequencesExt

CONSTANTS
  Workers,   \* of the dump's pool
  Loads,     \* what documents may bring: a sequence of values for each worker
  Size,      \* cells of a value's line
  Numbers,   \* values whose text is a number, so that a prefix of it parses
  PipeCells, \* what a pipe holds
  Kinds      \* of processes

ASSUME PipeAssumption == PipeCells \in Nat \ {0}
ASSUME SizeAssumption == \A v \in DOMAIN Size : Size[v] \in Nat \ {0}
ASSUME LoadsAssumption == \A l \in Loads : l \in [Workers -> Seq(DOMAIN Size)]

\* "lines": reads a line, answers it, reads the next.  "streams": answers as it
\* reads (`cat`).  "chatty": two lines per line.  "hoards": its output stays in
\* its own buffer until two answers are there.  "mumbles": no JSON.
ASSUME KindAssumption == Kinds \subseteq {"lines", "streams", "chatty", "hoards", "mumbles"}

Nobody == "nobody"
ASSUME NobodyAssumption == Nobody \notin Workers

VARIABLES
  load,
  wpc,      \* worker: idle, write, read, parse, failed
  answers,  \* the lines a worker took for answers, in order
  lock,     \* the worker inside `proc.lock()`
  unsent,   \* what a worker has still to write
  resp,     \* what it has read of its answer
  stdin, stdout,
  child,    \* none, running, exited, killed
  kind,
  heard,    \* answers the process has not written out yet
  owed,     \* cells it is writing
  main      \* compile, dump, ended

workerVars == <<wpc, answers, lock, unsent, resp>>
childVars  == <<child, kind, load, heard, owed>>
vars       == <<workerVars, stdin, stdout, childVars, main>>

Line(v)   == [k \in 1..Size[v] |-> <<v, k>>]
IsEnd(c)  == c[2] = Size[c[1]]
Asked(w)  == load[w][Len(answers[w]) + 1]
Left(w)   == Len(answers[w]) < Len(load[w])

TypeOK ==
  /\ load \in Loads
  /\ wpc \in [Workers -> {"idle", "write", "read", "parse", "failed"}]
  /\ lock \in Workers \cup {Nobody}
  /\ child \in {"none", "running", "exited", "killed"}
  /\ kind \in Kinds
  /\ main \in {"compile", "dump", "ended"}
  /\ \A w \in Workers : Len(answers[w]) <= Len(load[w])
  /\ Len(stdin) <= PipeCells /\ Len(stdout) <= PipeCells

Init ==
  /\ load \in Loads
  /\ wpc = [w \in Workers |-> "idle"]
  /\ answers = [w \in Workers |-> <<>>]
  /\ lock = Nobody
  /\ unsent = [w \in Workers |-> <<>>] /\ resp = [w \in Workers |-> <<>>]
  /\ stdin = <<>> /\ stdout = <<>>
  /\ child = "none"
  /\ kind \in Kinds
  /\ heard = <<>> /\ owed = <<>>
  /\ main = "compile"

-----------------------------------------------------------------------------
(* CommandTransformer *)

\* The plan's compilation builds the transformer once; the workers share it.
Spawn ==
  /\ main = "compile"
  /\ child' = "running"
  /\ main' = "dump"
  /\ UNCHANGED <<workerVars, stdin, stdout, kind, load, heard, owed>>

SpawnFails ==
  /\ main = "compile"
  /\ main' = "ended"
  /\ UNCHANGED <<workerVars, stdin, stdout, childVars>>

\* The lock is held from before the write to after the parse.
Acquire(w) ==
  /\ main = "dump" /\ wpc[w] = "idle" /\ Left(w) /\ lock = Nobody
  /\ lock' = w
  /\ unsent' = [unsent EXCEPT ![w] = Line(Asked(w))]
  /\ wpc' = [wpc EXCEPT ![w] = "write"]
  /\ UNCHANGED <<answers, resp, stdin, stdout, childVars, main>>

\* Seeded fault: the lock is for the write alone.
WriteCellReleasing(w) ==
  /\ wpc[w] = "write" /\ child = "running" /\ Len(stdin) < PipeCells
  /\ stdin' = Append(stdin, Head(unsent[w]))
  /\ unsent' = [unsent EXCEPT ![w] = Tail(@)]
  /\ wpc' = [wpc EXCEPT ![w] = IF Len(unsent[w]) = 1 THEN "read" ELSE "write"]
  /\ lock' = IF Len(unsent[w]) = 1 THEN Nobody ELSE lock
  /\ UNCHANGED <<answers, resp, stdout, childVars, main>>

\* write blocks while the pipe is full.
WriteCell(w) ==
  /\ wpc[w] = "write" /\ child = "running" /\ Len(stdin) < PipeCells
  /\ stdin' = Append(stdin, Head(unsent[w]))
  /\ unsent' = [unsent EXCEPT ![w] = Tail(@)]
  /\ wpc' = [wpc EXCEPT ![w] = IF Len(unsent[w]) = 1 THEN "read" ELSE "write"]
  /\ UNCHANGED <<answers, lock, resp, stdout, childVars, main>>

\* Seeded fault: an error keeps the lock.
FailHolding(w) ==
  /\ wpc' = [wpc EXCEPT ![w] = "failed"]
  /\ resp' = [resp EXCEPT ![w] = <<>>] /\ unsent' = [unsent EXCEPT ![w] = <<>>]
  /\ UNCHANGED <<answers, lock, stdin, stdout, childVars, main>>

\* An error unwinds through the document's transform and fails the collection.
Fail(w) ==
  /\ wpc' = [wpc EXCEPT ![w] = "failed"]
  /\ lock' = Nobody
  /\ resp' = [resp EXCEPT ![w] = <<>>] /\ unsent' = [unsent EXCEPT ![w] = <<>>]
  /\ UNCHANGED <<answers, stdin, stdout, childVars, main>>

WriteFails(w) == wpc[w] = "write" /\ child # "running" /\ Fail(w)

\* read_line returns at a newline, or with what it has at the end of the stream.
ReadCell(w) ==
  /\ wpc[w] = "read" /\ stdout # <<>>
  /\ resp' = [resp EXCEPT ![w] = Append(@, Head(stdout))]
  /\ stdout' = Tail(stdout)
  /\ wpc' = [wpc EXCEPT ![w] = IF IsEnd(Head(stdout)) THEN "parse" ELSE "read"]
  /\ UNCHANGED <<answers, lock, unsent, stdin, childVars, main>>

ReadEof(w) ==
  /\ wpc[w] = "read" /\ stdout = <<>> /\ child # "running"
  /\ wpc' = [wpc EXCEPT ![w] = "parse"]
  /\ UNCHANGED <<answers, lock, unsent, resp, stdin, stdout, childVars, main>>

\* A line of JSON parses with its newline or without, as the end of the stream
\* may leave it, and so does a part of a number.
Parses(line) ==
  /\ line # <<>> /\ kind # "mumbles"
  /\ LET c == Last(line) IN c[2] >= Size[c[1]] - 1 \/ c[1] \in Numbers

Answered(w) ==
  /\ wpc[w] = "parse" /\ Parses(resp[w])
  /\ answers' = [answers EXCEPT ![w] = Append(@, resp[w])]
  /\ wpc' = [wpc EXCEPT ![w] = "idle"]
  /\ lock' = Nobody
  /\ resp' = [resp EXCEPT ![w] = <<>>]
  /\ UNCHANGED <<unsent, stdin, stdout, childVars, main>>

BadAnswer(w) == wpc[w] = "parse" /\ ~Parses(resp[w]) /\ Fail(w)

Worker(w) ==
  \/ Acquire(w) \/ WriteCell(w) \/ WriteFails(w)
  \/ ReadCell(w) \/ ReadEof(w) \/ Answered(w) \/ BadAnswer(w)

\* The workers are joined, the plan is dropped: kill and wait.
DropTransformer ==
  /\ main = "dump"
  /\ \A w \in Workers : wpc[w] = "failed" \/ (wpc[w] = "idle" /\ ~Left(w))
  /\ main' = "ended"
  /\ child' = IF child = "running" THEN "killed" ELSE child
  /\ UNCHANGED <<workerVars, stdin, stdout, kind, load, heard, owed>>

-----------------------------------------------------------------------------
(* The process *)

Replies(v) ==
  CASE kind = "chatty" -> Line(v) \o Line(v)
    [] kind = "hoards" -> IF heard = <<>> THEN <<>> ELSE heard \o Line(v)
    [] OTHER -> Line(v)

\* All but "streams" read on only when they have written what they owe, and
\* reply to the last cell of a line.
ChildReads ==
  /\ child = "running" /\ stdin # <<>> /\ owed = <<>>
  /\ LET c == Head(stdin)
     IN /\ owed' = IF kind = "streams" THEN <<c>> ELSE IF IsEnd(c) THEN Replies(c[1]) ELSE <<>>
        /\ heard' = IF kind = "hoards" /\ IsEnd(c) /\ heard = <<>> THEN Line(c[1])
                    ELSE IF IsEnd(c) THEN <<>> ELSE heard
  /\ stdin' = Tail(stdin)
  /\ UNCHANGED <<workerVars, stdout, child, kind, load, main>>

ChildWrites ==
  /\ child = "running" /\ owed # <<>> /\ Len(stdout) < PipeCells
  /\ stdout' = Append(stdout, Head(owed))
  /\ owed' = Tail(owed)
  /\ UNCHANGED <<workerVars, stdin, child, kind, load, heard, main>>

\* It may die at any point, in the middle of a line too.
ChildExits ==
  /\ child = "running"
  /\ child' = "exited"
  /\ UNCHANGED <<workerVars, stdin, stdout, kind, load, heard, owed, main>>

Next ==
  \/ Spawn \/ SpawnFails \/ DropTransformer
  \/ \E w \in Workers : Worker(w)
  \/ ChildReads \/ ChildWrites \/ ChildExits

\* Calls return when they can, and a process that can go on does.
Fairness ==
  /\ WF_vars(Spawn \/ SpawnFails) /\ WF_vars(DropTransformer)
  /\ \A w \in Workers : WF_vars(Worker(w))
  /\ WF_vars(ChildReads \/ ChildWrites)

Spec     == Init /\ [][Next]_vars
FairSpec == Spec /\ Fairness

-----------------------------------------------------------------------------
(* Properties *)

\* With a process that answers every line with one line, each value gets its own
\* answer, whichever workers' calls interleave: pairing is by order alone.  What
\* is short of a line is accepted only from a process that died in it, and it is
\* the answer but for its newline or the beginning of a number.
AnswersBelong ==
  kind \in {"lines", "streams"} =>
    \A w \in Workers : \A i \in DOMAIN answers[w] :
      LET v == load[w][i]
      IN \/ answers[w][i] = Line(v)
         \/ /\ child # "running" /\ IsStrictPrefix(answers[w][i], Line(v))
            /\ v \in Numbers \/ Len(answers[w][i]) = Size[v] - 1

\* A value fits the two pipes and what a streaming process holds in between.
Fits(v) == Size[v] <= 2 * PipeCells + 1

Cooperates ==
  \/ kind \in {"lines", "mumbles"}
  \/ kind = "streams" /\ \A w \in Workers : \A i \in DOMAIN load[w] : Fits(load[w][i])

\* Such a process never blocks a worker for ever, in the write, the read or the
\* lock, even if it dies: the dump ends.  Any other kind can.
EveryCallReturns == (main = "dump" /\ Cooperates) ~> main = "ended"
=============================================================================
