----------------------------- MODULE TwoRunsInv -----------------------------
(***************************************************************************)
(* An inductive invariant of TwoRuns: whatever the order of its rows, a    *)
(* recording has the calls its threads have finished, as often as they     *)
(* have finished them, and two whole recordings have the same inputs; and  *)
(* the rows of an input only one thread gives are in the order of its      *)
(* calls.                                                                  *)
(***************************************************************************)
EXTENDS TwoRuns, CompareInv

\* The calls finished: which thread's, and the how manieth of that thread.
CallsDone(finished) == UNION {{t} \X (1 .. finished[t]) : t \in Threads}

\* Those that gave the output o for this key ...
CallsWith(impl, finished, key, o) ==
  {ti \in CallsDone(finished) :
     program[ti[1]][ti[2]] = key /\ impl[ti[1]][ti[2]] = o}

\* ... and the rows that say so.
RowsSaying(trace, key, o) ==
  {i \in DOMAIN trace : KeyOf(trace[i]) = key /\ trace[i].output = o}

\* No thread but t has calls with this key.
OnlyOf(t, key) == \A u \in Threads : CallsOf(u, key) # {} => u = t

\* The first of the calls, and of the rows, with this key.
CallsUpTo(t, key, n) == {c \in CallsOf(t, key) : c <= n}

LinesUpTo(trace, key, n) == {i \in DOMAIN trace : KeyOf(trace[i]) = key /\ i <= n}

\* The n-th row of a key is of the n-th call with it, if one thread has all.
OrderInv(trace, impl, finished) ==
  \A key \in AllKeys : \A t \in Threads : OnlyOf(t, key) =>
    /\ Cardinality(LinesUpTo(trace, key, Len(trace)))
         = Cardinality(CallsUpTo(t, key, finished[t]))
    /\ \A i \in DOMAIN trace : KeyOf(trace[i]) = key =>
         \E c \in CallsUpTo(t, key, finished[t]) :
           /\ impl[t][c] = trace[i].output
           /\ Cardinality(CallsUpTo(t, key, c))
                = Cardinality(LinesUpTo(trace, key, i))

RecordingInv(trace, impl, finished) ==
  /\ \A i \in DOMAIN trace : trace[i].whole
  /\ IsFiniteSet(CallsDone(finished))
  /\ Cardinality(CallsDone(finished)) = Len(trace)
  /\ \A key \in AllKeys : \A o \in OutputHashes :
       Cardinality(RowsSaying(trace, key, o))
         = Cardinality(CallsWith(impl, finished, key, o))
  /\ OrderInv(trace, impl, finished)

ProgramInv ==
  program # NoProgram =>
    /\ RecordingInv(left, impl_left, done_left)
    /\ RecordingInv(right, impl_right, done_right)
    /\ missing = 0
    /\ \A f \in Functions : by_function[f].missing = 0

(***************************************************************************)
(* The inductive invariant: the rows that the threads' finish has written  *)
(* (src/src/lib.rs:709) are those of their calls, and what                 *)
(* tracehash-compare has counted of them is right.                         *)
(***************************************************************************)
RInv ==
  /\ CInv
  /\ RunsTypeOK
  /\ pc # "read" => Recorded
  /\ ProgramInv
=============================================================================
