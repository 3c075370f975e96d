------------------------------- MODULE TwoRuns ------------------------------
(***************************************************************************)
(* From two recordings to a verdict: one program is run with a left and a  *)
(* right implementation of its functions, its threads write their rows in  *)
(* whatever order they finish, and Compare compares the two files.         *)
(*                                                                         *)
(* A row is written in one step, as Recorder and CRecorder show; only the  *)
(* columns Compare looks at are kept.  With no program to run, the two     *)
(* files are given: any of TracePairs.                                     *)
(***************************************************************************)
EXTENDS Compare

CONSTANTS
  Threads,
  Programs,        \* the calls each thread makes, in order
  Implementations  \* the output each thread gets from each of its calls, in
                   \* order: a function may remember the calls before

ASSUME TwoRunsAssumption ==
  /\ Programs \subseteq [Threads -> Seq(AllKeys)]
  /\ Implementations \subseteq [Threads -> Seq(OutputHashes)]
  /\ Implementations # {}
  /\ \A p \in Programs, impl \in Implementations, t \in Threads :
       Len(p[t]) <= Len(impl[t])

VARIABLES
  program,     \* the program, the same for both runs
  impl_left, impl_right,
  done_left, done_right  \* how many calls each thread has finished

programVars == <<program, impl_left, impl_right>>
runVars == <<programVars, done_left, done_right>>

NoProgram == [t \in Threads |-> <<>>]

RunsTypeOK ==
  /\ TypeOK
  /\ program \in Programs \cup {NoProgram}
  /\ impl_left \in Implementations
  /\ impl_right \in Implementations
  /\ done_left \in [Threads -> Nat]
  /\ done_right \in [Threads -> Nat]
  /\ \A t \in Threads : /\ done_left[t] <= Len(program[t])
                        /\ done_right[t] <= Len(program[t])

RunsInit ==
  /\ Init
  /\ \/ /\ program \in Programs
        /\ left = <<>> /\ right = <<>>
        /\ impl_left \in Implementations
        /\ impl_right \in Implementations
     \/ /\ program = NoProgram
        /\ impl_left = CHOOSE impl \in Implementations : TRUE
        /\ impl_right = impl_left
  /\ done_left = [t \in Threads |-> 0]
  /\ done_right = [t \in Threads |-> 0]

\* The row of thread t's next call.
NextRow(impl, finished, t) ==
  LET n   == finished[t] + 1
      key == program[t][n]
  IN  [fn |-> key[1], input |-> key[2], output |-> impl[t][n], whole |-> TRUE]

FinishLeft(t) ==
  /\ done_left[t] < Len(program[t])
  /\ left' = Append(left, NextRow(impl_left, done_left, t))
  /\ done_left' = [done_left EXCEPT ![t] = @ + 1]
  /\ UNCHANGED <<programVars, done_right, options, right, pc, todo, tallies,
                 status>>

FinishRight(t) ==
  /\ done_right[t] < Len(program[t])
  /\ right' = Append(right, NextRow(impl_right, done_right, t))
  /\ done_right' = [done_right EXCEPT ![t] = @ + 1]
  /\ UNCHANGED <<programVars, done_left, options, left, pc, todo, tallies,
                 status>>

Recorded ==
  \A t \in Threads :
    done_left[t] = Len(program[t]) /\ done_right[t] = Len(program[t])

RunsNext ==
  \/ \E t \in Threads : FinishLeft(t) \/ FinishRight(t)
  \/ Recorded /\ Next /\ UNCHANGED runVars

RunsSpec == RunsInit /\ [][RunsNext]_<<vars, runVars>>
-----------------------------------------------------------------------------
\* A program was run and its recordings are compared.
RunsCompared == Compared /\ program # NoProgram

KeptKeys == {key \in AllKeys : \E i \in KeptAt(left) : KeyOf(left[i]) = key}

\* The calls of thread t with this key.
CallsOf(t, key) == {c \in DOMAIN program[t] : program[t][c] = key}

\* An output is a function of the input: no thread, no earlier call matters.
Pure(impl) ==
  \A key \in KeptKeys : \A t, u \in Threads :
    \A c \in CallsOf(t, key), d \in CallsOf(u, key) : impl[t][c] = impl[u][d]

\* Each call gets the same output from both implementations.
SameAnswers ==
  \A key \in KeptKeys : \A t \in Threads : \A c \in CallsOf(t, key) :
    impl_left[t][c] = impl_right[t][c]

\* How many calls of the program with this key give the output o.
Expected(impl, key, o) ==
  Cardinality({ti \in {<<t, i>> : t \in Threads, i \in 1 .. Len(left)} :
     /\ ti[2] <= Len(program[ti[1]])
     /\ program[ti[1]][ti[2]] = key
     /\ impl[ti[1]][ti[2]] = o})

\* No input is given to a function by two threads.
OneThreadAtATime ==
  \A key \in KeptKeys : \A t, u \in Threads :
    CallsOf(t, key) # {} /\ CallsOf(u, key) # {} => t = u

(***************************************************************************)
(* "Thread order is not globally stable.  The comparator does not compare  *)
(* global row order" (src/README.md:582): two runs of implementations that *)
(* agree, and whose outputs depend on the inputs only, match, in whatever  *)
(* order each run's threads wrote their rows.                              *)
(***************************************************************************)
AgreeingRunsMatch ==
  RunsCompared /\ Pure(impl_left) /\ Pure(impl_right) /\ SameAnswers
    => status = 0

(***************************************************************************)
(* No order of the rows hides a real difference: when some input gives     *)
(* some output more often with one implementation, the exit status is 1    *)
(* and the summary lists the function.  (Outputs that come equally often,  *)
(* in another order, are no mismatch of the summary.)                      *)
(***************************************************************************)
RealDifferenceListed ==
  RunsCompared =>
    \A key \in KeptKeys :
      (\E o \in OutputHashes :
         Expected(impl_left, key, o) # Expected(impl_right, key, o))
      => status = 1 /\ by_function[key[1]].mismatched > 0

(***************************************************************************)
(* The occurrence-level report "is intended for deterministic single       *)
(* thread runs or for probes whose same-input occurrence order is          *)
(* meaningful" (src/README.md:582): where no two threads give a function   *)
(* the same input, each call is compared with itself, whatever the other   *)
(* threads did meanwhile and whatever a function remembers of the calls    *)
(* before.  The exit status is 0 exactly if every call got the same output *)
(* in both runs.  No input is reported missing, in any case.               *)
(***************************************************************************)
CallsComparedWithThemselves ==
  RunsCompared =>
    /\ missing = 0
    /\ OneThreadAtATime => (status = 0 <=> SameAnswers)
=============================================================================
