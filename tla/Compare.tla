------------------------------- MODULE Compare ------------------------------
(***************************************************************************)
(* tracehash-compare (src/src/bin/tracehash-compare.rs): read two TSV      *)
(* traces, keep the functions asked for, and compare the rows three ways:  *)
(* calls per function, the n-th call with a given input, and the outputs   *)
(* seen for a given input.                                                 *)
(*                                                                         *)
(* The rows of one key (function and input hash) are compared in one step. *)
(* The keys come in any order: the code sorts them, which only orders what *)
(* it prints.  What it prints is left out but for how much of it.          *)
(***************************************************************************)
EXTENDS Integers, Sequences, FiniteSets

CONSTANTS
  Functions,
  InputHashes,
  OutputHashes,
  AllOptions,   \* command lines
  TracePairs    \* pairs of files to compare

\* A line of a trace.  `whole' is false of a line with fewer than 12 columns:
\* an empty one, or the last one of a recorder that was killed.
Line == [fn : Functions, input : InputHashes, output : OutputHashes,
         whole : BOOLEAN]

Options == [only : SUBSET Functions, skip : SUBSET Functions, first : Nat,
            summary_only : BOOLEAN]

ASSUME CompareAssumption ==
  /\ AllOptions \subseteq Options
  /\ TracePairs \subseteq Seq(Line) \X Seq(Line)

VARIABLES
  options,
  left, right,  \* the lines of the two files
  pc,           \* which comparison is running
  todo,         \* the keys it has not come to
  differences,  \* compare_occurrences: occurrences that differ
  printed,      \* compare_occurrences: differences printed in full
  missing,      \* compare_pairs: keys one side does not have
  mismatched,   \* compare_pairs: keys with different outputs
  by_function,  \* compare_pairs: missing and mismatched of each function
  status        \* the exit status

inputVars == <<options, left, right>>
tallies == <<differences, printed, missing, mismatched, by_function>>
vars == <<inputVars, pc, todo, tallies, status>>

AllKeys == Functions \X InputHashes

TypeOK ==
  /\ options \in Options
  /\ left \in Seq(Line)
  /\ right \in Seq(Line)
  /\ pc \in {"read", "occurrences", "pairs", "done"}
  /\ todo \in SUBSET AllKeys
  /\ differences \in Nat
  /\ printed \in Nat
  /\ missing \in Nat
  /\ mismatched \in Nat
  /\ by_function \in [Functions -> [missing : Nat, mismatched : Nat]]
  /\ status \in {0, 1, 2}

\* main has parsed its arguments; every counter is 0.
Init ==
  /\ options \in AllOptions
  /\ \E pair \in TracePairs : left = pair[1] /\ right = pair[2]
  /\ pc = "read"
  /\ todo = {}
  /\ differences = 0
  /\ printed = 0
  /\ missing = 0
  /\ mismatched = 0
  /\ by_function = [f \in Functions |-> [missing |-> 0, mismatched |-> 0]]
  /\ status = 0
-----------------------------------------------------------------------------
\* The lines read_rows does not skip and filter_rows retains.
Kept(line) ==
  /\ line.whole
  /\ options.only = {} \/ line.fn \in options.only
  /\ line.fn \notin options.skip

KeptAt(trace) == {i \in DOMAIN trace : Kept(trace[i])}

KeyOf(line) == <<line.fn, line.input>>

KeysOf(trace) == {KeyOf(trace[i]) : i \in KeptAt(trace)}

\* occurrence_map: the rows of a key, and which of them row i is.
RowsOf(trace, key) == {i \in KeptAt(trace) : KeyOf(trace[i]) = key}

\* Mutant of Occurrence: numbered by the rows of the function.
OccurrenceInFunction(trace, i) ==
  Cardinality({j \in KeptAt(trace) : trace[j].fn = trace[i].fn /\ j <= i})

Occurrence(trace, i) ==
  Cardinality({j \in RowsOf(trace, KeyOf(trace[i])) : j <= i})

\* The output of the n-th row of a key: at most one.
NthOutput(trace, key, n) ==
  {trace[i].output :
     i \in {j \in RowsOf(trace, key) : Occurrence(trace, j) = n}}

\* max_len: as many rows as the side with more of them has.
MostRows(key) ==
  LET l == Cardinality(RowsOf(left, key))
      r == Cardinality(RowsOf(right, key))
  IN  IF l >= r THEN l ELSE r

\* Occurrences with different outputs, or that one side does not have.
DifferingAt(key) ==
  {n \in 1 .. MostRows(key) :
     NthOutput(left, key, n) # NthOutput(right, key, n)}

\* compare_counts: the calls of a function.
CountOf(trace, f) == Cardinality({i \in KeptAt(trace) : trace[i].fn = f})

CountsDiffer == \E f \in Functions : CountOf(left, f) # CountOf(right, f)

\* pair_map: how often each output was seen for a key.
OutputCount(trace, key, o) ==
  Cardinality({i \in RowsOf(trace, key) : trace[i].output = o})

OutputsDiffer(key) ==
  \E o \in OutputHashes :
    OutputCount(left, key, o) # OutputCount(right, key, o)
-----------------------------------------------------------------------------
\* A file cannot be opened, or holds a line that is not UTF-8.
ReadFails ==
  /\ pc = "read"
  /\ pc' = "done"
  /\ status' = 2
  /\ UNCHANGED <<inputVars, todo, tallies>>

\* Mutant of ReadAndCount: the calls are counted before the filter.
ReadAndCountAll ==
  /\ pc = "read"
  /\ pc' = "occurrences"
  /\ todo' = KeysOf(left) \cup KeysOf(right)
  /\ status' = IF Len(left) # Len(right) THEN 1 ELSE status
  /\ UNCHANGED <<inputVars, tallies>>

\* read_rows and filter_rows of both files, then compare_counts.
ReadAndCount ==
  /\ pc = "read"
  /\ pc' = "occurrences"
  /\ todo' = KeysOf(left) \cup KeysOf(right)
  /\ status' = IF CountsDiffer THEN 1 ELSE status
  /\ UNCHANGED <<inputVars, tallies>>

\* How many differences are printed when there are n more.
PrintedAfter(n) ==
  IF options.summary_only THEN printed
  ELSE IF printed + n <= options.first THEN printed + n ELSE options.first

\* Mutant of CompareOccurrences: only differences that are printed count.
CompareOccurrencesPrinted(key) ==
  /\ pc = "occurrences"
  /\ key \in todo
  /\ todo' = todo \ {key}
  /\ printed' = PrintedAfter(Cardinality(DifferingAt(key)))
  /\ differences' = printed'
  /\ UNCHANGED <<inputVars, pc, missing, mismatched, by_function, status>>

\* compare_occurrences, the rows of one key.
CompareOccurrences(key) ==
  LET new == Cardinality(DifferingAt(key)) IN
  /\ pc = "occurrences"
  /\ key \in todo
  /\ todo' = todo \ {key}
  /\ differences' = differences + new
  /\ printed' = PrintedAfter(new)
  /\ UNCHANGED <<inputVars, pc, missing, mismatched, by_function, status>>

EndOccurrences ==
  /\ pc = "occurrences"
  /\ todo = {}
  /\ pc' = "pairs"
  /\ todo' = KeysOf(left) \cup KeysOf(right)
  /\ status' = IF differences # 0 THEN 1 ELSE status
  /\ UNCHANGED <<inputVars, tallies>>

\* Mutant of MissingPair: a missing input is a mismatch as well.
MissingPairMismatched(key) ==
  /\ pc = "pairs"
  /\ key \in todo \ (KeysOf(left) \cap KeysOf(right))
  /\ todo' = todo \ {key}
  /\ missing' = missing + 1
  /\ mismatched' = mismatched + 1
  /\ by_function' = [by_function EXCEPT ![key[1]].missing = @ + 1]
  /\ UNCHANGED <<inputVars, pc, differences, printed, status>>

\* compare_pairs, a key that one side does not have.
MissingPair(key) ==
  /\ pc = "pairs"
  /\ key \in todo \ (KeysOf(left) \cap KeysOf(right))
  /\ todo' = todo \ {key}
  /\ missing' = missing + 1
  /\ by_function' = [by_function EXCEPT ![key[1]].missing = @ + 1]
  /\ UNCHANGED <<inputVars, pc, differences, printed, mismatched, status>>

\* compare_pairs, a key that both sides have: with different outputs ...
MismatchedPair(key) ==
  /\ pc = "pairs"
  /\ key \in todo \cap KeysOf(left) \cap KeysOf(right)
  /\ OutputsDiffer(key)
  /\ todo' = todo \ {key}
  /\ mismatched' = mismatched + 1
  /\ by_function' = [by_function EXCEPT ![key[1]].mismatched = @ + 1]
  /\ UNCHANGED <<inputVars, pc, differences, printed, missing, status>>

\* Mutant of EqualPair: it is enough that the same outputs were seen.
EqualPairSets(key) ==
  /\ pc = "pairs"
  /\ key \in todo \cap KeysOf(left) \cap KeysOf(right)
  /\ \A o \in OutputHashes :
       OutputCount(left, key, o) > 0 <=> OutputCount(right, key, o) > 0
  /\ todo' = todo \ {key}
  /\ UNCHANGED <<inputVars, pc, tallies, status>>

\* ... or with the same ones.
EqualPair(key) ==
  /\ pc = "pairs"
  /\ key \in todo \cap KeysOf(left) \cap KeysOf(right)
  /\ ~OutputsDiffer(key)
  /\ todo' = todo \ {key}
  /\ UNCHANGED <<inputVars, pc, tallies, status>>

EndPairs ==
  /\ pc = "pairs"
  /\ todo = {}
  /\ pc' = "done"
  /\ status' = IF missing + mismatched # 0 THEN 1 ELSE status
  /\ UNCHANGED <<inputVars, todo, tallies>>

Exited == pc = "done" /\ UNCHANGED vars

ComparePairs(key) == MissingPair(key) \/ MismatchedPair(key) \/ EqualPair(key)

Next ==
  \/ ReadFails
  \/ ReadAndCount
  \/ \E key \in AllKeys : CompareOccurrences(key) \/ ComparePairs(key)
  \/ EndOccurrences
  \/ EndPairs
  \/ Exited

Spec == Init /\ [][Next]_vars
-----------------------------------------------------------------------------
\* The reference for occurrence_map: go through the rows in file order, push
\* the output of each row of the key on a list.
OutputList(trace, key) ==
  LET list[n \in 0 .. Len(trace)] ==
        IF n = 0 THEN <<>>
        ELSE IF Kept(trace[n]) /\ KeyOf(trace[n]) = key
             THEN Append(list[n - 1], trace[n].output)
        ELSE list[n - 1]
  IN  list[Len(trace)]

ListExact(trace, key) ==
  LET list == OutputList(trace, key)
  IN  \A n \in 1 .. Len(trace) + 1 :
        NthOutput(trace, key, n) = IF n <= Len(list) THEN {list[n]} ELSE {}

(***************************************************************************)
(* Rows are paired by their place in the lists of occurrence_map: the n-th *)
(* row of a key is the n-th of its list, and there is none behind the end. *)
(* (The traces read do not change any more.)                               *)
(***************************************************************************)
OccurrencesExact ==
  pc = "read" =>
    \A key \in AllKeys : ListExact(left, key) /\ ListExact(right, key)

Compared == pc = "done" /\ status # 2

\* Both sides have the same outputs for this key, in the same order.
SameOutputs(key) ==
  \A n \in 1 .. Len(left) + Len(right) :
    NthOutput(left, key, n) = NthOutput(right, key, n)

SameTraces == \A key \in AllKeys : SameOutputs(key)

\* A line of the summary for this function.
Listed(f) == by_function[f].missing + by_function[f].mismatched # 0

(***************************************************************************)
(* Nothing goes unreported: when some function kept has an input whose     *)
(* outputs are not the same, in the same order, on both sides, the exit    *)
(* status is not 0.                                                        *)
(***************************************************************************)
DivergenceReported == pc = "done" /\ ~SameTraces => status # 0

(***************************************************************************)
(* No false alarm: where the occurrences agree, the counts per function    *)
(* and the outputs per input agree as well, so the exit status is 0.       *)
(***************************************************************************)
EqualTracesPass == Compared /\ SameTraces => status = 0

(***************************************************************************)
(* A function is listed under "pair differences by function" exactly when  *)
(* for one of its inputs some output was seen more often on one side.      *)
(***************************************************************************)
ListedFunctionsDiffer ==
  Compared =>
    \A f \in Functions :
      Listed(f) <=> \E input \in InputHashes : OutputsDiffer(<<f, input>>)

(***************************************************************************)
(* The summary is consistent: each input it counts as missing or           *)
(* mismatched accounts for an occurrence difference of its own, and        *)
(* `differences - printed', an unsigned subtraction in the code, does not  *)
(* go below 0 and is 0 unless the limit or --summary-only withheld some.   *)
(***************************************************************************)
SummaryConsistent ==
  /\ Compared => missing + mismatched <= differences
  /\ printed <= differences
  /\ ~options.summary_only /\ printed < options.first => printed = differences
=============================================================================
