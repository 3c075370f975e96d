----------------------------- MODULE CompareInv -----------------------------
(***************************************************************************)
(* An inductive invariant of Compare: what its tallies say of the keys the *)
(* comparisons have come to so far.                                        *)
(***************************************************************************)
EXTENDS Compare

Keys == KeysOf(left) \cup KeysOf(right)

\* The keys compare_occurrences and compare_pairs have come to.
OccurrencesSeen ==
  IF pc = "read" THEN {} ELSE IF pc = "occurrences" THEN Keys \ todo ELSE Keys

PairsSeen == IF pc \in {"pairs", "done"} THEN Keys \ todo ELSE {}

Differing(keys) == {key \in keys : DifferingAt(key) # {}}

Unequal(keys) == {key \in keys : OutputsDiffer(key)}

\* Every key with a difference was counted once or more, no other one was.
DifferencesInv ==
  /\ Cardinality(Differing(OccurrencesSeen)) <= differences
  /\ differences > 0 => Differing(OccurrencesSeen) # {}

\* Every key with unequal outputs was counted once, and under its function.
PairsInv ==
  /\ missing + mismatched = Cardinality(Unequal(PairsSeen))
  /\ \A f \in Functions :
       Listed(f) <=> \E key \in Unequal(PairsSeen) : key[1] = f

\* A comparison that found something has set the status, nothing else has.
StatusInv ==
  /\ status = 1 => ~SameTraces
  /\ pc \in {"pairs", "done"} /\ differences # 0 => status = 1

PrintedInv ==
  /\ printed <= differences
  /\ ~options.summary_only /\ printed < options.first => printed = differences

(***************************************************************************)
(* The inductive invariant: what main, compare_occurrences and             *)
(* compare_pairs (src/src/bin/tracehash-compare.rs:25) have counted and    *)
(* decided is right for the keys they have come to.                        *)
(***************************************************************************)
CInv ==
  /\ TypeOK
  /\ todo \subseteq Keys
  /\ pc = "read" => status = 0
  /\ pc \in {"read", "done"} => todo = {}
  /\ status = 2 => pc = "done"
  /\ status # 2 => DifferencesInv /\ PairsInv /\ StatusInv
  /\ PrintedInv
=============================================================================
