----------------------------- MODULE MCCRecorder ----------------------------
(***************************************************************************)
(* Small instances of CRecorder for TLC.  In the runs where each function  *)
(* belongs to one thread, Uses gives thread 1 f and thread 2 g; in the     *)
(* others both threads call both.                                          *)
(***************************************************************************)
EXTENDS CRecorderInv, MCValues

MCThreads == 1 .. 2

Shared == [t \in MCThreads |-> Functions]
Owned  == [t \in MCThreads |-> IF t = 1 THEN {"f"} ELSE {"g"}]

Mode(all, n) == [tsv |-> TRUE, deep |-> TRUE, mode_all |-> all, first_n |-> n]

MCConfigs ==
  {Mode(TRUE, 100), Mode(FALSE, 0), Mode(FALSE, 1), Mode(FALSE, 2),
   [Mode(TRUE, 100) EXCEPT !.tsv = FALSE],
   [Mode(TRUE, 100) EXCEPT !.deep = FALSE],
   [Mode(TRUE, 100) EXCEPT !.tsv = FALSE, !.deep = FALSE]}
=============================================================================
