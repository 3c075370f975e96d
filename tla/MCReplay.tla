------------------------------ MODULE MCReplay ------------------------------
(***************************************************************************)
(* Instances of Replay for TLC: two functions, two inputs and a policy of  *)
(* each mode.                                                              *)
(***************************************************************************)
EXTENDS ReplayInv, MCValues

MCConfigs ==
  {[tsv |-> TRUE, deep |-> TRUE, only |-> Functions, policy |-> p] :
     p \in {Policy("all", 0, FALSE), Policy("first", 2, FALSE),
            Policy("firstlast", 1, FALSE), Policy("prob", 1, TRUE),
            Policy("prob", 0, FALSE)}}

MCMaxOffers == [f \in Functions |-> IF f = "f" THEN 3 ELSE 1]
MCMaxFailures == [f \in Functions |-> IF f = "f" THEN 1 ELSE 0]

\* Names as integers: file names have an order.
MCPath(f) == IF f = "f" THEN 1 ELSE 2
MCSharedPath(f) == 1

MCAnswer(e) ==
  IF e.seq = 0 THEN "error" ELSE IF e.seq = 1 THEN "match" ELSE "mismatch"
=============================================================================
