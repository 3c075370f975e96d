------------------------------ MODULE MCTwoRuns -----------------------------
(***************************************************************************)
(* An instance of TwoRuns for TLC: two threads with up to two calls each   *)
(* of f with two inputs, and g, whose outputs may differ from one call to  *)
(* the next with the same input; and, with no program, every pair of       *)
(* traces of up to three lines, where one line of f is torn.               *)
(***************************************************************************)
EXTENDS TwoRunsInv

fx == <<"f", "x">>
fy == <<"f", "y">>
gx == <<"g", "x">>

MCThreads == {1, 2}

MCPrograms == [MCThreads -> {<<fx>>, <<fx, fy>>, <<fx, fx>>, <<fy, gx>>}]

\* A thread gets p from its first call, from its second one, or never.
MCImplementations ==
  LET both(a, b) == [t \in MCThreads |-> IF t = 1 THEN a ELSE b]
      oo == <<"o", "o">>
      op == <<"o", "p">>
      po == <<"p", "o">>
  IN  {both(oo, oo), both(op, oo), both(po, oo), both(oo, po), both(op, po)}
-----------------------------------------------------------------------------
MCLine(f, i, o) == [fn |-> f, input |-> i, output |-> o, whole |-> TRUE]

MCLines ==
  {MCLine("f", "x", "o"), MCLine("f", "x", "p"), MCLine("f", "y", "o"),
   MCLine("g", "x", "o"), [MCLine("f", "x", "o") EXCEPT !.whole = FALSE]}

MCTraces == UNION {[1 .. n -> MCLines] : n \in 0 .. 3}

MCTracePairs == MCTraces \X MCTraces

MCOption(only, skip, first, summary) ==
  [only |-> only, skip |-> skip, first |-> first, summary_only |-> summary]

MCAllOptions ==
  {MCOption({}, {}, 2, FALSE), MCOption({"f"}, {}, 0, FALSE),
   MCOption({"f", "g"}, {"g"}, 1, TRUE)}
=============================================================================
