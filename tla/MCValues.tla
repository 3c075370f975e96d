------------------------------ MODULE MCValues ------------------------------
(***************************************************************************)
(* Values the MC modules give to the constants of Capture: inputs x and y  *)
(* by a typed helper, and the input x with one more field that the deep    *)
(* entry does not capture.                                                 *)
(***************************************************************************)
Arg(v)   == [kind |-> "arg", v |-> v]
Field(v) == [kind |-> "field", v |-> v]

MCInputs  == {<<Arg("x")>>, <<Arg("y")>>, <<Arg("x"), Field("z")>>}
MCTwoInputs == {<<Arg("x")>>, <<Arg("y")>>}
MCOutputs == {<<Arg("o")>>}

\* Hashes do not collide on these inputs.
MCContentHash(view) == view

Policy(mode, n, last) == [mode |-> mode, n |-> n, keep_last |-> last]
=============================================================================
