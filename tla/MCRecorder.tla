----------------------------- MODULE MCRecorder -----------------------------
(***************************************************************************)
(* Small instances of Recorder for TLC.                                    *)
(***************************************************************************)
EXTENDS RecorderDocs, RecorderInv, MCValues, TLC

On(policy) == [tsv |-> TRUE, deep |-> TRUE, only |-> Functions,
               policy |-> policy]

All == On(Policy("all", 0, FALSE))

\* Each sampling mode, and mode all with parts of the recorder off.
MCConfigs ==
  {All, On(Policy("first", 1, FALSE)), On(Policy("firstlast", 1, FALSE)),
   On(Policy("prob", 0, TRUE)),
   [All EXCEPT !.tsv = FALSE], [All EXCEPT !.deep = FALSE],
   [All EXCEPT !.tsv = FALSE, !.deep = FALSE], [All EXCEPT !.only = {}]}

\* Two calls recorded or deduplicated, then last calls kept.
MCFirstLast == {On(Policy("firstlast", 2, FALSE))}

Symmetry == Permutations(Threads)
=============================================================================
