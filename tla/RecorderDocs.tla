---------------------------- MODULE RecorderDocs ----------------------------
(***************************************************************************)
(* What the documentation says of the Rust recorder and the code does not  *)
(* keep, stated where nothing the documentation mentions excuses the       *)
(* recorder.                                                               *)
(***************************************************************************)
EXTENDS Recorder

(***************************************************************************)
(* flush_all is to be called "before exit when using `firstlast:' or       *)
(* `prob:' with `keep_last'" (src/src/deep/mod.rs:152).  Under the other   *)
(* policies, then, an entry a row points at is in its file after exit.  It *)
(* is not: the entry is in a BufWriter inside a static, never flushed.     *)
(***************************************************************************)
RowsResolveAfterExit ==
  ~alive /\ ~KeepsLast(config.policy) =>
    \A i \in DOMAIN rows :
      rows[i].deep_seq # None =>
        EntriesAt(rows[i].call.fn, rows[i].deep_seq)
          \subseteq OnDisk(rows[i].call.fn)
=============================================================================
