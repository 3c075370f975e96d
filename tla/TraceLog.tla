------------------------------ MODULE TraceLog ------------------------------
(***************************************************************************)
(* What the recorder promises (src/src/lib.rs:1-11), with no locks,        *)
(* counters, buffers or sampling: a finished call becomes, in one step,    *)
(* one row with a number no other row has and, if the recorder kept it,    *)
(* one entry of its function's log that only this row points at and that   *)
(* holds what the probe captured of this very call.                        *)
(*                                                                         *)
(* Recorder implements this specification under a refinement mapping.      *)
(***************************************************************************)
CONSTANTS
  Threads,
  Functions,
  Calls,     \* records with a field fn
  View(_),   \* what of a call the deep entry holds
  Numbers,   \* numbers of rows and of entries
  Absent     \* stands for the entry a row does not have

VARIABLES
  tracing,   \* rows are written at all
  busy,      \* the threads that have a call open
  current,   \* the call each thread has open, or had last
  table,     \* the set of rows
  entries    \* for each function, its entries that have a row

vars == <<tracing, busy, current, table, entries>>

Row(n, c, e) == [seq |-> n, call |-> c, deep_seq |-> e]

Init ==
  /\ tracing \in BOOLEAN
  /\ busy = {}
  /\ current \in [Threads -> Calls]
  /\ table = {}
  /\ entries = [f \in Functions |-> {}]

Begin(t) ==
  /\ t \notin busy
  /\ busy' = busy \cup {t}
  /\ \E c \in Calls : current' = [current EXCEPT ![t] = c]
  /\ UNCHANGED <<tracing, table, entries>>

Fresh(n) == \A r \in table : r.seq # n

FreshEntry(f, k) == \A e \in entries[f] : e.seq # k

\* The open call of t becomes a row without an entry, or with a new one.
Finish(t) ==
  LET c == current[t] IN
  /\ tracing
  /\ t \in busy
  /\ busy' = busy \ {t}
  /\ \E n \in Numbers :
       /\ Fresh(n)
       /\ \/ /\ table' = table \cup {Row(n, c, Absent)}
             /\ UNCHANGED entries
          \/ \E k \in Numbers :
               /\ FreshEntry(c.fn, k)
               /\ table' = table \cup {Row(n, c, k)}
               /\ entries' = [entries EXCEPT ![c.fn] =
                                @ \cup {[seq |-> k, view |-> View(c)]}]
  /\ UNCHANGED <<tracing, current>>

\* No TSV file: a finished call leaves no row.
FinishUntraced(t) ==
  /\ ~tracing
  /\ t \in busy
  /\ busy' = busy \ {t}
  /\ UNCHANGED <<tracing, current, table, entries>>

Next == \E t \in Threads : Begin(t) \/ Finish(t) \/ FinishUntraced(t)

Spec == Init /\ [][Next]_vars
=============================================================================
