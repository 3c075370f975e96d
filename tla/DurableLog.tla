------------------------------ MODULE DurableLog -----------------------------
(***************************************************************************)
(* What one log file promises, with no buffer, frames, sampling or reader: *)
(* entries are appended, now and then everything appended so far is made   *)
(* safe, and when the program stops a prefix survives that holds at least  *)
(* what was safe.  Nothing is reordered and nothing in the middle is lost. *)
(*                                                                         *)
(* LogFile implements this for each of its logs, up to the first failed    *)
(* write that leaves half a frame behind.                                  *)
(***************************************************************************)
EXTENDS Naturals, Sequences

CONSTANT Entries

VARIABLES
  log,      \* the entries appended
  synced,   \* how many of them are safe
  stopped,
  kept      \* how many of them survived, once stopped

vars == <<log, synced, stopped, kept>>

Init ==
  /\ log = <<>>
  /\ synced = 0
  /\ stopped = FALSE
  /\ kept = 0

\* At most one entry comes, behind the others, and possibly all are made
\* safe.
Append1 ==
  /\ ~stopped
  /\ log' \in Seq(Entries)
  /\ Len(log') \in Len(log) .. Len(log) + 1
  /\ SubSeq(log', 1, Len(log)) = log
  /\ synced' \in {synced, Len(log')}
  /\ UNCHANGED <<stopped, kept>>

Stop ==
  /\ ~stopped
  /\ stopped' = TRUE
  /\ kept' \in synced .. Len(log)
  /\ UNCHANGED <<log, synced>>

Next == Append1 \/ Stop

Spec == Init /\ [][Next]_vars
=============================================================================
