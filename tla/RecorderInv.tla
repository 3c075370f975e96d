----------------------------- MODULE RecorderInv ----------------------------
(***************************************************************************)
(* An inductive invariant of Recorder, from which the numbering of rows    *)
(* and the meaning of deep_seq follow.  TLC checks it as an invariant of   *)
(* the small instances; RecorderProofs proves it inductive.                *)
(***************************************************************************)
EXTENDS Recorder, FiniteSets

(***************************************************************************)
(* The numbers 0 .. SEQ-1 are spread, each once, over the rows and the     *)
(* threads that have taken a number and not written their row.             *)
(***************************************************************************)
NumbersInv ==
  /\ \A i \in DOMAIN rows : rows[i].seq < SEQ
  /\ \A i, j \in DOMAIN rows : rows[i].seq = rows[j].seq => i = j
  /\ \A t \in Threads : InFinish(t) =>
       /\ seq[t] < SEQ
       /\ \A i \in DOMAIN rows : rows[i].seq # seq[t]
       /\ \A u \in Threads : InFinish(u) /\ seq[u] = seq[t] => u = t
  /\ config.tsv => \A n \in 0 .. SEQ - 1 :
       \/ \E i \in DOMAIN rows : rows[i].seq = n
       \/ \E t \in Threads : InFinish(t) /\ seq[t] = n

\* In these files, the log of c's function has an entry numbered n that is
\* the record of c.
ResolvesIn(files, c, n) ==
  \E k \in DOMAIN files[c.fn] :
    files[c.fn][k].seq = n /\ Matches(files[c.fn][k], c)

\* t has recorded an entry and is about to write the row that points at it.
Holds(t) == pc[t] = "row" /\ deep_seq[t] # None

(***************************************************************************)
(* Each deep_seq, in a row or on its way into one, resolves to the entry   *)
(* of its own call, and no two of one function are the same.               *)
(***************************************************************************)
PointersInv ==
  /\ \A i \in DOMAIN rows : rows[i].deep_seq # None =>
       /\ ResolvesIn(file, rows[i].call, rows[i].deep_seq)
       /\ \A j \in DOMAIN rows :
            rows[j].call.fn = rows[i].call.fn
              /\ rows[j].deep_seq = rows[i].deep_seq => j = i
  /\ \A t \in Threads :
       /\ pc[t] \in Finishing \ {"row"} => deep_seq[t] = None
       /\ Holds(t) =>
            /\ ResolvesIn(file, call[t], deep_seq[t])
            /\ \A i \in DOMAIN rows :
                 rows[i].call.fn = call[t].fn => rows[i].deep_seq # deep_seq[t]
            /\ \A u \in Threads :
                 Holds(u) /\ call[u].fn = call[t].fn
                   /\ deep_seq[u] = deep_seq[t] => u = t

(***************************************************************************)
(* What went into last_buffer has been counted; what is there now did.     *)
(***************************************************************************)
KeptInv ==
  \A f \in Functions :
    /\ \A n \in kept[f] : n < seq_counter[f]
    /\ last_buffer[f] # <<>> => last_buffer[f][1].seq \in kept[f]

\* The entries row i points at have left the BufWriter.
RowOnDisk(i) ==
  EntriesAt(rows[i].call.fn, rows[i].deep_seq) \subseteq OnDisk(rows[i].call.fn)

\* The flush_all of t has yet to flush the log of f, or could not.
Unflushed(t, f) ==
  \/ pc[t] = "flush_registry"
  \/ f \in pending[t] \cup missed[t]
  \/ pc[t] \in {"flush_log", "flush_write"} /\ f = target[t]

(***************************************************************************)
(* A flush_all that is under way has made the rows that were there when it *)
(* began safe, but for the logs it has yet to come to or could not flush;  *)
(* and it comes to every log that holds anything, since those are all in   *)
(* the registry.                                                           *)
(***************************************************************************)
DiskInv ==
  /\ \A f \in Functions :
       file[f] # <<>> \/ last_buffer[f] # <<>> => f \in logs
  /\ \A t \in Threads :
       /\ pc[t] \in {"log", "record"} => call[t].fn \in logs
       /\ pc[t] \in Flushing =>
            /\ at_flush[t] <= Len(rows)
            /\ \A i \in 1 .. at_flush[t] : rows[i].deep_seq # None =>
                 RowOnDisk(i) \/ Unflushed(t, rows[i].call.fn)
  /\ \A f \in Functions : flushed[f] <= Len(rows)
  /\ FlushedRowsOnDisk

(***************************************************************************)
(* A call that was begun takes at most one number of SEQ and one of its    *)
(* log's counter.                                                          *)
(***************************************************************************)
Within(places) == {t \in Threads : pc[t] \in places}

Unrecorded == {"call", "registry", "open", "log", "record"}

CountInv ==
  /\ begun <= MaxCalls
  /\ IsFiniteSet(Within(Unrecorded))
  /\ SEQ + Cardinality(Within({"call"})) <= begun
  /\ \A f \in Functions :
       seq_counter[f] + Cardinality(Within(Unrecorded)) <= begun

IInv ==
  /\ TypeOK
  /\ NumbersInv
  /\ LogInv
  /\ PointersInv
  /\ KeptInv
  /\ OneEntryPerInput
  /\ EntriesHaveRows
  /\ DiskInv
  /\ CountInv
=============================================================================
