---------------------------- MODULE CRecorderInv ----------------------------
(***************************************************************************)
(* Inductive invariants of CRecorder: IInv, of every instance, and         *)
(* OwnedInv, of those where no two threads call one function.  TLC checks  *)
(* IInv on small instances; CRecorderProofs proves both inductive.         *)
(***************************************************************************)
EXTENDS CRecorder

\* tracehash_seq is the number of rows, and df_seq that of the entries.
CountersInv ==
  /\ RowsInOrder
  /\ tracehash_seq = Len(rows)
  /\ \A f \in Functions : df_seq[f] = Len(file[f])

\* The log of c's function has an entry numbered n that is the record of c.
Resolves(c, n) ==
  \E k \in EntriesAt(c.fn, n) : Matches(file[c.fn][k], c)

(***************************************************************************)
(* deep_seq_value is empty up to the read of df->seq, a number after it,   *)
(* and the number of the call's own entry once that is written.            *)
(***************************************************************************)
DeepSeqInv ==
  /\ DeepSeqFindsEntry
  /\ \A t \in Threads :
       /\ pc[t] \in {"registry", "emit", "read"} => deep_seq[t] = None
       /\ pc[t] = "write" => deep_seq[t] \in Nat
       /\ pc[t] = "row" /\ deep_seq[t] # None => Resolves(call[t], deep_seq[t])

\* The threads that were let through to write an entry of f and have not.
Admitted(f) == {t \in Threads : pc[t] \in {"read", "write"} /\ call[t].fn = f}

(***************************************************************************)
(* The last thread that was let through saw fewer than first_n entries:    *)
(* those and the ones of the threads between its check and their write     *)
(* are all there can be.                                                   *)
(***************************************************************************)
LimitInv ==
  ~config.mode_all => \A f \in Functions :
    \/ file[f] = <<>> /\ Admitted(f) = {}
    \/ /\ config.first_n > 0
       /\ Len(file[f]) + Cardinality(Admitted(f))
            < config.first_n + Cardinality(Threads)

\* An entry of row i's call, under the row's deep_seq, survives a crash.
RowSafe(i) ==
  \E k \in EntriesAt(rows[i].call.fn, rows[i].deep_seq)
         \cap OnDisk(rows[i].call.fn) :
    Matches(file[rows[i].call.fn][k], rows[i].call)

(***************************************************************************)
(* A flush_all has made safe the rows that were there when it began, but   *)
(* for the files it has yet to come to.                                    *)
(***************************************************************************)
FlushInv ==
  /\ \A f \in Functions : file[f] # <<>> => f \in deep_files
  /\ \A t \in Threads :
       /\ pc[t] \in {"emit", "read", "write"} => call[t].fn \in deep_files
       /\ pc[t] \in Flushing =>
            /\ at_flush[t] <= Len(rows)
            /\ \A i \in 1 .. at_flush[t] : rows[i].deep_seq # None =>
                 \/ pc[t] = "flush_registry"
                 \/ rows[i].call.fn \in pending[t]
                 \/ RowSafe(i)
  /\ flushed <= Len(rows)
  /\ FlushedRowsOnDisk

IInv ==
  /\ TypeOK
  /\ CountersInv
  /\ DeepSeqInv
  /\ LimitInv
  /\ FlushInv
-----------------------------------------------------------------------------
\* Each function is called by one thread.
OwnedUse ==
  \A t, u \in Threads : Uses[t] \cap Uses[u] # {} => t = u

Within(places) == {t \in Threads : pc[t] \in places}

Unwritten == {"call", "registry", "emit", "read", "write"}

(***************************************************************************)
(* With one thread to a function, entry k of a file has the number k-1,    *)
(* the number a thread has read is still the next one when it writes, and  *)
(* no row has it before the thread's own.  A call takes at most one number *)
(* of each counter.                                                        *)
(***************************************************************************)
OwnedInv ==
  /\ \A f \in Functions : \A k \in DOMAIN file[f] : file[f][k].seq = k - 1
  /\ \A t \in Threads :
       /\ pc[t] \in {"call"} \cup Finishing => call[t].fn \in Uses[t]
       /\ pc[t] = "write" => deep_seq[t] = df_seq[call[t].fn]
       /\ pc[t] = "row" /\ deep_seq[t] # None =>
            ~HasRow(call[t].fn, deep_seq[t])
  /\ begun <= MaxCalls
  /\ tracehash_seq + Cardinality(Within({"call"} \cup Finishing)) <= begun
  /\ \A f \in Functions :
       df_seq[f] + Cardinality(Within(Unwritten)) <= begun
=============================================================================
