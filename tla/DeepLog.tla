------------------------------- MODULE DeepLog ------------------------------
(***************************************************************************)
(* The per-function deep logs of the Rust recorder (src/src/deep/mod.rs,   *)
(* src/src/deep/writer.rs): one DeepLog object for each function name in   *)
(* the registry, each with its own .dclog file.                            *)
(*                                                                         *)
(* The state of the DeepLog of function f is spread over functions on      *)
(* Functions: seq_counter[f], seen_hashes[f], last_buffer[f] as in the     *)
(* struct, and for its writer:                                             *)
(*   file[f]     the entries handed to write_framed, in order              *)
(*   durable[f]  how much of the file reached the operating system, in     *)
(*               pieces: the file prefix is piece 1, and entry k is the    *)
(*               length prefix 2k and the body 2k+1.  The rest is still in *)
(*               the BufWriter.                                            *)
(*                                                                         *)
(* The actions run under the mutex of the DeepLog, which the modules that  *)
(* use this one take and release.                                          *)
(***************************************************************************)
EXTENDS Capture, Sampling

CONSTANT Configs  \* what the environment variables can select

(***************************************************************************)
(* tsv: TRACEHASH_OUT could be created; deep: TRACEHASH_DEEP_DIR is set;   *)
(* only: the functions TRACEHASH_DEEP_ONLY lets through; policy: the       *)
(* sampling policy.  Both OnceLocks resolve it once.                       *)
(***************************************************************************)
Config == [tsv : BOOLEAN, deep : BOOLEAN, only : SUBSET Functions,
           policy : SamplePolicy]

ASSUME ConfigsAssumption == Configs \subseteq Config

VARIABLES
  config,       \* fixed at start-up
  logs,         \* keys of DeepState::logs, the registry of open logs
  seq_counter,  \* DeepLog::seq_counter
  seen_hashes,  \* DeepLog::seen_hashes
  last_buffer,  \* DeepLog::last_buffer: at most one entry
  file,         \* entries written through DeepLog::inner
  durable       \* pieces of the file that have left the BufWriter

deepVars == <<logs, seq_counter, seen_hashes, last_buffer, file, durable>>

DeepTypeOK ==
  /\ config \in Config
  /\ logs \in SUBSET Functions
  /\ seq_counter \in [Functions -> Nat]
  /\ seen_hashes \in [Functions -> SUBSET Hashes]
  /\ last_buffer \in [Functions -> Seq(Entry)]
  /\ file \in [Functions -> Seq(Entry)]
  /\ durable \in [Functions -> Nat]

DeepInit ==
  /\ config \in Configs
  /\ logs = {}
  /\ seq_counter = [f \in Functions |-> 0]
  /\ seen_hashes = [f \in Functions |-> {}]
  /\ last_buffer = [f \in Functions |-> <<>>]
  /\ file = [f \in Functions |-> <<>>]
  /\ durable = [f \in Functions |-> 0]
-----------------------------------------------------------------------------
(***************************************************************************)
(* What can be durable after one more entry went through the BufWriter.    *)
(* Either write of write_framed may find the buffer full and spill what    *)
(* was there before it; a body as large as the buffer goes straight to the *)
(* file.                                                                   *)
(***************************************************************************)
Spills(f) ==
  LET end == Pieces(Len(file[f]))
  IN  {durable[f], end, end + 1, end + 2}

\* DeepLog::create and logs.insert: the prefix stays in the BufWriter.
CreateLog(f) ==
  /\ logs' = logs \cup {f}
  /\ UNCHANGED <<seq_counter, seen_hashes, last_buffer, file, durable>>

\* The decision of DeepLog::record for call c.
Sampled(c, coin, sample) ==
  sample = Decide(config.policy, seq_counter[c.fn], coin)

Counted(c) == seq_counter' = [seq_counter EXCEPT ![c.fn] = @ + 1]

\* DeepLog::record, sampled out.
SkipCall(c, coin) ==
  /\ Sampled(c, coin, "Skip")
  /\ Counted(c)
  /\ UNCHANGED <<logs, seen_hashes, last_buffer, file, durable>>

\* DeepLog::record, an entry with this content hash was recorded before.
DedupCall(c, coin) ==
  /\ Sampled(c, coin, "Record")
  /\ InputHash(c) \in seen_hashes[c.fn]
  /\ Counted(c)
  /\ UNCHANGED <<logs, seen_hashes, last_buffer, file, durable>>

\* Mutant of WriteCall: the hash of the entry is not remembered.
WriteCallUnseen(c, coin) ==
  /\ Sampled(c, coin, "Record")
  /\ InputHash(c) \notin seen_hashes[c.fn]
  /\ Counted(c)
  /\ file' = [file EXCEPT ![c.fn] = Append(@, EntryOf(c, seq_counter[c.fn]))]
  /\ \E d \in Spills(c.fn) : durable' = [durable EXCEPT ![c.fn] = d]
  /\ UNCHANGED <<logs, seen_hashes, last_buffer>>

\* DeepLog::record, the entry is written.
WriteCall(c, coin) ==
  /\ Sampled(c, coin, "Record")
  /\ InputHash(c) \notin seen_hashes[c.fn]
  /\ Counted(c)
  /\ seen_hashes' = [seen_hashes EXCEPT ![c.fn] = @ \cup {InputHash(c)}]
  /\ file' = [file EXCEPT ![c.fn] = Append(@, EntryOf(c, seq_counter[c.fn]))]
  /\ \E d \in Spills(c.fn) : durable' = [durable EXCEPT ![c.fn] = d]
  /\ UNCHANGED <<logs, last_buffer>>

\* DeepLog::record, an I/O error in write_framed: the hash is already in
\* seen_hashes and the number used; the caller gets the error.  What was in
\* the BufWriter may have left it in part.
WriteFails(c, coin) ==
  /\ Sampled(c, coin, "Record")
  /\ InputHash(c) \notin seen_hashes[c.fn]
  /\ Counted(c)
  /\ seen_hashes' = [seen_hashes EXCEPT ![c.fn] = @ \cup {InputHash(c)}]
  /\ \E d \in durable[c.fn] .. Pieces(Len(file[c.fn])) :
       durable' = [durable EXCEPT ![c.fn] = d]
  /\ UNCHANGED <<logs, last_buffer, file>>

\* Mutant of BufferCall: a call that is already kept is not replaced.
BufferCallFirst(c, coin) ==
  /\ Sampled(c, coin, "BufferAsLast")
  /\ Counted(c)
  /\ last_buffer' = IF last_buffer[c.fn] # <<>> THEN last_buffer
       ELSE [last_buffer EXCEPT ![c.fn] = <<EntryOf(c, seq_counter[c.fn])>>]
  /\ UNCHANGED <<logs, seen_hashes, file, durable>>

\* Mutant of BufferCall: only calls that are written take a number.
BufferCallUncounted(c, coin) ==
  /\ Sampled(c, coin, "BufferAsLast")
  /\ last_buffer' =
       [last_buffer EXCEPT ![c.fn] = <<EntryOf(c, seq_counter[c.fn])>>]
  /\ UNCHANGED <<logs, seq_counter, seen_hashes, file, durable>>

\* DeepLog::record, the entry replaces the one kept as the last call.
BufferCall(c, coin) ==
  /\ Sampled(c, coin, "BufferAsLast")
  /\ Counted(c)
  /\ last_buffer' =
       [last_buffer EXCEPT ![c.fn] = <<EntryOf(c, seq_counter[c.fn])>>]
  /\ UNCHANGED <<logs, seen_hashes, file, durable>>

\* Mutant of FlushLast: last_buffer is read, not taken.
FlushLastKeeps(f) ==
  /\ file' = [file EXCEPT ![f] = @ \o last_buffer[f]]
  /\ durable' = [durable EXCEPT ![f] = Pieces(Len(file'[f]))]
  /\ UNCHANGED <<logs, seq_counter, seen_hashes, last_buffer>>

\* Mutant of FlushLast: the BufWriter is flushed only behind a last call.
FlushLastOnlyLast(f) ==
  /\ file' = [file EXCEPT ![f] = @ \o last_buffer[f]]
  /\ last_buffer' = [last_buffer EXCEPT ![f] = <<>>]
  /\ durable' = IF last_buffer[f] = <<>> THEN durable
                ELSE [durable EXCEPT ![f] = Pieces(Len(file'[f]))]
  /\ UNCHANGED <<logs, seq_counter, seen_hashes>>

\* DeepLog::flush_last: take last_buffer, write it, flush the BufWriter.
FlushLast(f) ==
  /\ file' = [file EXCEPT ![f] = @ \o last_buffer[f]]
  /\ last_buffer' = [last_buffer EXCEPT ![f] = <<>>]
  /\ durable' = [durable EXCEPT ![f] = Pieces(Len(file'[f]))]
  /\ UNCHANGED <<logs, seq_counter, seen_hashes>>

\* DeepLog::flush_last, the write of last_buffer fails: its entry is dropped.
DropLast(f) ==
  /\ last_buffer[f] # <<>>
  /\ last_buffer' = [last_buffer EXCEPT ![f] = <<>>]
  /\ \E d \in durable[f] .. Pieces(Len(file[f])) :
       durable' = [durable EXCEPT ![f] = d]
  /\ UNCHANGED <<logs, seq_counter, seen_hashes, file>>

\* DeepLog::flush_last, the flush behind that write fails: a part of the
\* BufWriter stays there.
StallFlush(f) ==
  /\ file' = [file EXCEPT ![f] = @ \o last_buffer[f]]
  /\ last_buffer' = [last_buffer EXCEPT ![f] = <<>>]
  /\ \E d \in durable[f] .. Pieces(Len(file'[f])) - 1 :
       durable' = [durable EXCEPT ![f] = d]
  /\ UNCHANGED <<logs, seq_counter, seen_hashes>>
-----------------------------------------------------------------------------
(***************************************************************************)
(* Entries of f's file that have left the BufWriter.  A reader of the file *)
(* on disk gets them whole, unless a frame before them is half-written.    *)
(***************************************************************************)
OnDisk(f) == {k \in DOMAIN file[f] : Pieces(k) <= durable[f]}

(***************************************************************************)
(* The entries of a log, the one in last_buffer included, have distinct    *)
(* numbers below seq_counter.                                              *)
(***************************************************************************)
LogInv ==
  \A f \in Functions :
    /\ \A k \in DOMAIN file[f] : file[f][k].seq < seq_counter[f]
    /\ \A j, k \in DOMAIN file[f] : file[f][j].seq = file[f][k].seq => j = k
    /\ last_buffer[f] # <<>> =>
         /\ Len(last_buffer[f]) = 1
         /\ last_buffer[f][1].seq < seq_counter[f]
         /\ \A k \in DOMAIN file[f] : file[f][k].seq # last_buffer[f][1].seq
=============================================================================
