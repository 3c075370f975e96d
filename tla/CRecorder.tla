----------------------------- MODULE CRecorder ------------------------------
(***************************************************************************)
(* The C recorder (src/c/tracehash_c.c): threads that instrument calls     *)
(* with tracehash_begin .. tracehash_finish and may call                   *)
(* tracehash_deep_flush_all, over the registry of deep files, the deep     *)
(* files and the TSV file.                                                 *)
(*                                                                         *)
(* A section under one mutex that waits for nothing is one step; the       *)
(* registry, which flush_all keeps while it locks the files, has a holder. *)
(* deep_write_entry reads df->seq outside any lock: the step ReadSeq may   *)
(* see any value the counter takes between the check under the lock and    *)
(* the write under the lock.                                               *)
(***************************************************************************)
EXTENDS Capture, FiniteSets

CONSTANTS
  Threads,
  Uses,         \* the functions each thread calls
  NoThread,     \* holder of a free registry
  Configs,      \* what the environment variables can select
  Uncreatable,  \* functions whose deep file may fail to be created
  MaxCalls,     \* bound: calls begun in a run
  MaxFlushes    \* bound: flush_all calls in a run

\* mode_all: tracehash_deep_mode_all; first_n: tracehash_deep_first_n.
Config == [tsv : BOOLEAN, deep : BOOLEAN, mode_all : BOOLEAN, first_n : Nat]

ASSUME CRecorderAssumption ==
  /\ Configs \subseteq Config
  /\ Uses \in [Threads -> SUBSET Functions]
  /\ IsFiniteSet(Threads)
  /\ NoThread \notin Threads
  /\ MaxCalls \in Nat
  /\ MaxFlushes \in Nat

VARIABLES
  config,        \* set once by tracehash_init
  alive,         \* the process runs
  pc,            \* where each thread is in the recorder
  call,          \* the TraceHashCall a thread has open
  deep_seq,      \* assigned_seq, then deep_seq_value, of tracehash_finish
  pending,       \* deep files flush_all has not flushed yet
  deep_files,    \* the registry: functions with a deep file
  df_seq,        \* TraceHashDeepFile::seq
  file,          \* entries written to each deep file
  durable,       \* pieces of each deep file that have left stdio's buffer
  tracehash_seq,
  rows,          \* lines of the TSV file
  registry,      \* holder of tracehash_deep_registry_mutex
  begun,         \* number of calls begun
  flushes,       \* number of flush_all calls begun
  at_flush,      \* history: rows written when a thread's flush_all began
  flushed        \* history: rows written before some finished flush_all began

deepVars  == <<deep_files, df_seq, file, durable>>
localVars == <<call, deep_seq, pending>>
tsvVars   == <<tracehash_seq, rows>>
countVars == <<begun, flushes, at_flush, flushed>>
vars == <<config, alive, pc, localVars, deepVars, tsvVars, registry, countVars>>

Finishing == {"registry", "emit", "read", "write", "row"}
Flushing  == {"flush_registry", "flush_file"}

Row == [thread : Threads, seq : Nat, call : Calls, deep_seq : Nat \cup {None}]

TypeOK ==
  /\ config \in Config
  /\ alive \in BOOLEAN
  /\ pc \in [Threads -> {"idle", "call"} \cup Finishing \cup Flushing]
  /\ call \in [Threads -> Calls]
  /\ deep_seq \in [Threads -> Nat \cup {None}]
  /\ pending \in [Threads -> SUBSET Functions]
  /\ deep_files \in SUBSET Functions
  /\ df_seq \in [Functions -> Nat]
  /\ file \in [Functions -> Seq(Entry)]
  /\ durable \in [Functions -> Nat]
  /\ tracehash_seq \in Nat
  /\ rows \in Seq(Row)
  /\ registry \in Threads \cup {NoThread}
  /\ begun \in Nat
  /\ flushes \in Nat
  /\ at_flush \in [Threads -> Nat]
  /\ flushed \in Nat

Init ==
  /\ config \in Configs
  /\ alive = TRUE
  /\ pc = [t \in Threads |-> "idle"]
  /\ call = [t \in Threads |-> CHOOSE c \in Calls : TRUE]
  /\ deep_seq = [t \in Threads |-> None]
  /\ pending = [t \in Threads |-> {}]
  /\ deep_files = {}
  /\ df_seq = [f \in Functions |-> 0]
  /\ file = [f \in Functions |-> <<>>]
  /\ durable = [f \in Functions |-> 0]
  /\ tracehash_seq = 0
  /\ rows = <<>>
  /\ registry = NoThread
  /\ begun = 0
  /\ flushes = 0
  /\ at_flush = [t \in Threads |-> 0]
  /\ flushed = 0
-----------------------------------------------------------------------------
Active == config.tsv \/ config.deep

Transition(t, from, to) ==
  /\ pc[t] = from
  /\ pc' = [pc EXCEPT ![t] = to]

\* tracehash_begin and the tracehash_input_* and tracehash_output_* calls.
Begin(t) ==
  /\ begun < MaxCalls
  /\ Transition(t, "idle", "call")
  /\ \E c \in Calls : c.fn \in Uses[t] /\ call' = [call EXCEPT ![t] = c]
  /\ begun' = begun + 1
  /\ UNCHANGED <<config, alive, deep_seq, pending, deepVars, tsvVars,
                 registry, flushes, at_flush, flushed>>

\* tracehash_finish of an inactive call.
FinishInactive(t) ==
  /\ ~Active
  /\ Transition(t, "call", "idle")
  /\ UNCHANGED <<config, alive, localVars, deepVars, tsvVars, registry,
                 countVars>>

\* Mutant of Finish: deep_seq keeps the answer to the thread's last call.
FinishStale(t) ==
  /\ Active
  /\ \/ config.deep /\ Transition(t, "call", "registry")
     \/ Transition(t, "call", "row")
  /\ UNCHANGED <<config, alive, localVars, deepVars, tsvVars, registry,
                 countVars>>

\* tracehash_finish: the deep entry comes first.  A helper that ran out of
\* memory has cleared the call's deep_active: then there is no entry.
Finish(t) ==
  /\ Active
  /\ \/ config.deep /\ Transition(t, "call", "registry")
     \/ Transition(t, "call", "row")
  /\ deep_seq' = [deep_seq EXCEPT ![t] = None]
  /\ UNCHANGED <<config, alive, call, pending, deepVars, tsvVars, registry,
                 countVars>>

\* deep_find_or_create, all of it under the registry mutex.
FindOrCreate(t) ==
  LET f == call[t].fn IN
  /\ registry = NoThread
  /\ \/ /\ Transition(t, "registry", "emit")
        /\ deep_files' = deep_files \cup {f}
     \/ /\ f \in Uncreatable \ deep_files
        /\ Transition(t, "registry", "row")
        /\ UNCHANGED deep_files
  /\ UNCHANGED <<config, alive, localVars, df_seq, file, durable, tsvVars,
                 registry, countVars>>

\* Mutant of CheckEmit: `<=' for `<'.
CheckEmitOneMore(t) ==
  /\ Transition(t, "emit",
       IF config.mode_all \/ df_seq[call[t].fn] <= config.first_n
         THEN "read" ELSE "row")
  /\ UNCHANGED <<config, alive, localVars, deepVars, tsvVars, registry,
                 countVars>>

\* The check of the sampling mode, under df->mutex.
CheckEmit(t) ==
  /\ Transition(t, "emit",
       IF config.mode_all \/ df_seq[call[t].fn] < config.first_n
         THEN "read" ELSE "row")
  /\ UNCHANGED <<config, alive, localVars, deepVars, tsvVars, registry,
                 countVars>>

\* deep_write_entry reads df->seq and assembles the body; when there is no
\* memory for the body the entry is given up.
ReadSeq(t) ==
  /\ \/ /\ Transition(t, "read", "write")
        /\ deep_seq' = [deep_seq EXCEPT ![t] = df_seq[call[t].fn]]
     \/ /\ Transition(t, "read", "row")
        /\ UNCHANGED deep_seq
  /\ UNCHANGED <<config, alive, call, pending, deepVars, tsvVars, registry,
                 countVars>>

\* Mutant of WriteEntry: the body takes its number under the lock, and the
\* row keeps the one read before.
WriteEntryRereads(t) ==
  LET f == call[t].fn IN
  /\ Transition(t, "write", "row")
  /\ file' = [file EXCEPT ![f] = Append(@, EntryOf(call[t], df_seq[f]))]
  /\ \E d \in durable[f] .. Pieces(Len(file'[f])) :
       durable' = [durable EXCEPT ![f] = d]
  /\ df_seq' = [df_seq EXCEPT ![f] = @ + 1]
  /\ UNCHANGED <<config, alive, localVars, deep_files, tsvVars, registry,
                 countVars>>

\* Mutant of WriteEntry: df->seq is not incremented.
WriteEntryUncounted(t) ==
  LET f == call[t].fn IN
  /\ Transition(t, "write", "row")
  /\ file' = [file EXCEPT ![f] = Append(@, EntryOf(call[t], deep_seq[t]))]
  /\ \E d \in durable[f] .. Pieces(Len(file'[f])) :
       durable' = [durable EXCEPT ![f] = d]
  /\ UNCHANGED <<config, alive, localVars, deep_files, df_seq, tsvVars,
                 registry, countVars>>

\* deep_write_entry: two fwrites and df->seq++, under df->mutex.  stdio
\* passes on any part of what it buffers.
WriteEntry(t) ==
  LET f == call[t].fn IN
  /\ Transition(t, "write", "row")
  /\ file' = [file EXCEPT ![f] = Append(@, EntryOf(call[t], deep_seq[t]))]
  /\ \E d \in durable[f] .. Pieces(Len(file'[f])) :
       durable' = [durable EXCEPT ![f] = d]
  /\ df_seq' = [df_seq EXCEPT ![f] = @ + 1]
  /\ UNCHANGED <<config, alive, localVars, deep_files, tsvVars, registry,
                 countVars>>

\* Mutant of RowOf: the counter is incremented before it is read.
RowOfPreincrement(t) == [thread |-> t, seq |-> tracehash_seq + 1,
                         call |-> call[t], deep_seq |-> deep_seq[t]]

RowOf(t) == [thread |-> t, seq |-> tracehash_seq, call |-> call[t],
             deep_seq |-> deep_seq[t]]

\* tracehash_finish: number, write and flush the row under tracehash_mutex.
WriteRow(t) ==
  /\ Transition(t, "row", "idle")
  /\ \/ /\ config.tsv
        /\ tracehash_seq' = tracehash_seq + 1
        /\ rows' = Append(rows, RowOf(t))
     \/ /\ ~config.tsv
        /\ UNCHANGED tsvVars
  /\ UNCHANGED <<config, alive, localVars, deepVars, registry, countVars>>
-----------------------------------------------------------------------------
StartFlush(t) ==
  /\ flushes < MaxFlushes
  /\ Transition(t, "idle", "flush_registry")
  /\ flushes' = flushes + 1
  /\ at_flush' = [at_flush EXCEPT ![t] = Len(rows)]
  /\ UNCHANGED <<config, alive, localVars, deepVars, tsvVars, registry, begun,
                 flushed>>

\* Mutant of FlushLockRegistry: the walk stops in front of the last node.
FlushAllButLast(t) ==
  /\ registry = NoThread
  /\ Transition(t, "flush_registry", "flush_file")
  /\ registry' = t
  /\ \E f \in Functions : pending' = [pending EXCEPT ![t] = deep_files \ {f}]
  /\ UNCHANGED <<config, alive, call, deep_seq, deepVars, tsvVars, countVars>>

FlushLockRegistry(t) ==
  /\ registry = NoThread
  /\ Transition(t, "flush_registry", "flush_file")
  /\ registry' = t
  /\ pending' = [pending EXCEPT ![t] = deep_files]
  /\ UNCHANGED <<config, alive, call, deep_seq, deepVars, tsvVars, countVars>>

\* fflush of one deep file under df->mutex.
FlushFile(t) ==
  /\ pc[t] = "flush_file"
  /\ \E f \in pending[t] :
       /\ durable' = [durable EXCEPT ![f] = Pieces(Len(file[f]))]
       /\ pending' = [pending EXCEPT ![t] = @ \ {f}]
  /\ UNCHANGED <<config, alive, pc, call, deep_seq, deep_files, df_seq, file,
                 tsvVars, registry, countVars>>

FlushDone(t) ==
  /\ pending[t] = {}
  /\ Transition(t, "flush_file", "idle")
  /\ registry' = NoThread
  /\ flushed' = IF at_flush[t] > flushed THEN at_flush[t] ELSE flushed
  /\ UNCHANGED <<config, alive, localVars, deepVars, tsvVars, begun, flushes,
                 at_flush>>
-----------------------------------------------------------------------------
\* A normal exit, by a thread outside the recorder: stdio flushes its files.
Exit(t) ==
  /\ pc[t] \in {"idle", "call"}
  /\ alive' = FALSE
  /\ durable' = [f \in Functions |->
                   IF f \in deep_files THEN Pieces(Len(file[f])) ELSE 0]
  /\ UNCHANGED <<config, pc, localVars, deep_files, df_seq, file, tsvVars,
                 registry, countVars>>

\* The process is killed: what stdio buffers is lost.
Crash ==
  /\ alive' = FALSE
  /\ UNCHANGED <<config, pc, localVars, deepVars, tsvVars, registry, countVars>>

Step(t) ==
  /\ alive
  /\ \/ FindOrCreate(t) \/ CheckEmit(t) \/ ReadSeq(t) \/ WriteEntry(t)
     \/ WriteRow(t) \/ FlushLockRegistry(t) \/ FlushFile(t) \/ FlushDone(t)

Choice(t) ==
  /\ alive
  /\ Begin(t) \/ FinishInactive(t) \/ Finish(t) \/ StartFlush(t) \/ Exit(t)

Next ==
  \/ \E t \in Threads : Step(t) \/ Choice(t)
  \/ alive /\ Crash
  \/ ~alive /\ UNCHANGED vars

Spec == Init /\ [][Next]_vars
-----------------------------------------------------------------------------
EntriesAt(f, n) == {k \in DOMAIN file[f] : file[f][k].seq = n}

OnDisk(f) == {k \in DOMAIN file[f] : Pieces(k) <= durable[f]}

(***************************************************************************)
(* The TSV file is in the order of its numbers, without a gap: number and  *)
(* line are made under one lock.  (The Rust recorder's file is not.)       *)
(***************************************************************************)
RowsInOrder == \A i \in DOMAIN rows : rows[i].seq = i - 1

(***************************************************************************)
(* Whatever the threads do, a row with a deep_seq has an entry under that  *)
(* number that is the record of its own call.                              *)
(***************************************************************************)
DeepSeqFindsEntry ==
  \A i \in DOMAIN rows :
    rows[i].deep_seq # None =>
      \E k \in EntriesAt(rows[i].call.fn, rows[i].deep_seq) :
        Matches(file[rows[i].call.fn][k], rows[i].call)

(***************************************************************************)
(* The entry is the only one: the row's deep_seq points at "the matching"  *)
(* entry (README.md:519).  The unlocked read of df->seq breaks this when   *)
(* two threads finish calls of one function; it holds when each function   *)
(* is called by one thread.                                                *)
(***************************************************************************)
DeepSeqUnique ==
  \A f \in Functions : \A j, k \in DOMAIN file[f] :
    file[f][j].seq = file[f][k].seq => j = k

(***************************************************************************)
(* How far the check-then-write race can go: past the limit by less than   *)
(* the number of threads, and never at all from a limit of 0.              *)
(***************************************************************************)
OvershootBounded ==
  ~config.mode_all => \A f \in Functions :
    \/ file[f] = <<>>
    \/ /\ config.first_n > 0
       /\ Len(file[f]) < config.first_n + Cardinality(Threads)

(***************************************************************************)
(* Once a tracehash_deep_flush_all has returned, the entry of every row    *)
(* written before it was called survives a crash.                          *)
(***************************************************************************)
FlushedRowsOnDisk ==
  \A i \in 1 .. flushed :
    rows[i].deep_seq # None =>
      \E k \in EntriesAt(rows[i].call.fn, rows[i].deep_seq)
             \cap OnDisk(rows[i].call.fn) :
        Matches(file[rows[i].call.fn][k], rows[i].call)
-----------------------------------------------------------------------------
(***************************************************************************)
(* The C recorder implements the same TraceLog as the Rust one, as long as *)
(* no two threads call one function.                                       *)
(***************************************************************************)
CapturedView(c) == [inputs |-> DeepView(c.input), outputs |-> DeepView(c.output)]

AbsBusy == {t \in Threads : pc[t] \in {"call"} \cup Finishing}

AbsTable ==
  {[seq |-> rows[i].seq, call |-> rows[i].call, deep_seq |-> rows[i].deep_seq] :
     i \in DOMAIN rows}

HasRow(f, n) ==
  \E i \in DOMAIN rows : rows[i].call.fn = f /\ rows[i].deep_seq = n

AbsEntries ==
  [f \in Functions |->
     {[seq  |-> e.seq,
       view |-> [inputs |-> e.inputs, outputs |-> e.outputs]] :
        e \in {file[f][k] : k \in {j \in DOMAIN file[f] :
                                    HasRow(f, file[f][j].seq)}}}]

Abstract == INSTANCE TraceLog WITH
  View <- CapturedView, Numbers <- 0 .. MaxCalls, Absent <- None,
  tracing <- config.tsv, busy <- AbsBusy, current <- call, table <- AbsTable,
  entries <- AbsEntries

ImplementsTraceLog == Abstract!Spec
=============================================================================
