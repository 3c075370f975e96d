------------------------------ MODULE Recorder ------------------------------
(***************************************************************************)
(* The Rust recorder (src/src/lib.rs, src/src/deep/mod.rs): threads that   *)
(* instrument calls with Call::new .. Call::finish and may call            *)
(* deep::flush_all, over the shared sequence counter, the TSV writer, the  *)
(* registry of deep logs and the logs of DeepLog.                          *)
(*                                                                         *)
(* Call::finish is a sequence of steps: each step holds at most one lock   *)
(* except in flush_all, which keeps the registry while it locks the logs.  *)
(* A step between taking a lock and releasing it touches nothing other     *)
(* threads see outside that lock.                                          *)
(*                                                                         *)
(* Any write to a log may fail; the recorder ignores the error.  A row is  *)
(* taken to be written whole: the TSV file is not a BufWriter.             *)
(***************************************************************************)
EXTENDS DeepLog

CONSTANTS
  Threads,      \* instrumented threads
  NoThread,     \* holder of a free lock
  Uncreatable,  \* functions whose .dclog may fail to be created
  MaxCalls,     \* bound: calls begun in a run
  MaxFlushes,   \* bound: flush_all calls in a run
  MaxFailures   \* bound: failed writes and flushes of logs in a run

ASSUME RecorderAssumption ==
  /\ NoThread \notin Threads
  /\ MaxCalls \in Nat
  /\ MaxFlushes \in Nat
  /\ MaxFailures \in Nat

VARIABLES
  alive,     \* the process runs
  pc,        \* where each thread is in the recorder
  call,      \* the Call a thread has open
  seq,       \* local `seq' of Call::finish
  deep_seq,  \* local `deep_seq' of Call::finish
  target,    \* the log flush_all is at
  pending,   \* logs flush_all has not flushed yet
  SEQ,       \* static SEQ
  rows,      \* lines of the TSV file, written without buffering
  registry,  \* holder of the mutex DeepState::logs
  holder,    \* holder of the mutex of each DeepLog
  begun,     \* number of calls begun
  flushes,   \* number of flush_all calls begun
  failures,  \* number of failed writes and flushes
  at_flush,  \* history: rows written when a thread's flush_all began
  missed,    \* history: logs whose flush failed in a thread's flush_all
  flushed,   \* history: for each log, rows written before the beginning of
             \* some flush_all that has returned and flushed it
  lost,      \* history: hashes of the entries DeepLog::record did not get
             \* written, for each log
  kept       \* history: numbers of the entries that went into last_buffer

threadVars == <<pc, call, seq, deep_seq, target, pending>>
lockVars   == <<registry, holder>>
tsvVars    == <<SEQ, rows>>
lossVars   == <<failures, lost, kept>>
flushVars  == <<flushes, at_flush, missed, flushed>>
countVars  == <<begun, lossVars, flushVars>>
vars == <<config, deepVars, alive, threadVars, lockVars, tsvVars, countVars>>

Finishing == {"registry", "open", "log", "record", "row"}
Flushing  == {"flush_registry", "flush_pick", "flush_log", "flush_write"}
Locations == {"idle", "call"} \cup Finishing \cup Flushing

\* A TSV line.  Its hash columns are functions of the streams of the call.
Row == [thread : Threads, seq : Nat, call : Calls, deep_seq : Nat \cup {None}]

TypeOK ==
  /\ DeepTypeOK
  /\ alive \in BOOLEAN
  /\ pc \in [Threads -> Locations]
  /\ call \in [Threads -> Calls]
  /\ seq \in [Threads -> Nat]
  /\ deep_seq \in [Threads -> Nat \cup {None}]
  /\ target \in [Threads -> Functions]
  /\ pending \in [Threads -> SUBSET Functions]
  /\ SEQ \in Nat
  /\ rows \in Seq(Row)
  /\ registry \in Threads \cup {NoThread}
  /\ holder \in [Functions -> Threads \cup {NoThread}]
  /\ begun \in Nat
  /\ flushes \in Nat
  /\ failures \in Nat
  /\ at_flush \in [Threads -> Nat]
  /\ missed \in [Threads -> SUBSET Functions]
  /\ flushed \in [Functions -> Nat]
  /\ lost \in [Functions -> SUBSET Hashes]
  /\ kept \in [Functions -> SUBSET Nat]

Init ==
  /\ DeepInit
  /\ alive = TRUE
  /\ pc = [t \in Threads |-> "idle"]
  /\ call = [t \in Threads |-> CHOOSE c \in Calls : TRUE]
  /\ seq = [t \in Threads |-> 0]
  /\ deep_seq = [t \in Threads |-> None]
  /\ target = [t \in Threads |-> CHOOSE f \in Functions : TRUE]
  /\ pending = [t \in Threads |-> {}]
  /\ SEQ = 0
  /\ rows = <<>>
  /\ registry = NoThread
  /\ holder = [f \in Functions |-> NoThread]
  /\ begun = 0
  /\ flushes = 0
  /\ failures = 0
  /\ at_flush = [t \in Threads |-> 0]
  /\ missed = [t \in Threads |-> {}]
  /\ flushed = [f \in Functions |-> 0]
  /\ lost = [f \in Functions |-> {}]
  /\ kept = [f \in Functions |-> {}]
-----------------------------------------------------------------------------
\* Call::active, the same for every call of a run.
Active == config.tsv \/ config.deep

\* deep_active, and function_allowed in deep::record.
Deep(f) == config.deep /\ f \in config.only

Transition(t, from, to) ==
  /\ pc[t] = from
  /\ pc' = [pc EXCEPT ![t] = to]

\* Call::new and the input_* and output_* calls on it.
New(t) ==
  /\ begun < MaxCalls
  /\ Transition(t, "idle", "call")
  /\ \E c \in Calls : call' = [call EXCEPT ![t] = c]
  /\ begun' = begun + 1
  /\ UNCHANGED <<config, deepVars, alive, seq, deep_seq, target, pending,
                 lockVars, tsvVars, lossVars, flushVars>>

\* Call::finish on an inactive call.
FinishInactive(t) ==
  /\ ~Active
  /\ Transition(t, "call", "idle")
  /\ UNCHANGED <<config, deepVars, alive, call, seq, deep_seq, target,
                 pending, lockVars, tsvVars, countVars>>

\* Call::finish takes its number, then goes to deep::record or to the row.
TakeSeq(t) ==
  /\ Active
  /\ Transition(t, "call", IF Deep(call[t].fn) THEN "registry" ELSE "row")
  /\ seq' = [seq EXCEPT ![t] = SEQ]
  /\ SEQ' = SEQ + 1
  /\ deep_seq' = [deep_seq EXCEPT ![t] = None]
  /\ UNCHANGED <<config, deepVars, alive, call, target, pending, lockVars,
                 rows, countVars>>

\* open_log locks the registry.
LockRegistry(t) ==
  /\ registry = NoThread
  /\ Transition(t, "registry", "open")
  /\ registry' = t
  /\ UNCHANGED <<config, deepVars, alive, call, seq, deep_seq, target,
                 pending, holder, tsvVars, countVars>>

\* Mutant of OpenLog: a log that cannot be created ends finish, row and all.
OpenLogReturns(t) ==
  LET f == call[t].fn IN
  /\ \/ /\ f \in logs
        /\ Transition(t, "open", "log")
        /\ UNCHANGED deepVars
     \/ /\ f \notin logs
        /\ CreateLog(f)
        /\ Transition(t, "open", "log")
     \/ /\ f \in Uncreatable \ logs
        /\ Transition(t, "open", "idle")
        /\ UNCHANGED deepVars
  /\ registry' = NoThread
  /\ UNCHANGED <<config, alive, call, seq, deep_seq, target, pending, holder,
                 tsvVars, countVars>>

\* Mutant of OpenLog: the early return does not release the registry.
OpenLogKeepsLock(t) ==
  LET f == call[t].fn IN
  /\ \/ /\ f \in logs
        /\ Transition(t, "open", "log")
        /\ registry' = NoThread
        /\ UNCHANGED deepVars
     \/ /\ f \notin logs
        /\ CreateLog(f)
        /\ Transition(t, "open", "log")
        /\ registry' = NoThread
     \/ /\ f \in Uncreatable \ logs
        /\ Transition(t, "open", "row")
        /\ UNCHANGED <<deepVars, registry>>
  /\ UNCHANGED <<config, alive, call, seq, deep_seq, target, pending, holder,
                 tsvVars, countVars>>

\* open_log: the log is there, or is created, or cannot be created and the
\* call gets no deep entry.  Returning drops the registry's guard.
OpenLog(t) ==
  LET f == call[t].fn IN
  /\ \/ /\ f \in logs
        /\ Transition(t, "open", "log")
        /\ UNCHANGED deepVars
     \/ /\ f \notin logs
        /\ CreateLog(f)
        /\ Transition(t, "open", "log")
     \/ /\ f \in Uncreatable \ logs
        /\ Transition(t, "open", "row")
        /\ UNCHANGED deepVars
  /\ registry' = NoThread
  /\ UNCHANGED <<config, alive, call, seq, deep_seq, target, pending, holder,
                 tsvVars, countVars>>

\* deep::record locks the log.
LockLog(t) ==
  /\ holder[call[t].fn] = NoThread
  /\ Transition(t, "log", "record")
  /\ holder' = [holder EXCEPT ![call[t].fn] = t]
  /\ UNCHANGED <<config, deepVars, alive, call, seq, deep_seq, target,
                 pending, registry, tsvVars, countVars>>

Fails == failures < MaxFailures /\ failures' = failures + 1

Answer(t, n) == deep_seq' = [deep_seq EXCEPT ![t] = n]

NextNumber(t) == seq_counter[call[t].fn]

\* DeepLog::record under the lock, with the answer to a written, a buffered
\* and a deduplicated call.  An error is no answer, like a call sampled out.
RecordAnswering(t, written, buffered, duplicate) ==
  LET c == call[t] IN
  /\ Transition(t, "record", "row")
  /\ \E coin \in Draws(config.policy, NextNumber(t)) :
       \/ /\ \/ WriteCall(c, coin) /\ Answer(t, written)
             \/ DedupCall(c, coin) /\ Answer(t, duplicate)
             \/ SkipCall(c, coin) /\ Answer(t, None)
          /\ UNCHANGED lossVars
       \/ /\ BufferCall(c, coin) /\ Answer(t, buffered)
          /\ kept' = [kept EXCEPT ![c.fn] = @ \cup {NextNumber(t)}]
          /\ UNCHANGED <<failures, lost>>
       \/ /\ WriteFails(c, coin) /\ Answer(t, None) /\ Fails
          /\ lost' = [lost EXCEPT ![c.fn] = @ \cup {InputHash(c)}]
          /\ UNCHANGED kept
  /\ holder' = [holder EXCEPT ![c.fn] = NoThread]
  /\ UNCHANGED <<config, alive, call, seq, target, pending, registry,
                 tsvVars, begun, flushVars>>

\* Mutant of Record: a buffered call is answered with its number.
RecordAnswersBuffered(t) ==
  RecordAnswering(t, NextNumber(t), NextNumber(t), None)

\* Mutant of Record: a duplicate is answered with the number of the original.
RecordAnswersDuplicate(t) ==
  LET twins == {k \in DOMAIN file[call[t].fn] :
                  file[call[t].fn][k].hash = InputHash(call[t])}
      twin  == IF twins = {} THEN None
               ELSE file[call[t].fn][CHOOSE k \in twins : TRUE].seq
  IN  RecordAnswering(t, NextNumber(t), None, twin)

\* Mutant of Record: the answer is the counter after it was incremented.
RecordAnswersNext(t) == RecordAnswering(t, NextNumber(t) + 1, None, None)

\* DeepLog::record under the lock; its answer becomes deep_seq.
Record(t) == RecordAnswering(t, NextNumber(t), None, None)

\* Mutant of RowOf: an answer of 0 is taken for no answer.
RowOfPositive(t) == [thread |-> t, seq |-> seq[t], call |-> call[t],
                     deep_seq |-> IF deep_seq[t] > 0 THEN deep_seq[t] ELSE None]

\* Call::finish writes the row under the writer's mutex, if there is a writer.
RowOf(t) == [thread |-> t, seq |-> seq[t], call |-> call[t],
             deep_seq |-> deep_seq[t]]

WriteRow(t) ==
  /\ Transition(t, "row", "idle")
  /\ rows' = IF config.tsv THEN Append(rows, RowOf(t)) ELSE rows
  /\ UNCHANGED <<config, deepVars, alive, call, seq, deep_seq, target,
                 pending, lockVars, SEQ, countVars>>
-----------------------------------------------------------------------------
\* deep::flush_all, when deep mode is on.
StartFlush(t) ==
  /\ config.deep
  /\ flushes < MaxFlushes
  /\ Transition(t, "idle", "flush_registry")
  /\ flushes' = flushes + 1
  /\ at_flush' = [at_flush EXCEPT ![t] = Len(rows)]
  /\ missed' = [missed EXCEPT ![t] = {}]
  /\ UNCHANGED <<config, deepVars, alive, call, seq, deep_seq, target,
                 pending, lockVars, tsvVars, begun, lossVars, flushed>>

FlushLockRegistry(t) ==
  /\ registry = NoThread
  /\ Transition(t, "flush_registry", "flush_pick")
  /\ registry' = t
  /\ pending' = [pending EXCEPT ![t] = logs]
  /\ UNCHANGED <<config, deepVars, alive, call, seq, deep_seq, target,
                 holder, tsvVars, countVars>>

\* The registry is a HashMap: its logs come in any order.
FlushPick(t) ==
  /\ \E f \in pending[t] :
       /\ target' = [target EXCEPT ![t] = f]
       /\ pending' = [pending EXCEPT ![t] = @ \ {f}]
  /\ Transition(t, "flush_pick", "flush_log")
  /\ UNCHANGED <<config, deepVars, alive, call, seq, deep_seq, lockVars,
                 tsvVars, countVars>>

FlushLockLog(t) ==
  /\ holder[target[t]] = NoThread
  /\ Transition(t, "flush_log", "flush_write")
  /\ holder' = [holder EXCEPT ![target[t]] = t]
  /\ UNCHANGED <<config, deepVars, alive, call, seq, deep_seq, target,
                 pending, registry, tsvVars, countVars>>

\* An error of flush_last is ignored: flush_all goes on with the next log.
FlushWrite(t) ==
  LET f == target[t] IN
  /\ Transition(t, "flush_write", "flush_pick")
  /\ \/ FlushLast(f) /\ UNCHANGED <<failures, missed>>
     \/ /\ DropLast(f) \/ StallFlush(f)
        /\ Fails
        /\ missed' = [missed EXCEPT ![t] = @ \cup {f}]
  /\ holder' = [holder EXCEPT ![f] = NoThread]
  /\ UNCHANGED <<config, alive, call, seq, deep_seq, target, pending, registry,
                 tsvVars, begun, flushes, at_flush, flushed, lost, kept>>

\* Every log was visited: flush_all returns and drops the registry's guard.
FlushDone(t) ==
  /\ pending[t] = {}
  /\ Transition(t, "flush_pick", "idle")
  /\ registry' = NoThread
  /\ flushed' = [f \in Functions |->
                   IF f \notin missed[t] /\ at_flush[t] > flushed[f]
                   THEN at_flush[t] ELSE flushed[f]]
  /\ UNCHANGED <<config, deepVars, alive, call, seq, deep_seq, target, pending,
                 holder, tsvVars, begun, lossVars, flushes, at_flush, missed>>
-----------------------------------------------------------------------------
\* A thread that is not in the recorder ends the process.  Statics are not
\* dropped: what the BufWriters hold is lost.
Exit(t) ==
  /\ pc[t] \in {"idle", "call"}
  /\ alive' = FALSE
  /\ UNCHANGED <<config, deepVars, threadVars, lockVars, tsvVars, countVars>>

\* The steps a scheduler owes a thread once it is in finish or flush_all.
Step(t) ==
  /\ alive
  /\ \/ LockRegistry(t) \/ OpenLog(t) \/ LockLog(t) \/ Record(t) \/ WriteRow(t)
     \/ FlushLockRegistry(t) \/ FlushPick(t) \/ FlushLockLog(t)
     \/ FlushWrite(t) \/ FlushDone(t)

\* What the instrumented program does when it likes, or never.
Choice(t) ==
  /\ alive
  /\ New(t) \/ FinishInactive(t) \/ TakeSeq(t) \/ StartFlush(t) \/ Exit(t)

Exited == ~alive /\ UNCHANGED vars

Next == (\E t \in Threads : Step(t) \/ Choice(t)) \/ Exited

Spec == Init /\ [][Next]_vars

(***************************************************************************)
(* A thread inside finish or flush_all is scheduled again.  Weak fairness  *)
(* is enough for the mutexes because MaxCalls and MaxFlushes bound how     *)
(* often other threads can take them first.                                *)
(***************************************************************************)
FairSpec == Spec /\ \A t \in Threads : WF_vars(Step(t))
-----------------------------------------------------------------------------
InFinish(t) == pc[t] \in Finishing

\* Entries of f's log that carry the number n.
EntriesAt(f, n) == {k \in DOMAIN file[f] : file[f][k].seq = n}

(***************************************************************************)
(* No two rows have the same number, and no number is lost: once no thread *)
(* is between SEQ.fetch_add and its row, the rows hold 0 .. SEQ-1.         *)
(***************************************************************************)
RowsNumbered ==
  /\ \A i, j \in DOMAIN rows : rows[i].seq = rows[j].seq => i = j
  /\ config.tsv /\ ~(\E t \in Threads : InFinish(t)) =>
       {rows[i].seq : i \in DOMAIN rows} = 0 .. SEQ - 1

(***************************************************************************)
(* A row's deep_seq picks out one entry in the log of its function, and    *)
(* that entry holds the inputs and outputs of the call the row is about:   *)
(* the promise of the deep_seq column (src/src/lib.rs:10).                 *)
(***************************************************************************)
DeepSeqResolves ==
  \A i \in DOMAIN rows :
    rows[i].deep_seq # None =>
      \E k \in DOMAIN file[rows[i].call.fn] :
        /\ EntriesAt(rows[i].call.fn, rows[i].deep_seq) = {k}
        /\ Matches(file[rows[i].call.fn][k], rows[i].call)

(***************************************************************************)
(* No two rows point at the same entry: from the table, every entry is the *)
(* record of one call.                                                     *)
(***************************************************************************)
RowsShareNoEntry ==
  \A i, j \in DOMAIN rows :
    /\ rows[i].deep_seq # None
    /\ rows[i].call.fn = rows[j].call.fn
    /\ rows[i].deep_seq = rows[j].deep_seq
    => i = j

(***************************************************************************)
(* The log and the table agree the other way round: an entry has a row     *)
(* that points at it, or a thread about to write that row, exactly if it   *)
(* did not go through last_buffer.  Under the policies that keep last      *)
(* calls, too, no other entry is left without a row, and none that was     *)
(* kept and flushed later is pointed at.                                   *)
(***************************************************************************)
Pointing(f, n) ==
  {i \in DOMAIN rows : rows[i].call.fn = f /\ rows[i].deep_seq = n}

\* The entries of f's file that DeepLog::record itself wrote.
Recorded(f) == {k \in DOMAIN file[f] : file[f][k].seq \notin kept[f]}

EntriesHaveRows ==
  config.tsv =>
    \A f \in Functions : \A k \in DOMAIN file[f] :
      LET n == file[f][k].seq IN
      k \in Recorded(f) <=>
        \/ Pointing(f, n) # {}
        \/ \E t \in Threads : pc[t] = "row" /\ call[t].fn = f /\ deep_seq[t] = n

(***************************************************************************)
(* However threads interleave, record has written at most one entry for    *)
(* each distinct captured input, and seen_hashes holds those it has        *)
(* written and those whose write failed, which it never writes again: an   *)
(* input the policy has let through is missing only after an I/O error,    *)
(* and then for good (writer.rs:99 comes before the write).                *)
(***************************************************************************)
OneEntryPerInput ==
  \A f \in Functions :
    /\ \A j, k \in Recorded(f) : file[f][j].hash = file[f][k].hash => j = k
    /\ \A k \in Recorded(f) : file[f][k].hash \notin lost[f]
    /\ seen_hashes[f] = {file[f][k].hash : k \in Recorded(f)} \cup lost[f]

(***************************************************************************)
(* Once a flush_all has returned, every entry that a row already pointed   *)
(* at when it was called has left its log's buffer for the file on disk,   *)
(* whoever wrote the row and whatever is recorded meanwhile or lost at     *)
(* exit, unless that flush_all could not flush that very log: an error on  *)
(* one log, which mod.rs:158 ignores, holds back no other.                 *)
(***************************************************************************)
FlushedRowsOnDisk ==
  \A f \in Functions : \A i \in 1 .. flushed[f] :
    rows[i].call.fn = f /\ rows[i].deep_seq # None =>
      EntriesAt(f, rows[i].deep_seq) \subseteq OnDisk(f)

(***************************************************************************)
(* A call in finish, and a flush_all, end: no lock is left held, and the   *)
(* order registry-then-log of flush_all never closes a circle with the     *)
(* locks of finish.                                                        *)
(***************************************************************************)
FinishEnds ==
  \A t \in Threads :
    pc[t] \in Finishing \cup Flushing ~> (pc[t] = "idle" \/ ~alive)
-----------------------------------------------------------------------------
(***************************************************************************)
(* The recorder implements TraceLog: a call is open from Call::new to the  *)
(* write of its row, and an entry comes into being, for a reader who       *)
(* starts from the table, when the row that points at it is written.       *)
(***************************************************************************)
CapturedView(c) == [inputs |-> DeepView(c.input), outputs |-> DeepView(c.output)]

AbsBusy == {t \in Threads : pc[t] \in {"call"} \cup Finishing}

AbsTable ==
  {[seq |-> rows[i].seq, call |-> rows[i].call, deep_seq |-> rows[i].deep_seq] :
     i \in DOMAIN rows}

AbsEntries ==
  [f \in Functions |->
     {[seq  |-> e.seq,
       view |-> [inputs |-> e.inputs, outputs |-> e.outputs]] :
        e \in {file[f][k] : k \in {j \in DOMAIN file[f] :
                                    Pointing(f, file[f][j].seq) # {}}}}]

Abstract == INSTANCE TraceLog WITH
  View <- CapturedView, Numbers <- 0 .. MaxCalls, Absent <- None,
  tracing <- config.tsv, busy <- AbsBusy, current <- call, table <- AbsTable,
  entries <- AbsEntries

\* Every behaviour of the recorder is one TraceLog allows.
ImplementsTraceLog == Abstract!Spec
=============================================================================
