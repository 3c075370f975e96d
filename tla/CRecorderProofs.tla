--------------------------- MODULE CRecorderProofs --------------------------
(***************************************************************************)
(* Theorems about CRecorder, for every finite set of threads, every set of *)
(* functions, inputs and configurations, every bound and every content     *)
(* hash.                                                                   *)
(***************************************************************************)
EXTENDS CRecorderInv, RecordingLemmas

LEMMA InitType == Init => TypeOK
  <1> SUFFICES ASSUME Init PROVE TypeOK
    OBVIOUS
  <1>1. (CHOOSE c \in Calls : TRUE) \in Calls
    BY CallsAssumption
  <1>2. call \in [Threads -> Calls]
    BY <1>1 DEF Init
  <1>3. config \in Config
    BY CRecorderAssumption DEF Init
  <1>4. /\ pc \in [Threads -> {"idle", "call"} \cup Finishing \cup Flushing]
        /\ deep_seq \in [Threads -> Nat \cup {None}]
        /\ pending \in [Threads -> SUBSET Functions]
    BY DEF Init
  <1>5. /\ df_seq \in [Functions -> Nat] /\ durable \in [Functions -> Nat]
        /\ file \in [Functions -> Seq(Entry)] /\ rows \in Seq(Row)
    BY DEF Init
  <1>6. QED
    BY <1>2, <1>3, <1>4, <1>5 DEF Init, TypeOK

\* What the write of an entry does to its file.
LEMMA WriteEntryFile ==
  ASSUME TypeOK, NEW t \in Threads, WriteEntry(t), deep_seq[t] \in Nat
  PROVE  /\ call[t] \in Calls /\ call[t].fn \in Functions
         /\ EntryOf(call[t], deep_seq[t]) \in Entry
         /\ file' = [file EXCEPT ![call[t].fn] =
                       Append(@, EntryOf(call[t], deep_seq[t]))]
         /\ file' \in [Functions -> Seq(Entry)]
         /\ durable' \in [Functions -> Nat]
         /\ \A f \in Functions : durable[f] <= durable'[f]
  <1> DEFINE f == call[t].fn
             e == EntryOf(call[t], deep_seq[t])
  <1>1. call[t] \in Calls /\ f \in Functions
    BY DEF TypeOK, Calls
  <1>2. e \in Entry
    BY <1>1, EntryOfType
  <1>3. file' = [file EXCEPT ![f] = Append(@, e)]
    BY DEF WriteEntry
  <1>4. file \in [Functions -> Seq(Entry)] /\ durable \in [Functions -> Nat]
    BY DEF TypeOK
  <1>5. PICK d \in durable[f] .. Pieces(Len(file'[f])) :
          durable' = [durable EXCEPT ![f] = d]
    BY DEF WriteEntry
  <1> HIDE DEF e, f
  <1>6. Append(file[f], e) \in Seq(Entry)
    BY <1>1, <1>2, <1>4, AppendFacts
  <1>7. file' \in [Functions -> Seq(Entry)]
    BY <1>1, <1>3, <1>4, <1>6
  <1>8. Pieces(Len(file'[f])) \in Nat /\ durable[f] \in Nat
    BY <1>1, <1>4, <1>7 DEF Pieces
  <1>9. d \in Nat /\ durable[f] <= d
    BY <1>8
  <1>10. /\ durable' \in [Functions -> Nat]
         /\ \A g \in Functions : durable[g] <= durable'[g]
    BY <1>1, <1>4, <1>5, <1>9
  <1>11. QED
    BY <1>1, <1>2, <1>3, <1>7, <1>10 DEF e, f

\* A row is appended, or there is no TSV file and nothing is.
LEMMA WriteRowRows ==
  ASSUME TypeOK, NEW t \in Threads, WriteRow(t)
  PROVE  /\ rows' \in Seq(Row) /\ tracehash_seq' \in Nat
         /\ \/ rows' = rows /\ tracehash_seq' = tracehash_seq /\ ~config.tsv
            \/ /\ config.tsv
               /\ tracehash_seq' = tracehash_seq + 1
               /\ Len(rows') = Len(rows) + 1
               /\ DOMAIN rows = 1 .. Len(rows)
               /\ DOMAIN rows' = DOMAIN rows \cup {Len(rows) + 1}
               /\ \A i \in DOMAIN rows : rows'[i] = rows[i]
               /\ rows'[Len(rows) + 1] = RowOf(t)
  <1>1. rows \in Seq(Row) /\ RowOf(t) \in Row
    BY DEF TypeOK, Row, RowOf
  <1>2. CASE config.tsv /\ rows' = Append(rows, RowOf(t))
                /\ tracehash_seq' = tracehash_seq + 1
    <2> HIDE DEF RowOf
    <2>1. QED
      BY <1>1, <1>2, AppendFacts DEF TypeOK
  <1>3. CASE ~config.tsv /\ UNCHANGED tsvVars
    BY <1>3 DEF tsvVars, TypeOK
  <1>4. QED
    BY <1>2, <1>3 DEF WriteRow

LEMMA NextType ==
  ASSUME TypeOK, DeepSeqInv, [Next]_vars
  PROVE  TypeOK'
  <1> USE DEF Finishing, Flushing, Transition
  <1>1. ASSUME NEW t \in Threads, Step(t)
        PROVE  TypeOK'
    <2>0. call[t] \in Calls /\ call[t].fn \in Functions
      BY DEF TypeOK, Calls
    <2>1. CASE FindOrCreate(t)
      BY <2>0, <2>1 DEF FindOrCreate, TypeOK, localVars, tsvVars, countVars
    <2>2. CASE CheckEmit(t)
      BY <2>2 DEF CheckEmit, TypeOK, localVars, deepVars, tsvVars, countVars
    <2>3. CASE ReadSeq(t)
      BY <2>0, <2>3 DEF ReadSeq, TypeOK, deepVars, tsvVars, countVars
    <2>4. CASE WriteEntry(t)
      <3>1. deep_seq[t] \in Nat
        BY <2>4 DEF WriteEntry, DeepSeqInv
      <3>2. /\ file' \in [Functions -> Seq(Entry)]
            /\ durable' \in [Functions -> Nat]
        BY <2>4, <3>1, WriteEntryFile
      <3>3. df_seq' \in [Functions -> Nat]
        BY <2>0, <2>4 DEF WriteEntry, TypeOK
      <3>4. pc' \in [Threads -> {"idle", "call"} \cup Finishing \cup Flushing]
        BY <2>4 DEF WriteEntry, TypeOK
      <3>5. QED
        BY <2>4, <3>2, <3>3, <3>4
        DEF WriteEntry, TypeOK, localVars, tsvVars, countVars
    <2>5. CASE WriteRow(t)
      <3>1. rows' \in Seq(Row) /\ tracehash_seq' \in Nat
        BY <2>5, WriteRowRows
      <3>2. pc' \in [Threads -> {"idle", "call"} \cup Finishing \cup Flushing]
        BY <2>5 DEF WriteRow, TypeOK
      <3>3. QED
        BY <2>5, <3>1, <3>2 DEF WriteRow, TypeOK, localVars, deepVars, countVars
    <2>6. CASE FlushLockRegistry(t)
      BY <2>6 DEF FlushLockRegistry, TypeOK, deepVars, tsvVars, countVars
    <2>7. CASE FlushFile(t)
      <3>1. \A f \in Functions : Pieces(Len(file[f])) \in Nat
        BY DEF TypeOK, Pieces
      <3>2. QED
        BY <2>7, <3>1 DEF FlushFile, TypeOK, tsvVars, countVars
    <2>8. CASE FlushDone(t)
      BY <2>8 DEF FlushDone, TypeOK, localVars, deepVars, tsvVars
    <2>9. QED
      BY <1>1, <2>1, <2>2, <2>3, <2>4, <2>5, <2>6, <2>7, <2>8 DEF Step
  <1>2. ASSUME NEW t \in Threads, Choice(t)
        PROVE  TypeOK'
    <2>1. CASE Begin(t)
      BY <2>1 DEF Begin, TypeOK, deepVars, tsvVars
    <2>2. CASE FinishInactive(t)
      BY <2>2 DEF FinishInactive, TypeOK, localVars, deepVars, tsvVars, countVars
    <2>3. CASE Finish(t)
      BY <2>3 DEF Finish, TypeOK, deepVars, tsvVars, countVars
    <2>4. CASE StartFlush(t)
      <3>1. Len(rows) \in Nat
        BY DEF TypeOK
      <3>2. QED
        BY <2>4, <3>1 DEF StartFlush, TypeOK, localVars, deepVars, tsvVars
    <2>5. CASE Exit(t)
      <3>1. \A f \in Functions : Pieces(Len(file[f])) \in Nat
        BY DEF TypeOK, Pieces
      <3>2. durable' \in [Functions -> Nat]
        BY <2>5, <3>1 DEF Exit
      <3>3. QED
        BY <2>5, <3>2 DEF Exit, TypeOK, localVars, tsvVars, countVars
    <2>6. QED
      BY <1>2, <2>1, <2>2, <2>3, <2>4, <2>5 DEF Choice
  <1>3. CASE alive /\ Crash
    BY <1>3 DEF Crash, TypeOK, localVars, deepVars, tsvVars, countVars
  <1>4. CASE UNCHANGED vars
    BY <1>4 DEF vars, TypeOK, localVars, deepVars, tsvVars, countVars
  <1>5. QED
    BY <1>1, <1>2, <1>3, <1>4 DEF Next
-----------------------------------------------------------------------------
(***************************************************************************)
(* A thread's step leaves the other threads where they are, and files and  *)
(* table only grow.                                                        *)
(***************************************************************************)
LEMMA OtherThreads ==
  ASSUME TypeOK, NEW t \in Threads, Step(t) \/ Choice(t),
         NEW u \in Threads, u # t
  PROVE  /\ pc'[u] = pc[u] /\ call'[u] = call[u] /\ deep_seq'[u] = deep_seq[u]
         /\ pending'[u] = pending[u] /\ at_flush'[u] = at_flush[u]
  <1> USE DEF Transition, localVars, countVars
  <1>1. CASE Step(t)
    BY <1>1 DEF TypeOK, Step, FindOrCreate, CheckEmit, ReadSeq, WriteEntry, WriteRow,
       FlushLockRegistry, FlushFile, FlushDone
  <1>2. CASE Choice(t)
    BY <1>2 DEF TypeOK, Choice, Begin, FinishInactive, Finish, StartFlush, Exit
  <1>3. QED
    BY <1>1, <1>2

LEMMA StepKinds ==
  ASSUME [Next]_vars
  PROVE  \/ \E t \in Threads : WriteEntry(t) \/ WriteRow(t)
         \/ UNCHANGED <<file, df_seq, rows, tracehash_seq>>
  <1> USE DEF deepVars, tsvVars
  <1>1. ASSUME NEW t \in Threads, Step(t) \/ Choice(t),
               ~WriteEntry(t), ~WriteRow(t)
        PROVE  UNCHANGED <<file, df_seq, rows, tracehash_seq>>
    BY <1>1 DEF Step, Choice, FindOrCreate, CheckEmit, ReadSeq, FlushLockRegistry,
       FlushFile, FlushDone, Begin, FinishInactive, Finish, StartFlush, Exit
  <1>2. CASE alive /\ Crash
    BY <1>2 DEF Crash
  <1>3. CASE UNCHANGED vars
    BY <1>3 DEF vars
  <1>4. QED
    BY <1>1, <1>2, <1>3 DEF Next

FilesGrow ==
  \A f \in Functions : \A k \in DOMAIN file[f] :
    k \in DOMAIN file'[f] /\ file'[f][k] = file[f][k]

LEMMA NextGrow ==
  ASSUME TypeOK, DeepSeqInv, [Next]_vars
  PROVE  FilesGrow
  <1>1. ASSUME NEW t \in Threads, WriteEntry(t)
        PROVE  FilesGrow
    <2> DEFINE g == call[t].fn
               e == EntryOf(call[t], deep_seq[t])
    <2>1. deep_seq[t] \in Nat
      BY <1>1 DEF WriteEntry, Transition, DeepSeqInv
    <2>2. /\ g \in Functions /\ e \in Entry
          /\ file \in [Functions -> Seq(Entry)]
          /\ file' = [file EXCEPT ![g] = Append(@, e)]
      BY <1>1, <2>1, WriteEntryFile DEF TypeOK
    <2> HIDE DEF g, e
    <2>3. \A k \in DOMAIN file[g] :
            k \in DOMAIN Append(file[g], e) /\ Append(file[g], e)[k] = file[g][k]
      BY <2>2, AppendFacts
    <2>4. QED
      BY <2>2, <2>3 DEF FilesGrow
  <1>2. ASSUME NEW t \in Threads, WriteRow(t)
        PROVE  FilesGrow
    BY <1>2 DEF WriteRow, deepVars, FilesGrow
  <1>3. CASE UNCHANGED <<file, df_seq, rows, tracehash_seq>>
    BY <1>3 DEF FilesGrow
  <1>4. QED
    BY <1>1, <1>2, <1>3, StepKinds

LEMMA RowFields ==
  ASSUME TypeOK, NEW i \in DOMAIN rows
  PROVE  /\ rows[i].seq \in Nat
         /\ rows[i].call \in Calls
         /\ rows[i].call.fn \in Functions
         /\ rows[i].deep_seq \in Nat \cup {None}
  <1>1. rows \in Seq(Row)
    BY DEF TypeOK
  <1>2. rows[i] \in Row
    BY <1>1
  <1>3. QED
    BY <1>2 DEF Row, Calls
-----------------------------------------------------------------------------
(***************************************************************************)
(* CountersInv: a row takes the number and counts it in one step, and so   *)
(* does df->seq++ after the write of an entry.                             *)
(***************************************************************************)
LEMMA NextCounters ==
  ASSUME TypeOK, CountersInv, DeepSeqInv, [Next]_vars
  PROVE  CountersInv'
  <1>1. ASSUME NEW t \in Threads, WriteEntry(t)
        PROVE  CountersInv'
    <2> DEFINE g == call[t].fn
               e == EntryOf(call[t], deep_seq[t])
    <2>1. deep_seq[t] \in Nat
      BY <1>1 DEF WriteEntry, Transition, DeepSeqInv
    <2>2. /\ g \in Functions /\ e \in Entry
          /\ file \in [Functions -> Seq(Entry)]
          /\ file' = [file EXCEPT ![g] = Append(@, e)]
      BY <1>1, <2>1, WriteEntryFile DEF TypeOK
    <2>3. /\ rows' = rows /\ tracehash_seq' = tracehash_seq
          /\ df_seq' = [df_seq EXCEPT ![g] = @ + 1]
          /\ df_seq \in [Functions -> Nat]
      BY <1>1 DEF WriteEntry, tsvVars, TypeOK
    <2> HIDE DEF g, e
    <2>4. Len(Append(file[g], e)) = Len(file[g]) + 1
      BY <2>2, AppendFacts
    <2>5. \A f \in Functions : df_seq'[f] = Len(file'[f])
      BY <2>2, <2>3, <2>4 DEF CountersInv
    <2>6. QED
      BY <2>3, <2>5 DEF CountersInv, RowsInOrder
  <1>2. ASSUME NEW t \in Threads, WriteRow(t)
        PROVE  CountersInv'
    <2>1. file' = file /\ df_seq' = df_seq
      BY <1>2 DEF WriteRow, deepVars
    <2>2. RowOf(t).seq = tracehash_seq
      BY DEF RowOf
    <2>3. Len(rows) \in Nat
      BY DEF TypeOK
    <2>4. tracehash_seq' = Len(rows')
      BY <1>2, <2>3, WriteRowRows DEF CountersInv
    <2>5. \A i \in DOMAIN rows' : rows'[i].seq = i - 1
      <3>1. CASE rows' = rows
        BY <3>1 DEF CountersInv, RowsInOrder
      <3>2. CASE rows' # rows
        <4>1. /\ DOMAIN rows' = DOMAIN rows \cup {Len(rows) + 1}
              /\ \A i \in DOMAIN rows : rows'[i] = rows[i]
              /\ rows'[Len(rows) + 1] = RowOf(t)
          BY <1>2, <3>2, WriteRowRows
        <4>2. RowOf(t).seq = Len(rows) + 1 - 1
          BY <2>2, <2>3 DEF CountersInv
        <4>3. QED
          BY <4>1, <4>2 DEF CountersInv, RowsInOrder
      <3>3. QED
        BY <3>1, <3>2
    <2>6. QED
      BY <2>1, <2>4, <2>5 DEF CountersInv, RowsInOrder
  <1>3. CASE UNCHANGED <<file, df_seq, rows, tracehash_seq>>
    BY <1>3 DEF CountersInv, RowsInOrder
  <1>4. QED
    BY <1>1, <1>2, <1>3, StepKinds
-----------------------------------------------------------------------------
(***************************************************************************)
(* DeepSeqInv.                                                             *)
(***************************************************************************)
ResolvesThen(c, n) ==
  \E k \in DOMAIN file'[c.fn] : file'[c.fn][k].seq = n /\ Matches(file'[c.fn][k], c)

LEMMA ResolvesStays ==
  ASSUME FilesGrow, NEW c, NEW n, c.fn \in Functions, Resolves(c, n)
  PROVE  ResolvesThen(c, n)
  BY DEF FilesGrow, Resolves, EntriesAt, ResolvesThen

\* DeepSeqInv of the next state, spelt out.
LEMMA DeepSeqThen ==
  ASSUME \A i \in DOMAIN rows' :
           rows'[i].deep_seq # None => ResolvesThen(rows'[i].call, rows'[i].deep_seq),
         \A u \in Threads :
           /\ pc'[u] \in {"registry", "emit", "read"} => deep_seq'[u] = None
           /\ pc'[u] = "write" => deep_seq'[u] \in Nat
           /\ pc'[u] = "row" /\ deep_seq'[u] # None =>
                ResolvesThen(call'[u], deep_seq'[u])
  PROVE  DeepSeqInv'
  BY DEF DeepSeqInv, DeepSeqFindsEntry, Resolves, EntriesAt, ResolvesThen

LEMMA NextDeepSeq ==
  ASSUME TypeOK, DeepSeqInv, [Next]_vars
  PROVE  DeepSeqInv'
  <1> USE DEF Transition
  <1> DEFINE Fine(u) ==
        /\ pc'[u] \in {"registry", "emit", "read"} => deep_seq'[u] = None
        /\ pc'[u] = "write" => deep_seq'[u] \in Nat
        /\ pc'[u] = "row" /\ deep_seq'[u] # None =>
             ResolvesThen(call'[u], deep_seq'[u])
  <1>1. FilesGrow
    BY NextGrow
  <1>2. \A u \in Threads : call[u].fn \in Functions
    BY DEF TypeOK, Calls
  <1>3. ASSUME NEW u \in Threads, pc'[u] = pc[u], call'[u] = call[u],
               deep_seq'[u] = deep_seq[u]
        PROVE  Fine(u)
    BY <1>1, <1>2, <1>3, ResolvesStays DEF DeepSeqInv
  \* The rows that were there.
  <1>4. \A i \in DOMAIN rows :
          rows[i].deep_seq # None => ResolvesThen(rows[i].call, rows[i].deep_seq)
    BY <1>1, RowFields, ResolvesStays DEF DeepSeqInv, DeepSeqFindsEntry, Resolves
  <1>5. ASSUME NEW t \in Threads, WriteRow(t)
        PROVE  \A i \in DOMAIN rows' : rows'[i].deep_seq # None =>
                 ResolvesThen(rows'[i].call, rows'[i].deep_seq)
    <2>1. RowOf(t).call = call[t] /\ RowOf(t).deep_seq = deep_seq[t]
      BY DEF RowOf
    <2>2. deep_seq[t] # None => ResolvesThen(call[t], deep_seq[t])
      BY <1>1, <1>2, <1>5, ResolvesStays DEF WriteRow, DeepSeqInv
    <2>3. QED
      BY <1>4, <1>5, <2>1, <2>2, WriteRowRows
  <1>6. \A i \in DOMAIN rows' : rows'[i].deep_seq # None =>
          ResolvesThen(rows'[i].call, rows'[i].deep_seq)
    <2>1. ASSUME NEW t \in Threads, WriteEntry(t)
          PROVE  rows' = rows
      BY <2>1 DEF WriteEntry, tsvVars
    <2>2. QED
      BY <1>4, <1>5, <2>1, StepKinds
  <1>7. ASSUME NEW t \in Threads, Step(t)
        PROVE  Fine(t)
    <2>1. CASE FindOrCreate(t)
      BY <2>1 DEF FindOrCreate, localVars, TypeOK, DeepSeqInv
    <2>2. CASE CheckEmit(t)
      BY <2>2 DEF CheckEmit, localVars, TypeOK, DeepSeqInv
    <2>3. CASE ReadSeq(t)
      <3>1. df_seq[call[t].fn] \in Nat
        BY <1>2 DEF TypeOK
      <3>2. QED
        BY <2>3, <3>1 DEF ReadSeq, TypeOK, DeepSeqInv
    <2>4. CASE WriteEntry(t)
      <3> DEFINE e == EntryOf(call[t], deep_seq[t])
                 g == call[t].fn
      <3>1. /\ pc'[t] = "row" /\ call' = call /\ deep_seq' = deep_seq
            /\ deep_seq[t] \in Nat
        BY <2>4 DEF WriteEntry, localVars, TypeOK, DeepSeqInv
      <3>2. /\ g \in Functions /\ e \in Entry
            /\ file' = [file EXCEPT ![g] = Append(@, e)]
            /\ file \in [Functions -> Seq(Entry)]
        BY <2>4, <3>1, WriteEntryFile DEF TypeOK
      <3>3. e.seq = deep_seq[t] /\ Matches(e, call[t])
        BY EntryOfMatches
      <3>4. \E k \in DOMAIN file'[g] : file'[g][k] = e
        <4> HIDE DEF g, e
        <4>1. file'[g] = Append(file[g], e) /\ file[g] \in Seq(Entry)
          BY <3>2
        <4>2. QED
          BY <3>2, <4>1, AppendFacts
      <3>5. ResolvesThen(call[t], deep_seq[t])
        BY <3>3, <3>4 DEF ResolvesThen
      <3>6. QED
        BY <3>1, <3>5
    <2>5. CASE WriteRow(t)
      BY <2>5 DEF WriteRow, TypeOK
    <2>6. CASE \/ FlushLockRegistry(t) \/ FlushFile(t) \/ FlushDone(t)
      <3>1. pc'[t] \in {"flush_file", "idle"}
        BY <2>6 DEF FlushLockRegistry, FlushFile, FlushDone, TypeOK
      <3>2. QED
        BY <3>1
    <2>7. QED
      BY <1>7, <2>1, <2>2, <2>3, <2>4, <2>5, <2>6 DEF Step
  <1>8. ASSUME NEW t \in Threads, Choice(t)
        PROVE  Fine(t)
    <2>1. CASE Exit(t)
      BY <1>3, <2>1 DEF Exit, localVars
    <2>2. CASE Begin(t) \/ FinishInactive(t) \/ StartFlush(t)
      <3>1. pc'[t] \in {"call", "idle", "flush_registry"}
        BY <2>2 DEF Begin, FinishInactive, StartFlush, TypeOK
      <3>2. QED
        BY <3>1
    <2>3. CASE Finish(t)
      BY <2>3 DEF Finish, TypeOK
    <2>4. QED
      BY <1>8, <2>1, <2>2, <2>3 DEF Choice
  <1>9. \A u \in Threads : Fine(u)
    <2>1. ASSUME NEW t \in Threads, Step(t) \/ Choice(t), NEW u \in Threads
          PROVE  Fine(u)
      <3>1. CASE u = t
        BY <1>7, <1>8, <2>1, <3>1
      <3>2. CASE u # t
        BY <1>3, <2>1, <3>2, OtherThreads
      <3>3. QED
        BY <3>1, <3>2
    <2>2. CASE (alive /\ Crash) \/ UNCHANGED vars
      <3>1. UNCHANGED <<pc, call, deep_seq>>
        BY <2>2 DEF Crash, vars, localVars
      <3>2. QED
        BY <1>3, <3>1
    <2> HIDE DEF Fine
    <2>3. QED
      BY <2>1, <2>2 DEF Next
  <1>10. QED
    BY <1>6, <1>9, DeepSeqThen
-----------------------------------------------------------------------------
(***************************************************************************)
(* LimitInv, for one function: how the entries of its file and the threads *)
(* that were let through can change together.                              *)
(***************************************************************************)
LEMMA AdmittedFinite ==
  ASSUME NEW f
  PROVE  /\ IsFiniteSet(Admitted(f)) /\ Cardinality(Admitted(f)) \in Nat
         /\ Cardinality(Threads) \in Nat
         /\ Cardinality(Admitted(f)) <= Cardinality(Threads)
  <1>1. IsFiniteSet(Threads) /\ Admitted(f) \subseteq Threads
    BY CRecorderAssumption DEF Admitted
  <1>2. QED
    BY <1>1, FS_Subset, FS_CardinalityType

LEMMA AdmittedNext ==
  ASSUME TypeOK, CountersInv, [Next]_vars, NEW f \in Functions
  PROVE  \/ Admitted(f)' = Admitted(f) /\ file'[f] = file[f]
         \/ \E t \in Admitted(f) :
              /\ Admitted(f)' = Admitted(f) \ {t}
              /\ file'[f] = file[f] \/ Len(file'[f]) = Len(file[f]) + 1
         \/ \E t \in Threads \ Admitted(f) :
              /\ Admitted(f)' = Admitted(f) \cup {t}
              /\ file'[f] = file[f]
              /\ config.mode_all \/ Len(file[f]) < config.first_n
  <1> USE DEF Transition, Admitted
  <1>1. ASSUME NEW t \in Threads, CheckEmit(t)
        PROVE  \/ Admitted(f)' = Admitted(f) /\ file'[f] = file[f]
               \/ /\ t \in Threads \ Admitted(f)
                  /\ Admitted(f)' = Admitted(f) \cup {t}
                  /\ file'[f] = file[f]
                  /\ config.mode_all \/ Len(file[f]) < config.first_n
    <2>1. /\ pc[t] = "emit" /\ file' = file /\ call' = call
          /\ df_seq[f] = Len(file[f])
      BY <1>1 DEF CheckEmit, deepVars, localVars, CountersInv
    <2>2. CASE call[t].fn # f \/ pc' = [pc EXCEPT ![t] = "row"]
      BY <1>1, <2>1, <2>2 DEF CheckEmit, TypeOK
    <2>3. CASE call[t].fn = f /\ pc' = [pc EXCEPT ![t] = "read"]
                 /\ (config.mode_all \/ df_seq[f] < config.first_n)
      BY <2>1, <2>3 DEF TypeOK
    <2>4. QED
      BY <1>1, <2>2, <2>3 DEF CheckEmit
  <1>2. ASSUME NEW t \in Threads, ReadSeq(t)
        PROVE  \/ Admitted(f)' = Admitted(f) /\ file'[f] = file[f]
               \/ /\ t \in Admitted(f) /\ Admitted(f)' = Admitted(f) \ {t}
                  /\ file'[f] = file[f]
    <2>1. pc[t] = "read" /\ file' = file /\ call' = call
      BY <1>2 DEF ReadSeq, deepVars
    <2>2. CASE pc' = [pc EXCEPT ![t] = "write"]
      BY <2>1, <2>2 DEF TypeOK
    <2>3. CASE pc' = [pc EXCEPT ![t] = "row"]
      BY <2>1, <2>3 DEF TypeOK
    <2>4. QED
      BY <1>2, <2>2, <2>3 DEF ReadSeq
  <1>3. ASSUME NEW t \in Threads, WriteEntry(t)
        PROVE  \/ Admitted(f)' = Admitted(f) /\ file'[f] = file[f]
               \/ /\ t \in Admitted(f) /\ Admitted(f)' = Admitted(f) \ {t}
                  /\ Len(file'[f]) = Len(file[f]) + 1
    <2> DEFINE e == EntryOf(call[t], deep_seq[t])
    <2>1. /\ pc[t] = "write" /\ pc' = [pc EXCEPT ![t] = "row"] /\ call' = call
          /\ file' = [file EXCEPT ![call[t].fn] = Append(@, e)]
          /\ file \in [Functions -> Seq(Entry)]
      BY <1>3 DEF WriteEntry, localVars, TypeOK
    <2> HIDE DEF e
    <2>2. CASE call[t].fn # f
      BY <2>1, <2>2 DEF TypeOK
    <2>3. CASE call[t].fn = f
      <3>1. file[f] \in Seq(Entry) /\ file'[f] = Append(file[f], e)
        BY <2>1, <2>3
      <3>2. Len(file'[f]) = Len(file[f]) + 1
        BY <3>1
      <3>3. t \in Admitted(f) /\ Admitted(f)' = Admitted(f) \ {t}
        BY <2>1, <2>3 DEF TypeOK
      <3>4. QED
        BY <3>2, <3>3
    <2>4. QED
      BY <2>2, <2>3
  <1>4. ASSUME file' = file,
               \A u \in Threads : \/ pc'[u] = pc[u] /\ call'[u] = call[u]
                                  \/ {pc[u], pc'[u]} \cap {"read", "write"} = {}
        PROVE  Admitted(f)' = Admitted(f) /\ file'[f] = file[f]
    BY <1>4
  <1>5. ASSUME NEW t \in Threads,
               \/ FindOrCreate(t) \/ WriteRow(t) \/ FlushLockRegistry(t)
               \/ FlushFile(t) \/ FlushDone(t)
               \/ Begin(t) \/ FinishInactive(t) \/ Finish(t) \/ StartFlush(t)
               \/ Exit(t)
        PROVE  Admitted(f)' = Admitted(f) /\ file'[f] = file[f]
    <2>1. file' = file
      BY <1>5 DEF FindOrCreate, WriteRow, FlushLockRegistry, FlushFile, FlushDone,
         Begin, FinishInactive, Finish, StartFlush, Exit, deepVars
    <2>2. /\ {pc[t], pc'[t]} \cap {"read", "write"} = {}
          /\ \A u \in Threads \ {t} : pc'[u] = pc[u] /\ call'[u] = call[u]
      BY <1>5 DEF FindOrCreate, WriteRow, FlushLockRegistry, FlushFile, FlushDone,
         Begin, FinishInactive, Finish, StartFlush, Exit, localVars, TypeOK
    <2>3. QED
      BY <1>4, <2>1, <2>2
  <1>6. CASE (alive /\ Crash) \/ UNCHANGED vars
    BY <1>4, <1>6 DEF Crash, vars, localVars, deepVars
  <1> HIDE DEF Transition, Admitted
  <1>7. QED
    BY <1>1, <1>2, <1>3, <1>5, <1>6 DEF Next, Step, Choice

LEMMA NextLimit ==
  ASSUME TypeOK, CountersInv, LimitInv, [Next]_vars, TypeOK'
  PROVE  LimitInv'
  <1>1. config' = config
    BY DEF Next, Step, Choice, Crash, FindOrCreate, CheckEmit, ReadSeq, WriteEntry,
       WriteRow, FlushLockRegistry, FlushFile, FlushDone, Begin, FinishInactive,
       Finish, StartFlush, Exit, vars
  <1>2. SUFFICES ASSUME ~config.mode_all, NEW f \in Functions
        PROVE  \/ file'[f] = <<>> /\ Admitted(f)' = {}
               \/ /\ config.first_n > 0
                  /\ Len(file'[f]) + Cardinality(Admitted(f)')
                       < config.first_n + Cardinality(Threads)
    BY <1>1 DEF LimitInv
  <1> DEFINE A == Admitted(f)
             B == Admitted(f)'
             n == config.first_n
             m == Cardinality(Threads)
  <1>3. n \in Nat /\ Len(file[f]) \in Nat /\ Len(file'[f]) \in Nat
    <2>1. config \in Config
      BY DEF TypeOK
    <2>2. file[f] \in Seq(Entry) /\ file'[f] \in Seq(Entry)
      BY DEF TypeOK
    <2>3. QED
      BY <2>1, <2>2 DEF Config
  <1>4. /\ IsFiniteSet(A) /\ Cardinality(A) \in Nat /\ m \in Nat
        /\ Cardinality(A) <= m
    BY AdmittedFinite
  <1>5. IsFiniteSet(B) /\ Cardinality(B) \in Nat /\ Cardinality(B) <= m
    <2>1. IsFiniteSet(Threads) /\ B \subseteq Threads
      BY CRecorderAssumption DEF Admitted
    <2> HIDE DEF B
    <2>2. QED
      BY <2>1, FS_Subset, FS_CardinalityType
  <1>6. \/ file[f] = <<>> /\ A = {}
        \/ n > 0 /\ Len(file[f]) + Cardinality(A) < n + m
    BY <1>2 DEF LimitInv
  <1>7. CASE B = A /\ file'[f] = file[f]
    BY <1>6, <1>7
  <1>8. ASSUME NEW t \in A, B = A \ {t},
               file'[f] = file[f] \/ Len(file'[f]) = Len(file[f]) + 1
        PROVE  n > 0 /\ Len(file'[f]) + Cardinality(B) < n + m
    <2>1. n > 0 /\ Len(file[f]) + Cardinality(A) < n + m
      BY <1>6
    <2> HIDE DEF A, B, n, m
    <2>2. Cardinality(B) = Cardinality(A) - 1
      BY <1>4, <1>8, Leave
    <2>3. Len(file'[f]) <= Len(file[f]) + 1
      BY <1>3, <1>8
    <2>4. QED
      BY <1>3, <1>4, <1>5, <2>1, <2>2, <2>3
  <1>9. ASSUME NEW t \in Threads \ A, B = A \cup {t}, file'[f] = file[f],
               Len(file[f]) < n
        PROVE  n > 0 /\ Len(file'[f]) + Cardinality(B) < n + m
    <2> HIDE DEF A, B, n, m
    <2>1. QED
      BY <1>3, <1>4, <1>5, <1>9
  <1>10. QED
    BY <1>2, <1>7, <1>8, <1>9, AdmittedNext
-----------------------------------------------------------------------------
(***************************************************************************)
(* FlushInv: what is on disk stays there, files with entries are in the    *)
(* registry, and so a flush_all comes to them.                             *)
(***************************************************************************)
DiskGrows ==
  \A f \in Functions : \A k \in OnDisk(f) : Pieces(k) <= durable'[f]

LEMMA FileLength ==
  ASSUME TypeOK, NEW f \in Functions
  PROVE  /\ Len(file[f]) \in Nat /\ DOMAIN file[f] = 1 .. Len(file[f])
         /\ durable[f] \in Nat
         /\ \A k \in DOMAIN file[f] :
              Pieces(k) \in Nat /\ Pieces(k) <= Pieces(Len(file[f]))
  <1>1. file[f] \in Seq(Entry) /\ durable[f] \in Nat
    BY DEF TypeOK
  <1>2. Len(file[f]) \in Nat /\ DOMAIN file[f] = 1 .. Len(file[f])
    BY <1>1
  <1>3. QED
    BY <1>1, <1>2 DEF Pieces

LEMMA NextDisk ==
  ASSUME TypeOK, DeepSeqInv, FlushInv, [Next]_vars
  PROVE  DiskGrows
  <1>1. ASSUME NEW t \in Threads, WriteEntry(t)
        PROVE  DiskGrows
    <2>1. deep_seq[t] \in Nat
      BY <1>1 DEF WriteEntry, Transition, DeepSeqInv
    <2>2. /\ \A f \in Functions : durable[f] <= durable'[f]
          /\ durable' \in [Functions -> Nat]
      BY <1>1, <2>1, WriteEntryFile
    <2>3. SUFFICES ASSUME NEW f \in Functions, NEW k \in OnDisk(f)
          PROVE  Pieces(k) <= durable'[f]
      BY DEF DiskGrows
    <2>4. Pieces(k) \in Nat /\ Pieces(k) <= durable[f] /\ durable[f] \in Nat
      BY FileLength DEF OnDisk
    <2>5. QED
      BY <2>2, <2>4
  <1>2. ASSUME NEW t \in Threads, FlushFile(t)
        PROVE  DiskGrows
    <2>1. PICK g \in pending[t] :
            durable' = [durable EXCEPT ![g] = Pieces(Len(file[g]))]
      BY <1>2 DEF FlushFile
    <2>2. SUFFICES ASSUME NEW f \in Functions, NEW k \in OnDisk(f)
          PROVE  Pieces(k) <= durable'[f]
      BY DEF DiskGrows
    <2>3. durable'[f] = durable[f] \/ durable'[f] = Pieces(Len(file[f]))
      BY <2>1 DEF TypeOK
    <2>4. QED
      BY <2>3, FileLength DEF OnDisk
  <1>3. ASSUME NEW t \in Threads, Exit(t)
        PROVE  DiskGrows
    <2>1. SUFFICES ASSUME NEW f \in Functions, NEW k \in OnDisk(f)
          PROVE  Pieces(k) <= durable'[f]
      BY DEF DiskGrows
    <2>2. k \in DOMAIN file[f]
      BY DEF OnDisk
    <2>3. f \in deep_files
      <3>1. file[f] # <<>>
        BY <2>2
      <3>2. QED
        BY <3>1 DEF FlushInv
    <2>4. durable'[f] = Pieces(Len(file[f]))
      BY <1>3, <2>3 DEF Exit
    <2>5. QED
      BY <2>2, <2>4, FileLength
  <1>4. ASSUME durable' = durable
        PROVE  DiskGrows
    BY <1>4 DEF DiskGrows, OnDisk
  <1>5. ASSUME NEW t \in Threads,
               \/ FindOrCreate(t) \/ CheckEmit(t) \/ ReadSeq(t) \/ WriteRow(t)
               \/ FlushLockRegistry(t) \/ FlushDone(t) \/ Begin(t)
               \/ FinishInactive(t) \/ Finish(t) \/ StartFlush(t)
        PROVE  durable' = durable
    BY <1>5 DEF FindOrCreate, CheckEmit, ReadSeq, WriteRow, FlushLockRegistry,
       FlushDone, Begin, FinishInactive, Finish, StartFlush, deepVars
  <1>6. CASE (alive /\ Crash) \/ UNCHANGED vars
    BY <1>4, <1>6 DEF Crash, vars, deepVars
  <1>7. QED
    BY <1>1, <1>2, <1>3, <1>4, <1>5, <1>6 DEF Next, Step, Choice

LEMMA RowSafeStays ==
  ASSUME TypeOK, FilesGrow, DiskGrows, NEW i \in DOMAIN rows,
         rows'[i] = rows[i], RowSafe(i)
  PROVE  RowSafe(i)'
  <1> DEFINE f == rows[i].call.fn
  <1>1. f \in Functions
    BY RowFields
  <1>2. PICK k \in EntriesAt(f, rows[i].deep_seq) \cap OnDisk(f) :
          Matches(file[f][k], rows[i].call)
    BY DEF RowSafe
  <1>3. k \in DOMAIN file'[f] /\ file'[f][k] = file[f][k]
    BY <1>1, <1>2 DEF FilesGrow, OnDisk
  <1>4. Pieces(k) <= durable'[f]
    BY <1>1, <1>2 DEF DiskGrows
  <1>5. QED
    BY <1>2, <1>3, <1>4 DEF RowSafe, EntriesAt, OnDisk

\* The rows that were there before a step are there after it.
LEMMA RowsStay ==
  ASSUME TypeOK, [Next]_vars
  PROVE  /\ Len(rows) \in Nat /\ Len(rows') \in Nat /\ Len(rows) <= Len(rows')
         /\ DOMAIN rows = 1 .. Len(rows)
         /\ \A i \in DOMAIN rows : i \in DOMAIN rows' /\ rows'[i] = rows[i]
  <1>1. Len(rows) \in Nat /\ DOMAIN rows = 1 .. Len(rows)
    BY DEF TypeOK
  <1>2. CASE rows' = rows
    BY <1>1, <1>2
  <1>3. ASSUME NEW t \in Threads, WriteRow(t), rows' # rows
        PROVE  /\ Len(rows') = Len(rows) + 1
               /\ \A i \in DOMAIN rows : i \in DOMAIN rows' /\ rows'[i] = rows[i]
    BY <1>3, WriteRowRows
  <1>4. ASSUME NEW t \in Threads, WriteEntry(t)
        PROVE  rows' = rows
    BY <1>4 DEF WriteEntry, tsvVars
  <1>5. QED
    BY <1>1, <1>2, <1>3, <1>4, StepKinds

LEMMA NextRegistry ==
  ASSUME TypeOK, FlushInv, [Next]_vars
  PROVE  /\ deep_files \subseteq deep_files'
         /\ \A f \in Functions : file'[f] # <<>> => f \in deep_files'
         /\ \A u \in Threads : pc'[u] \in {"emit", "read", "write"} =>
              call'[u].fn \in deep_files'
  <1> USE DEF Transition
  <1>1. deep_files \subseteq deep_files'
    BY DEF Next, Step, Choice, Crash, FindOrCreate, CheckEmit, ReadSeq, WriteEntry,
       WriteRow, FlushLockRegistry, FlushFile, FlushDone, Begin, FinishInactive,
       Finish, StartFlush, Exit, vars, deepVars
  <1>2. ASSUME NEW f \in Functions, file'[f] # <<>>
        PROVE  f \in deep_files
    <2>1. ASSUME NEW t \in Threads, WriteEntry(t), f = call[t].fn
          PROVE  f \in deep_files
      BY <2>1 DEF WriteEntry, FlushInv
    <2>2. ASSUME NEW t \in Threads, WriteEntry(t), f # call[t].fn
          PROVE  file'[f] = file[f]
      BY <1>2, <2>2 DEF WriteEntry, TypeOK
    <2>3. ASSUME NEW t \in Threads, WriteRow(t)
          PROVE  file' = file
      BY <2>3 DEF WriteRow, deepVars
    <2>4. QED
      BY <1>2, <2>1, <2>2, <2>3, StepKinds DEF FlushInv
  <1>3. ASSUME NEW u \in Threads, pc'[u] \in {"emit", "read", "write"}
        PROVE  call'[u].fn \in deep_files'
    <2>1. CASE pc'[u] = pc[u] /\ call'[u] = call[u]
      BY <1>1, <1>3, <2>1 DEF FlushInv
    <2>2. CASE FindOrCreate(u)
      BY <1>3, <2>2 DEF FindOrCreate, localVars, TypeOK
    <2>3. CASE CheckEmit(u) \/ ReadSeq(u)
      BY <1>1, <1>3, <2>3 DEF CheckEmit, ReadSeq, localVars, FlushInv, TypeOK
    <2>4. CASE \/ WriteEntry(u) \/ WriteRow(u) \/ FlushLockRegistry(u)
               \/ FlushDone(u) \/ Begin(u) \/ FinishInactive(u) \/ Finish(u)
               \/ StartFlush(u)
      BY <1>3, <2>4 DEF WriteEntry, WriteRow, FlushLockRegistry, FlushDone, Begin,
         FinishInactive, Finish, StartFlush, TypeOK
    <2>5. CASE FlushFile(u) \/ Exit(u) \/ Crash \/ UNCHANGED vars
      BY <2>1, <2>5 DEF FlushFile, Exit, Crash, vars, localVars
    <2>6. ASSUME NEW t \in Threads, Step(t) \/ Choice(t), t # u
          PROVE  pc'[u] = pc[u] /\ call'[u] = call[u]
      BY <2>6, OtherThreads
    <2>7. QED
      BY <2>1, <2>2, <2>3, <2>4, <2>5, <2>6 DEF Next, Step, Choice
  <1>4. QED
    BY <1>1, <1>2, <1>3

LEMMA NextFlush ==
  ASSUME TypeOK, DeepSeqInv, FlushInv, [Next]_vars
  PROVE  FlushInv'
  <1> USE DEF Transition
  <1> DEFINE Owed(u, i) == \/ pc[u] = "flush_registry"
                           \/ rows[i].call.fn \in pending[u]
                           \/ RowSafe(i)
  <1>1. FilesGrow /\ DiskGrows
    BY NextGrow, NextDisk
  <1>2. /\ Len(rows) \in Nat /\ Len(rows') \in Nat /\ Len(rows) <= Len(rows')
        /\ DOMAIN rows = 1 .. Len(rows)
        /\ \A i \in DOMAIN rows : i \in DOMAIN rows' /\ rows'[i] = rows[i]
    BY RowsStay
  <1>3. /\ at_flush \in [Threads -> Nat] /\ flushed \in Nat
        /\ flushed <= Len(rows)
        /\ \A u \in Threads : pc[u] \in Flushing =>
             /\ at_flush[u] <= Len(rows)
             /\ \A i \in 1 .. at_flush[u] : rows[i].deep_seq # None => Owed(u, i)
    BY DEF TypeOK, FlushInv
  <1>4. \A i \in DOMAIN rows : RowSafe(i) => RowSafe(i)'
    BY <1>1, <1>2, RowSafeStays
  \* A thread whose flush_all, if any, is where it was.
  <1>5. ASSUME NEW u \in Threads, pc'[u] = pc[u], pending'[u] = pending[u],
               at_flush'[u] = at_flush[u], pc'[u] \in Flushing
        PROVE  /\ at_flush'[u] <= Len(rows')
               /\ \A i \in 1 .. at_flush'[u] :
                    rows'[i].deep_seq # None => Owed(u, i)'
    <2>1. at_flush[u] \in Nat /\ at_flush[u] <= Len(rows)
      BY <1>3, <1>5
    <2>2. \A i \in 1 .. at_flush[u] : i \in DOMAIN rows /\ rows'[i] = rows[i]
      BY <1>2, <2>1
    <2>3. \A i \in 1 .. at_flush[u] : rows[i].deep_seq # None => Owed(u, i)
      BY <1>3, <1>5
    <2>4. QED
      BY <1>2, <1>4, <1>5, <2>1, <2>2, <2>3
  \* The thread that steps.
  <1>6. ASSUME NEW t \in Threads, Step(t) \/ Choice(t), pc'[t] \in Flushing
        PROVE  /\ at_flush'[t] <= Len(rows')
               /\ \A i \in 1 .. at_flush'[t] :
                    rows'[i].deep_seq # None => Owed(t, i)'
    <2>1. CASE StartFlush(t)
      <3>1. pc'[t] = "flush_registry" /\ at_flush'[t] = Len(rows) /\ rows' = rows
        BY <2>1 DEF StartFlush, tsvVars, TypeOK
      <3>2. QED
        BY <1>2, <3>1
    <2>2. CASE FlushLockRegistry(t)
      <3>1. /\ pc[t] = "flush_registry" /\ pending'[t] = deep_files
            /\ at_flush' = at_flush /\ rows' = rows
        BY <2>2 DEF FlushLockRegistry, tsvVars, countVars, TypeOK
      <3>2. at_flush[t] \in Nat /\ at_flush[t] <= Len(rows)
        BY <1>3, <3>1 DEF Flushing
      <3>3. ASSUME NEW i \in 1 .. at_flush[t], rows[i].deep_seq # None
            PROVE  rows[i].call.fn \in deep_files
        <4>1. i \in DOMAIN rows
          BY <1>2, <3>2
        <4>2. rows[i].call.fn \in Functions
          BY <4>1, RowFields
        <4>3. DOMAIN file[rows[i].call.fn] # {}
          BY <3>3, <4>1 DEF DeepSeqInv, DeepSeqFindsEntry, EntriesAt
        <4>4. file[rows[i].call.fn] # <<>>
          BY <4>3
        <4>5. QED
          BY <4>2, <4>4 DEF FlushInv
      <3>4. QED
        BY <3>1, <3>2, <3>3
    <2>3. CASE FlushFile(t)
      <3>1. PICK f \in pending[t] :
              /\ durable' = [durable EXCEPT ![f] = Pieces(Len(file[f]))]
              /\ pending' = [pending EXCEPT ![t] = @ \ {f}]
        BY <2>3 DEF FlushFile
      <3>2. /\ pc[t] = "flush_file" /\ pc' = pc
            /\ at_flush' = at_flush /\ rows' = rows /\ file' = file
            /\ f \in Functions /\ pending'[t] = pending[t] \ {f}
            /\ durable'[f] = Pieces(Len(file[f]))
        BY <2>3, <3>1 DEF FlushFile, tsvVars, countVars, TypeOK
      <3>3. /\ at_flush[t] \in Nat /\ at_flush[t] <= Len(rows)
            /\ \A i \in 1 .. at_flush[t] : rows[i].deep_seq # None => Owed(t, i)
        BY <1>3, <3>2 DEF Flushing
      <3>4. ASSUME NEW i \in 1 .. at_flush[t], rows[i].deep_seq # None,
                   rows[i].call.fn = f
            PROVE  RowSafe(i)'
        <4>1. i \in DOMAIN rows
          BY <1>2, <3>3
        <4>2. PICK k \in EntriesAt(f, rows[i].deep_seq) :
                Matches(file[f][k], rows[i].call)
          BY <3>4, <4>1 DEF DeepSeqInv, DeepSeqFindsEntry
        <4>3. Pieces(k) <= durable'[f]
          BY <3>2, <4>2, FileLength DEF EntriesAt
        <4>4. QED
          BY <3>2, <3>4, <4>2, <4>3 DEF RowSafe, EntriesAt, OnDisk
      <3>5. ASSUME NEW i \in 1 .. at_flush[t], rows[i].deep_seq # None
            PROVE  Owed(t, i)'
        <4>1. i \in DOMAIN rows
          BY <1>2, <3>3
        <4>2. QED
          BY <1>4, <3>2, <3>3, <3>4, <3>5, <4>1
      <3>6. QED
        BY <3>2, <3>3, <3>5
    <2>4. CASE Exit(t)
      BY <1>5, <1>6, <2>4 DEF Exit, localVars, countVars
    <2>5. CASE \/ FindOrCreate(t) \/ CheckEmit(t) \/ ReadSeq(t) \/ WriteEntry(t)
               \/ WriteRow(t) \/ FlushDone(t) \/ Begin(t) \/ FinishInactive(t)
               \/ Finish(t)
      <3>1. pc'[t] \notin Flushing
        BY <2>5 DEF FindOrCreate, CheckEmit, ReadSeq, WriteEntry, WriteRow,
           FlushDone, Begin, FinishInactive, Finish, Flushing, TypeOK
      <3>2. QED
        BY <1>6, <3>1
    <2>6. QED
      BY <1>6, <2>1, <2>2, <2>3, <2>4, <2>5 DEF Step, Choice
  <1>7. \A u \in Threads : pc'[u] \in Flushing =>
          /\ at_flush'[u] <= Len(rows')
          /\ \A i \in 1 .. at_flush'[u] : rows'[i].deep_seq # None => Owed(u, i)'
    <2>1. SUFFICES ASSUME NEW u \in Threads, pc'[u] \in Flushing
          PROVE  /\ at_flush'[u] <= Len(rows')
                 /\ \A i \in 1 .. at_flush'[u] :
                      rows'[i].deep_seq # None => Owed(u, i)'
      OBVIOUS
    <2>2. CASE (alive /\ Crash) \/ UNCHANGED vars
      BY <1>5, <2>1, <2>2 DEF Crash, vars, localVars, countVars
    <2>3. CASE Step(u) \/ Choice(u)
      BY <1>6, <2>1, <2>3
    <2>4. ASSUME NEW t \in Threads, Step(t) \/ Choice(t), t # u
          PROVE  /\ pc'[u] = pc[u] /\ pending'[u] = pending[u]
                 /\ at_flush'[u] = at_flush[u]
      BY <2>4, OtherThreads
    <2>5. CASE /\ pc'[u] = pc[u] /\ pending'[u] = pending[u]
               /\ at_flush'[u] = at_flush[u]
      BY <1>5, <2>1, <2>5
    <2> HIDE DEF Owed
    <2>6. QED
      BY <2>2, <2>3, <2>4, <2>5 DEF Next
  \* What earlier flush_alls have made safe, and what one that returns has.
  <1>8. /\ flushed' <= Len(rows')
        /\ \A i \in 1 .. flushed' : rows'[i].deep_seq # None => RowSafe(i)'
    <2>1. \A i \in 1 .. flushed : rows[i].deep_seq # None => RowSafe(i)
      BY DEF FlushInv, FlushedRowsOnDisk, RowSafe
    <2>2. CASE flushed' = flushed
      <3>1. \A i \in 1 .. flushed : i \in DOMAIN rows /\ rows'[i] = rows[i]
        BY <1>2, <1>3
      <3>2. QED
        BY <1>2, <1>3, <1>4, <2>1, <2>2, <3>1
    <2>3. ASSUME NEW t \in Threads, FlushDone(t), flushed' = at_flush[t]
          PROVE  /\ flushed' <= Len(rows')
                 /\ \A i \in 1 .. flushed' : rows'[i].deep_seq # None => RowSafe(i)'
      <3>1. /\ pc[t] = "flush_file" /\ pending[t] = {} /\ rows' = rows
        BY <2>3 DEF FlushDone, tsvVars
      <3>2. /\ at_flush[t] \in Nat /\ at_flush[t] <= Len(rows)
            /\ \A i \in 1 .. at_flush[t] : rows[i].deep_seq # None => RowSafe(i)
        BY <1>3, <3>1 DEF Flushing
      <3>3. \A i \in 1 .. at_flush[t] : i \in DOMAIN rows
        BY <1>2, <3>2
      <3>4. QED
        BY <1>4, <2>3, <3>1, <3>2, <3>3
    <2>4. flushed' = flushed \/ \E t \in Threads : FlushDone(t) /\ flushed' = at_flush[t]
      <3>1. ASSUME NEW t \in Threads, FlushDone(t)
            PROVE  flushed' = flushed \/ flushed' = at_flush[t]
        BY <3>1 DEF FlushDone
      <3>2. ASSUME NEW t \in Threads,
                   \/ FindOrCreate(t) \/ CheckEmit(t) \/ ReadSeq(t)
                   \/ WriteEntry(t) \/ WriteRow(t) \/ FlushLockRegistry(t)
                   \/ FlushFile(t) \/ Begin(t) \/ FinishInactive(t)
                   \/ Finish(t) \/ StartFlush(t) \/ Exit(t)
            PROVE  flushed' = flushed
        BY <3>2 DEF FindOrCreate, CheckEmit, ReadSeq, WriteEntry, WriteRow,
           FlushLockRegistry, FlushFile, Begin, FinishInactive, Finish, StartFlush,
           Exit, countVars
      <3>3. CASE Crash \/ UNCHANGED vars
        BY <3>3 DEF Crash, vars, countVars
      <3>4. QED
        BY <3>1, <3>2, <3>3 DEF Next, Step, Choice
    <2>5. QED
      BY <2>2, <2>3, <2>4
  <1>9. FlushedRowsOnDisk'
    BY <1>8 DEF FlushedRowsOnDisk, RowSafe
  <1>10. QED
    BY <1>7, <1>8, <1>9, NextRegistry DEF FlushInv
-----------------------------------------------------------------------------
LEMMA InitIInv == Init => IInv
  <1> SUFFICES ASSUME Init PROVE IInv
    OBVIOUS
  <1>1. /\ rows = <<>> /\ tracehash_seq = 0 /\ flushed = 0
        /\ \A t \in Threads : pc[t] = "idle"
        /\ \A f \in Functions : file[f] = <<>> /\ df_seq[f] = 0
    BY DEF Init
  <1>2. DOMAIN rows = {} /\ Len(rows) = 0
    BY <1>1
  <1>3. CountersInv
    BY <1>1, <1>2 DEF CountersInv, RowsInOrder
  <1>4. DeepSeqInv
    BY <1>1, <1>2 DEF DeepSeqInv, DeepSeqFindsEntry
  <1>5. LimitInv
    BY <1>1 DEF LimitInv, Admitted
  <1>6. FlushInv
    BY <1>1, <1>2 DEF FlushInv, Flushing, FlushedRowsOnDisk
  <1>7. QED
    BY <1>3, <1>4, <1>5, <1>6, InitType DEF IInv

LEMMA NextIInv == IInv /\ [Next]_vars => IInv'
  <1> SUFFICES ASSUME IInv, [Next]_vars PROVE IInv'
    OBVIOUS
  <1>1. TypeOK'
    BY NextType DEF IInv
  <1>2. QED
    BY <1>1, NextCounters, NextDeepSeq, NextLimit, NextFlush DEF IInv

(***************************************************************************)
(* The inductive invariant holds in every reachable state, however many    *)
(* threads call one function.                                              *)
(***************************************************************************)
THEOREM Invariance == Spec => []IInv
  BY InitIInv, NextIInv, PTL DEF Spec

(***************************************************************************)
(* Rows are in the order of their numbers: see RowsInOrder.                *)
(***************************************************************************)
THEOREM RowOrder == Spec => []RowsInOrder
  <1>1. IInv => RowsInOrder
    BY DEF IInv, CountersInv
  <1>2. QED
    BY <1>1, Invariance, PTL

(***************************************************************************)
(* In spite of the unlocked read of df->seq, the deep_seq of a row leads   *)
(* to an entry of the row's own call: see DeepSeqFindsEntry.               *)
(***************************************************************************)
THEOREM DeepSeqResolution == Spec => []DeepSeqFindsEntry
  <1>1. IInv => DeepSeqFindsEntry
    BY DEF IInv, DeepSeqInv
  <1>2. QED
    BY <1>1, Invariance, PTL

(***************************************************************************)
(* The check of the limit and the write are two critical sections: with m  *)
(* threads a file ends at most m-1 entries past the limit, and a limit of  *)
(* 0 is kept: see OvershootBounded.                                        *)
(***************************************************************************)
THEOREM Overshoot == Spec => []OvershootBounded
  <1>1. IInv => OvershootBounded
    <2> SUFFICES ASSUME IInv, ~config.mode_all, NEW f \in Functions, file[f] # <<>>
                 PROVE  /\ config.first_n > 0
                        /\ Len(file[f]) < config.first_n + Cardinality(Threads)
      BY DEF OvershootBounded
    <2>1. /\ config.first_n > 0
          /\ Len(file[f]) + Cardinality(Admitted(f))
               < config.first_n + Cardinality(Threads)
      BY DEF IInv, LimitInv
    <2>2. Cardinality(Admitted(f)) \in Nat /\ Cardinality(Threads) \in Nat
      BY AdmittedFinite
    <2>3. Len(file[f]) \in Nat /\ config.first_n \in Nat
      BY DEF IInv, TypeOK, Config
    <2>4. QED
      BY <2>1, <2>2, <2>3
  <1>2. QED
    BY <1>1, Invariance, PTL

(***************************************************************************)
(* What the rows point at when flush_all is called survives a crash once   *)
(* it has returned: see FlushedRowsOnDisk.                                 *)
(***************************************************************************)
THEOREM FlushedDurability == Spec => []FlushedRowsOnDisk
  <1>1. IInv => FlushedRowsOnDisk
    BY DEF IInv, FlushInv
  <1>2. QED
    BY <1>1, Invariance, PTL
-----------------------------------------------------------------------------
(***************************************************************************)
(* One thread to a function.                                               *)
(***************************************************************************)
InCall(t) == pc[t] \in {"call"} \cup Finishing

HasRowThen(f, n) ==
  \E i \in DOMAIN rows' : rows'[i].call.fn = f /\ rows'[i].deep_seq = n

\* What OwnedInv says of one thread, now and in the next state.
OwnedThread(t) ==
  /\ InCall(t) => call[t].fn \in Uses[t]
  /\ pc[t] = "write" => deep_seq[t] = df_seq[call[t].fn]
  /\ pc[t] = "row" /\ deep_seq[t] # None => ~HasRow(call[t].fn, deep_seq[t])

OwnedThreadThen(t) ==
  /\ pc'[t] \in {"call"} \cup Finishing => call'[t].fn \in Uses[t]
  /\ pc'[t] = "write" => deep_seq'[t] = df_seq'[call'[t].fn]
  /\ pc'[t] = "row" /\ deep_seq'[t] # None =>
       ~HasRowThen(call'[t].fn, deep_seq'[t])

LEMMA OneUser ==
  ASSUME OwnedUse, OwnedInv, NEW t \in Threads, NEW u \in Threads,
         InCall(t), InCall(u), call[t].fn = call[u].fn
  PROVE  t = u
  BY DEF OwnedUse, OwnedInv, InCall

\* Entry k of a file has the number k-1.
LEMMA NextNumbered ==
  ASSUME IInv, OwnedInv, [Next]_vars
  PROVE  \A f \in Functions : \A k \in DOMAIN file'[f] : file'[f][k].seq = k - 1
  <1>1. \A f \in Functions : \A k \in DOMAIN file[f] : file[f][k].seq = k - 1
    BY DEF OwnedInv
  <1>2. ASSUME NEW t \in Threads, WriteEntry(t)
        PROVE  \A f \in Functions : \A k \in DOMAIN file'[f] : file'[f][k].seq = k - 1
    <2> DEFINE g == call[t].fn
               e == EntryOf(call[t], deep_seq[t])
    <2>1. /\ deep_seq[t] \in Nat /\ deep_seq[t] = df_seq[g]
      BY <1>2 DEF WriteEntry, Transition, IInv, DeepSeqInv, OwnedInv
    <2>2. /\ g \in Functions /\ e \in Entry
          /\ file \in [Functions -> Seq(Entry)]
          /\ file' = [file EXCEPT ![g] = Append(@, e)]
      BY <1>2, <2>1, WriteEntryFile DEF IInv, TypeOK
    <2>3. e.seq = Len(file[g])
      BY <2>1, <2>2, EntryOfMatches DEF IInv, CountersInv
    <2> HIDE DEF g, e
    <2>4. file[g] \in Seq(Entry) /\ file'[g] = Append(file[g], e)
      BY <2>2
    <2>5. \A k \in DOMAIN file'[g] : file'[g][k].seq = k - 1
      BY <1>1, <2>2, <2>3, <2>4, AppendFacts
    <2>6. \A f \in Functions \ {g} : file'[f] = file[f]
      BY <2>2
    <2>7. QED
      BY <1>1, <2>5, <2>6
  <1>3. ASSUME NEW t \in Threads, WriteRow(t)
        PROVE  file' = file
    BY <1>3 DEF WriteRow, deepVars
  <1>4. QED
    BY <1>1, <1>2, <1>3, StepKinds

LEMMA NextOwnedThreads ==
  ASSUME OwnedUse, IInv, OwnedInv, [Next]_vars
  PROVE  \A u \in Threads : OwnedThreadThen(u)
  <1> USE DEF Transition
  <1>1. /\ TypeOK
        /\ \A u \in Threads : OwnedThread(u)
        /\ \A u \in Threads : call[u].fn \in Functions
    BY DEF IInv, OwnedInv, OwnedThread, InCall, TypeOK, Calls
  \* A thread that stays where it is, while another may step.
  <1>2. ASSUME NEW u \in Threads, pc'[u] = pc[u], call'[u] = call[u],
               deep_seq'[u] = deep_seq[u],
               pc[u] = "write" => df_seq'[call[u].fn] = df_seq[call[u].fn],
               pc[u] = "row" =>
                 (HasRowThen(call[u].fn, deep_seq[u])
                    => HasRow(call[u].fn, deep_seq[u]))
        PROVE  OwnedThreadThen(u)
    BY <1>1, <1>2 DEF OwnedThread, OwnedThreadThen, InCall
  <1>3. rows' = rows => \A f, n : HasRowThen(f, n) => HasRow(f, n)
    BY DEF HasRow, HasRowThen
  <1>4. ASSUME NEW t \in Threads, Step(t) \/ Choice(t), NEW u \in Threads, u # t
        PROVE  OwnedThreadThen(u)
    <2>1. pc'[u] = pc[u] /\ call'[u] = call[u] /\ deep_seq'[u] = deep_seq[u]
      BY <1>1, <1>4, OtherThreads
    <2>2. CASE WriteEntry(t)
      <3>1. pc[t] = "write" /\ df_seq' = [df_seq EXCEPT ![call[t].fn] = @ + 1]
              /\ rows' = rows
        BY <2>2 DEF WriteEntry, tsvVars
      <3>2. pc[u] = "write" => call[u].fn # call[t].fn
        BY <1>4, <3>1, OneUser DEF InCall, Finishing
      <3>3. pc[u] = "write" => df_seq'[call[u].fn] = df_seq[call[u].fn]
        BY <1>1, <3>1, <3>2 DEF TypeOK
      <3>4. QED
        BY <1>2, <1>3, <2>1, <3>1, <3>3
    <2>3. CASE WriteRow(t)
      <3>1. pc[t] = "row" /\ df_seq' = df_seq
        BY <2>3 DEF WriteRow, deepVars
      <3>2. pc[u] = "row" => call[u].fn # call[t].fn
        BY <1>4, <3>1, OneUser DEF InCall, Finishing
      <3>3. RowOf(t).call = call[t]
        BY DEF RowOf
      <3>4. \A f, n : f # call[t].fn /\ HasRowThen(f, n) => HasRow(f, n)
        BY <1>1, <2>3, <3>3, WriteRowRows DEF HasRow, HasRowThen
      <3>5. QED
        BY <1>2, <2>1, <3>1, <3>2, <3>4
    <2>4. CASE UNCHANGED <<file, df_seq, rows, tracehash_seq>>
      BY <1>2, <1>3, <2>1, <2>4
    <2>5. UNCHANGED <<file, df_seq, rows, tracehash_seq>>
            \/ WriteEntry(t) \/ WriteRow(t)
      BY <1>4 DEF Step, Choice, FindOrCreate, CheckEmit, ReadSeq, FlushLockRegistry,
         FlushFile, FlushDone, Begin, FinishInactive, Finish, StartFlush, Exit,
         deepVars, tsvVars
    <2>6. QED
      BY <2>2, <2>3, <2>4, <2>5
  <1>5. ASSUME NEW t \in Threads, WriteEntry(t)
        PROVE  OwnedThreadThen(t)
    <2>1. /\ pc[t] = "write" /\ pc'[t] = "row" /\ call' = call
          /\ deep_seq' = deep_seq /\ rows' = rows
      BY <1>1, <1>5 DEF WriteEntry, localVars, tsvVars, TypeOK
    <2>2. call[t].fn \in Uses[t]
      BY <1>1, <2>1 DEF OwnedThread, InCall, Finishing
    <2>3. deep_seq[t] = Len(file[call[t].fn])
      BY <1>1, <2>1 DEF OwnedThread, IInv, CountersInv
    <2>4. ~HasRow(call[t].fn, deep_seq[t])
      <3>1. SUFFICES ASSUME NEW i \in DOMAIN rows, rows[i].call.fn = call[t].fn,
                            rows[i].deep_seq = Len(file[call[t].fn])
            PROVE  FALSE
        BY <2>3 DEF HasRow
      <3>2. Len(file[call[t].fn]) \in Nat
              /\ DOMAIN file[call[t].fn] = 1 .. Len(file[call[t].fn])
        BY <1>1, FileLength
      <3>3. rows[i].deep_seq # None
        BY <3>1, <3>2 DEF None
      <3>4. PICK k \in DOMAIN file[call[t].fn] :
              file[call[t].fn][k].seq = Len(file[call[t].fn])
        BY <3>1, <3>3 DEF IInv, DeepSeqInv, DeepSeqFindsEntry, EntriesAt
      <3>5. k - 1 = Len(file[call[t].fn])
        BY <1>1, <3>4 DEF OwnedInv
      <3>6. QED
        BY <3>2, <3>4, <3>5
    <2>5. QED
      BY <1>3, <2>1, <2>2, <2>4 DEF OwnedThreadThen
  <1>6. ASSUME NEW t \in Threads, Step(t), ~WriteEntry(t)
        PROVE  OwnedThreadThen(t)
    <2>1. CASE FindOrCreate(t) \/ CheckEmit(t)
      <3>1. /\ pc[t] \in {"registry", "emit"} /\ pc'[t] \in {"emit", "read", "row"}
            /\ call' = call /\ deep_seq' = deep_seq
        BY <1>1, <2>1 DEF FindOrCreate, CheckEmit, localVars, TypeOK
      <3>2. call[t].fn \in Uses[t] /\ deep_seq[t] = None
        BY <1>1, <3>1 DEF OwnedThread, InCall, Finishing, IInv, DeepSeqInv
      <3>3. QED
        BY <3>1, <3>2 DEF OwnedThreadThen
    <2>2. CASE ReadSeq(t)
      <3>1. /\ pc[t] = "read" /\ call' = call /\ df_seq' = df_seq
            /\ \/ pc'[t] = "write" /\ deep_seq'[t] = df_seq[call[t].fn]
               \/ pc'[t] = "row" /\ deep_seq'[t] = deep_seq[t]
        BY <1>1, <2>2 DEF ReadSeq, deepVars, TypeOK
      <3>2. call[t].fn \in Uses[t] /\ deep_seq[t] = None
        BY <1>1, <3>1 DEF OwnedThread, InCall, Finishing, IInv, DeepSeqInv
      <3>3. QED
        BY <3>1, <3>2 DEF OwnedThreadThen
    <2>3. CASE \/ WriteRow(t) \/ FlushLockRegistry(t) \/ FlushFile(t)
               \/ FlushDone(t)
      <3>1. pc'[t] \in {"idle", "flush_file"}
        BY <1>1, <2>3 DEF WriteRow, FlushLockRegistry, FlushFile, FlushDone, TypeOK
      <3>2. QED
        BY <3>1 DEF OwnedThreadThen, Finishing
    <2>4. QED
      BY <1>6, <2>1, <2>2, <2>3 DEF Step
  <1>7. ASSUME NEW t \in Threads, Choice(t)
        PROVE  OwnedThreadThen(t)
    <2>1. CASE Begin(t)
      <3>1. pc'[t] = "call" /\ call'[t].fn \in Uses[t]
        BY <1>1, <2>1 DEF Begin, TypeOK
      <3>2. QED
        BY <3>1 DEF OwnedThreadThen
    <2>2. CASE Finish(t)
      <3>1. /\ pc[t] = "call" /\ pc'[t] \in {"registry", "row"}
            /\ call' = call /\ deep_seq'[t] = None
        BY <1>1, <2>2 DEF Finish, TypeOK
      <3>2. QED
        BY <1>1, <3>1 DEF OwnedThread, OwnedThreadThen, InCall
    <2>3. CASE FinishInactive(t) \/ StartFlush(t)
      <3>1. pc'[t] \in {"idle", "flush_registry"}
        BY <1>1, <2>3 DEF FinishInactive, StartFlush, TypeOK
      <3>2. QED
        BY <3>1 DEF OwnedThreadThen, Finishing
    <2>4. CASE Exit(t)
      BY <1>2, <1>3, <2>4 DEF Exit, localVars, tsvVars
    <2>5. QED
      BY <1>7, <2>1, <2>2, <2>3, <2>4 DEF Choice
  <1>8. CASE (alive /\ Crash) \/ UNCHANGED vars
    <2>1. UNCHANGED <<pc, call, deep_seq, df_seq, rows>>
      BY <1>8 DEF Crash, vars, localVars, deepVars, tsvVars
    <2>2. QED
      BY <1>2, <1>3, <2>1
  <1>9. QED
    BY <1>4, <1>5, <1>6, <1>7, <1>8 DEF Next

\* The counts of OwnedInv.
CountInv ==
  /\ begun <= MaxCalls
  /\ tracehash_seq + Cardinality(Within({"call"} \cup Finishing)) <= begun
  /\ \A f \in Functions :
       df_seq[f] + Cardinality(Within(Unwritten)) <= begun

LEMMA NextCount ==
  ASSUME TypeOK, TypeOK', CountInv, [Next]_vars
  PROVE  CountInv'
  <1> DEFINE C == Within({"call"} \cup Finishing)
             U == Within(Unwritten)
  <1> USE DEF Transition
  <1>1. /\ IsFiniteSet(C) /\ IsFiniteSet(U)
        /\ Cardinality(C) \in Nat /\ Cardinality(U) \in Nat
    <2>1. C \subseteq Threads /\ U \subseteq Threads /\ IsFiniteSet(Threads)
      BY CRecorderAssumption DEF Within
    <2> HIDE DEF C, U
    <2>2. QED
      BY <2>1, FS_Subset, FS_CardinalityType
  <1>2. /\ begun \in Nat /\ tracehash_seq \in Nat /\ MaxCalls \in Nat
        /\ \A f \in Functions : df_seq[f] \in Nat
    BY CRecorderAssumption DEF TypeOK
  <1>3. /\ begun <= MaxCalls
        /\ tracehash_seq + Cardinality(C) <= begun
        /\ \A f \in Functions : df_seq[f] + Cardinality(U) <= begun
    BY DEF CountInv
  <1>4. ASSUME begun' <= MaxCalls, tracehash_seq' + Cardinality(C') <= begun',
               \A f \in Functions : df_seq'[f] + Cardinality(U') <= begun'
        PROVE  CountInv'
    BY <1>4 DEF CountInv
  <1>5. ASSUME C' = C, U' = U, UNCHANGED <<begun, tracehash_seq, df_seq>>
        PROVE  CountInv'
    BY <1>1, <1>3, <1>4, <1>5
  <1>6. ASSUME NEW t \in Threads, Begin(t)
        PROVE  CountInv'
    <2>1. /\ pc[t] = "idle" /\ pc' = [pc EXCEPT ![t] = "call"]
          /\ begun < MaxCalls /\ begun' = begun + 1
          /\ UNCHANGED <<tracehash_seq, df_seq>>
      BY <1>6 DEF Begin, deepVars, tsvVars
    <2>2. /\ t \notin C /\ C' = C \cup {t}
          /\ t \notin U /\ U' = U \cup {t}
      BY <2>1 DEF Within, Unwritten, Finishing, TypeOK
    <2> HIDE DEF C, U
    <2>3. /\ Cardinality(C') = Cardinality(C) + 1
          /\ Cardinality(U') = Cardinality(U) + 1
      BY <1>1, <2>2, Enter
    <2>4. QED
      BY <1>1, <1>2, <1>3, <1>4, <2>1, <2>3
  <1>7. ASSUME NEW t \in Threads, FinishInactive(t)
        PROVE  CountInv'
    <2>1. /\ pc[t] = "call" /\ pc' = [pc EXCEPT ![t] = "idle"]
          /\ UNCHANGED <<begun, tracehash_seq, df_seq>>
      BY <1>7 DEF FinishInactive, deepVars, tsvVars, countVars
    <2>2. t \in C /\ C' = C \ {t} /\ t \in U /\ U' = U \ {t}
      BY <2>1 DEF Within, Unwritten, Finishing, TypeOK
    <2> HIDE DEF C, U
    <2>3. /\ Cardinality(C') = Cardinality(C) - 1
          /\ Cardinality(U') = Cardinality(U) - 1
      BY <1>1, <2>2, Leave
    <2>4. QED
      BY <1>1, <1>2, <1>3, <1>4, <2>1, <2>3
  \* A thread that moves on in finish, and perhaps gives its entry up.
  <1>8. ASSUME NEW t \in Threads,
               Finish(t) \/ FindOrCreate(t) \/ CheckEmit(t) \/ ReadSeq(t)
        PROVE  CountInv'
    <2>1. /\ pc[t] \in Unwritten
          /\ \E to \in Finishing : pc' = [pc EXCEPT ![t] = to]
          /\ UNCHANGED <<begun, tracehash_seq, df_seq>>
      BY <1>8 DEF Finish, FindOrCreate, CheckEmit, ReadSeq, Unwritten, Finishing,
         deepVars, tsvVars, countVars
    <2>2. C' = C /\ t \in U /\ (U' = U \/ U' = U \ {t})
      BY <2>1 DEF Within, Unwritten, Finishing, TypeOK
    <2> HIDE DEF C, U
    <2>3. Cardinality(U') \in Nat /\ Cardinality(U') <= Cardinality(U)
      BY <1>1, <2>2, Leave
    <2>4. QED
      BY <1>1, <1>2, <1>3, <1>4, <2>1, <2>2, <2>3
  <1>9. ASSUME NEW t \in Threads, WriteEntry(t)
        PROVE  CountInv'
    <2>1. /\ pc[t] = "write" /\ pc' = [pc EXCEPT ![t] = "row"]
          /\ UNCHANGED <<begun, tracehash_seq>>
          /\ \A f \in Functions : df_seq'[f] \in {df_seq[f], df_seq[f] + 1}
      BY <1>9 DEF WriteEntry, tsvVars, countVars, TypeOK
    <2>2. C' = C /\ t \in U /\ U' = U \ {t}
      BY <2>1 DEF Within, Unwritten, Finishing, TypeOK
    <2> HIDE DEF C, U
    <2>3. Cardinality(U') = Cardinality(U) - 1
      BY <1>1, <2>2, Leave
    <2>4. ASSUME NEW f \in Functions
          PROVE  df_seq'[f] + Cardinality(U') <= begun'
      BY <1>1, <1>2, <1>3, <2>1, <2>3
    <2>5. QED
      BY <1>3, <1>4, <2>1, <2>2, <2>4
  <1>10. ASSUME NEW t \in Threads, WriteRow(t)
         PROVE  CountInv'
    <2>1. /\ pc[t] = "row" /\ pc' = [pc EXCEPT ![t] = "idle"]
          /\ UNCHANGED <<begun, df_seq>>
          /\ tracehash_seq' \in {tracehash_seq, tracehash_seq + 1}
      BY <1>10 DEF WriteRow, deepVars, tsvVars, countVars
    <2>2. t \in C /\ C' = C \ {t} /\ U' = U
      BY <2>1 DEF Within, Unwritten, Finishing, TypeOK
    <2> HIDE DEF C, U
    <2>3. Cardinality(C') = Cardinality(C) - 1
      BY <1>1, <2>2, Leave
    <2>4. QED
      BY <1>1, <1>2, <1>3, <1>4, <2>1, <2>2, <2>3
  <1>11. ASSUME NEW t \in Threads,
                \/ FlushLockRegistry(t) \/ FlushFile(t) \/ FlushDone(t)
                \/ StartFlush(t) \/ Exit(t)
         PROVE  CountInv'
    <2>1. UNCHANGED <<begun, tracehash_seq, df_seq>>
      BY <1>11 DEF FlushLockRegistry, FlushFile, FlushDone, StartFlush, Exit,
         deepVars, tsvVars, countVars
    <2>2. C' = C /\ U' = U
      BY <1>11 DEF FlushLockRegistry, FlushFile, FlushDone, StartFlush, Exit,
         Within, Unwritten, Finishing, TypeOK
    <2>3. QED
      BY <1>5, <2>1, <2>2
  <1>12. CASE (alive /\ Crash) \/ UNCHANGED vars
    BY <1>5, <1>12 DEF Crash, vars, deepVars, tsvVars, countVars, Within
  <1>13. QED
    BY <1>6, <1>7, <1>8, <1>9, <1>10, <1>11, <1>12 DEF Next, Step, Choice

LEMMA InitOwned == Init => OwnedInv
  <1> SUFFICES ASSUME Init PROVE OwnedInv
    OBVIOUS
  <1>1. /\ begun = 0 /\ tracehash_seq = 0
        /\ \A t \in Threads : pc[t] = "idle"
        /\ \A f \in Functions : file[f] = <<>> /\ df_seq[f] = 0
    BY DEF Init
  <1>2. Within({"call"} \cup Finishing) = {} /\ Within(Unwritten) = {}
    BY <1>1 DEF Within, Unwritten, Finishing
  <1>3. /\ Cardinality(Within({"call"} \cup Finishing)) = 0
        /\ Cardinality(Within(Unwritten)) = 0
    BY <1>2, FS_EmptySet
  <1>4. 0 <= MaxCalls
    BY CRecorderAssumption
  <1>5. QED
    BY <1>1, <1>3, <1>4 DEF OwnedInv, Finishing

LEMMA NextOwned ==
  ASSUME OwnedUse, IInv, OwnedInv, [Next]_vars
  PROVE  OwnedInv'
  <1>1. TypeOK /\ TypeOK'
    BY NextIInv DEF IInv
  <1>2. CountInv'
    BY <1>1, NextCount DEF OwnedInv, CountInv
  <1>3. \A f \in Functions : \A k \in DOMAIN file'[f] : file'[f][k].seq = k - 1
    BY NextNumbered
  <1>4. \A u \in Threads : OwnedThreadThen(u)
    BY NextOwnedThreads
  <1>5. QED
    BY <1>2, <1>3, <1>4 DEF OwnedInv, CountInv, OwnedThreadThen, HasRow, HasRowThen

(***************************************************************************)
(* Where no two threads call one function, the numbers are as good as if   *)
(* df->seq were read under the lock.                                       *)
(***************************************************************************)
THEOREM OwnedInvariance ==
  ASSUME OwnedUse
  PROVE  Spec => []OwnedInv
  <1>1. IInv /\ OwnedInv /\ [Next]_vars => OwnedInv'
    BY NextOwned
  <1>2. QED
    BY <1>1, InitOwned, Invariance, PTL DEF Spec

(***************************************************************************)
(* ... and a deep_seq then is the number of one entry only, so that the    *)
(* entry it leads to is the record of the row's call: see DeepSeqUnique.   *)
(***************************************************************************)
THEOREM OwnedUniqueness ==
  ASSUME OwnedUse
  PROVE  Spec => []DeepSeqUnique
  <1>1. IInv /\ OwnedInv => DeepSeqUnique
    <2> SUFFICES ASSUME IInv, OwnedInv, NEW f \in Functions,
                        NEW j \in DOMAIN file[f], NEW k \in DOMAIN file[f],
                        file[f][j].seq = file[f][k].seq
                 PROVE  j = k
      BY DEF DeepSeqUnique
    <2>1. j \in Int /\ k \in Int
      BY FileLength DEF IInv
    <2>2. file[f][j].seq = j - 1 /\ file[f][k].seq = k - 1
      BY DEF OwnedInv
    <2>3. j - 1 = k - 1
      BY <2>2
    <2>4. QED
      BY <2>1, <2>3
  <1>2. QED
    BY <1>1, Invariance, OwnedInvariance, PTL
-----------------------------------------------------------------------------
(***************************************************************************)
(* CRecorder implements TraceLog where no two threads call one function.   *)
(***************************************************************************)
EntryView(e) == [seq  |-> e.seq,
                 view |-> [inputs |-> e.inputs, outputs |-> e.outputs]]

LEMMA EntriesNow ==
  AbsEntries = [f \in Functions |->
                  {EntryView(file[f][k]) :
                     k \in {j \in DOMAIN file[f] : HasRow(f, file[f][j].seq)}}]
  <1>1. ASSUME NEW f \in Functions
        PROVE  {EntryView(e) : e \in {file[f][k] : k \in
                   {j \in DOMAIN file[f] : HasRow(f, file[f][j].seq)}}}
               = {EntryView(file[f][k]) :
                    k \in {j \in DOMAIN file[f] : HasRow(f, file[f][j].seq)}}
    OBVIOUS
  <1>2. QED
    BY <1>1 DEF AbsEntries, EntryView

LEMMA EntriesThen ==
  AbsEntries' = [f \in Functions |->
                   {EntryView(file'[f][k]) :
                      k \in {j \in DOMAIN file'[f] :
                               HasRowThen(f, file'[f][j].seq)}}]
  <1>1. ASSUME NEW f \in Functions
        PROVE  {EntryView(e) : e \in {file'[f][k] : k \in
                   {j \in DOMAIN file'[f] : HasRowThen(f, file'[f][j].seq)}}}
               = {EntryView(file'[f][k]) :
                    k \in {j \in DOMAIN file'[f] :
                             HasRowThen(f, file'[f][j].seq)}}
    OBVIOUS
  <1>2. QED
    BY <1>1 DEF AbsEntries, EntryView, HasRow, HasRowThen

\* A step that writes no row changes no entry that has one.
LEMMA EntriesFrame ==
  ASSUME IInv, IInv', OwnedInv, OwnedInv', FilesGrow, rows' = rows
  PROVE  AbsEntries' = AbsEntries
  <1>1. \A f, n : HasRowThen(f, n) <=> HasRow(f, n)
    BY DEF HasRow, HasRowThen
  <1>2. SUFFICES ASSUME NEW f \in Functions
        PROVE  {EntryView(file'[f][k]) :
                  k \in {j \in DOMAIN file'[f] : HasRow(f, file'[f][j].seq)}}
               = {EntryView(file[f][k]) :
                    k \in {j \in DOMAIN file[f] : HasRow(f, file[f][j].seq)}}
    BY <1>1, EntriesNow, EntriesThen
  <1>3. \A k \in DOMAIN file[f] : k \in DOMAIN file'[f] /\ file'[f][k] = file[f][k]
    BY DEF FilesGrow
  <1>4. ASSUME NEW k \in DOMAIN file'[f], HasRow(f, file'[f][k].seq)
        PROVE  k \in DOMAIN file[f]
    <2>1. file'[f] \in Seq(Entry)
      BY DEF IInv, TypeOK
    <2>2. k \in Nat \ {0}
      BY <2>1
    <2>3. file'[f][k].seq = k - 1
      BY DEF OwnedInv
    <2>4. PICK i \in DOMAIN rows :
            rows[i].call.fn = f /\ rows[i].deep_seq = k - 1
      BY <1>4, <2>3 DEF HasRow
    <2>5. rows[i].deep_seq # None
      BY <2>2, <2>4 DEF None
    <2>6. PICK j \in DOMAIN file[f] : file[f][j].seq = k - 1
      BY <2>4, <2>5 DEF IInv, DeepSeqInv, DeepSeqFindsEntry, EntriesAt
    <2>7. j - 1 = k - 1
      BY <2>6 DEF OwnedInv
    <2>8. j \in Int
      BY FileLength DEF IInv
    <2>9. j = k
      BY <2>2, <2>7, <2>8
    <2>10. QED
      BY <2>9
  <1>5. QED
    BY <1>3, <1>4

LEMMA RowInTable ==
  ASSUME TypeOK, NEW t \in Threads, WriteRow(t), config.tsv
  PROVE  /\ AbsTable' = AbsTable \cup
              {[seq |-> tracehash_seq, call |-> call[t], deep_seq |-> deep_seq[t]]}
         /\ \A f, n : HasRowThen(f, n)
                      <=> HasRow(f, n) \/ (f = call[t].fn /\ n = deep_seq[t])
  <1>1. /\ DOMAIN rows' = DOMAIN rows \cup {Len(rows) + 1}
        /\ \A i \in DOMAIN rows : rows'[i] = rows[i]
        /\ rows'[Len(rows) + 1] = RowOf(t)
    BY WriteRowRows
  <1>2. Len(rows) + 1 \notin DOMAIN rows
    BY DEF TypeOK
  <1>3. /\ RowOf(t).seq = tracehash_seq /\ RowOf(t).call = call[t]
        /\ RowOf(t).deep_seq = deep_seq[t]
    BY DEF RowOf
  <1>4. AbsTable' = {[seq |-> rows'[i].seq, call |-> rows'[i].call,
                      deep_seq |-> rows'[i].deep_seq] : i \in DOMAIN rows'}
    BY DEF AbsTable
  <1>5. AbsTable' = AbsTable \cup
          {[seq |-> tracehash_seq, call |-> call[t], deep_seq |-> deep_seq[t]]}
    BY <1>1, <1>2, <1>3, <1>4 DEF AbsTable
  <1>6. QED
    BY <1>1, <1>2, <1>3, <1>5 DEF HasRow, HasRowThen

LEMMA RowPoints ==
  ASSUME IInv, OwnedInv, NEW t \in Threads, WriteRow(t), config.tsv
  PROVE  \/ deep_seq[t] = None /\ AbsEntries' = AbsEntries
         \/ /\ deep_seq[t] \in 0 .. MaxCalls
            /\ \A e \in AbsEntries[call[t].fn] : e.seq # deep_seq[t]
            /\ AbsEntries' = [AbsEntries EXCEPT ![call[t].fn] = @ \cup
                 {[seq |-> deep_seq[t], view |-> CapturedView(call[t])]}]
  <1> DEFINE g == call[t].fn
             n == deep_seq[t]
             After(f) == {EntryView(file[f][k]) :
                            k \in {j \in DOMAIN file[f] :
                                     \/ HasRow(f, file[f][j].seq)
                                     \/ f = g /\ file[f][j].seq = n}}
             Before(f) == {EntryView(file[f][k]) :
                             k \in {j \in DOMAIN file[f] :
                                      HasRow(f, file[f][j].seq)}}
  <1>1. TypeOK /\ g \in Functions /\ pc[t] = "row"
    BY DEF IInv, TypeOK, Calls, WriteRow, Transition
  <1>2. file' = file
    BY DEF WriteRow, deepVars
  <1>3. AbsEntries' = [f \in Functions |-> After(f)]
    BY <1>1, <1>2, EntriesThen, RowInTable
  <1>4. AbsEntries = [f \in Functions |-> Before(f)]
    BY EntriesNow
  <1>5. \A f \in Functions : f # g => After(f) = Before(f)
    OBVIOUS
  <1>6. \A k \in DOMAIN file[g] : k \in 1 .. Len(file[g]) /\ file[g][k].seq = k - 1
    BY <1>1, FileLength DEF OwnedInv
  <1>7. CASE n = None
    <2>1. \A k \in DOMAIN file[g] : file[g][k].seq # n
      BY <1>6, <1>7 DEF None
    <2>2. After(g) = Before(g)
      BY <2>1
    <2> HIDE DEF After, Before
    <2>3. \A f \in Functions : After(f) = Before(f)
      <3>1. SUFFICES ASSUME NEW f \in Functions PROVE After(f) = Before(f)
        OBVIOUS
      <3>2. CASE f = g
        BY <2>2, <3>2
      <3>3. CASE f # g
        BY <1>5, <3>3
      <3>4. QED
        BY <3>2, <3>3
    <2>4. QED
      BY <1>3, <1>4, <1>7, <2>3
  <1>8. CASE n # None
    <2>1. PICK k \in DOMAIN file[g] :
            file[g][k].seq = n /\ Matches(file[g][k], call[t])
      BY <1>1, <1>8 DEF IInv, DeepSeqInv, Resolves, EntriesAt
    <2>2. \A j \in DOMAIN file[g] : file[g][j].seq = n => j = k
      <3>1. SUFFICES ASSUME NEW j \in DOMAIN file[g], file[g][j].seq = n
            PROVE  j = k
        OBVIOUS
      <3>2. j - 1 = k - 1 /\ j \in Int /\ k \in Int
        BY <1>6, <2>1, <3>1
      <3>3. QED
        BY <3>2
    <2>3. EntryView(file[g][k]) = [seq |-> n, view |-> CapturedView(call[t])]
      BY <2>1 DEF EntryView, CapturedView, Matches
    <2>4. ~HasRow(g, n)
      BY <1>1, <1>8 DEF OwnedInv
    <2>5. n \in 0 .. MaxCalls
      <3>1. n = k - 1 /\ k \in 1 .. Len(file[g])
        BY <1>6, <2>1
      <3>2. /\ Cardinality(Within(Unwritten)) \in Nat
            /\ Len(file[g]) + Cardinality(Within(Unwritten)) <= begun
            /\ begun <= MaxCalls
        <4>1. IsFiniteSet(Within(Unwritten))
          <5>1. Within(Unwritten) \subseteq Threads /\ IsFiniteSet(Threads)
            BY CRecorderAssumption DEF Within
          <5>2. QED
            BY <5>1, FS_Subset
        <4>2. QED
          BY <1>1, <4>1, FS_CardinalityType DEF OwnedInv, IInv, CountersInv
      <3>3. Len(file[g]) \in Nat /\ begun \in Nat /\ MaxCalls \in Nat
        BY <1>1, FileLength, CRecorderAssumption DEF TypeOK
      <3> HIDE DEF n, g
      <3>4. QED
        BY <3>1, <3>2, <3>3
    <2> DEFINE new == [seq |-> n, view |-> CapturedView(call[t])]
    <2>6. /\ After(g) = Before(g) \cup {new}
          /\ \A e \in Before(g) : e.seq # n
      <3>1. /\ k \in DOMAIN file[g] /\ file[g][k].seq = n
            /\ EntryView(file[g][k]) = new
        BY <2>1, <2>3
      <3>2. After(g) = Before(g) \cup {new}
        BY <2>2, <3>1
      <3>3. \A j \in DOMAIN file[g] :
              HasRow(g, file[g][j].seq) => EntryView(file[g][j]).seq # n
        BY <2>4 DEF EntryView
      <3>4. QED
        BY <3>2, <3>3
    <2> HIDE DEF After, Before, new, g
    <2>7. \A e \in AbsEntries[g] : e.seq # n
      BY <1>1, <1>4, <2>6
    <2>8. AbsEntries' = [AbsEntries EXCEPT ![g] = @ \cup {new}]
      BY <1>1, <1>3, <1>4, <1>5, <2>6
    <2>9. QED
      BY <2>5, <2>7, <2>8 DEF new, g
  <1>9. QED
    BY <1>7, <1>8

LEMMA RowMaps ==
  ASSUME IInv, OwnedInv, NEW t \in Threads, WriteRow(t), config.tsv
  PROVE  Abstract!Finish(t)
  <1>1. TypeOK
    BY DEF IInv
  <1>2. /\ pc[t] = "row" /\ pc' = [pc EXCEPT ![t] = "idle"]
        /\ config' = config /\ call' = call
    BY DEF WriteRow, Transition, localVars
  <1>3. t \in AbsBusy /\ AbsBusy' = AbsBusy \ {t}
    BY <1>1, <1>2 DEF AbsBusy, Finishing, TypeOK
  <1>4. /\ tracehash_seq \in 0 .. MaxCalls
        /\ \A i \in DOMAIN rows : rows[i].seq # tracehash_seq
    <2> DEFINE C == Within({"call"} \cup Finishing)
    <2>1. C \subseteq Threads /\ IsFiniteSet(Threads)
      BY CRecorderAssumption DEF Within
    <2>2. Cardinality(C) \in Nat
      BY <2>1, FS_Subset, FS_CardinalityType
    <2>3. tracehash_seq + Cardinality(C) <= begun /\ begun <= MaxCalls
      BY DEF OwnedInv
    <2>4. tracehash_seq \in Nat /\ begun \in Nat /\ MaxCalls \in Nat
      BY <1>1, CRecorderAssumption DEF TypeOK
    <2> HIDE DEF C
    <2>5. tracehash_seq \in 0 .. MaxCalls
      BY <2>2, <2>3, <2>4
    <2>6. ASSUME NEW i \in DOMAIN rows
          PROVE  rows[i].seq # tracehash_seq
      <3>1. rows[i].seq = i - 1 /\ tracehash_seq = Len(rows)
        BY DEF IInv, CountersInv, RowsInOrder
      <3>2. i \in 1 .. Len(rows) /\ Len(rows) \in Nat
        BY <1>1 DEF TypeOK
      <3>3. QED
        BY <3>1, <3>2
    <2>7. QED
      BY <2>5, <2>6
  <1>5. Abstract!Fresh(tracehash_seq)
    BY <1>4 DEF Abstract!Fresh, AbsTable
  <1>6. AbsTable' = AbsTable \cup {Abstract!Row(tracehash_seq, call[t], deep_seq[t])}
    BY <1>1, RowInTable DEF Abstract!Row
  <1>7. CASE deep_seq[t] = None /\ AbsEntries' = AbsEntries
    BY <1>2, <1>3, <1>4, <1>5, <1>6, <1>7 DEF Abstract!Finish
  <1>8. CASE /\ deep_seq[t] \in 0 .. MaxCalls
             /\ \A e \in AbsEntries[call[t].fn] : e.seq # deep_seq[t]
             /\ AbsEntries' = [AbsEntries EXCEPT ![call[t].fn] = @ \cup
                  {[seq |-> deep_seq[t], view |-> CapturedView(call[t])]}]
    <2>1. Abstract!FreshEntry(call[t].fn, deep_seq[t])
      BY <1>8 DEF Abstract!FreshEntry
    <2>2. QED
      BY <1>2, <1>3, <1>4, <1>5, <1>6, <1>8, <2>1 DEF Abstract!Finish
  <1>9. QED
    BY <1>7, <1>8, RowPoints

LEMMA NextRefines ==
  ASSUME IInv, IInv', OwnedInv, OwnedInv', [Next]_vars
  PROVE  [Abstract!Next]_(Abstract!vars)
  <1> TypeOK /\ FilesGrow
    BY NextGrow DEF IInv
  <1> USE DEF Transition, localVars, deepVars, tsvVars
  <1>1. ASSUME AbsBusy' = AbsBusy, UNCHANGED <<config, call, rows>>
        PROVE  UNCHANGED Abstract!vars
    <2>1. AbsEntries' = AbsEntries
      BY <1>1, EntriesFrame
    <2>2. AbsTable' = AbsTable
      BY <1>1 DEF AbsTable
    <2>3. QED
      BY <1>1, <2>1, <2>2 DEF Abstract!vars
  <1>2. ASSUME NEW t \in Threads, Begin(t)
        PROVE  Abstract!Begin(t)
    <2>1. /\ pc[t] = "idle" /\ pc' = [pc EXCEPT ![t] = "call"]
          /\ \E c \in Calls : call' = [call EXCEPT ![t] = c]
          /\ UNCHANGED <<config, rows>>
      BY <1>2 DEF Begin
    <2>2. t \notin AbsBusy /\ AbsBusy' = AbsBusy \cup {t}
      BY <2>1 DEF AbsBusy, Finishing, TypeOK
    <2>3. AbsEntries' = AbsEntries
      BY <2>1, EntriesFrame
    <2>4. AbsTable' = AbsTable
      BY <2>1 DEF AbsTable
    <2>5. QED
      BY <2>1, <2>2, <2>3, <2>4 DEF Abstract!Begin
  <1>3. ASSUME NEW t \in Threads,
               FinishInactive(t) \/ (WriteRow(t) /\ ~config.tsv)
        PROVE  Abstract!FinishUntraced(t)
    <2>1. /\ pc[t] \in {"call", "row"} /\ pc' = [pc EXCEPT ![t] = "idle"]
          /\ ~config.tsv
          /\ UNCHANGED <<config, call, rows>>
      BY <1>3 DEF FinishInactive, Active, WriteRow
    <2>2. t \in AbsBusy /\ AbsBusy' = AbsBusy \ {t}
      BY <2>1 DEF AbsBusy, Finishing, TypeOK
    <2>3. AbsEntries' = AbsEntries
      BY <2>1, EntriesFrame
    <2>4. AbsTable' = AbsTable
      BY <2>1 DEF AbsTable
    <2>5. QED
      BY <2>1, <2>2, <2>3, <2>4 DEF Abstract!FinishUntraced
  <1>4. ASSUME NEW t \in Threads,
               \/ Finish(t) \/ FindOrCreate(t) \/ CheckEmit(t) \/ ReadSeq(t)
               \/ WriteEntry(t) \/ StartFlush(t) \/ FlushLockRegistry(t)
               \/ FlushFile(t) \/ FlushDone(t) \/ Exit(t)
        PROVE  UNCHANGED Abstract!vars
    <2>1. UNCHANGED <<config, call, rows>>
      BY <1>4 DEF Finish, FindOrCreate, CheckEmit, ReadSeq, WriteEntry, StartFlush,
         FlushLockRegistry, FlushFile, FlushDone, Exit
    <2>2. AbsBusy' = AbsBusy
      BY <1>4 DEF Finish, FindOrCreate, CheckEmit, ReadSeq, WriteEntry, StartFlush,
         FlushLockRegistry, FlushFile, FlushDone, Exit, AbsBusy, Finishing, TypeOK
    <2>3. QED
      BY <1>1, <2>1, <2>2
  <1>5. CASE (alive /\ Crash) \/ UNCHANGED vars
    <2>1. UNCHANGED <<config, call, rows, pc>>
      BY <1>5 DEF Crash, vars
    <2>2. QED
      BY <1>1, <2>1 DEF AbsBusy
  <1>6. QED
    BY <1>2, <1>3, <1>4, <1>5, RowMaps DEF Next, Step, Choice, Abstract!Next

LEMMA InitRefines == Init => Abstract!Init
  <1> SUFFICES ASSUME Init PROVE Abstract!Init
    OBVIOUS
  <1>1. TypeOK
    BY InitType
  <1>2. /\ rows = <<>> /\ \A t \in Threads : pc[t] = "idle"
        /\ \A f \in Functions : file[f] = <<>>
    BY DEF Init
  <1>3. config.tsv \in BOOLEAN
    BY <1>1 DEF TypeOK, Config
  <1>4. AbsBusy = {} /\ call \in [Threads -> Calls]
    BY <1>1, <1>2 DEF AbsBusy, Finishing, TypeOK
  <1>5. AbsTable = {}
    BY <1>2 DEF AbsTable
  <1>6. AbsEntries = [f \in Functions |-> {}]
    BY <1>2, EntriesNow
  <1>7. QED
    BY <1>3, <1>4, <1>5, <1>6 DEF Abstract!Init

(***************************************************************************)
(* Where no two threads call one function, the C recorder does what the    *)
(* Rust one does: see ImplementsTraceLog.                                  *)
(***************************************************************************)
THEOREM OwnedRefinement ==
  ASSUME OwnedUse
  PROVE  Spec => ImplementsTraceLog
  BY InitRefines, NextRefines, Invariance, OwnedInvariance, PTL
  DEF Spec, ImplementsTraceLog, Abstract!Spec
=============================================================================
