--------------------------- MODULE RecorderProofs ---------------------------
(***************************************************************************)
(* Theorems about Recorder, for every set of threads, functions, inputs,   *)
(* configurations and bounds, and for every content hash.                  *)
(***************************************************************************)
EXTENDS RecorderInv, DeepLogProofs

(***************************************************************************)
(* The types of the variables that are the recorder's own.                 *)
(***************************************************************************)
OwnTypeOK ==
  /\ alive \in BOOLEAN
  /\ pc \in [Threads -> Locations]
  /\ call \in [Threads -> Calls]
  /\ seq \in [Threads -> Nat]
  /\ deep_seq \in [Threads -> Nat \cup {None}]
  /\ target \in [Threads -> Functions]
  /\ pending \in [Threads -> SUBSET Functions]
  /\ SEQ \in Nat
  /\ rows \in Seq(Row)
  /\ registry \in Threads \cup {NoThread}
  /\ holder \in [Functions -> Threads \cup {NoThread}]
  /\ begun \in Nat
  /\ flushes \in Nat
  /\ failures \in Nat
  /\ at_flush \in [Threads -> Nat]
  /\ missed \in [Threads -> SUBSET Functions]
  /\ flushed \in [Functions -> Nat]
  /\ lost \in [Functions -> SUBSET Hashes]
  /\ kept \in [Functions -> SUBSET Nat]

LEMMA TypeSplit == TypeOK <=> DeepTypeOK /\ OwnTypeOK
  BY DEF TypeOK, OwnTypeOK

\* The type of a history variable to which an element is added.
LEMMA OneMore ==
  ASSUME NEW D, NEW S, NEW sets \in [D -> SUBSET S], NEW d \in D, NEW x \in S
  PROVE  [sets EXCEPT ![d] = @ \cup {x}] \in [D -> SUBSET S]
  <1>1. sets[d] \cup {x} \in SUBSET S
    OBVIOUS
  <1>2. QED
    BY <1>1

LEMMA InitType == Init => TypeOK
  <1> SUFFICES ASSUME Init PROVE TypeOK
    OBVIOUS
  <1>1. DeepTypeOK
    BY ConfigsAssumption DEF Init, DeepInit, DeepTypeOK
  <1>2. (CHOOSE c \in Calls : TRUE) \in Calls
    BY CallsAssumption
  <1>3. (CHOOSE f \in Functions : TRUE) \in Functions
    BY FunctionsNonempty
  <1>4. OwnTypeOK
    <2>1. call \in [Threads -> Calls] /\ target \in [Threads -> Functions]
      BY <1>2, <1>3 DEF Init
    <2>2. rows \in Seq(Row)
      BY DEF Init
    <2>3. pc \in [Threads -> Locations] /\ seq \in [Threads -> Nat]
      BY DEF Init, Locations
    <2>4. deep_seq \in [Threads -> Nat \cup {None}]
      BY DEF Init
    <2>5. pending \in [Threads -> SUBSET Functions] /\ at_flush \in [Threads -> Nat]
      BY DEF Init
    <2>6. holder \in [Functions -> Threads \cup {NoThread}]
      BY DEF Init
    <2>7. /\ missed \in [Threads -> SUBSET Functions]
          /\ flushed \in [Functions -> Nat]
          /\ lost \in [Functions -> SUBSET Hashes]
          /\ kept \in [Functions -> SUBSET Nat]
      BY DEF Init
    <2>8. QED
      BY <2>1, <2>2, <2>3, <2>4, <2>5, <2>6, <2>7 DEF Init, OwnTypeOK
  <1>5. QED
    BY <1>1, <1>4, TypeSplit

(***************************************************************************)
(* Every step keeps TypeOK: one step of the proof for each action.         *)
(***************************************************************************)
LEMMA NextType ==
  ASSUME TypeOK, [Next]_vars
  PROVE  TypeOK'
  <1> DeepTypeOK /\ OwnTypeOK
    BY TypeSplit
  <1> USE DEF Locations, Finishing, Flushing, Transition
  <1>1. SUFFICES DeepTypeOK' /\ OwnTypeOK'
    BY DEF TypeOK, OwnTypeOK
  <1>2. ASSUME NEW t \in Threads, Step(t)
        PROVE  DeepTypeOK' /\ OwnTypeOK'
    <2> call[t] \in Calls /\ call[t].fn \in Functions
      BY DEF OwnTypeOK, Calls
    <2>1. CASE LockRegistry(t)
      <3>1. DeepTypeOK'
        BY <2>1, UnchangedDeepType DEF LockRegistry
      <3>2. OwnTypeOK'
        BY <2>1 DEF LockRegistry, OwnTypeOK, threadVars, lockVars, tsvVars,
           countVars, lossVars, flushVars
      <3>3. QED
        BY <3>1, <3>2
    <2>2. CASE OpenLog(t)
      <3>1. DeepTypeOK'
        BY <2>2, UnchangedDeepType, CreateLogType DEF OpenLog
      <3>2. OwnTypeOK'
        BY <2>2 DEF OpenLog, OwnTypeOK, tsvVars, countVars, lossVars, flushVars
      <3>3. QED
        BY <3>1, <3>2
    <2>3. CASE LockLog(t)
      <3>1. DeepTypeOK'
        BY <2>3, UnchangedDeepType DEF LockLog
      <3>2. OwnTypeOK'
        BY <2>3 DEF LockLog, OwnTypeOK, threadVars, lockVars, tsvVars,
           countVars, lossVars, flushVars
      <3>3. QED
        BY <3>1, <3>2
    <2>4. CASE Record(t)
      <3>1. PICK coin : \/ WriteCall(call[t], coin)
                       \/ SkipCall(call[t], coin)
                       \/ DedupCall(call[t], coin)
                       \/ BufferCall(call[t], coin)
                       \/ WriteFails(call[t], coin)
        BY <2>4 DEF Record, RecordAnswering
      <3>2. config' = config
        BY <2>4 DEF Record, RecordAnswering
      <3>3. DeepTypeOK'
        BY <3>1, <3>2, WriteCallType, PassedCallType, BufferCallType,
           WriteFailsType
      <3>4. NextNumber(t) \in Nat /\ InputHash(call[t]) \in Hashes
        BY DEF DeepTypeOK, NextNumber, Hashes
      <3>5. deep_seq' \in [Threads -> Nat \cup {None}]
        BY <2>4, <3>4 DEF Record, RecordAnswering, Answer, OwnTypeOK
      <3>6. /\ failures' \in Nat
            /\ lost' \in [Functions -> SUBSET Hashes]
            /\ kept' \in [Functions -> SUBSET Nat]
        <4>1. call[t].fn \in Functions
          BY DEF OwnTypeOK, Calls
        <4>2. failures' \in Nat
          BY <2>4 DEF Record, RecordAnswering, Fails, OwnTypeOK, lossVars
        <4>3. \/ lost' = lost
              \/ lost' = [lost EXCEPT ![call[t].fn] = @ \cup {InputHash(call[t])}]
          BY <2>4 DEF Record, RecordAnswering, lossVars
        <4>4. \/ kept' = kept
              \/ kept' = [kept EXCEPT ![call[t].fn] = @ \cup {NextNumber(t)}]
          BY <2>4 DEF Record, RecordAnswering, lossVars
        <4>5. lost' \in [Functions -> SUBSET Hashes]
          BY <3>4, <4>1, <4>3, OneMore DEF OwnTypeOK
        <4>6. kept' \in [Functions -> SUBSET Nat]
          <5>1. kept \in [Functions -> SUBSET Nat]
            BY DEF OwnTypeOK
          <5>2. [kept EXCEPT ![call[t].fn] = @ \cup {NextNumber(t)}]
                  \in [Functions -> SUBSET Nat]
            BY <3>4, <4>1, <5>1, OneMore
          <5>3. QED
            BY <4>4, <5>1, <5>2
        <4>7. QED
          BY <4>2, <4>5, <4>6
      <3>7. OwnTypeOK'
        BY <2>4, <3>5, <3>6 DEF Record, RecordAnswering, OwnTypeOK, tsvVars,
           flushVars
      <3>8. QED
        BY <3>3, <3>7
    <2>5. CASE WriteRow(t)
      <3>1. DeepTypeOK'
        BY <2>5, UnchangedDeepType DEF WriteRow
      <3>2. RowOf(t) \in Row
        BY DEF RowOf, Row, OwnTypeOK
      <3>3. rows' \in Seq(Row)
        BY <2>5, <3>2 DEF WriteRow, OwnTypeOK
      <3>4. OwnTypeOK'
        BY <2>5, <3>3 DEF WriteRow, OwnTypeOK, lockVars, countVars, lossVars,
           flushVars
      <3>5. QED
        BY <3>1, <3>4
    <2>6. CASE FlushLockRegistry(t)
      <3>1. DeepTypeOK'
        BY <2>6, UnchangedDeepType DEF FlushLockRegistry
      <3>2. OwnTypeOK'
        BY <2>6 DEF FlushLockRegistry, OwnTypeOK, DeepTypeOK, tsvVars,
           countVars, lossVars, flushVars
      <3>3. QED
        BY <3>1, <3>2
    <2>7. CASE FlushPick(t)
      <3>1. DeepTypeOK'
        BY <2>7, UnchangedDeepType DEF FlushPick
      <3>2. OwnTypeOK'
        BY <2>7 DEF FlushPick, OwnTypeOK, threadVars, lockVars, tsvVars,
           countVars, lossVars, flushVars
      <3>3. QED
        BY <3>1, <3>2
    <2>8. CASE FlushLockLog(t)
      <3>1. DeepTypeOK'
        BY <2>8, UnchangedDeepType DEF FlushLockLog
      <3>2. OwnTypeOK'
        BY <2>8 DEF FlushLockLog, OwnTypeOK, threadVars, lockVars, tsvVars,
           countVars, lossVars, flushVars
      <3>3. QED
        BY <3>1, <3>2
    <2>9. CASE FlushWrite(t)
      <3>1. target[t] \in Functions
        BY DEF OwnTypeOK
      <3>2. DeepTypeOK'
        BY <2>9, <3>1, FlushLastType, DropLastType,
           StallFlushType DEF FlushWrite
      <3>3. failures' \in Nat
        BY <2>9 DEF FlushWrite, Fails, OwnTypeOK
      <3>4. missed' = missed \/ missed' = [missed EXCEPT ![t] = @ \cup {target[t]}]
        BY <2>9 DEF FlushWrite
      <3>5. missed' \in [Threads -> SUBSET Functions]
        <4>1. missed \in [Threads -> SUBSET Functions]
          BY DEF OwnTypeOK
        <4>2. [missed EXCEPT ![t] = @ \cup {target[t]}] \in [Threads -> SUBSET Functions]
          BY <3>1, <4>1, OneMore
        <4>3. QED
          BY <3>4, <4>1, <4>2
      <3>6. /\ pc' = [pc EXCEPT ![t] = "flush_pick"]
            /\ holder' = [holder EXCEPT ![target[t]] = NoThread]
            /\ UNCHANGED <<alive, call, seq, deep_seq, target, pending, registry,
                           SEQ, rows, begun, flushes, at_flush, flushed, lost, kept>>
        BY <2>9 DEF FlushWrite, tsvVars
      <3>7. OwnTypeOK'
        BY <3>1, <3>3, <3>5, <3>6 DEF OwnTypeOK
      <3>8. QED
        BY <3>2, <3>7
    <2>10. CASE FlushDone(t)
      <3>1. DeepTypeOK'
        BY <2>10, UnchangedDeepType DEF FlushDone
      <3>2. OwnTypeOK'
        BY <2>10 DEF FlushDone, OwnTypeOK, threadVars, lockVars, tsvVars,
           countVars, lossVars, flushVars
      <3>3. QED
        BY <3>1, <3>2
    <2>11. QED
      BY <1>2, <2>1, <2>2, <2>3, <2>4, <2>5, <2>6, <2>7, <2>8, <2>9,
         <2>10 DEF Step
  <1>3. ASSUME NEW t \in Threads, Choice(t)
        PROVE  DeepTypeOK' /\ OwnTypeOK'
    <2>1. CASE New(t)
      <3>1. DeepTypeOK'
        BY <2>1, UnchangedDeepType DEF New
      <3>2. OwnTypeOK'
        BY <2>1 DEF New, OwnTypeOK, threadVars, lockVars, tsvVars, countVars,
           lossVars, flushVars
      <3>3. QED
        BY <3>1, <3>2
    <2>2. CASE FinishInactive(t)
      <3>1. DeepTypeOK'
        BY <2>2, UnchangedDeepType DEF FinishInactive
      <3>2. OwnTypeOK'
        BY <2>2 DEF FinishInactive, OwnTypeOK, threadVars, lockVars, tsvVars,
           countVars, lossVars, flushVars
      <3>3. QED
        BY <3>1, <3>2
    <2>3. CASE TakeSeq(t)
      <3>1. DeepTypeOK'
        BY <2>3, UnchangedDeepType DEF TakeSeq
      <3>2. OwnTypeOK'
        BY <2>3 DEF TakeSeq, OwnTypeOK, threadVars, lockVars, tsvVars,
           countVars, lossVars, flushVars
      <3>3. QED
        BY <3>1, <3>2
    <2>4. CASE StartFlush(t)
      <3>1. DeepTypeOK'
        BY <2>4, UnchangedDeepType DEF StartFlush
      <3>2. OwnTypeOK'
        BY <2>4 DEF StartFlush, OwnTypeOK, threadVars, lockVars, tsvVars,
           countVars, lossVars, flushVars
      <3>3. QED
        BY <3>1, <3>2
    <2>5. CASE Exit(t)
      <3>1. DeepTypeOK'
        BY <2>5, UnchangedDeepType DEF Exit
      <3>2. OwnTypeOK'
        BY <2>5 DEF Exit, OwnTypeOK, threadVars, lockVars, tsvVars, countVars,
           lossVars, flushVars
      <3>3. QED
        BY <3>1, <3>2
    <2>6. QED
      BY <1>3, <2>1, <2>2, <2>3, <2>4, <2>5 DEF Choice
  <1>4. CASE UNCHANGED vars
    <2>1. DeepTypeOK'
      BY <1>4, UnchangedDeepType DEF vars
    <2>2. OwnTypeOK'
      BY <1>4 DEF vars, OwnTypeOK, threadVars, lockVars, tsvVars, countVars,
         lossVars, flushVars
    <2>3. QED
      BY <2>1, <2>2
  <1>5. QED
    BY <1>1, <1>2, <1>3, <1>4 DEF Next, Exited

(***************************************************************************)
(* The recorder's variables always have their types.                       *)
(***************************************************************************)
THEOREM Typing == Spec => []TypeOK
  BY InitType, NextType, PTL DEF Spec
-----------------------------------------------------------------------------
(***************************************************************************)
(* NumbersInv.  Only TakeSeq and WriteRow touch numbers; every other step  *)
(* leaves each thread in finish, or out of it, as it was.                  *)
(***************************************************************************)
LEMMA NumbersFrame ==
  ASSUME NumbersInv, UNCHANGED <<seq, SEQ, rows, config>>,
         \A t \in Threads : InFinish(t)' = InFinish(t)
  PROVE  NumbersInv'
  BY DEF NumbersInv

LEMMA RowFields ==
  ASSUME TypeOK, NEW i \in DOMAIN rows
  PROVE  /\ rows[i].seq \in Nat
         /\ rows[i].call \in Calls
         /\ rows[i].call.fn \in Functions
         /\ rows[i].deep_seq \in Nat \cup {None}
  <1>1. rows \in Seq(Row)
    BY DEF TypeOK
  <1>2. rows[i] \in Row
    BY <1>1
  <1>3. QED
    BY <1>2 DEF Row, Calls

LEMMA TakeSeqNumbers ==
  ASSUME TypeOK, NumbersInv, NEW t \in Threads, TakeSeq(t)
  PROVE  NumbersInv'
  <1> USE DEF TypeOK, DeepTypeOK
  <1>1. /\ SEQ \in Nat /\ SEQ' = SEQ + 1
        /\ rows' = rows /\ config' = config
        /\ seq' = [seq EXCEPT ![t] = SEQ]
    BY DEF TakeSeq
  <1>2. /\ ~InFinish(t) /\ InFinish(t)'
        /\ \A u \in Threads \ {t} : InFinish(u)' = InFinish(u)
    BY DEF TakeSeq, Transition, InFinish, Finishing
  <1>3. /\ seq'[t] = SEQ
        /\ \A u \in Threads \ {t} : seq'[u] = seq[u]
    BY <1>1
  <1>4. \A i \in DOMAIN rows : rows[i].seq \in Nat
    BY RowFields
  <1>5. \A i \in DOMAIN rows : rows'[i].seq < SEQ'
    BY <1>1, <1>4 DEF NumbersInv
  <1>6. ASSUME NEW u \in Threads, InFinish(u)'
        PROVE  /\ seq'[u] < SEQ'
               /\ \A i \in DOMAIN rows : rows[i].seq # seq'[u]
               /\ \A v \in Threads : InFinish(v)' /\ seq'[v] = seq'[u] => v = u
    <2>1. CASE u = t
      BY <2>1, <1>1, <1>2, <1>3, <1>4 DEF NumbersInv
    <2>2. CASE u # t
      <3>1. InFinish(u) /\ seq'[u] = seq[u] /\ seq[u] \in Nat
        BY <2>2, <1>2, <1>3, <1>6
      <3>2. seq[u] < SEQ /\ \A i \in DOMAIN rows : rows[i].seq # seq[u]
        BY <3>1 DEF NumbersInv
      <3>3. \A v \in Threads : InFinish(v)' /\ seq'[v] = seq[u] => v = u
        <4>1. SUFFICES ASSUME NEW v \in Threads, InFinish(v)', seq'[v] = seq[u]
              PROVE  v = u
          OBVIOUS
        <4>2. v # t
          BY <1>1, <1>3, <3>1, <3>2, <4>1
        <4>3. InFinish(v) /\ seq[v] = seq[u]
          BY <1>2, <1>3, <4>1, <4>2
        <4>4. QED
          BY <3>1, <4>3 DEF NumbersInv
      <3>4. seq'[u] < SEQ'
        BY <1>1, <3>1, <3>2
      <3>5. \A i \in DOMAIN rows : rows[i].seq # seq'[u]
        BY <3>1, <3>2
      <3>6. QED
        BY <3>1, <3>3, <3>4, <3>5
    <2>3. QED
      BY <2>1, <2>2
  <1>7. ASSUME config.tsv, NEW n \in 0 .. SEQ' - 1
        PROVE  \/ \E i \in DOMAIN rows : rows[i].seq = n
               \/ \E u \in Threads : InFinish(u)' /\ seq'[u] = n
    <2>1. CASE n = SEQ
      BY <2>1, <1>2, <1>3
    <2>2. CASE n # SEQ
      <3>1. n \in 0 .. SEQ - 1
        BY <2>2, <1>1
      <3>2. QED
        BY <3>1, <1>2, <1>3, <1>7 DEF NumbersInv
    <2>3. QED
      BY <2>1, <2>2
  <1>8. QED
    BY <1>1, <1>5, <1>6, <1>7 DEF NumbersInv

\* A row is appended, or there is no TSV file and nothing is.
LEMMA WriteRowRows ==
  ASSUME TypeOK, NEW t \in Threads, WriteRow(t)
  PROVE  \/ rows' = rows /\ ~config.tsv
         \/ /\ DOMAIN rows' = DOMAIN rows \cup {Len(rows) + 1}
            /\ Len(rows) + 1 \notin DOMAIN rows
            /\ \A i \in DOMAIN rows : rows'[i] = rows[i]
            /\ rows'[Len(rows) + 1] = RowOf(t)
  <1>1. CASE config.tsv
    <2>1. rows \in Seq(Row) /\ RowOf(t) \in Row
      BY DEF TypeOK, Row, RowOf
    <2>2. rows' = Append(rows, RowOf(t))
      BY <1>1 DEF WriteRow
    <2>3. QED
      BY <2>1, <2>2
  <1>2. CASE ~config.tsv
    BY <1>2 DEF WriteRow
  <1>3. QED
    BY <1>1, <1>2

LEMMA WriteRowNumbers ==
  ASSUME TypeOK, NumbersInv, NEW t \in Threads, WriteRow(t)
  PROVE  NumbersInv'
  <1>1. UNCHANGED <<SEQ, seq, config>>
    BY DEF WriteRow
  <1>2. /\ InFinish(t) /\ ~InFinish(t)'
        /\ \A u \in Threads \ {t} : InFinish(u)' = InFinish(u)
    BY DEF TypeOK, WriteRow, Transition, InFinish, Finishing
  <1>3. CASE rows' = rows /\ ~config.tsv
    BY <1>1, <1>2, <1>3 DEF NumbersInv
  <1>4. CASE /\ DOMAIN rows' = DOMAIN rows \cup {Len(rows) + 1}
             /\ Len(rows) + 1 \notin DOMAIN rows
             /\ \A i \in DOMAIN rows : rows'[i] = rows[i]
             /\ rows'[Len(rows) + 1] = RowOf(t)
    <2>1. RowOf(t).seq = seq[t]
      BY DEF RowOf
    <2>2. \A i \in DOMAIN rows' : rows'[i].seq < SEQ'
      BY <1>1, <1>2, <1>4, <2>1 DEF NumbersInv
    <2>3. \A i, j \in DOMAIN rows' : rows'[i].seq = rows'[j].seq => i = j
      BY <1>2, <1>4, <2>1 DEF NumbersInv
    <2>4. \A u \in Threads : InFinish(u)' =>
            /\ seq'[u] < SEQ'
            /\ \A i \in DOMAIN rows' : rows'[i].seq # seq'[u]
            /\ \A v \in Threads : InFinish(v)' /\ seq'[v] = seq'[u] => v = u
      BY <1>1, <1>2, <1>4, <2>1 DEF NumbersInv
    <2>5. ASSUME config.tsv, NEW n \in 0 .. SEQ - 1
          PROVE  \/ \E i \in DOMAIN rows' : rows'[i].seq = n
                 \/ \E u \in Threads : InFinish(u)' /\ seq'[u] = n
      <3>1. CASE \E i \in DOMAIN rows : rows[i].seq = n
        BY <3>1, <1>4
      <3>2. CASE \E u \in Threads : InFinish(u) /\ seq[u] = n
        BY <3>2, <1>1, <1>2, <1>4, <2>1
      <3>3. QED
        BY <2>5, <3>1, <3>2 DEF NumbersInv
    <2>6. QED
      BY <1>1, <2>2, <2>3, <2>4, <2>5 DEF NumbersInv
  <1>5. QED
    BY <1>3, <1>4, WriteRowRows

LEMMA NextNumbers ==
  ASSUME TypeOK, NumbersInv, [Next]_vars
  PROVE  NumbersInv'
  <1>1. ASSUME NEW t \in Threads, Step(t)
        PROVE  NumbersInv'
    <2>1. CASE WriteRow(t)
      BY <2>1, WriteRowNumbers
    <2>2. CASE \/ LockRegistry(t) \/ OpenLog(t) \/ LockLog(t) \/ Record(t)
               \/ FlushLockRegistry(t) \/ FlushPick(t) \/ FlushLockLog(t)
               \/ FlushWrite(t) \/ FlushDone(t)
      <3>1. UNCHANGED <<seq, SEQ, rows, config>>
        BY <2>2 DEF LockRegistry, OpenLog, LockLog, Record, RecordAnswering,
             FlushLockRegistry, FlushPick, FlushLockLog, FlushWrite, FlushDone,
             tsvVars
      <3>2. \A u \in Threads : InFinish(u)' = InFinish(u)
        BY <2>2 DEF TypeOK, LockRegistry, OpenLog, LockLog, Record,
             RecordAnswering, FlushLockRegistry, FlushPick, FlushLockLog, FlushWrite, FlushDone,
             Transition, InFinish, Finishing
      <3>3. QED
        BY <3>1, <3>2, NumbersFrame
    <2>3. QED
      BY <1>1, <2>1, <2>2 DEF Step
  <1>2. ASSUME NEW t \in Threads, Choice(t)
        PROVE  NumbersInv'
    <2>1. CASE TakeSeq(t)
      BY <2>1, TakeSeqNumbers
    <2>2. CASE New(t) \/ FinishInactive(t) \/ StartFlush(t) \/ Exit(t)
      <3>1. UNCHANGED <<seq, SEQ, rows, config>>
        BY <2>2 DEF New, FinishInactive, StartFlush, Exit, tsvVars, threadVars
      <3>2. \A u \in Threads : InFinish(u)' = InFinish(u)
        BY <2>2 DEF TypeOK, New, FinishInactive, StartFlush, Exit, Transition,
             InFinish, Finishing, threadVars
      <3>3. QED
        BY <3>1, <3>2, NumbersFrame
    <2>3. QED
      BY <1>2, <2>1, <2>2 DEF Choice
  <1>3. CASE UNCHANGED vars
    <2>1. UNCHANGED <<seq, SEQ, rows, config>>
      BY <1>3 DEF vars, tsvVars, threadVars
    <2>2. \A u \in Threads : InFinish(u)' = InFinish(u)
      BY <1>3 DEF vars, threadVars, InFinish
    <2>3. QED
      BY <2>1, <2>2, NumbersFrame
  <1>4. QED
    BY <1>1, <1>2, <1>3 DEF Next, Exited
-----------------------------------------------------------------------------
(***************************************************************************)
(* PointersInv.                                                            *)
(***************************************************************************)
LEMMA ResolvesGrows ==
  ASSUME FilesGrow, NEW c \in Calls, NEW n, ResolvesIn(file, c, n)
  PROVE  ResolvesIn(file', c, n)
  BY DEF FilesGrow, ResolvesIn, Calls

\* What resolves has been counted: a new entry's number is not pointed at.
LEMMA ResolvesBelow ==
  ASSUME DeepTypeOK, LogInv, NEW c \in Calls, NEW n, ResolvesIn(file, c, n)
  PROVE  n < seq_counter[c.fn]
  BY DEF LogInv, ResolvesIn, Calls

LEMMA HoldsFields ==
  ASSUME TypeOK, NEW t \in Threads
  PROVE  /\ call[t] \in Calls
         /\ call[t].fn \in Functions
         /\ deep_seq[t] \in Nat \cup {None}
  <1>1. call[t] \in Calls /\ deep_seq[t] \in Nat \cup {None}
    BY DEF TypeOK
  <1>2. QED
    BY <1>1 DEF Calls

(***************************************************************************)
(* A step that writes no row and gives no thread a new deep_seq to hold    *)
(* disturbs no pointer, as long as files only grow.                        *)
(***************************************************************************)
LEMMA PointersFrame ==
  ASSUME TypeOK, PointersInv, FilesGrow, rows' = rows,
         \A t \in Threads : Holds(t)' =>
           Holds(t) /\ call'[t] = call[t] /\ deep_seq'[t] = deep_seq[t],
         \A t \in Threads : pc'[t] \in Finishing \ {"row"} => deep_seq'[t] = None
  PROVE  PointersInv'
  <1>1. ASSUME NEW i \in DOMAIN rows, rows[i].deep_seq # None
        PROVE  /\ ResolvesIn(file', rows[i].call, rows[i].deep_seq)
               /\ \A j \in DOMAIN rows :
                    rows[j].call.fn = rows[i].call.fn
                      /\ rows[j].deep_seq = rows[i].deep_seq => j = i
    <2>1. rows[i].call \in Calls
      BY RowFields
    <2>2. QED
      BY <1>1, <2>1, ResolvesGrows DEF PointersInv
  <1>2. ASSUME NEW t \in Threads, Holds(t)'
        PROVE  /\ ResolvesIn(file', call'[t], deep_seq'[t])
               /\ \A i \in DOMAIN rows :
                    rows[i].call.fn = call'[t].fn => rows[i].deep_seq # deep_seq'[t]
               /\ \A u \in Threads :
                    Holds(u)' /\ call'[u].fn = call'[t].fn
                      /\ deep_seq'[u] = deep_seq'[t] => u = t
    <2>1. Holds(t) /\ call'[t] = call[t] /\ deep_seq'[t] = deep_seq[t]
      BY <1>2
    <2>2. call[t] \in Calls
      BY HoldsFields
    <2>3. ResolvesIn(file', call[t], deep_seq[t])
      BY <2>1, <2>2, ResolvesGrows DEF PointersInv
    <2>4. QED
      BY <2>1, <2>3 DEF PointersInv
  <1>3. QED
    BY <1>1, <1>2 DEF PointersInv

(***************************************************************************)
(* Record: the answer is the number of an entry just made of this call,    *)
(* one that nothing points at yet; or there is no answer.                  *)
(***************************************************************************)
LEMMA RecordPointers ==
  ASSUME TypeOK, LogInv, PointersInv, NEW t \in Threads, Record(t)
  PROVE  LogInv' /\ PointersInv'
  <1> DeepTypeOK
    BY TypeSplit
  <1> DEFINE c == call[t]
             n == seq_counter[c.fn]
             e == EntryOf(c, n)
  <1>1. /\ c \in Calls /\ c.fn \in Functions
        /\ n \in Nat
    BY HoldsFields DEF DeepTypeOK
  <1>2. /\ rows' = rows /\ call' = call
        /\ pc[t] = "record" /\ pc' = [pc EXCEPT ![t] = "row"]
        /\ pc \in [Threads -> Locations]
        /\ deep_seq \in [Threads -> Nat \cup {None}]
    BY DEF Record, RecordAnswering, Transition, TypeOK, tsvVars
  <1>3. PICK coin :
          \/ WriteCall(c, coin) /\ deep_seq' = [deep_seq EXCEPT ![t] = n]
          \/ /\ \/ SkipCall(c, coin) \/ DedupCall(c, coin)
                \/ BufferCall(c, coin) \/ WriteFails(c, coin)
             /\ deep_seq' = [deep_seq EXCEPT ![t] = None]
    BY DEF Record, RecordAnswering, NextNumber, Answer
  <1>4. CASE /\ \/ SkipCall(c, coin) \/ DedupCall(c, coin)
                \/ BufferCall(c, coin) \/ WriteFails(c, coin)
             /\ deep_seq' = [deep_seq EXCEPT ![t] = None]
    <2>1. LogInv'
      BY <1>1, <1>4, PassedCallLog, BufferCallLog, WriteFailsLog
    <2>2. FilesGrow
      <3>1. file' = file
        BY <1>4 DEF SkipCall, DedupCall, BufferCall, WriteFails
      <3>2. QED
        BY <3>1 DEF FilesGrow
    <2>3. \A u \in Threads : Holds(u)' =>
            Holds(u) /\ call'[u] = call[u] /\ deep_seq'[u] = deep_seq[u]
      BY <1>2, <1>4 DEF Holds
    <2>4. \A u \in Threads :
            pc'[u] \in Finishing \ {"row"} => deep_seq'[u] = None
      BY <1>2, <1>4 DEF PointersInv
    <2>5. QED
      BY <1>2, <2>1, <2>2, <2>3, <2>4, PointersFrame
  <1>5. CASE WriteCall(c, coin) /\ deep_seq' = [deep_seq EXCEPT ![t] = n]
    <2>1. LogInv'
      BY <1>1, <1>5, WriteCallLog
    <2>2. Appended(c.fn, e)
      BY <1>1, <1>5, WriteCallAppends
    <2>3. FilesGrow
      BY <1>1, <2>2, AppendedGrow
    <2>4. ResolvesIn(file', c, n)
      BY <2>2 DEF Appended, ResolvesIn, EntryOf, Matches
    <2>5. \A i \in DOMAIN rows : rows[i].call.fn = c.fn => rows[i].deep_seq # n
      <3>1. ASSUME NEW i \in DOMAIN rows, rows[i].call.fn = c.fn,
                   rows[i].deep_seq = n
            PROVE  FALSE
        <4>1. rows[i].call \in Calls
          BY RowFields
        <4>2. ResolvesIn(file, rows[i].call, n)
          BY <1>1, <3>1 DEF PointersInv, None
        <4>3. n < seq_counter[rows[i].call.fn]
          BY <4>1, <4>2, ResolvesBelow
        <4>4. QED
          BY <1>1, <3>1, <4>3
      <3>2. QED
        BY <3>1
    <2>6. \A u \in Threads : Holds(u) /\ call[u].fn = c.fn => deep_seq[u] # n
      <3>1. ASSUME NEW u \in Threads, Holds(u), call[u].fn = c.fn, deep_seq[u] = n
            PROVE  FALSE
        <4>1. call[u] \in Calls
          BY HoldsFields
        <4>2. ResolvesIn(file, call[u], n)
          BY <3>1 DEF PointersInv
        <4>3. n < seq_counter[call[u].fn]
          BY <4>1, <4>2, ResolvesBelow
        <4>4. QED
          BY <1>1, <3>1, <4>3
      <3>2. QED
        BY <3>1
    <2>7. /\ deep_seq'[t] = n /\ Holds(t)'
          /\ \A u \in Threads \ {t} :
               deep_seq'[u] = deep_seq[u] /\ pc'[u] = pc[u] /\ Holds(u)' = Holds(u)
      BY <1>1, <1>2, <1>5 DEF Holds, None
    <2>8. \A i \in DOMAIN rows : rows[i].deep_seq # None =>
            /\ ResolvesIn(file', rows[i].call, rows[i].deep_seq)
            /\ \A j \in DOMAIN rows :
                 rows[j].call.fn = rows[i].call.fn
                   /\ rows[j].deep_seq = rows[i].deep_seq => j = i
      BY <2>3, RowFields, ResolvesGrows DEF PointersInv
    <2>9. ASSUME NEW u \in Threads
          PROVE  /\ pc'[u] \in Finishing \ {"row"} => deep_seq'[u] = None
                 /\ Holds(u)' =>
                      /\ ResolvesIn(file', call[u], deep_seq'[u])
                      /\ \A i \in DOMAIN rows :
                           rows[i].call.fn = call[u].fn
                             => rows[i].deep_seq # deep_seq'[u]
                      /\ \A v \in Threads :
                           Holds(v)' /\ call[v].fn = call[u].fn
                             /\ deep_seq'[v] = deep_seq'[u] => v = u
      <3>1. CASE u = t
        <4>1. pc'[t] = "row"
          BY <1>2
        <4>2. QED
          BY <2>4, <2>5, <2>6, <2>7, <3>1, <4>1
      <3>2. CASE u # t
        <4>1. Holds(u) => ResolvesIn(file', call[u], deep_seq[u])
          BY <2>3, HoldsFields, ResolvesGrows DEF PointersInv
        <4>2. QED
          BY <2>6, <2>7, <3>2, <4>1 DEF PointersInv
      <3>3. QED
        BY <3>1, <3>2
    <2>10. QED
      BY <1>2, <2>1, <2>8, <2>9 DEF PointersInv
  <1>6. QED
    BY <1>3, <1>4, <1>5

\* WriteRow: what the thread held, the row now points at.
LEMMA WriteRowPointers ==
  ASSUME TypeOK, PointersInv, NEW t \in Threads, WriteRow(t)
  PROVE  PointersInv'
  <1>1. /\ file' = file /\ call' = call /\ deep_seq' = deep_seq
        /\ pc[t] = "row" /\ pc' = [pc EXCEPT ![t] = "idle"]
        /\ pc \in [Threads -> Locations]
    BY DEF WriteRow, Transition, TypeOK, deepVars
  <1>2. /\ ~Holds(t)' /\ (deep_seq[t] # None => Holds(t))
        /\ \A u \in Threads \ {t} : Holds(u)' = Holds(u) /\ pc'[u] = pc[u]
    BY <1>1 DEF Holds
  <1>3. pc'[t] \notin Finishing
    BY <1>1 DEF Finishing
  <1>4. CASE rows' = rows /\ ~config.tsv
    <2>1. FilesGrow
      BY <1>1 DEF FilesGrow
    <2>2. \A u \in Threads : Holds(u)' =>
            Holds(u) /\ call'[u] = call[u] /\ deep_seq'[u] = deep_seq[u]
      BY <1>1, <1>2
    <2>3. \A u \in Threads : pc'[u] \in Finishing \ {"row"} => deep_seq'[u] = None
      BY <1>1, <1>2, <1>3 DEF PointersInv
    <2>4. QED
      BY <1>4, <2>1, <2>2, <2>3, PointersFrame
  <1>5. CASE /\ DOMAIN rows' = DOMAIN rows \cup {Len(rows) + 1}
             /\ Len(rows) + 1 \notin DOMAIN rows
             /\ \A i \in DOMAIN rows : rows'[i] = rows[i]
             /\ rows'[Len(rows) + 1] = RowOf(t)
    <2>1. RowOf(t).call = call[t] /\ RowOf(t).deep_seq = deep_seq[t]
      BY DEF RowOf
    <2>2. \A i \in DOMAIN rows' : rows'[i].deep_seq # None =>
            /\ ResolvesIn(file, rows'[i].call, rows'[i].deep_seq)
            /\ \A j \in DOMAIN rows' :
                 rows'[j].call.fn = rows'[i].call.fn
                   /\ rows'[j].deep_seq = rows'[i].deep_seq => j = i
      BY <1>2, <1>5, <2>1 DEF PointersInv
    <2>3. ASSUME NEW u \in Threads
          PROVE  /\ pc'[u] \in Finishing \ {"row"} => deep_seq[u] = None
                 /\ Holds(u)' =>
                      /\ ResolvesIn(file, call[u], deep_seq[u])
                      /\ \A i \in DOMAIN rows' :
                           rows'[i].call.fn = call[u].fn
                             => rows'[i].deep_seq # deep_seq[u]
                      /\ \A v \in Threads :
                           Holds(v)' /\ call[v].fn = call[u].fn
                             /\ deep_seq[v] = deep_seq[u] => v = u
      <3>1. CASE u = t
        BY <1>2, <1>3, <3>1
      <3>2. CASE u # t
        <4>1. Holds(u) =>
                \A i \in DOMAIN rows' :
                  rows'[i].call.fn = call[u].fn => rows'[i].deep_seq # deep_seq[u]
          <5>1. SUFFICES ASSUME Holds(u), NEW i \in DOMAIN rows',
                                rows'[i].call.fn = call[u].fn,
                                rows'[i].deep_seq = deep_seq[u]
                PROVE  FALSE
            OBVIOUS
          <5>2. CASE i \in DOMAIN rows
            BY <1>5, <5>1, <5>2 DEF PointersInv
          <5>3. CASE i = Len(rows) + 1
            <6>1. call[t].fn = call[u].fn /\ deep_seq[t] = deep_seq[u]
              BY <1>5, <2>1, <5>1, <5>3
            <6>2. Holds(t)
              BY <1>2, <5>1, <6>1 DEF Holds
            <6>3. QED
              BY <3>2, <5>1, <6>1, <6>2 DEF PointersInv
          <5>4. QED
            BY <1>5, <5>2, <5>3
        <4>2. QED
          BY <1>2, <3>2, <4>1 DEF PointersInv
      <3>3. QED
        BY <3>1, <3>2
    <2>4. QED
      BY <1>1, <2>2, <2>3 DEF PointersInv
  <1>6. QED
    BY <1>4, <1>5, WriteRowRows

(***************************************************************************)
(* LogInv and PointersInv are kept by every step.                          *)
(***************************************************************************)
LEMMA NextPointers ==
  ASSUME TypeOK, LogInv, PointersInv, [Next]_vars
  PROVE  LogInv' /\ PointersInv'
  <1> DeepTypeOK
    BY TypeSplit
  <1> USE DEF Transition
  <1>1. ASSUME NEW t \in Threads, Step(t)
        PROVE  LogInv' /\ PointersInv'
    <2>1. CASE Record(t)
      BY <2>1, RecordPointers
    <2>2. CASE WriteRow(t)
      <3>1. UNCHANGED <<seq_counter, last_buffer, file>>
        BY <2>2 DEF WriteRow, deepVars
      <3>2. QED
        BY <2>2, <3>1, LogFrame, WriteRowPointers
    <2>3. CASE FlushWrite(t)
      <3>1. target[t] \in Functions
        BY DEF TypeOK
      <3>2. LogInv' /\ FilesGrow
        BY <2>3, <3>1, FlushLastLog, FlushFailsLog DEF FlushWrite
      <3>3. rows' = rows /\ call' = call /\ deep_seq' = deep_seq
        BY <2>3 DEF FlushWrite, tsvVars
      <3>4. pc'[t] = "flush_pick" /\ \A u \in Threads \ {t} : pc'[u] = pc[u]
        BY <2>3 DEF FlushWrite, TypeOK
      <3>5. \A u \in Threads :
              /\ Holds(u)' =>
                   Holds(u) /\ call'[u] = call[u] /\ deep_seq'[u] = deep_seq[u]
              /\ pc'[u] \in Finishing \ {"row"} => deep_seq'[u] = None
        BY <3>3, <3>4 DEF PointersInv, Holds, Finishing
      <3>6. QED
        BY <3>2, <3>3, <3>5, PointersFrame
    <2>4. CASE \/ LockRegistry(t) \/ OpenLog(t) \/ LockLog(t)
               \/ FlushLockRegistry(t) \/ FlushPick(t) \/ FlushLockLog(t)
               \/ FlushDone(t)
      <3>1. /\ UNCHANGED <<seq_counter, last_buffer, file>>
            /\ rows' = rows /\ call' = call /\ deep_seq' = deep_seq
        BY <2>4 DEF LockRegistry, OpenLog, LockLog, FlushLockRegistry,
             FlushPick, FlushLockLog, FlushDone, CreateLog, deepVars, tsvVars
      <3>2. \A u \in Threads \ {t} : pc'[u] = pc[u]
        BY <2>4 DEF LockRegistry, OpenLog, LockLog, FlushLockRegistry,
             FlushPick, FlushLockLog, FlushDone, TypeOK
      <3>3. /\ pc'[t] \in Finishing => pc[t] \in Finishing \ {"row"}
        BY <2>4 DEF LockRegistry, OpenLog, LockLog, FlushLockRegistry,
             FlushPick, FlushLockLog, FlushDone, TypeOK, Finishing
      <3>4. pc'[t] \in Finishing => deep_seq[t] = None
        BY <3>3 DEF PointersInv
      <3>5. \A u \in Threads :
              /\ Holds(u)' => Holds(u)
              /\ pc'[u] \in Finishing \ {"row"} => deep_seq'[u] = None
        BY <3>1, <3>2, <3>4 DEF PointersInv, Holds, Finishing
      <3>6. QED
        BY <3>1, <3>5, LogFrame, PointersFrame
    <2>5. QED
      BY <1>1, <2>1, <2>2, <2>3, <2>4 DEF Step
  <1>2. ASSUME NEW t \in Threads, Choice(t)
        PROVE  LogInv' /\ PointersInv'
    <2>1. /\ UNCHANGED <<seq_counter, last_buffer, file>>
          /\ rows' = rows
      BY <1>2 DEF Choice, New, FinishInactive, TakeSeq, StartFlush, Exit,
           deepVars, tsvVars
    <2>2. \A u \in Threads \ {t} :
            pc'[u] = pc[u] /\ call'[u] = call[u] /\ deep_seq'[u] = deep_seq[u]
      BY <1>2 DEF Choice, New, FinishInactive, TakeSeq, StartFlush, Exit,
           TypeOK, threadVars
    <2>3. ~Holds(t)' /\ (pc'[t] \in Finishing => deep_seq'[t] = None)
      BY <1>2 DEF Choice, New, FinishInactive, TakeSeq, StartFlush, Exit,
           TypeOK, threadVars, Holds, Finishing
    <2>4. \A u \in Threads :
            /\ Holds(u)' =>
                 Holds(u) /\ call'[u] = call[u] /\ deep_seq'[u] = deep_seq[u]
            /\ pc'[u] \in Finishing \ {"row"} => deep_seq'[u] = None
      BY <2>2, <2>3 DEF PointersInv, Holds
    <2>5. QED
      BY <2>1, <2>4, LogFrame, PointersFrame
  <1>3. CASE UNCHANGED vars
    <2>1. /\ UNCHANGED <<seq_counter, last_buffer, file>>
          /\ UNCHANGED <<rows, pc, call, deep_seq>>
      BY <1>3 DEF vars, deepVars, tsvVars, threadVars
    <2>2. \A u \in Threads :
            /\ Holds(u)' =>
                 Holds(u) /\ call'[u] = call[u] /\ deep_seq'[u] = deep_seq[u]
            /\ pc'[u] \in Finishing \ {"row"} => deep_seq'[u] = None
      BY <2>1 DEF PointersInv, Holds
    <2>3. QED
      BY <2>1, <2>2, LogFrame, PointersFrame
  <1>4. QED
    BY <1>1, <1>2, <1>3 DEF Next, Exited

-----------------------------------------------------------------------------
(***************************************************************************)
(* What is left alone by a step that records, flushes and writes nothing.  *)
(***************************************************************************)
HoldsSame ==
  \A u \in Threads :
    /\ Holds(u)' <=> Holds(u)
    /\ Holds(u) => call'[u] = call[u] /\ deep_seq'[u] = deep_seq[u]

LEMMA StepKinds ==
  ASSUME TypeOK, PointersInv, [Next]_vars
  PROVE  \/ \E t \in Threads : Record(t) \/ FlushWrite(t) \/ WriteRow(t)
         \/ /\ UNCHANGED <<config, seq_counter, seen_hashes, last_buffer, file,
                           durable, rows, lost, kept>>
            /\ HoldsSame
  <1> USE DEF Transition
  <1>1. ASSUME NEW t \in Threads,
               \/ LockRegistry(t) \/ OpenLog(t) \/ LockLog(t)
               \/ FlushLockRegistry(t) \/ FlushPick(t) \/ FlushLockLog(t)
               \/ FlushDone(t)
        PROVE  /\ UNCHANGED <<config, seq_counter, seen_hashes, last_buffer,
                              file, durable, rows, lost, kept>>
               /\ HoldsSame
    <2>1. /\ UNCHANGED <<config, seq_counter, seen_hashes, last_buffer,
                         file, durable, rows, lost, kept>>
          /\ UNCHANGED <<call, deep_seq>>
      BY <1>1 DEF LockRegistry, OpenLog, LockLog, FlushLockRegistry, FlushPick,
         FlushLockLog, FlushDone, CreateLog, deepVars, tsvVars, countVars,
         lossVars
    <2>2. /\ \A u \in Threads \ {t} : pc'[u] = pc[u]
          /\ pc[t] # "row"
          /\ pc'[t] = "row" => pc[t] \in Finishing \ {"row"}
      BY <1>1 DEF TypeOK, LockRegistry, OpenLog, LockLog, FlushLockRegistry,
         FlushPick, FlushLockLog, FlushDone, Finishing
    <2>3. pc'[t] = "row" => deep_seq[t] = None
      BY <2>2 DEF PointersInv
    <2>4. QED
      BY <2>1, <2>2, <2>3 DEF Holds, HoldsSame
  <1>2. ASSUME NEW t \in Threads, Choice(t)
        PROVE  /\ UNCHANGED <<config, seq_counter, seen_hashes, last_buffer,
                              file, durable, rows, lost, kept>>
               /\ HoldsSame
    <2>1. UNCHANGED <<config, seq_counter, seen_hashes, last_buffer,
                      file, durable, rows, lost, kept>>
      BY <1>2 DEF Choice, New, FinishInactive, TakeSeq, StartFlush, Exit,
         deepVars, tsvVars, countVars, lossVars
    <2>2. \A u \in Threads \ {t} :
            pc'[u] = pc[u] /\ call'[u] = call[u] /\ deep_seq'[u] = deep_seq[u]
      BY <1>2 DEF Choice, New, FinishInactive, TakeSeq, StartFlush, Exit,
         TypeOK, threadVars
    <2>3. pc[t] # "row" /\ (pc'[t] = "row" => deep_seq'[t] = None)
      BY <1>2 DEF Choice, New, FinishInactive, TakeSeq, StartFlush, Exit,
         TypeOK, threadVars
    <2>4. QED
      BY <2>1, <2>2, <2>3 DEF Holds, HoldsSame
  <1>3. CASE UNCHANGED vars
    BY <1>3 DEF vars, deepVars, tsvVars, threadVars, countVars, lossVars,
       Holds, HoldsSame
  <1>4. QED
    BY <1>1, <1>2, <1>3 DEF Next, Step, Exited

\* Record in terms of the operations of the log.
LEMMA RecordCall ==
  ASSUME TypeOK, NEW t \in Threads, Record(t)
  PROVE  /\ call[t] \in Calls /\ call[t].fn \in Functions
         /\ config' = config /\ rows' = rows /\ call' = call
         /\ pc[t] = "record" /\ pc' = [pc EXCEPT ![t] = "row"]
         /\ \E coin :
              \/ /\ WriteCall(call[t], coin)
                 /\ deep_seq' = [deep_seq EXCEPT ![t] = seq_counter[call[t].fn]]
              \/ /\ \/ SkipCall(call[t], coin)
                    \/ DedupCall(call[t], coin)
                    \/ BufferCall(call[t], coin)
                    \/ WriteFails(call[t], coin)
                 /\ deep_seq' = [deep_seq EXCEPT ![t] = None]
  BY HoldsFields DEF Record, RecordAnswering, NextNumber, Answer, Transition,
     tsvVars

\* What Record does to the histories of what was kept and lost.
LEMMA RecordHistory ==
  ASSUME TypeOK, NEW t \in Threads, Record(t)
  PROVE  \E coin :
           \/ /\ \/ WriteCall(call[t], coin)
                 \/ SkipCall(call[t], coin)
                 \/ DedupCall(call[t], coin)
              /\ lost' = lost /\ kept' = kept
           \/ /\ BufferCall(call[t], coin)
              /\ lost' = lost
              /\ kept' = [kept EXCEPT ![call[t].fn] =
                            @ \cup {seq_counter[call[t].fn]}]
           \/ /\ WriteFails(call[t], coin)
              /\ lost' = [lost EXCEPT ![call[t].fn] = @ \cup {InputHash(call[t])}]
              /\ kept' = kept
  BY DEF Record, RecordAnswering, NextNumber, lossVars
-----------------------------------------------------------------------------
(***************************************************************************)
(* KeptInv and OneEntryPerInput.  An entry gets into a file from record    *)
(* with a hash that seen_hashes did not have and a number that was never   *)
(* kept, or from a flush with a number that was.                           *)
(***************************************************************************)
RecordedStays ==
  \A f \in Functions : \A k \in DOMAIN file[f] :
    /\ k \in DOMAIN file'[f] /\ file'[f][k] = file[f][k]
    /\ k \in Recorded(f)' <=> k \in Recorded(f)

LEMMA SameRecorded ==
  ASSUME FilesGrow, kept' = kept
  PROVE  RecordedStays
  BY DEF FilesGrow, RecordedStays, Recorded

InputsOnce(f) ==
  /\ \A j, k \in Recorded(f) : file[f][j].hash = file[f][k].hash => j = k
  /\ \A k \in Recorded(f) : file[f][k].hash \notin lost[f]
  /\ seen_hashes[f] = {file[f][k].hash : k \in Recorded(f)} \cup lost[f]

\* A log that record has written nothing to has nothing new to remember.
LEMMA InputsOnceFrame ==
  ASSUME RecordedStays, NEW f \in Functions, InputsOnce(f),
         \A k \in DOMAIN file'[f] : k \in DOMAIN file[f] \/ k \notin Recorded(f)',
         seen_hashes'[f] = seen_hashes[f], lost'[f] = lost[f]
  PROVE  InputsOnce(f)'
  <1>1. Recorded(f)' = Recorded(f)
    BY DEF RecordedStays, Recorded
  <1>2. \A k \in Recorded(f) : file'[f][k] = file[f][k]
    BY DEF RecordedStays, Recorded
  <1>3. QED
    BY <1>1, <1>2 DEF InputsOnce

\* What a record under c's log can keep.
LEMMA CountedKept ==
  ASSUME DeepTypeOK, KeptInv, NEW c \in Calls, Counted(c),
         last_buffer' = last_buffer, kept' = kept, kept \in [Functions -> SUBSET Nat]
  PROVE  KeptInv'
  <1>1. /\ c.fn \in Functions
        /\ seq_counter[c.fn] \in Nat
        /\ seq_counter'[c.fn] = seq_counter[c.fn] + 1
        /\ \A g \in Functions \ {c.fn} : seq_counter'[g] = seq_counter[g]
    BY DEF Calls, DeepTypeOK, Counted
  <1>2. \A f \in Functions : \A n \in kept[f] : n \in Nat
    OBVIOUS
  <1>3. QED
    BY <1>1, <1>2 DEF KeptInv

LEMMA BufferCallKept ==
  ASSUME TypeOK, LogInv, KeptInv, NEW c \in Calls, NEW coin, BufferCall(c, coin),
         kept' = [kept EXCEPT ![c.fn] = @ \cup {seq_counter[c.fn]}]
  PROVE  KeptInv' /\ RecordedStays
  <1> DEFINE n == seq_counter[c.fn]
             e == EntryOf(c, n)
  <1> DeepTypeOK
    BY TypeSplit
  <1>1. c.fn \in Functions /\ n \in Nat
    BY DEF Calls, DeepTypeOK
  <1>2. /\ seq_counter'[c.fn] = n + 1
        /\ last_buffer'[c.fn] = <<e>>
        /\ \A g \in Functions \ {c.fn} : /\ seq_counter'[g] = seq_counter[g]
                                        /\ last_buffer'[g] = last_buffer[g]
        /\ file' = file
    BY <1>1 DEF DeepTypeOK, BufferCall, Counted
  <1>3. /\ kept'[c.fn] = kept[c.fn] \cup {n}
        /\ \A g \in Functions \ {c.fn} : kept'[g] = kept[g]
    BY <1>1 DEF TypeOK
  <1>4. e.seq = n
    BY DEF EntryOf
  <1>5. \A m \in kept[c.fn] : m \in Nat /\ m < n
    BY <1>1 DEF TypeOK, KeptInv
  <1>6. \A k \in DOMAIN file[c.fn] : file[c.fn][k].seq \in Nat /\ file[c.fn][k].seq < n
    BY <1>1, EntryFields DEF LogInv
  <1> HIDE DEF n, e
  <1>7. <<e>>[1] = e
    OBVIOUS
  <1>8. KeptInv'
    <2>1. SUFFICES ASSUME NEW f \in Functions
          PROVE  /\ \A m \in kept'[f] : m < seq_counter'[f]
                 /\ last_buffer'[f] # <<>> => last_buffer'[f][1].seq \in kept'[f]
      BY DEF KeptInv
    <2>2. CASE f = c.fn
      <3>1. \A m \in kept'[f] : m < seq_counter'[f]
        BY <1>1, <1>2, <1>3, <1>5, <2>2
      <3>2. last_buffer'[f][1].seq \in kept'[f]
        BY <1>2, <1>3, <1>4, <1>7, <2>2
      <3>3. QED
        BY <3>1, <3>2
    <2>3. CASE f # c.fn
      BY <1>2, <1>3, <2>3 DEF KeptInv
    <2>4. QED
      BY <2>2, <2>3
  <1>9. RecordedStays
    <2>1. \A k \in DOMAIN file[c.fn] : file[c.fn][k].seq # n
      BY <1>1, <1>6
    <2>2. \A f \in Functions : \A k \in DOMAIN file[f] :
            file[f][k].seq \in kept'[f] <=> file[f][k].seq \in kept[f]
      BY <1>3, <2>1
    <2>3. QED
      BY <1>2, <2>2 DEF RecordedStays, Recorded
  <1>10. QED
    BY <1>8, <1>9

\* WriteCall: the one new entry is recorded, and its hash is remembered.
LEMMA WriteCallKept ==
  ASSUME TypeOK, LogInv, KeptInv, NEW c \in Calls, NEW coin, WriteCall(c, coin),
         kept' = kept
  PROVE  /\ KeptInv' /\ RecordedStays
         /\ Len(file[c.fn]) + 1 \in Recorded(c.fn)'
  <1> DeepTypeOK
    BY TypeSplit
  <1>1. c.fn \in Functions /\ seq_counter[c.fn] \in Nat
    BY DEF Calls, DeepTypeOK
  <1>2. KeptInv'
    BY CountedKept DEF WriteCall, TypeOK
  <1>3. Appended(c.fn, EntryOf(c, seq_counter[c.fn]))
    BY WriteCallAppends
  <1>4. RecordedStays
    BY <1>1, <1>3, AppendedGrow, SameRecorded
  <1>5. file'[c.fn][Len(file[c.fn]) + 1].seq = seq_counter[c.fn]
    BY <1>3 DEF Appended, EntryOf
  <1>6. seq_counter[c.fn] \notin kept[c.fn]
    <2>1. \A m \in kept[c.fn] : m < seq_counter[c.fn]
      BY <1>1 DEF KeptInv
    <2>2. QED
      BY <1>1, <2>1
  <1>7. QED
    BY <1>2, <1>3, <1>4, <1>5, <1>6 DEF Appended, Recorded

LEMMA WriteCallOnce ==
  ASSUME TypeOK, LogInv, KeptInv, OneEntryPerInput,
         NEW c \in Calls, NEW coin, WriteCall(c, coin),
         kept' = kept, lost' = lost
  PROVE  OneEntryPerInput'
  <1> DEFINE e == EntryOf(c, seq_counter[c.fn])
             last == Len(file[c.fn]) + 1
  <1> DeepTypeOK
    BY TypeSplit
  <1>1. c.fn \in Functions
    BY DEF Calls
  <1>2. Appended(c.fn, e)
    BY WriteCallAppends
  <1>3. e.hash = InputHash(c)
    BY DEF EntryOf
  <1>4. RecordedStays /\ last \in Recorded(c.fn)'
    BY WriteCallKept
  <1> HIDE DEF e
  <1>5. /\ e.hash \notin seen_hashes[c.fn]
        /\ seen_hashes'[c.fn] = seen_hashes[c.fn] \cup {e.hash}
        /\ \A g \in Functions \ {c.fn} : seen_hashes'[g] = seen_hashes[g]
    BY <1>1, <1>3 DEF WriteCall, DeepTypeOK
  <1>6. /\ DOMAIN file'[c.fn] = DOMAIN file[c.fn] \cup {last}
        /\ last \notin DOMAIN file[c.fn]
        /\ file'[c.fn][last] = e
        /\ \A g \in Functions \ {c.fn} : file'[g] = file[g]
    BY <1>2 DEF Appended
  <1> HIDE DEF last
  <1>7. SUFFICES ASSUME NEW f \in Functions PROVE InputsOnce(f)'
    BY DEF OneEntryPerInput, InputsOnce
  <1>8. InputsOnce(f)
    BY DEF OneEntryPerInput, InputsOnce
  <1>9. CASE f # c.fn
    BY <1>4, <1>5, <1>6, <1>8, <1>9, InputsOnceFrame
  <1>10. CASE f = c.fn
    <2>1. Recorded(f)' = Recorded(f) \cup {last}
      BY <1>4, <1>6, <1>10 DEF RecordedStays, Recorded
    <2>2. /\ \A k \in Recorded(f) : file'[f][k] = file[f][k]
          /\ last \notin Recorded(f)
      BY <1>4, <1>6, <1>10 DEF RecordedStays, Recorded
    <2>3. /\ \A k \in Recorded(f) : file[f][k].hash # e.hash
          /\ e.hash \notin lost[f]
      BY <1>5, <1>8, <1>10 DEF InputsOnce
    <2>4. \A j, k \in Recorded(f) \cup {last} :
            file'[f][j].hash = file'[f][k].hash => j = k
      BY <1>6, <1>8, <1>10, <2>2, <2>3 DEF InputsOnce
    <2>5. \A k \in Recorded(f) \cup {last} : file'[f][k].hash \notin lost[f]
      BY <1>6, <1>8, <1>10, <2>2, <2>3 DEF InputsOnce
    <2>6. {file'[f][k].hash : k \in Recorded(f) \cup {last}}
            = {file[f][k].hash : k \in Recorded(f)} \cup {e.hash}
      BY <1>6, <1>10, <2>2
    <2>7. seen_hashes'[f] = {file'[f][k].hash : k \in Recorded(f) \cup {last}} \cup lost[f]
      BY <1>5, <1>8, <1>10, <2>6 DEF InputsOnce
    <2>8. QED
      BY <2>1, <2>4, <2>5, <2>7 DEF InputsOnce
  <1>11. QED
    BY <1>9, <1>10

\* WriteFails: the hash is remembered, and lost.
LEMMA WriteFailsOnce ==
  ASSUME TypeOK, OneEntryPerInput, NEW c \in Calls, NEW coin, WriteFails(c, coin),
         kept' = kept,
         lost' = [lost EXCEPT ![c.fn] = @ \cup {InputHash(c)}]
  PROVE  OneEntryPerInput'
  <1> DEFINE h == InputHash(c)
  <1>1. c.fn \in Functions /\ file' = file
    BY DEF Calls, WriteFails
  <1>2. /\ h \notin seen_hashes[c.fn]
        /\ seen_hashes'[c.fn] = seen_hashes[c.fn] \cup {h}
        /\ \A g \in Functions \ {c.fn} : seen_hashes'[g] = seen_hashes[g]
        /\ lost'[c.fn] = lost[c.fn] \cup {h}
        /\ \A g \in Functions \ {c.fn} : lost'[g] = lost[g]
    BY <1>1 DEF WriteFails, TypeOK, DeepTypeOK
  <1> HIDE DEF h
  <1>3. \A f \in Functions : Recorded(f)' = Recorded(f)
    BY <1>1 DEF Recorded
  <1>4. SUFFICES ASSUME NEW f \in Functions PROVE InputsOnce(f)'
    BY DEF OneEntryPerInput, InputsOnce
  <1>5. InputsOnce(f)
    BY DEF OneEntryPerInput, InputsOnce
  <1>6. CASE f # c.fn
    BY <1>1, <1>2, <1>3, <1>5, <1>6 DEF InputsOnce
  <1>7. CASE f = c.fn
    <2>1. \A k \in Recorded(f) : file[f][k].hash # h
      BY <1>2, <1>5, <1>7 DEF InputsOnce
    <2>2. QED
      BY <1>1, <1>2, <1>3, <1>5, <1>7, <2>1 DEF InputsOnce
  <1>8. QED
    BY <1>6, <1>7

LEMMA RecordKept ==
  ASSUME TypeOK, LogInv, KeptInv, OneEntryPerInput, NEW t \in Threads, Record(t)
  PROVE  KeptInv' /\ RecordedStays /\ OneEntryPerInput'
  <1> DeepTypeOK /\ kept \in [Functions -> SUBSET Nat]
    BY TypeSplit DEF TypeOK
  <1> DEFINE c == call[t]
  <1>1. c \in Calls /\ c.fn \in Functions
    BY RecordCall
  <1>2. PICK coin :
          \/ /\ WriteCall(c, coin) \/ SkipCall(c, coin) \/ DedupCall(c, coin)
             /\ lost' = lost /\ kept' = kept
          \/ /\ BufferCall(c, coin)
             /\ lost' = lost
             /\ kept' = [kept EXCEPT ![c.fn] = @ \cup {seq_counter[c.fn]}]
          \/ /\ WriteFails(c, coin)
             /\ lost' = [lost EXCEPT ![c.fn] = @ \cup {InputHash(c)}]
             /\ kept' = kept
    BY RecordHistory
  <1> HIDE DEF c
  <1>3. CASE WriteCall(c, coin) /\ lost' = lost /\ kept' = kept
    BY <1>1, <1>3, WriteCallKept, WriteCallOnce
  <1>4. CASE (SkipCall(c, coin) \/ DedupCall(c, coin)) /\ lost' = lost /\ kept' = kept
    <2>1. Counted(c) /\ UNCHANGED <<last_buffer, file, seen_hashes>>
      BY <1>4 DEF SkipCall, DedupCall
    <2>2. KeptInv'
      BY <1>1, <1>4, <2>1, CountedKept
    <2>3. QED
      BY <1>4, <2>1, <2>2 DEF RecordedStays, Recorded, OneEntryPerInput
  <1>5. CASE /\ BufferCall(c, coin) /\ lost' = lost
             /\ kept' = [kept EXCEPT ![c.fn] = @ \cup {seq_counter[c.fn]}]
    <2>1. KeptInv' /\ RecordedStays
      BY <1>1, <1>5, BufferCallKept
    <2>2. UNCHANGED <<file, seen_hashes>>
      BY <1>5 DEF BufferCall
    <2>3. ASSUME NEW f \in Functions PROVE InputsOnce(f)'
      <3>1. InputsOnce(f)
        BY DEF OneEntryPerInput, InputsOnce
      <3>2. QED
        BY <1>5, <2>1, <2>2, <3>1, InputsOnceFrame
    <2>4. QED
      BY <2>1, <2>3 DEF OneEntryPerInput, InputsOnce
  <1>6. CASE /\ WriteFails(c, coin) /\ kept' = kept
             /\ lost' = [lost EXCEPT ![c.fn] = @ \cup {InputHash(c)}]
    <2>1. Counted(c) /\ UNCHANGED <<last_buffer, file>>
      BY <1>6 DEF WriteFails
    <2>2. KeptInv'
      BY <1>1, <1>6, <2>1, CountedKept
    <2>3. RecordedStays
      BY <1>6, <2>1 DEF RecordedStays, Recorded
    <2>4. QED
      BY <1>1, <1>6, <2>2, <2>3, WriteFailsOnce
  <1>7. QED
    BY <1>2, <1>3, <1>4, <1>5, <1>6

(***************************************************************************)
(* A flush, failing or not, takes the last call; at most that one entry    *)
(* gets into the file.                                                     *)
(***************************************************************************)
LEMMA FlushWriteFile ==
  ASSUME TypeOK, LogInv, NEW t \in Threads, FlushWrite(t)
  PROVE  /\ target[t] \in Functions
         /\ FlushLast(target[t]) \/ DropLast(target[t]) \/ StallFlush(target[t])
         /\ last_buffer' = [last_buffer EXCEPT ![target[t]] = <<>>]
         /\ UNCHANGED <<config, seq_counter, seen_hashes, logs, rows, call,
                        deep_seq, lost, kept>>
         /\ pc[t] = "flush_write" /\ pc' = [pc EXCEPT ![t] = "flush_pick"]
         /\ \/ file' = file
            \/ /\ last_buffer[target[t]] # <<>>
               /\ Appended(target[t], last_buffer[target[t]][1])
  <1>1. target[t] \in Functions
    BY DEF TypeOK
  <1>2. FlushLast(target[t]) \/ DropLast(target[t]) \/ StallFlush(target[t])
    BY DEF FlushWrite
  <1>3. /\ last_buffer' = [last_buffer EXCEPT ![target[t]] = <<>>]
        /\ UNCHANGED <<seq_counter, seen_hashes, logs>>
    BY <1>2 DEF FlushLast, DropLast, StallFlush
  <1>4. \/ file' = file
        \/ /\ last_buffer[target[t]] # <<>>
           /\ Appended(target[t], last_buffer[target[t]][1])
    BY <1>1, <1>2, TypeSplit, TakenAppends DEF FlushLast, DropLast, StallFlush
  <1>5. /\ UNCHANGED <<config, rows, call, deep_seq, lost, kept>>
        /\ pc[t] = "flush_write" /\ pc' = [pc EXCEPT ![t] = "flush_pick"]
    BY DEF FlushWrite, Transition, tsvVars
  <1>6. QED
    BY <1>1, <1>2, <1>3, <1>4, <1>5

LEMMA FlushKept ==
  ASSUME TypeOK, LogInv, KeptInv, NEW t \in Threads, FlushWrite(t)
  PROVE  /\ KeptInv' /\ RecordedStays
         /\ \A f \in Functions : \A k \in DOMAIN file'[f] :
              \/ k \in DOMAIN file[f]
              \/ /\ k \notin Recorded(f)'
                 /\ last_buffer[f] # <<>>
                 /\ file'[f][k].seq = last_buffer[f][1].seq
  <1> DEFINE g == target[t]
  <1>1. /\ g \in Functions
        /\ last_buffer' = [last_buffer EXCEPT ![g] = <<>>]
        /\ seq_counter' = seq_counter /\ kept' = kept
        /\ \/ file' = file
           \/ last_buffer[g] # <<>> /\ Appended(g, last_buffer[g][1])
    BY FlushWriteFile
  <1>2. /\ last_buffer'[g] = <<>>
        /\ \A f \in Functions \ {g} : last_buffer'[f] = last_buffer[f]
    BY <1>1 DEF TypeOK, DeepTypeOK
  <1> HIDE DEF g
  <1>3. KeptInv'
    BY <1>1, <1>2 DEF KeptInv
  <1>4. FilesGrow
    BY <1>1, AppendedGrow DEF FilesGrow
  <1>5. RecordedStays
    BY <1>1, <1>4, SameRecorded
  <1>6. ASSUME NEW f \in Functions, NEW k \in DOMAIN file'[f], k \notin DOMAIN file[f]
        PROVE  /\ k \notin Recorded(f)'
               /\ last_buffer[f] # <<>>
               /\ file'[f][k].seq = last_buffer[f][1].seq
    <2>1. /\ f = g /\ last_buffer[g] # <<>>
          /\ file'[g][k] = last_buffer[g][1]
      BY <1>1, <1>6 DEF Appended
    <2>2. last_buffer[g][1].seq \in kept[g]
      BY <1>1, <2>1 DEF KeptInv
    <2>3. QED
      BY <1>1, <2>1, <2>2 DEF Recorded
  <1>7. QED
    BY <1>3, <1>5, <1>6

LEMMA NextKept ==
  ASSUME TypeOK, LogInv, PointersInv, KeptInv, OneEntryPerInput, [Next]_vars
  PROVE  KeptInv' /\ OneEntryPerInput'
  <1>1. CASE \E t \in Threads : Record(t)
    BY <1>1, RecordKept
  <1>2. CASE \E t \in Threads : FlushWrite(t)
    <2>1. PICK t \in Threads : FlushWrite(t)
      BY <1>2
    <2>2. seen_hashes' = seen_hashes /\ lost' = lost
      BY <2>1, FlushWriteFile
    <2>3. /\ KeptInv' /\ RecordedStays
          /\ \A f \in Functions : \A k \in DOMAIN file'[f] :
               k \in DOMAIN file[f] \/ k \notin Recorded(f)'
      BY <2>1, FlushKept
    <2>4. ASSUME NEW f \in Functions PROVE InputsOnce(f)'
      <3>1. InputsOnce(f)
        BY DEF OneEntryPerInput, InputsOnce
      <3>2. QED
        BY <2>2, <2>3, <3>1, InputsOnceFrame
    <2>5. QED
      BY <2>3, <2>4 DEF OneEntryPerInput, InputsOnce
  <1>3. CASE UNCHANGED <<seq_counter, seen_hashes, last_buffer, file, lost, kept>>
    BY <1>3 DEF KeptInv, OneEntryPerInput, Recorded
  <1>4. \A t \in Threads : WriteRow(t) =>
          UNCHANGED <<seq_counter, seen_hashes, last_buffer, file, lost, kept>>
    BY DEF WriteRow, deepVars, countVars, lossVars
  <1>5. QED
    BY <1>1, <1>2, <1>3, <1>4, StepKinds

-----------------------------------------------------------------------------
(***************************************************************************)
(* EntriesHaveRows: WriteCall makes an entry whose number the thread holds *)
(* until WriteRow makes the row; a flush makes one that nothing points at. *)
(***************************************************************************)
PointedAt(f, n) ==
  \/ \E i \in DOMAIN rows : rows[i].call.fn = f /\ rows[i].deep_seq = n
  \/ \E t \in Threads : Holds(t) /\ call[t].fn = f /\ deep_seq[t] = n

\* The same in the next state.
StillPointedAt(f, n) ==
  \/ \E i \in DOMAIN rows' : rows'[i].call.fn = f /\ rows'[i].deep_seq = n
  \/ \E t \in Threads : Holds(t)' /\ call'[t].fn = f /\ deep_seq'[t] = n

LEMMA NumbersPresent ==
  ASSUME DeepTypeOK, NEW f \in Functions, NEW k \in DOMAIN file[f]
  PROVE  file[f][k].seq # None
  BY EntryFields DEF None

\* Only numbers of entries that are in the file are pointed at.
LEMMA PointedPresent ==
  ASSUME PointersInv, NEW f, NEW n, n # None, PointedAt(f, n)
  PROVE  \E k \in DOMAIN file[f] : file[f][k].seq = n
  BY DEF PointersInv, PointedAt, ResolvesIn

\* EntriesHaveRows, now and then.
LEMMA PointedNow ==
  ASSUME DeepTypeOK
  PROVE  EntriesHaveRows <=>
           (config.tsv => \A f \in Functions : \A k \in DOMAIN file[f] :
              k \in Recorded(f) <=> PointedAt(f, file[f][k].seq))
  <1>1. ASSUME NEW f \in Functions, NEW k \in DOMAIN file[f]
        PROVE  (\/ Pointing(f, file[f][k].seq) # {}
                \/ \E t \in Threads : /\ pc[t] = "row" /\ call[t].fn = f
                                      /\ deep_seq[t] = file[f][k].seq)
               <=> PointedAt(f, file[f][k].seq)
    BY NumbersPresent DEF PointedAt, Pointing, Holds
  <1> DEFINE Reached(f, k) ==
               \/ Pointing(f, file[f][k].seq) # {}
               \/ \E t \in Threads : /\ pc[t] = "row" /\ call[t].fn = f
                                     /\ deep_seq[t] = file[f][k].seq
  <1>2. EntriesHaveRows <=>
          (config.tsv => \A f \in Functions : \A k \in DOMAIN file[f] :
             k \in Recorded(f) <=> Reached(f, k))
    BY DEF EntriesHaveRows
  <1>3. \A f \in Functions : \A k \in DOMAIN file[f] :
          Reached(f, k) <=> PointedAt(f, file[f][k].seq)
    BY <1>1
  <1> HIDE DEF Reached
  <1>4. QED
    BY <1>2, <1>3

LEMMA PointedThen ==
  ASSUME DeepTypeOK',
         config'.tsv => \A f \in Functions : \A k \in DOMAIN file'[f] :
           k \in Recorded(f)' <=> StillPointedAt(f, file'[f][k].seq)
  PROVE  EntriesHaveRows'
  <1>1. \A f \in Functions : \A k \in DOMAIN file'[f] : file'[f][k].seq # None
    <2>1. SUFFICES ASSUME NEW f \in Functions, NEW k \in DOMAIN file'[f]
          PROVE  file'[f][k].seq # None
      OBVIOUS
    <2>2. file'[f] \in Seq(Entry)
      BY DEF DeepTypeOK
    <2>3. file'[f][k] \in Entry
      BY <2>2
    <2>4. QED
      BY <2>3 DEF Entry, None
  <1>2. ASSUME NEW f \in Functions, NEW k \in DOMAIN file'[f]
        PROVE  (\/ Pointing(f, file[f][k].seq)' # {}
                \/ \E t \in Threads : /\ pc'[t] = "row" /\ call'[t].fn = f
                                      /\ deep_seq'[t] = file'[f][k].seq)
               <=> StillPointedAt(f, file'[f][k].seq)
    BY <1>1 DEF StillPointedAt, Pointing, Holds
  <1>3. QED
    BY <1>2 DEF EntriesHaveRows

\* Record adds its own number, of an entry just written, or nothing.
LEMMA RecordPointed ==
  ASSUME TypeOK, NEW t \in Threads, Record(t), NEW m, m # None, NEW f
  PROVE  \/ /\ file' = file
            /\ StillPointedAt(f, m) <=> PointedAt(f, m)
         \/ /\ \E coin : WriteCall(call[t], coin)
            /\ StillPointedAt(f, m) <=>
                 \/ PointedAt(f, m)
                 \/ f = call[t].fn /\ m = seq_counter[call[t].fn]
  <1> DEFINE c == call[t]
             n == seq_counter[c.fn]
  <1>1. /\ c.fn \in Functions
        /\ rows' = rows /\ call' = call
        /\ pc[t] = "record" /\ pc' = [pc EXCEPT ![t] = "row"]
    BY RecordCall
  <1>2. PICK coin :
          \/ WriteCall(c, coin) /\ deep_seq' = [deep_seq EXCEPT ![t] = n]
          \/ /\ \/ SkipCall(c, coin) \/ DedupCall(c, coin)
                \/ BufferCall(c, coin) \/ WriteFails(c, coin)
             /\ deep_seq' = [deep_seq EXCEPT ![t] = None]
    BY RecordCall
  <1>3. /\ \A u \in Threads \ {t} :
             deep_seq'[u] = deep_seq[u] /\ (Holds(u)' <=> Holds(u))
        /\ ~Holds(t) /\ (Holds(t)' <=> deep_seq'[t] # None)
    BY <1>1, <1>2 DEF TypeOK, Holds
  <1>4. n \in Nat /\ n # None
    BY <1>1 DEF TypeOK, DeepTypeOK, None
  <1>5. CASE WriteCall(c, coin) /\ deep_seq' = [deep_seq EXCEPT ![t] = n]
    <2>1. deep_seq'[t] = n /\ Holds(t)'
      BY <1>3, <1>4, <1>5 DEF TypeOK
    <2> HIDE DEF n
    <2>2. StillPointedAt(f, m) <=> PointedAt(f, m) \/ (f = c.fn /\ m = n)
      BY <1>1, <1>3, <2>1 DEF StillPointedAt, PointedAt
    <2>3. QED
      BY <1>5, <2>2 DEF n
  <1>6. CASE /\ \/ SkipCall(c, coin) \/ DedupCall(c, coin)
                \/ BufferCall(c, coin) \/ WriteFails(c, coin)
             /\ deep_seq' = [deep_seq EXCEPT ![t] = None]
    <2>1. file' = file
      BY <1>6 DEF SkipCall, DedupCall, BufferCall, WriteFails
    <2>2. ~Holds(t)'
      BY <1>3, <1>6 DEF TypeOK
    <2>3. StillPointedAt(f, m) <=> PointedAt(f, m)
      BY <1>1, <1>3, <2>2 DEF StillPointedAt, PointedAt
    <2>4. QED
      BY <2>1, <2>3
  <1>7. QED
    BY <1>2, <1>5, <1>6

\* WriteRow: what the thread pointed at, the row now does.
LEMMA WriteRowPointed ==
  ASSUME TypeOK, NEW t \in Threads, WriteRow(t), config.tsv, NEW m, m # None, NEW f
  PROVE  StillPointedAt(f, m) <=> PointedAt(f, m)
  <1>1. /\ call' = call /\ deep_seq' = deep_seq
        /\ pc[t] = "row" /\ pc'[t] = "idle"
        /\ \A u \in Threads \ {t} : pc'[u] = pc[u]
    BY DEF WriteRow, Transition, TypeOK
  <1>2. /\ DOMAIN rows' = DOMAIN rows \cup {Len(rows) + 1}
        /\ \A i \in DOMAIN rows : rows'[i] = rows[i]
        /\ rows'[Len(rows) + 1] = RowOf(t)
    BY WriteRowRows
  <1>3. RowOf(t).call = call[t] /\ RowOf(t).deep_seq = deep_seq[t]
    BY DEF RowOf
  <1>4. /\ ~Holds(t)' /\ (Holds(t) <=> deep_seq[t] # None)
        /\ \A u \in Threads \ {t} : Holds(u)' <=> Holds(u)
    BY <1>1 DEF Holds
  <1>5. (\E i \in DOMAIN rows' : rows'[i].call.fn = f /\ rows'[i].deep_seq = m)
        <=> \/ \E i \in DOMAIN rows : rows[i].call.fn = f /\ rows[i].deep_seq = m
            \/ call[t].fn = f /\ deep_seq[t] = m
    BY <1>2, <1>3
  <1>6. (\E u \in Threads : Holds(u) /\ call[u].fn = f /\ deep_seq[u] = m)
        <=> \/ \E u \in Threads : Holds(u)' /\ call'[u].fn = f /\ deep_seq'[u] = m
            \/ call[t].fn = f /\ deep_seq[t] = m
    BY <1>1, <1>4
  <1>7. QED
    BY <1>5, <1>6 DEF StillPointedAt, PointedAt

LEMMA NextEntriesHaveRows ==
  ASSUME TypeOK, TypeOK', LogInv, PointersInv, KeptInv, OneEntryPerInput,
         EntriesHaveRows, [Next]_vars
  PROVE  EntriesHaveRows'
  <1> DeepTypeOK /\ DeepTypeOK'
    BY TypeSplit DEF TypeOK
  <1>1. config' = config
    BY StepKinds, RecordCall, FlushWriteFile DEF WriteRow
  <1>2. SUFFICES ASSUME config.tsv, NEW f \in Functions, NEW k \in DOMAIN file'[f]
        PROVE  k \in Recorded(f)' <=> StillPointedAt(f, file'[f][k].seq)
    BY <1>1, PointedThen
  <1>3. ASSUME k \in DOMAIN file[f]
        PROVE  /\ k \in Recorded(f) <=> PointedAt(f, file[f][k].seq)
               /\ file[f][k].seq # None /\ file[f][k].seq < seq_counter[f]
    BY <1>2, <1>3, PointedNow, NumbersPresent DEF LogInv
  \* An entry that was there, while nothing changes for its number.
  <1>4. ASSUME k \in DOMAIN file[f], RecordedStays,
               StillPointedAt(f, file[f][k].seq) <=> PointedAt(f, file[f][k].seq)
        PROVE  k \in Recorded(f)' <=> StillPointedAt(f, file'[f][k].seq)
    BY <1>3, <1>4 DEF RecordedStays
  <1>5. ASSUME NEW t \in Threads, Record(t)
        PROVE  k \in Recorded(f)' <=> StillPointedAt(f, file'[f][k].seq)
    <2>1. call[t] \in Calls /\ call[t].fn \in Functions
      BY <1>5, RecordCall
    <2>2. RecordedStays
      BY <1>5, RecordKept
    <2>3. CASE k \in DOMAIN file[f]
      <3>1. ~(f = call[t].fn /\ file[f][k].seq = seq_counter[call[t].fn])
        <4>1. file[f][k].seq < seq_counter[f] /\ seq_counter[f] \in Nat
          BY <1>3, <2>3 DEF DeepTypeOK
        <4>2. QED
          BY <4>1
      <3>2. StillPointedAt(f, file[f][k].seq) <=> PointedAt(f, file[f][k].seq)
        BY <1>3, <1>5, <2>3, <3>1, RecordPointed
      <3>3. QED
        BY <1>4, <2>2, <2>3, <3>2
    <2>4. CASE k \notin DOMAIN file[f]
      <3> DEFINE n == seq_counter[call[t].fn]
      <3>1. n \in Nat /\ n # None
        BY <2>1 DEF DeepTypeOK, None
      <3>2. file' # file
        BY <2>4
      <3>3. /\ \E coin : WriteCall(call[t], coin)
            /\ StillPointedAt(call[t].fn, n)
        BY <1>5, <3>1, <3>2, RecordPointed
      <3>4. PICK coin : WriteCall(call[t], coin)
        BY <3>3
      <3>5. kept' = kept
        BY <1>5, <3>2, RecordHistory DEF BufferCall
      <3>6. ASSUME NEW g, g = call[t].fn
            PROVE  Len(file[g]) + 1 \in Recorded(g)'
        <4>1. ASSUME NEW c \in Calls, c = call[t]
              PROVE  Len(file[c.fn]) + 1 \in Recorded(c.fn)'
          <5>1. WriteCall(c, coin)
            BY <3>4, <4>1
          <5>2. QED
            BY <3>5, <5>1, WriteCallKept
        <4>2. QED
          BY <2>1, <3>6, <4>1
      <3>7. Appended(call[t].fn, EntryOf(call[t], n))
        BY <2>1, <3>4, WriteCallAppends
      <3>8. EntryOf(call[t], n).seq = n
        BY DEF EntryOf
      <3> HIDE DEF n
      <3>9. f = call[t].fn /\ k = Len(file[f]) + 1 /\ file'[f][k].seq = n
        BY <2>4, <3>7, <3>8 DEF Appended
      <3>10. k \in Recorded(f)'
        BY <3>6, <3>9
      <3>11. StillPointedAt(f, file'[f][k].seq)
        BY <3>3, <3>9
      <3>12. QED
        BY <3>10, <3>11
    <2>5. QED
      BY <2>3, <2>4
  <1>6. ASSUME NEW t \in Threads, FlushWrite(t)
        PROVE  k \in Recorded(f)' <=> StillPointedAt(f, file'[f][k].seq)
    <2>1. /\ UNCHANGED <<rows, call, deep_seq>>
          /\ pc[t] = "flush_write" /\ pc' = [pc EXCEPT ![t] = "flush_pick"]
      BY <1>6, FlushWriteFile
    <2>2. \A u \in Threads : Holds(u)' <=> Holds(u)
      BY <2>1 DEF TypeOK, Holds
    <2>3. \A m : StillPointedAt(f, m) <=> PointedAt(f, m)
      BY <2>1, <2>2 DEF StillPointedAt, PointedAt
    <2>4. CASE k \in DOMAIN file[f]
      BY <1>4, <1>6, <2>3, <2>4, FlushKept
    <2>5. CASE k \notin DOMAIN file[f]
      <3>1. /\ k \notin Recorded(f)'
            /\ last_buffer[f] # <<>>
            /\ file'[f][k].seq = last_buffer[f][1].seq
        BY <1>6, <2>5, FlushKept
      <3>2. \A j \in DOMAIN file[f] : file[f][j].seq # last_buffer[f][1].seq
        BY <3>1 DEF LogInv
      <3>3. last_buffer[f][1].seq # None
        BY <3>1, BufferedFields DEF None
      <3>4. ~PointedAt(f, last_buffer[f][1].seq)
        BY <3>2, <3>3, PointedPresent
      <3>5. QED
        BY <2>3, <3>1, <3>4
    <2>6. QED
      BY <2>4, <2>5
  <1>7. ASSUME NEW t \in Threads, WriteRow(t)
        PROVE  k \in Recorded(f)' <=> StillPointedAt(f, file'[f][k].seq)
    <2>1. file' = file /\ kept' = kept
      BY <1>7 DEF WriteRow, deepVars, countVars, lossVars
    <2>2. RecordedStays /\ k \in DOMAIN file[f]
      BY <2>1 DEF RecordedStays, Recorded
    <2>3. file[f][k].seq # None
      BY <1>3, <2>2
    <2>4. StillPointedAt(f, file[f][k].seq) <=> PointedAt(f, file[f][k].seq)
      BY <1>2, <1>7, <2>3, WriteRowPointed
    <2>5. QED
      BY <1>4, <2>2, <2>4
  <1>8. ASSUME UNCHANGED <<file, rows, kept>>, HoldsSame
        PROVE  k \in Recorded(f)' <=> StillPointedAt(f, file'[f][k].seq)
    <2>1. RecordedStays /\ k \in DOMAIN file[f]
      BY <1>8 DEF RecordedStays, Recorded
    <2>2. StillPointedAt(f, file[f][k].seq) <=> PointedAt(f, file[f][k].seq)
      BY <1>8 DEF HoldsSame, StillPointedAt, PointedAt
    <2>3. QED
      BY <1>4, <2>1, <2>2
  <1>9. QED
    BY <1>5, <1>6, <1>7, <1>8, StepKinds

-----------------------------------------------------------------------------
(***************************************************************************)
(* DiskInv.  What has left the BufWriter of a log does not come back.      *)
(***************************************************************************)
DiskGrows ==
  \A f \in Functions : \A k \in DOMAIN file[f] :
    Pieces(k) <= durable[f] => Pieces(k) <= durable'[f]

LEMMA FileLength ==
  ASSUME DeepTypeOK, NEW f \in Functions
  PROVE  /\ file[f] \in Seq(Entry) /\ Len(file[f]) \in Nat
         /\ DOMAIN file[f] = 1 .. Len(file[f])
         /\ durable[f] \in Nat
  BY DEF DeepTypeOK

LEMMA WriteCallDisk ==
  ASSUME DeepTypeOK, NEW c \in Calls, NEW coin, WriteCall(c, coin)
  PROVE  DiskGrows
  <1>1. c.fn \in Functions
    BY DEF Calls
  <1>2. PICK d \in Spills(c.fn) : durable' = [durable EXCEPT ![c.fn] = d]
    BY DEF WriteCall
  <1>3. ASSUME NEW f \in Functions, NEW k \in DOMAIN file[f],
               Pieces(k) <= durable[f]
        PROVE  Pieces(k) <= durable'[f]
    <2>1. /\ Len(file[f]) \in Nat /\ k \in 1 .. Len(file[f]) /\ durable[f] \in Nat
      BY FileLength
    <2>2. CASE f = c.fn
      <3>1. durable'[f] = d
        BY <1>1, <1>2, <2>2 DEF DeepTypeOK
      <3>2. \/ d = durable[f] \/ d = Pieces(Len(file[f]))
            \/ d = Pieces(Len(file[f])) + 1 \/ d = Pieces(Len(file[f])) + 2
        BY <2>2 DEF Spills
      <3>3. QED
        BY <1>3, <2>1, <3>1, <3>2 DEF Pieces
    <2>3. CASE f # c.fn
      BY <1>2, <1>3, <2>3 DEF DeepTypeOK
    <2>4. QED
      BY <2>2, <2>3
  <1>4. QED
    BY <1>3 DEF DiskGrows

LEMMA FlushLastDisk ==
  ASSUME DeepTypeOK, NEW f \in Functions, FlushLast(f), DeepTypeOK'
  PROVE  /\ DiskGrows
         /\ \A k \in DOMAIN file'[f] : Pieces(k) <= durable'[f]
  <1>1. /\ file'[f] = file[f] \o last_buffer[f]
        /\ durable'[f] = Pieces(Len(file'[f]))
        /\ \A g \in Functions \ {f} : durable'[g] = durable[g]
    BY DEF DeepTypeOK, FlushLast
  <1>2. /\ file'[f] \in Seq(Entry) /\ Len(file'[f]) \in Nat
        /\ DOMAIN file'[f] = 1 .. Len(file'[f])
    BY DEF DeepTypeOK
  <1>3. \A k \in DOMAIN file'[f] : Pieces(k) <= durable'[f]
    <2>1. SUFFICES ASSUME NEW n \in Nat, NEW k \in 1 .. n
                   PROVE  Pieces(k) <= Pieces(n)
      BY <1>1, <1>2
    <2>2. QED
      BY DEF Pieces
  <1>4. DOMAIN file[f] \subseteq DOMAIN file'[f]
    <2>1. last_buffer[f] \in Seq(Entry) /\ Len(last_buffer[f]) \in Nat
      BY DEF DeepTypeOK
    <2>2. Len(file'[f]) = Len(file[f]) + Len(last_buffer[f])
      BY <1>1, <2>1, FileLength
    <2>3. Len(file[f]) \in Nat /\ DOMAIN file[f] = 1 .. Len(file[f])
      BY FileLength
    <2> DEFINE a == Len(file[f])  b == Len(last_buffer[f])  n == Len(file'[f])
    <2>4. a \in Nat /\ b \in Nat /\ n = a + b /\ DOMAIN file'[f] = 1 .. n
      BY <1>2, <2>1, <2>2, <2>3
    <2>5. DOMAIN file[f] = 1 .. a
      BY <2>3
    <2> HIDE DEF a, b, n
    <2>6. QED
      BY <2>4, <2>5
  <1>5. QED
    BY <1>1, <1>3, <1>4 DEF DiskGrows

\* A write or a flush that fails may still have got something out.
LEMMA StalledDisk ==
  ASSUME DeepTypeOK, NEW f \in Functions, NEW n \in Int,
         NEW d \in durable[f] .. n, durable' = [durable EXCEPT ![f] = d]
  PROVE  DiskGrows
  <1>1. ASSUME NEW g \in Functions, NEW k \in DOMAIN file[g],
               Pieces(k) <= durable[g]
        PROVE  Pieces(k) <= durable'[g]
    <2>1. k \in Nat /\ durable[g] \in Nat
      BY FileLength
    <2>2. CASE g = f
      <3>1. durable'[g] = d /\ d \in Int /\ durable[g] <= d
        BY <2>1, <2>2 DEF DeepTypeOK
      <3>2. Pieces(k) \in Int
        BY <2>1 DEF Pieces
      <3>3. QED
        BY <1>1, <2>1, <3>1, <3>2
    <2>3. CASE g # f
      BY <1>1, <2>3 DEF DeepTypeOK
    <2>4. QED
      BY <2>2, <2>3
  <1>2. QED
    BY <1>1 DEF DiskGrows

LEMMA PiecesType ==
  ASSUME NEW n \in Nat
  PROVE  Pieces(n) \in Int /\ Pieces(n) - 1 \in Int
  BY DEF Pieces

LEMMA WriteFailsDisk ==
  ASSUME DeepTypeOK, NEW c \in Calls, NEW coin, WriteFails(c, coin)
  PROVE  DiskGrows
  <1>1. c.fn \in Functions
    BY DEF Calls
  <1>2. Pieces(Len(file[c.fn])) \in Int
    BY <1>1, FileLength, PiecesType
  <1>3. QED
    BY <1>1, <1>2, StalledDisk DEF WriteFails

LEMMA FlushFailsDisk ==
  ASSUME DeepTypeOK, DeepTypeOK', NEW f \in Functions, DropLast(f) \/ StallFlush(f)
  PROVE  DiskGrows
  <1>1. Pieces(Len(file[f])) \in Int
    BY FileLength, PiecesType
  <1>2. Len(file'[f]) \in Nat
    BY DEF DeepTypeOK
  <1>3. Pieces(Len(file'[f])) - 1 \in Int
    BY <1>2, PiecesType
  <1>4. CASE DropLast(f)
    BY <1>1, <1>4, StalledDisk DEF DropLast
  <1>5. CASE StallFlush(f)
    BY <1>3, <1>5, StalledDisk DEF StallFlush
  <1>6. QED
    BY <1>4, <1>5

\* A row whose entries are on disk stays so: none gets its number later.
LEMMA RowOnDiskStays ==
  ASSUME TypeOK, PointersInv, LogInv', FilesGrow, DiskGrows,
         NEW i \in DOMAIN rows, rows'[i] = rows[i],
         rows[i].deep_seq # None, RowOnDisk(i)
  PROVE  RowOnDisk(i)'
  <1> DEFINE f == rows[i].call.fn
             n == rows[i].deep_seq
  <1>1. f \in Functions
    BY RowFields
  <1>2. PICK k \in DOMAIN file[f] : file[f][k].seq = n
    BY DEF PointersInv, ResolvesIn
  <1>3. Pieces(k) <= durable[f]
    BY <1>2 DEF RowOnDisk, EntriesAt, OnDisk
  <1>4. k \in DOMAIN file'[f] /\ file'[f][k].seq = n /\ Pieces(k) <= durable'[f]
    BY <1>1, <1>2, <1>3 DEF FilesGrow, DiskGrows
  <1>5. \A j \in DOMAIN file'[f] : file'[f][j].seq = n => j = k
    BY <1>1, <1>4 DEF LogInv
  <1>6. QED
    BY <1>4, <1>5 DEF RowOnDisk, EntriesAt, OnDisk

(***************************************************************************)
(* Logs with anything in them are in the registry.                         *)
(***************************************************************************)
RegistryInv ==
  /\ \A f \in Functions :
       file[f] # <<>> \/ last_buffer[f] # <<>> => f \in logs
  /\ \A t \in Threads : pc[t] \in {"log", "record"} => call[t].fn \in logs

LEMMA NextRegistry ==
  ASSUME TypeOK, LogInv, RegistryInv, [Next]_vars
  PROVE  RegistryInv' /\ logs \subseteq logs'
  <1> USE DEF Transition
  <1>1. ASSUME NEW t \in Threads, Record(t)
        PROVE  RegistryInv' /\ logs' = logs
    <2> DEFINE c == call[t]
    <2>1. /\ c.fn \in Functions /\ call' = call
          /\ pc[t] = "record" /\ pc' = [pc EXCEPT ![t] = "row"]
      BY <1>1, RecordCall
    <2>2. PICK coin : \/ WriteCall(c, coin)
                      \/ SkipCall(c, coin)
                      \/ DedupCall(c, coin)
                      \/ BufferCall(c, coin)
                      \/ WriteFails(c, coin)
      BY <1>1, RecordCall
    <2>3. c.fn \in logs
      BY <2>1 DEF RegistryInv
    <2>4. /\ logs' = logs
          /\ \A f \in Functions \ {c.fn} :
               file'[f] = file[f] /\ last_buffer'[f] = last_buffer[f]
      BY <2>2 DEF WriteCall, SkipCall, DedupCall, BufferCall, WriteFails,
         TypeOK, DeepTypeOK
    <2>5. \A f \in Functions : file'[f] # <<>> \/ last_buffer'[f] # <<>> => f \in logs
      BY <2>3, <2>4 DEF RegistryInv
    <2>6. QED
      BY <2>1, <2>4, <2>5 DEF TypeOK, RegistryInv
  <1>2. ASSUME NEW t \in Threads, FlushWrite(t)
        PROVE  RegistryInv' /\ logs' = logs
    <2>1. /\ target[t] \in Functions /\ call' = call /\ logs' = logs
          /\ pc' = [pc EXCEPT ![t] = "flush_pick"]
          /\ last_buffer' = [last_buffer EXCEPT ![target[t]] = <<>>]
          /\ \/ file' = file
             \/ /\ last_buffer[target[t]] # <<>>
                /\ Appended(target[t], last_buffer[target[t]][1])
      BY <1>2, FlushWriteFile
    <2>2. /\ \A f \in Functions \ {target[t]} : file'[f] = file[f]
          /\ \A f \in Functions : last_buffer'[f] \in {<<>>, last_buffer[f]}
      BY <2>1 DEF Appended, TypeOK, DeepTypeOK
    <2>3. \A f \in Functions : file'[f] # <<>> \/ last_buffer'[f] # <<>> => f \in logs
      BY <2>1, <2>2 DEF RegistryInv
    <2>4. QED
      BY <2>1, <2>2, <2>3 DEF TypeOK, RegistryInv
  <1>3. ASSUME NEW t \in Threads, OpenLog(t)
        PROVE  RegistryInv' /\ logs \subseteq logs'
    BY <1>3 DEF OpenLog, CreateLog, deepVars, TypeOK, RegistryInv
  <1>4. ASSUME NEW t \in Threads,
               \/ WriteRow(t) \/ LockRegistry(t) \/ LockLog(t)
               \/ FlushLockRegistry(t) \/ FlushPick(t) \/ FlushLockLog(t)
               \/ FlushDone(t)
        PROVE  RegistryInv' /\ logs' = logs
    BY <1>4 DEF WriteRow, LockRegistry, LockLog, FlushLockRegistry, FlushPick,
       FlushLockLog, FlushDone, deepVars, TypeOK, RegistryInv
  <1>5. ASSUME NEW t \in Threads, Choice(t)
        PROVE  RegistryInv' /\ logs' = logs
    BY <1>5 DEF Choice, New, FinishInactive, TakeSeq, StartFlush, Exit,
       deepVars, threadVars, TypeOK, RegistryInv
  <1>6. CASE UNCHANGED vars
    BY <1>6 DEF vars, deepVars, threadVars, RegistryInv
  <1>7. QED
    BY <1>1, <1>2, <1>3, <1>4, <1>5, <1>6 DEF Next, Step, Exited

(***************************************************************************)
(* What each flush_all owes, and what the finished ones have done.         *)
(***************************************************************************)
FlushInv ==
  /\ \A t \in Threads : pc[t] \in Flushing =>
       /\ at_flush[t] <= Len(rows)
       /\ \A i \in 1 .. at_flush[t] : rows[i].deep_seq # None =>
            RowOnDisk(i) \/ Unflushed(t, rows[i].call.fn)
  /\ \A f \in Functions : flushed[f] <= Len(rows)
  /\ FlushedRowsOnDisk

LEMMA DiskSplit == DiskInv <=> RegistryInv /\ FlushInv
  BY DEF DiskInv, RegistryInv, FlushInv

\* The conclusion of FlushInv', once rows on disk stay there.
LEMMA FlushFrame ==
  ASSUME TypeOK, FlushInv, TypeOK', Len(rows) <= Len(rows'),
         \A i \in DOMAIN rows : rows'[i] = rows[i],
         \A i \in DOMAIN rows : rows[i].deep_seq # None /\ RowOnDisk(i)
                                  => RowOnDisk(i)',
         flushed' = flushed,
         \A t \in Threads : pc'[t] \in Flushing =>
           /\ pc[t] \in Flushing
           /\ at_flush'[t] = at_flush[t]
           /\ \A i \in DOMAIN rows, f \in Functions :
                /\ rows[i].deep_seq # None /\ rows[i].call.fn = f
                /\ Unflushed(t, f)
                => RowOnDisk(i)' \/ Unflushed(t, f)'
  PROVE  FlushInv'
  <1>1. /\ Len(rows) \in Nat /\ Len(rows') \in Nat
        /\ DOMAIN rows = 1 .. Len(rows)
        /\ flushed \in [Functions -> Nat] /\ at_flush \in [Threads -> Nat]
    <2>1. rows \in Seq(Row) /\ rows' \in Seq(Row)
      BY Zenon DEF TypeOK
    <2>2. flushed \in [Functions -> Nat] /\ at_flush \in [Threads -> Nat]
      BY Zenon DEF TypeOK
    <2>3. QED
      BY <2>1, <2>2
  <1>2. ASSUME NEW t \in Threads, pc'[t] \in Flushing
        PROVE  /\ at_flush'[t] <= Len(rows')
               /\ \A i \in 1 .. at_flush'[t] : rows'[i].deep_seq # None =>
                    RowOnDisk(i)' \/ Unflushed(t, rows[i].call.fn)'
    <2>1. /\ pc[t] \in Flushing /\ at_flush'[t] = at_flush[t]
          /\ at_flush[t] <= Len(rows) /\ at_flush[t] \in Nat
      BY <1>1, <1>2 DEF FlushInv
    <2>2. ASSUME NEW i \in 1 .. at_flush[t], rows'[i].deep_seq # None
          PROVE  RowOnDisk(i)' \/ Unflushed(t, rows[i].call.fn)'
      <3>1. i \in DOMAIN rows /\ rows'[i] = rows[i]
        BY <1>1, <2>1
      <3>2. RowOnDisk(i) \/ Unflushed(t, rows[i].call.fn)
        BY <2>1, <2>2, <3>1 DEF FlushInv
      <3>3. rows[i].call.fn \in Functions
        BY <3>1, RowFields
      <3>4. QED
        BY <1>2, <2>2, <3>1, <3>2, <3>3 DEF Unflushed
    <2>3. QED
      BY <1>1, <2>1, <2>2
  <1>3. ASSUME NEW f \in Functions
        PROVE  flushed'[f] <= Len(rows')
    <2>1. flushed[f] \in Nat /\ flushed[f] <= Len(rows)
      BY <1>1 DEF FlushInv
    <2>2. QED
      BY <1>1, <2>1
  <1>4. ASSUME NEW f \in Functions, NEW i \in 1 .. flushed[f],
               rows'[i].call.fn = f, rows'[i].deep_seq # None
        PROVE  RowOnDisk(i)'
    <2>1. flushed[f] \in Nat /\ flushed[f] <= Len(rows)
      BY <1>1 DEF FlushInv
    <2>2. i \in DOMAIN rows /\ rows'[i] = rows[i]
      BY <1>1, <2>1
    <2>3. RowOnDisk(i)
      BY <1>4, <2>2 DEF FlushInv, FlushedRowsOnDisk, RowOnDisk
    <2>4. QED
      BY <1>4, <2>2, <2>3
  <1>5. FlushedRowsOnDisk'
    BY <1>4 DEF FlushedRowsOnDisk, RowOnDisk
  <1>6. QED
    BY <1>2, <1>3, <1>5 DEF FlushInv

LEMMA NextFlush ==
  ASSUME TypeOK, LogInv, PointersInv, RegistryInv, FlushInv, [Next]_vars,
         TypeOK', LogInv'
  PROVE  FlushInv'
  <1> DeepTypeOK /\ DeepTypeOK'
    BY TypeSplit DEF TypeOK
  <1> USE DEF Transition
  <1>1. ASSUME FilesGrow, DiskGrows, NEW i \in DOMAIN rows, rows'[i] = rows[i],
               rows[i].deep_seq # None, RowOnDisk(i)
        PROVE  RowOnDisk(i)'
    BY <1>1, RowOnDiskStays
  <1>2. ASSUME NEW t \in Threads, Record(t)
        PROVE  FlushInv'
    <2>1. /\ call[t] \in Calls /\ rows' = rows
          /\ pc[t] = "record" /\ pc' = [pc EXCEPT ![t] = "row"]
          /\ UNCHANGED <<at_flush, flushed, missed, pending, target>>
      BY <1>2, RecordCall DEF Record, RecordAnswering, flushVars
    <2>2. PICK coin : \/ WriteCall(call[t], coin)
                      \/ SkipCall(call[t], coin)
                      \/ DedupCall(call[t], coin)
                      \/ BufferCall(call[t], coin)
                      \/ WriteFails(call[t], coin)
      BY <1>2, RecordCall
    <2>3. FilesGrow /\ DiskGrows
      <3>1. CASE WriteCall(call[t], coin)
        <4>1. call[t].fn \in Functions
          BY <2>1 DEF Calls
        <4>2. QED
          BY <2>1, <3>1, <4>1, WriteCallAppends, AppendedGrow, WriteCallDisk
      <3>2. CASE UNCHANGED <<file, durable>>
        BY <3>2 DEF FilesGrow, DiskGrows
      <3>3. CASE WriteFails(call[t], coin)
        <4>1. file' = file
          BY <3>3 DEF WriteFails
        <4>2. QED
          BY <2>1, <3>3, <4>1, WriteFailsDisk DEF FilesGrow
      <3>4. QED
        BY <2>2, <3>1, <3>2, <3>3 DEF SkipCall, DedupCall, BufferCall
    <2>4. \A u \in Threads : pc'[u] \in Flushing =>
            u # t /\ pc'[u] = pc[u] /\ pc[u] \in Flushing
      BY <2>1 DEF TypeOK, Flushing
    <2>5. \A u \in Threads : pc'[u] \in Flushing =>
            /\ pc[u] \in Flushing /\ at_flush'[u] = at_flush[u]
            /\ \A f \in Functions : Unflushed(u, f) => Unflushed(u, f)'
      BY <2>1, <2>4 DEF Unflushed
    <2>6. Len(rows) <= Len(rows') /\ \A i \in DOMAIN rows : rows'[i] = rows[i]
      BY <2>1 DEF TypeOK
    <2>7. \A i \in DOMAIN rows : rows[i].deep_seq # None /\ RowOnDisk(i)
                                  => RowOnDisk(i)'
      BY <1>1, <2>3, <2>6
    <2>8. \A u \in Threads : pc'[u] \in Flushing =>
            /\ pc[u] \in Flushing /\ at_flush'[u] = at_flush[u]
            /\ \A i \in DOMAIN rows, f \in Functions :
                 /\ rows[i].deep_seq # None /\ rows[i].call.fn = f
                 /\ Unflushed(u, f)
                 => RowOnDisk(i)' \/ Unflushed(u, f)'
      BY <2>5
    <2>9. flushed' = flushed
      BY <2>1
    <2>10. QED
      BY <2>6, <2>7, <2>8, <2>9, FlushFrame
  <1>3. ASSUME NEW t \in Threads, FlushWrite(t)
        PROVE  FlushInv'
    <2> DEFINE f == target[t]
    <2>1. /\ f \in Functions /\ rows' = rows
          /\ FlushLast(f) \/ DropLast(f) \/ StallFlush(f)
          /\ pc[t] = "flush_write" /\ pc' = [pc EXCEPT ![t] = "flush_pick"]
          /\ UNCHANGED <<at_flush, flushed, pending, target>>
      BY <1>3, FlushWriteFile DEF FlushWrite
    <2>2. FilesGrow /\ DiskGrows
      BY <2>1, FlushLastLog, FlushFailsLog, FlushLastDisk, FlushFailsDisk
    <2>3. /\ \A u \in Threads \ {t} : missed'[u] = missed[u]
          /\ missed[t] \subseteq missed'[t]
          /\ FlushLast(f) \/ f \in missed'[t]
      BY <1>3 DEF FlushWrite, TypeOK
    <2>4. ASSUME NEW i \in DOMAIN rows, NEW g \in Functions,
                 rows[i].call.fn = g, Unflushed(t, g)
          PROVE  RowOnDisk(i)' \/ Unflushed(t, g)'
      <3>1. CASE g = f /\ FlushLast(f)
        <4>1. \A k \in DOMAIN file'[f] : Pieces(k) <= durable'[f]
          BY <2>1, <3>1, FlushLastDisk
        <4>2. QED
          BY <2>1, <2>4, <3>1, <4>1 DEF RowOnDisk, EntriesAt, OnDisk
      <3>2. CASE g \in pending[t] \cup missed'[t]
        BY <2>1, <3>2 DEF Unflushed
      <3>3. g = f \/ g \in pending[t] \cup missed[t]
        BY <2>1, <2>4 DEF Unflushed
      <3>4. QED
        BY <2>3, <3>1, <3>2, <3>3
    <2>5. \A u \in Threads \ {t} : pc'[u] = pc[u]
      BY <2>1 DEF TypeOK
    <2>6. pc[t] \in Flushing
      BY <2>1 DEF Flushing
    <2>7. ASSUME NEW u \in Threads, pc'[u] \in Flushing
          PROVE  /\ pc[u] \in Flushing /\ at_flush'[u] = at_flush[u]
                 /\ \A i \in DOMAIN rows, g \in Functions :
                      /\ rows[i].deep_seq # None /\ rows[i].call.fn = g
                      /\ Unflushed(u, g)
                      => RowOnDisk(i)' \/ Unflushed(u, g)'
      <3>1. CASE u = t
        BY <2>1, <2>4, <2>6, <3>1
      <3>2. CASE u # t
        BY <2>1, <2>3, <2>5, <2>7, <3>2 DEF Unflushed
      <3>3. QED
        BY <3>1, <3>2
    <2>8. Len(rows) <= Len(rows') /\ \A i \in DOMAIN rows : rows'[i] = rows[i]
      BY <2>1 DEF TypeOK
    <2>9. \A i \in DOMAIN rows : rows[i].deep_seq # None /\ RowOnDisk(i)
                                  => RowOnDisk(i)'
      BY <1>1, <2>2, <2>8
    <2>10. flushed' = flushed
      BY <2>1
    <2>11. QED
      BY <2>7, <2>8, <2>9, <2>10, FlushFrame
  <1>4. ASSUME UNCHANGED <<file, durable>>
        PROVE  FilesGrow /\ DiskGrows
    BY <1>4 DEF FilesGrow, DiskGrows
  <1>5. ASSUME NEW t \in Threads, WriteRow(t)
        PROVE  FlushInv'
    <2>1. /\ UNCHANGED <<file, durable, at_flush, flushed, missed, pending, target>>
          /\ pc[t] = "row" /\ pc' = [pc EXCEPT ![t] = "idle"]
      BY <1>5 DEF WriteRow, deepVars, countVars, lossVars, flushVars
    <2>2. Len(rows) <= Len(rows') /\ \A i \in DOMAIN rows : rows'[i] = rows[i]
      <3>1. rows \in Seq(Row) /\ rows' \in Seq(Row)
        BY DEF TypeOK
      <3>2. rows' = rows \/ DOMAIN rows' = DOMAIN rows \cup {Len(rows) + 1}
        BY <1>5, WriteRowRows
      <3>3. Len(rows) <= Len(rows')
        BY <3>1, <3>2
      <3>4. QED
        BY <1>5, <3>3, WriteRowRows
    <2>3. \A u \in Threads : pc'[u] \in Flushing =>
            u # t /\ pc'[u] = pc[u] /\ pc[u] \in Flushing
      BY <2>1 DEF TypeOK, Flushing
    <2>4. \A u \in Threads : pc'[u] \in Flushing =>
            /\ pc[u] \in Flushing /\ at_flush'[u] = at_flush[u]
            /\ \A f \in Functions : Unflushed(u, f) => Unflushed(u, f)'
      BY <2>1, <2>3 DEF Unflushed
    <2>5. QED
      BY <1>1, <1>4, <2>1, <2>2, <2>4, RowFields, FlushFrame DEF TypeOK
  <1>6. ASSUME NEW t \in Threads, FlushLockRegistry(t)
        PROVE  FlushInv'
    <2>1. /\ UNCHANGED <<file, durable, at_flush, flushed, missed, target, rows>>
          /\ pc[t] = "flush_registry" /\ pc' = [pc EXCEPT ![t] = "flush_pick"]
          /\ pending' = [pending EXCEPT ![t] = logs]
      BY <1>6 DEF FlushLockRegistry, deepVars, countVars, lossVars, flushVars,
         tsvVars
    <2>2. ASSUME NEW i \in DOMAIN rows, rows[i].deep_seq # None,
                 NEW g \in Functions, rows[i].call.fn = g
          PROVE  Unflushed(t, g)'
      <3>1. rows[i].call.fn \in Functions
        BY RowFields
      <3>2. file[rows[i].call.fn] # <<>>
        <4>1. DOMAIN file[rows[i].call.fn] # {}
          BY <2>2 DEF PointersInv, ResolvesIn
        <4>2. QED
          BY <4>1
      <3>3. rows[i].call.fn \in logs
        BY <3>1, <3>2 DEF RegistryInv
      <3>4. QED
        BY <2>1, <2>2, <3>3 DEF Unflushed, TypeOK
    <2>3. \A u \in Threads \ {t} : pc'[u] = pc[u] /\ pending'[u] = pending[u]
      BY <2>1 DEF TypeOK
    <2>4. pc[t] \in Flushing
      BY <2>1 DEF Flushing
    <2>5. ASSUME NEW u \in Threads, pc'[u] \in Flushing
          PROVE  /\ pc[u] \in Flushing /\ at_flush'[u] = at_flush[u]
                 /\ \A i \in DOMAIN rows, g \in Functions :
                      /\ rows[i].deep_seq # None /\ rows[i].call.fn = g
                      /\ Unflushed(u, g)
                      => RowOnDisk(i)' \/ Unflushed(u, g)'
      <3>1. CASE u = t
        BY <2>1, <2>2, <2>4, <3>1
      <3>2. CASE u # t
        BY <2>1, <2>3, <2>5, <3>2 DEF Unflushed
      <3>3. QED
        BY <3>1, <3>2
    <2>6. QED
      <3>1. Len(rows) <= Len(rows') /\ \A i \in DOMAIN rows : rows'[i] = rows[i]
        BY <2>1 DEF TypeOK
      <3>2. \A i \in DOMAIN rows : rows[i].deep_seq # None /\ RowOnDisk(i)
                                    => RowOnDisk(i)'
        BY <1>1, <1>4, <2>1
      <3>3. flushed' = flushed
        BY <2>1
      <3>4. QED
        BY <2>5, <3>1, <3>2, <3>3, FlushFrame
  <1>7. ASSUME NEW t \in Threads, FlushPick(t) \/ FlushLockLog(t)
        PROVE  FlushInv'
    <2>1. /\ UNCHANGED <<file, durable, at_flush, flushed, missed, rows>>
          /\ pc[t] \in {"flush_pick", "flush_log"}
          /\ pc'[t] \in {"flush_log", "flush_write"}
          /\ \A u \in Threads \ {t} : /\ pc'[u] = pc[u]
                                      /\ pending'[u] = pending[u]
                                      /\ target'[u] = target[u]
      BY <1>7 DEF FlushPick, FlushLockLog, deepVars, countVars, lossVars,
         flushVars, tsvVars, TypeOK
    <2>2. \A f : Unflushed(t, f) => Unflushed(t, f)'
      BY <1>7, <2>1 DEF FlushPick, FlushLockLog, Unflushed, TypeOK
    <2>3. pc[t] \in Flushing
      BY <2>1 DEF Flushing
    <2>4. \A u \in Threads : pc'[u] \in Flushing =>
            /\ pc[u] \in Flushing /\ at_flush'[u] = at_flush[u]
            /\ \A f \in Functions : Unflushed(u, f) => Unflushed(u, f)'
      BY <2>1, <2>2, <2>3 DEF Unflushed
    <2>5. /\ FilesGrow /\ DiskGrows /\ Len(rows) <= Len(rows')
          /\ \A i \in DOMAIN rows : rows'[i] = rows[i]
      BY <1>4, <2>1 DEF TypeOK
    <2>6. \A i \in DOMAIN rows : rows[i].deep_seq # None /\ RowOnDisk(i)
                                  => RowOnDisk(i)'
      BY <1>1, <2>5
    <2>7. \A u \in Threads : pc'[u] \in Flushing =>
            \A i \in DOMAIN rows, f \in Functions :
              /\ rows[i].deep_seq # None /\ rows[i].call.fn = f
              /\ Unflushed(u, f)
              => RowOnDisk(i)' \/ Unflushed(u, f)'
      BY <2>4
    <2>8. QED
      BY <2>1, <2>4, <2>5, <2>6, <2>7, FlushFrame
  <1>8. ASSUME NEW t \in Threads, FlushDone(t)
        PROVE  FlushInv'
    <2>1. /\ UNCHANGED <<file, durable, at_flush, missed, pending, target, rows>>
          /\ pc[t] = "flush_pick" /\ pc' = [pc EXCEPT ![t] = "idle"]
          /\ pending[t] = {}
          /\ \A f \in Functions :
               flushed'[f] = IF f \notin missed[t] /\ at_flush[t] > flushed[f]
                             THEN at_flush[t] ELSE flushed[f]
      BY <1>8 DEF FlushDone, deepVars, tsvVars
    <2>2. /\ at_flush[t] <= Len(rows)
          /\ \A i \in 1 .. at_flush[t] : rows[i].deep_seq # None =>
               RowOnDisk(i) \/ rows[i].call.fn \in missed[t]
      BY <2>1 DEF FlushInv, Flushing, Unflushed
    <2>3. ASSUME NEW f \in Functions
          PROVE  /\ flushed'[f] <= Len(rows)
                 /\ \A i \in 1 .. flushed'[f] :
                      rows[i].call.fn = f /\ rows[i].deep_seq # None => RowOnDisk(i)
      <3>1. CASE f \notin missed[t] /\ at_flush[t] > flushed[f]
        BY <2>1, <2>2, <3>1
      <3>2. CASE ~(f \notin missed[t] /\ at_flush[t] > flushed[f])
        BY <2>1, <3>2 DEF FlushInv, FlushedRowsOnDisk, RowOnDisk
      <3>3. QED
        BY <3>1, <3>2
    <2>4. \A i : RowOnDisk(i)' = RowOnDisk(i)
      BY <2>1 DEF RowOnDisk, EntriesAt, OnDisk
    <2>5. \A u \in Threads : pc'[u] \in Flushing => u # t /\ pc'[u] = pc[u]
      BY <2>1 DEF TypeOK, Flushing
    <2>7. ASSUME NEW u \in Threads, pc'[u] \in Flushing
          PROVE  /\ at_flush[u] <= Len(rows)
                 /\ \A i \in 1 .. at_flush[u] : rows[i].deep_seq # None =>
                      RowOnDisk(i)' \/ Unflushed(u, rows[i].call.fn)'
      <3>1. u # t /\ pc[u] \in Flushing
        BY <2>5, <2>7
      <3>2. at_flush[u] <= Len(rows) /\ at_flush[u] \in Nat /\ Len(rows) \in Nat
        BY <3>1 DEF FlushInv, TypeOK
      <3>3. \A i \in 1 .. at_flush[u] : i \in DOMAIN rows
        BY <3>2 DEF TypeOK
      <3>4. \A i \in 1 .. at_flush[u] : rows[i].deep_seq # None =>
              RowOnDisk(i) \/ Unflushed(u, rows[i].call.fn)
        BY <3>1 DEF FlushInv
      <3>5. \A i : Unflushed(u, rows[i].call.fn) => Unflushed(u, rows[i].call.fn)'
        BY <2>1, <2>5, <2>7 DEF Unflushed
      <3>6. QED
        BY <2>4, <3>2, <3>4, <3>5
    <2>8. FlushedRowsOnDisk'
      BY <2>1, <2>3, <2>4 DEF FlushedRowsOnDisk, RowOnDisk
    <2>9. QED
      BY <2>1, <2>3, <2>7, <2>8 DEF FlushInv
  <1>9. ASSUME NEW t \in Threads, StartFlush(t)
        PROVE  FlushInv'
    <2>1. /\ UNCHANGED <<file, durable, flushed, pending, target, rows>>
          /\ pc[t] = "idle" /\ pc' = [pc EXCEPT ![t] = "flush_registry"]
          /\ at_flush' = [at_flush EXCEPT ![t] = Len(rows)]
          /\ missed' = [missed EXCEPT ![t] = {}]
      BY <1>9 DEF StartFlush, deepVars, tsvVars
    <2>2. \A i : RowOnDisk(i)' = RowOnDisk(i)
      BY <2>1 DEF RowOnDisk, EntriesAt, OnDisk
    <2>3. pc'[t] = "flush_registry" /\ at_flush'[t] = Len(rows) /\ Len(rows) \in Nat
      BY <2>1 DEF TypeOK
    <2>4. \A u \in Threads \ {t} : /\ pc'[u] = pc[u] /\ at_flush'[u] = at_flush[u]
                                   /\ \A f : Unflushed(u, f)' = Unflushed(u, f)
      BY <2>1 DEF Unflushed, TypeOK
    <2>5. ASSUME NEW u \in Threads, pc'[u] \in Flushing
          PROVE  /\ at_flush'[u] <= Len(rows)
                 /\ \A i \in 1 .. at_flush'[u] : rows[i].deep_seq # None =>
                      RowOnDisk(i)' \/ Unflushed(u, rows[i].call.fn)'
      <3>1. CASE u = t
        BY <2>3, <3>1 DEF Unflushed
      <3>2. CASE u # t
        <4>1. pc[u] \in Flushing /\ at_flush'[u] = at_flush[u]
          BY <2>4, <2>5, <3>2
        <4>2. /\ at_flush[u] <= Len(rows)
              /\ \A i \in 1 .. at_flush[u] : rows[i].deep_seq # None =>
                   RowOnDisk(i) \/ Unflushed(u, rows[i].call.fn)
          BY <4>1 DEF FlushInv
        <4>3. \A i : Unflushed(u, rows[i].call.fn) => Unflushed(u, rows[i].call.fn)'
          BY <2>1, <2>4, <3>2 DEF Unflushed
        <4>4. QED
          BY <2>2, <4>1, <4>2, <4>3
      <3>3. QED
        BY <3>1, <3>2
    <2>6. FlushedRowsOnDisk'
      BY <2>1 DEF FlushInv, FlushedRowsOnDisk, EntriesAt, OnDisk
    <2>7. QED
      BY <2>1, <2>5, <2>6 DEF FlushInv
  <1>10. ASSUME UNCHANGED <<file, durable, at_flush, flushed, missed, pending, target, rows>>,
                \A u \in Threads : pc'[u] \in Flushing => pc'[u] = pc[u]
         PROVE  FlushInv'
    <2>1. \A u \in Threads : pc'[u] \in Flushing =>
            /\ pc[u] \in Flushing /\ at_flush'[u] = at_flush[u]
            /\ \A f \in Functions : Unflushed(u, f) => Unflushed(u, f)'
      BY <1>10 DEF Unflushed
    <2>2. QED
      BY <1>1, <1>4, <1>10, <2>1, RowFields, FlushFrame DEF TypeOK
  <1>11. ASSUME NEW t \in Threads,
                \/ LockRegistry(t) \/ OpenLog(t) \/ LockLog(t)
                \/ New(t) \/ FinishInactive(t) \/ TakeSeq(t) \/ Exit(t)
         PROVE  FlushInv'
    <2>1. /\ UNCHANGED <<file, durable, at_flush, flushed, missed, pending, target, rows>>
          /\ \A u \in Threads : pc'[u] \in Flushing => pc'[u] = pc[u]
      BY <1>11 DEF LockRegistry, OpenLog, LockLog, New, FinishInactive, TakeSeq,
         Exit, CreateLog, deepVars, tsvVars, countVars, lossVars, flushVars, threadVars, TypeOK, Flushing
    <2>2. QED
      BY <1>10, <2>1
  <1>12. CASE UNCHANGED vars
    BY <1>10, <1>12 DEF vars, deepVars, tsvVars, countVars, lossVars,
       flushVars, threadVars
  <1>13. QED
    BY <1>2, <1>3, <1>5, <1>6, <1>7, <1>8, <1>9, <1>11, <1>12
    DEF Next, Step, Choice, Exited

-----------------------------------------------------------------------------
(***************************************************************************)
(* CountInv.                                                               *)
(***************************************************************************)
LEMMA NextCount ==
  ASSUME TypeOK, CountInv, [Next]_vars
  PROVE  CountInv'
  <1> DEFINE C == Within({"call"})
             U == Within(Unrecorded)
  <1> USE DEF Transition
  <1>1. /\ IsFiniteSet(C) /\ IsFiniteSet(U)
        /\ Cardinality(C) \in Nat /\ Cardinality(U) \in Nat
    <2>1. IsFiniteSet(U) /\ C \subseteq U
      BY DEF CountInv, Within, Unrecorded
    <2>2. IsFiniteSet(C)
      BY <2>1, FS_Subset
    <2>3. QED
      BY <2>1, <2>2, FS_CardinalityType
  <1>2. /\ begun \in Nat /\ SEQ \in Nat /\ MaxCalls \in Nat
        /\ seq_counter \in [Functions -> Nat]
    BY RecorderAssumption DEF TypeOK, DeepTypeOK
  <1>3. /\ begun <= MaxCalls
        /\ SEQ + Cardinality(C) <= begun
        /\ \A f \in Functions : seq_counter[f] + Cardinality(U) <= begun
    BY DEF CountInv
  <1>4. ASSUME IsFiniteSet(U'), begun' <= MaxCalls,
               SEQ' + Cardinality(C') <= begun',
               \A f \in Functions : seq_counter'[f] + Cardinality(U') <= begun'
        PROVE  CountInv'
    BY <1>4 DEF CountInv
  \* A step that changes neither the places nor the counters.
  <1>5. ASSUME C' = C, U' = U, UNCHANGED <<begun, SEQ, seq_counter>>
        PROVE  CountInv'
    BY <1>1, <1>3, <1>4, <1>5
  <1>6. ASSUME NEW t \in Threads, New(t)
        PROVE  CountInv'
    <2>1. /\ pc[t] = "idle" /\ pc' = [pc EXCEPT ![t] = "call"]
          /\ begun < MaxCalls /\ begun' = begun + 1
          /\ UNCHANGED <<SEQ, seq_counter>>
      BY <1>6 DEF New, deepVars, tsvVars
    <2>2. /\ t \notin C /\ C' = C \cup {t}
          /\ t \notin U /\ U' = U \cup {t}
      BY <2>1 DEF Within, Unrecorded, TypeOK
    <2> HIDE DEF C, U
    <2>3. /\ Cardinality(C') = Cardinality(C) + 1
          /\ IsFiniteSet(U') /\ Cardinality(U') = Cardinality(U) + 1
      BY <1>1, <2>2, Enter
    <2>4. QED
      BY <1>1, <1>2, <1>3, <1>4, <2>1, <2>3
  <1>7. ASSUME NEW t \in Threads, FinishInactive(t)
        PROVE  CountInv'
    <2>1. /\ pc[t] = "call" /\ pc' = [pc EXCEPT ![t] = "idle"]
          /\ UNCHANGED <<begun, SEQ, seq_counter>>
      BY <1>7 DEF FinishInactive, deepVars, tsvVars, countVars, lossVars,
         flushVars
    <2>2. t \in C /\ C' = C \ {t} /\ t \in U /\ U' = U \ {t}
      BY <2>1 DEF Within, Unrecorded, TypeOK
    <2> HIDE DEF C, U
    <2>3. /\ Cardinality(C') = Cardinality(C) - 1
          /\ IsFiniteSet(U') /\ Cardinality(U') = Cardinality(U) - 1
      BY <1>1, <2>2, Leave
    <2>4. QED
      BY <1>1, <1>2, <1>3, <1>4, <2>1, <2>3
  <1>8. ASSUME NEW t \in Threads, TakeSeq(t)
        PROVE  CountInv'
    <2>1. /\ pc[t] = "call" /\ SEQ' = SEQ + 1
          /\ \/ pc' = [pc EXCEPT ![t] = "registry"]
             \/ pc' = [pc EXCEPT ![t] = "row"]
          /\ UNCHANGED <<begun, seq_counter>>
      BY <1>8 DEF TakeSeq, deepVars, countVars, lossVars, flushVars
    <2>2. /\ t \in C /\ C' = C \ {t}
          /\ t \in U /\ (U' = U \/ U' = U \ {t})
      BY <2>1 DEF Within, Unrecorded, TypeOK
    <2> HIDE DEF C, U
    <2>3. Cardinality(C') = Cardinality(C) - 1
      BY <1>1, <2>2, Leave
    <2>4. /\ IsFiniteSet(U \ {t}) /\ Cardinality(U \ {t}) \in Nat
          /\ Cardinality(U \ {t}) = Cardinality(U) - 1
      BY <1>1, <2>2, Leave
    <2>5. /\ IsFiniteSet(U') /\ Cardinality(U') \in Nat
          /\ Cardinality(U') <= Cardinality(U)
      BY <1>1, <2>2, <2>4
    <2>6. QED
      BY <1>1, <1>2, <1>3, <1>4, <2>1, <2>3, <2>5
  <1>9. ASSUME NEW t \in Threads, OpenLog(t)
        PROVE  CountInv'
    <2>1. /\ pc[t] = "open"
          /\ \/ pc' = [pc EXCEPT ![t] = "log"]
             \/ pc' = [pc EXCEPT ![t] = "row"]
          /\ UNCHANGED <<begun, SEQ, seq_counter>>
      BY <1>9 DEF OpenLog, CreateLog, deepVars, tsvVars, countVars, lossVars,
         flushVars
    <2>2. C' = C /\ t \in U /\ (U' = U \/ U' = U \ {t})
      BY <2>1 DEF Within, Unrecorded, TypeOK
    <2> HIDE DEF C, U
    <2>3. /\ IsFiniteSet(U') /\ Cardinality(U') \in Nat
          /\ Cardinality(U') <= Cardinality(U)
      BY <1>1, <2>2, Leave
    <2>4. QED
      BY <1>1, <1>2, <1>3, <1>4, <2>1, <2>2, <2>3
  <1>10. ASSUME NEW t \in Threads, Record(t)
         PROVE  CountInv'
    <2>1. /\ call[t].fn \in Functions
          /\ pc[t] = "record" /\ pc' = [pc EXCEPT ![t] = "row"]
          /\ UNCHANGED <<begun, SEQ>>
      BY <1>10, RecordCall DEF Record, RecordAnswering, tsvVars, countVars,
         lossVars, flushVars
    <2>2. Counted(call[t])
      BY <1>10, RecordCall DEF WriteCall, SkipCall, DedupCall, BufferCall,
         WriteFails
    <2>3. \A f \in Functions : seq_counter'[f] \in {seq_counter[f], seq_counter[f] + 1}
      BY <1>2, <2>1, <2>2 DEF Counted
    <2>4. C' = C /\ t \in U /\ U' = U \ {t}
      BY <2>1 DEF Within, Unrecorded, TypeOK
    <2> HIDE DEF C, U
    <2>5. IsFiniteSet(U') /\ Cardinality(U') = Cardinality(U) - 1
      BY <1>1, <2>4, Leave
    <2>6. ASSUME NEW f \in Functions
          PROVE  seq_counter'[f] + Cardinality(U') <= begun'
      BY <1>1, <1>2, <1>3, <2>1, <2>3, <2>5
    <2>7. QED
      BY <1>1, <1>2, <1>3, <1>4, <2>1, <2>4, <2>5, <2>6
  <1>11. ASSUME NEW t \in Threads,
                \/ LockRegistry(t) \/ LockLog(t) \/ WriteRow(t)
                \/ FlushLockRegistry(t) \/ FlushPick(t) \/ FlushLockLog(t)
                \/ FlushWrite(t) \/ FlushDone(t) \/ StartFlush(t) \/ Exit(t)
         PROVE  CountInv'
    <2>1. UNCHANGED <<begun, SEQ, seq_counter>>
      BY <1>11 DEF LockRegistry, LockLog, WriteRow, FlushLockRegistry,
         FlushPick,
         FlushLockLog, FlushWrite, FlushLast, DropLast, StallFlush, FlushDone,
         StartFlush, Exit,
         deepVars, tsvVars, countVars, lossVars, flushVars
    <2>2. C' = C /\ U' = U
      BY <1>11 DEF LockRegistry, LockLog, WriteRow, FlushLockRegistry,
         FlushPick,
         FlushLockLog, FlushWrite, FlushDone, StartFlush, Exit, threadVars,
         Within, Unrecorded, TypeOK
    <2>3. QED
      BY <1>5, <2>1, <2>2
  <1>12. CASE UNCHANGED vars
    BY <1>5, <1>12 DEF vars, deepVars, tsvVars, countVars, lossVars,
       flushVars, threadVars, Within
  <1>13. QED
    BY <1>6, <1>7, <1>8, <1>9, <1>10, <1>11, <1>12 DEF Next, Step, Choice,
       Exited

-----------------------------------------------------------------------------
LEMMA InitIInv == Init => IInv
  <1> SUFFICES ASSUME Init PROVE IInv
    OBVIOUS
  <1>1. /\ rows = <<>> /\ SEQ = 0
        /\ \A t \in Threads : pc[t] = "idle"
        /\ \A f \in Functions : file[f] = <<>> /\ last_buffer[f] = <<>>
    BY DEF Init, DeepInit
  <1>2. DOMAIN rows = {} /\ \A f \in Functions : DOMAIN file[f] = {}
    BY <1>1
  <1>3. NumbersInv
    BY <1>1, <1>2 DEF NumbersInv, InFinish, Finishing
  <1>4. LogInv
    BY <1>1, <1>2 DEF LogInv
  <1>5. PointersInv
    BY <1>1, <1>2 DEF PointersInv, Holds, Finishing
  <1>6. KeptInv /\ OneEntryPerInput /\ EntriesHaveRows
    <2>1. \A f \in Functions : seen_hashes[f] = {} /\ kept[f] = {} /\ lost[f] = {}
      BY DEF Init, DeepInit
    <2>2. QED
      BY <1>1, <1>2, <2>1 DEF KeptInv, OneEntryPerInput, EntriesHaveRows,
         Recorded
  <1>7. DiskInv
    BY <1>1 DEF Init, DiskInv, Flushing, FlushedRowsOnDisk
  <1>8. CountInv
    <2>1. begun = 0 /\ \A f \in Functions : seq_counter[f] = 0
      BY DEF Init, DeepInit
    <2>2. Within(Unrecorded) = {} /\ Within({"call"}) = {}
      BY <1>1 DEF Within, Unrecorded
    <2>3. IsFiniteSet({}) /\ Cardinality({}) = 0
      BY FS_EmptySet
    <2>4. Cardinality(Within(Unrecorded)) = 0 /\ Cardinality(Within({"call"})) = 0
      BY <2>2, <2>3
    <2>5. 0 <= MaxCalls
      BY RecorderAssumption
    <2>6. IsFiniteSet(Within(Unrecorded))
      BY <2>2, <2>3
    <2>7. QED
      BY <1>1, <2>1, <2>4, <2>5, <2>6 DEF CountInv
  <1>9. QED
    BY <1>3, <1>4, <1>5, <1>6, <1>7, <1>8, InitType DEF IInv

LEMMA NextIInv == IInv /\ [Next]_vars => IInv'
  <1> SUFFICES ASSUME IInv, [Next]_vars PROVE IInv'
    OBVIOUS
  <1>1. TypeOK' /\ NumbersInv'
    BY NextType, NextNumbers DEF IInv
  <1>2. LogInv' /\ PointersInv'
    BY NextPointers DEF IInv
  <1>3. KeptInv' /\ OneEntryPerInput' /\ EntriesHaveRows'
    BY <1>1, NextKept, NextEntriesHaveRows DEF IInv
  <1>4. DiskInv'
    <2>1. RegistryInv /\ FlushInv
      BY DiskSplit DEF IInv
    <2>2. RegistryInv' /\ FlushInv'
      BY <1>1, <1>2, <2>1, NextRegistry, NextFlush DEF IInv
    <2>3. QED
      BY <2>2 DEF DiskInv, RegistryInv, FlushInv
  <1>5. CountInv'
    BY NextCount DEF IInv
  <1>6. QED
    BY <1>1, <1>2, <1>3, <1>4, <1>5 DEF IInv

(***************************************************************************)
(* The inductive invariant holds in every reachable state.                 *)
(***************************************************************************)
THEOREM Invariance == Spec => []IInv
  BY InitIInv, NextIInv, PTL DEF Spec

(***************************************************************************)
(* Rows are numbered without duplicates, and without gaps once every       *)
(* finish is over, for any number of threads and calls: see RowsNumbered.  *)
(***************************************************************************)
THEOREM RowNumbering == Spec => []RowsNumbered
  <1>1. IInv => RowsNumbered
    <2> SUFFICES ASSUME IInv PROVE RowsNumbered
      OBVIOUS
    <2>1. \A i, j \in DOMAIN rows : rows[i].seq = rows[j].seq => i = j
      BY DEF IInv, NumbersInv
    <2>2. ASSUME config.tsv, ~\E t \in Threads : InFinish(t)
          PROVE  {rows[i].seq : i \in DOMAIN rows} = 0 .. SEQ - 1
      <3>1. \A i \in DOMAIN rows : rows[i].seq \in 0 .. SEQ - 1
        BY RowFields DEF IInv, NumbersInv, TypeOK
      <3>2. \A n \in 0 .. SEQ - 1 : \E i \in DOMAIN rows : rows[i].seq = n
        BY <2>2 DEF IInv, NumbersInv
      <3>3. QED
        BY <3>1, <3>2
    <2>3. QED
      BY <2>1, <2>2 DEF RowsNumbered
  <1>2. QED
    BY <1>1, Invariance, PTL

(***************************************************************************)
(* The deep_seq of a row picks out exactly one entry of its function's     *)
(* log, the record of the row's own call: see DeepSeqResolves.             *)
(***************************************************************************)
THEOREM DeepSeqResolution == Spec => []DeepSeqResolves
  <1>1. IInv => DeepSeqResolves
    <2> SUFFICES ASSUME IInv, NEW i \in DOMAIN rows, rows[i].deep_seq # None
                 PROVE  \E k \in DOMAIN file[rows[i].call.fn] :
                          /\ EntriesAt(rows[i].call.fn, rows[i].deep_seq) = {k}
                          /\ Matches(file[rows[i].call.fn][k], rows[i].call)
      BY DEF DeepSeqResolves
    <2> DEFINE f == rows[i].call.fn
    <2>1. f \in Functions
      BY RowFields DEF IInv
    <2>2. PICK k \in DOMAIN file[f] :
            file[f][k].seq = rows[i].deep_seq /\ Matches(file[f][k], rows[i].call)
      BY DEF IInv, PointersInv, ResolvesIn
    <2>3. \A j \in DOMAIN file[f] : file[f][j].seq = file[f][k].seq => j = k
      BY <2>1 DEF IInv, LogInv
    <2>4. EntriesAt(f, rows[i].deep_seq) = {k}
      BY <2>2, <2>3 DEF EntriesAt
    <2>5. QED
      BY <2>2, <2>4
  <1>2. QED
    BY <1>1, Invariance, PTL

(***************************************************************************)
(* No entry is pointed at by two rows: see RowsShareNoEntry.               *)
(***************************************************************************)
THEOREM EntryOwnership == Spec => []RowsShareNoEntry
  <1>1. IInv => RowsShareNoEntry
    BY DEF IInv, PointersInv, RowsShareNoEntry
  <1>2. QED
    BY <1>1, Invariance, PTL

(***************************************************************************)
(* Whatever the threads do and whichever writes fail, record writes one    *)
(* entry for each input, and none after its write has failed: see          *)
(* OneEntryPerInput.                                                       *)
(***************************************************************************)
THEOREM EntryPerInput == Spec => []OneEntryPerInput
  <1>1. IInv => OneEntryPerInput
    BY DEF IInv
  <1>2. QED
    BY <1>1, Invariance, PTL

(***************************************************************************)
(* An entry has a row that points at it, or a thread on its way to write   *)
(* one, exactly if it is not a flushed last call: see EntriesHaveRows.     *)
(***************************************************************************)
THEOREM EntriesPointedAt == Spec => []EntriesHaveRows
  <1>1. IInv => EntriesHaveRows
    BY DEF IInv
  <1>2. QED
    BY <1>1, Invariance, PTL

(***************************************************************************)
(* What a row points at when flush_all is called is on disk when it        *)
(* returns, and stays there, in every log whose own flush did not fail:    *)
(* see FlushedRowsOnDisk.                                                  *)
(***************************************************************************)
THEOREM FlushedDurability == Spec => []FlushedRowsOnDisk
  <1>1. IInv => FlushedRowsOnDisk
    BY DEF IInv, DiskInv
  <1>2. QED
    BY <1>1, Invariance, PTL
-----------------------------------------------------------------------------
(***************************************************************************)
(* Recorder implements TraceLog, for every value of the constants: each    *)
(* step maps to a step of TraceLog or leaves its state alone.              *)
(***************************************************************************)
EntryView(e) == [seq  |-> e.seq,
                 view |-> [inputs |-> e.inputs, outputs |-> e.outputs]]

HasRow(f, n) ==
  \E i \in DOMAIN rows : rows[i].call.fn = f /\ rows[i].deep_seq = n

\* AbsEntries, now and in the next state.
LEMMA EntriesNow ==
  AbsEntries = [f \in Functions |->
                  {EntryView(file[f][k]) :
                     k \in {j \in DOMAIN file[f] : HasRow(f, file[f][j].seq)}}]
  <1>1. ASSUME NEW f \in Functions
        PROVE  {EntryView(e) : e \in {file[f][k] : k \in
                   {j \in DOMAIN file[f] : Pointing(f, file[f][j].seq) # {}}}}
               = {EntryView(file[f][k]) :
                    k \in {j \in DOMAIN file[f] : HasRow(f, file[f][j].seq)}}
    BY DEF HasRow, Pointing
  <1>2. QED
    BY <1>1 DEF AbsEntries, EntryView

LEMMA EntriesThen ==
  AbsEntries' = [f \in Functions |->
                   {EntryView(file'[f][k]) :
                      k \in {j \in DOMAIN file'[f] :
                               \E i \in DOMAIN rows' :
                                 /\ rows'[i].call.fn = f
                                 /\ rows'[i].deep_seq = file'[f][j].seq}}]
  <1>1. ASSUME NEW f \in Functions
        PROVE  {EntryView(e) : e \in {file'[f][k] : k \in
                   {j \in DOMAIN file'[f] : Pointing(f, file[f][j].seq)' # {}}}}
               = {EntryView(file'[f][k]) :
                    k \in {j \in DOMAIN file'[f] :
                             \E i \in DOMAIN rows' :
                               /\ rows'[i].call.fn = f
                               /\ rows'[i].deep_seq = file'[f][j].seq}}
    BY DEF Pointing
  <1>2. QED
    BY <1>1 DEF AbsEntries, EntryView
-----------------------------------------------------------------------------
(***************************************************************************)
(* A step that writes no row changes no entry that has one: an entry that  *)
(* comes into a file has a number that no row has.                         *)
(***************************************************************************)
LEMMA EntriesFrame ==
  ASSUME IInv, IInv', FilesGrow, rows' = rows
  PROVE  AbsEntries' = AbsEntries
  <1>1. SUFFICES ASSUME NEW f \in Functions
        PROVE  {EntryView(file'[f][k]) :
                  k \in {j \in DOMAIN file'[f] : HasRow(f, file'[f][j].seq)}}
               = {EntryView(file[f][k]) :
                    k \in {j \in DOMAIN file[f] : HasRow(f, file[f][j].seq)}}
    BY EntriesNow, EntriesThen DEF HasRow
  <1>2. \A k \in DOMAIN file[f] : k \in DOMAIN file'[f] /\ file'[f][k] = file[f][k]
    BY DEF FilesGrow
  <1>3. ASSUME NEW k \in DOMAIN file'[f], HasRow(f, file'[f][k].seq)
        PROVE  k \in DOMAIN file[f]
    <2>1. PICK i \in DOMAIN rows :
            rows[i].call.fn = f /\ rows[i].deep_seq = file'[f][k].seq
      BY <1>3 DEF HasRow
    <2>2. CASE rows[i].deep_seq = None
      <3>1. file'[f][k].seq \in Nat
        <4>1. file'[f] \in Seq(Entry)
          BY DEF IInv, TypeOK, DeepTypeOK
        <4>2. file'[f][k] \in Entry
          BY <1>3, <4>1
        <4>3. QED
          BY <4>2 DEF Entry
      <3>2. QED
        BY <2>1, <2>2, <3>1 DEF None
    <2>3. CASE rows[i].deep_seq # None
      <3>1. PICK j \in DOMAIN file[f] : file[f][j].seq = rows[i].deep_seq
        BY <2>1, <2>3 DEF IInv, PointersInv, ResolvesIn
      <3>2. j = k
        BY <1>2, <2>1, <3>1 DEF IInv, LogInv
      <3>3. QED
        BY <3>1, <3>2
    <2>4. QED
      BY <2>2, <2>3
  <1>4. QED
    BY <1>2, <1>3
-----------------------------------------------------------------------------
(***************************************************************************)
(* The row of a call, and with it the entry it points at.                  *)
(***************************************************************************)
LEMMA RowInTable ==
  ASSUME TypeOK, NEW t \in Threads, WriteRow(t), config.tsv
  PROVE  /\ AbsTable' = AbsTable \cup
              {[seq |-> seq[t], call |-> call[t], deep_seq |-> deep_seq[t]]}
         /\ \A f, n : (\E i \in DOMAIN rows' :
                          rows'[i].call.fn = f /\ rows'[i].deep_seq = n)
                      <=> HasRow(f, n) \/ (f = call[t].fn /\ n = deep_seq[t])
  <1>1. /\ DOMAIN rows' = DOMAIN rows \cup {Len(rows) + 1}
        /\ Len(rows) + 1 \notin DOMAIN rows
        /\ \A i \in DOMAIN rows : rows'[i] = rows[i]
        /\ rows'[Len(rows) + 1] = RowOf(t)
    BY WriteRowRows
  <1>2. /\ RowOf(t).seq = seq[t] /\ RowOf(t).call = call[t]
        /\ RowOf(t).deep_seq = deep_seq[t]
    BY DEF RowOf
  <1>3. AbsTable' = {[seq |-> rows'[i].seq, call |-> rows'[i].call,
                      deep_seq |-> rows'[i].deep_seq] : i \in DOMAIN rows'}
    BY DEF AbsTable
  <1>4. AbsTable' = AbsTable \cup
          {[seq |-> seq[t], call |-> call[t], deep_seq |-> deep_seq[t]]}
    BY <1>1, <1>2, <1>3 DEF AbsTable
  <1>5. QED
    BY <1>1, <1>2, <1>4 DEF HasRow

LEMMA RowPoints ==
  ASSUME IInv, NEW t \in Threads, WriteRow(t), config.tsv
  PROVE  \/ deep_seq[t] = None /\ AbsEntries' = AbsEntries
         \/ /\ deep_seq[t] \in 0 .. MaxCalls
            /\ \A e \in AbsEntries[call[t].fn] : e.seq # deep_seq[t]
            /\ AbsEntries' = [AbsEntries EXCEPT ![call[t].fn] = @ \cup
                 {[seq |-> deep_seq[t], view |-> CapturedView(call[t])]}]
  <1> DEFINE g == call[t].fn
             n == deep_seq[t]
             After(f) == {EntryView(file[f][k]) :
                            k \in {j \in DOMAIN file[f] :
                                     \/ HasRow(f, file[f][j].seq)
                                     \/ f = g /\ file[f][j].seq = n}}
             Before(f) == {EntryView(file[f][k]) :
                             k \in {j \in DOMAIN file[f] :
                                      HasRow(f, file[f][j].seq)}}
  <1>1. TypeOK /\ DeepTypeOK /\ g \in Functions
    BY DEF IInv, TypeOK, Calls
  <1>2. file' = file
    BY DEF WriteRow, deepVars
  <1>3. AbsEntries' = [f \in Functions |-> After(f)]
    BY <1>1, <1>2, EntriesThen, RowInTable
  <1>4. AbsEntries = [f \in Functions |-> Before(f)]
    BY EntriesNow
  <1>5. \A f \in Functions : f # g => After(f) = Before(f)
    OBVIOUS
  <1>6. CASE n = None
    <2>1. \A k \in DOMAIN file[g] : file[g][k].seq # n
      BY <1>1, <1>6, EntryFields DEF None
    <2>2. After(g) = Before(g)
      BY <2>1
    <2> HIDE DEF After, Before
    <2>3. \A f \in Functions : After(f) = Before(f)
      <3>1. SUFFICES ASSUME NEW f \in Functions PROVE After(f) = Before(f)
        OBVIOUS
      <3>2. CASE f = g
        BY <2>2, <3>2
      <3>3. CASE f # g
        BY <1>5, <3>3
      <3>4. QED
        BY <3>2, <3>3
    <2>4. QED
      BY <1>3, <1>4, <1>6, <2>3
  <1>7. CASE n # None
    <2>1. Holds(t)
      BY <1>7 DEF WriteRow, Transition, Holds
    <2>2. PICK k \in DOMAIN file[g] :
            file[g][k].seq = n /\ Matches(file[g][k], call[t])
      BY <2>1 DEF IInv, PointersInv, ResolvesIn
    <2>3. \A j \in DOMAIN file[g] : file[g][j].seq = n => j = k
      BY <1>1, <2>2 DEF IInv, LogInv
    <2>4. EntryView(file[g][k]) = [seq |-> n, view |-> CapturedView(call[t])]
      BY <2>2 DEF EntryView, CapturedView, Matches
    <2>5. After(g) = Before(g) \cup {[seq |-> n, view |-> CapturedView(call[t])]}
      BY <2>2, <2>3, <2>4
    <2>6. ~HasRow(g, n)
      BY <2>1 DEF IInv, PointersInv, HasRow
    <2>7. \A e \in Before(g) : e.seq # n
      BY <2>6 DEF EntryView
    <2>8. n \in 0 .. MaxCalls
      <3>1. n \in Nat /\ n < seq_counter[g]
        BY <1>1, <2>2, EntryFields DEF IInv, LogInv
      <3>2. /\ Cardinality(Within(Unrecorded)) \in Nat
            /\ seq_counter[g] + Cardinality(Within(Unrecorded)) <= begun
            /\ begun <= MaxCalls
        BY <1>1, FS_CardinalityType DEF IInv, CountInv
      <3>3. seq_counter[g] \in Nat /\ begun \in Nat /\ MaxCalls \in Nat
        BY <1>1, RecorderAssumption DEF TypeOK, DeepTypeOK
      <3> HIDE DEF n, g
      <3>4. QED
        BY <3>1, <3>2, <3>3
    <2> DEFINE new == [seq |-> n, view |-> CapturedView(call[t])]
    <2>9. /\ After(g) = Before(g) \cup {new}
          /\ \A e \in Before(g) : e.seq # n
      BY <2>5, <2>7
    <2> HIDE DEF After, Before, new, g
    <2>10. \A e \in AbsEntries[g] : e.seq # n
      BY <1>1, <1>4, <2>9
    <2>11. AbsEntries' = [AbsEntries EXCEPT ![g] = @ \cup {new}]
      BY <1>1, <1>3, <1>4, <1>5, <2>9
    <2>12. QED
      BY <2>8, <2>10, <2>11 DEF new, g
  <1>8. QED
    BY <1>6, <1>7

LEMMA RowMaps ==
  ASSUME IInv, NEW t \in Threads, WriteRow(t), config.tsv
  PROVE  Abstract!Finish(t)
  <1>1. TypeOK
    BY DEF IInv
  <1>2. /\ pc[t] = "row" /\ pc' = [pc EXCEPT ![t] = "idle"]
        /\ config' = config /\ call' = call
    BY DEF WriteRow, Transition
  <1>3. t \in AbsBusy /\ AbsBusy' = AbsBusy \ {t}
    BY <1>1, <1>2 DEF AbsBusy, Finishing, TypeOK
  <1>4. seq[t] \in 0 .. MaxCalls /\ \A i \in DOMAIN rows : rows[i].seq # seq[t]
    <2>1. /\ seq[t] < SEQ /\ \A i \in DOMAIN rows : rows[i].seq # seq[t]
      BY <1>2 DEF IInv, NumbersInv, InFinish, Finishing
    <2>2. /\ Cardinality(Within({"call"})) \in Nat
          /\ SEQ + Cardinality(Within({"call"})) <= begun /\ begun <= MaxCalls
      <3>1. IsFiniteSet(Within(Unrecorded)) /\ Within({"call"}) \subseteq Within(Unrecorded)
        BY DEF IInv, CountInv, Within, Unrecorded
      <3>2. IsFiniteSet(Within({"call"}))
        BY <3>1, FS_Subset
      <3>3. QED
        BY <3>2, FS_CardinalityType DEF IInv, CountInv
    <2>3. seq[t] \in Nat /\ SEQ \in Nat /\ begun \in Nat /\ MaxCalls \in Nat
      BY <1>1, RecorderAssumption DEF TypeOK
    <2>4. QED
      BY <2>1, <2>2, <2>3
  <1>5. Abstract!Fresh(seq[t])
    BY <1>4 DEF Abstract!Fresh, AbsTable
  <1>6. AbsTable' = AbsTable \cup {Abstract!Row(seq[t], call[t], deep_seq[t])}
    BY <1>1, RowInTable DEF Abstract!Row
  <1>7. CASE deep_seq[t] = None /\ AbsEntries' = AbsEntries
    BY <1>2, <1>3, <1>4, <1>5, <1>6, <1>7 DEF Abstract!Finish
  <1>8. CASE /\ deep_seq[t] \in 0 .. MaxCalls
             /\ \A e \in AbsEntries[call[t].fn] : e.seq # deep_seq[t]
             /\ AbsEntries' = [AbsEntries EXCEPT ![call[t].fn] = @ \cup
                  {[seq |-> deep_seq[t], view |-> CapturedView(call[t])]}]
    <2>1. Abstract!FreshEntry(call[t].fn, deep_seq[t])
      BY <1>8 DEF Abstract!FreshEntry
    <2>2. QED
      BY <1>2, <1>3, <1>4, <1>5, <1>6, <1>8, <2>1 DEF Abstract!Finish
  <1>9. QED
    BY <1>7, <1>8, RowPoints

(***************************************************************************)
(* Every step of the recorder is a step of TraceLog or one it cannot see.  *)
(***************************************************************************)
LEMMA NextRefines ==
  ASSUME IInv, IInv', [Next]_vars
  PROVE  [Abstract!Next]_(Abstract!vars)
  <1> TypeOK /\ DeepTypeOK
    BY DEF IInv, TypeOK
  <1> USE DEF Transition
  <1>1. ASSUME AbsBusy' = AbsBusy, FilesGrow, UNCHANGED <<config, call, rows>>
        PROVE  UNCHANGED Abstract!vars
    <2>1. AbsEntries' = AbsEntries
      BY <1>1, EntriesFrame
    <2>2. AbsTable' = AbsTable
      BY <1>1 DEF AbsTable
    <2>3. QED
      BY <1>1, <2>1, <2>2 DEF Abstract!vars
  <1>2. ASSUME NEW t \in Threads, New(t)
        PROVE  Abstract!Begin(t)
    <2>1. /\ pc[t] = "idle" /\ pc' = [pc EXCEPT ![t] = "call"]
          /\ \E c \in Calls : call' = [call EXCEPT ![t] = c]
          /\ UNCHANGED <<config, rows, file>>
      BY <1>2 DEF New, deepVars, tsvVars
    <2>2. t \notin AbsBusy /\ AbsBusy' = AbsBusy \cup {t}
      BY <2>1 DEF AbsBusy, Finishing, TypeOK
    <2>3. AbsEntries' = AbsEntries
      BY <2>1, EntriesFrame DEF FilesGrow
    <2>4. AbsTable' = AbsTable
      BY <2>1 DEF AbsTable
    <2>5. QED
      BY <2>1, <2>2, <2>3, <2>4 DEF Abstract!Begin
  <1>3. ASSUME NEW t \in Threads,
               FinishInactive(t) \/ (WriteRow(t) /\ ~config.tsv)
        PROVE  Abstract!FinishUntraced(t)
    <2>1. /\ pc[t] \in {"call", "row"} /\ pc' = [pc EXCEPT ![t] = "idle"]
          /\ ~config.tsv
          /\ UNCHANGED <<config, call, rows, file>>
      BY <1>3 DEF FinishInactive, Active, WriteRow, deepVars, tsvVars
    <2>2. t \in AbsBusy /\ AbsBusy' = AbsBusy \ {t}
      BY <2>1 DEF AbsBusy, Finishing, TypeOK
    <2>3. AbsEntries' = AbsEntries
      BY <2>1, EntriesFrame DEF FilesGrow
    <2>4. AbsTable' = AbsTable
      BY <2>1 DEF AbsTable
    <2>5. QED
      BY <2>1, <2>2, <2>3, <2>4 DEF Abstract!FinishUntraced
  <1>4. ASSUME NEW t \in Threads,
               \/ TakeSeq(t) \/ LockRegistry(t) \/ OpenLog(t) \/ LockLog(t)
               \/ StartFlush(t) \/ FlushLockRegistry(t) \/ FlushPick(t)
               \/ FlushLockLog(t) \/ FlushDone(t) \/ Exit(t)
        PROVE  UNCHANGED Abstract!vars
    <2>1. UNCHANGED <<config, call, rows, file>>
      BY <1>4 DEF TakeSeq, LockRegistry, OpenLog, CreateLog, LockLog,
         StartFlush,
         FlushLockRegistry, FlushPick, FlushLockLog, FlushDone, Exit, deepVars,
         threadVars, tsvVars
    <2>2. AbsBusy' = AbsBusy
      BY <1>4 DEF TakeSeq, LockRegistry, OpenLog, LockLog, StartFlush,
         FlushLockRegistry, FlushPick, FlushLockLog, FlushDone, Exit,
         threadVars, AbsBusy, Finishing, TypeOK
    <2>3. QED
      BY <1>1, <2>1, <2>2 DEF FilesGrow
  <1>5. ASSUME NEW t \in Threads, Record(t)
        PROVE  UNCHANGED Abstract!vars
    <2>1. /\ pc[t] = "record" /\ pc' = [pc EXCEPT ![t] = "row"]
          /\ UNCHANGED <<config, call, rows>>
      BY <1>5, RecordCall
    <2>2. AbsBusy' = AbsBusy
      BY <2>1 DEF AbsBusy, Finishing, TypeOK
    <2>3. FilesGrow
      <3>1. \/ file' = file
            \/ /\ call[t] \in Calls /\ call[t].fn \in Functions
               /\ \E coin : WriteCall(call[t], coin)
        BY <1>5, RecordCall DEF SkipCall, DedupCall, BufferCall, WriteFails
      <3>2. QED
        BY <3>1, WriteCallAppends, AppendedGrow DEF FilesGrow
    <2>4. QED
      BY <1>1, <2>1, <2>2, <2>3
  <1>6. ASSUME NEW t \in Threads, FlushWrite(t)
        PROVE  UNCHANGED Abstract!vars
    <2>1. /\ target[t] \in Functions
          /\ pc[t] = "flush_write" /\ pc' = [pc EXCEPT ![t] = "flush_pick"]
          /\ FlushLast(target[t]) \/ DropLast(target[t]) \/ StallFlush(target[t])
          /\ UNCHANGED <<config, call, rows>>
      BY <1>6, FlushWriteFile DEF IInv
    <2>2. AbsBusy' = AbsBusy
      BY <2>1 DEF AbsBusy, Finishing, TypeOK
    <2>3. QED
      BY <1>1, <2>1, <2>2, FlushLastLog, FlushFailsLog DEF IInv
  <1>7. CASE UNCHANGED vars
    <2>1. UNCHANGED <<config, call, rows, file, pc>>
      BY <1>7 DEF vars, threadVars, tsvVars, deepVars
    <2>2. QED
      BY <1>1, <2>1 DEF FilesGrow, AbsBusy
  <1>8. QED
    BY <1>2, <1>3, <1>4, <1>5, <1>6, <1>7, RowMaps
    DEF Next, Step, Choice, Exited, Abstract!Next

LEMMA InitRefines == Init => Abstract!Init
  <1> SUFFICES ASSUME Init PROVE Abstract!Init
    OBVIOUS
  <1>1. TypeOK
    BY InitType
  <1>2. /\ rows = <<>> /\ \A t \in Threads : pc[t] = "idle"
        /\ \A f \in Functions : file[f] = <<>>
    BY DEF Init, DeepInit
  <1>3. config.tsv \in BOOLEAN
    BY <1>1 DEF TypeOK, DeepTypeOK, Config
  <1>4. AbsBusy = {} /\ call \in [Threads -> Calls]
    BY <1>1, <1>2 DEF AbsBusy, Finishing, TypeOK
  <1>5. AbsTable = {}
    BY <1>2 DEF AbsTable
  <1>6. AbsEntries = [f \in Functions |-> {}]
    BY <1>2, EntriesNow
  <1>7. QED
    BY <1>3, <1>4, <1>5, <1>6 DEF Abstract!Init

(***************************************************************************)
(* Whatever locks, counters, buffers and sampling do, and in whatever      *)
(* order threads take them, the table and the entries it points at change  *)
(* as TraceLog says: see ImplementsTraceLog.                               *)
(***************************************************************************)
THEOREM Refinement == Spec => ImplementsTraceLog
  BY InitRefines, NextRefines, Invariance, PTL
  DEF Spec, ImplementsTraceLog, Abstract!Spec
=============================================================================
