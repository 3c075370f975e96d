---------------------------- MODULE LogFileProofs ---------------------------
(***************************************************************************)
(* Proofs about LogFile as part of Replay, for every set of functions,     *)
(* inputs, policies, paths and bounds: what a log captures, in which order,*)
(* and what of it survives failed writes and the end of the program.       *)
(* FileInv of ReplayInv is the inductive invariant they rest on.           *)
(***************************************************************************)
EXTENDS ReplayInv, DeepLogProofs

LEMMA PairMax ==
  ASSUME NEW a \in Nat, NEW b \in Nat
  PROVE  Max({a, b}) \in Nat /\ Max({a, b}) = IF a <= b THEN b ELSE a
  <1> DEFINE m == IF a <= b THEN b ELSE a
  <1>1. m \in {a, b} /\ \A y \in {a, b} : m >= y
    OBVIOUS
  <1>2. \A x \in {a, b} : (\A y \in {a, b} : x >= y) => x = m
    OBVIOUS
  <1>3. QED
    BY <1>1, <1>2 DEF Max

LEMMA PairMin ==
  ASSUME NEW a \in Nat, NEW b \in Nat
  PROVE  Min({a, b}) = IF a <= b THEN a ELSE b
  <1> DEFINE m == IF a <= b THEN a ELSE b
  <1>1. m \in {a, b} /\ \A y \in {a, b} : m <= y
    OBVIOUS
  <1>2. \A x \in {a, b} : (\A y \in {a, b} : x <= y) => x = m
    OBVIOUS
  <1>3. QED
    BY <1>1, <1>2 DEF Min

\* Writing pieces into a file leaves a file.
LEMMA PutType ==
  ASSUME NEW S, Hole \in S, NEW x \in S, NEW d \in Seq(S),
         NEW a \in Nat, NEW b \in Nat
  PROVE  Put(d, a, b, x) \in Seq(S)
  <1>1. Len(d) \in Nat /\ \A i \in DOMAIN d : d[i] \in S
    OBVIOUS
  <1> DEFINE m == Max({Len(d), b})
             e(i) == IF i \in a .. b THEN x ELSE IF i \in DOMAIN d THEN d[i] ELSE Hole
  <1>2. m \in Nat
    BY <1>1, PairMax
  <1>3. \A i \in 1 .. m : e(i) \in S
    BY <1>1
  <1> HIDE DEF m, e
  <1>4. [i \in 1 .. m |-> e(i)] \in Seq(S)
    <2>1. [i \in 1 .. m |-> e(i)] \in [1 .. m -> S]
      BY <1>3
    <2>2. QED
      BY <1>2, <2>1, SeqDef
  <1>5. ~(a > b) => Put(d, a, b, x) = [i \in 1 .. m |-> e(i)]
    BY DEF Put, m, e
  <1>6. a > b => Put(d, a, b, x) = d
    BY DEF Put
  <1>7. QED
    BY <1>4, <1>5, <1>6

\* Pieces written to the end of a file that is all of one log go there.
LEMMA PutBehind ==
  ASSUME NEW S, NEW x \in S, NEW d \in Seq(S), NEW b \in Nat, Len(d) <= b,
         \A i \in 1 .. Len(d) : d[i] = x
  PROVE  /\ Len(Put(d, Len(d) + 1, b, x)) = b
         /\ \A i \in 1 .. b : Put(d, Len(d) + 1, b, x)[i] = x
  <1> DEFINE n == Len(d)
  <1>1. n \in Nat /\ n <= b /\ DOMAIN d = 1 .. n /\ \A i \in 1 .. n : d[i] = x
    OBVIOUS
  <1> HIDE DEF n
  <1>2. CASE n + 1 > b
    <2>1. b = n
      BY <1>1, <1>2
    <2>2. Put(d, n + 1, b, x) = d
      BY <1>2 DEF Put
    <2>3. QED
      BY <1>1, <2>1, <2>2 DEF n
  <1>3. CASE ~(n + 1 > b)
    <2>1. Max({n, b}) = b
      BY <1>1, PairMax
    <2>2. Put(d, n + 1, b, x) =
            [i \in 1 .. b |-> IF i \in n + 1 .. b THEN x
                              ELSE IF i \in DOMAIN d THEN d[i] ELSE Hole]
      BY <1>3, <2>1 DEF Put, n
    <2>3. \A i \in 1 .. b : Put(d, n + 1, b, x)[i] = x
      BY <1>1, <2>2
    <2>4. Len(Put(d, n + 1, b, x)) = b
      BY <2>2
    <2>5. QED
      BY <2>3, <2>4 DEF n
  <1>4. QED
    BY <1>2, <1>3
-----------------------------------------------------------------------------
(***************************************************************************)
(* Types.                                                                  *)
(***************************************************************************)
LEMMA FileSplit ==
  FileTypeOK => DeepTypeOK /\ SessionTypeOK
  BY DEF FileTypeOK, SessionTypeOK

LEMMA AtType ==
  ASSUME FileTypeOK, NEW f \in Functions
  PROVE  /\ seq_counter[f] \in Nat /\ durable[f] \in Nat
         /\ seen_hashes[f] \subseteq Hashes /\ lost[f] \subseteq Hashes
         /\ last_buffer[f] \in Seq(Entry) /\ file[f] \in Seq(Entry)
         /\ offered[f] \in Seq(Hashes)
         /\ Len(file[f]) \in Nat /\ Len(offered[f]) \in Nat
         /\ failures[f] \in Nat /\ synced[f] \in Nat
         /\ damaged[f] \in Nat \cup {None}
         /\ Path(f) \in Paths
         /\ disk[Path(f)] \in Seq(Functions \cup {Hole, Torn})
  <1>1. DeepTypeOK /\ SessionTypeOK
    BY FileSplit
  <1>2. /\ seq_counter[f] \in Nat /\ durable[f] \in Nat
        /\ seen_hashes[f] \subseteq Hashes
        /\ last_buffer[f] \in Seq(Entry) /\ file[f] \in Seq(Entry)
    BY <1>1 DEF DeepTypeOK
  <1>3. offered[f] \in Seq(Hashes)
    BY <1>1 DEF SessionTypeOK
  <1>4. /\ lost[f] \subseteq Hashes
        /\ failures[f] \in Nat /\ synced[f] \in Nat
        /\ damaged[f] \in Nat \cup {None}
    BY DEF FileTypeOK
  <1>5. Path(f) \in Paths
    BY DEF Paths
  <1>6. disk[Path(f)] \in Seq(Functions \cup {Hole, Torn})
    BY <1>5 DEF FileTypeOK
  <1>7. Len(file[f]) \in Nat /\ Len(offered[f]) \in Nat
    BY <1>2, <1>3
  <1>8. QED
    BY <1>2, <1>3, <1>4, <1>5, <1>6, <1>7

LEMMA LandedType ==
  ASSUME FileTypeOK, NEW f \in Functions, Landed(f), durable'[f] \in Nat
  PROVE  disk' \in [Paths -> Seq(Functions \cup {Hole, Torn})]
  <1> DEFINE S == Functions \cup {Hole, Torn}
  <1>1. Path(f) \in Paths /\ disk \in [Paths -> Seq(S)] /\ durable[f] + 1 \in Nat
    BY AtType DEF FileTypeOK
  <1>2. disk[Path(f)] \in Seq(S) /\ Hole \in S /\ f \in S
    BY AtType
  <1> HIDE DEF S
  <1>3. Put(disk[Path(f)], durable[f] + 1, durable'[f], f) \in Seq(S)
    BY <1>1, <1>2, PutType
  <1>4. disk' \in [Paths -> Seq(S)]
    BY <1>1, <1>3 DEF Landed
  <1>5. QED
    BY <1>4 DEF S

LEMMA OfferedType ==
  ASSUME FileTypeOK, NEW c \in Calls,
         offered' = [offered EXCEPT ![c.fn] = Append(@, InputHash(c))]
  PROVE  offered' \in [Functions -> Seq(Hashes)]
  <1>1. InputHash(c) \in Hashes
    BY DEF Hashes
  <1>2. c.fn \in Functions
    BY DEF Calls
  <1>3. Append(offered[c.fn], InputHash(c)) \in Seq(Hashes)
    BY <1>1, <1>2, AtType, AppendFacts
  <1>4. QED
    BY <1>3 DEF FileTypeOK, SessionTypeOK

LEMMA RecordDeepType ==
  ASSUME FileTypeOK, NEW c \in Calls, LogRecord(c)
  PROVE  DeepTypeOK'
  <1>1. DeepTypeOK /\ config' = config
    BY DEF LogRecord, Offer, FileTypeOK, SessionTypeOK
  <1>2. QED
    BY <1>1, WriteCallType, BufferCallType, PassedCallType DEF LogRecord, Offer

LEMMA FrameFailsType ==
  ASSUME FileTypeOK, NEW f \in Functions, NEW h \in Hashes, FrameFails(f, h)
  PROVE  /\ lost' \in [Functions -> SUBSET Hashes]
         /\ damaged' \in [Functions -> Nat \cup {None}]
  <1>1. Len(file[f]) \in Nat
    BY DEF FileTypeOK, SessionTypeOK, DeepTypeOK
  <1>2. lost' \in [Functions -> SUBSET Hashes]
    BY DEF FrameFails, FileTypeOK
  <1>3. damaged' \in [Functions -> Nat \cup {None}]
    BY <1>1 DEF FrameFails, FileTypeOK
  <1>4. QED
    BY <1>2, <1>3

\* Every step of a log keeps the types.
LEMMA RecordType ==
  ASSUME FileTypeOK, NEW c \in Calls, LogRecord(c)
  PROVE  FileTypeOK'
  <1>1. c.fn \in Functions
    BY DEF Calls
  <1>2. DeepTypeOK'
    BY RecordDeepType
  <1>3. offered' \in [Functions -> Seq(Hashes)]
    BY OfferedType DEF LogRecord, Offer
  <1>4. durable'[c.fn] \in Nat
    BY <1>1, <1>2 DEF DeepTypeOK
  <1>5. disk' \in [Paths -> Seq(Functions \cup {Hole, Torn})]
    BY <1>1, <1>4, LandedType DEF LogRecord
  <1>6. QED
    BY <1>2, <1>3, <1>5 DEF FileTypeOK, SessionTypeOK, LogRecord

LEMMA RecordFailsType ==
  ASSUME FileTypeOK, NEW c \in Calls, RecordFails(c)
  PROVE  FileTypeOK'
  <1>1. c.fn \in Functions /\ InputHash(c) \in Hashes
    BY DEF Calls, Hashes
  <1>2. PICK coin : WriteFails(c, coin)
    BY DEF RecordFails
  <1>3. DeepTypeOK'
    BY <1>2, FileSplit, WriteFailsType DEF RecordFails
  <1>4. durable'[c.fn] \in Nat
    BY <1>1, <1>3 DEF DeepTypeOK
  <1>5. SessionTypeOK'
    BY <1>3, OfferedType DEF SessionTypeOK, RecordFails
  <1>6. disk' \in [Paths -> Seq(Functions \cup {Hole, Torn})]
    BY <1>1, <1>4, LandedType DEF RecordFails
  <1>7. failures' \in [Functions -> Nat]
    BY <1>1 DEF RecordFails, Fails, FileTypeOK
  <1>8. FrameFails(c.fn, InputHash(c))
    BY DEF RecordFails
  <1>9. QED
    BY <1>1, <1>5, <1>6, <1>7, <1>8, FrameFailsType DEF FileTypeOK, RecordFails

LEMMA OpenType ==
  ASSUME FileTypeOK, NEW f \in Functions, LogOpen(f)
  PROVE  FileTypeOK'
  <1>1. DeepTypeOK' /\ offered' = offered
    BY FileSplit, CreateLogType DEF LogOpen, Open
  <1>2. disk' \in [Paths -> Seq(Functions \cup {Hole, Torn})]
    BY AtType DEF LogOpen, FileTypeOK
  <1>3. QED
    BY <1>1, <1>2 DEF FileTypeOK, SessionTypeOK, LogOpen

LEMMA LogFlushType ==
  ASSUME FileTypeOK, NEW f \in Functions, LogFlush(f)
  PROVE  FileTypeOK'
  <1>1. DeepTypeOK' /\ offered' = offered
    BY FileSplit, FlushLastType DEF LogFlush, Flush
  <1>2. durable'[f] \in Nat /\ Len(file'[f]) \in Nat
    BY <1>1 DEF DeepTypeOK
  <1>3. disk' \in [Paths -> Seq(Functions \cup {Hole, Torn})]
    BY <1>2, LandedType DEF LogFlush
  <1>4. synced' \in [Functions -> Nat]
    BY <1>2 DEF LogFlush, FileTypeOK
  <1>5. QED
    BY <1>1, <1>3, <1>4 DEF FileTypeOK, SessionTypeOK, LogFlush

LEMMA FlushFailsType ==
  ASSUME FileTypeOK, LogInv, NEW f \in Functions, FlushFails(f)
  PROVE  FileTypeOK'
  <1>1. DeepTypeOK /\ config' = config /\ offered' = offered
    BY FileSplit DEF FlushFails
  <1>2. DropLast(f) \/ StallFlush(f)
    BY DEF FlushFails
  <1>3. DeepTypeOK'
    BY <1>1, <1>2, DropLastType, StallFlushType
  <1>4. SessionTypeOK'
    BY <1>1, <1>3 DEF FileTypeOK, SessionTypeOK
  <1>5. durable'[f] \in Nat
    BY <1>3 DEF DeepTypeOK
  <1>6. disk' \in [Paths -> Seq(Functions \cup {Hole, Torn})]
    BY <1>5, LandedType DEF FlushFails
  <1>7. lost' \in [Functions -> SUBSET Hashes] /\ damaged' \in [Functions -> Nat \cup {None}]
    <2>1. CASE UNCHANGED <<lost, damaged>>
      BY <2>1 DEF FileTypeOK
    <2>2. CASE DropLast(f) /\ FrameFails(f, last_buffer[f][1].hash)
      <3>1. last_buffer[f] # <<>>
        BY <2>2 DEF DropLast
      <3>2. last_buffer[f][1].hash \in Hashes
        BY <1>1, <3>1, BufferedFields DEF Entry
      <3>3. QED
        BY <2>2, <3>2, FrameFailsType
    <2>3. QED
      BY <2>1, <2>2 DEF FlushFails
  <1>8. failures' \in [Functions -> Nat]
    BY AtType DEF FlushFails, Fails, FileTypeOK
  <1>9. QED
    BY <1>4, <1>6, <1>7, <1>8 DEF FileTypeOK, FlushFails

LEMMA StopType ==
  ASSUME FileTypeOK, Stop
  PROVE  FileTypeOK'
  <1> DEFINE S == Functions \cup {Hole, Torn}
  <1>1. disk' \in [Paths -> Seq(S)]
    <2>1. CASE disk' = disk
      BY <2>1 DEF FileTypeOK
    <2>2. ASSUME NEW f \in Functions,
                 disk' = [disk EXCEPT ![Path(f)] =
                            Put(@, durable[f] + 1, durable[f] + 1, Torn)]
          PROVE  disk' \in [Paths -> Seq(S)]
      <3>1. /\ Path(f) \in Paths /\ disk[Path(f)] \in Seq(S)
            /\ durable[f] + 1 \in Nat /\ disk \in [Paths -> Seq(S)]
        BY AtType DEF FileTypeOK
      <3>2. Hole \in S /\ Torn \in S
        OBVIOUS
      <3> HIDE DEF S
      <3>3. Put(disk[Path(f)], durable[f] + 1, durable[f] + 1, Torn) \in Seq(S)
        BY <3>1, <3>2, PutType
      <3>4. QED
        BY <2>2, <3>1, <3>3
    <2>3. logs \subseteq Functions
      BY FileSplit DEF DeepTypeOK
    <2>4. QED
      BY <2>1, <2>2, <2>3 DEF Stop
  <1>2. QED
    BY <1>1 DEF FileTypeOK, SessionTypeOK, DeepTypeOK, Stop, sessionVars, deepVars
-----------------------------------------------------------------------------
(***************************************************************************)
(* The steps of a log, as they look to what it captures: the state of one  *)
(* function changes in one of five ways.                                   *)
(***************************************************************************)
Same(f) ==
  /\ offered'[f] = offered[f]
  /\ seq_counter'[f] = seq_counter[f]
  /\ seen_hashes'[f] = seen_hashes[f]
  /\ last_buffer'[f] = last_buffer[f]
  /\ file'[f] = file[f]
  /\ lost'[f] = lost[f]

Others(f) == config' = config /\ \A g \in Functions \ {f} : Same(g)

\* A call with input hash h takes the next number.
Called(f, h) ==
  /\ Others(f)
  /\ offered'[f] = Append(offered[f], h)
  /\ seq_counter'[f] = seq_counter[f] + 1

\* What Decide says about the next call.
MayRecord(f) ==
  config.policy.mode \in {"first", "firstlast"} => seq_counter[f] < config.policy.n
MayPass(f) == config.policy.mode # "all" /\ ~(seq_counter[f] < config.policy.n)

\* The call leaves nothing: it is skipped, or an entry stands for it.
Passes(f, h) ==
  /\ Called(f, h)
  /\ \/ MayRecord(f) /\ h \in seen_hashes[f]
     \/ MayPass(f) /\ ~KeepsLast(config.policy)
  /\ seen_hashes'[f] = seen_hashes[f]
  /\ last_buffer'[f] = last_buffer[f]
  /\ file'[f] = file[f]
  /\ lost'[f] = lost[f]

Remembers(f, h) ==
  /\ Called(f, h)
  /\ MayRecord(f)
  /\ h \notin seen_hashes[f]
  /\ seen_hashes'[f] = seen_hashes[f] \cup {h}
  /\ last_buffer'[f] = last_buffer[f]

Writes(f, h) ==
  /\ Remembers(f, h)
  /\ lost'[f] = lost[f]
  /\ \E e \in Entry : e.hash = h /\ e.seq = seq_counter[f] /\ Appended(f, e)

Drops(f, h) ==
  /\ Remembers(f, h)
  /\ lost'[f] = lost[f] \cup {h}
  /\ file'[f] = file[f]

Buffers(f, h) ==
  /\ Called(f, h)
  /\ MayPass(f) /\ KeepsLast(config.policy)
  /\ seen_hashes'[f] = seen_hashes[f]
  /\ file'[f] = file[f]
  /\ lost'[f] = lost[f]
  /\ \E e \in Entry : e.hash = h /\ e.seq = seq_counter[f] /\ last_buffer'[f] = <<e>>

\* last_buffer is taken; its entry is written or lost.
Takes(f) ==
  /\ Others(f)
  /\ offered'[f] = offered[f]
  /\ seq_counter'[f] = seq_counter[f]
  /\ seen_hashes'[f] = seen_hashes[f]
  /\ last_buffer'[f] = <<>>
  /\ \/ /\ last_buffer[f] = <<>>
        /\ file'[f] = file[f]
        /\ lost'[f] = lost[f]
     \/ /\ last_buffer[f] # <<>>
        /\ Appended(f, last_buffer[f][1])
        /\ lost'[f] = lost[f]
     \/ /\ last_buffer[f] # <<>>
        /\ file'[f] = file[f]
        /\ lost'[f] = lost[f] \cup {last_buffer[f][1].hash}

LEMMA DecideMeans ==
  ASSUME NEW f \in Functions, NEW coin
  PROVE  /\ coin \in Draws(config.policy, seq_counter[f]) /\
              Decide(config.policy, seq_counter[f], coin) = "Record" => MayRecord(f)
         /\ Decide(config.policy, seq_counter[f], coin) = "BufferAsLast" =>
              MayPass(f) /\ KeepsLast(config.policy)
         /\ Decide(config.policy, seq_counter[f], coin) = "Skip" =>
              MayPass(f) /\ ~KeepsLast(config.policy)
  BY DEF Decide, MayRecord, MayPass

LEMMA CalledShape ==
  ASSUME FileTypeOK, NEW c \in Calls, Counted(c), config' = config,
         offered' = [offered EXCEPT ![c.fn] = Append(@, InputHash(c))],
         \A g \in Functions \ {c.fn} :
           /\ seen_hashes'[g] = seen_hashes[g]
           /\ last_buffer'[g] = last_buffer[g]
           /\ file'[g] = file[g]
           /\ lost'[g] = lost[g]
  PROVE  Called(c.fn, InputHash(c))
  <1>1. c.fn \in Functions /\ DeepTypeOK /\ SessionTypeOK
    BY FileSplit DEF Calls
  <1>2. /\ offered'[c.fn] = Append(offered[c.fn], InputHash(c))
        /\ \A g \in Functions \ {c.fn} : offered'[g] = offered[g]
    BY <1>1 DEF SessionTypeOK
  <1>3. /\ seq_counter'[c.fn] = seq_counter[c.fn] + 1
        /\ \A g \in Functions \ {c.fn} : seq_counter'[g] = seq_counter[g]
    BY <1>1 DEF DeepTypeOK, Counted
  <1>4. QED
    BY <1>2, <1>3 DEF Called, Others, Same

LEMMA RecordShape ==
  ASSUME FileTypeOK, NEW c \in Calls, LogRecord(c)
  PROVE  \/ Passes(c.fn, InputHash(c))
         \/ Writes(c.fn, InputHash(c))
         \/ Buffers(c.fn, InputHash(c))
  <1> DEFINE f == c.fn  h == InputHash(c)
  <1>1. f \in Functions /\ DeepTypeOK
    BY FileSplit DEF Calls
  <1>2. lost' = lost /\ config' = config /\ offered' = [offered EXCEPT ![f] = Append(@, h)]
    BY DEF LogRecord, Offer
  <1>3. PICK coin \in Draws(config.policy, seq_counter[f]) :
          \/ SkipCall(c, coin) \/ DedupCall(c, coin)
          \/ WriteCall(c, coin) \/ BufferCall(c, coin)
    BY DEF LogRecord, Offer
  <1>4. CASE SkipCall(c, coin) \/ DedupCall(c, coin)
    <2>1. Counted(c) /\ UNCHANGED <<seen_hashes, last_buffer, file>>
      BY <1>4 DEF SkipCall, DedupCall
    <2>2. Called(f, h)
      BY <1>2, <2>1, CalledShape
    <2>3. \/ MayRecord(f) /\ h \in seen_hashes[f]
          \/ MayPass(f) /\ ~KeepsLast(config.policy)
      BY <1>1, <1>3, <1>4, DecideMeans DEF SkipCall, DedupCall, Sampled
    <2>4. QED
      BY <1>2, <2>1, <2>2, <2>3 DEF Passes
  <1>5. CASE WriteCall(c, coin)
    <2>1. /\ Counted(c) /\ h \notin seen_hashes[f]
          /\ seen_hashes' = [seen_hashes EXCEPT ![f] = @ \cup {h}]
          /\ last_buffer' = last_buffer
      BY <1>5 DEF WriteCall
    <2>2. Appended(f, EntryOf(c, seq_counter[f]))
      BY <1>1, <1>5, WriteCallAppends
    <2>3. /\ seen_hashes'[f] = seen_hashes[f] \cup {h}
          /\ \A g \in Functions \ {f} : seen_hashes'[g] = seen_hashes[g]
      BY <1>1, <2>1 DEF DeepTypeOK
    <2>4. Called(f, h)
      BY <1>2, <2>1, <2>2, <2>3, CalledShape DEF Appended
    <2>5. EntryOf(c, seq_counter[f]) \in Entry
      BY <1>1, AtType, EntryOfType
    <2>6. EntryOf(c, seq_counter[f]).hash = h /\ EntryOf(c, seq_counter[f]).seq = seq_counter[f]
      BY DEF EntryOf
    <2>7. MayRecord(f)
      BY <1>1, <1>3, <1>5, DecideMeans DEF WriteCall, Sampled
    <2>8. QED
      BY <1>2, <2>1, <2>2, <2>3, <2>4, <2>5, <2>6, <2>7 DEF Writes, Remembers
  <1>6. CASE BufferCall(c, coin)
    <2>1. /\ Counted(c) /\ UNCHANGED <<seen_hashes, file>>
          /\ last_buffer' = [last_buffer EXCEPT ![f] = <<EntryOf(c, seq_counter[f])>>]
      BY <1>6 DEF BufferCall
    <2>2. /\ last_buffer'[f] = <<EntryOf(c, seq_counter[f])>>
          /\ \A g \in Functions \ {f} : last_buffer'[g] = last_buffer[g]
      BY <1>1, <2>1 DEF DeepTypeOK
    <2>3. Called(f, h)
      BY <1>2, <2>1, <2>2, CalledShape
    <2>4. EntryOf(c, seq_counter[f]) \in Entry
      BY <1>1, AtType, EntryOfType
    <2>5. EntryOf(c, seq_counter[f]).hash = h /\ EntryOf(c, seq_counter[f]).seq = seq_counter[f]
      BY DEF EntryOf
    <2>6. MayPass(f) /\ KeepsLast(config.policy)
      BY <1>1, <1>3, <1>6, DecideMeans DEF BufferCall, Sampled
    <2>7. QED
      BY <1>2, <2>1, <2>2, <2>3, <2>4, <2>5, <2>6 DEF Buffers
  <1>7. QED
    BY <1>3, <1>4, <1>5, <1>6

LEMMA RecordFailsShape ==
  ASSUME FileTypeOK, NEW c \in Calls, RecordFails(c)
  PROVE  Drops(c.fn, InputHash(c))
  <1> DEFINE f == c.fn  h == InputHash(c)
  <1>1. f \in Functions /\ DeepTypeOK
    BY FileSplit DEF Calls
  <1>2. /\ config' = config /\ offered' = [offered EXCEPT ![f] = Append(@, h)]
        /\ Counted(c) /\ h \notin seen_hashes[f]
        /\ seen_hashes' = [seen_hashes EXCEPT ![f] = @ \cup {h}]
        /\ lost' = [lost EXCEPT ![f] = @ \cup {h}]
        /\ file' = file /\ last_buffer' = last_buffer
    BY DEF RecordFails, FrameFails, WriteFails
  <1>3. /\ seen_hashes'[f] = seen_hashes[f] \cup {h}
        /\ \A g \in Functions \ {f} : seen_hashes'[g] = seen_hashes[g]
    BY <1>1, <1>2 DEF DeepTypeOK
  <1>4. /\ lost'[f] = lost[f] \cup {h}
        /\ \A g \in Functions \ {f} : lost'[g] = lost[g]
    BY <1>1, <1>2 DEF FileTypeOK
  <1>5. Called(f, h)
    BY <1>2, <1>3, <1>4, CalledShape
  <1>6. MayRecord(f)
    BY <1>1, DecideMeans DEF RecordFails, WriteFails, Sampled
  <1>7. QED
    BY <1>2, <1>3, <1>4, <1>5, <1>6 DEF Drops, Remembers

LEMMA TakesShape ==
  ASSUME FileTypeOK, LogInv, NEW f \in Functions, LogFlush(f) \/ FlushFails(f)
  PROVE  Takes(f)
  <1>1. DeepTypeOK
    BY FileSplit
  <1>2. /\ UNCHANGED <<config, offered, seq_counter, seen_hashes>>
        /\ last_buffer' = [last_buffer EXCEPT ![f] = <<>>]
    BY DEF LogFlush, Flush, FlushLast, FlushFails, DropLast, StallFlush
  <1>3. last_buffer'[f] = <<>> /\ \A g \in Functions \ {f} : last_buffer'[g] = last_buffer[g]
    BY <1>1, <1>2 DEF DeepTypeOK
  <1>4. CASE lost' = lost /\ file' = [file EXCEPT ![f] = @ \o last_buffer[f]]
    <2>1. CASE last_buffer[f] = <<>> /\ file' = file
      BY <1>2, <1>3, <1>4, <2>1 DEF Takes, Others, Same
    <2>2. CASE last_buffer[f] # <<>> /\ Appended(f, last_buffer[f][1])
      BY <1>2, <1>3, <1>4, <2>2 DEF Takes, Others, Same, Appended
    <2>3. QED
      BY <1>1, <1>4, <2>1, <2>2, TakenAppends
  <1>5. CASE /\ last_buffer[f] # <<>> /\ file' = file
             /\ FrameFails(f, last_buffer[f][1].hash)
    <2>1. /\ lost'[f] = lost[f] \cup {last_buffer[f][1].hash}
          /\ \A g \in Functions \ {f} : lost'[g] = lost[g]
      BY <1>5 DEF FrameFails, FileTypeOK
    <2>2. QED
      BY <1>2, <1>3, <1>5, <2>1 DEF Takes, Others, Same
  <1>6. QED
    BY <1>4, <1>5 DEF LogFlush, Flush, FlushLast, FlushFails, DropLast, StallFlush
-----------------------------------------------------------------------------
(***************************************************************************)
(* What a log captures, one function at a time.                            *)
(***************************************************************************)
FirstOf(f) ==
  /\ \A i \in DOMAIN offered[f] :
       config.policy.mode = "all" \/ i <= config.policy.n =>
         \/ Stands(f, offered[f][i], i - 1)
         \/ offered[f][i] \in lost[f]
  /\ config.policy.mode \in {"all", "first"} =>
       \A k \in DOMAIN file[f] : file[f][k].hash \notin lost[f]
  /\ config.policy.mode = "first" =>
       \A k \in DOMAIN file[f] : file[f][k].seq < config.policy.n

OrderOf(f) ==
  config.policy.mode # "prob" => \A j, k \in DOMAIN file[f] :
    j < k => file[f][j].seq < file[f][k].seq

CaptureOf(f) ==
  FirstOf(f) /\ OrderOf(f) /\ HistoryOf(f) /\ BufferedOf(f) /\ LastOf(f)

LEMMA CaptureParts ==
  /\ CaptureInv <=> \A f \in Functions : CaptureOf(f)
  /\ CaptureInv' <=> \A f \in Functions : CaptureOf(f)'
  BY DEF CaptureInv, CaptureOf, FirstCallsCaptured, FirstOf, InCallOrder, OrderOf

LEMMA SameCapture ==
  ASSUME NEW f \in Functions, CaptureOf(f), config' = config, Same(f)
  PROVE  CaptureOf(f)'
  <1>1. FirstOf(f)'
    BY DEF CaptureOf, Same, FirstOf, Stands
  <1>2. OrderOf(f)'
    BY DEF CaptureOf, Same, OrderOf
  <1>3. HistoryOf(f)'
    BY DEF CaptureOf, Same, HistoryOf
  <1>4. BufferedOf(f)'
    BY DEF CaptureOf, Same, BufferedOf
  <1>5. LastOf(f)'
    BY DEF CaptureOf, Same, LastOf, Stands
  <1>6. QED
    BY <1>1, <1>2, <1>3, <1>4, <1>5 DEF CaptureOf

\* An entry of the next file of f stands for the input hash h.
StandsThen(f, h, n) ==
  \E k \in DOMAIN file'[f] : file'[f][k].hash = h /\ file'[f][k].seq <= n

Grows(f) ==
  \A k \in DOMAIN file[f] : k \in DOMAIN file'[f] /\ file'[f][k] = file[f][k]

LEMMA StandsGrows ==
  ASSUME FileTypeOK, NEW f \in Functions, Grows(f), NEW h, NEW m \in Int,
         Stands(f, h, m), NEW n \in Int, m <= n
  PROVE  StandsThen(f, h, n)
  <1>1. PICK k \in DOMAIN file[f] : file[f][k].hash = h /\ file[f][k].seq <= m
    BY DEF Stands
  <1>2. file[f][k].seq \in Nat
    BY FileSplit, EntryFields
  <1>3. file[f][k].seq <= n
    BY <1>1, <1>2
  <1>4. QED
    BY <1>1, <1>3 DEF StandsThen, Grows

\* The history of a function one call later.
LEMMA CalledFacts ==
  ASSUME FileTypeOK, NEW f \in Functions, NEW h \in Hashes, Called(f, h),
         HistoryOf(f)
  PROVE  /\ seq_counter[f] \in Nat
         /\ Len(offered[f]) = seq_counter[f]
         /\ Len(offered'[f]) = seq_counter[f] + 1
         /\ seq_counter'[f] = seq_counter[f] + 1
         /\ offered'[f][seq_counter[f] + 1] = h
         /\ offered'[f][Len(offered'[f])] = h
         /\ offered'[f] # <<>>
         /\ DOMAIN offered'[f] = DOMAIN offered[f] \cup {seq_counter[f] + 1}
         /\ \A i \in DOMAIN offered[f] : offered'[f][i] = offered[f][i]
         /\ DOMAIN offered[f] = 1 .. seq_counter[f]
         /\ config' = config
  <1>1. offered[f] \in Seq(Hashes) /\ seq_counter[f] \in Nat
    BY AtType
  <1>2. /\ Len(offered[f]) = seq_counter[f]
        /\ offered'[f] = Append(offered[f], h)
        /\ seq_counter'[f] = seq_counter[f] + 1
        /\ config' = config
    BY DEF HistoryOf, Called, Others
  <1> DEFINE s == offered[f]  t == Append(s, h)
  <1>3. /\ Len(t) = Len(s) + 1
        /\ DOMAIN s = 1 .. Len(s)
        /\ DOMAIN t = DOMAIN s \cup {Len(s) + 1}
        /\ \A k \in DOMAIN s : t[k] = s[k]
        /\ t[Len(s) + 1] = h
    BY <1>1, AppendFacts
  <1>4. t # <<>>
    BY <1>1
  <1> HIDE DEF s, t
  <1>5. QED
    BY <1>1, <1>2, <1>3, <1>4 DEF s, t

\* If nothing is in last_buffer, its content does not matter.
LEMMA EmptyBuffer ==
  ASSUME NEW f \in Functions, last_buffer'[f] = <<>>
  PROVE  BufferedOf(f)'
  BY DEF BufferedOf

\* A call that is represented or lost when it returns.
LEMMA CallCaptured ==
  ASSUME FileTypeOK, NEW f \in Functions, NEW h \in Hashes, Called(f, h),
         CaptureOf(f), Grows(f), lost[f] \subseteq lost'[f],
         StandsThen(f, h, seq_counter[f]) \/ h \in lost'[f]
  PROVE  /\ \A i \in DOMAIN offered'[f] :
              config'.policy.mode = "all" \/ i <= config'.policy.n =>
                \/ StandsThen(f, offered'[f][i], i - 1)
                \/ offered'[f][i] \in lost'[f]
         /\ LastOf(f)'
  <1> DEFINE n == seq_counter[f]
  <1>1. /\ n \in Nat
        /\ Len(offered'[f]) = n + 1
        /\ offered'[f][n + 1] = h
        /\ offered'[f][Len(offered'[f])] = h
        /\ DOMAIN offered'[f] = DOMAIN offered[f] \cup {n + 1}
        /\ \A i \in DOMAIN offered[f] : offered'[f][i] = offered[f][i]
        /\ DOMAIN offered[f] = 1 .. n
        /\ config' = config
    BY CalledFacts DEF CaptureOf
  <1>2. StandsThen(f, h, n) \/ h \in lost'[f]
    OBVIOUS
  <1> HIDE DEF n
  <1>3. ASSUME NEW i \in DOMAIN offered'[f],
               config'.policy.mode = "all" \/ i <= config'.policy.n
        PROVE  \/ StandsThen(f, offered'[f][i], i - 1)
               \/ offered'[f][i] \in lost'[f]
    <2>1. CASE i = n + 1
      <3>1. i - 1 = n /\ offered'[f][i] = h
        BY <1>1, <2>1
      <3>2. QED
        BY <1>2, <3>1
    <2>2. CASE i \in DOMAIN offered[f]
      <3>1. /\ i \in Nat
            /\ \/ Stands(f, offered[f][i], i - 1)
               \/ offered[f][i] \in lost[f]
        BY <1>1, <1>3, <2>2 DEF CaptureOf, FirstOf
      <3>2. i - 1 \in Int
        BY <3>1
      <3>3. offered'[f][i] = offered[f][i]
        BY <1>1, <2>2
      <3>4. CASE Stands(f, offered[f][i], i - 1)
        <4>1. StandsThen(f, offered[f][i], i - 1)
          BY <3>2, <3>4, StandsGrows
        <4>2. QED
          BY <3>3, <4>1
      <3>5. QED
        BY <3>1, <3>3, <3>4
    <2>3. QED
      BY <1>1, <2>1, <2>2
  <1>4. LastOf(f)'
    <2>1. Len(offered'[f]) - 1 = n
      BY <1>1
    <2>2. QED
      BY <1>1, <1>2, <2>1 DEF LastOf, Stands, StandsThen
  <1>5. QED
    BY <1>3, <1>4

\* FirstOf of the next state, from its parts.
LEMMA FirstThen ==
  ASSUME NEW f \in Functions,
         \A i \in DOMAIN offered'[f] :
           config'.policy.mode = "all" \/ i <= config'.policy.n =>
             \/ StandsThen(f, offered'[f][i], i - 1)
             \/ offered'[f][i] \in lost'[f],
         config'.policy.mode \in {"all", "first"} =>
           \A k \in DOMAIN file'[f] : file'[f][k].hash \notin lost'[f],
         config'.policy.mode = "first" =>
           \A k \in DOMAIN file'[f] : file'[f][k].seq < config'.policy.n
  PROVE  FirstOf(f)'
  BY DEF FirstOf, Stands, StandsThen

\* Where a call may be recorded, mode firstlast keeps no last call yet.
LEMMA NoneKeptYet ==
  ASSUME FileTypeOK, NEW f \in Functions, CaptureOf(f), MayRecord(f)
  PROVE  config.policy.mode = "firstlast" => last_buffer[f] = <<>>
  <1>1. SUFFICES ASSUME config.policy.mode = "firstlast", last_buffer[f] # <<>>
                 PROVE  FALSE
    OBVIOUS
  <1>2. seq_counter[f] < config.policy.n /\ seq_counter[f] > config.policy.n
    BY <1>1 DEF CaptureOf, BufferedOf, MayRecord
  <1>3. config.policy.n \in Nat /\ seq_counter[f] \in Nat
    BY FileSplit, AtType DEF DeepTypeOK, Config, SamplePolicy
  <1>4. QED
    BY <1>2, <1>3

LEMMA PassesCapture ==
  ASSUME FileTypeOK, LogInv, NEW f \in Functions, NEW h \in Hashes,
         Passes(f, h), CaptureOf(f)
  PROVE  CaptureOf(f)'
  <1> DEFINE n == seq_counter[f]
  <1>1. /\ Called(f, h) /\ Grows(f)
        /\ seen_hashes'[f] = seen_hashes[f]
        /\ last_buffer'[f] = last_buffer[f]
        /\ file'[f] = file[f]
        /\ lost'[f] = lost[f]
    BY DEF Passes, Grows
  <1>2. /\ n \in Nat
        /\ Len(offered'[f]) = n + 1 /\ seq_counter'[f] = n + 1
        /\ offered'[f] # <<>> /\ config' = config
        /\ offered'[f][n + 1] = h
        /\ DOMAIN offered'[f] = DOMAIN offered[f] \cup {n + 1}
        /\ \A i \in DOMAIN offered[f] : offered'[f][i] = offered[f][i]
        /\ DOMAIN offered[f] = 1 .. n
    BY <1>1, CalledFacts DEF CaptureOf
  <1>3. HistoryOf(f)'
    BY <1>1, <1>2 DEF HistoryOf, CaptureOf
  <1>4. OrderOf(f)'
    BY <1>1, <1>2 DEF OrderOf, CaptureOf
  <1>5. /\ config'.policy.mode \in {"all", "first"} =>
             \A k \in DOMAIN file'[f] : file'[f][k].hash \notin lost'[f]
        /\ config'.policy.mode = "first" =>
             \A k \in DOMAIN file'[f] : file'[f][k].seq < config'.policy.n
    BY <1>1, <1>2 DEF FirstOf, CaptureOf
  <1>6. CASE MayRecord(f) /\ h \in seen_hashes[f]
    <2>1. StandsThen(f, h, n) \/ h \in lost'[f]
      <3>1. CASE \E k \in DOMAIN file[f] : file[f][k].hash = h
        <4>1. PICK k \in DOMAIN file[f] : file[f][k].hash = h
          BY <3>1
        <4>2. file[f][k].seq \in Nat /\ file[f][k].seq < n
          BY FileSplit, EntryFields DEF LogInv
        <4>3. file[f][k].seq <= n
          BY <1>2, <4>2
        <4>4. QED
          BY <1>1, <4>1, <4>3 DEF StandsThen
      <3>2. QED
        BY <1>1, <1>6, <3>1 DEF CaptureOf, HistoryOf
    <2>2. BufferedOf(f)'
      <3>1. config.policy.mode = "firstlast" => last_buffer[f] = <<>>
        BY <1>6, NoneKeptYet
      <3>2. QED
        BY <1>1, <1>2, <3>1 DEF BufferedOf
    <2>3. FirstOf(f)' /\ LastOf(f)'
      BY <1>1, <1>5, <2>1, CallCaptured, FirstThen
    <2>4. QED
      BY <1>3, <1>4, <2>2, <2>3 DEF CaptureOf
  <1>7. CASE MayPass(f) /\ ~KeepsLast(config.policy)
    <2>1. BufferedOf(f)' /\ LastOf(f)'
      BY <1>1, <1>2, <1>7 DEF BufferedOf, LastOf, KeepsLast
    <2>2. FirstOf(f)'
      <3>1. config.policy.n \in Nat
        BY FileSplit DEF DeepTypeOK, Config, SamplePolicy
      <3>2. config.policy.mode # "all" /\ ~(n + 1 <= config.policy.n)
        BY <1>2, <1>7, <3>1 DEF MayPass
      <3> HIDE DEF n
      <3>3. ASSUME NEW i \in DOMAIN offered'[f],
                   config'.policy.mode = "all" \/ i <= config'.policy.n
            PROVE  \/ StandsThen(f, offered'[f][i], i - 1)
                   \/ offered'[f][i] \in lost'[f]
        <4>1. i # n + 1
          BY <1>2, <3>2, <3>3
        <4>2. i \in DOMAIN offered[f] /\ offered'[f][i] = offered[f][i]
          BY <1>2, <4>1
        <4>3. \/ Stands(f, offered[f][i], i - 1)
              \/ offered[f][i] \in lost[f]
          BY <1>2, <3>3, <4>2 DEF CaptureOf, FirstOf
        <4>4. Stands(f, offered[f][i], i - 1) => StandsThen(f, offered[f][i], i - 1)
          BY <1>1 DEF Stands, StandsThen
        <4>5. QED
          BY <1>1, <4>2, <4>3, <4>4
      <3>4. QED
        BY <1>5, <3>3, FirstThen
    <2>3. QED
      BY <1>3, <1>4, <2>1, <2>2 DEF CaptureOf
  <1>8. QED
    BY <1>6, <1>7 DEF Passes

LEMMA WritesCapture ==
  ASSUME FileTypeOK, LogInv, NEW f \in Functions, NEW h \in Hashes,
         Writes(f, h), CaptureOf(f)
  PROVE  CaptureOf(f)'
  <1> DEFINE n == seq_counter[f]
             m == Len(file[f]) + 1
  <1>1. /\ Called(f, h) /\ MayRecord(f) /\ h \notin seen_hashes[f]
        /\ seen_hashes'[f] = seen_hashes[f] \cup {h}
        /\ last_buffer'[f] = last_buffer[f]
        /\ lost'[f] = lost[f]
    BY DEF Writes, Remembers
  <1>2. /\ n \in Nat
        /\ Len(offered'[f]) = n + 1 /\ seq_counter'[f] = n + 1
        /\ config' = config
    BY <1>1, CalledFacts DEF CaptureOf
  <1>3. PICK e \in Entry : e.hash = h /\ e.seq = n /\ Appended(f, e)
    BY DEF Writes
  <1>4. /\ DOMAIN file'[f] = DOMAIN file[f] \cup {m}
        /\ m \notin DOMAIN file[f]
        /\ \A k \in DOMAIN file[f] : file'[f][k] = file[f][k]
        /\ file'[f][m].hash = h /\ file'[f][m].seq = n
        /\ Grows(f)
    BY <1>3 DEF Appended, Grows
  <1>5. \A k \in DOMAIN file[f] : /\ k \in Nat /\ k < m
                                  /\ file[f][k].seq \in Nat /\ file[f][k].seq < n
    BY FileSplit, EntryFields, AtType DEF LogInv
  <1> HIDE DEF n, m
  <1>6. HistoryOf(f)'
    <2>1. \A x \in seen_hashes'[f] :
            x \in lost'[f] \/ \E k \in DOMAIN file'[f] : file'[f][k].hash = x
      BY <1>1, <1>4 DEF CaptureOf, HistoryOf
    <2>2. ~KeepsLast(config.policy) =>
            \A k \in DOMAIN file'[f] : file'[f][k].hash \in seen_hashes'[f]
      BY <1>1, <1>4 DEF CaptureOf, HistoryOf
    <2>3. QED
      BY <1>1, <1>2, <2>1, <2>2 DEF CaptureOf, HistoryOf
  <1>7. OrderOf(f)'
    <2>1. SUFFICES ASSUME config.policy.mode # "prob",
                          NEW j \in DOMAIN file'[f], NEW k \in DOMAIN file'[f], j < k
                   PROVE  file'[f][j].seq < file'[f][k].seq
      BY <1>2 DEF OrderOf
    <2>2. CASE k = m
      <3>1. j # m
        BY <1>4, <2>1, <2>2, AtType DEF m
      <3>2. QED
        BY <1>4, <1>5, <2>2, <3>1
    <2>3. CASE k # m
      <3>1. k \in DOMAIN file[f]
        BY <1>4, <2>3
      <3>2. j \in DOMAIN file[f]
        <4>1. j # m
          BY <1>5, <2>1, <3>1, AtType DEF m
        <4>2. QED
          BY <1>4, <4>1
      <3>3. QED
        BY <1>4, <2>1, <3>1, <3>2 DEF CaptureOf, OrderOf
    <2>4. QED
      BY <2>2, <2>3
  <1>8. BufferedOf(f)'
    BY <1>1, <1>2, NoneKeptYet DEF BufferedOf
  <1>9. FirstOf(f)' /\ LastOf(f)'
    <2>1. StandsThen(f, h, n)
      BY <1>2, <1>4 DEF StandsThen
    <2>2. config'.policy.mode \in {"all", "first"} =>
            \A k \in DOMAIN file'[f] : file'[f][k].hash \notin lost'[f]
      BY <1>1, <1>2, <1>4 DEF CaptureOf, FirstOf, HistoryOf, KeepsLast
    <2>3. config'.policy.mode = "first" =>
            \A k \in DOMAIN file'[f] : file'[f][k].seq < config'.policy.n
      BY <1>1, <1>2, <1>4 DEF CaptureOf, FirstOf, MayRecord, n
    <2>4. QED
      BY <1>1, <1>4, <2>1, <2>2, <2>3, CallCaptured, FirstThen DEF n
  <1>10. QED
    BY <1>6, <1>7, <1>8, <1>9 DEF CaptureOf

LEMMA DropsCapture ==
  ASSUME FileTypeOK, NEW f \in Functions, NEW h \in Hashes,
         Drops(f, h), CaptureOf(f)
  PROVE  CaptureOf(f)'
  <1>1. /\ Called(f, h) /\ MayRecord(f) /\ h \notin seen_hashes[f]
        /\ seen_hashes'[f] = seen_hashes[f] \cup {h}
        /\ last_buffer'[f] = last_buffer[f]
        /\ file'[f] = file[f] /\ Grows(f)
        /\ lost'[f] = lost[f] \cup {h}
    BY DEF Drops, Remembers, Grows
  <1>2. /\ Len(offered'[f]) = seq_counter'[f]
        /\ config' = config
    BY <1>1, CalledFacts DEF CaptureOf
  <1>3. HistoryOf(f)'
    BY <1>1, <1>2 DEF CaptureOf, HistoryOf
  <1>4. OrderOf(f)'
    BY <1>1, <1>2 DEF CaptureOf, OrderOf
  <1>5. BufferedOf(f)'
    BY <1>1, <1>2, NoneKeptYet DEF BufferedOf
  <1>6. FirstOf(f)' /\ LastOf(f)'
    <2>1. config'.policy.mode \in {"all", "first"} =>
            \A k \in DOMAIN file'[f] : file'[f][k].hash \notin lost'[f]
      BY <1>1, <1>2 DEF CaptureOf, FirstOf, HistoryOf, KeepsLast
    <2>2. config'.policy.mode = "first" =>
            \A k \in DOMAIN file'[f] : file'[f][k].seq < config'.policy.n
      BY <1>1, <1>2 DEF CaptureOf, FirstOf
    <2>3. QED
      BY <1>1, <2>1, <2>2, CallCaptured, FirstThen
  <1>7. QED
    BY <1>3, <1>4, <1>5, <1>6 DEF CaptureOf

LEMMA BuffersCapture ==
  ASSUME FileTypeOK, NEW f \in Functions, NEW h \in Hashes,
         Buffers(f, h), CaptureOf(f)
  PROVE  CaptureOf(f)'
  <1> DEFINE n == seq_counter[f]
  <1>1. /\ Called(f, h) /\ MayPass(f) /\ KeepsLast(config.policy)
        /\ seen_hashes'[f] = seen_hashes[f]
        /\ file'[f] = file[f]
        /\ lost'[f] = lost[f]
    BY DEF Buffers
  <1>2. /\ n \in Nat
        /\ Len(offered'[f]) = n + 1 /\ seq_counter'[f] = n + 1
        /\ offered'[f] # <<>> /\ config' = config
        /\ offered'[f][Len(offered'[f])] = h
        /\ DOMAIN offered'[f] = DOMAIN offered[f] \cup {n + 1}
        /\ \A i \in DOMAIN offered[f] : offered'[f][i] = offered[f][i]
        /\ DOMAIN offered[f] = 1 .. n
    BY <1>1, CalledFacts DEF CaptureOf
  <1>3. PICK e \in Entry : e.hash = h /\ e.seq = n /\ last_buffer'[f] = <<e>>
    BY DEF Buffers
  <1>4. last_buffer'[f] # <<>> /\ last_buffer'[f][1].hash = h /\ last_buffer'[f][1].seq = n
    BY <1>3
  <1>5. config.policy.n \in Nat /\ ~(n < config.policy.n) /\ config.policy.mode # "all"
    BY <1>1, FileSplit DEF DeepTypeOK, Config, SamplePolicy, MayPass
  <1> HIDE DEF n
  <1>6. n + 1 > config.policy.n /\ n + 1 - 1 = n
    BY <1>2, <1>5
  <1>7. HistoryOf(f)'
    BY <1>1, <1>2 DEF CaptureOf, HistoryOf
  <1>8. OrderOf(f)'
    BY <1>1, <1>2 DEF CaptureOf, OrderOf
  <1>9. BufferedOf(f)'
    BY <1>2, <1>4, <1>6 DEF BufferedOf
  <1>10. LastOf(f)'
    BY <1>2, <1>4, <1>6 DEF LastOf
  <1>11. FirstOf(f)'
    <2>1. ASSUME NEW i \in DOMAIN offered'[f], i <= config.policy.n
          PROVE  \/ StandsThen(f, offered'[f][i], i - 1)
                 \/ offered'[f][i] \in lost'[f]
      <3>1. i # n + 1
        BY <1>2, <1>5, <1>6, <2>1
      <3>2. i \in DOMAIN offered[f] /\ offered'[f][i] = offered[f][i]
        BY <1>2, <3>1
      <3>3. \/ Stands(f, offered[f][i], i - 1)
            \/ offered[f][i] \in lost[f]
        BY <2>1, <3>2 DEF CaptureOf, FirstOf
      <3>4. Stands(f, offered[f][i], i - 1) => StandsThen(f, offered[f][i], i - 1)
        BY <1>1 DEF Stands, StandsThen
      <3>5. QED
        BY <1>1, <3>2, <3>3, <3>4
    <2>2. config.policy.mode # "first"
      BY <1>1 DEF KeepsLast
    <2>3. QED
      BY <1>2, <1>5, <2>1, <2>2, FirstThen
  <1>12. QED
    BY <1>7, <1>8, <1>9, <1>10, <1>11 DEF CaptureOf

LEMMA TakesCapture ==
  ASSUME FileTypeOK, LogInv, NEW f \in Functions, Takes(f), CaptureOf(f)
  PROVE  CaptureOf(f)'
  <1> DEFINE b == last_buffer[f][1]
             n == Len(offered[f]) - 1
             last == offered[f][Len(offered[f])]
  <1>1. /\ offered'[f] = offered[f]
        /\ seq_counter'[f] = seq_counter[f]
        /\ seen_hashes'[f] = seen_hashes[f]
        /\ last_buffer'[f] = <<>>
        /\ config' = config
    BY DEF Takes, Others
  <1>2. CASE last_buffer[f] = <<>>
    BY <1>1, <1>2, SameCapture DEF Takes, Same
  <1>3. CASE last_buffer[f] # <<>>
    <2>1. KeepsLast(config.policy)
      BY <1>3 DEF CaptureOf, HistoryOf
    <2>2. /\ Grows(f) /\ lost[f] \subseteq lost'[f]
          /\ \/ Appended(f, b)
             \/ file'[f] = file[f] /\ b.hash \in lost'[f]
      BY <1>3 DEF Takes, Grows, Appended
    <2>3. /\ b \in Entry /\ b.seq \in Nat
          /\ \A k \in DOMAIN file[f] : /\ file[f][k].seq \in Nat
                                        /\ file[f][k].seq < seq_counter[f]
                                        /\ file[f][k].seq # b.seq
      BY <1>3, FileSplit, EntryFields, BufferedFields DEF LogInv
    <2>4. /\ Len(offered[f]) = seq_counter[f] /\ seq_counter[f] \in Nat
          /\ n = seq_counter[f] - 1 /\ n \in Int
      BY AtType DEF CaptureOf, HistoryOf
    <2>5. Appended(f, b) =>
            /\ DOMAIN file'[f] = DOMAIN file[f] \cup {Len(file[f]) + 1}
            /\ \A k \in DOMAIN file[f] : file'[f][k] = file[f][k] /\ k < Len(file[f]) + 1
            /\ \A k \in DOMAIN file'[f] : k \in Nat
            /\ file'[f][Len(file[f]) + 1] = b
      BY AtType DEF Appended
    <2> HIDE DEF b, n, last
    <2>6. HistoryOf(f)'
      BY <1>1, <2>1, <2>2 DEF CaptureOf, HistoryOf, Grows
    <2>7. OrderOf(f)'
      <3>1. CASE file'[f] = file[f]
        BY <1>1, <3>1 DEF CaptureOf, OrderOf
      <3>2. CASE Appended(f, b) /\ config.policy.mode = "firstlast"
        <4>1. b.seq = n
          BY <1>3, <3>2 DEF CaptureOf, BufferedOf, b, n
        <4>2. \A k \in DOMAIN file[f] : file[f][k].seq < b.seq
          BY <2>3, <2>4, <4>1
        <4>3. SUFFICES ASSUME NEW j \in DOMAIN file'[f], NEW k \in DOMAIN file'[f], j < k
                       PROVE  file'[f][j].seq < file'[f][k].seq
          BY DEF OrderOf
        <4> DEFINE m == Len(file[f]) + 1
        <4>4. m \in Nat
          BY AtType
        <4>5. /\ DOMAIN file'[f] = DOMAIN file[f] \cup {m}
              /\ \A i \in DOMAIN file[f] : file'[f][i] = file[f][i] /\ i < m
              /\ j \in Nat /\ k \in Nat
              /\ file'[f][m] = b
          BY <2>5, <3>2
        <4> HIDE DEF m
        <4>6. j # m
          BY <4>3, <4>4, <4>5
        <4>7. CASE k = m
          BY <4>2, <4>5, <4>6, <4>7
        <4>8. CASE k # m
          BY <3>2, <4>3, <4>5, <4>6, <4>8 DEF CaptureOf, OrderOf
        <4>9. QED
          BY <4>7, <4>8
      <3>3. CASE config.policy.mode = "prob"
        BY <1>1, <3>3 DEF OrderOf
      <3>4. QED
        BY <2>1, <2>2, <3>1, <3>2, <3>3 DEF KeepsLast
    <2>8. FirstOf(f)'
      <3>1. ASSUME NEW i \in DOMAIN offered[f],
                   config.policy.mode = "all" \/ i <= config.policy.n
            PROVE  \/ StandsThen(f, offered[f][i], i - 1)
                   \/ offered[f][i] \in lost'[f]
        <4>1. \/ Stands(f, offered[f][i], i - 1)
              \/ offered[f][i] \in lost[f]
          BY <3>1 DEF CaptureOf, FirstOf
        <4>2. Stands(f, offered[f][i], i - 1) => StandsThen(f, offered[f][i], i - 1)
          BY <2>2 DEF Stands, StandsThen, Grows
        <4>3. QED
          BY <2>2, <4>1, <4>2
      <3>2. config.policy.mode \notin {"all", "first"}
        BY <2>1 DEF KeepsLast
      <3>3. QED
        BY <1>1, <3>1, <3>2, FirstThen
    <2>9. LastOf(f)'
      <3>1. SUFFICES ASSUME offered[f] # <<>>
                     PROVE  StandsThen(f, last, n) \/ last \in lost'[f]
        BY <1>1 DEF LastOf, Stands, StandsThen, last, n
      <3>2. CASE Stands(f, last, n)
        BY <2>2, <3>2 DEF Stands, StandsThen, Grows
      <3>3. CASE b.hash = last /\ b.seq = n
        <4>1. CASE Appended(f, b)
          <5>1. file'[f][Len(file[f]) + 1].seq <= n
            BY <2>3, <2>5, <3>3, <4>1
          <5>2. QED
            BY <2>5, <3>3, <4>1, <5>1 DEF StandsThen
        <4>2. QED
          BY <2>2, <3>3, <4>1
      <3>4. \/ Stands(f, last, n) \/ last \in lost[f]
            \/ b.hash = last /\ b.seq = n
        BY <2>1, <3>1 DEF CaptureOf, LastOf, last, n, b
      <3>5. QED
        BY <2>2, <3>2, <3>3, <3>4
    <2>10. QED
      BY <1>1, <2>6, <2>7, <2>8, <2>9, EmptyBuffer DEF CaptureOf
  <1>4. QED
    BY <1>2, <1>3
-----------------------------------------------------------------------------
(***************************************************************************)
(* A step of the logs keeps types, LogInv and CaptureInv.                  *)
(***************************************************************************)
LEMMA LogStepType ==
  ASSUME FileTypeOK, LogInv, LogStep
  PROVE  FileTypeOK'
  BY OpenType, LogFlushType, FlushFailsType, RecordType, RecordFailsType, StopType
     DEF LogStep

LEMMA LogStepLog ==
  ASSUME FileTypeOK, LogInv, LogStep
  PROVE  LogInv'
  <1>1. DeepTypeOK
    BY FileSplit
  <1>2. ASSUME NEW f \in Functions, LogOpen(f) PROVE LogInv'
    BY <1>2, LogFrame DEF LogOpen, Open, CreateLog
  <1>3. ASSUME NEW f \in Functions, LogFlush(f) \/ FlushFails(f) PROVE LogInv'
    <2>1. /\ \/ file' = [file EXCEPT ![f] = @ \o last_buffer[f]]
             \/ file' = file
          /\ last_buffer' = [last_buffer EXCEPT ![f] = <<>>]
          /\ seq_counter' = seq_counter
      BY <1>3 DEF LogFlush, Flush, FlushLast, FlushFails, DropLast, StallFlush
    <2>2. QED
      BY <1>1, <2>1, TakenLog
  <1>4. ASSUME NEW c \in Calls, LogRecord(c) PROVE LogInv'
    BY <1>1, <1>4, WriteCallLog, BufferCallLog, PassedCallLog DEF LogRecord, Offer
  <1>5. ASSUME NEW c \in Calls, RecordFails(c) PROVE LogInv'
    BY <1>1, <1>5, CountedLog DEF RecordFails, WriteFails
  <1>6. CASE Stop
    BY <1>6, LogFrame DEF Stop, sessionVars, deepVars
  <1>7. QED
    BY <1>2, <1>3, <1>4, <1>5, <1>6 DEF LogStep

\* Where one function's part changes as shown above, the others' stays.
LEMMA OneCapture ==
  ASSUME CaptureInv, NEW f \in Functions, Others(f), CaptureOf(f)'
  PROVE  CaptureInv'
  <1>1. ASSUME NEW g \in Functions PROVE CaptureOf(g)'
    <2>1. CASE g = f
      BY <2>1
    <2>2. CASE g # f
      <3>1. CaptureOf(g)
        BY CaptureParts
      <3>2. config' = config /\ Same(g)
        BY <2>2 DEF Others
      <3>3. QED
        BY <3>1, <3>2, SameCapture
    <2>3. QED
      BY <2>1, <2>2
  <1>2. QED
    BY <1>1, CaptureParts

LEMMA FrameCapture ==
  ASSUME CaptureInv, UNCHANGED <<config, offered, seq_counter, seen_hashes,
                                 last_buffer, file, lost>>
  PROVE  CaptureInv'
  <1>1. PICK f \in Functions : TRUE
    BY FunctionsNonempty
  <1>2. \A g \in Functions : Same(g)
    BY DEF Same
  <1>3. Others(f)
    BY <1>2 DEF Others
  <1>4. CaptureOf(f)'
    BY <1>2, CaptureParts, SameCapture
  <1>5. QED
    BY <1>1, <1>3, <1>4, OneCapture

LEMMA LogStepCapture ==
  ASSUME FileTypeOK, LogInv, CaptureInv, LogStep
  PROVE  CaptureInv'
  <1>1. \A f \in Functions : CaptureOf(f)
    BY CaptureParts
  <1>2. ASSUME NEW f \in Functions, LogOpen(f) PROVE CaptureInv'
    BY <1>2, FrameCapture DEF LogOpen, Open, CreateLog
  <1>3. ASSUME NEW f \in Functions, LogFlush(f) \/ FlushFails(f) PROVE CaptureInv'
    <2>1. Takes(f)
      BY <1>3, TakesShape
    <2>2. CaptureOf(f)' /\ Others(f)
      BY <1>1, <2>1, TakesCapture DEF Takes
    <2>3. QED
      BY <2>2, OneCapture
  <1>4. ASSUME NEW c \in Calls, LogRecord(c) \/ RecordFails(c) PROVE CaptureInv'
    <2> DEFINE f == c.fn  h == InputHash(c)
    <2>1. f \in Functions /\ h \in Hashes
      BY DEF Calls, Hashes
    <2>2. Passes(f, h) \/ Writes(f, h) \/ Buffers(f, h) \/ Drops(f, h)
      BY <1>4, RecordShape, RecordFailsShape
    <2>3. Others(f)
      BY <2>2 DEF Passes, Writes, Drops, Remembers, Buffers, Called
    <2> HIDE DEF f, h
    <2>4. CaptureOf(f)'
      BY <1>1, <2>1, <2>2, PassesCapture, WritesCapture, BuffersCapture, DropsCapture
    <2>5. QED
      BY <2>1, <2>3, <2>4, OneCapture
  <1>5. CASE Stop
    BY <1>5, FrameCapture DEF Stop, sessionVars, deepVars
  <1>6. QED
    BY <1>2, <1>3, <1>4, <1>5 DEF LogStep
-----------------------------------------------------------------------------
(***************************************************************************)
(* The steps of a log, as they look to its file: pieces leave the          *)
(* BufWriter, an entry is appended, or a half-written frame ends what is   *)
(* sound of the file.                                                      *)
(***************************************************************************)
Moves(f) ==
  /\ alive /\ alive' = alive
  /\ logs' = logs /\ f \in logs
  /\ \A g \in Functions \ {f} :
       /\ durable'[g] = durable[g] /\ file'[g] = file[g]
       /\ last_buffer'[g] = last_buffer[g]
       /\ synced'[g] = synced[g] /\ damaged'[g] = damaged[g]
  /\ durable'[f] \in durable[f] .. Pieces(Len(file'[f]))
  /\ \/ synced'[f] = synced[f]
     \/ synced'[f] = Len(file'[f]) /\ durable'[f] = Pieces(Len(file'[f]))
  /\ \/ file'[f] = file[f] /\ damaged'[f] = damaged[f]
     \/ file'[f] = file[f] /\ damaged[f] = None /\ damaged'[f] = Len(file[f])
     \/ damaged'[f] = damaged[f] /\ \E e \in Entry : Appended(f, e)
  /\ Landed(f)

LEMMA AppendedLen ==
  ASSUME FileTypeOK, FileTypeOK', NEW f \in Functions, NEW e, Appended(f, e)
  PROVE  Len(file'[f]) = Len(file[f]) + 1
  <1> DEFINE s == file[f]  t == file'[f]
  <1>1. s \in Seq(Entry)
    BY AtType
  <1>2. t \in Seq(Entry)
    BY DEF FileTypeOK, SessionTypeOK, DeepTypeOK
  <1>3. DOMAIN t = DOMAIN s \cup {Len(s) + 1}
    BY DEF Appended
  <1> HIDE DEF s, t
  <1>4. /\ DOMAIN s = 1 .. Len(s) /\ Len(s) \in Nat
        /\ DOMAIN t = 1 .. Len(t) /\ Len(t) \in Nat
    BY <1>1, <1>2
  <1> DEFINE m == Len(s)  n == Len(t)
  <1> HIDE DEF m, n
  <1>5. m \in Nat /\ n \in Nat /\ 1 .. n = 1 .. m \cup {m + 1}
    BY <1>3, <1>4 DEF m, n
  <1>6. m + 1 \in 1 .. n
    BY <1>5
  <1>7. n \in 1 .. m \cup {m + 1}
    BY <1>5, <1>6
  <1>8. n = m + 1
    BY <1>5, <1>6, <1>7
  <1>9. QED
    BY <1>8 DEF s, t, m, n

LEMMA RecordMoves ==
  ASSUME FileTypeOK, FileTypeOK', MeasureInv, NEW c \in Calls, LogRecord(c)
  PROVE  Moves(c.fn)
  <1> DEFINE f == c.fn
  <1>1. f \in Functions /\ DeepTypeOK
    BY FileSplit DEF Calls
  <1>2. /\ f \in logs /\ logs' = logs /\ alive /\ Landed(f)
        /\ UNCHANGED <<alive, synced, damaged>>
    BY DEF LogRecord, Offer, SkipCall, DedupCall, WriteCall, BufferCall
  <1>3. /\ durable[f] \in Nat /\ Len(file[f]) \in Nat
        /\ durable[f] <= Pieces(Len(file[f]))
    BY <1>1, AtType DEF MeasureInv
  <1>4. CASE /\ UNCHANGED <<file, durable>>
             /\ \A g \in Functions \ {f} : last_buffer'[g] = last_buffer[g]
    <2>1. durable'[f] \in durable[f] .. Pieces(Len(file'[f]))
      BY <1>3, <1>4 DEF Pieces
    <2>2. QED
      BY <1>2, <1>4, <2>1 DEF Moves
  <1>5. ASSUME NEW coin, WriteCall(c, coin)
        PROVE  Moves(f)
    <2>1. Appended(f, EntryOf(c, seq_counter[f]))
      BY <1>1, <1>5, WriteCallAppends
    <2>2. EntryOf(c, seq_counter[f]) \in Entry
      BY <1>1, AtType, EntryOfType
    <2>3. PICK d \in Spills(f) : durable' = [durable EXCEPT ![f] = d]
      BY <1>5 DEF WriteCall
    <2>4. durable'[f] = d /\ \A g \in Functions \ {f} : durable'[g] = durable[g]
      BY <1>1, <2>3 DEF DeepTypeOK
    <2>5. Len(file'[f]) = Len(file[f]) + 1
      BY <1>1, <2>1, AppendedLen
    <2>6. d \in durable[f] .. Pieces(Len(file'[f]))
      <3> DEFINE l == Len(file[f])  q == durable[f]
      <3>1. l \in Nat /\ q \in Nat /\ q <= 1 + 2 * l
        BY <1>3 DEF Pieces
      <3>2. d \in {q, 1 + 2 * l, 1 + 2 * l + 1, 1 + 2 * l + 2}
        BY <2>3 DEF Spills, Pieces
      <3> HIDE DEF l, q
      <3>3. d \in q .. (1 + 2 * (l + 1))
        BY <3>1, <3>2
      <3>4. QED
        BY <2>5, <3>3 DEF Pieces, l, q
    <2>7. \A g \in Functions \ {f} : last_buffer'[g] = last_buffer[g] /\ file'[g] = file[g]
      BY <1>5, <2>1 DEF WriteCall, Appended
    <2>8. QED
      BY <1>2, <2>1, <2>2, <2>4, <2>6, <2>7 DEF Moves
  <1>6. ASSUME NEW coin, SkipCall(c, coin) \/ DedupCall(c, coin) \/ BufferCall(c, coin)
        PROVE  Moves(f)
    BY <1>1, <1>4, <1>6 DEF SkipCall, DedupCall, BufferCall, DeepTypeOK
  <1>7. QED
    BY <1>5, <1>6 DEF LogRecord, Offer

\* A write that fails takes pieces to the file, or none, and may damage it.
LEMMA FrameFailsMoves ==
  ASSUME FileTypeOK, NEW f \in Functions, NEW h, FrameFails(f, h)
  PROVE  /\ \A g \in Functions \ {f} : damaged'[g] = damaged[g]
         /\ \/ damaged'[f] = damaged[f]
            \/ damaged[f] = None /\ damaged'[f] = Len(file[f])
  <1>1. damaged \in [Functions -> Nat \cup {None}]
    BY DEF FileTypeOK
  <1>2. CASE damaged' = damaged
    BY <1>2 DEF FrameFails
  <1>3. CASE damaged' = [damaged EXCEPT ![f] = IF @ = None THEN Len(file[f]) ELSE @]
    BY <1>1, <1>3 DEF FrameFails
  <1>4. QED
    BY <1>2, <1>3 DEF FrameFails

LEMMA DurableAt ==
  ASSUME FileTypeOK, NEW f \in Functions, NEW S,
         \E d \in S : durable' = [durable EXCEPT ![f] = d]
  PROVE  durable'[f] \in S /\ \A g \in Functions \ {f} : durable'[g] = durable[g]
  BY FileSplit DEF DeepTypeOK

LEMMA RecordFailsMoves ==
  ASSUME FileTypeOK, NEW c \in Calls, RecordFails(c)
  PROVE  Moves(c.fn)
  <1> DEFINE f == c.fn
  <1>1. f \in Functions
    BY DEF Calls
  <1>2. /\ f \in logs /\ logs' = logs /\ alive /\ Landed(f)
        /\ UNCHANGED <<alive, synced, last_buffer, file>>
        /\ FrameFails(f, InputHash(c))
    BY DEF RecordFails, WriteFails
  <1>3. /\ durable'[f] \in durable[f] .. Pieces(Len(file'[f]))
        /\ \A g \in Functions \ {f} : durable'[g] = durable[g]
    BY <1>1, <1>2, DurableAt DEF RecordFails, WriteFails
  <1> HIDE DEF f
  <1>4. /\ \A g \in Functions \ {f} : damaged'[g] = damaged[g]
        /\ \/ damaged'[f] = damaged[f]
           \/ damaged[f] = None /\ damaged'[f] = Len(file[f])
    BY <1>1, <1>2, FrameFailsMoves
  <1>5. QED
    BY <1>2, <1>3, <1>4 DEF Moves, f

LEMMA FlushMoves ==
  ASSUME FileTypeOK, FileTypeOK', LogInv, MeasureInv, NEW f \in Functions, LogFlush(f)
  PROVE  Moves(f)
  <1>1. DeepTypeOK
    BY FileSplit
  <1>2. /\ f \in logs /\ logs' = logs /\ alive /\ Landed(f)
        /\ UNCHANGED <<alive, damaged>>
        /\ FlushLast(f)
        /\ synced' = [synced EXCEPT ![f] = Len(file'[f])]
    BY DEF LogFlush, Flush, FlushLast
  <1>3. /\ synced'[f] = Len(file'[f])
        /\ \A g \in Functions \ {f} : synced'[g] = synced[g]
    BY <1>2 DEF FileTypeOK
  <1>4. /\ durable'[f] = Pieces(Len(file'[f]))
        /\ \A g \in Functions \ {f} :
             durable'[g] = durable[g] /\ last_buffer'[g] = last_buffer[g]
    BY <1>1, <1>2 DEF FlushLast, DeepTypeOK
  <1>5. /\ file'[f] = file[f] \/ \E e \in Entry : Appended(f, e)
        /\ \A g \in Functions \ {f} : file'[g] = file[g]
        /\ Len(file[f]) <= Len(file'[f])
    <2>1. CASE file' = file
      BY <2>1, AtType
    <2>2. CASE last_buffer[f] # <<>> /\ Appended(f, last_buffer[f][1])
      <3>1. Len(file'[f]) = Len(file[f]) + 1
        BY <2>2, AppendedLen
      <3>2. Len(file[f]) <= Len(file'[f])
        BY <3>1, AtType
      <3>3. last_buffer[f][1] \in Entry
        BY <1>1, <2>2, BufferedFields
      <3>4. QED
        BY <2>2, <3>2, <3>3 DEF Appended
    <2>3. QED
      BY <1>1, <1>2, <2>1, <2>2, TakenAppends DEF FlushLast
  <1>6. durable'[f] \in durable[f] .. Pieces(Len(file'[f]))
    <2>1. durable[f] <= Pieces(Len(file[f])) /\ durable[f] \in Nat /\ Len(file[f]) \in Nat
      BY AtType DEF MeasureInv
    <2>2. Len(file'[f]) \in Nat
      BY DEF FileTypeOK, SessionTypeOK, DeepTypeOK
    <2> DEFINE l == Len(file[f])  m == Len(file'[f])
    <2>3. l \in Nat /\ m \in Nat /\ l <= m /\ durable[f] <= 1 + 2 * l
      BY <1>5, <2>1, <2>2 DEF Pieces
    <2> HIDE DEF l, m
    <2>4. 1 + 2 * m \in durable[f] .. 1 + 2 * m
      BY <2>1, <2>3
    <2>5. QED
      BY <1>4, <2>4 DEF Pieces, m
  <1>7. QED
    BY <1>2, <1>3, <1>4, <1>5, <1>6 DEF Moves

LEMMA FlushFailsMoves ==
  ASSUME FileTypeOK, FileTypeOK', LogInv, NEW f \in Functions, FlushFails(f)
  PROVE  Moves(f)
  <1>1. DeepTypeOK
    BY FileSplit
  <1>2. /\ f \in logs /\ logs' = logs /\ alive /\ Landed(f)
        /\ UNCHANGED <<alive, synced>>
        /\ last_buffer' = [last_buffer EXCEPT ![f] = <<>>]
    BY DEF FlushFails, DropLast, StallFlush
  <1>3. \A g \in Functions \ {f} : last_buffer'[g] = last_buffer[g]
    BY <1>1, <1>2 DEF DeepTypeOK
  <1>4. CASE /\ last_buffer[f] # <<>>
             /\ file' = file
             /\ FrameFails(f, last_buffer[f][1].hash)
             /\ \E d \in durable[f] .. Pieces(Len(file[f])) :
                  durable' = [durable EXCEPT ![f] = d]
    <2>1. file' = file
      BY <1>4
    <2>2. /\ durable'[f] \in durable[f] .. Pieces(Len(file'[f]))
          /\ \A g \in Functions \ {f} : durable'[g] = durable[g]
      BY <1>4, <2>1, DurableAt
    <2>3. /\ \A g \in Functions \ {f} : damaged'[g] = damaged[g]
          /\ \/ damaged'[f] = damaged[f]
             \/ damaged[f] = None /\ damaged'[f] = Len(file[f])
      BY <1>4, FrameFailsMoves
    <2>4. QED
      BY <1>2, <1>3, <2>1, <2>2, <2>3 DEF Moves
  <1>5. CASE /\ file' = [file EXCEPT ![f] = @ \o last_buffer[f]]
             /\ \E d \in durable[f] .. Pieces(Len(file'[f])) - 1 :
                  durable' = [durable EXCEPT ![f] = d]
             /\ damaged' = damaged
    <2>1. /\ durable'[f] \in durable[f] .. Pieces(Len(file'[f])) - 1
          /\ \A g \in Functions \ {f} : durable'[g] = durable[g]
      <3> DEFINE S == durable[f] .. Pieces(Len(file'[f])) - 1
      <3>1. \E d \in S : durable' = [durable EXCEPT ![f] = d]
        BY <1>5
      <3> HIDE DEF S
      <3>2. durable'[f] \in S /\ \A g \in Functions \ {f} : durable'[g] = durable[g]
        BY <3>1, DurableAt
      <3>3. QED
        BY <3>2 DEF S
    <2>2. durable'[f] \in durable[f] .. Pieces(Len(file'[f]))
      <3>1. Len(file'[f]) \in Nat /\ durable[f] \in Nat
        BY AtType DEF FileTypeOK, SessionTypeOK, DeepTypeOK
      <3> DEFINE m == Len(file'[f])
      <3>2. m \in Nat /\ durable'[f] \in durable[f] .. (1 + 2 * m) - 1
        BY <2>1, <3>1 DEF Pieces
      <3> HIDE DEF m
      <3>3. durable'[f] \in durable[f] .. 1 + 2 * m
        BY <3>1, <3>2
      <3>4. QED
        BY <3>3 DEF Pieces, m
    <2>3. /\ file'[f] = file[f] \/ \E e \in Entry : Appended(f, e)
          /\ \A g \in Functions \ {f} : file'[g] = file[g]
      <3>1. CASE file' = file
        BY <3>1
      <3>2. CASE last_buffer[f] # <<>> /\ Appended(f, last_buffer[f][1])
        BY <1>1, <3>2, BufferedFields DEF Appended
      <3>3. QED
        BY <1>1, <1>5, <3>1, <3>2, TakenAppends
    <2>4. QED
      BY <1>2, <1>3, <1>5, <2>1, <2>2, <2>3 DEF Moves
  <1>6. QED
    BY <1>4, <1>5 DEF FlushFails, DropLast, StallFlush

LEMMA MovesGrow ==
  ASSUME FileTypeOK, FileTypeOK', NEW f \in Functions, Moves(f)
  PROVE  /\ Len(file[f]) \in Nat /\ Len(file'[f]) \in Nat
         /\ Len(file[f]) <= Len(file'[f])
         /\ Len(file'[f]) <= Len(file[f]) + 1
  <1>1. Len(file[f]) \in Nat /\ Len(file'[f]) \in Nat
    BY AtType DEF FileTypeOK, SessionTypeOK, DeepTypeOK
  <1>2. Len(file'[f]) = Len(file[f]) \/ Len(file'[f]) = Len(file[f]) + 1
    BY AppendedLen DEF Moves
  <1>3. QED
    BY <1>1, <1>2

LEMMA MovesMeasure ==
  ASSUME FileTypeOK, FileTypeOK', MeasureInv, NEW f \in Functions, Moves(f)
  PROVE  MeasureInv'
  <1>1. SUFFICES ASSUME NEW g \in Functions
        PROVE  /\ durable'[g] <= Pieces(Len(file'[g]))
               /\ synced'[g] <= Len(file'[g])
               /\ synced'[g] > 0 => Pieces(synced'[g]) <= durable'[g]
               /\ damaged'[g] # None => damaged'[g] <= Len(file'[g])
               /\ g \notin logs' => /\ file'[g] = <<>> /\ last_buffer'[g] = <<>>
                                    /\ durable'[g] = 0
    BY DEF MeasureInv
  <1>2. CASE g # f
    BY <1>2 DEF MeasureInv, Moves
  <1>3. CASE g = f
    <2> DEFINE l == Len(file[f])  m == Len(file'[f])  q == durable[f]  r == durable'[f]
               x == synced[f]  y == synced'[f]
    <2>1. l \in Nat /\ m \in Nat /\ l <= m
      BY MovesGrow
    <2>2. /\ q \in Nat /\ x \in Nat /\ x <= l
          /\ x > 0 => 1 + 2 * x <= q
      BY AtType DEF MeasureInv, Pieces
    <2>3. r \in q .. 1 + 2 * m /\ (y = x \/ (y = m /\ r = 1 + 2 * m))
      BY DEF Moves, Pieces
    <2>4. damaged'[f] # None => damaged'[f] \in Nat /\ damaged'[f] <= l
      BY AtType DEF Moves, MeasureInv
    <2>5. f \in logs'
      BY DEF Moves
    <2> HIDE DEF l, m, q, r, x, y
    <2>6. r <= 1 + 2 * m /\ y <= m /\ (y > 0 => 1 + 2 * y <= r)
      BY <2>1, <2>2, <2>3
    <2>7. damaged'[f] # None => damaged'[f] <= m
      BY <2>1, <2>4
    <2>8. QED
      BY <1>3, <2>5, <2>6, <2>7 DEF Pieces, m, r, y
  <1>4. QED
    BY <1>2, <1>3

LEMMA MovesDisk ==
  ASSUME FileTypeOK, FileTypeOK', DiskInv, NEW f \in Functions, Moves(f)
  PROVE  DiskInv'
  <1>1. SUFFICES ASSUME PathsApart, NEW g \in Functions
        PROVE  /\ Len(disk'[Path(g)]) = durable'[g]
               /\ \A i \in 1 .. durable'[g] : disk'[Path(g)][i] = g
    BY DEF DiskInv, PathsApart
  <1>2. /\ Len(disk[Path(g)]) = durable[g]
        /\ \A i \in 1 .. durable[g] : disk[Path(g)][i] = g
    BY <1>1 DEF DiskInv, Moves
  <1>3. disk' = [disk EXCEPT ![Path(f)] = Put(@, durable[f] + 1, durable'[f], f)]
    BY DEF Moves, Landed
  <1>4. disk \in [Paths -> Seq(Functions \cup {Hole, Torn})] /\ Path(f) \in Paths /\ Path(g) \in Paths
    BY AtType DEF FileTypeOK
  <1>5. CASE g # f
    <2>1. Path(g) # Path(f)
      BY <1>1, <1>5 DEF PathsApart
    <2>2. disk'[Path(g)] = disk[Path(g)] /\ durable'[g] = durable[g]
      BY <1>3, <1>4, <1>5, <2>1 DEF Moves
    <2>3. QED
      BY <1>2, <2>2
  <1>6. CASE g = f
    <2> DEFINE d == disk[Path(f)]  b == durable'[f]  S == Functions \cup {Hole, Torn}
    <2>1. d \in Seq(S) /\ f \in S
      BY AtType
    <2>2. b \in Nat
      BY DEF FileTypeOK, SessionTypeOK, DeepTypeOK
    <2>3. durable[f] <= b
      BY <2>2, AtType, MovesGrow DEF Moves, Pieces
    <2>4. Len(d) = durable[f] /\ \A i \in 1 .. Len(d) : d[i] = f
      BY <1>2, <1>6
    <2>5. disk'[Path(f)] = Put(d, Len(d) + 1, b, f)
      BY <1>3, <1>4, <2>4
    <2> HIDE DEF d, b, S
    <2>6. /\ Len(Put(d, Len(d) + 1, b, f)) = b
          /\ \A i \in 1 .. b : Put(d, Len(d) + 1, b, f)[i] = f
      BY <2>1, <2>2, <2>3, <2>4, PutBehind
    <2>7. QED
      BY <1>6, <2>5, <2>6 DEF b
  <1>7. QED
    BY <1>5, <1>6

\* When the program stops, a file holds what left its BufWriter, and at
\* most a torn piece behind it.
LEMMA StopDisk ==
  ASSUME PathsApart, FileTypeOK, DiskInv, Stop, NEW g \in Functions
  PROVE  /\ Len(disk'[Path(g)]) \in Nat
         /\ Len(disk'[Path(g)]) >= durable[g]
         /\ \A i \in 1 .. durable[g] : disk'[Path(g)][i] = g
         /\ \/ Len(disk'[Path(g)]) = durable[g]
            \/ /\ Len(disk'[Path(g)]) = durable[g] + 1
               /\ disk'[Path(g)][durable[g] + 1] = Torn
               /\ durable[g] < Pieces(Len(file[g]))
  <1> DEFINE d == disk[Path(g)]  q == durable[g]
  <1>1. FileTypeOK /\ alive
    BY DEF Stop
  <1>2. Len(d) = q /\ q \in Nat /\ \A i \in 1 .. q : d[i] = g
    BY <1>1, AtType DEF DiskInv
  <1>3. DOMAIN d = 1 .. q
    BY <1>1, <1>2, AtType
  <1>4. CASE disk'[Path(g)] = d
    BY <1>2, <1>4
  <1>5. CASE /\ disk'[Path(g)] = Put(d, q + 1, q + 1, Torn)
             /\ q + 1 <= Pieces(Len(file[g]))
    <2> HIDE DEF d, q
    <2>1. Max({q, q + 1}) = q + 1
      BY <1>2, PairMax
    <2>2. Put(d, q + 1, q + 1, Torn) =
            [i \in 1 .. q + 1 |-> IF i \in q + 1 .. q + 1 THEN Torn
                                  ELSE IF i \in DOMAIN d THEN d[i] ELSE Hole]
      <3>1. ~(q + 1 > q + 1) /\ Max({Len(d), q + 1}) = q + 1
        BY <1>2, <2>1
      <3>2. QED
        BY <3>1 DEF Put
    <2> DEFINE t == Put(d, q + 1, q + 1, Torn)
    <2>3. \A i \in 1 .. q : t[i] = d[i]
      BY <1>2, <1>3, <2>2
    <2>4. t[q + 1] = Torn
      BY <1>2, <2>2
    <2>5. Len(t) = q + 1
      BY <1>2, <2>2
    <2> HIDE DEF t
    <2>6. disk'[Path(g)] = t
      BY <1>5 DEF t
    <2>7. \A i \in 1 .. q : t[i] = g
      BY <1>2, <2>3
    <2>8. Len(t) \in Nat /\ Len(t) >= q
      BY <1>2, <2>5
    <2>9. q < Pieces(Len(file[g]))
      BY <1>1, <1>2, <1>5, AtType DEF Pieces
    <2>10. QED
      BY <2>4, <2>5, <2>6, <2>7, <2>8, <2>9 DEF q
  <1>6. \/ disk'[Path(g)] = d
        \/ /\ disk'[Path(g)] = Put(d, q + 1, q + 1, Torn)
           /\ q + 1 <= Pieces(Len(file[g]))
    <2>1. ASSUME NEW f \in logs, durable[f] + 1 <= Pieces(Len(file[f])),
                 disk' = [disk EXCEPT ![Path(f)] =
                            Put(@, durable[f] + 1, durable[f] + 1, Torn)]
          PROVE  \/ disk'[Path(g)] = d
                 \/ /\ disk'[Path(g)] = Put(d, q + 1, q + 1, Torn)
                    /\ q + 1 <= Pieces(Len(file[g]))
      <3>1. f \in Functions
        BY <1>1, FileSplit DEF DeepTypeOK
      <3>2. disk \in [Paths -> Seq(Functions \cup {Hole, Torn})] /\ Path(g) \in Paths
        BY <1>1, AtType DEF FileTypeOK
      <3>3. CASE f = g
        BY <2>1, <3>2, <3>3
      <3>4. CASE f # g
        <4>1. Path(f) # Path(g)
          BY <3>1, <3>4 DEF PathsApart
        <4>2. QED
          BY <2>1, <3>2, <4>1
      <3>5. QED
        BY <3>3, <3>4
    <2>2. CASE disk' = disk
      BY <2>2
    <2>3. QED
      BY <2>1, <2>2 DEF Stop
  <1>7. QED
    BY <1>4, <1>5, <1>6

LEMMA LogStepMoves ==
  ASSUME FileTypeOK, FileTypeOK', LogInv, MeasureInv, LogStep
  PROVE  \/ \E f \in Functions : LogOpen(f) \/ Moves(f)
         \/ Stop
  <1>1. \A c \in Calls : c.fn \in Functions
    BY DEF Calls
  <1>2. QED
    BY <1>1, RecordMoves, RecordFailsMoves, FlushMoves, FlushFailsMoves DEF LogStep

LEMMA LogStepMeasure ==
  ASSUME FileTypeOK, FileTypeOK', LogInv, MeasureInv, DiskInv, LogStep
  PROVE  MeasureInv' /\ DiskInv'
  <1>1. ASSUME NEW f \in Functions, LogOpen(f) PROVE MeasureInv' /\ DiskInv'
    <2>1. /\ UNCHANGED <<durable, file, last_buffer, synced, damaged, alive>>
          /\ logs' = logs \cup {f} /\ f \notin logs
          /\ disk' = [disk EXCEPT ![Path(f)] = <<>>]
      BY <1>1 DEF LogOpen, Open, CreateLog
    <2>2. MeasureInv'
      BY <2>1 DEF MeasureInv
    <2>3. DiskInv'
      <3>1. SUFFICES ASSUME PathsApart, NEW g \in Functions
            PROVE  /\ Len(disk'[Path(g)]) = durable[g]
                   /\ \A i \in 1 .. durable[g] : disk'[Path(g)][i] = g
        BY <2>1 DEF DiskInv, PathsApart
      <3>2. CASE g = f
        <4>1. durable[g] = 0
          BY <2>1, <3>2 DEF MeasureInv
        <4>2. disk'[Path(g)] = <<>>
          BY <2>1, <3>2, AtType DEF FileTypeOK
        <4>3. QED
          BY <4>1, <4>2
      <3>3. CASE g # f
        <4>1. Path(g) # Path(f)
          BY <3>1, <3>3 DEF PathsApart
        <4>2. disk'[Path(g)] = disk[Path(g)]
          BY <2>1, <4>1, AtType DEF FileTypeOK
        <4>3. QED
          BY <1>1, <3>1, <4>2 DEF DiskInv, LogOpen
      <3>4. QED
        BY <3>2, <3>3
    <2>4. QED
      BY <2>2, <2>3
  <1>2. ASSUME NEW f \in Functions, Moves(f) PROVE MeasureInv' /\ DiskInv'
    BY <1>2, MovesMeasure, MovesDisk
  <1>3. CASE Stop
    <2>1. MeasureInv'
      BY <1>3 DEF Stop, sessionVars, deepVars, MeasureInv
    <2>2. DiskInv'
      <3>1. SUFFICES ASSUME PathsApart, NEW g \in Functions
            PROVE  /\ \A i \in 1 .. durable[g] : disk'[Path(g)][i] = g
                   /\ \/ Len(disk'[Path(g)]) = durable[g]
                      \/ /\ ~alive'
                         /\ Len(disk'[Path(g)]) = durable[g] + 1
                         /\ disk'[Path(g)][durable[g] + 1] = Torn
                         /\ durable[g] < Pieces(Len(file[g]))
        BY <1>3 DEF Stop, DiskInv, PathsApart, sessionVars, deepVars
      <3>2. QED
        BY <1>3, <3>1, StopDisk DEF Stop
    <2>3. QED
      BY <2>1, <2>2
  <1>4. QED
    BY <1>1, <1>2, <1>3, LogStepMoves

\* The replay only reads: a step of Replay is a step of the logs, which it
\* takes while the program runs, or leaves them as they are.
LEMMA ReplayReads ==
  ASSUME [Next]_vars
  PROVE  LogStep \/ UNCHANGED <<sessionVars, fileVars>>
  BY DEF Next, vars, StartReplay, SkipFile, OpenFails, OpenFile, NextEntry,
         BogusEntry, EndOfFile, ReadFails, Finish, Done, Fail, Report

LEMMA FileFrame ==
  ASSUME FileInv, UNCHANGED <<sessionVars, fileVars>>
  PROVE  FileInv'
  <1>1. UNCHANGED <<config, logs, seq_counter, seen_hashes, last_buffer, file,
                    durable, offered, compressed, alive, failures, lost,
                    damaged, synced, disk>>
    BY DEF sessionVars, deepVars, fileVars
  <1>2. FileTypeOK'
    BY <1>1 DEF FileInv, FileTypeOK, SessionTypeOK, DeepTypeOK
  <1>3. LogInv'
    BY <1>1 DEF FileInv, LogInv
  <1>4. CaptureInv'
    BY <1>1, FrameCapture DEF FileInv
  <1>5. MeasureInv'
    BY <1>1 DEF FileInv, MeasureInv
  <1>6. DiskInv'
    BY <1>1 DEF FileInv, DiskInv
  <1>7. QED
    BY <1>2, <1>3, <1>4, <1>5, <1>6 DEF FileInv

LEMMA InitFile ==
  ASSUME Init
  PROVE  FileInv
  <1>1. FileTypeOK
    <2>1. DeepTypeOK
      BY ConfigsAssumption DEF Init, FileInit, SessionInit, DeepInit, DeepTypeOK
    <2>2. QED
      BY <2>1 DEF Init, FileInit, SessionInit, FileTypeOK, SessionTypeOK, Paths
  <1>2. \A f \in Functions :
          /\ seq_counter[f] = 0 /\ durable[f] = 0 /\ synced[f] = 0
          /\ seen_hashes[f] = {} /\ lost[f] = {} /\ damaged[f] = None
          /\ last_buffer[f] = <<>> /\ file[f] = <<>> /\ offered[f] = <<>>
          /\ disk[Path(f)] = <<>>
    BY DEF Init, FileInit, SessionInit, DeepInit, Paths
  <1>3. \A f \in Functions :
          /\ DOMAIN file[f] = {} /\ DOMAIN offered[f] = {} /\ Len(file[f]) = 0
          /\ Len(offered[f]) = 0 /\ Len(disk[Path(f)]) = 0
    <2>1. DOMAIN <<>> = {} /\ Len(<<>>) = 0
      OBVIOUS
    <2>2. QED
      BY <1>2, <2>1
  <1>4. LogInv
    BY <1>2, <1>3 DEF LogInv
  <1>5. CaptureInv
    BY <1>2, <1>3 DEF CaptureInv, FirstCallsCaptured, InCallOrder, HistoryOf,
                      BufferedOf, LastOf
  <1>6. MeasureInv
    <2>1. SUFFICES ASSUME NEW f \in Functions
          PROVE  /\ durable[f] <= Pieces(Len(file[f]))
                 /\ synced[f] <= Len(file[f])
                 /\ ~(synced[f] > 0)
                 /\ damaged[f] = None
                 /\ file[f] = <<>> /\ last_buffer[f] = <<>> /\ durable[f] = 0
      BY DEF MeasureInv
    <2>2. 0 <= Pieces(0) /\ ~(0 > 0) /\ 0 <= 0
      BY DEF Pieces
    <2>3. durable[f] = 0 /\ synced[f] = 0 /\ Len(file[f]) = 0
      BY <1>2, <1>3
    <2>4. QED
      BY <1>2, <2>2, <2>3
  <1>7. DiskInv
    <2>1. 1 .. 0 = {}
      OBVIOUS
    <2>2. \A f \in Functions : Len(disk[Path(f)]) = durable[f] /\ 1 .. durable[f] = {}
      BY <1>2, <1>3, <2>1
    <2>3. QED
      BY <2>2 DEF DiskInv
  <1>8. QED
    BY <1>1, <1>4, <1>5, <1>6, <1>7 DEF FileInv

LEMMA NextFile ==
  ASSUME FileInv, [Next]_vars
  PROVE  FileInv'
  <1>1. CASE LogStep
    <2>1. FileTypeOK' /\ LogInv' /\ CaptureInv'
      BY <1>1, LogStepType, LogStepLog, LogStepCapture DEF FileInv
    <2>2. MeasureInv' /\ DiskInv'
      BY <1>1, <2>1, LogStepMeasure DEF FileInv
    <2>3. QED
      BY <2>1, <2>2 DEF FileInv
  <1>2. CASE UNCHANGED <<sessionVars, fileVars>>
    BY <1>2, FileFrame
  <1>3. QED
    BY <1>1, <1>2, ReplayReads
-----------------------------------------------------------------------------
(***************************************************************************)
(* FileInv holds in every reachable state.                                 *)
(***************************************************************************)
THEOREM Invariance == Spec => []FileInv
  <1>1. Init => FileInv
    BY InitFile
  <1>2. FileInv /\ [Next]_vars => FileInv'
    BY NextFile
  <1>3. QED
    BY <1>1, <1>2, PTL DEF Spec

(***************************************************************************)
(* Under every policy, and whatever writes fail, the first calls of a      *)
(* function are in its file, by an entry of their own or by that of an     *)
(* earlier call with the same inputs, unless their write failed            *)
(* (DeepLog::record).                                                      *)
(***************************************************************************)
THEOREM FirstCalls == Spec => []FirstCallsCaptured
  <1>1. FileInv => FirstCallsCaptured
    BY DEF FileInv, CaptureInv
  <1>2. QED
    BY <1>1, Invariance, PTL

(***************************************************************************)
(* Where the policy keeps the last call, it is buffered, in the file or    *)
(* lost to a failed write (DeepLog::record, DeepLog::flush_last).          *)
(***************************************************************************)
THEOREM LastCall == Spec => []LastCallCaptured
  <1>1. FileInv => LastCallCaptured
    BY DEF FileInv, CaptureInv, LastOf, BufferedOf, LastCallCaptured
  <1>2. QED
    BY <1>1, Invariance, PTL

(***************************************************************************)
(* Except under random sampling a file is in call order, however often it  *)
(* is flushed and whatever writes fail (DeepLog::record, flush_all).       *)
(***************************************************************************)
THEOREM CallOrder == Spec => []InCallOrder
  <1>1. FileInv => InCallOrder
    BY DEF FileInv, CaptureInv
  <1>2. QED
    BY <1>1, Invariance, PTL

(***************************************************************************)
(* Under every policy no entry is in a file twice, nor in the file and in  *)
(* last_buffer (DeepLog::record, DeepLog::flush_last).                     *)
(***************************************************************************)
THEOREM EntryOnce == Spec => []NoCallTwice
  <1>1. FileInv => NoCallTwice
    <2>1. SUFFICES ASSUME FileInv, NEW f \in Functions,
                          NEW j \in DOMAIN (file[f] \o last_buffer[f]),
                          NEW k \in DOMAIN (file[f] \o last_buffer[f]),
                          (file[f] \o last_buffer[f])[j].seq
                            = (file[f] \o last_buffer[f])[k].seq
                   PROVE  j = k
      BY DEF NoCallTwice
    <2> DEFINE s == file[f]  u == last_buffer[f]
    <2>2. /\ s \in Seq(Entry) /\ u \in Seq(Entry)
          /\ Len(s) \in Nat /\ DOMAIN s = 1 .. Len(s)
          /\ \A x, y \in DOMAIN s : s[x].seq = s[y].seq => x = y
          /\ u # <<>> => Len(u) = 1 /\ \A x \in DOMAIN s : s[x].seq # u[1].seq
      BY <2>1, AtType DEF FileInv, LogInv
    <2> HIDE DEF s, u
    <2>3. CASE u = <<>>
      <3>1. s \o u = s
        BY <2>2, <2>3, ConcatEmptySeq
      <3>2. QED
        BY <2>1, <2>2, <3>1 DEF s, u
    <2>4. CASE u # <<>>
      <3> DEFINE n == Len(s)  v == s \o u
      <3>1. Len(u) = 1
        BY <2>2, <2>4
      <3>2. /\ v \in Seq(Entry) /\ Len(v) = n + 1
            /\ \A i \in 1 .. n + 1 : v[i] = IF i <= n THEN s[i] ELSE u[i - n]
        <4>1. /\ v \in Seq(Entry)
              /\ Len(v) = Len(s) + Len(u)
              /\ \A i \in 1 .. Len(s) + Len(u) :
                   v[i] = IF i <= Len(s) THEN s[i] ELSE u[i - Len(s)]
          BY <2>2, ConcatProperties
        <4>2. QED
          BY <3>1, <4>1
      <3>3. n \in Nat /\ DOMAIN v = 1 .. n + 1 /\ DOMAIN s = 1 .. n
        BY <2>2, <3>2
      <3>4. v[n + 1] = u[1] /\ \A i \in 1 .. n : v[i] = s[i]
        BY <3>1, <3>2, <3>3
      <3>5. j \in DOMAIN v /\ k \in DOMAIN v /\ v[j].seq = v[k].seq
        BY <2>1 DEF s, u
      <3> HIDE DEF n, v
      <3>6. \A i \in DOMAIN v : i = n + 1 \/ i \in DOMAIN s
        BY <3>3
      <3>7. QED
        BY <2>2, <2>4, <3>3, <3>4, <3>5, <3>6
    <2>5. QED
      BY <2>3, <2>4
  <1>2. QED
    BY <1>1, Invariance, PTL
-----------------------------------------------------------------------------
(***************************************************************************)
(* Where functions have files of their own, a log implements DurableLog.   *)
(***************************************************************************)
\* What is sound of a file is a prefix of it.
SoundPrefix ==
  \A f \in Functions :
    /\ Sound(f) \in Seq(Entry)
    /\ Len(Sound(f)) = IF damaged[f] = None THEN Len(file[f]) ELSE damaged[f]
    /\ Len(Sound(f)) \in Nat /\ Len(Sound(f)) <= Len(file[f])
    /\ \A i \in 1 .. Len(Sound(f)) : Sound(f)[i] = file[f][i]

LEMMA SoundIs == FileTypeOK /\ MeasureInv => SoundPrefix
  <1> SUFFICES ASSUME FileTypeOK, MeasureInv, NEW f \in Functions
      PROVE  /\ Sound(f) \in Seq(Entry)
             /\ Len(Sound(f)) = IF damaged[f] = None THEN Len(file[f]) ELSE damaged[f]
             /\ Len(Sound(f)) \in Nat /\ Len(Sound(f)) <= Len(file[f])
             /\ \A i \in 1 .. Len(Sound(f)) : Sound(f)[i] = file[f][i]
    BY DEF SoundPrefix
  <1>1. /\ file[f] \in Seq(Entry) /\ Len(file[f]) \in Nat
        /\ \A i \in 1 .. Len(file[f]) : file[f][i] \in Entry
        /\ damaged[f] # None => damaged[f] \in Nat /\ damaged[f] <= Len(file[f])
    BY AtType DEF MeasureInv
  <1>2. CASE damaged[f] = None
    BY <1>1, <1>2 DEF Sound
  <1>3. CASE damaged[f] # None
    <2> DEFINE s == file[f]  d == damaged[f]  t == SubSeq(s, 1, d)
    <2>1. s \in Seq(Entry) /\ d \in Nat /\ d <= Len(s) /\ \A i \in 1 .. d : s[i] \in Entry
      BY <1>1, <1>3
    <2>2. Sound(f) = t
      BY <1>3 DEF Sound
    <2> HIDE DEF s, d
    <2>3. /\ t \in Seq(Entry)
          /\ Len(t) = IF 1 <= d THEN d - 1 + 1 ELSE 0
          /\ \A i \in 1 .. d - 1 + 1 : t[i] = s[1 + i - 1]
      BY <2>1, SubSeqProperties
    <2>4. Len(t) = d /\ \A i \in 1 .. d : t[i] = s[i]
      BY <2>1, <2>3
    <2>5. QED
      BY <1>1, <1>3, <2>1, <2>2, <2>3, <2>4 DEF s, d
  <1>4. QED
    BY <1>2, <1>3

\* A prefix that is found again is the SubSeq of that length.
LEMMA PrefixIs ==
  ASSUME NEW S, NEW s \in Seq(S), NEW t \in Seq(S), Len(s) <= Len(t),
         \A i \in 1 .. Len(s) : t[i] = s[i]
  PROVE  SubSeq(t, 1, Len(s)) = s
  <1> DEFINE n == Len(s)  u == SubSeq(t, 1, n)
  <1>1. n \in Nat /\ \A i \in 1 .. n : t[i] \in S
    OBVIOUS
  <1>2. \A i \in 1 .. n : t[i] = s[i]
    OBVIOUS
  <1> HIDE DEF n
  <1>3. /\ u \in Seq(S)
        /\ Len(u) = IF 1 <= n THEN n - 1 + 1 ELSE 0
        /\ \A i \in 1 .. n - 1 + 1 : u[i] = t[1 + i - 1]
    BY <1>1, SubSeqProperties
  <1>4. Len(u) = n /\ \A i \in 1 .. n : u[i] = s[i]
    BY <1>1, <1>2, <1>3
  <1> HIDE DEF u
  <1>5. u = s
    BY <1>3, <1>4, SeqEqual DEF n
  <1>6. QED
    BY <1>5 DEF u, n

LEMMA MovesSound ==
  ASSUME FileInv, FileInv', NEW f \in Functions, Moves(f)
  PROVE  /\ Sound(f)' \in Seq(Entry)
         /\ Len(Sound(f)') \in Len(Sound(f)) .. Len(Sound(f)) + 1
         /\ SubSeq(Sound(f)', 1, Len(Sound(f))) = Sound(f)
         /\ Min({synced'[f], Len(Sound(f)')}) \in
               {Min({synced[f], Len(Sound(f))}), Len(Sound(f)')}
  <1> DEFINE s == Sound(f)  t == Sound(f)'  m == Len(s)  n == Len(t)
             l == Len(file[f])  k == Len(file'[f])
  <1>1. FileTypeOK /\ FileTypeOK' /\ MeasureInv /\ MeasureInv'
    BY DEF FileInv
  <1>2. /\ s \in Seq(Entry)
        /\ m = IF damaged[f] = None THEN l ELSE damaged[f]
        /\ m \in Nat /\ m <= l
        /\ \A i \in 1 .. m : s[i] = file[f][i]
    BY <1>1, SoundIs DEF SoundPrefix
  <1>3. /\ t \in Seq(Entry)
        /\ n = IF damaged'[f] = None THEN k ELSE damaged'[f]
        /\ n \in Nat /\ n <= k
        /\ \A i \in 1 .. n : t[i] = file'[f][i]
    <2>1. SoundPrefix'
      BY <1>1, SoundIs, PTL
    <2>2. QED
      BY <2>1 DEF SoundPrefix
  <1>4. l \in Nat /\ k \in Nat /\ l <= k /\ k <= l + 1
    BY <1>1, MovesGrow
  <1>5. \A i \in 1 .. l : file'[f][i] = file[f][i]
    BY <1>1, AtType DEF Moves, Appended
  <1>6. \/ damaged'[f] = damaged[f]
        \/ damaged[f] = None /\ damaged'[f] = l /\ k = l
    BY DEF Moves
  <1>7. /\ synced[f] \in Nat /\ synced[f] <= l
        /\ synced'[f] = synced[f] \/ synced'[f] = k
    BY <1>1, AtType DEF MeasureInv, Moves
  <1> HIDE DEF s, t, m, n, l, k
  <1>8. n \in m .. m + 1
    BY <1>2, <1>3, <1>4, <1>6
  <1>9. \A i \in 1 .. m : t[i] = s[i]
    BY <1>2, <1>3, <1>4, <1>5, <1>8
  <1>10. SubSeq(t, 1, m) = s
    BY <1>2, <1>3, <1>8, <1>9, PrefixIs DEF m, n
  <1>11. Min({synced'[f], n}) \in {Min({synced[f], m}), n}
    <2>1. synced'[f] \in Nat
      BY <1>4, <1>7
    <2>2. /\ Min({synced'[f], n}) = IF synced'[f] <= n THEN synced'[f] ELSE n
          /\ Min({synced[f], m}) = IF synced[f] <= m THEN synced[f] ELSE m
      BY <1>2, <1>3, <1>7, <2>1, PairMin
    <2>3. CASE synced'[f] = k
      BY <1>3, <1>4, <2>2, <2>3
    <2>4. CASE synced'[f] = synced[f]
      <3>1. CASE synced[f] <= m
        BY <1>2, <1>3, <1>7, <1>8, <2>2, <2>4, <3>1
      <3>2. CASE ~(synced[f] <= m)
        <4>1. damaged[f] # None /\ n = m
          BY <1>2, <1>3, <1>6, <1>7, <3>2
        <4>2. QED
          BY <1>2, <1>3, <1>7, <2>2, <2>4, <4>1
      <3>3. QED
        BY <3>1, <3>2
    <2>5. QED
      BY <1>7, <2>3, <2>4
  <1>12. QED
    BY <1>3, <1>8, <1>10, <1>11 DEF s, t, m, n

LEMMA Half ==
  ASSUME NEW q \in Nat
  PROVE  \E m \in Nat : 2 * m <= q /\ q < 2 * m + 2
  <1>1. q \div 2 \in Nat /\ 2 * (q \div 2) <= q /\ q < 2 * (q \div 2) + 2
    OBVIOUS
  <1>2. QED
    BY <1>1

\* Of l entries, q pieces hold the first few whole.
LEMMA WholeMax ==
  ASSUME NEW l \in Nat, NEW q \in Nat
  PROVE  LET S == {0} \cup {k \in 1 .. l : Pieces(k) <= q}
         IN  Max(S) \in S /\ \A k \in S : Max(S) >= k
  <1> DEFINE S == {0} \cup {k \in 1 .. l : Pieces(k) <= q}
  <1>1. \E x \in S : \A y \in S : x >= y
    <2>1. CASE q = 0
      <3>1. \A y \in S : y = 0
        BY <2>1 DEF Pieces
      <3>2. QED
        BY <3>1
    <2>2. CASE q # 0
      <3>1. PICK m \in Nat : 2 * m <= q - 1 /\ q - 1 < 2 * m + 2
        <4>1. q - 1 \in Nat
          BY <2>2
        <4>2. QED
          BY <4>1, Half
      <3> DEFINE x == IF m <= l THEN m ELSE l
      <3>2. x \in S
        BY <3>1 DEF Pieces
      <3>3. \A y \in S : x >= y
        BY <3>1 DEF Pieces
      <3>4. QED
        BY <3>2, <3>3
    <2>3. QED
      BY <2>1, <2>2
  <1> HIDE DEF S
  <1>2. Max(S) \in S /\ \A k \in S : Max(S) >= k
    BY <1>1 DEF Max
  <1>3. QED
    BY <1>2 DEF S

LEMMA StopKeeps ==
  ASSUME PathsApart, FileInv, FileInv', Stop, NEW g \in Functions
  PROVE  /\ Sound(g)' = Sound(g)
         /\ synced'[g] = synced[g]
         /\ OnDiskWhole(g)' \in Min({synced[g], Len(Sound(g))}) .. Len(Sound(g))
  <1>1. FileTypeOK /\ MeasureInv
    BY DEF FileInv
  <1>2. /\ Sound(g)' = Sound(g)
        /\ synced' = synced
    BY DEF Stop, Sound, sessionVars, deepVars
  <1> DEFINE l == Len(Sound(g))
             q == durable[g]
             d == disk'[Path(g)]
             S == {0} \cup {k \in 1 .. l : Pieces(k) <= q}
             T == {0} \cup {k \in DOMAIN Sound(g) :
                              /\ Pieces(k) <= Len(d)
                              /\ \A i \in 1 .. Pieces(k) : d[i] = g}
  <1>3. OnDiskWhole(g)' = Max(T)
    BY <1>2 DEF OnDiskWhole
  <1>4. /\ l \in Nat /\ q \in Nat /\ DOMAIN Sound(g) = 1 .. l
        /\ synced[g] \in Nat
        /\ synced[g] > 0 => Pieces(synced[g]) <= q
    BY <1>1, SoundIs, AtType DEF SoundPrefix, MeasureInv
  <1>5. /\ Len(d) \in Nat /\ Len(d) >= q /\ \A i \in 1 .. q : d[i] = g
        /\ Len(d) = q \/ (Len(d) = q + 1 /\ d[q + 1] = Torn)
    BY <1>1, StopDisk DEF FileInv
  <1>6. Torn # g
    BY FileAssumption
  <1> HIDE DEF l, q, d
  <1>7. S = T
    <2>1. ASSUME NEW k \in 1 .. l
          PROVE  Pieces(k) <= q <=> /\ Pieces(k) <= Len(d)
                                    /\ \A i \in 1 .. Pieces(k) : d[i] = g
      <3>1. Pieces(k) \in Nat /\ Pieces(k) >= 1
        BY <1>4 DEF Pieces
      <3>2. CASE Pieces(k) <= q
        BY <1>4, <1>5, <3>1, <3>2
      <3>3. CASE ~(Pieces(k) <= q) /\ Pieces(k) <= Len(d)
        <4>1. Pieces(k) = q + 1 /\ d[q + 1] = Torn
          BY <1>4, <1>5, <3>1, <3>3
        <4>2. q + 1 \in 1 .. Pieces(k)
          BY <1>4, <4>1
        <4>3. QED
          BY <1>6, <3>3, <4>1, <4>2
      <3>4. CASE ~(Pieces(k) <= q) /\ ~(Pieces(k) <= Len(d))
        BY <3>4
      <3>5. QED
        BY <3>2, <3>3, <3>4
    <2>2. QED
      BY <1>4, <2>1
  <1>8. Max(S) \in S /\ \A k \in S : Max(S) >= k
    BY <1>4, WholeMax
  <1>9. Min({synced[g], l}) = IF synced[g] <= l THEN synced[g] ELSE l
    BY <1>4, PairMin
  <1> DEFINE x == Min({synced[g], l})
  <1>10. x \in S
    <2>1. CASE x = 0
      BY <2>1
    <2>2. CASE x # 0
      <3>1. x \in 1 .. l /\ x <= synced[g] /\ synced[g] > 0
        BY <1>4, <1>9, <2>2
      <3>2. Pieces(x) <= q
        BY <1>4, <3>1 DEF Pieces
      <3>3. QED
        BY <3>1, <3>2
    <2>3. QED
      BY <2>1, <2>2
  <1> HIDE DEF x
  <1>11. S \subseteq 0 .. l
    BY <1>4
  <1> HIDE DEF S, T
  <1>12. Max(S) \in x .. l
    <2>1. Max(S) \in 0 .. l /\ x \in 0 .. l /\ Max(S) >= x
      BY <1>8, <1>10, <1>11
    <2>2. QED
      BY <1>4, <2>1
  <1>13. QED
    BY <1>2, <1>3, <1>7, <1>12 DEF x, l

\* Where nothing that DurableLog sees changes, it stutters.
LEMMA DurableStutter ==
  ASSUME alive, alive', NEW g \in Functions, file'[g] = file[g],
         damaged'[g] = damaged[g], synced'[g] = synced[g]
  PROVE  UNCHANGED Durable(g)!vars
  BY DEF Durable!vars, Sound

LEMMA DurableStep ==
  ASSUME PathsApart, FileInv, FileInv', LogStep, NEW g \in Functions
  PROVE  Durable(g)!Next \/ UNCHANGED Durable(g)!vars
  <1>1. ASSUME NEW f \in Functions, LogOpen(f)
        PROVE  UNCHANGED Durable(g)!vars
    BY <1>1, DurableStutter DEF LogOpen, Open, CreateLog
  <1>2. ASSUME NEW f \in Functions, Moves(f)
        PROVE  Durable(g)!Next \/ UNCHANGED Durable(g)!vars
    <2>1. alive /\ alive'
      BY <1>2 DEF Moves
    <2>2. CASE g # f
      BY <1>2, <2>1, <2>2, DurableStutter DEF Moves
    <2>3. CASE g = f
      <3>1. /\ Sound(g)' \in Seq(Entry)
            /\ Len(Sound(g)') \in Len(Sound(g)) .. Len(Sound(g)) + 1
            /\ SubSeq(Sound(g)', 1, Len(Sound(g))) = Sound(g)
            /\ Min({synced'[g], Len(Sound(g)')}) \in
                  {Min({synced[g], Len(Sound(g))}), Len(Sound(g)')}
        BY <1>2, <2>3, MovesSound
      <3>2. Durable(g)!Append1
        BY <2>1, <3>1 DEF Durable!Append1
      <3>3. QED
        BY <3>2 DEF Durable!Next
    <2>4. QED
      BY <2>2, <2>3
  <1>3. ASSUME Stop
        PROVE  Durable(g)!Next
    <2>1. alive /\ ~alive'
      BY <1>3 DEF Stop
    <2>2. /\ Sound(g)' = Sound(g) /\ synced'[g] = synced[g]
          /\ OnDiskWhole(g)' \in Min({synced[g], Len(Sound(g))}) .. Len(Sound(g))
      BY <1>3, StopKeeps
    <2>3. Durable(g)!Stop
      BY <2>1, <2>2 DEF Durable!Stop
    <2>4. QED
      BY <2>3 DEF Durable!Next
  <1>4. QED
    BY <1>1, <1>2, <1>3, LogStepMoves DEF FileInv

LEMMA DurableInit ==
  ASSUME Init, NEW f \in Functions
  PROVE  Durable(f)!Init
  <1>1. /\ file[f] = <<>> /\ damaged[f] = None /\ synced[f] = 0 /\ alive = TRUE
    BY DEF Init, FileInit, SessionInit, DeepInit
  <1>2. Sound(f) = <<>> /\ Len(<<>>) = 0
    BY <1>1 DEF Sound
  <1>3. Min({0, 0}) = 0
    BY PairMin
  <1>4. QED
    BY <1>1, <1>2, <1>3 DEF Durable!Init

(***************************************************************************)
(* Each log whose file no other function shares implements DurableLog:     *)
(* whatever writes fail and wherever the program stops, a prefix of its    *)
(* entries survives that holds all of the last flush that succeeded        *)
(* (src/src/deep/writer.rs, flush_all).                                    *)
(***************************************************************************)
THEOREM Durability ==
  ASSUME PathsApart
  PROVE  Spec => ImplementsDurableLog
  <1>1. Init => \A f \in Functions : Durable(f)!Init
    BY DurableInit
  <1>2. FileInv /\ FileInv' /\ [Next]_vars =>
          [\A f \in Functions : Durable(f)!Next \/ UNCHANGED Durable(f)!vars
          ]_<<sessionVars, fileVars>>
    BY DurableStep, ReplayReads
  <1>3. QED
    BY <1>1, <1>2, Invariance, PTL DEF Spec, ImplementsDurableLog
=============================================================================
