---------------------------- MODULE DeepLogProofs ---------------------------
(***************************************************************************)
(* Lemmas about the operations of a DeepLog, for every set of functions,   *)
(* inputs and policies: what they do to the types of its state, to its     *)
(* file and to LogInv.  The proofs about Recorder and about LogFile, which *)
(* both are built from these operations, rest on them.                     *)
(***************************************************************************)
EXTENDS DeepLog, RecordingLemmas

\* What can be durable after a write is a number of pieces.
LEMMA SpillsType ==
  ASSUME DeepTypeOK, NEW f \in Functions
  PROVE  Spills(f) \subseteq Nat
  <1>1. Len(file[f]) \in Nat /\ durable[f] \in Nat
    BY DEF DeepTypeOK
  <1>2. QED
    BY <1>1 DEF Spills, Pieces

-----------------------------------------------------------------------------
(***************************************************************************)
(* The operations of a DeepLog keep the types of its state.                *)
(***************************************************************************)
LEMMA WriteCallType ==
  ASSUME DeepTypeOK, NEW c \in Calls, NEW coin, WriteCall(c, coin),
         config' = config
  PROVE  DeepTypeOK'
  <1> c.fn \in Functions
    BY DEF Calls
  <1>1. EntryOf(c, seq_counter[c.fn]) \in Entry
    BY EntryOfType DEF DeepTypeOK
  <1>2. InputHash(c) \in Hashes
    BY DEF Hashes
  <1>3. file' \in [Functions -> Seq(Entry)]
    <2>1. Append(file[c.fn], EntryOf(c, seq_counter[c.fn])) \in Seq(Entry)
      BY <1>1 DEF DeepTypeOK
    <2>2. QED
      BY <2>1 DEF DeepTypeOK, WriteCall
  <1>4. seen_hashes' \in [Functions -> SUBSET Hashes]
    BY <1>2 DEF DeepTypeOK, WriteCall
  <1>5. durable' \in [Functions -> Nat]
    BY SpillsType DEF DeepTypeOK, WriteCall
  <1>6. seq_counter' \in [Functions -> Nat]
    BY DEF DeepTypeOK, WriteCall, Counted
  <1>7. QED
    BY <1>3, <1>4, <1>5, <1>6 DEF DeepTypeOK, WriteCall

LEMMA BufferCallType ==
  ASSUME DeepTypeOK, NEW c \in Calls, NEW coin, BufferCall(c, coin),
         config' = config
  PROVE  DeepTypeOK'
  <1> c.fn \in Functions
    BY DEF Calls
  <1>1. EntryOf(c, seq_counter[c.fn]) \in Entry
    BY EntryOfType DEF DeepTypeOK
  <1>2. <<EntryOf(c, seq_counter[c.fn])>> \in Seq(Entry)
    BY <1>1
  <1>3. QED
    BY <1>2 DEF DeepTypeOK, BufferCall, Counted

LEMMA PassedCallType ==
  ASSUME DeepTypeOK, NEW c \in Calls, NEW coin,
         SkipCall(c, coin) \/ DedupCall(c, coin),
         config' = config
  PROVE  DeepTypeOK'
  <1> c.fn \in Functions
    BY DEF Calls
  <1> QED
    BY DEF DeepTypeOK, SkipCall, DedupCall, Counted

LEMMA FlushLastType ==
  ASSUME DeepTypeOK, NEW f \in Functions, FlushLast(f), config' = config
  PROVE  DeepTypeOK'
  <1>1. file[f] \o last_buffer[f] \in Seq(Entry)
    BY ConcatProperties DEF DeepTypeOK
  <1>2. file' \in [Functions -> Seq(Entry)]
    BY <1>1 DEF DeepTypeOK, FlushLast
  <1>3. last_buffer' \in [Functions -> Seq(Entry)]
    BY DEF DeepTypeOK, FlushLast
  <1>4. durable' \in [Functions -> Nat]
    <2>1. Pieces(Len(file'[f])) \in Nat
      BY <1>2 DEF Pieces
    <2>2. QED
      BY <2>1 DEF DeepTypeOK, FlushLast
  <1>5. QED
    BY <1>2, <1>3, <1>4 DEF DeepTypeOK, FlushLast

\* What is durable behind a write that failed is a number of pieces.
LEMMA StalledType ==
  ASSUME DeepTypeOK, NEW f \in Functions, NEW m \in Nat,
         \/ \E d \in durable[f] .. Pieces(m) : durable' = [durable EXCEPT ![f] = d]
         \/ \E d \in durable[f] .. Pieces(m) - 1 : durable' = [durable EXCEPT ![f] = d]
  PROVE  durable' \in [Functions -> Nat]
  <1>1. durable \in [Functions -> Nat] /\ durable[f] \in Nat
    BY DEF DeepTypeOK
  <1>2. PICK d \in Int : d >= durable[f] /\ durable' = [durable EXCEPT ![f] = d]
    BY <1>1 DEF Pieces
  <1>3. d \in Nat
    BY <1>1, <1>2
  <1>4. QED
    BY <1>1, <1>2, <1>3

LEMMA WriteFailsType ==
  ASSUME DeepTypeOK, NEW c \in Calls, NEW coin, WriteFails(c, coin),
         config' = config
  PROVE  DeepTypeOK'
  <1>1. c.fn \in Functions /\ InputHash(c) \in Hashes
    BY DEF Calls, Hashes
  <1>2. Len(file[c.fn]) \in Nat
    BY <1>1 DEF DeepTypeOK
  <1>3. durable' \in [Functions -> Nat]
    BY <1>1, <1>2, StalledType DEF WriteFails
  <1>4. seen_hashes' \in [Functions -> SUBSET Hashes]
    BY <1>1 DEF DeepTypeOK, WriteFails
  <1>5. seq_counter' \in [Functions -> Nat]
    BY <1>1 DEF DeepTypeOK, WriteFails, Counted
  <1>6. QED
    BY <1>3, <1>4, <1>5 DEF DeepTypeOK, WriteFails

LEMMA DropLastType ==
  ASSUME DeepTypeOK, NEW f \in Functions, DropLast(f), config' = config
  PROVE  DeepTypeOK'
  <1>1. Len(file[f]) \in Nat
    BY DEF DeepTypeOK
  <1>2. durable' \in [Functions -> Nat]
    BY <1>1, StalledType DEF DropLast
  <1>3. last_buffer' \in [Functions -> Seq(Entry)]
    BY DEF DeepTypeOK, DropLast
  <1>4. QED
    BY <1>2, <1>3 DEF DeepTypeOK, DropLast

LEMMA StallFlushType ==
  ASSUME DeepTypeOK, NEW f \in Functions, StallFlush(f), config' = config
  PROVE  DeepTypeOK'
  <1>1. file[f] \o last_buffer[f] \in Seq(Entry)
    BY ConcatProperties DEF DeepTypeOK
  <1>2. file' \in [Functions -> Seq(Entry)]
    BY <1>1 DEF DeepTypeOK, StallFlush
  <1>3. Len(file'[f]) \in Nat
    BY <1>2
  <1>4. durable' \in [Functions -> Nat]
    BY <1>3, StalledType DEF StallFlush
  <1>5. last_buffer' \in [Functions -> Seq(Entry)]
    BY DEF DeepTypeOK, StallFlush
  <1>6. QED
    BY <1>2, <1>4, <1>5 DEF DeepTypeOK, StallFlush

LEMMA CreateLogType ==
  ASSUME DeepTypeOK, NEW f \in Functions, CreateLog(f), config' = config
  PROVE  DeepTypeOK'
  BY DEF DeepTypeOK, CreateLog

LEMMA UnchangedDeepType ==
  ASSUME DeepTypeOK, UNCHANGED deepVars, config' = config
  PROVE  DeepTypeOK'
  BY DEF DeepTypeOK, deepVars

\* Only a policy that keeps the last call buffers one.
LEMMA BufferKeeps ==
  ASSUME NEW c, NEW coin, BufferCall(c, coin)
  PROVE  KeepsLast(config.policy)
  BY DEF BufferCall, Sampled, Decide
-----------------------------------------------------------------------------
(***************************************************************************)
(* How files change: by one entry at the end of one file, or not at all.   *)
(***************************************************************************)
Appended(f, e) ==
  /\ \A g \in Functions \ {f} : file'[g] = file[g]
  /\ DOMAIN file'[f] = DOMAIN file[f] \cup {Len(file[f]) + 1}
  /\ Len(file[f]) + 1 \notin DOMAIN file[f]
  /\ \A k \in DOMAIN file[f] : file'[f][k] = file[f][k]
  /\ file'[f][Len(file[f]) + 1] = e

FilesGrow ==
  \A f \in Functions : \A k \in DOMAIN file[f] :
    k \in DOMAIN file'[f] /\ file'[f][k] = file[f][k]

LEMMA EntryFields ==
  ASSUME DeepTypeOK, NEW f \in Functions, NEW k \in DOMAIN file[f]
  PROVE  file[f][k] \in Entry /\ file[f][k].seq \in Nat
  <1>1. file[f] \in Seq(Entry)
    BY DEF DeepTypeOK
  <1>2. file[f][k] \in Entry
    BY <1>1
  <1>3. QED
    BY <1>2 DEF Entry

LEMMA BufferedFields ==
  ASSUME DeepTypeOK, LogInv, NEW f \in Functions, last_buffer[f] # <<>>
  PROVE  last_buffer[f][1] \in Entry /\ last_buffer[f][1].seq \in Nat
  <1>1. last_buffer[f] \in Seq(Entry) /\ Len(last_buffer[f]) = 1
    BY DEF DeepTypeOK, LogInv
  <1>2. last_buffer[f][1] \in Entry
    BY <1>1
  <1>3. QED
    BY <1>2 DEF Entry

LEMMA AppendedGrow ==
  ASSUME NEW f \in Functions, NEW e, Appended(f, e)
  PROVE  FilesGrow
  BY DEF Appended, FilesGrow

LEMMA WriteCallAppends ==
  ASSUME DeepTypeOK, NEW c \in Calls, NEW coin, WriteCall(c, coin)
  PROVE  Appended(c.fn, EntryOf(c, seq_counter[c.fn]))
  <1> DEFINE e == EntryOf(c, seq_counter[c.fn])
  <1>1. c.fn \in Functions
    BY DEF Calls
  <1>2. file[c.fn] \in Seq(Entry) /\ e \in Entry
    BY <1>1, EntryOfType DEF DeepTypeOK
  <1>3. /\ file'[c.fn] = Append(file[c.fn], e)
        /\ \A g \in Functions \ {c.fn} : file'[g] = file[g]
    BY <1>1 DEF DeepTypeOK, WriteCall
  <1> HIDE DEF e
  <1>4. /\ DOMAIN file'[c.fn] = DOMAIN file[c.fn] \cup {Len(file[c.fn]) + 1}
        /\ Len(file[c.fn]) + 1 \notin DOMAIN file[c.fn]
        /\ \A k \in DOMAIN file[c.fn] : file'[c.fn][k] = file[c.fn][k]
        /\ file'[c.fn][Len(file[c.fn]) + 1] = e
    BY <1>2, <1>3
  <1>5. QED
    BY <1>3, <1>4 DEF Appended, e

\* flush_last moves at most the one entry of last_buffer to the file.
LEMMA TakenAppends ==
  ASSUME DeepTypeOK, LogInv, NEW f \in Functions,
         file' = [file EXCEPT ![f] = @ \o last_buffer[f]]
  PROVE  \/ last_buffer[f] = <<>> /\ file' = file
         \/ last_buffer[f] # <<>> /\ Appended(f, last_buffer[f][1])
  <1>1. /\ file[f] \in Seq(Entry)
        /\ last_buffer[f] \in Seq(Entry)
        /\ file' = [file EXCEPT ![f] = file[f] \o last_buffer[f]]
        /\ file \in [Functions -> Seq(Entry)]
    BY DEF DeepTypeOK
  <1>2. CASE last_buffer[f] = <<>>
    <2>1. file[f] \o last_buffer[f] = file[f]
      BY <1>1, <1>2, ConcatEmptySeq
    <2>2. QED
      BY <1>1, <1>2, <2>1
  <1>3. CASE last_buffer[f] # <<>>
    <2>1. Len(last_buffer[f]) = 1
      BY <1>3 DEF LogInv
    <2>2. file'[f] = file[f] \o last_buffer[f]
      BY <1>1
    <2>3. /\ DOMAIN file'[f] = DOMAIN file[f] \cup {Len(file[f]) + 1}
          /\ Len(file[f]) + 1 \notin DOMAIN file[f]
          /\ \A k \in DOMAIN file[f] : file'[f][k] = file[f][k]
          /\ file'[f][Len(file[f]) + 1] = last_buffer[f][1]
      <3> DEFINE s == file[f]  u == last_buffer[f]  v == s \o u
      <3>1. s \in Seq(Entry) /\ u \in Seq(Entry) /\ Len(u) = 1 /\ Len(s) \in Nat
        BY <1>1, <2>1
      <3> HIDE DEF s, u
      <3>2. /\ v \in Seq(Entry)
            /\ Len(v) = Len(s) + 1
            /\ \A i \in 1 .. Len(s) + 1 :
                 v[i] = IF i <= Len(s) THEN s[i] ELSE u[i - Len(s)]
        BY <3>1, ConcatProperties
      <3> HIDE DEF v
      <3>3. DOMAIN v = 1 .. Len(s) + 1 /\ DOMAIN s = 1 .. Len(s)
        BY <3>1, <3>2
      <3>4. v[Len(s) + 1] = u[1]
        BY <3>1, <3>2
      <3>5. \A k \in DOMAIN s : v[k] = s[k]
        BY <3>1, <3>2, <3>3
      <3>6. DOMAIN v = DOMAIN s \cup {Len(s) + 1} /\ Len(s) + 1 \notin DOMAIN s
        BY <3>1, <3>3
      <3>7. QED
        BY <2>2, <3>4, <3>5, <3>6 DEF s, u, v
    <2>4. QED
      BY <1>1, <1>3, <2>3 DEF Appended
  <1>4. QED
    BY <1>2, <1>3

-----------------------------------------------------------------------------
(***************************************************************************)
(* LogInv.  An entry is appended under a number its log has not used; the  *)
(* one in last_buffer keeps its number until flush_last moves it.          *)
(***************************************************************************)
LEMMA WriteCallLog ==
  ASSUME DeepTypeOK, LogInv, NEW c \in Calls, NEW coin, WriteCall(c, coin)
  PROVE  LogInv'
  <1> DEFINE n == seq_counter[c.fn]
             e == EntryOf(c, n)
  <1>1. c.fn \in Functions /\ n \in Nat
    BY DEF Calls, DeepTypeOK
  <1>2. Appended(c.fn, e)
    BY WriteCallAppends
  <1>3. e.seq = n
    BY DEF EntryOf
  <1>4. /\ seq_counter'[c.fn] = n + 1
        /\ \A g \in Functions \ {c.fn} : seq_counter'[g] = seq_counter[g]
        /\ last_buffer' = last_buffer
    BY <1>1 DEF DeepTypeOK, WriteCall, Counted
  <1> HIDE DEF n, e
  <1>5. \A k \in DOMAIN file[c.fn] : file[c.fn][k].seq \in Nat /\ file[c.fn][k].seq < n
    BY <1>1, EntryFields DEF LogInv, n
  <1>6. SUFFICES ASSUME NEW f \in Functions
        PROVE  /\ \A k \in DOMAIN file'[f] : file'[f][k].seq < seq_counter'[f]
               /\ \A j, k \in DOMAIN file'[f] :
                    file'[f][j].seq = file'[f][k].seq => j = k
               /\ last_buffer'[f] # <<>> =>
                    /\ Len(last_buffer'[f]) = 1
                    /\ last_buffer'[f][1].seq < seq_counter'[f]
                    /\ \A k \in DOMAIN file'[f] :
                         file'[f][k].seq # last_buffer'[f][1].seq
    BY DEF LogInv
  <1>7. CASE f # c.fn
    BY <1>2, <1>4, <1>7 DEF LogInv, Appended
  <1>8. CASE f = c.fn
    <2>1. \A k \in DOMAIN file'[f] : file'[f][k].seq < seq_counter'[f]
      BY <1>1, <1>2, <1>3, <1>4, <1>5, <1>8 DEF Appended
    <2>2. \A j, k \in DOMAIN file'[f] : file'[f][j].seq = file'[f][k].seq => j = k
      BY <1>1, <1>2, <1>3, <1>5, <1>8 DEF LogInv, Appended
    <2>3. ASSUME last_buffer[f] # <<>>
          PROVE  /\ Len(last_buffer[f]) = 1
                 /\ last_buffer[f][1].seq < seq_counter'[f]
                 /\ \A k \in DOMAIN file'[f] :
                      file'[f][k].seq # last_buffer[f][1].seq
      <3>1. Len(last_buffer[f]) = 1
        BY <2>3 DEF LogInv
      <3>2. last_buffer[f][1].seq \in Nat
        BY <2>3, BufferedFields
      <3>3. last_buffer[f][1].seq < n
        BY <1>8, <2>3 DEF LogInv, n
      <3>4. \A k \in DOMAIN file[f] : file[f][k].seq # last_buffer[f][1].seq
        BY <2>3 DEF LogInv
      <3>5. QED
        BY <1>1, <1>2, <1>3, <1>4, <1>8, <3>1, <3>2, <3>3, <3>4 DEF Appended
    <2>4. QED
      BY <1>4, <2>1, <2>2, <2>3
  <1>9. QED
    BY <1>7, <1>8

LEMMA BufferCallLog ==
  ASSUME DeepTypeOK, LogInv, NEW c \in Calls, NEW coin, BufferCall(c, coin)
  PROVE  LogInv'
  <1> DEFINE n == seq_counter[c.fn]
             e == EntryOf(c, n)
  <1>1. c.fn \in Functions /\ n \in Nat
    BY DEF Calls, DeepTypeOK
  <1>2. e.seq = n
    BY DEF EntryOf
  <1>3. /\ seq_counter'[c.fn] = n + 1
        /\ last_buffer'[c.fn] = <<e>>
        /\ \A g \in Functions \ {c.fn} : /\ seq_counter'[g] = seq_counter[g]
                                        /\ last_buffer'[g] = last_buffer[g]
        /\ file' = file
    BY <1>1 DEF DeepTypeOK, BufferCall, Counted
  <1>4. \A k \in DOMAIN file[c.fn] : file[c.fn][k].seq \in Nat /\ file[c.fn][k].seq < n
    BY <1>1, EntryFields DEF LogInv
  <1> HIDE DEF n, e
  <1>5. Len(<<e>>) = 1 /\ <<e>>[1] = e
    OBVIOUS
  <1>6. SUFFICES ASSUME NEW f \in Functions
        PROVE  /\ \A k \in DOMAIN file[f] : file[f][k].seq < seq_counter'[f]
               /\ \A j, k \in DOMAIN file[f] :
                    file[f][j].seq = file[f][k].seq => j = k
               /\ last_buffer'[f] # <<>> =>
                    /\ Len(last_buffer'[f]) = 1
                    /\ last_buffer'[f][1].seq < seq_counter'[f]
                    /\ \A k \in DOMAIN file[f] :
                         file[f][k].seq # last_buffer'[f][1].seq
    BY <1>3 DEF LogInv
  <1>7. CASE f = c.fn
    <2>1. \A j, k \in DOMAIN file[f] : file[f][j].seq = file[f][k].seq => j = k
      BY DEF LogInv
    <2>2. \A k \in DOMAIN file[f] : file[f][k].seq < seq_counter'[f]
      BY <1>1, <1>3, <1>4, <1>7
    <2>3. last_buffer'[f][1].seq = n /\ Len(last_buffer'[f]) = 1
      BY <1>2, <1>3, <1>5, <1>7
    <2>4. n < seq_counter'[f] /\ \A k \in DOMAIN file[f] : file[f][k].seq # n
      BY <1>1, <1>3, <1>4, <1>7
    <2>5. QED
      BY <2>1, <2>2, <2>3, <2>4
  <1>8. CASE f # c.fn
    BY <1>3, <1>8 DEF LogInv
  <1>9. QED
    BY <1>7, <1>8

\* A call takes a number, and that may be all it does.
LEMMA CountedLog ==
  ASSUME DeepTypeOK, LogInv, NEW c \in Calls, Counted(c),
         UNCHANGED <<last_buffer, file>>
  PROVE  LogInv'
  <1>1. /\ c.fn \in Functions
        /\ seq_counter[c.fn] \in Nat
        /\ seq_counter'[c.fn] = seq_counter[c.fn] + 1
        /\ \A g \in Functions \ {c.fn} : seq_counter'[g] = seq_counter[g]
        /\ file' = file /\ last_buffer' = last_buffer
    BY DEF Calls, DeepTypeOK, Counted
  <1>2. \A f \in Functions : \A k \in DOMAIN file[f] : file[f][k].seq \in Nat
    BY EntryFields
  <1>3. \A f \in Functions : last_buffer[f] # <<>> => last_buffer[f][1].seq \in Nat
    BY BufferedFields
  <1>4. QED
    BY <1>1, <1>2, <1>3 DEF LogInv

LEMMA PassedCallLog ==
  ASSUME DeepTypeOK, LogInv, NEW c \in Calls, NEW coin,
         SkipCall(c, coin) \/ DedupCall(c, coin)
  PROVE  LogInv'
  BY CountedLog DEF SkipCall, DedupCall

LEMMA WriteFailsLog ==
  ASSUME DeepTypeOK, LogInv, NEW c \in Calls, NEW coin, WriteFails(c, coin)
  PROVE  LogInv'
  BY CountedLog DEF WriteFails

\* last_buffer is taken, and its entry is written or not.
LEMMA TakenLog ==
  ASSUME DeepTypeOK, LogInv, NEW f \in Functions,
         \/ file' = [file EXCEPT ![f] = @ \o last_buffer[f]]
         \/ file' = file,
         last_buffer' = [last_buffer EXCEPT ![f] = <<>>],
         seq_counter' = seq_counter
  PROVE  LogInv' /\ FilesGrow
  <1>1. /\ seq_counter' = seq_counter
        /\ last_buffer'[f] = <<>>
        /\ \A g \in Functions \ {f} : last_buffer'[g] = last_buffer[g]
    BY DEF DeepTypeOK
  <1>2. CASE file' = file
    BY <1>1, <1>2 DEF LogInv, FilesGrow
  <1>3. CASE last_buffer[f] # <<>> /\ Appended(f, last_buffer[f][1])
    <2>1. FilesGrow
      BY <1>3, AppendedGrow
    <2>2. LogInv'
      BY <1>1, <1>3 DEF LogInv, Appended
    <2>3. QED
      BY <2>1, <2>2
  <1>4. QED
    BY <1>2, <1>3, TakenAppends

LEMMA FlushLastLog ==
  ASSUME DeepTypeOK, LogInv, NEW f \in Functions, FlushLast(f)
  PROVE  LogInv' /\ FilesGrow
  BY TakenLog DEF FlushLast

LEMMA FlushFailsLog ==
  ASSUME DeepTypeOK, LogInv, NEW f \in Functions, DropLast(f) \/ StallFlush(f)
  PROVE  LogInv' /\ FilesGrow
  BY TakenLog DEF DropLast, StallFlush

LEMMA LogFrame ==
  ASSUME LogInv, UNCHANGED <<seq_counter, last_buffer, file>>
  PROVE  LogInv' /\ FilesGrow
  BY DEF LogInv, FilesGrow
=============================================================================
