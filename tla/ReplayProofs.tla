---------------------------- MODULE ReplayProofs ----------------------------
(***************************************************************************)
(* Proofs about Replay: what replay_dir makes of the files the program     *)
(* left, for every set of functions, filters and answers of the port.      *)
(* IInv of ReplayInv is the inductive invariant they rest on; LogFileProofs*)
(* proves its part FileInv.                                                *)
(***************************************************************************)
EXTENDS LogFileProofs

(***************************************************************************)
(* What the reader finds in a file of one log: its entries as far as they  *)
(* are whole on disk, and behind them nothing that looks like an entry.    *)
(***************************************************************************)
LEMMA FileOnDisk ==
  ASSUME PathsApart, FileInv, NEW f \in Functions
  PROVE  /\ durable[f] \in Nat /\ Len(disk[Path(f)]) \in Nat
         /\ \A i \in 1 .. durable[f] : disk[Path(f)][i] = f
         /\ \/ Len(disk[Path(f)]) = durable[f]
            \/ /\ Len(disk[Path(f)]) = durable[f] + 1
               /\ disk[Path(f)][durable[f] + 1] = Torn
               /\ durable[f] < Pieces(Len(file[f]))
  <1>1. FileTypeOK /\ DiskInv
    BY DEF FileInv
  <1>2. durable[f] \in Nat /\ disk[Path(f)] \in Seq(Functions \cup {Hole, Torn})
    BY <1>1, AtType
  <1>3. QED
    BY <1>1, <1>2 DEF DiskInv

\* The facts of FileInv about the entries and pieces of f.
LEMMA Lengths ==
  ASSUME FileInv, NEW f \in Functions
  PROVE  /\ file[f] \in Seq(Entry)
         /\ Sound(f) \in Seq(Entry)
         /\ Len(file[f]) \in Nat
         /\ Len(Sound(f)) \in Nat /\ Len(Sound(f)) <= Len(file[f])
         /\ DOMAIN Sound(f) = 1 .. Len(Sound(f))
         /\ DOMAIN file[f] = 1 .. Len(file[f])
         /\ damaged[f] = None => Len(Sound(f)) = Len(file[f])
         /\ durable[f] \in Nat /\ durable[f] <= Pieces(Len(file[f]))
         /\ synced[f] \in Nat
         /\ synced[f] > 0 => Pieces(synced[f]) <= durable[f]
  <1>1. FileTypeOK /\ MeasureInv
    BY DEF FileInv
  <1>2. QED
    BY <1>1, AtType, SoundIs DEF SoundPrefix, MeasureInv

LEMMA NextFrame ==
  ASSUME PathsApart, FileInv, NEW f \in Functions, NEW k \in Nat, k > 0
  PROVE  /\ k <= Len(Sound(f)) /\ Pieces(k) <= durable[f] =>
              EntryAt(Path(f), k) = {file[f][k]}
         /\ ~(k <= Len(Sound(f)) /\ Pieces(k) <= durable[f]) =>
              EntryAt(Path(f), k) = {}
         /\ Garbled(Path(f), k) => Pieces(k) <= durable[f] /\ k > Len(Sound(f))
  <1> DEFINE d == disk[Path(f)]  q == durable[f]  l == Len(Sound(f))
             n == Len(d)
             Has(g) == /\ Pieces(k) <= n
                       /\ d[Pieces(k) - 1] = g /\ d[Pieces(k)] = g
                       /\ k \in DOMAIN Sound(g)
  <1>1. /\ q \in Nat /\ n \in Nat /\ \A i \in 1 .. q : d[i] = f
        /\ n = q \/ (n = q + 1 /\ d[q + 1] = Torn)
    BY FileOnDisk
  <1>2. l \in Nat /\ DOMAIN Sound(f) = 1 .. l
    BY Lengths
  <1>3. Torn \notin Functions
    BY FileAssumption
  <1>4. Pieces(k) \in Nat /\ Pieces(k) > 1
    BY DEF Pieces
  <1>5. EntryAt(Path(f), k) = {file[g][k] : g \in {g \in Functions : Has(g)}}
    BY DEF EntryAt
  <1> HIDE DEF d, q, l, n
  <1>6. Pieces(k) <= q => d[Pieces(k) - 1] = f /\ d[Pieces(k)] = f /\ Pieces(k) <= n
    BY <1>1, <1>4
  <1>7. Pieces(k) <= n /\ ~(Pieces(k) <= q) => d[Pieces(k)] = Torn
    <2>1. Pieces(k) <= n /\ ~(Pieces(k) <= q) => Pieces(k) = q + 1
      BY <1>1, <1>4
    <2>2. QED
      BY <1>1, <1>4, <2>1
  <1>8. ASSUME k <= l, Pieces(k) <= q
        PROVE  EntryAt(Path(f), k) = {file[f][k]}
    <2>1. \A g \in Functions : Has(g) <=> g = f
      BY <1>2, <1>6, <1>8
    <2> HIDE DEF Has
    <2>2. {g \in Functions : Has(g)} = {f}
      BY <2>1
    <2>3. QED
      BY <1>5, <2>2
  <1>9. ASSUME ~(k <= l /\ Pieces(k) <= q)
        PROVE  EntryAt(Path(f), k) = {}
    <2>1. \A g \in Functions : ~Has(g)
      <3>1. SUFFICES ASSUME NEW g \in Functions, Has(g)
                     PROVE  FALSE
        OBVIOUS
      <3>2. Pieces(k) <= q
        BY <1>3, <1>7, <3>1
      <3>3. g = f
        BY <1>6, <3>1, <3>2
      <3>4. QED
        BY <1>2, <1>9, <3>1, <3>2, <3>3
    <2> HIDE DEF Has
    <2>2. {g \in Functions : Has(g)} = {}
      BY <2>1
    <2>3. QED
      BY <1>5, <2>2
  <1>10. ASSUME Garbled(Path(f), k)
         PROVE  Pieces(k) <= q /\ k > l
    <2>1. /\ Pieces(k) <= n /\ EntryAt(Path(f), k) = {}
          /\ d[Pieces(k)] # Torn
      BY <1>4, <1>10, <1>1 DEF Garbled, d, n
    <2>2. Pieces(k) <= q
      BY <1>7, <2>1
    <2>3. ~(k <= l)
      BY <1>8, <2>1, <2>2
    <2>4. QED
      BY <1>2, <2>2, <2>3
  <1>11. QED
    BY <1>8, <1>9, <1>10 DEF q, l

\* LogReader::open succeeds where the prefix is on disk.
LEMMA PrefixOnDisk ==
  ASSUME PathsApart, FileInv, NEW f \in Functions
  PROVE  HasPrefix(Path(f)) <=> durable[f] > 0
  <1> DEFINE d == disk[Path(f)]  q == durable[f]
  <1>1. /\ q \in Nat /\ Len(d) \in Nat /\ \A i \in 1 .. q : d[i] = f
        /\ Len(d) = q \/ (Len(d) = q + 1 /\ d[q + 1] = Torn)
    BY FileOnDisk
  <1>2. d \in Seq(Functions \cup {Hole, Torn})
    BY AtType DEF FileInv
  <1>3. d # <<>> <=> Len(d) > 0
    BY <1>2
  <1>4. HasPrefix(Path(f)) <=> d # <<>> /\ d[1] \in Functions
    BY DEF HasPrefix
  <1>5. Torn \notin Functions
    BY FileAssumption
  <1> HIDE DEF d, q
  <1>6. CASE q = 0
    BY <1>1, <1>3, <1>4, <1>5, <1>6 DEF q
  <1>7. CASE q # 0
    <2>1. q > 0 /\ d[1] = f /\ Len(d) > 0
      BY <1>1, <1>7
    <2>2. QED
      BY <1>3, <1>4, <2>1 DEF q
  <1>8. QED
    BY <1>6, <1>7

LEMMA HalfFrameIs ==
  ASSUME PathsApart, NEW f \in Functions, NEW k \in Nat, k > 0,
         HalfFrame(Path(f), k)
  PROVE  damaged[f] # None
  <1>1. PICK g \in Functions : Path(g) = Path(f) /\ damaged[g] = k - 1
    BY DEF HalfFrame
  <1>2. g = f
    BY <1>1 DEF PathsApart
  <1>3. k - 1 # None
    BY DEF None
  <1>4. QED
    BY <1>1, <1>2, <1>3

\* The whole entries on disk are the sound ones whose pieces are there.
LEMMA WholeIs ==
  ASSUME PathsApart, FileInv, NEW f \in Functions
  PROVE  /\ OnDiskWhole(f) \in 0 .. Len(Sound(f))
         /\ OnDiskWhole(f) > 0 => Pieces(OnDiskWhole(f)) <= durable[f]
         /\ \A k \in 1 .. Len(Sound(f)) :
              Pieces(k) <= durable[f] => k <= OnDiskWhole(f)
  <1> DEFINE d == disk[Path(f)]  q == durable[f]  l == Len(Sound(f))
             S == {0} \cup {k \in 1 .. l : Pieces(k) <= q}
             T == {0} \cup {k \in DOMAIN Sound(f) :
                              /\ Pieces(k) <= Len(d)
                              /\ \A i \in 1 .. Pieces(k) : d[i] = f}
  <1>1. OnDiskWhole(f) = Max(T)
    BY DEF OnDiskWhole
  <1>2. /\ q \in Nat /\ Len(d) \in Nat /\ \A i \in 1 .. q : d[i] = f
        /\ Len(d) = q \/ (Len(d) = q + 1 /\ d[q + 1] = Torn)
    BY FileOnDisk
  <1>3. l \in Nat /\ DOMAIN Sound(f) = 1 .. l
    BY Lengths
  <1>4. Torn # f
    BY FileAssumption
  <1> HIDE DEF d, q, l
  <1>5. ASSUME NEW k \in 1 .. l
        PROVE  Pieces(k) <= q <=> /\ Pieces(k) <= Len(d)
                                  /\ \A i \in 1 .. Pieces(k) : d[i] = f
    <2>1. Pieces(k) \in Nat /\ Pieces(k) >= 1
      BY <1>3 DEF Pieces
    <2>2. CASE Pieces(k) <= q
      BY <1>2, <2>1, <2>2
    <2>3. CASE ~(Pieces(k) <= q) /\ Pieces(k) <= Len(d)
      <3>1. Pieces(k) = q + 1 /\ d[q + 1] = Torn
        BY <1>2, <2>1, <2>3
      <3>2. q + 1 \in 1 .. Pieces(k)
        BY <1>2, <3>1
      <3>3. QED
        BY <1>4, <2>3, <3>1, <3>2
    <2>4. CASE ~(Pieces(k) <= q) /\ ~(Pieces(k) <= Len(d))
      BY <2>4
    <2>5. QED
      BY <2>2, <2>3, <2>4
  <1>6. S = T
    BY <1>3, <1>5
  <1>7. Max(S) \in S /\ \A k \in S : Max(S) >= k
    BY <1>2, <1>3, WholeMax
  <1>8. S \subseteq 0 .. l
    BY <1>3
  <1> HIDE DEF T
  <1> DEFINE w == OnDiskWhole(f)
  <1>9. w \in S /\ \A k \in S : w >= k
    BY <1>1, <1>6, <1>7
  <1> HIDE DEF w
  <1>10. w \in 0 .. l
    BY <1>8, <1>9
  <1>11. w > 0 => Pieces(w) <= q
    BY <1>9, <1>10
  <1>12. \A k \in 1 .. l : Pieces(k) <= q => k <= w
    BY <1>9, <1>10, <1>3
  <1>13. QED
    BY <1>10, <1>11, <1>12 DEF w, l, q
-----------------------------------------------------------------------------
(***************************************************************************)
(* Types and stages of a replay.                                           *)
(***************************************************************************)
\* What the reader has open does not change what it reads.
LEMMA SameFiles ==
  ASSUME UNCHANGED <<sessionVars, fileVars>>, NEW f
  PROVE  /\ UNCHANGED <<logs, file, durable, compressed, alive, damaged, disk>>
         /\ Reads(f, report') => Reads(f, report)'
         /\ \A i : ReadsAll(f, reports'[i].entries) =>
                     ReadsAll(f, reports[i].entries)'
  <1>1. UNCHANGED <<logs, file, durable, compressed, alive, damaged, disk>>
    BY DEF sessionVars, deepVars, fileVars
  <1>2. Sound(f)' = Sound(f)
    BY <1>1 DEF Sound
  <1>3. \A i : ReadAs(f, i)' = ReadAs(f, i)
    BY <1>1, <1>2 DEF ReadAs
  <1>4. OnDiskWhole(f)' = OnDiskWhole(f)
    BY <1>1, <1>2 DEF OnDiskWhole
  <1>5. Reads(f, report') => Reads(f, report)'
    BY <1>1, <1>3 DEF Reads
  <1>6. \A i : ReadsAll(f, reports'[i].entries) =>
                 ReadsAll(f, reports[i].entries)'
    BY <1>1, <1>2, <1>3, <1>4 DEF ReadsAll, Reads
  <1>7. QED
    BY <1>1, <1>5, <1>6

\* The logs act while the program runs, and only add to the registry.
LEMMA LogStepRuns ==
  ASSUME LogStep
  PROVE  alive /\ logs \subseteq logs'
  BY DEF LogStep, LogOpen, LogRecord, LogFlush, RecordFails, FlushFails, Stop,
         WriteFails, DropLast, StallFlush, Open, CreateLog, Offer, Flush, FlushLast, SkipCall, DedupCall,
         WriteCall, BufferCall, sessionVars, deepVars

LEMMA NextStage ==
  ASSUME StageInv, [Next]_vars
  PROVE  StageInv'
  <1>1. CASE LogStep /\ UNCHANGED replayVars
    <2>1. verdict = "none"
      BY <1>1, LogStepRuns DEF StageInv
    <2>2. QED
      BY <1>1, <2>1 DEF StageInv, replayVars
  <1>2. CASE StartReplay
    <2>1. UNCHANGED <<logs, alive>>
      BY <1>2, SameFiles DEF StartReplay
    <2>2. unread' = {Path(f) : f \in logs'} /\ wanted' \subseteq unread'
      BY <1>2, <2>1 DEF StartReplay
    <2>3. QED
      BY <1>2, <2>1, <2>2 DEF StartReplay, StageInv
  <1> SUFFICES ASSUME ~(LogStep /\ UNCHANGED replayVars), ~StartReplay
               PROVE  StageInv'
    BY <1>1, <1>2
  <1>3. UNCHANGED <<logs, alive>>
    BY ReplayReads, SameFiles DEF Next, vars, SkipFile, OpenFails, OpenFile,
       NextEntry, BogusEntry, EndOfFile, ReadFails, Finish, Done, Fail, Report
  <1>4. ASSUME NEW p \in Paths, SkipFile(p)
        PROVE  StageInv'
    BY <1>3, <1>4 DEF SkipFile, StageInv
  <1>5. ASSUME NEW p \in Paths, OpenFails(p) \/ OpenFile(p)
        PROVE  StageInv'
    <2>1. /\ reading' = {p} /\ p \in unread /\ p \in wanted
          /\ unread' = unread \ {p} /\ wanted' = wanted
          /\ reading = {} /\ verdict = "running"
          /\ verdict' = "running" \/ (verdict' = "error" /\ reports' = <<>>)
      BY <1>5 DEF OpenFails, OpenFile, Fail
    <2>2. QED
      BY <1>3, <2>1 DEF StageInv
  <1>6. ASSUME NEW p \in Paths, NextEntry(p) \/ BogusEntry(p)
        PROVE  StageInv'
    <2>1. /\ UNCHANGED <<wanted, unread, reading, reports, verdict>>
      BY <1>6 DEF NextEntry, BogusEntry, Report
    <2>2. QED
      BY <1>3, <2>1 DEF StageInv
  <1>7. ASSUME NEW p \in Paths, EndOfFile(p)
        PROVE  StageInv'
    BY <1>3, <1>7 DEF EndOfFile, StageInv
  <1>8. ASSUME NEW p \in Paths, ReadFails(p)
        PROVE  StageInv'
    BY <1>3, <1>8 DEF ReadFails, Fail, StageInv
  <1>9. CASE Finish
    BY <1>3, <1>9 DEF Finish, StageInv
  <1>10. CASE Done \/ UNCHANGED vars
    BY <1>3, <1>10 DEF Done, vars, replayVars, StageInv
  <1>11. QED
    BY <1>4, <1>5, <1>6, <1>7, <1>8, <1>9, <1>10 DEF Next

\* Only one file is open.
LEMMA OneOpen ==
  ASSUME StageInv, NEW p \in reading
  PROVE  reading = {p}
  BY DEF StageInv

\* The sorted reports are the reports in another order.
LEMMA SortedIs ==
  ASSUME NEW r \in SortedReports, NEW S, reports \in Seq(S)
  PROVE  /\ r \in Seq(S) /\ Len(r) = Len(reports)
         /\ \A i, j \in DOMAIN r : i < j => r[i].stem <= r[j].stem
         /\ \E p \in Bijection(DOMAIN reports, DOMAIN reports) :
              \A i \in DOMAIN reports : r[i] = reports[p[i]]
  <1> DEFINE n == Len(reports)
  <1>1. /\ n \in Nat /\ DOMAIN reports = 1 .. n
        /\ \A i \in 1 .. n : reports[i] \in S
    OBVIOUS
  <1>2. PICK p \in Bijection(DOMAIN reports, DOMAIN reports) :
             r = [i \in DOMAIN reports |-> reports[p[i]]]
    BY DEF SortedReports
  <1>3. \A i, j \in DOMAIN r : i < j => r[i].stem <= r[j].stem
    BY DEF SortedReports
  <1>4. p \in [1 .. n -> 1 .. n]
    BY <1>1, <1>2 DEF Bijection, Injection
  <1> HIDE DEF n
  <1>5. r \in [1 .. n -> S]
    BY <1>1, <1>2, <1>4
  <1>6. r \in Seq(S)
    BY <1>1, <1>5, SeqDef
  <1>7. DOMAIN r = 1 .. n
    BY <1>5
  <1>8. Len(r) = n
    BY <1>1, <1>6, <1>7
  <1>9. QED
    BY <1>2, <1>3, <1>6, <1>8 DEF n

LEMMA EntriesAt ==
  ASSUME FileInv, NEW p, NEW k \in Nat, NEW e \in EntryAt(p, k)
  PROVE  e \in Entry
  <1>1. PICK f \in Functions : k \in DOMAIN Sound(f) /\ e = file[f][k]
    BY DEF EntryAt
  <1>2. k \in 1 .. Len(file[f]) /\ file[f] \in Seq(Entry)
    BY <1>1, Lengths
  <1>3. QED
    BY <1>1, <1>2

\* What the reader reports of an entry.
LEMMA OutcomeType ==
  ASSUME AnswerTotal, NEW e \in Entry
  PROVE  [seq |-> e.seq, hash |-> e.hash, answer |-> Answer(e)] \in Outcome \ {Bogus}
  <1>1. e.seq \in Nat /\ e.hash \in Hashes /\ Answer(e) \in Answers
    BY DEF AnswerTotal, Entry
  <1>2. e.seq # None
    BY <1>1 DEF None
  <1>3. [seq |-> e.seq, hash |-> e.hash, answer |-> Answer(e)].seq = e.seq
    OBVIOUS
  <1>4. Bogus.seq = None
    BY DEF Bogus
  <1>5. [seq |-> e.seq, hash |-> e.hash, answer |-> Answer(e)] # Bogus
    BY <1>2, <1>3, <1>4
  <1>6. QED
    BY <1>1, <1>5 DEF Outcome

LEMMA NextType ==
  ASSUME AnswerTotal, TypeOK, FileInv, FileInv', StageInv, [Next]_vars
  PROVE  TypeOK'
  <1> DEFINE R == [stem : Paths, entries : Seq(Outcome)]
  <1>1. FileTypeOK'
    BY DEF FileInv
  <1>2. Cardinality({}) <= 1 /\ \A p : Cardinality({p}) <= 1
    <2>1. Cardinality({}) = 0
      BY FS_EmptySet
    <2>2. \A p : Cardinality({p}) = 1
      BY FS_Singleton
    <2>3. 0 <= 1 /\ 1 <= 1
      OBVIOUS
    <2> DEFINE card(S) == Cardinality(S)
    <2>4. card({}) = 0 /\ \A p : card({p}) = 1
      BY <2>1, <2>2
    <2> HIDE DEF card
    <2>5. card({}) <= 1 /\ \A p : card({p}) <= 1
      BY <2>3, <2>4
    <2>6. QED
      BY <2>5 DEF card
  <1>3. /\ wanted \in SUBSET Paths /\ unread \in SUBSET Paths
        /\ reading \in SUBSET Paths /\ Cardinality(reading) <= 1 /\ pos \in Nat
        /\ report \in Seq(Outcome) /\ reports \in Seq(R)
        /\ verdict \in {"none", "running", "ok", "error"}
    BY DEF TypeOK
  <1>4. SUFFICES /\ wanted' \in SUBSET Paths /\ unread' \in SUBSET Paths
                 /\ reading' \in SUBSET Paths /\ Cardinality(reading') <= 1
                 /\ pos' \in Nat
                 /\ report' \in Seq(Outcome) /\ reports' \in Seq(R)
                 /\ verdict' \in {"none", "running", "ok", "error"}
    BY <1>1 DEF TypeOK
  <1> DEFINE Goal == /\ wanted' \in SUBSET Paths /\ unread' \in SUBSET Paths
                     /\ reading' \in SUBSET Paths /\ Cardinality(reading') <= 1
                     /\ pos' \in Nat
                     /\ report' \in Seq(Outcome) /\ reports' \in Seq(R)
                     /\ verdict' \in {"none", "running", "ok", "error"}
  <1>5. CASE UNCHANGED replayVars
    BY <1>3, <1>5 DEF replayVars
  <1>6. CASE StartReplay
    <2>1. {Path(f) : f \in logs} \subseteq Paths
      BY DEF Paths, FileInv, FileTypeOK, SessionTypeOK, DeepTypeOK
    <2>2. QED
      BY <1>3, <1>6, <2>1 DEF StartReplay
  <1>7. ASSUME NEW p \in Paths, SkipFile(p)
        PROVE  Goal
    BY <1>3, <1>7 DEF SkipFile
  <1>8. ASSUME NEW p \in Paths, OpenFails(p) \/ OpenFile(p)
        PROVE  Goal
    <2>1. /\ wanted' = wanted /\ unread' = unread \ {p} /\ reading' = {p}
          /\ pos' = 0 /\ report' = <<>>
          /\ \/ reports' = reports /\ verdict' = verdict
             \/ reports' = <<>> /\ verdict' = "error"
      BY <1>8 DEF OpenFails, OpenFile, Fail
    <2>2. Cardinality(reading') <= 1 /\ reading' \in SUBSET Paths
      BY <1>2, <2>1
    <2> HIDE DEF R
    <2>3. reports' \in Seq(R)
      <3>1. <<>> \in Seq(R)
        OBVIOUS
      <3>2. reports \in Seq(R)
        BY <1>3
      <3>3. QED
        BY <2>1, <3>1, <3>2
    <2>4. QED
      BY <1>3, <2>1, <2>2, <2>3
  <1>9. ASSUME NEW p \in Paths, NEW o \in Outcome, Report(o)
        PROVE  Goal
    BY <1>3, <1>9 DEF Report
  <1>10. ASSUME NEW p \in Paths, NextEntry(p)
         PROVE  Goal
    <2>1. PICK e \in EntryAt(p, pos + 1) :
               Report([seq |-> e.seq, hash |-> e.hash, answer |-> Answer(e)])
      BY <1>10 DEF NextEntry
    <2>2. e \in Entry
      BY <1>3, EntriesAt
    <2>3. QED
      BY <1>9, <2>1, <2>2, OutcomeType
  <1>11. ASSUME NEW p \in Paths, BogusEntry(p)
         PROVE  Goal
    <2>1. Bogus \in Outcome
      BY DEF Outcome
    <2>2. QED
      BY <1>9, <1>11, <2>1 DEF BogusEntry
  <1>12. ASSUME NEW p \in Paths, EndOfFile(p)
         PROVE  Goal
    <2>1. [stem |-> p, entries |-> report] \in R
      BY <1>3
    <2> HIDE DEF R
    <2>2. reports' \in Seq(R)
      BY <1>3, <1>12, <2>1 DEF EndOfFile
    <2>3. QED
      BY <1>2, <1>3, <1>12, <2>2 DEF EndOfFile
  <1>13. ASSUME NEW p \in Paths, ReadFails(p)
         PROVE  Goal
    BY <1>3, <1>13 DEF ReadFails, Fail
  <1>14. CASE Finish
    <2>1. reports' \in Seq(R)
      BY <1>3, <1>14, SortedIs DEF Finish
    <2> HIDE DEF R
    <2>2. QED
      BY <1>3, <1>14, <2>1 DEF Finish
  <1>15. QED
    BY <1>5, <1>6, <1>7, <1>8, <1>10, <1>11, <1>12, <1>13, <1>14
       DEF Next, Done, vars
-----------------------------------------------------------------------------
(***************************************************************************)
(* Reports: one for each file, and what each says of its file.             *)
(***************************************************************************)
\* The report of the file that was open is the last one.
LEMMA ReportAdded ==
  ASSUME TypeOK, NEW p, EndOfFile(p)
  PROVE  LET n == Len(reports) IN
         /\ n \in Nat /\ DOMAIN reports = 1 .. n /\ DOMAIN reports' = 1 .. n + 1
         /\ \A i \in 1 .. n : reports'[i] = reports[i]
         /\ reports'[n + 1].stem = p /\ reports'[n + 1].entries = report
  <1> DEFINE o == [stem |-> p, entries |-> report]
             n == Len(reports)
  <1>1. reports \in Seq([stem : Paths, entries : Seq(Outcome)])
    BY DEF TypeOK
  <1>2. reports' = Append(reports, o)
    BY DEF EndOfFile
  <1>3. o.stem = p /\ o.entries = report
    OBVIOUS
  <1> HIDE DEF o
  <1>4. n \in Nat /\ DOMAIN reports = 1 .. n
    BY <1>1
  <1>5. /\ DOMAIN reports' = 1 .. n + 1 /\ reports'[n + 1] = o
        /\ \A i \in 1 .. n : reports'[i] = reports[i]
    BY <1>1, <1>2
  <1>6. QED
    BY <1>3, <1>4, <1>5

LEMMA NextStems ==
  ASSUME TypeOK, StageInv, StemsInv, [Next]_vars
  PROVE  StemsInv'
  <1>1. CASE UNCHANGED <<wanted, unread, reading, reports, verdict>>
    BY <1>1 DEF StemsInv
  <1>2. CASE StartReplay
    <2>1. /\ reports = <<>> /\ reports' = reports /\ verdict' = "running"
          /\ wanted' \subseteq unread'
      BY <1>2 DEF StartReplay, StageInv
    <2>2. DOMAIN <<>> = {}
      OBVIOUS
    <2>3. QED
      BY <2>1, <2>2 DEF StemsInv
  <1>3. ASSUME NEW p \in Paths, SkipFile(p)
        PROVE  StemsInv'
    BY <1>3 DEF SkipFile, StemsInv
  <1>4. ASSUME NEW p \in Paths, OpenFile(p)
        PROVE  StemsInv'
    BY <1>4 DEF OpenFile, StemsInv, StageInv
  <1>5. ASSUME NEW p \in Paths, OpenFails(p) \/ ReadFails(p)
        PROVE  StemsInv'
    <2>1. reports' = <<>> /\ verdict' = "error"
      BY <1>5 DEF OpenFails, ReadFails, Fail
    <2>2. DOMAIN <<>> = {}
      OBVIOUS
    <2>3. QED
      BY <2>1, <2>2 DEF StemsInv
  <1>6. ASSUME NEW p \in Paths, EndOfFile(p)
        PROVE  StemsInv'
    <2> DEFINE n == Len(reports)
    <2>1. /\ n \in Nat /\ DOMAIN reports = 1 .. n /\ DOMAIN reports' = 1 .. n + 1
          /\ \A i \in 1 .. n : reports'[i].stem = reports[i].stem
          /\ reports'[n + 1].stem = p
      BY <1>6, ReportAdded
    <2>2. /\ p \in reading /\ reading' = {} /\ unread' = unread
          /\ wanted' = wanted /\ verdict = "running" /\ verdict' = verdict
      BY <1>6 DEF EndOfFile
    <2>3. reading = {p} /\ p \in wanted /\ p \notin unread
      BY <2>2, OneOpen DEF StageInv
    <2>4. {reports[i].stem : i \in 1 .. n} = wanted \ (unread \cup reading)
      BY <2>1, <2>2 DEF StemsInv
    <2>5. \A i, j \in 1 .. n : reports[i].stem = reports[j].stem => i = j
      BY <2>1 DEF StemsInv
    <2> HIDE DEF n
    <2>6. {reports'[i].stem : i \in 1 .. n + 1}
            = {reports[i].stem : i \in 1 .. n} \cup {p}
      BY <2>1
    <2>7. \A i \in 1 .. n : reports[i].stem # p
      BY <2>3, <2>4
    <2>8. \A i, j \in 1 .. n + 1 : reports'[i].stem = reports'[j].stem => i = j
      <3>1. \A i \in 1 .. n + 1 : i \in 1 .. n \/ i = n + 1
        BY <2>1
      <3>2. QED
        BY <2>1, <2>5, <2>7, <3>1
    <2>9. {reports'[i].stem : i \in 1 .. n + 1} = wanted' \ (unread' \cup reading')
      BY <2>2, <2>3, <2>4, <2>6
    <2>10. QED
      BY <2>1, <2>2, <2>8, <2>9 DEF StemsInv
  <1>7. CASE Finish
    <2> DEFINE D == DOMAIN reports
    <2>1. /\ wanted' = wanted /\ unread' = unread /\ reading' = reading
          /\ verdict = "running" /\ verdict' = "ok"
          /\ reports' \in SortedReports
      BY <1>7 DEF Finish
    <2>2. /\ reports \in Seq([stem : Paths, entries : Seq(Outcome)])
      BY DEF TypeOK
    <2>3. /\ Len(reports') = Len(reports)
          /\ reports' \in Seq([stem : Paths, entries : Seq(Outcome)])
          /\ \A i, j \in DOMAIN reports' :
               i < j => reports'[i].stem <= reports'[j].stem
      BY <2>1, <2>2, SortedIs
    <2>4. PICK b \in Bijection(D, D) : \A i \in D : reports'[i] = reports[b[i]]
      BY <2>1, <2>2, SortedIs
    <2>5. DOMAIN reports' = D
      BY <2>2, <2>3
    <2>6. /\ \A i \in D : b[i] \in D
          /\ \A i, j \in D : b[i] = b[j] => i = j
          /\ \A j \in D : \E i \in D : b[i] = j
      BY <2>4 DEF Bijection, Injection, Surjection, IsInjective
    <2>7. /\ {reports[i].stem : i \in D} = wanted \ (unread \cup reading)
          /\ \A i, j \in D : reports[i].stem = reports[j].stem => i = j
      BY <2>1 DEF StemsInv
    <2> HIDE DEF D
    <2>8. {reports'[i].stem : i \in D} = {reports[i].stem : i \in D}
      BY <2>4, <2>6
    <2>9. \A i, j \in D : reports'[i].stem = reports'[j].stem => i = j
      BY <2>4, <2>6, <2>7
    <2>10. QED
      BY <2>1, <2>3, <2>5, <2>7, <2>8, <2>9 DEF StemsInv
  <1>8. QED
    BY <1>1, <1>2, <1>3, <1>4, <1>5, <1>6, <1>7 DEF Next, vars, replayVars,
       NextEntry, BogusEntry, Report, Done

\* A sound entry is never taken for a bogus one.
LEMMA NotBogus ==
  ASSUME FileInv, NEW f \in Functions, NEW i \in 1 .. Len(Sound(f))
  PROVE  ReadAs(f, i) # Bogus
  <1>1. file[f][i] \in Entry /\ ~(i > Len(Sound(f)))
    BY Lengths
  <1>2. file[f][i].seq \in Nat
    BY <1>1 DEF Entry
  <1>3. ReadAs(f, i).seq = file[f][i].seq
    BY <1>1 DEF ReadAs
  <1>4. Bogus.seq = None
    BY DEF Bogus
  <1>5. QED
    BY <1>2, <1>3, <1>4 DEF None

LEMMA ReadsMore ==
  ASSUME NEW f \in Functions, NEW r \in Seq(Outcome), Reads(f, r),
         Pieces(Len(r) + 1) <= durable[f]
  PROVE  Reads(f, Append(r, ReadAs(f, Len(r) + 1)))
  <1> DEFINE n == Len(r)  o == ReadAs(f, n + 1)  t == Append(r, o)
  <1>1. n \in Nat /\ DOMAIN r = 1 .. n /\ \A i \in 1 .. n : r[i] = ReadAs(f, i)
    BY DEF Reads
  <1>2. /\ Len(t) = n + 1 /\ DOMAIN t = 1 .. n + 1 /\ t[n + 1] = o
        /\ \A i \in 1 .. n : t[i] = r[i]
    <2> HIDE DEF o
    <2>1. QED
      BY <1>1
  <1>3. Pieces(n + 1) <= durable[f]
    OBVIOUS
  <1> HIDE DEF n, t
  <1>4. \A i \in 1 .. n + 1 : t[i] = ReadAs(f, i)
    <2>1. \A i \in 1 .. n + 1 : i \in 1 .. n \/ i = n + 1
      BY <1>1
    <2>2. QED
      BY <1>1, <1>2, <2>1
  <1>5. Reads(f, t)
    BY <1>2, <1>3, <1>4 DEF Reads
  <1>6. QED
    BY <1>5 DEF t, n

LEMMA DerailedIs ==
  ASSUME FileInv, NEW f \in Functions, report \in Seq(Outcome),
         Reads(f, report), Derailed
  PROVE  Len(report) > Len(Sound(f))
  <1>1. PICK i \in DOMAIN report : report[i] = Bogus
    BY DEF Derailed, Range
  <1>2. ReadAs(f, i) = Bogus /\ i \in 1 .. Len(report)
    BY <1>1 DEF Reads
  <1>3. i \notin 1 .. Len(Sound(f)) /\ Len(Sound(f)) \in Nat
    BY <1>2, NotBogus, Lengths
  <1>4. QED
    BY <1>2, <1>3

\* Where the reader comes to an end, it has read all that is whole on disk.
LEMMA ReadsEnd ==
  ASSUME PathsApart, FileInv, NEW f \in Functions, report \in Seq(Outcome),
         Reads(f, report), Len(report) = pos,
         AtEnd(Path(f), pos + 1) \/ Derailed
  PROVE  ReadsAll(f, report)
  <1> DEFINE w == OnDiskWhole(f)  l == Len(Sound(f))  q == durable[f]
             n == Len(report)  m == Len(disk[Path(f)])
  <1>1. /\ w \in 0 .. l /\ l \in Nat /\ q \in Nat /\ n \in Nat /\ m \in Nat
        /\ w > 0 => Pieces(w) <= q
        /\ \A k \in 1 .. l : Pieces(k) <= q => k <= w
        /\ n > 0 => Pieces(n) <= q
        /\ m = q \/ m = q + 1
    BY WholeIs, Lengths, FileOnDisk DEF Reads
  <1>2. n > l \/ m = Pieces(n)
    <2>1. CASE Derailed
      BY <2>1, DerailedIs
    <2>2. CASE AtEnd(Path(f), pos + 1)
      <3>1. m = Pieces(pos + 1 - 1) /\ pos = n
        BY <2>2 DEF AtEnd
      <3>2. pos + 1 - 1 = n
        BY <1>1, <3>1
      <3>3. QED
        BY <3>1, <3>2
    <2>3. QED
      BY <2>1, <2>2
  <1> HIDE DEF w, l, q, n, m
  <1>3. n >= w
    <2>1. CASE n > l
      BY <1>1, <2>1
    <2>2. CASE m = Pieces(n) /\ w > 0
      BY <1>1, <2>2 DEF Pieces
    <2>3. CASE ~(w > 0)
      BY <1>1, <2>3
    <2>4. QED
      BY <1>2, <2>1, <2>2, <2>3
  <1>4. n > w => n > l
    <2>1. SUFFICES ASSUME n > w, n <= l
                   PROVE  FALSE
      BY <1>1
    <2>2. n \in 1 .. l /\ Pieces(n) <= q
      BY <1>1, <2>1
    <2>3. QED
      BY <1>1, <2>1, <2>2
  <1>5. QED
    BY <1>3, <1>4 DEF ReadsAll, n, w, l

LEMMA NextReads ==
  ASSUME TypeOK, FileInv, StageInv, ReadInv, [Next]_vars
  PROVE  ReadInv'
  <1> SUFFICES ASSUME PathsApart, NEW f \in Functions
      PROVE  /\ Path(f) \in reading' =>
                  /\ Len(report') = pos'
                  /\ Reads(f, report)'
                  /\ verdict' = "running" => durable'[f] > 0
             /\ \A i \in DOMAIN reports' :
                  reports'[i].stem = Path(f) => ReadsAll(f, reports[i].entries)'
    BY DEF ReadInv
  <1>1. CASE LogStep /\ UNCHANGED replayVars
    <2>1. verdict = "none"
      BY <1>1, LogStepRuns DEF StageInv
    <2>2. reading' = {} /\ reports' = <<>>
      BY <1>1, <2>1 DEF StageInv, replayVars
    <2>3. DOMAIN <<>> = {}
      OBVIOUS
    <2>4. QED
      BY <2>2, <2>3
  <1> DEFINE Opened == Path(f) \in reading' =>
                       /\ Len(report') = pos'
                       /\ Reads(f, report')
                       /\ verdict' = "running" => durable[f] > 0
             Closed == \A i \in DOMAIN reports' :
                         reports'[i].stem = Path(f) =>
                           ReadsAll(f, reports'[i].entries)
  <1>2. ASSUME UNCHANGED <<sessionVars, fileVars>>
        PROVE  Opened /\ Closed
    <2>1. /\ Path(f) \in reading =>
               /\ Len(report) = pos
               /\ Reads(f, report)
               /\ verdict = "running" => durable[f] > 0
          /\ \A i \in DOMAIN reports :
               reports[i].stem = Path(f) => ReadsAll(f, reports[i].entries)
      BY DEF ReadInv
    <2>2. report \in Seq(Outcome) /\ pos \in Nat
      BY DEF TypeOK
    <2>3. CASE UNCHANGED <<reading, report, pos, reports, verdict>>
      BY <2>1, <2>3
    <2>4. CASE StartReplay
      <3>1. reading' = {} /\ reports' = <<>>
        BY <2>4 DEF StartReplay, StageInv
      <3>2. DOMAIN <<>> = {}
        OBVIOUS
      <3>3. QED
        BY <3>1, <3>2
    <2>5. ASSUME NEW p \in Paths, OpenFails(p) \/ OpenFile(p)
          PROVE  Opened /\ Closed
      <3>1. /\ reading' = {p} /\ pos' = 0 /\ report' = <<>>
            /\ \/ verdict' = "error" /\ reports' = <<>>
               \/ HasPrefix(p) /\ reports' = reports
        BY <2>5 DEF OpenFails, OpenFile, Fail
      <3>2. DOMAIN <<>> = {} /\ Len(<<>>) = 0
        OBVIOUS
      <3>3. Reads(f, report')
        BY <3>1, <3>2 DEF Reads
      <3>4. Opened
        BY <3>1, <3>2, <3>3, PrefixOnDisk
      <3>5. Closed
        BY <2>1, <3>1, <3>2
      <3>6. QED
        BY <3>4, <3>5
    <2>6. ASSUME NEW p \in Paths, NextEntry(p) \/ BogusEntry(p)
          PROVE  Opened /\ Closed
      <3>1. /\ p \in reading /\ reading' = reading /\ pos' = pos + 1
            /\ reports' = reports /\ verdict' = verdict
        BY <2>6 DEF NextEntry, BogusEntry, Report
      <3>2. Closed
        BY <2>1, <3>1
      <3>3. ASSUME Path(f) \in reading
            PROVE  Len(report') = pos' /\ Reads(f, report')
        <4>1. p = Path(f) /\ Len(report) = pos /\ Reads(f, report)
          BY <2>1, <3>1, <3>3 DEF StageInv
        <4>2. /\ Pieces(pos + 1) <= durable[f]
              /\ report' = Append(report, ReadAs(f, pos + 1))
          <5>1. pos + 1 \in Nat /\ pos + 1 > 0 /\ Len(Sound(f)) \in Nat
            BY <2>2, Lengths
          <5>2. CASE NextEntry(p)
            <6>1. PICK e \in EntryAt(Path(f), pos + 1) :
                    report' = Append(report, [seq |-> e.seq, hash |-> e.hash,
                                              answer |-> Answer(e)])
              BY <4>1, <5>2 DEF NextEntry, Report
            <6>2. /\ pos + 1 <= Len(Sound(f)) /\ Pieces(pos + 1) <= durable[f]
                  /\ e = file[f][pos + 1]
              BY <5>1, <6>1, NextFrame
            <6>3. QED
              BY <5>1, <6>1, <6>2 DEF ReadAs
          <5>3. CASE BogusEntry(p)
            <6>1. Garbled(Path(f), pos + 1) /\ report' = Append(report, Bogus)
              BY <4>1, <5>3 DEF BogusEntry, Report
            <6>2. pos + 1 > Len(Sound(f)) /\ Pieces(pos + 1) <= durable[f]
              BY <5>1, <6>1, NextFrame
            <6>3. QED
              BY <6>1, <6>2 DEF ReadAs
          <5>4. QED
            BY <2>6, <5>2, <5>3
        <4>3. Reads(f, report')
          BY <2>2, <4>1, <4>2, ReadsMore
        <4>4. Len(report') = pos + 1
          <5> DEFINE o == ReadAs(f, pos + 1)
          <5> HIDE DEF o
          <5>1. report' = Append(report, o)
            BY <4>2 DEF o
          <5>2. QED
            BY <2>2, <4>1, <5>1
        <4>5. QED
          BY <3>1, <4>3, <4>4
      <3>4. QED
        BY <2>1, <3>1, <3>2, <3>3
    <2>7. ASSUME NEW p \in Paths, EndOfFile(p)
          PROVE  Opened /\ Closed
      <3> DEFINE n == Len(reports)
      <3>1. /\ n \in Nat /\ DOMAIN reports = 1 .. n /\ DOMAIN reports' = 1 .. n + 1
            /\ \A i \in 1 .. n : reports'[i] = reports[i]
            /\ reports'[n + 1].stem = p /\ reports'[n + 1].entries = report
        BY <2>7, ReportAdded
      <3>2. /\ p \in reading /\ reading' = {}
            /\ AtEnd(p, pos + 1) \/ Derailed
        BY <2>7 DEF EndOfFile
      <3>3. p = Path(f) => ReadsAll(f, report)
        BY <2>1, <2>2, <3>2, ReadsEnd
      <3> HIDE DEF n
      <3>4. Closed
        <4>1. \A i \in 1 .. n + 1 : i \in 1 .. n \/ i = n + 1
          BY <3>1
        <4>2. QED
          BY <2>1, <3>1, <3>3, <4>1
      <3>5. QED
        BY <3>2, <3>4
    <2>8. ASSUME NEW p \in Paths, ReadFails(p)
          PROVE  Opened /\ Closed
      <3>1. /\ UNCHANGED <<reading, report, pos>>
            /\ verdict' = "error" /\ reports' = <<>>
        BY <2>8 DEF ReadFails, Fail
      <3>2. DOMAIN <<>> = {}
        OBVIOUS
      <3>3. QED
        BY <2>1, <3>1, <3>2
    <2>9. CASE Finish
      <3> DEFINE D == DOMAIN reports
      <3>1. reading' = {} /\ reports' \in SortedReports
        BY <2>9 DEF Finish
      <3>2. reports \in Seq([stem : Paths, entries : Seq(Outcome)])
        BY DEF TypeOK
      <3>3. PICK b \in Bijection(D, D) : \A i \in D : reports'[i] = reports[b[i]]
        BY <3>1, <3>2, SortedIs
      <3>4. /\ Len(reports') = Len(reports)
            /\ reports' \in Seq([stem : Paths, entries : Seq(Outcome)])
        BY <3>1, <3>2, SortedIs
      <3>5. DOMAIN reports' = D
        BY <3>2, <3>4
      <3>6. \A i \in D : b[i] \in D
        BY <3>3 DEF Bijection, Injection
      <3> HIDE DEF D
      <3>7. Closed
        BY <2>1, <3>3, <3>5, <3>6 DEF D
      <3>8. QED
        BY <3>1, <3>7
    <2>10. ASSUME NEW p \in Paths, SkipFile(p)
           PROVE  Opened /\ Closed
      BY <2>3, <2>10 DEF SkipFile
    <2>11. QED
      BY <1>2, <2>3, <2>4, <2>5, <2>6, <2>7, <2>8, <2>9, <2>10
         DEF Next, vars, replayVars, Done
  <1>3. CASE UNCHANGED <<sessionVars, fileVars>>
    <2>1. Opened /\ Closed
      BY <1>2, <1>3
    <2>2. /\ durable' = durable
          /\ Reads(f, report') => Reads(f, report)'
          /\ \A i : ReadsAll(f, reports'[i].entries) =>
                      ReadsAll(f, reports[i].entries)'
      BY <1>3, SameFiles
    <2>3. QED
      BY <2>1, <2>2
  <1>4. QED
    BY <1>1, <1>3 DEF Next, vars, StartReplay, SkipFile, OpenFails, OpenFile,
       NextEntry, BogusEntry, EndOfFile, ReadFails, Finish, Done, Fail, Report

LEMMA NextCause ==
  ASSUME TypeOK, FileInv, StageInv, ReadInv, CauseInv, [Next]_vars
  PROVE  CauseInv'
  <1> SUFFICES ASSUME PathsApart, verdict' = "error"
      PROVE  \E f \in logs' :
               /\ Path(f) \in wanted'
               /\ compressed' \/ damaged'[f] # None
                              \/ durable'[f] < Pieces(Len(file'[f]))
    BY DEF CauseInv
  <1>1. CASE verdict = "error"
    <2>1. UNCHANGED <<sessionVars, fileVars>> /\ wanted' = wanted
      BY <1>1, LogStepRuns DEF Next, vars, replayVars, StageInv, StartReplay,
         SkipFile, OpenFails, OpenFile, NextEntry, BogusEntry, EndOfFile,
         ReadFails, Finish, Done
    <2>2. UNCHANGED <<logs, file, durable, compressed, damaged>>
      BY <2>1 DEF sessionVars, deepVars, fileVars
    <2>3. QED
      BY <1>1, <2>1, <2>2 DEF CauseInv
  <1>2. CASE verdict # "error"
    <2>1. PICK p \in Paths : OpenFails(p) \/ ReadFails(p)
      BY <1>2 DEF Next, vars, replayVars, StartReplay, SkipFile, OpenFile,
         NextEntry, BogusEntry, Report, EndOfFile, Finish, Done
    <2>2. UNCHANGED <<sessionVars, fileVars>> /\ wanted' = wanted
      BY <2>1 DEF OpenFails, ReadFails, Fail
    <2>3. UNCHANGED <<logs, file, durable, compressed, damaged>>
      BY <2>2 DEF sessionVars, deepVars, fileVars
    <2>4. p \in wanted
      BY <2>1 DEF OpenFails, ReadFails, StageInv
    <2>5. PICK f \in logs : Path(f) = p
      BY <2>4 DEF StageInv
    <2>6. f \in Functions
      BY DEF FileInv, FileTypeOK, SessionTypeOK, DeepTypeOK
    <2> DEFINE l == Len(Sound(f))  q == durable[f]  n == Len(file[f])
    <2>7. /\ l \in Nat /\ q \in Nat /\ n \in Nat /\ l <= n /\ q <= Pieces(n)
          /\ damaged[f] = None => l = n
      BY <2>6, Lengths
    <2>8. compressed \/ damaged[f] # None \/ q < Pieces(n)
      <3>1. CASE OpenFails(p)
        <4>1. ~(q > 0)
          BY <2>5, <2>6, <3>1, PrefixOnDisk DEF OpenFails
        <4>2. QED
          BY <2>7, <4>1 DEF Pieces
      <3>2. CASE ReadFails(p)
        <4>1. p \in reading
          BY <3>2 DEF ReadFails
        <4>2. Len(report) = pos /\ Reads(f, report)
          BY <2>5, <2>6, <4>1 DEF ReadInv
        <4>3. report \in Seq(Outcome) /\ pos \in Nat /\ pos + 1 \in Nat
              /\ pos + 1 > 0 /\ pos + 1 - 1 = pos
          BY DEF TypeOK
        <4>4. pos > 0 => Pieces(pos) <= q
          BY <4>2 DEF Reads
        <4>5. CASE Derailed
          <5>1. pos > l
            BY <2>6, <4>2, <4>3, <4>5, DerailedIs
          <5> HIDE DEF l, q, n
          <5>2. l # n
            BY <2>7, <4>3, <4>4, <5>1 DEF Pieces
          <5>3. QED
            BY <2>7, <5>2
        <4>6. CASE HalfFrame(p, pos + 1)
          BY <2>5, <2>6, <4>3, <4>6, HalfFrameIs
        <4>7. CASE EntryAt(p, pos + 1) = {} /\ ~AtEnd(p, pos + 1)
          <5> DEFINE m == Len(disk[Path(f)])
          <5>1. SUFFICES ASSUME damaged[f] = None, ~(q < Pieces(n))
                         PROVE  FALSE
            OBVIOUS
          <5>2. ~(pos + 1 <= l /\ Pieces(pos + 1) <= q)
            <6>1. EntryAt(Path(f), pos + 1) # {file[f][pos + 1]}
              BY <2>5, <4>7
            <6>2. QED
              BY <2>6, <4>3, <6>1, NextFrame
          <5>3. m \in Nat /\ (m = q \/ q < Pieces(n))
            BY <2>6, FileOnDisk
          <5>4. m # Pieces(pos)
            BY <2>5, <4>3, <4>7 DEF AtEnd
          <5> HIDE DEF l, q, n, m
          <5>5. l = n /\ q = Pieces(n) /\ m = q
            BY <2>7, <5>1, <5>3 DEF Pieces
          <5>6. ~(pos + 1 <= n)
            BY <2>7, <4>3, <5>2, <5>5 DEF Pieces
          <5>7. pos = n
            BY <2>7, <4>3, <4>4, <5>5, <5>6 DEF Pieces
          <5>8. QED
            BY <5>4, <5>5, <5>7
        <4>8. QED
          BY <3>2, <4>5, <4>6, <4>7 DEF ReadFails
      <3>3. QED
        BY <2>1, <3>1, <3>2
    <2>9. QED
      BY <2>2, <2>3, <2>4, <2>5, <2>8
  <1>3. QED
    BY <1>1, <1>2
-----------------------------------------------------------------------------
LEMMA InitReplay ==
  ASSUME Init
  PROVE  IInv
  <1>1. FileInv
    BY InitFile
  <1>2. DOMAIN <<>> = {} /\ Cardinality({}) = 0
    BY FS_EmptySet
  <1>3. TypeOK
    <2>1. 0 <= 1
      OBVIOUS
    <2>2. FileTypeOK
      BY <1>1 DEF FileInv
    <2>3. /\ wanted \in SUBSET Paths /\ unread \in SUBSET Paths
          /\ reading \in SUBSET Paths /\ pos \in Nat
          /\ report \in Seq(Outcome)
          /\ reports \in Seq([stem : Paths, entries : Seq(Outcome)])
          /\ verdict \in {"none", "running", "ok", "error"}
      BY DEF Init
    <2>4. Cardinality(reading) <= 1
      BY <1>2, <2>1 DEF Init
    <2>5. QED
      BY <2>2, <2>3, <2>4 DEF TypeOK
  <1>4. StageInv /\ StemsInv /\ ReadInv /\ CauseInv
    BY <1>2 DEF Init, StageInv, StemsInv, ReadInv, CauseInv
  <1>5. QED
    BY <1>1, <1>3, <1>4 DEF IInv

(***************************************************************************)
(* IInv holds in every reachable state, whatever paths functions share.    *)
(***************************************************************************)
THEOREM ReplayInvariance ==
  ASSUME AnswerTotal
  PROVE  Spec => []IInv
  <1>1. Init => IInv
    BY InitReplay
  <1>2. IInv /\ [Next]_vars => IInv'
    <2> SUFFICES ASSUME IInv, [Next]_vars
        PROVE  IInv'
      OBVIOUS
    <2>1. FileInv'
      BY NextFile DEF IInv
    <2>2. TypeOK'
      BY <2>1, NextType DEF IInv
    <2>3. StageInv' /\ StemsInv'
      BY NextStage, NextStems DEF IInv
    <2>4. ReadInv' /\ CauseInv'
      BY NextReads, NextCause DEF IInv
    <2>5. QED
      BY <2>1, <2>2, <2>3, <2>4 DEF IInv
  <1>3. QED
    BY <1>1, <1>2, PTL DEF Spec

(***************************************************************************)
(* The state of the replay has its type: an answer for each entry read, at *)
(* most one file open (replay_dir, LogReader).                             *)
(***************************************************************************)
THEOREM ReplayTyping ==
  ASSUME AnswerTotal
  PROVE  Spec => []TypeOK
  <1>1. IInv => TypeOK
    BY DEF IInv
  <1>2. QED
    BY <1>1, ReplayInvariance, PTL
-----------------------------------------------------------------------------
(***************************************************************************)
(* What a replay reports.                                                  *)
(***************************************************************************)
LEMMA ReportOfIs ==
  ASSUME AnswerTotal, FileInv, NEW f \in Functions, NEW n \in Nat,
         n <= Len(file[f])
  PROVE  /\ ReportOf(f, n) \in Seq(Outcome) /\ Len(ReportOf(f, n)) = n
         /\ \A k \in 1 .. n : ReportOf(f, n)[k] = [seq    |-> file[f][k].seq,
                                                   hash   |-> file[f][k].hash,
                                                   answer |-> Answer(file[f][k])]
  <1> DEFINE e(k) == [seq    |-> file[f][k].seq,
                      hash   |-> file[f][k].hash,
                      answer |-> Answer(file[f][k])]
  <1>1. \A k \in 1 .. n : e(k) \in Outcome
    <2>1. \A k \in 1 .. n : file[f][k] \in Entry
      BY Lengths
    <2>2. QED
      BY <2>1, OutcomeType
  <1>2. ReportOf(f, n) = [k \in 1 .. n |-> e(k)]
    BY DEF ReportOf
  <1>3. \A k \in 1 .. n : e(k) = [seq    |-> file[f][k].seq,
                                  hash   |-> file[f][k].hash,
                                  answer |-> Answer(file[f][k])]
    OBVIOUS
  <1> HIDE DEF e
  <1>4. [k \in 1 .. n |-> e(k)] \in [1 .. n -> Outcome]
    BY <1>1
  <1>5. ReportOf(f, n) \in Seq(Outcome)
    BY <1>2, <1>4, SeqDef
  <1>6. Len(ReportOf(f, n)) = n
    BY <1>2, <1>5
  <1>7. QED
    BY <1>2, <1>3, <1>5, <1>6

LEMMA ReportType ==
  ASSUME TypeOK, NEW i \in DOMAIN reports
  PROVE  reports[i].stem \in Paths /\ reports[i].entries \in Seq(Outcome)
  <1> DEFINE R == [stem : Paths, entries : Seq(Outcome)]
  <1>1. reports \in Seq(R)
    BY DEF TypeOK
  <1> HIDE DEF R
  <1>2. reports[i] \in R
    BY <1>1
  <1>3. QED
    BY <1>2 DEF R

\* As far as the file is sound, a report is the one of its entries.
LEMMA ReadsPrefix ==
  ASSUME AnswerTotal, FileInv, NEW f \in Functions, NEW r \in Seq(Outcome),
         Reads(f, r), NEW n \in Nat, n <= Len(r), n <= Len(Sound(f))
  PROVE  SubSeq(r, 1, n) = ReportOf(f, n)
  <1> DEFINE s == ReportOf(f, n)
  <1>1. n <= Len(file[f]) /\ Len(Sound(f)) \in Nat
    BY Lengths
  <1>2. /\ s \in Seq(Outcome) /\ Len(s) = n
        /\ \A k \in 1 .. n : s[k] = [seq    |-> file[f][k].seq,
                                     hash   |-> file[f][k].hash,
                                     answer |-> Answer(file[f][k])]
    BY <1>1, ReportOfIs
  <1>3. \A k \in 1 .. n : r[k] = ReadAs(f, k) /\ ~(k > Len(Sound(f)))
    BY <1>1 DEF Reads
  <1>4. \A k \in 1 .. n : r[k] = s[k]
    BY <1>2, <1>3 DEF ReadAs
  <1> HIDE DEF s
  <1>5. SubSeq(r, 1, Len(s)) = s
    BY <1>2, <1>4, PrefixIs
  <1>6. QED
    BY <1>2, <1>5 DEF s

(***************************************************************************)
(* replay_assert passes where every entry of the report is a match.        *)
(***************************************************************************)
LEMMA PassesIs ==
  ASSUME NEW r \in Seq(Outcome)
  PROVE  AssertPasses(r) <=> \A k \in DOMAIN r : r[k].answer = "match"
  <1> DEFINE D == 1 .. Len(r)
             T == {i \in D : IsOk(r[i])}
             c == Cardinality(T)
  <1>1. Len(r) \in Nat /\ DOMAIN r = D
    OBVIOUS
  <1>2. IsFiniteSet(D) /\ Cardinality(D) = Len(r)
    <2>1. /\ IsFiniteSet(1 .. Len(r))
          /\ Cardinality(1 .. Len(r)) = IF 1 > Len(r) THEN 0 ELSE Len(r) - 1 + 1
      BY <1>1, FS_Interval
    <2> DEFINE n == Len(r)  x == Cardinality(1 .. n)
    <2>2. n \in Nat /\ x = IF 1 > n THEN 0 ELSE n - 1 + 1
      BY <1>1, <2>1
    <2> HIDE DEF x, n
    <2>3. x = n
      BY <2>2
    <2>4. QED
      BY <2>1, <2>3 DEF x, n
  <1>3. AssertPasses(r) <=> Len(r) - c = 0
    BY <1>1 DEF AssertPasses, Failed
  <1>4. T \in SUBSET D
    OBVIOUS
  <1> HIDE DEF T, D
  <1>5. c \in Nat /\ (c = Cardinality(D) => T = D)
    BY <1>2, <1>4, FS_Subset, FS_CardinalityType
  <1> HIDE DEF c
  <1>6. Len(r) - c = 0 <=> c = Len(r)
    BY <1>1, <1>5
  <1>7. c = Len(r) <=> T = D
    BY <1>2, <1>5 DEF c
  <1>8. T = D <=> \A k \in D : IsOk(r[k])
    BY DEF T
  <1>9. QED
    BY <1>1, <1>3, <1>6, <1>7, <1>8 DEF IsOk

(***************************************************************************)
(* The callback sees the entries of each file without a gap, and an error  *)
(* has a cause (replay_dir, LogReader::next_entry).                        *)
(***************************************************************************)
THEOREM ErrorCause ==
  ASSUME PathsApart, AnswerTotal
  PROVE  Spec => []ErrorHasCause
  <1>1. IInv => ErrorHasCause
    <2> SUFFICES ASSUME IInv
        PROVE  ErrorHasCause
      OBVIOUS
    <2>1. FileInv /\ report \in Seq(Outcome) /\ pos \in Nat
      BY DEF IInv, TypeOK
    <2>2. ASSUME NEW f \in Functions, Path(f) \in reading
          PROVE  /\ Len(report) = pos
                 /\ SubSeq(report, 1, Min({pos, Len(Sound(f))}))
                      = ReportOf(f, Min({pos, Len(Sound(f))}))
      <3>1. Len(report) = pos /\ Reads(f, report)
        BY <2>2 DEF IInv, ReadInv
      <3>2. Len(Sound(f)) \in Nat
        BY <2>1, Lengths
      <3> DEFINE n == Min({pos, Len(Sound(f))})
      <3>3. n = IF pos <= Len(Sound(f)) THEN pos ELSE Len(Sound(f))
        BY <2>1, <3>2, PairMin
      <3> HIDE DEF n
      <3>4. n \in Nat /\ n <= Len(report) /\ n <= Len(Sound(f))
        BY <2>1, <3>1, <3>2, <3>3
      <3>5. SubSeq(report, 1, n) = ReportOf(f, n)
        BY <2>1, <3>1, <3>4, ReadsPrefix
      <3>6. QED
        BY <3>1, <3>5 DEF n
    <2>3. verdict = "error" => \E f \in logs :
            /\ Path(f) \in wanted
            /\ compressed \/ damaged[f] # None \/ durable[f] < Pieces(Len(file[f]))
      BY DEF IInv, CauseInv
    <2>4. QED
      BY <2>2, <2>3 DEF ErrorHasCause
  <1>2. QED
    BY <1>1, ReplayInvariance, PTL

\* The report on the file of f, in a replay that has closed it.
LEMMA ReportsOfIs ==
  ASSUME PathsApart, IInv, NEW f \in Functions, NEW r \in ReportsOf(Path(f))
  PROVE  r \in Seq(Outcome) /\ ReadsAll(f, r)
  <1>1. PICK i \in DOMAIN reports : reports[i].stem = Path(f) /\ r = reports[i].entries
    BY DEF ReportsOf
  <1>2. reports[i].entries \in Seq(Outcome)
    BY ReportType DEF IInv
  <1>3. QED
    BY <1>1, <1>2 DEF IInv, ReadInv

(***************************************************************************)
(* A replay that succeeds is complete: a report for each wanted file, once *)
(* and in the order of the names, with all that was safe in the file when  *)
(* the program stopped (replay_dir, DeepLog::flush_last).                  *)
(***************************************************************************)
THEOREM Completeness ==
  ASSUME PathsApart, AnswerTotal
  PROVE  Spec => []ReplayComplete
  <1>1. IInv => ReplayComplete
    <2> SUFFICES ASSUME IInv, verdict = "ok"
        PROVE  /\ {reports[i].stem : i \in DOMAIN reports} = wanted
               /\ \A i, j \in DOMAIN reports :
                    i < j => reports[i].stem < reports[j].stem
               /\ \A f \in logs : \A r \in ReportsOf(Path(f)) :
                    LET n == OnDiskWhole(f) IN
                    /\ Len(r) >= n /\ SubSeq(r, 1, n) = ReportOf(f, n)
                    /\ n >= Min({synced[f], Len(Sound(f))})
                    /\ Len(r) > n => damaged[f] # None
      BY DEF ReplayComplete
    <2>1. FileInv /\ StageInv /\ StemsInv
      BY DEF IInv
    <2>2. {reports[i].stem : i \in DOMAIN reports} = wanted
      BY <2>1 DEF StageInv, StemsInv
    <2>3. ASSUME NEW i \in DOMAIN reports, NEW j \in DOMAIN reports, i < j
          PROVE  reports[i].stem < reports[j].stem
      <3>1. reports \in Seq([stem : Paths, entries : Seq(Outcome)])
        BY DEF IInv, TypeOK
      <3>2. reports[i].stem \in Int /\ reports[j].stem \in Int
        <4>1. reports[i].stem \in Paths /\ reports[j].stem \in Paths
          BY ReportType DEF IInv
        <4>2. QED
          BY <4>1, ReplayAssumption
      <3>3. reports[i].stem <= reports[j].stem
        BY <2>1, <2>3 DEF StemsInv
      <3>4. i # j
        BY <2>3, <3>1
      <3>5. reports[i].stem # reports[j].stem
        BY <2>1, <3>4 DEF StemsInv
      <3>6. QED
        BY <3>2, <3>3, <3>5
    <2>4. ASSUME NEW f \in logs, NEW r \in ReportsOf(Path(f))
          PROVE  LET n == OnDiskWhole(f) IN
                 /\ Len(r) >= n /\ SubSeq(r, 1, n) = ReportOf(f, n)
                 /\ n >= Min({synced[f], Len(Sound(f))})
                 /\ Len(r) > n => damaged[f] # None
      <3> DEFINE n == OnDiskWhole(f)  l == Len(Sound(f))  k == Len(r)
                 m == Len(file[f])  q == durable[f]  s == synced[f]
      <3>1. f \in Functions
        BY <2>1 DEF FileInv, FileTypeOK, SessionTypeOK, DeepTypeOK
      <3>2. r \in Seq(Outcome) /\ ReadsAll(f, r)
        BY <3>1, ReportsOfIs
      <3>3. /\ k \in Nat /\ Reads(f, r) /\ k >= n /\ (k > n => k > l)
            /\ (k > 0 => Pieces(k) <= q)
        BY <3>2 DEF ReadsAll, Reads
      <3>4. /\ l \in Nat /\ m \in Nat /\ l <= m /\ q \in Nat /\ q <= Pieces(m)
            /\ s \in Nat /\ (s > 0 => Pieces(s) <= q)
            /\ damaged[f] = None => l = m
        BY <2>1, <3>1, Lengths
      <3>5. /\ n \in 0 .. l
            /\ \A x \in 1 .. l : Pieces(x) <= q => x <= n
        BY <2>1, <3>1, WholeIs
      <3>6. SubSeq(r, 1, n) = ReportOf(f, n)
        BY <2>1, <3>1, <3>2, <3>3, <3>5, ReadsPrefix
      <3> DEFINE x == Min({s, l})
      <3>7. x = IF s <= l THEN s ELSE l
        BY <3>4, PairMin
      <3> HIDE DEF n, l, k, m, q, s, x
      <3>8. n >= x
        <4>1. CASE x = 0
          BY <3>5, <4>1
        <4>2. CASE x # 0
          <5>1. x \in 1 .. l /\ x <= s /\ s > 0
            BY <3>4, <3>7, <4>2
          <5>2. Pieces(x) <= q
            BY <3>4, <5>1 DEF Pieces
          <5>3. QED
            BY <3>5, <5>1, <5>2
        <4>3. QED
          BY <4>1, <4>2
      <3>9. k > n => damaged[f] # None
        <4>1. SUFFICES ASSUME k > n, l = m
                       PROVE  FALSE
          BY <3>4
        <4>2. k > m /\ Pieces(k) <= Pieces(m)
          BY <3>3, <3>4, <3>5, <4>1 DEF Pieces
        <4>3. QED
          BY <3>3, <3>4, <4>2 DEF Pieces
      <3>10. k >= n
        BY <3>3
      <3>11. QED
        BY <3>6, <3>8, <3>9, <3>10 DEF k, x, n, s, l
    <2>5. QED
      BY <2>2, <2>3, <2>4
  <1>2. QED
    BY <1>1, ReplayInvariance, PTL

(***************************************************************************)
(* What was flushed is read back, and replay_assert passes exactly where   *)
(* the port matches every entry (flush_all, replay_dir, replay_assert).    *)
(***************************************************************************)
THEOREM FlushedReadBack ==
  ASSUME PathsApart, AnswerTotal
  PROVE  Spec => []ReadBack
  <1>1. IInv => ReadBack
    <2> SUFFICES ASSUME IInv, ~compressed, \A f \in logs : Tidy(f)
        PROVE  /\ verdict # "error"
               /\ verdict = "ok" => \A f \in logs : Path(f) \in wanted =>
                    /\ ReportsOf(Path(f)) = {ReportOf(f, Len(file[f]))}
                    /\ \A r \in ReportsOf(Path(f)) :
                         AssertPasses(r) <=> \A k \in DOMAIN file[f] :
                                               Answer(file[f][k]) = "match"
      BY DEF ReadBack
    <2>1. FileInv /\ StageInv /\ StemsInv /\ logs \subseteq Functions
      BY DEF IInv, FileInv, FileTypeOK, SessionTypeOK, DeepTypeOK
    <2>2. verdict # "error"
      <3>1. SUFFICES ASSUME verdict = "error"
                     PROVE  FALSE
        OBVIOUS
      <3>2. PICK f \in logs : damaged[f] # None \/ durable[f] < Pieces(Len(file[f]))
        BY <3>1 DEF IInv, CauseInv
      <3>3. durable[f] = Pieces(Len(file[f])) /\ Pieces(Len(file[f])) \in Nat
            /\ damaged[f] = None
        BY <2>1, Lengths DEF Tidy, Pieces
      <3> DEFINE q == durable[f]
      <3>4. q \in Nat /\ ~(q < q)
        BY <3>3
      <3>5. QED
        BY <3>2, <3>3, <3>4
    <2>3. ASSUME verdict = "ok", NEW f \in logs, Path(f) \in wanted
          PROVE  /\ ReportsOf(Path(f)) = {ReportOf(f, Len(file[f]))}
                 /\ \A r \in ReportsOf(Path(f)) :
                      AssertPasses(r) <=> \A k \in DOMAIN file[f] :
                                            Answer(file[f][k]) = "match"
      <3> DEFINE m == Len(file[f])  s == ReportOf(f, m)  q == durable[f]
                 l == Len(Sound(f))  n == OnDiskWhole(f)
      <3>1. /\ f \in Functions /\ m \in Nat /\ q = Pieces(m) /\ l = m
            /\ DOMAIN file[f] = 1 .. m
        BY <2>1, Lengths DEF Tidy
      <3>2. /\ s \in Seq(Outcome) /\ Len(s) = m
            /\ \A k \in 1 .. m : s[k] = [seq    |-> file[f][k].seq,
                                         hash   |-> file[f][k].hash,
                                         answer |-> Answer(file[f][k])]
        <4>1. Len(file[f]) \in Nat /\ Len(file[f]) <= Len(file[f])
          BY <2>1, <3>1, Lengths
        <4> HIDE DEF m, s
        <4>2. /\ s = ReportOf(f, Len(file[f])) /\ m = Len(file[f])
              /\ f \in Functions /\ FileInv
          BY <2>1, <3>1 DEF m, s
        <4>3. QED
          BY <4>1, <4>2, ReportOfIs, Zenon
      <3>3. n \in 0 .. l /\ \A x \in 1 .. l : Pieces(x) <= q => x <= n
        BY <2>1, <3>1, WholeIs
      <3>4. ASSUME NEW r \in ReportsOf(Path(f))
            PROVE  r = s
        <4> DEFINE k == Len(r)
        <4>1. r \in Seq(Outcome) /\ ReadsAll(f, r)
          BY <3>1, ReportsOfIs
        <4>2. /\ k \in Nat /\ Reads(f, r) /\ k >= n
              /\ (k > 0 => Pieces(k) <= q)
          BY <4>1 DEF ReadsAll, Reads
        <4>3. \A i \in DOMAIN r : r[i] = ReadAs(f, i)
          BY <4>2 DEF Reads
        <4>4. k = m
          <5> HIDE DEF m, q, l, n, k, s
          <5>1. m > 0 => m <= n
            <6>1. SUFFICES ASSUME m > 0
                           PROVE  m <= n
              OBVIOUS
            <6>2. m \in 1 .. l /\ Pieces(m) <= q
              BY <3>1, <6>1 DEF Pieces
            <6>3. QED
              BY <3>3, <6>2
          <5>2. QED
            BY <3>1, <3>3, <4>2, <5>1 DEF Pieces
        <4>5. SubSeq(r, 1, m) = s
          BY <2>1, <3>1, <4>1, <4>2, <4>4, ReadsPrefix
        <4>6. SubSeq(r, 1, Len(r)) = r
          BY <4>1
        <4>7. QED
          BY <4>4, <4>5, <4>6
      <3>5. s \in ReportsOf(Path(f))
        <4>1. PICK i \in DOMAIN reports : reports[i].stem = Path(f)
          BY <2>1, <2>3 DEF StemsInv, StageInv
        <4>2. reports[i].entries \in ReportsOf(Path(f))
          BY <4>1 DEF ReportsOf
        <4>3. QED
          BY <3>4, <4>2
      <3>6. AssertPasses(s) <=> \A k \in DOMAIN file[f] :
                                  Answer(file[f][k]) = "match"
        <4>1. DOMAIN s = 1 .. m
          BY <3>2
        <4> HIDE DEF s
        <4>2. \A k \in 1 .. m : s[k].answer = Answer(file[f][k])
          <5> SUFFICES ASSUME NEW k \in 1 .. m
              PROVE  s[k].answer = Answer(file[f][k])
            OBVIOUS
          <5> DEFINE e == file[f][k]  a == Answer(e)
          <5>1. s[k] = [seq |-> e.seq, hash |-> e.hash, answer |-> a]
            BY <3>2
          <5> HIDE DEF a
          <5>2. s[k].answer = a
            BY <5>1
          <5>3. QED
            BY <5>2 DEF a
        <4>3. AssertPasses(s) <=> \A k \in 1 .. m : s[k].answer = "match"
          BY <3>2, <4>1, PassesIs
        <4>4. QED
          BY <3>1, <4>2, <4>3
      <3> HIDE DEF s
      <3>7. ReportsOf(Path(f)) = {s}
        BY <3>4, <3>5
      <3>8. QED
        BY <3>6, <3>7 DEF s, m
    <2>4. QED
      BY <2>2, <2>3
  <1>2. QED
    BY <1>1, ReplayInvariance, PTL
=============================================================================
