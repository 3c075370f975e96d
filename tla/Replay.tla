------------------------------- MODULE Replay -------------------------------
(***************************************************************************)
(* replay_dir (src/src/deep/replay.rs) over the files the program of       *)
(* LogFile left, with the reader of src/src/deep/reader.rs: one file after *)
(* another in the order of read_dir, one entry after another, the first    *)
(* error ends it.                                                          *)
(***************************************************************************)
EXTENDS LogFile, SequencesExt

CONSTANTS
  Answer(_),  \* what the ported function makes of an entry's inputs
  Filters     \* the caller's filters: sets of paths they let through

\* File names have an order.
ASSUME ReplayAssumption == Paths \subseteq Int

\* body's result: an empty Diff, a Diff with mismatches, or an Err.
Answers == {"match", "mismatch", "error"}

VARIABLES
  wanted,   \* the .dclog files that pass the filter of this replay
  unread,   \* what read_dir has yet to list
  reading,  \* the file open in LogReader: a set of at most one path
  pos,      \* entries read from it
  report,   \* ReplayReport of the file being read
  reports,  \* `out' of replay_dir
  verdict   \* "none" before it starts, "running", "ok" or "error"

replayVars == <<wanted, unread, reading, pos, report, reports, verdict>>
vars == <<sessionVars, fileVars, replayVars>>

Bogus == [seq |-> None, answer |-> "error"]

Outcome == [seq : Nat, hash : Hashes, answer : Answers] \cup {Bogus}

TypeOK ==
  /\ FileTypeOK
  /\ wanted \in SUBSET Paths
  /\ unread \in SUBSET Paths
  /\ reading \in SUBSET Paths
  /\ Cardinality(reading) <= 1
  /\ pos \in Nat
  /\ report \in Seq(Outcome)
  /\ reports \in Seq([stem : Paths, entries : Seq(Outcome)])
  /\ verdict \in {"none", "running", "ok", "error"}

Init ==
  /\ FileInit
  /\ wanted = {}
  /\ unread = {}
  /\ reading = {}
  /\ pos = 0
  /\ report = <<>>
  /\ reports = <<>>
  /\ verdict = "none"

\* ReplayOutcome::is_ok, ReplayReport::failed; replay_assert panics if not.
IsOk(o) == o.answer = "match"
Failed(r) == Len(r) - Cardinality({i \in DOMAIN r : IsOk(r[i])})
AssertPasses(r) == Failed(r) = 0
-----------------------------------------------------------------------------
\* The file begins with a whole prefix.
HasPrefix(p) == disk[p] # <<>> /\ disk[p][1] \in Functions

\* Between the logs' files and the reader: the next frame of p is entry k.
EntryAt(p, k) ==
  {file[f][k] : f \in {f \in Functions :
     /\ Pieces(k) <= Len(disk[p])
     /\ disk[p][Pieces(k) - 1] = f /\ disk[p][Pieces(k)] = f
     /\ k \in DOMAIN Sound(f)}}

\* The file ends where a frame would begin.
AtEnd(p, k) == Len(disk[p]) = Pieces(k - 1)

\* The next frame follows a length without a body, or it is the length of
\* one log and the body of another's.
Garbled(p, k) ==
  /\ Len(disk[p]) >= Pieces(k)
  /\ EntryAt(p, k) = {}
  /\ {disk[p][Pieces(k) - 1], disk[p][Pieces(k)]} \cap {Hole, Torn} = {}

\* A half-written frame is the last of the file, if it got there.
HalfFrame(p, k) ==
  AtEnd(p, k) /\ \E f \in Functions : Path(f) = p /\ damaged[f] = k - 1

Derailed == Bogus \in Range(report)
-----------------------------------------------------------------------------
StartReplay ==
  /\ ~alive
  /\ verdict = "none"
  /\ verdict' = "running"
  /\ unread' = {Path(f) : f \in logs}
  /\ \E let \in Filters : wanted' = unread' \cap let
  /\ UNCHANGED <<sessionVars, fileVars, reading, pos, report, reports>>

\* The extension or the filter says no.
SkipFile(p) ==
  /\ verdict = "running" /\ reading = {}
  /\ p \in unread \ wanted
  /\ unread' = unread \ {p}
  /\ UNCHANGED <<sessionVars, fileVars, wanted, reading, pos, report, reports,
                 verdict>>

Fail ==
  /\ verdict' = "error"
  /\ reports' = <<>>
  /\ UNCHANGED <<sessionVars, fileVars, wanted>>

\* LogReader::open: without a whole prefix it is an error.
OpenFails(p) ==
  /\ verdict = "running" /\ reading = {}
  /\ p \in unread \cap wanted
  /\ ~HasPrefix(p)
  /\ unread' = unread \ {p}
  /\ reading' = {p}
  /\ pos' = 0
  /\ report' = <<>>
  /\ Fail

\* Mutant of OpenFile: the report of the last file goes on.
OpenFileAppends(p) ==
  /\ verdict = "running" /\ reading = {}
  /\ p \in unread \cap wanted
  /\ HasPrefix(p)
  /\ unread' = unread \ {p}
  /\ reading' = {p}
  /\ pos' = 0
  /\ UNCHANGED <<sessionVars, fileVars, wanted, report, reports, verdict>>

OpenFile(p) ==
  /\ verdict = "running" /\ reading = {}
  /\ p \in unread \cap wanted
  /\ HasPrefix(p)
  /\ unread' = unread \ {p}
  /\ reading' = {p}
  /\ pos' = 0
  /\ report' = <<>>
  /\ UNCHANGED <<sessionVars, fileVars, wanted, reports, verdict>>

Report(o) ==
  /\ report' = Append(report, o)
  /\ pos' = pos + 1
  /\ UNCHANGED <<sessionVars, fileVars, wanted, unread, reading, reports,
                 verdict>>

\* Mutant of NextEntry: entries the port fails on are not reported.
NextEntryMatching(p) ==
  /\ verdict = "running" /\ p \in reading /\ ~Derailed
  /\ \E e \in EntryAt(p, pos + 1) :
       /\ pos' = pos + 1
       /\ report' = IF Answer(e) = "error" THEN report
                    ELSE Append(report, [seq    |-> e.seq,
                                         hash   |-> e.hash,
                                         answer |-> Answer(e)])
  /\ UNCHANGED <<sessionVars, fileVars, wanted, unread, reading, reports,
                 verdict>>

\* read_framed_entry and one turn of replay's loop.
NextEntry(p) ==
  /\ verdict = "running" /\ p \in reading /\ ~Derailed
  /\ \E e \in EntryAt(p, pos + 1) :
       Report([seq |-> e.seq, hash |-> e.hash, answer |-> Answer(e)])

\* Bytes behind a half-written frame happen to decode.  What follows is an
\* error, an end or more of the same.
BogusEntry(p) ==
  /\ verdict = "running" /\ p \in reading /\ ~Derailed
  /\ Garbled(p, pos + 1)
  /\ Report(Bogus)

\* No byte is left: Ok(None), which a zstd stream without an end never says.
EndOfFile(p) ==
  /\ verdict = "running" /\ p \in reading
  /\ AtEnd(p, pos + 1) \/ Derailed
  /\ ~compressed
  /\ reports' = Append(reports, [stem |-> p, entries |-> report])
  /\ reading' = {}
  /\ UNCHANGED <<sessionVars, fileVars, wanted, unread, pos, report, verdict>>

\* The next frame cannot be read: replay_dir returns the error and drops the
\* reports it has.  (`report' keeps what the callback was shown.)
ReadFails(p) ==
  /\ verdict = "running" /\ p \in reading
  /\ \/ Derailed
     \/ EntryAt(p, pos + 1) = {} /\ (~AtEnd(p, pos + 1) \/ compressed)
     \/ HalfFrame(p, pos + 1)
  /\ UNCHANGED <<unread, reading, pos, report>>
  /\ Fail

\* Mutant of Finish: the reports stay in the order of read_dir.
FinishUnsorted ==
  /\ verdict = "running" /\ unread = {} /\ reading = {}
  /\ verdict' = "ok"
  /\ UNCHANGED <<sessionVars, fileVars, wanted, unread, reading, pos, report,
                 reports>>

\* The reports in an order of their stems.
SortedReports ==
  {r \in {[i \in DOMAIN reports |-> reports[p[i]]] :
            p \in Bijection(DOMAIN reports, DOMAIN reports)} :
     \A i, j \in DOMAIN r : i < j => r[i].stem <= r[j].stem}

\* out.sort_by on the stems.
Finish ==
  /\ verdict = "running" /\ unread = {} /\ reading = {}
  /\ verdict' = "ok"
  /\ reports' \in SortedReports
  /\ UNCHANGED <<sessionVars, fileVars, wanted, unread, reading, pos, report>>

Done == verdict \in {"ok", "error"} /\ UNCHANGED vars

Next ==
  \/ LogStep /\ UNCHANGED replayVars
  \/ StartReplay
  \/ \E p \in Paths :
       \/ SkipFile(p) \/ OpenFails(p) \/ OpenFile(p) \/ NextEntry(p)
       \/ BogusEntry(p) \/ EndOfFile(p) \/ ReadFails(p)
  \/ Finish
  \/ Done

Spec == Init /\ [][Next]_vars
-----------------------------------------------------------------------------
\* What a report that covers the first n entries of f looks like.
ReportOf(f, n) ==
  [k \in 1 .. n |-> [seq    |-> file[f][k].seq,
                     hash   |-> file[f][k].hash,
                     answer |-> Answer(file[f][k])]]

ReportsOf(p) == {reports[i].entries : i \in {i \in DOMAIN reports : reports[i].stem = p}}

\* All that was written to f went through and was flushed.
Tidy(f) ==
  /\ synced[f] = Len(file[f])
  /\ damaged[f] = None
  /\ durable[f] = Pieces(Len(file[f]))

(***************************************************************************)
(* What was flushed is read back: where the program's last act was a       *)
(* flush that succeeded, replay_dir of the raw files succeeds and its      *)
(* reports are the files' entries, in order, each with the port's answer;  *)
(* replay_assert passes exactly where the port matches them all.           *)
(***************************************************************************)
ReadBack ==
  ~compressed /\ (\A f \in logs : Tidy(f)) =>
    /\ verdict # "error"
    /\ verdict = "ok" => \A f \in logs : Path(f) \in wanted =>
         /\ ReportsOf(Path(f)) = {ReportOf(f, Len(file[f]))}
         /\ \A r \in ReportsOf(Path(f)) :
              AssertPasses(r) <=> \A k \in DOMAIN file[f] :
                                    Answer(file[f][k]) = "match"

(***************************************************************************)
(* Success is complete: a report for every wanted file, each once, in the  *)
(* order of the names, and in each at least what was safe when the program *)
(* stopped, in order and with the port's answers.  Only a half-written     *)
(* frame puts anything behind that.                                        *)
(***************************************************************************)
ReplayComplete ==
  verdict = "ok" =>
    /\ {reports[i].stem : i \in DOMAIN reports} = wanted
    /\ \A i, j \in DOMAIN reports : i < j => reports[i].stem < reports[j].stem
    /\ \A f \in logs : \A r \in ReportsOf(Path(f)) :
         LET n == OnDiskWhole(f) IN
         /\ Len(r) >= n /\ SubSeq(r, 1, n) = ReportOf(f, n)
         /\ n >= Min({synced[f], Len(Sound(f))})
         /\ Len(r) > n => damaged[f] # None

(***************************************************************************)
(* The callback sees the entries of one file at a time, from the first and *)
(* without a gap, also when an error ends the replay later on; and the     *)
(* error has a cause in a wanted file: compression, a half-written frame   *)
(* or entries that were not flushed.                                       *)
(***************************************************************************)
ErrorHasCause ==
  /\ \A f \in Functions : Path(f) \in reading =>
       LET n == Min({pos, Len(Sound(f))}) IN
       /\ Len(report) = pos
       /\ SubSeq(report, 1, n) = ReportOf(f, n)
  /\ verdict = "error" => \E f \in logs :
       /\ Path(f) \in wanted
       /\ \/ compressed
          \/ damaged[f] # None
          \/ durable[f] < Pieces(Len(file[f]))
-----------------------------------------------------------------------------
(***************************************************************************)
(* "The Rust reader auto-detects raw vs. compressed dclog"                 *)
(* (src/README.md:565): a log that was flushed is read, compressed or not. *)
(***************************************************************************)
FlushedLogsRead == (\A f \in logs : Tidy(f)) => verdict # "error"

(***************************************************************************)
(* "One file per function name" (src/src/deep/writer.rs:1): what a         *)
(* successful replay reports of a flushed log is that log.                 *)
(***************************************************************************)
OneFilePerFunction ==
  (\A f \in logs : Tidy(f)) /\ verdict = "ok" =>
    \A f \in logs : \A r \in ReportsOf(Path(f)) : r = ReportOf(f, Len(file[f]))
=============================================================================
