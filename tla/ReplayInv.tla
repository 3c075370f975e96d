----------------------------- MODULE ReplayInv ------------------------------
(***************************************************************************)
(* An inductive invariant of Replay.  FileInv, of the part that is         *)
(* LogFile, says what a log captures and what its file keeps; the rest     *)
(* follows the reader through the files.  TLC checks it on small           *)
(* instances; LogFileProofs and ReplayProofs prove it inductive.           *)
(***************************************************************************)
EXTENDS Replay

(***************************************************************************)
(* Every call took a number.  A hash in seen_hashes is in the file or was  *)
(* lost and, where no last call is kept, the other way round.              *)
(***************************************************************************)
HistoryOf(f) ==
  /\ Len(offered[f]) = seq_counter[f]
  /\ \A h \in seen_hashes[f] :
       h \in lost[f] \/ \E k \in DOMAIN file[f] : file[f][k].hash = h
  /\ ~KeepsLast(config.policy) =>
       /\ last_buffer[f] = <<>>
       /\ lost[f] \subseteq seen_hashes[f]
       /\ \A k \in DOMAIN file[f] : file[f][k].hash \in seen_hashes[f]

\* In mode firstlast, what last_buffer holds is the last call, and no later
\* call can be written before it.
BufferedOf(f) ==
  config.policy.mode = "firstlast" /\ last_buffer[f] # <<>> =>
    /\ seq_counter[f] > config.policy.n
    /\ last_buffer[f][1].hash = offered[f][Len(offered[f])]
    /\ last_buffer[f][1].seq = Len(offered[f]) - 1

\* A kept last call is in the file, lost, or in last_buffer.
LastOf(f) ==
  KeepsLast(config.policy) /\ offered[f] # <<>> =>
    LET last == offered[f][Len(offered[f])] IN
    \/ Stands(f, last, Len(offered[f]) - 1)
    \/ last \in lost[f]
    \/ last_buffer[f] # <<>> /\ last_buffer[f][1].hash = last
                             /\ last_buffer[f][1].seq = Len(offered[f]) - 1

CaptureInv ==
  /\ FirstCallsCaptured
  /\ InCallOrder
  /\ \A f \in Functions : HistoryOf(f) /\ BufferedOf(f) /\ LastOf(f)

\* How far a log's writes, flushes and failures have come in its file.
MeasureInv ==
  \A f \in Functions :
    /\ durable[f] <= Pieces(Len(file[f]))
    /\ synced[f] <= Len(file[f])
    /\ synced[f] > 0 => Pieces(synced[f]) <= durable[f]
    /\ damaged[f] # None => damaged[f] <= Len(file[f])
    /\ f \notin logs => file[f] = <<>> /\ last_buffer[f] = <<>> /\ durable[f] = 0

\* No two functions share a file name.
PathsApart == \A f, g \in Functions : Path(f) = Path(g) => f = g

\* The file on disk is what left the log's BufWriter; a torn piece may end
\* it once the program has stopped.
DiskInv ==
  PathsApart => \A f \in Functions :
    /\ \A i \in 1 .. durable[f] : disk[Path(f)][i] = f
    /\ \/ Len(disk[Path(f)]) = durable[f]
       \/ /\ ~alive
          /\ Len(disk[Path(f)]) = durable[f] + 1
          /\ disk[Path(f)][durable[f] + 1] = Torn
          /\ durable[f] < Pieces(Len(file[f]))

FileInv ==
  /\ FileTypeOK
  /\ LogInv
  /\ CaptureInv
  /\ MeasureInv
  /\ DiskInv
-----------------------------------------------------------------------------
\* replay_dir begins when the program has stopped, and takes one file after
\* another.
StageInv ==
  /\ verdict # "none" => ~alive
  /\ verdict = "none" => /\ unread = {} /\ reading = {} /\ wanted = {}
                         /\ reports = <<>>
  /\ wanted \cup unread \cup reading \subseteq {Path(f) : f \in logs}
  /\ reading \subseteq wanted
  /\ reading \cap unread = {}
  /\ \A p, q \in reading : p = q
  /\ verdict = "ok" => unread = {} /\ reading = {}
  /\ verdict = "error" => reports = <<>>

\* Each wanted file that was read has a report.
StemsInv ==
  /\ verdict # "error" =>
       {reports[i].stem : i \in DOMAIN reports} = wanted \ (unread \cup reading)
  /\ \A i, j \in DOMAIN reports : reports[i].stem = reports[j].stem => i = j
  /\ verdict = "ok" => \A i, j \in DOMAIN reports :
       i < j => reports[i].stem <= reports[j].stem

\* The ported function always has an answer.
AnswerTotal == \A e \in Entry : Answer(e) \in Answers

\* What the reader makes of entry i of f's file.
ReadAs(f, i) ==
  IF i > Len(Sound(f)) THEN Bogus
  ELSE [seq    |-> file[f][i].seq,
        hash   |-> file[f][i].hash,
        answer |-> Answer(file[f][i])]

\* r is a report on entries of f that are all on disk.
Reads(f, r) ==
  /\ \A i \in DOMAIN r : r[i] = ReadAs(f, i)
  /\ Len(r) > 0 => Pieces(Len(r)) <= durable[f]

\* r is as long as what is whole on disk, or goes on into damaged frames.
ReadsAll(f, r) ==
  /\ Reads(f, r)
  /\ Len(r) >= OnDiskWhole(f)
  /\ Len(r) > OnDiskWhole(f) => Len(r) > Len(Sound(f))

ReadInv ==
  PathsApart => \A f \in Functions :
    /\ Path(f) \in reading =>
         /\ Len(report) = pos
         /\ Reads(f, report)
         /\ verdict = "running" => durable[f] > 0
    /\ \A i \in DOMAIN reports :
         reports[i].stem = Path(f) => ReadsAll(f, reports[i].entries)

\* The error of a replay has a cause.
CauseInv ==
  PathsApart /\ verdict = "error" => \E f \in logs :
    /\ Path(f) \in wanted
    /\ compressed \/ damaged[f] # None \/ durable[f] < Pieces(Len(file[f]))

IInv ==
  /\ TypeOK
  /\ FileInv
  /\ StageInv
  /\ StemsInv
  /\ ReadInv
  /\ CauseInv
=============================================================================
