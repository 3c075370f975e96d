------------------------------- MODULE LogFile ------------------------------
(***************************************************************************)
(* The .dclog files behind the logs of DeepLogSession: what of them is on  *)
(* disk while the program runs, when a write fails, and after it stopped.  *)
(*                                                                         *)
(* Path(f) is the file name that sanitize_filename makes of f: two names   *)
(* may share one.  Each log writes through a File of its own, at its own   *)
(* offset.  Files are measured in the pieces of DeepLog.                   *)
(***************************************************************************)
EXTENDS DeepLogSession, FiniteSetsExt

CONSTANTS
  Path(_),       \* sanitize_filename
  Compressions,  \* values of `TRACEHASH_COMPRESS # 0': a subset of BOOLEAN
  MaxFailures    \* bound: failed writes of each log

Hole == "hole"  \* zeros between two writes
Torn == "torn"  \* a piece of which a part was written

ASSUME FileAssumption ==
  /\ Compressions \subseteq BOOLEAN
  /\ MaxFailures \in [Functions -> Nat]
  /\ {Hole, Torn} \cap Functions = {}

Paths == {Path(f) : f \in Functions}

VARIABLES
  compressed,  \* logs go through a zstd encoder; fixed at start-up
  alive,       \* the program has not stopped
  failures,    \* failed writes of each log
  lost,        \* history: hashes of the entries that failed writes dropped
  damaged,     \* entries of the file before a half-written frame, or None
  synced,      \* entries of the file at the log's last flush that succeeded
  disk         \* for each path, whose log wrote each piece of the file

fileVars == <<compressed, alive, failures, lost, damaged, synced, disk>>

FileTypeOK ==
  /\ SessionTypeOK
  /\ compressed \in Compressions
  /\ alive \in BOOLEAN
  /\ failures \in [Functions -> Nat]
  /\ lost \in [Functions -> SUBSET Hashes]
  /\ damaged \in [Functions -> Nat \cup {None}]
  /\ synced \in [Functions -> Nat]
  /\ disk \in [Paths -> Seq(Functions \cup {Hole, Torn})]

FileInit ==
  /\ SessionInit
  /\ compressed \in Compressions
  /\ alive = TRUE
  /\ failures = [f \in Functions |-> 0]
  /\ lost = [f \in Functions |-> {}]
  /\ damaged = [f \in Functions |-> None]
  /\ synced = [f \in Functions |-> 0]
  /\ disk = [p \in Paths |-> <<>>]
-----------------------------------------------------------------------------
\* Pieces a to b of file d written by x.
Put(d, a, b, x) ==
  IF a > b THEN d
  ELSE [i \in 1 .. Max({Len(d), b}) |->
          IF i \in a .. b THEN x ELSE IF i \in DOMAIN d THEN d[i] ELSE Hole]

\* What left the BufWriter of f in this step is in its file, over whatever
\* another log with the same path put there.
Landed(f) ==
  disk' = [disk EXCEPT ![Path(f)] = Put(@, durable[f] + 1, durable'[f], f)]

\* DeepLog::create: File::create makes the file or truncates it.
LogOpen(f) ==
  /\ alive
  /\ Open(f)
  /\ disk' = [disk EXCEPT ![Path(f)] = <<>>]
  /\ UNCHANGED <<compressed, alive, failures, lost, damaged, synced>>

\* DeepLog::record, without an I/O error.
LogRecord(c) ==
  /\ alive
  /\ Offer(c)
  /\ Landed(c.fn)
  /\ UNCHANGED <<compressed, alive, failures, lost, damaged, synced>>

\* flush_all's work on one log, without an I/O error.
LogFlush(f) ==
  /\ alive
  /\ Flush(f)
  /\ synced' = [synced EXCEPT ![f] = Len(file'[f])]
  /\ Landed(f)
  /\ UNCHANGED <<compressed, alive, failures, lost, damaged>>

Fails(f) ==
  /\ failures[f] < MaxFailures[f]
  /\ failures' = [failures EXCEPT ![f] = @ + 1]

\* write_framed fails and entry h is dropped: on the length, of which
\* nothing is kept, or on the body, behind a length that is in the buffer
\* or in the file.
FrameFails(f, h) ==
  /\ lost' = [lost EXCEPT ![f] = @ \cup {h}]
  /\ \/ damaged' = damaged
     \/ damaged' = [damaged EXCEPT ![f] = IF @ = None THEN Len(file[f]) ELSE @]

\* DeepLog::record, an I/O error in write_framed; the caller of deep::record
\* gets None.
RecordFails(c) ==
  /\ alive
  /\ c.fn \in logs
  /\ seq_counter[c.fn] < MaxOffers[c.fn]
  /\ Fails(c.fn)
  /\ \E coin \in Draws(config.policy, seq_counter[c.fn]) : WriteFails(c, coin)
  /\ FrameFails(c.fn, InputHash(c))
  /\ Landed(c.fn)
  /\ offered' = [offered EXCEPT ![c.fn] = Append(@, InputHash(c))]
  /\ UNCHANGED <<config, compressed, alive, synced>>

\* DeepLog::flush_last, an I/O error, which flush_all ignores.
FlushFails(f) ==
  /\ alive
  /\ f \in logs
  /\ Fails(f)
  /\ \/ DropLast(f) /\ FrameFails(f, last_buffer[f][1].hash)
     \/ StallFlush(f) /\ UNCHANGED <<lost, damaged>>
  /\ Landed(f)
  /\ UNCHANGED <<config, offered, compressed, alive, synced>>

\* The program exits or is killed.  Nothing drops the logs, which are in a
\* static: what is in their BufWriters is gone, and a zstd stream has no end.
\* A write may have been cut short.
Stop ==
  /\ alive
  /\ alive' = FALSE
  /\ \/ disk' = disk
     \/ \E f \in logs :
          LET i == durable[f] + 1 IN
          /\ i <= Pieces(Len(file[f]))
          /\ disk' = [disk EXCEPT ![Path(f)] = Put(@, i, i, Torn)]
  /\ UNCHANGED <<sessionVars, compressed, failures, lost, damaged, synced>>

LogStep ==
  \/ \E f \in Functions : LogOpen(f) \/ LogFlush(f) \/ FlushFails(f)
  \/ \E c \in Calls : LogRecord(c) \/ RecordFails(c)
  \/ Stop
-----------------------------------------------------------------------------
(***************************************************************************)
(* The first N calls (all of them in mode all) are each represented: by    *)
(* their own entry, or by the entry of an earlier call with the same       *)
(* captured inputs.  Only an input whose write failed is missing, and it   *)
(* is for good, since the hash of writer.rs:99 is already set: where no    *)
(* last call is kept either, no later call brings it back.  Mode first     *)
(* writes nothing else.                                                    *)
(***************************************************************************)
FirstCallsCaptured ==
  \A f \in Functions :
    /\ \A i \in DOMAIN offered[f] :
         config.policy.mode = "all" \/ i <= config.policy.n =>
           \/ Stands(f, offered[f][i], i - 1)
           \/ offered[f][i] \in lost[f]
    /\ config.policy.mode \in {"all", "first"} =>
         \A k \in DOMAIN file[f] : file[f][k].hash \notin lost[f]
    /\ config.policy.mode = "first" =>
         \A k \in DOMAIN file[f] : file[f][k].seq < config.policy.n

(***************************************************************************)
(* Where the policy keeps the last call, it is in last_buffer, or the file *)
(* stands for it, or its write failed; in mode firstlast what last_buffer  *)
(* holds is the last call itself.                                          *)
(***************************************************************************)
LastCallCaptured ==
  \A f \in Functions :
    LET last == offered[f][Len(offered[f])] IN
    KeepsLast(config.policy) /\ offered[f] # <<>> =>
      /\ last_buffer[f] = <<>> =>
           \/ Stands(f, last, Len(offered[f]) - 1)
           \/ last \in lost[f]
      /\ config.policy.mode = "firstlast" /\ last_buffer[f] # <<>> =>
           /\ last_buffer[f][1].hash = last
           /\ last_buffer[f][1].seq = Len(offered[f]) - 1
-----------------------------------------------------------------------------
\* The entries of f's file before the first half-written frame.
Sound(f) ==
  IF damaged[f] = None THEN file[f] ELSE SubSeq(file[f], 1, damaged[f])

\* How many of them the disk holds whole, with everything before them.
OnDiskWhole(f) ==
  Max({0} \cup {k \in DOMAIN Sound(f) :
         /\ Pieces(k) <= Len(disk[Path(f)])
         /\ \A i \in 1 .. Pieces(k) : disk[Path(f)][i] = f})

Durable(f) == INSTANCE DurableLog WITH
  Entries <- Entry,
  log     <- Sound(f),
  synced  <- Min({synced[f], Len(Sound(f))}),
  stopped <- ~alive,
  kept    <- IF alive THEN 0 ELSE OnDiskWhole(f)

(***************************************************************************)
(* Every log with a file of its own implements DurableLog: whatever writes *)
(* fail and wherever the program stops, a prefix of the entries survives,  *)
(* and it holds all that was there at the last flush that succeeded.       *)
(***************************************************************************)
ImplementsDurableLog ==
  /\ \A f \in Functions : Durable(f)!Init
  /\ [][\A f \in Functions : Durable(f)!Next \/ UNCHANGED Durable(f)!vars
     ]_<<sessionVars, fileVars>>
=============================================================================
