--------------------------- MODULE DeepLogSession ---------------------------
(***************************************************************************)
(* A long sequence of calls of DeepLog's operations, each under the mutex  *)
(* of its log: what sampling, deduplication, the buffered last call and    *)
(* flush_all in the middle of a run leave in the files.  `offered' is a    *)
(* history variable: the content hashes of the calls of each function, in  *)
(* order.                                                                  *)
(***************************************************************************)
EXTENDS DeepLog

CONSTANT MaxOffers  \* bound: calls of each function

ASSUME SessionAssumption == MaxOffers \in [Functions -> Nat]

VARIABLE offered

sessionVars == <<config, deepVars, offered>>

SessionTypeOK ==
  /\ DeepTypeOK
  /\ offered \in [Functions -> Seq(Hashes)]

SessionInit ==
  /\ DeepInit
  /\ offered = [f \in Functions |-> <<>>]

\* open_log, the first time a function finishes a call.
Open(f) ==
  /\ f \notin logs
  /\ CreateLog(f)
  /\ UNCHANGED <<config, offered>>

\* deep::record of a call.
Offer(c) ==
  /\ c.fn \in logs
  /\ seq_counter[c.fn] < MaxOffers[c.fn]
  /\ \E coin \in Draws(config.policy, seq_counter[c.fn]) :
       \/ SkipCall(c, coin)
       \/ DedupCall(c, coin)
       \/ WriteCall(c, coin)
       \/ BufferCall(c, coin)
  /\ offered' = [offered EXCEPT ![c.fn] = Append(@, InputHash(c))]
  /\ UNCHANGED config

\* flush_all's work on one log.
Flush(f) ==
  /\ f \in logs
  /\ FlushLast(f)
  /\ UNCHANGED <<config, offered>>
-----------------------------------------------------------------------------
\* An entry of f's file stands for the input hash h.
Stands(f, h, n) ==
  \E k \in DOMAIN file[f] : file[f][k].hash = h /\ file[f][k].seq <= n

(***************************************************************************)
(* Except under random sampling, where a last call kept long ago may be    *)
(* flushed behind later entries, a file is in call order and holds no call *)
(* twice, however often flush_all is called in between.                    *)
(***************************************************************************)
InCallOrder ==
  config.policy.mode # "prob" =>
    \A f \in Functions : \A j, k \in DOMAIN file[f] :
      j < k => file[f][j].seq < file[f][k].seq

(***************************************************************************)
(* Under every policy an entry appears in the file once, and what is in    *)
(* last_buffer is not in the file.                                         *)
(***************************************************************************)
NoCallTwice ==
  \A f \in Functions :
    LET kept == file[f] \o last_buffer[f] IN
    \A j, k \in DOMAIN kept : kept[j].seq = kept[k].seq => j = k
=============================================================================
