--------------------------- MODULE RecordingLemmas --------------------------
(***************************************************************************)
(* Facts that the proofs about all recorders need: about the entry of a    *)
(* call, a sequence that grows at its end, and a set of threads that one   *)
(* thread enters or leaves.                                                *)
(***************************************************************************)
EXTENDS Capture, FiniteSets, SequenceTheorems, FiniteSetTheorems, TLAPS

\* The entry made of a call, under any number, is an Entry.
LEMMA EntryOfType ==
  ASSUME NEW c \in Calls, NEW n \in Nat
  PROVE  EntryOf(c, n) \in Entry
  BY DEF EntryOf, Entry, Calls, Hashes

\* ... and it is the record of the call.
LEMMA EntryOfMatches ==
  ASSUME NEW c, NEW n
  PROVE  EntryOf(c, n).seq = n /\ Matches(EntryOf(c, n), c)
  BY DEF EntryOf, Matches

LEMMA FunctionsNonempty == Functions # {}
  BY CallsAssumption DEF Calls

LEMMA AppendFacts ==
  ASSUME NEW S, NEW s \in Seq(S), NEW e \in S
  PROVE  /\ Append(s, e) \in Seq(S)
         /\ Len(s) \in Nat
         /\ Len(Append(s, e)) = Len(s) + 1
         /\ DOMAIN s = 1 .. Len(s)
         /\ DOMAIN Append(s, e) = DOMAIN s \cup {Len(s) + 1}
         /\ Len(s) + 1 \notin DOMAIN s
         /\ \A k \in DOMAIN s : Append(s, e)[k] = s[k]
         /\ Append(s, e)[Len(s) + 1] = e
  OBVIOUS

LEMMA Leave ==
  ASSUME NEW S, IsFiniteSet(S), NEW t \in S
  PROVE  /\ IsFiniteSet(S \ {t})
         /\ Cardinality(S) \in Nat /\ Cardinality(S \ {t}) \in Nat
         /\ Cardinality(S \ {t}) = Cardinality(S) - 1
  BY FS_RemoveElement, FS_CardinalityType

LEMMA Enter ==
  ASSUME NEW S, IsFiniteSet(S), NEW t, t \notin S
  PROVE  /\ IsFiniteSet(S \cup {t})
         /\ Cardinality(S) \in Nat
         /\ Cardinality(S \cup {t}) = Cardinality(S) + 1
  BY FS_AddElement, FS_CardinalityType
=============================================================================
