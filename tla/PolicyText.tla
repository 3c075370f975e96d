----------------------------- MODULE PolicyText -----------------------------
(***************************************************************************)
(* TRACEHASH_DEEP_MODE as the two recorders read it, and the text of a     *)
(* policy in the header of a .dclog (src/src/deep/sampling.rs).            *)
(*                                                                         *)
(* A text is the sequence of its parts between colons: a word, a whole     *)
(* number, a number with something after it (10x), or key=number.  A       *)
(* policy has a probability p, a whole number, besides what it has in      *)
(* Sampling.                                                               *)
(***************************************************************************)
EXTENDS Integers, Sequences, FiniteSetsExt

Word(w)    == [kind |-> "word", key |-> w, num |-> 0]
Num(n)     == [kind |-> "num", key |-> "", num |-> n]
NumJunk(n) == [kind |-> "junk", key |-> "", num |-> n]
KV(k, n)   == [kind |-> "kv", key |-> k, num |-> n]

Chosen(mode, p, n, last) == [mode |-> mode, p |-> p, n |-> n, keep_last |-> last]
FirstN(n) == Chosen("first", 0, n, FALSE)
All       == Chosen("all", 0, 0, FALSE)
Default   == FirstN(100)

\* The number of the last part from the third on with key k, or the default.
Setting(parts, k, default) ==
  LET at == {j \in 3 .. Len(parts) : parts[j].key = k}
  IN  IF at = {} THEN default ELSE parts[Max(at)].num

\* SamplePolicy::from_str, where it succeeds.  Parts behind the number of
\* first: and firstlast:, and behind all, are not looked at.
WellFormed(parts) ==
  /\ parts # <<>>
  /\ LET mode == parts[1].key IN
     \/ mode = "all"
     \/ /\ mode \in {"first", "firstlast", "prob"}
        /\ Len(parts) > 1 /\ parts[2].kind = "num"
        /\ mode = "prob" => \A i \in 3 .. Len(parts) :
             parts[i].kind = "kv" /\ parts[i].key \in {"first", "last"}

FromStr(parts) ==
  LET mode == parts[1].key IN
  CASE mode = "all"  -> All
    [] mode = "prob" -> Chosen("prob", parts[2].num, Setting(parts, "first", 0),
                               Setting(parts, "last", 1) # 0)
    [] OTHER         -> Chosen(mode, 0, parts[2].num, FALSE)

\* DeepConfig::resolve: a text that does not parse is as good as none.
RustPolicy(parts) == IF WellFormed(parts) THEN FromStr(parts) ELSE Default

\* impl Display for SamplePolicy.
Display(p) ==
  CASE p.mode = "all"  -> <<Word("all")>>
    [] p.mode = "prob" -> <<Word("prob"), Num(p.p), KV("first", p.n),
                            KV("last", IF p.keep_last THEN 1 ELSE 0)>>
    [] OTHER           -> <<Word(p.mode), Num(p.n)>>

\* Mutant of CPolicy: the colon is left for strtoull.
CPolicyColon(parts) ==
  IF parts = <<Word("all")>> THEN All
  ELSE IF Len(parts) > 1 /\ parts[1] = Word("first") THEN FirstN(0)
  ELSE Default

\* tracehash_init: strtoull reads the digits there are, 0 where there is none.
CPolicy(parts) ==
  IF parts = <<Word("all")>> THEN All
  ELSE IF Len(parts) > 1 /\ parts[1] = Word("first")
  THEN FirstN(IF parts[2].kind \in {"num", "junk"} THEN parts[2].num ELSE 0)
  ELSE Default
=============================================================================
