------------------------------- MODULE Capture ------------------------------
(***************************************************************************)
(* What a probe captures, in either language: the calls of the             *)
(* instrumented program, and what a deep entry and a TSV row hold of them. *)
(*                                                                         *)
(* A stream is the sequence of items a probe fed to one side of its call.  *)
(* Items are [kind, v].  The typed helpers (input_u64, input_bytes, ...)   *)
(* are "arg": they feed the hash and capture a value for the deep entry.   *)
(* input_value and input_field (in C, the *_field and struct helpers) are  *)
(* "field": they feed the hash only.                                       *)
(***************************************************************************)
EXTENDS Integers, Sequences

CONSTANTS
  Functions,       \* function names passed to th_call! or TH_CALL
  Inputs,          \* input streams a probe can build
  Outputs,         \* output streams, likewise
  ContentHash(_)   \* FNV-1a of the canonical bytes of the captured inputs

None == -1         \* no deep_seq: `-' in the row

Calls == [fn : Functions, input : Inputs, output : Outputs]

ASSUME CallsAssumption == Calls # {}

Captured(item) == item.kind # "field"
DeepView(stream) == SelectSeq(stream, Captured)

InputHash(c) == ContentHash(DeepView(c.input))

\* The deep entry of call c under the number n.
EntryOf(c, n) == [seq     |-> n,
                  inputs  |-> DeepView(c.input),
                  outputs |-> DeepView(c.output),
                  hash    |-> InputHash(c)]

Hashes == {InputHash(c) : c \in Calls}

Entry == [seq     : Nat,
          inputs  : {DeepView(i) : i \in Inputs},
          outputs : {DeepView(o) : o \in Outputs},
          hash    : Hashes]

\* The entry is the record of that call.
Matches(e, c) ==
  /\ e.inputs = DeepView(c.input)
  /\ e.outputs = DeepView(c.output)

(***************************************************************************)
(* A .dclog file is cut into pieces: the file prefix is the first, and     *)
(* entry k is the length prefix 2k and the body 2k+1.                      *)
(***************************************************************************)
Pieces(k) == 1 + 2 * k
=============================================================================
