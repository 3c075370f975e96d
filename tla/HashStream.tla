----------------------------- MODULE HashStream -----------------------------
(***************************************************************************)
(* What the probes feed to the hashes of a row, byte by byte.  A Fnv64     *)
(* (stable_hash.rs) is modelled by the bytes it was fed: FNV-1a is taken   *)
(* to tell them apart.                                                     *)
(*                                                                         *)
(* Widths are scaled down, bytes are not: a u64 is two bytes and a u32 one *)
(* byte.  A float is an integer, its bits its low bytes.                   *)
(***************************************************************************)
EXTENDS Integers, Sequences, SequencesExt

Byte == 0 .. 255
IntMin == -32768
IntMax == 32767

NaN == 127
Inf == 126
NegInf == -126

\* Fnv64::u32, Fnv64::u64 (little endian, two's complement).
U32(n) == <<n % 256>>
U64(n) == <<n % 256, (n \div 256) % 256>>

\* Mutant of Str: no length before the bytes.
StrBare(s) == s

\* Fnv64::str, hash_str.
Str(s) == U64(Len(s)) \o s

Tag == [U |-> <<85>>, B |-> <<66>>, F |-> <<70>>, D |-> <<68>>, Q |-> <<81>>,
        Y |-> <<89>>, V |-> <<86>>, G |-> <<71>>, S |-> <<83>>, L |-> <<76>>,
        Some |-> <<49>>, None |-> <<48>>]
-----------------------------------------------------------------------------
(***************************************************************************)
(* Quantized floats.  A quantum is counted in eighths: value / quantum is  *)
(* 8 * value / quantum, rounded half away from zero.                       *)
(***************************************************************************)
HalfUp(value, quantum) == (16 * value + quantum) \div (2 * quantum)

Rounded(value, quantum) ==
  IF value >= 0 THEN HalfUp(value, quantum) ELSE -HalfUp(-value, quantum)

Fits(n) == n \in IntMin .. IntMax
Saturated(n) == IF n > IntMax THEN IntMax ELSE IF n < IntMin THEN IntMin ELSE n

Divides(value, quantum) == value \notin {NaN, Inf, NegInf} /\ quantum > 0

\* What quantize_f32 answers where it does not divide, in either language.
Special(value) ==
  CASE value = NaN    -> IntMin
    [] value = Inf    -> IntMax
    [] value = NegInf -> IntMin + 1
    [] OTHER          -> value % 256

\* quantize_f32 of lib.rs: the cast saturates.
RustQuantize(value, quantum) ==
  IF Divides(value, quantum) THEN Saturated(Rounded(value, quantum))
  ELSE Special(value)

\* Mutant of CQuantize: 0.5 is added whatever the sign.
CQuantizeUp(value, quantum) ==
  {IF Divides(value, quantum) THEN HalfUp(value, quantum) ELSE Special(value)}

\* quantize_f32 of tracehash_c.c: the cast of a value that does not fit is
\* undefined; builds saturate or give INT64_MIN.
CQuantize(value, quantum) ==
  IF Divides(value, quantum)
  THEN LET n == Rounded(value, quantum) IN
       IF Fits(n) THEN {n} ELSE {Saturated(n), IntMin}
  ELSE {Special(value)}
-----------------------------------------------------------------------------
Integer == {"u64", "i64", "usize"}

\* The scalars, in either language.
Scalar(ty, v) ==
  CASE ty \in Integer -> Tag.U \o U64(v)
    [] ty = "bool"    -> Tag.B \o <<IF v # 0 THEN 1 ELSE 0>>
    [] ty = "f32"     -> Tag.F \o U32(v)
    [] ty = "f64"     -> Tag.D \o U64(v)

\* impl TraceHash for str, Vec<u8> and Option<u64>.
TraceHash(ty, v) ==
  CASE ty = "str"   -> Tag.S \o Str(v)
    [] ty = "bytes" -> Tag.L \o U64(Len(v))
                         \o FlattenSeq([i \in DOMAIN v |-> Tag.U \o U64(v[i])])
    [] ty = "some"  -> Tag.Some \o Tag.U \o U64(v)
    [] ty = "none"  -> Tag.None
    [] OTHER        -> Scalar(ty, v)

\* hash_trace_bytes, and what input_bytes feeds in Rust.
Bytes(v) == Tag.Y \o U64(Len(v)) \o v

\* hash_trace_u64, hash_trace_bool, .. of C.
CTrace(ty, v) == IF ty = "bytes" THEN Bytes(v) ELSE Scalar(ty, v)

Quantized(quantum, n) == Tag.Q \o U32(quantum) \o U64(n)
=============================================================================
