----------------------------- MODULE ProbeProofs ----------------------------
(***************************************************************************)
(* Theorems about Probe: for any helper calls on any objects of the C++    *)
(* class, in any order; the two ports record the same, and what the Rust   *)
(* one hashes can be read in one way only.                                 *)
(***************************************************************************)
EXTENDS Probe, SequenceTheorems, FiniteSetTheorems, WellFoundedInduction, TLAPS

\* Every number of a set of numbers is reached from the least one.
LEMMA LeastOf ==
  ASSUME NEW S \in SUBSET Nat, S # {}
  PROVE  \E n \in S : \A m \in S : n <= m
  <1>1. PICK n \in S : \A m \in S : <<m, n>> \notin OpToRel(<, Nat)
    BY NatLessThanWellFounded, WFMin
  <1>2. ASSUME NEW x \in Nat, NEW y \in Nat, x < y
        PROVE  <<x, y>> \in OpToRel(<, Nat)
    <2> DEFINE p == <<x, y>>
    <2>1. p \in Nat \X Nat /\ p[1] < p[2]
      BY <1>2
    <2> HIDE DEF p
    <2>2. p \in OpToRel(<, Nat)
      BY <2>1, Zenon DEF OpToRel
    <2>3. QED
      BY <2>2 DEF p
  <1>3. \A m \in S : ~(m < n)
    BY <1>1, <1>2
  <1>4. QED
    BY <1>3

(***************************************************************************)
(* FlattenSeq is defined by recursion over a sequence; there is a function *)
(* that satisfies the recursion, and its values are sequences.             *)
(***************************************************************************)
Flattens(seqs, n, f) ==
  f = [i \in 1 .. n |-> IF i = 1 THEN seqs[i] ELSE f[i - 1] \o seqs[i]]

LEMMA FlattensAt ==
  ASSUME NEW seqs, NEW n \in Nat, NEW f, Flattens(seqs, n, f), NEW i \in 1 .. n
  PROVE  f[i] = IF i = 1 THEN seqs[i] ELSE f[i - 1] \o seqs[i]
  BY DEF Flattens

LEMMA FlattensExists ==
  ASSUME NEW seqs, NEW n \in Nat
  PROVE  \E f : Flattens(seqs, n, f)
  <1> DEFINE Bad == {k \in Nat : ~ \E f : Flattens(seqs, k, f)}
  <1>1. SUFFICES Bad = {}
    OBVIOUS
  <1>2. SUFFICES ASSUME Bad # {} PROVE FALSE
    OBVIOUS
  <1>3. PICK k \in Bad : \A m \in Bad : k <= m
    <2>1. Bad \in SUBSET Nat
      OBVIOUS
    <2> HIDE DEF Bad
    <2>2. QED
      BY <1>2, <2>1, LeastOf
  <1>4. k \in Nat /\ ~ \E f : Flattens(seqs, k, f)
    OBVIOUS
  <1>5. k # 0
    <2>1. Flattens(seqs, 0, [i \in 1 .. 0 |-> <<>>])
      BY DEF Flattens
    <2>2. QED
      BY <1>4, <2>1
  <1>6. PICK g : Flattens(seqs, k - 1, g)
    <2>1. k - 1 \in Nat /\ k - 1 \notin Bad
      BY <1>3, <1>4, <1>5
    <2>2. QED
      BY <2>1
  <1> DEFINE f == [i \in 1 .. k |->
                     IF i = k THEN IF i = 1 THEN seqs[i] ELSE g[i - 1] \o seqs[i]
                     ELSE g[i]]
  <1>7. Flattens(seqs, k, f)
    <2>1. \A i \in 1 .. k : i # k =>
            g[i] = IF i = 1 THEN seqs[i] ELSE g[i - 1] \o seqs[i]
      <3>1. k \in Nat /\ k - 1 \in Nat
        BY <1>4, <1>5
      <3>2. ASSUME NEW i \in 1 .. k - 1
            PROVE  g[i] = IF i = 1 THEN seqs[i] ELSE g[i - 1] \o seqs[i]
        <4> HIDE DEF Bad, f
        <4>1. QED
          BY <1>6, <3>1, FlattensAt
      <3>3. QED
        BY <3>1, <3>2
    <2>2. \A i \in 1 .. k : i # 1 => f[i - 1] = g[i - 1]
      BY <1>4
    <2>3. \A i \in 1 .. k :
            f[i] = IF i = 1 THEN seqs[i] ELSE f[i - 1] \o seqs[i]
      BY <1>4, <2>1, <2>2
    <2>4. f = [i \in 1 .. k |-> f[i]]
      OBVIOUS
    <2> HIDE DEF f
    <2>5. QED
      BY <2>3, <2>4 DEF Flattens
  <1>8. QED
    BY <1>4, <1>7

LEMMA FlattenIs ==
  ASSUME NEW seqs, Len(seqs) \in Nat \ {0}
  PROVE  \E f : Flattens(seqs, Len(seqs), f) /\ FlattenSeq(seqs) = f[Len(seqs)]
  <1> DEFINE D(f) == Flattens(seqs, Len(seqs), f)
  <1>1. FlattenSeq(seqs) = (CHOOSE f : D(f))[Len(seqs)]
    BY Zenon DEF FlattenSeq, Flattens
  <1>2. D(CHOOSE f : D(f))
    <2>1. \E f : D(f)
      BY FlattensExists
    <2> HIDE DEF D
    <2>2. QED
      BY <2>1
  <1>3. QED
    BY <1>1, <1>2

LEMMA FlattenType ==
  ASSUME NEW S, NEW seqs \in Seq(Seq(S))
  PROVE  FlattenSeq(seqs) \in Seq(S)
  <1>1. CASE seqs = <<>>
    BY <1>1 DEF FlattenSeq
  <1>2. CASE seqs # <<>>
    <2>1. Len(seqs) \in Nat \ {0}
      BY <1>2
    <2>2. PICK f : Flattens(seqs, Len(seqs), f) /\ FlattenSeq(seqs) = f[Len(seqs)]
      BY <2>1, FlattenIs
    <2> DEFINE Bad == {k \in 1 .. Len(seqs) : f[k] \notin Seq(S)}
    <2>3. SUFFICES ASSUME Bad # {} PROVE FALSE
      BY <2>1, <2>2
    <2>4. PICK k \in Bad : \A m \in Bad : k <= m
      <3>1. Bad \in SUBSET Nat
        BY <2>1
      <3> HIDE DEF Bad
      <3>2. QED
        BY <2>3, <3>1, LeastOf
    <2>5. k \in 1 .. Len(seqs) /\ f[k] \notin Seq(S)
      OBVIOUS
    <2>6. f[k] = IF k = 1 THEN seqs[k] ELSE f[k - 1] \o seqs[k]
      BY <2>1, <2>2, <2>5, FlattensAt
    <2>7. seqs[k] \in Seq(S)
      BY <2>5
    <2>8. k # 1 => f[k - 1] \in Seq(S)
      BY <2>1, <2>4, <2>5
    <2>9. k # 1 => f[k - 1] \o seqs[k] \in Seq(S)
      BY <2>7, <2>8
    <2>10. QED
      BY <2>5, <2>6, <2>7, <2>9
  <1>3. QED
    BY <1>1, <1>2
-----------------------------------------------------------------------------
(***************************************************************************)
(* What is fed to a hash are bytes.                                        *)
(***************************************************************************)
LEMMA ByteNumbers == Byte \subseteq Int
  BY DEF Byte

LEMMA NumberBytes ==
  ASSUME NEW n \in Int
  PROVE  U32(n) \in Seq(Byte) /\ U64(n) \in Seq(Byte)
  <1>1. n % 256 \in Byte /\ (n \div 256) % 256 \in Byte
    BY DEF Byte
  <1>2. QED
    BY <1>1 DEF U32, U64

LEMMA TagBytes ==
  /\ Tag.U \in Seq(Byte) /\ Tag.B \in Seq(Byte) /\ Tag.F \in Seq(Byte)
  /\ Tag.D \in Seq(Byte) /\ Tag.Q \in Seq(Byte) /\ Tag.Y \in Seq(Byte)
  /\ Tag.V \in Seq(Byte) /\ Tag.G \in Seq(Byte) /\ Tag.S \in Seq(Byte)
  /\ Tag.L \in Seq(Byte) /\ Tag.Some \in Seq(Byte) /\ Tag.None \in Seq(Byte)
  BY DEF Tag, Byte

LEMMA StrBytes ==
  ASSUME NEW s \in Seq(Byte)
  PROVE  /\ Str(s) \in Seq(Byte)
         /\ Bytes(s) \in Seq(Byte)
  <1>1. U64(Len(s)) \in Seq(Byte)
    BY NumberBytes
  <1>2. QED
    BY <1>1, TagBytes DEF Str, Bytes

LEMMA ScalarBytes ==
  ASSUME NEW ty \in Scalars, NEW v \in Int
  PROVE  Scalar(ty, v) \in Seq(Byte)
  <1>1. U64(v) \in Seq(Byte) /\ U32(v) \in Seq(Byte)
    BY NumberBytes
  <1>2. <<IF v # 0 THEN 1 ELSE 0>> \in Seq(Byte)
    BY DEF Byte
  <1>3. CASE ty \in Integer
    BY <1>1, <1>3, TagBytes DEF Scalar, Integer
  <1>4. CASE ty = "bool"
    BY <1>2, <1>4, TagBytes DEF Scalar, Integer
  <1>5. CASE ty = "f32"
    BY <1>1, <1>5, TagBytes DEF Scalar, Integer
  <1>6. CASE ty = "f64"
    BY <1>1, <1>6, TagBytes DEF Scalar, Integer
  <1>7. QED
    BY <1>3, <1>4, <1>5, <1>6 DEF Scalars

\* What the type of a value says of it.
LEMMA TextBytes ==
  ASSUME NEW s \in Text
  PROVE  s \in Seq(Byte) /\ Len(s) \in Nat /\ Len(s) < 65536
  BY DEF Text

LEMMA TypedValue ==
  ASSUME NEW ty, NEW v, HasType(ty, v)
  PROVE  /\ ty \in {"str", "bytes"} => v \in Text /\ v \in Seq(Byte)
         /\ ty \in Scalars \cup {"f32q", "some", "none"} => v \in Int
  <1>1. CASE ty \in {"str", "bytes"}
    <2>1. v \in Text
      BY <1>1 DEF HasType, Integer
    <2>2. QED
      BY <1>1, <2>1, TextBytes DEF Scalars, Integer
  <1>2. CASE ty \notin {"str", "bytes"}
    BY <1>2 DEF HasType, Within
  <1>3. QED
    BY <1>1, <1>2

LEMMA TraceHashBytes ==
  ASSUME NEW ty \in Scalars \cup {"str", "bytes", "some", "none"}, NEW v,
         HasType(ty, v)
  PROVE  TraceHash(ty, v) \in Seq(Byte)
  <1>1. CASE ty = "str"
    <2>1. v \in Seq(Byte)
      BY <1>1, TypedValue DEF Scalars, Integer
    <2>2. QED
      BY <1>1, <2>1, StrBytes, TagBytes DEF TraceHash
  <1>2. CASE ty = "bytes"
    <2>1. v \in Seq(Byte)
      BY <1>2, TypedValue DEF Scalars, Integer
    <2> DEFINE parts == [i \in DOMAIN v |-> Tag.U \o U64(v[i])]
    <2>2. \A i \in 1 .. Len(v) : Tag.U \o U64(v[i]) \in Seq(Byte)
      <3>1. ASSUME NEW i \in 1 .. Len(v)
            PROVE  Tag.U \o U64(v[i]) \in Seq(Byte)
        <4>1. v[i] \in Byte
          BY <2>1
        <4>2. v[i] \in Int
          BY <4>1, ByteNumbers
        <4>3. U64(v[i]) \in Seq(Byte)
          BY <4>2, NumberBytes
        <4>4. QED
          BY <4>3, TagBytes
      <3>2. QED
        BY <3>1
    <2>3. parts \in Seq(Seq(Byte))
      <3>1. Len(v) \in Nat /\ DOMAIN v = 1 .. Len(v)
        BY <2>1
      <3>2. QED
        BY <2>2, <3>1
    <2>4. FlattenSeq(parts) \in Seq(Byte)
      <3> HIDE DEF parts
      <3>1. QED
        BY <2>3, FlattenType
    <2>5. U64(Len(v)) \in Seq(Byte)
      BY <2>1, NumberBytes
    <2>6. QED
      BY <1>2, <2>4, <2>5, TagBytes DEF TraceHash
  <1>3. CASE ty = "some"
    <2>1. v \in Int
      BY <1>3, TypedValue DEF Scalars, Integer
    <2>2. QED
      BY <1>3, <2>1, NumberBytes, TagBytes DEF TraceHash
  <1>4. CASE ty = "none"
    BY <1>4, TagBytes DEF TraceHash
  <1>5. CASE ty \in Scalars
    <2>1. v \in Int
      BY <1>5, TypedValue DEF Scalars, Integer
    <2>2. TraceHash(ty, v) = Scalar(ty, v)
      BY <1>5 DEF TraceHash, Scalars, Integer
    <2>3. QED
      BY <1>5, <2>1, <2>2, ScalarBytes
  <1>6. QED
    BY <1>1, <1>2, <1>3, <1>4, <1>5

LEMMA QuantizeType ==
  ASSUME NEW v \in Int, NEW q \in Int
  PROVE  /\ RustQuantize(v, q) \in Int
         /\ CQuantize(v, q) \subseteq Int
  <1>1. Special(v) \in Int
    BY DEF Special, NaN, Inf, NegInf, IntMin, IntMax
  <1>2. ASSUME q > 0
        PROVE  Rounded(v, q) \in Int
    <2>1. \A x \in Int : HalfUp(x, q) \in Int
      <3>1. 2 * q \in Int /\ 2 * q > 0
        BY <1>2
      <3>2. ASSUME NEW x \in Int, NEW d \in Int, d > 0 PROVE x \div d \in Int
        BY <3>2
      <3>3. QED
        BY <3>1, <3>2 DEF HalfUp
    <2>2. HalfUp(v, q) \in Int /\ HalfUp(-v, q) \in Int
      BY <2>1
    <2>3. QED
      BY <2>2 DEF Rounded
  <1>3. \A n \in Int : Saturated(n) \in Int
    BY DEF Saturated, IntMin, IntMax
  <1>4. IntMin \in Int
    BY DEF IntMin
  <1>5. CASE Divides(v, q)
    <2>1. Rounded(v, q) \in Int
      BY <1>2, <1>5 DEF Divides
    <2>2. QED
      BY <1>3, <1>4, <1>5, <2>1 DEF RustQuantize, CQuantize
  <1>6. CASE ~Divides(v, q)
    BY <1>1, <1>6 DEF RustQuantize, CQuantize
  <1>7. QED
    BY <1>5, <1>6

\* Where the quotient fits, or there is none, the two languages agree.
LEMMA QuantizeAgrees ==
  ASSUME NEW v, NEW q, Divides(v, q) => Fits(Rounded(v, q))
  PROVE  CQuantize(v, q) = {RustQuantize(v, q)}
  <1>1. ASSUME NEW n, Fits(n) PROVE Saturated(n) = n
    <2>1. IntMin \in Int /\ IntMax \in Int
      BY DEF IntMin, IntMax
    <2>2. n \in Int /\ IntMin <= n /\ n <= IntMax
      BY <1>1, <2>1 DEF Fits
    <2>3. QED
      BY <2>1, <2>2 DEF Saturated
  <1>2. QED
    BY <1>1 DEF CQuantize, RustQuantize

\* What the field of a declaration feeds in Rust, and in C.
RustFieldFed(f) == Str(f.name) \o TraceHash(f.ty, f.v)
CFieldFed(f) == Str(f.name) \o CTrace(f.ty, f.v)

LEMMA FieldBytes ==
  ASSUME NEW decl, IsDeclaration(decl), NEW i \in DOMAIN decl.fields
  PROVE  /\ RustFieldFed(decl.fields[i]) \in Seq(Byte)
         /\ CFieldFed(decl.fields[i]) \in Seq(Byte)
         /\ decl.fields[i].ty # "bytes" =>
              RustFieldFed(decl.fields[i]) = CFieldFed(decl.fields[i])
  <1> DEFINE f == decl.fields[i]
  <1>1. /\ f.name \in Seq(Byte) /\ f.ty \in Scalars \cup {"bytes"}
        /\ HasType(f.ty, f.v)
    BY DEF IsDeclaration, Text
  <1> HIDE DEF f
  <1>2. Str(f.name) \in Seq(Byte) /\ TraceHash(f.ty, f.v) \in Seq(Byte)
    BY <1>1, StrBytes, TraceHashBytes
  <1>3. CASE f.ty = "bytes"
    <2>1. f.v \in Seq(Byte)
      BY <1>1, <1>3, TypedValue DEF Scalars, Integer
    <2>2. CTrace(f.ty, f.v) \in Seq(Byte)
      BY <1>3, <2>1, StrBytes DEF CTrace
    <2>3. QED
      BY <1>2, <1>3, <2>2 DEF RustFieldFed, CFieldFed, f
  <1>4. CASE f.ty \in Scalars
    <2>1. TraceHash(f.ty, f.v) = CTrace(f.ty, f.v)
      BY <1>4 DEF TraceHash, CTrace, Scalars, Integer
    <2>2. QED
      BY <1>2, <2>1 DEF RustFieldFed, CFieldFed, f
  <1>5. QED
    BY <1>1, <1>3, <1>4

\* The derive's impl hashes the fields of the declaration.
LEMMA DerivedIs ==
  ASSUME NEW decl, IsDeclaration(decl)
  PROVE  DerivedHash(decl) =
           Str(decl.name) \o FlattenSeq([i \in DOMAIN decl.fields |->
                                           RustFieldFed(decl.fields[i])])
  <1> DEFINE hash(f) == LET g == CHOOSE g \in Range(decl.fields) : g.name = f
                        IN  Str(f) \o TraceHash(g.ty, g.v)
  <1>1. ASSUME NEW i \in DOMAIN decl.fields
        PROVE  hash(decl.fields[i].name) = RustFieldFed(decl.fields[i])
    <2>1. decl.fields[i] \in Range(decl.fields)
      BY DEF Range
    <2>2. \A g \in Range(decl.fields) :
            g.name = decl.fields[i].name => g = decl.fields[i]
      BY DEF Range, IsDeclaration
    <2>3. (CHOOSE g \in Range(decl.fields) : g.name = decl.fields[i].name)
            = decl.fields[i]
      BY <2>1, <2>2
    <2>4. QED
      BY <2>3 DEF RustFieldFed
  <1>2. /\ DOMAIN DerivedFields(decl) = DOMAIN decl.fields
        /\ \A i \in DOMAIN decl.fields :
             DerivedFields(decl)[i] = decl.fields[i].name
    BY DEF IsDeclaration
  <1>3. DerivedHash(decl) =
          Str(decl.name) \o FlattenSeq([i \in DOMAIN DerivedFields(decl) |->
                                          hash(DerivedFields(decl)[i])])
    BY DEF DerivedHash
  <1> HIDE DEF hash
  <1>4. [i \in DOMAIN DerivedFields(decl) |-> hash(DerivedFields(decl)[i])]
          = [i \in DOMAIN decl.fields |-> RustFieldFed(decl.fields[i])]
    BY <1>1, <1>2
  <1>5. QED
    BY <1>3, <1>4

\* What a struct feeds in C, behind its tag.
CStructFed(decl) ==
  FlattenSeq([i \in DOMAIN decl.fields |-> CFieldFed(decl.fields[i])])

LEMMA StructBytes ==
  ASSUME NEW decl, IsDeclaration(decl)
  PROVE  /\ DerivedHash(decl) \in Seq(Byte)
         /\ Str(decl.name) \in Seq(Byte)
         /\ CStructFed(decl) \in Seq(Byte)
         /\ (\A i \in DOMAIN decl.fields : decl.fields[i].ty # "bytes") =>
              DerivedHash(decl) = Str(decl.name) \o CStructFed(decl)
  <1> DEFINE rust_fed == [i \in DOMAIN decl.fields |-> RustFieldFed(decl.fields[i])]
             c_fed == [i \in DOMAIN decl.fields |-> CFieldFed(decl.fields[i])]
  <1>1. rust_fed \in Seq(Seq(Byte)) /\ c_fed \in Seq(Seq(Byte))
    <2>1. DOMAIN decl.fields = 1 .. Len(decl.fields) /\ Len(decl.fields) \in Nat
      BY DEF IsDeclaration
    <2>2. QED
      BY <2>1, FieldBytes
  <1>2. Str(decl.name) \in Seq(Byte)
    BY StrBytes DEF IsDeclaration, Text
  <1>3. (\A i \in DOMAIN decl.fields : decl.fields[i].ty # "bytes") =>
          rust_fed = c_fed
    BY FieldBytes
  <1>4. DerivedHash(decl) = Str(decl.name) \o FlattenSeq(rust_fed)
    BY DerivedIs
  <1>5. CStructFed(decl) = FlattenSeq(c_fed)
    BY DEF CStructFed
  <1> HIDE DEF rust_fed, c_fed
  <1>6. FlattenSeq(rust_fed) \in Seq(Byte) /\ FlattenSeq(c_fed) \in Seq(Byte)
    BY <1>1, FlattenType
  <1>7. DerivedHash(decl) \in Seq(Byte) /\ CStructFed(decl) \in Seq(Byte)
    BY <1>2, <1>4, <1>5, <1>6
  <1>8. rust_fed = c_fed => DerivedHash(decl) = Str(decl.name) \o CStructFed(decl)
    BY <1>4, <1>5
  <1>9. QED
    BY <1>2, <1>3, <1>7, <1>8

LEMMA Concat3 ==
  ASSUME NEW x \in Seq(Byte), NEW y \in Seq(Byte), NEW z \in Seq(Byte)
  PROVE  (x \o y) \o z = x \o (y \o z)
  OBVIOUS

(***************************************************************************)
(* What a helper call feeds, in Rust (RustFed) and in C, and where the two *)
(* feed the same.                                                          *)
(***************************************************************************)
Typed(h) == h.form \in {"pos", "as"}

CFed(h) ==
  CASE h.form = "value" -> {Tag.V \o (Str(h.v.name) \o CStructFed(h.v))}
    [] h.form = "field" -> {Tag.G \o (Str(h.name) \o CTrace(h.ty, h.v))}
    [] OTHER            -> CTyped(h)

\* No struct has a field of bytes, which the two languages hash differently.
NoBytesField ==
  \A h \in Helpers : h.ty = "struct" =>
    \A i \in DOMAIN h.v.fields : h.v.fields[i].ty # "bytes"

LEMMA TypedFed ==
  ASSUME NEW h, IsHelper(h), Typed(h)
  PROVE  /\ RustTyped(h) \in Seq(Byte)
         /\ CTyped(h) \subseteq Seq(Byte)
         /\ Comparable(h) => CTyped(h) = {RustTyped(h)}
  <1>1. h.ty \in Scalars \cup {"bytes", "f32q"} /\ HasType(h.ty, h.v) /\ h.q \in Int
    BY DEF IsHelper, Typed, Within
  <1>2. CASE h.ty = "bytes"
    <2>1. h.v \in Seq(Byte)
      BY <1>1, <1>2, TypedValue DEF Scalars, Integer
    <2>2. RustTyped(h) = Bytes(h.v) /\ CTyped(h) = {Bytes(h.v)}
      BY <1>2 DEF RustTyped, CTyped, CTrace
    <2>3. QED
      BY <2>1, <2>2, StrBytes
  <1>3. CASE h.ty = "f32q"
    <2>1. h.v \in Int
      BY <1>1, <1>3, TypedValue DEF Scalars, Integer
    <2>2. /\ RustTyped(h) = Quantized(h.q, RustQuantize(h.v, h.q))
          /\ CTyped(h) = {Quantized(h.q, n) : n \in CQuantize(h.v, h.q)}
      BY <1>3 DEF RustTyped, CTyped
    <2>3. ASSUME NEW n \in Int PROVE Quantized(h.q, n) \in Seq(Byte)
      <3>1. Tag.Q \in Seq(Byte) /\ U32(h.q) \in Seq(Byte) /\ U64(n) \in Seq(Byte)
        BY <1>1, NumberBytes, TagBytes
      <3>2. QED
        BY <3>1 DEF Quantized
    <2>4. Comparable(h) => CQuantize(h.v, h.q) = {RustQuantize(h.v, h.q)}
      BY <1>3, QuantizeAgrees DEF Comparable
    <2>5. RustQuantize(h.v, h.q) \in Int /\ CQuantize(h.v, h.q) \subseteq Int
      BY <1>1, <2>1, QuantizeType
    <2>6. QED
      BY <2>2, <2>3, <2>4, <2>5
  <1>4. CASE h.ty \in Scalars
    <2>1. h.v \in Int
      BY <1>1, <1>4, TypedValue DEF Scalars, Integer
    <2>2. RustTyped(h) = TraceHash(h.ty, h.v)
      BY <1>4 DEF RustTyped, Scalars, Integer
    <2>3. TraceHash(h.ty, h.v) = Scalar(h.ty, h.v)
      BY <1>4 DEF TraceHash, Scalars, Integer
    <2>4. CTyped(h) = {Scalar(h.ty, h.v)}
      BY <1>4 DEF CTyped, CTrace, Scalars, Integer
    <2>5. QED
      BY <1>4, <2>1, <2>2, <2>3, <2>4, ScalarBytes
  <1>5. QED
    BY <1>1, <1>2, <1>3, <1>4

LEMMA ValueFedType ==
  ASSUME NEW h, IsHelper(h), ~Typed(h)
  PROVE  ValueHash(h) \in Seq(Byte) /\ RustFed(h) \in Seq(Byte)
  <1>1. ValueHash(h) \in Seq(Byte)
    <2>1. CASE h.ty = "struct"
      <3>1. IsDeclaration(h.v)
        BY <2>1 DEF IsHelper, Typed, Scalars, Integer
      <3>2. QED
        BY <2>1, <3>1, StructBytes DEF ValueHash
    <2>2. CASE h.ty # "struct"
      <3>1. h.ty \in Scalars \cup {"str", "bytes", "some", "none"} /\ HasType(h.ty, h.v)
        BY <2>2 DEF IsHelper, Typed
      <3>2. QED
        BY <2>2, <3>1, TraceHashBytes DEF ValueHash
    <2>3. QED
      BY <2>1, <2>2
  <1>2. Str(h.name) \in Seq(Byte)
    BY StrBytes DEF IsHelper, Text
  <1>3. h.form \in {"field", "value"}
    BY DEF IsHelper, Typed
  <1>4. CASE h.form = "value"
    BY <1>1, <1>4, TagBytes DEF RustFed, ValueFed
  <1>5. CASE h.form = "field"
    BY <1>1, <1>2, <1>5, TagBytes DEF RustFed, FieldFed
  <1>6. QED
    BY <1>1, <1>3, <1>4, <1>5

LEMMA RustFedType ==
  ASSUME NEW h, IsHelper(h)
  PROVE  RustFed(h) \in Seq(Byte)
  <1>1. CASE Typed(h)
    BY <1>1, TypedFed DEF RustFed, Typed
  <1>2. QED
    BY <1>1, ValueFedType

\* What a C field helper can be given.
LEMMA FieldArgument ==
  ASSUME NEW h, IsHelper(h), InC(h), h.form = "field"
  PROVE  h.ty \in Scalars /\ HasType(h.ty, h.v) /\ h.name \in Seq(Byte)
  <1>1. h.ty \in Scalars
    BY DEF InC, Scalars, Integer
  <1>2. h.ty # "struct"
    BY <1>1 DEF Scalars, Integer
  <1>3. HasType(h.ty, h.v)
    BY <1>2 DEF IsHelper
  <1>4. h.name \in Text
    BY DEF IsHelper
  <1>5. QED
    BY <1>1, <1>3, <1>4, TextBytes

LEMMA FedAgrees ==
  ASSUME NEW h \in Helpers, InC(h)
  PROVE  /\ CFed(h) \subseteq Seq(Byte)
         /\ Comparable(h) /\ NoBytesField => CFed(h) = {RustFed(h)}
  <1>0. IsHelper(h)
    BY ProbeAssumption
  <1>1. CASE Typed(h)
    <2>1. RustFed(h) = RustTyped(h) /\ CFed(h) = CTyped(h)
      BY <1>1 DEF RustFed, CFed, Typed
    <2>2. QED
      BY <1>0, <1>1, <2>1, TypedFed
  <1>2. CASE h.form = "value"
    <2>1. h.ty = "struct" /\ IsDeclaration(h.v)
      BY <1>0, <1>2 DEF InC, IsHelper, Scalars, Integer
    <2>2. /\ RustFed(h) = Tag.V \o DerivedHash(h.v)
          /\ CFed(h) = {Tag.V \o (Str(h.v.name) \o CStructFed(h.v))}
      BY <1>2, <2>1 DEF RustFed, ValueFed, ValueHash, CFed
    <2>3. Str(h.v.name) \o CStructFed(h.v) \in Seq(Byte)
      BY <2>1, StructBytes
    <2>4. NoBytesField => DerivedHash(h.v) = Str(h.v.name) \o CStructFed(h.v)
      BY <2>1, StructBytes DEF NoBytesField
    <2>5. Tag.V \in Seq(Byte)
      BY TagBytes
    <2>6. CFed(h) \subseteq Seq(Byte)
      BY <2>2, <2>3, <2>5
    <2>7. QED
      BY <2>2, <2>4, <2>6
  <1>3. CASE h.form = "field"
    <2>1. h.ty \in Scalars /\ HasType(h.ty, h.v) /\ h.name \in Seq(Byte)
      BY <1>0, <1>3, FieldArgument
    <2>2. h.v \in Int
      BY <2>1, TypedValue DEF Scalars, Integer
    <2>3. CTrace(h.ty, h.v) = TraceHash(h.ty, h.v) /\ ValueHash(h) = TraceHash(h.ty, h.v)
      BY <2>1 DEF CTrace, TraceHash, ValueHash, Scalars, Integer
    <2>4. /\ RustFed(h) = Tag.G \o Str(h.name) \o TraceHash(h.ty, h.v)
          /\ CFed(h) = {Tag.G \o (Str(h.name) \o TraceHash(h.ty, h.v))}
      BY <1>3, <2>3 DEF RustFed, FieldFed, CFed
    <2>5. TraceHash(h.ty, h.v) \in Seq(Byte) /\ Str(h.name) \in Seq(Byte)
      BY <2>1, TraceHashBytes, StrBytes
    <2>6. Tag.G \in Seq(Byte)
      BY TagBytes
    <2>7. Tag.G \o (Str(h.name) \o TraceHash(h.ty, h.v)) \in Seq(Byte)
      BY <2>5, <2>6
    <2>8. RustFed(h) = Tag.G \o (Str(h.name) \o TraceHash(h.ty, h.v))
      <3>1. (Tag.G \o Str(h.name)) \o TraceHash(h.ty, h.v)
              = Tag.G \o (Str(h.name) \o TraceHash(h.ty, h.v))
        BY <2>5, <2>6, Concat3
      <3>2. QED
        BY <2>4, <3>1
    <2>9. QED
      BY <2>4, <2>7, <2>8
  <1>4. QED
    BY <1>0, <1>1, <1>2, <1>3 DEF IsHelper, Typed
-----------------------------------------------------------------------------
(***************************************************************************)
(* Calls.  A helper gives one stream of a call new contents, and appends   *)
(* to its values column or leaves it.                                      *)
(***************************************************************************)
IsStream(st) ==
  /\ st = [hash |-> st.hash, len |-> st.len, counter |-> st.counter, vals |-> st.vals]
  /\ st.hash \in Seq(Byte)
  /\ st.len \in Nat /\ st.counter \in Nat
  /\ program.deep \/ st.vals = <<>>

Updated(c, s, st, values) ==
  [active |-> c.active, in |-> IF s = "in" THEN st ELSE c.in,
   out |-> IF s = "out" THEN st ELSE c.out, deep |-> c.deep,
   values_on |-> c.values_on, values |-> values]

LEMMA CallShape ==
  ASSUME NEW c, NEW on, IsCall(c, on)
  PROVE  /\ c = [active |-> Active, in |-> c.in, out |-> c.out,
                 deep |-> program.deep, values_on |-> on, values |-> c.values]
         /\ c["in"] = c.in /\ c["out"] = c.out
         /\ c.active = Active /\ c.deep = program.deep /\ c.values_on = on
         /\ IsStream(c.in) /\ IsStream(c.out)
         /\ \A s \in Sides : IsStream(c[s])
         /\ on \/ c.values = <<>>
  <1>1. c = [active |-> Active, in |-> c.in, out |-> c.out,
             deep |-> program.deep, values_on |-> on, values |-> c.values]
    BY DEF IsCall
  <1>2. c.active = Active /\ c.deep = program.deep /\ c.values_on = on
    BY <1>1
  <1>3. \A s \in Sides : IsStream(c[s])
    BY <1>2 DEF IsCall, IsStream
  <1>4. "in" \in Sides /\ "out" \in Sides
    BY DEF Sides
  <1>5. IsStream(c.in) /\ IsStream(c.out)
    BY <1>3, <1>4
  <1>6. on \/ c.values = <<>>
    BY <1>2 DEF IsCall
  <1>7. QED
    BY <1>1, <1>2, <1>3, <1>5, <1>6

LEMMA UpdatedCall ==
  ASSUME NEW c, NEW on, IsCall(c, on), NEW s \in Sides, NEW st, IsStream(st),
         NEW values, on \/ values = <<>>
  PROVE  /\ IsCall(Updated(c, s, st, values), on)
         /\ Updated(c, s, st, values)[s] = st
         /\ \A s2 \in Sides : s2 # s => Updated(c, s, st, values)[s2] = c[s2]
         /\ Updated(c, s, st, values).values = values
  <1> DEFINE u == Updated(c, s, st, values)
  <1>1. /\ u.active = Active /\ u.deep = program.deep /\ u.values_on = on
        /\ u.values = values
        /\ u = [active |-> Active, in |-> u.in, out |-> u.out,
                deep |-> program.deep, values_on |-> on, values |-> u.values]
    BY CallShape DEF Updated
  <1>2. u[s] = st /\ \A s2 \in Sides : s2 # s => u[s2] = c[s2]
    BY DEF Updated, Sides
  <1>3. \A s2 \in Sides : IsStream(u[s2])
    BY <1>2, CallShape
  <1> HIDE DEF u
  <1>4. IsCall(u, on)
    BY <1>1, <1>3 DEF IsCall, IsStream
  <1>5. QED
    BY <1>1, <1>2, <1>4 DEF u
-----------------------------------------------------------------------------
(***************************************************************************)
(* The helper calls of either language, on an active call.                 *)
(***************************************************************************)
Count(h) == IF Typed(h) THEN Weight(h) ELSE 1

\* The name of an argument: given, or its side and number.
NameOf(h, n) == IF h.form = "as" THEN h.name ELSE <<h.side, n>>

RustStream(st, h) ==
  [hash    |-> st.hash \o RustFed(h),
   len     |-> st.len + Count(h),
   counter |-> IF Typed(h) THEN st.counter + 1 ELSE st.counter,
   vals    |-> IF Typed(h) /\ program.deep
               THEN Append(st.vals, <<NameOf(h, st.counter), Value(h)>>) ELSE st.vals]

RustValues(c, h) ==
  IF h.form = "value" THEN c.values
  ELSE PushValue(c, <<h.side, IF Typed(h) THEN RustTyped(h) ELSE h.name>>)

CStream(st, h, fed) ==
  [hash    |-> st.hash \o fed,
   len     |-> st.len + Count(h),
   counter |-> IF Typed(h) /\ program.deep THEN st.counter + 1 ELSE st.counter,
   vals    |-> IF Typed(h) /\ program.deep
               THEN Append(st.vals, <<NameOf(h, st.counter), Value(h)>>) ELSE st.vals]

CValues(c, h, fed) ==
  IF h.form = "value" THEN c.values
  ELSE AppendValue(c, <<h.side, IF Typed(h) THEN fed ELSE h.name>>)

CallFields == {"active", "in", "out", "deep", "values_on", "values"}

\* Two records with the fields of a call are one if their fields are.
LEMMA SameFields ==
  ASSUME NEW a, NEW i, NEW o, NEW d, NEW n, NEW v, NEW f,
         f = [x \in CallFields |-> f[x]],
         f["active"] = a, f["in"] = i, f["out"] = o, f["deep"] = d,
         f["values_on"] = n, f["values"] = v
  PROVE  f = [active |-> a, in |-> i, out |-> o, deep |-> d, values_on |-> n,
              values |-> v]
  BY DEF CallFields

\* The two fields that a helper changes.
With(c, s, st, values) == [c EXCEPT ![s] = st, !.values = values]

LEMMA WithIs ==
  ASSUME NEW c, NEW on, IsCall(c, on), NEW s \in Sides, NEW st, NEW values
  PROVE  With(c, s, st, values) = Updated(c, s, st, values)
  <1>1. c = [active |-> Active, in |-> c.in, out |-> c.out, deep |-> program.deep,
             values_on |-> on, values |-> c.values]
    BY CallShape
  <1>2. DOMAIN c = CallFields
    BY <1>1 DEF CallFields
  <1> DEFINE u == With(c, s, st, values)
  <1>3. s \in DOMAIN c /\ "values" \in DOMAIN c
    BY <1>2 DEF Sides, CallFields
  <1>4. u = [x \in DOMAIN c |-> IF x = "values" THEN values
                                ELSE IF x = s THEN st ELSE c[x]]
    BY <1>3 DEF With
  <1> HIDE DEF u
  <1>5. u = [x \in CallFields |-> u[x]]
    BY <1>2, <1>4
  <1>6. /\ u["active"] = c.active /\ u["deep"] = c.deep
        /\ u["values_on"] = c.values_on /\ u["values"] = values
        /\ u["in"] = IF s = "in" THEN st ELSE c.in
        /\ u["out"] = IF s = "out" THEN st ELSE c.out
    BY <1>2, <1>4 DEF CallFields, Sides
  <1>7. u = Updated(c, s, st, values)
    BY <1>5, <1>6, SameFields DEF Updated
  <1>8. QED
    BY <1>7 DEF u

LEMMA ExceptOne ==
  ASSUME NEW c, NEW on, IsCall(c, on), NEW s \in Sides, NEW st
  PROVE  [c EXCEPT ![s] = st] = Updated(c, s, st, c.values)
  <1>1. c = [active |-> Active, in |-> c.in, out |-> c.out, deep |-> program.deep,
             values_on |-> on, values |-> c.values]
    BY CallShape
  <1>2. DOMAIN c = CallFields
    BY <1>1 DEF CallFields
  <1> DEFINE u == [c EXCEPT ![s] = st]
  <1>3. u = [x \in DOMAIN c |-> IF x = s THEN st ELSE c[x]]
    OBVIOUS
  <1> HIDE DEF u
  <1>4. u = [x \in CallFields |-> u[x]]
    BY <1>2, <1>3
  <1>5. /\ u["active"] = c.active /\ u["deep"] = c.deep
        /\ u["values_on"] = c.values_on /\ u["values"] = c.values
        /\ u["in"] = IF s = "in" THEN st ELSE c.in
        /\ u["out"] = IF s = "out" THEN st ELSE c.out
    BY <1>2, <1>3 DEF CallFields, Sides
  <1>6. u = Updated(c, s, st, c.values)
    BY <1>4, <1>5, SameFields DEF Updated
  <1>7. QED
    BY <1>6 DEF u

LEMMA FeedIs ==
  ASSUME NEW c, NEW s, IsStream(c[s]), NEW fed
  PROVE  Feed(c, s, fed) = [hash |-> c[s].hash \o fed, len |-> c[s].len + 1,
                            counter |-> c[s].counter, vals |-> c[s].vals]
  <1> DEFINE u == Feed(c, s, fed)
  <1>1. DOMAIN c[s] = {"hash", "len", "counter", "vals"}
    BY DEF IsStream
  <1>2. u = [x \in DOMAIN c[s] |-> IF x = "len" THEN c[s].len + 1
                                   ELSE IF x = "hash" THEN c[s].hash \o fed ELSE c[s][x]]
    BY <1>1 DEF Feed
  <1> HIDE DEF u
  <1>3. /\ u = [x \in {"hash", "len", "counter", "vals"} |-> u[x]]
        /\ u["hash"] = c[s].hash \o fed /\ u["len"] = c[s].len + 1
        /\ u["counter"] = c[s].counter /\ u["vals"] = c[s].vals
    BY <1>1, <1>2
  <1>4. u = [hash |-> c[s].hash \o fed, len |-> c[s].len + 1,
             counter |-> c[s].counter, vals |-> c[s].vals]
    BY <1>3
  <1>5. QED
    BY <1>4 DEF u

LEMMA RustHelperIs ==
  ASSUME NEW c, NEW on, IsCall(c, on), Active, NEW h, IsHelper(h)
  PROVE  RustHelper(c, h) =
           Updated(c, h.side, RustStream(c[h.side], h), RustValues(c, h))
  <1> DEFINE s == h.side
             st == c[s]
  <1>1. s \in Sides /\ h.form \in {"pos", "as", "field", "value"}
    BY DEF IsHelper
  <1>2. c.active /\ c.deep = program.deep
    BY CallShape
  <1>3. /\ IsStream(st)
        /\ st = [hash |-> st.hash, len |-> st.len, counter |-> st.counter,
                 vals |-> st.vals]
    <2>1. IsStream(st)
      BY <1>1, CallShape
    <2>2. QED
      BY <2>1 DEF IsStream
  <1> HIDE DEF s, st
  <1>4. ASSUME NEW st2, NEW values
        PROVE  With(c, s, st2, values) = Updated(c, s, st2, values)
    BY <1>1, WithIs
  <1>5. ASSUME NEW st2
        PROVE  [c EXCEPT ![s] = st2] = Updated(c, s, st2, c.values)
    BY <1>1, ExceptOne
  <1>6. ASSUME NEW fed
        PROVE  Feed(c, s, fed) = [hash |-> st.hash \o fed, len |-> st.len + 1,
                                  counter |-> st.counter, vals |-> st.vals]
    BY <1>3, FeedIs DEF st
  <1>7. CASE h.form = "value"
    <2>1. RustHelper(c, h) = [c EXCEPT ![s] = Feed(c, s, ValueFed(h))]
      BY <1>2, <1>7 DEF RustHelper, RustValue, s
    <2>2. Feed(c, s, ValueFed(h)) = RustStream(st, h) /\ RustValues(c, h) = c.values
      BY <1>6, <1>7 DEF RustStream, RustFed, RustValues, Typed, Count
    <2>3. QED
      BY <1>5, <2>1, <2>2 DEF s, st
  <1>8. CASE h.form = "field"
    <2>1. RustHelper(c, h) =
            With(c, s, Feed(c, s, FieldFed(h)), PushValue(c, <<s, h.name>>))
      BY <1>2, <1>8 DEF RustHelper, RustField, With, s
    <2>2. Feed(c, s, FieldFed(h)) = RustStream(st, h)
      BY <1>6, <1>8 DEF RustStream, RustFed, Typed, Count
    <2>3. PushValue(c, <<s, h.name>>) = RustValues(c, h)
      BY <1>8 DEF RustValues, Typed, s
    <2>4. QED
      BY <1>4, <2>1, <2>2, <2>3 DEF s, st
  <1>9. CASE Typed(h)
    <2> DEFINE name == NameOf(h, st.counter)
    <2>1. RustHelper(c, h) = RustArg(c, s, h, name)
      BY <1>1, <1>2, <1>9
      DEF RustHelper, RustInput, RustInputAs, RustOutput, RustOutputAs, Typed,
          AutoName, NameOf, Sides, s, st
    <2>2. RustArg(c, s, h, name) =
            With(c, s, [hash    |-> st.hash \o RustTyped(h),
                        len     |-> st.len + Weight(h),
                        counter |-> st.counter + 1,
                        vals    |-> DeepPush(c, s, name, h)],
                 PushValue(c, <<s, RustTyped(h)>>))
      BY <1>1, CallShape DEF RustArg, With, st
    <2>3. DeepPush(c, s, name, h) = RustStream(st, h).vals
      BY <1>2, <1>9 DEF DeepPush, RustStream, st
    <2>4. /\ RustFed(h) = RustTyped(h) /\ Count(h) = Weight(h)
          /\ PushValue(c, <<s, RustTyped(h)>>) = RustValues(c, h)
      BY <1>9 DEF RustFed, Count, RustValues, Typed, s
    <2>5. QED
      BY <1>4, <1>9, <2>1, <2>2, <2>3, <2>4 DEF RustStream, s, st
  <1>10. QED
    BY <1>1, <1>7, <1>8, <1>9 DEF Typed

\* The stream of an argument in C.
Captured(c, s, h, given, fed) ==
  [DeepCapture(c, s, h, given) EXCEPT !.hash = @ \o fed, !.len = @ + Weight(h)]

LEMMA CaptureIs ==
  ASSUME NEW c, NEW s, c.deep = program.deep, IsStream(c[s]), NEW h, Typed(h),
         NEW given, given = (h.form = "as"), s = h.side, NEW fed
  PROVE  Captured(c, s, h, given, fed) = CStream(c[s], h, fed)
  <1> DEFINE st == c[s]
             d == DeepCapture(c, s, h, given)
             Fields == {"hash", "len", "counter", "vals"}
             u == Captured(c, s, h, given, fed)
             name == NameOf(h, st.counter)
  <1>1. DOMAIN st = Fields
    BY DEF IsStream
  <1>2. d = IF ~program.deep THEN st
            ELSE [x \in DOMAIN st |->
                    IF x = "vals" THEN Append(st.vals, <<name, Value(h)>>)
                    ELSE IF x = "counter" THEN st.counter + 1 ELSE st[x]]
    <2>1. CASE ~program.deep
      BY <2>1 DEF DeepCapture
    <2>2. CASE program.deep
      <3>1. name = IF given THEN h.name ELSE <<s, st.counter>>
        BY DEF NameOf
      <3> HIDE DEF st, name
      <3>2. d = [st EXCEPT !.counter = st.counter + 1,
                           !.vals = Append(@, <<name, Value(h)>>)]
        BY <2>2, <3>1 DEF DeepCapture, st
      <3>3. QED
        BY <1>1, <2>2, <3>2
    <2>3. QED
      BY <2>1, <2>2
  <1> HIDE DEF d, st, name
  <1>3. /\ DOMAIN d = Fields /\ d.hash = st.hash /\ d.len = st.len
        /\ d.counter = IF program.deep THEN st.counter + 1 ELSE st.counter
        /\ d.vals = IF program.deep THEN Append(st.vals, <<name, Value(h)>>)
                    ELSE st.vals
    BY <1>1, <1>2
  <1>4. u = [x \in DOMAIN d |-> IF x = "len" THEN d.len + Weight(h)
                                ELSE IF x = "hash" THEN d.hash \o fed ELSE d[x]]
    BY <1>3 DEF Captured, d
  <1> HIDE DEF u
  <1>5. /\ u = [x \in Fields |-> u[x]]
        /\ u["hash"] = st.hash \o fed /\ u["len"] = st.len + Weight(h)
        /\ u["counter"] = IF program.deep THEN st.counter + 1 ELSE st.counter
        /\ u["vals"] = IF program.deep THEN Append(st.vals, <<name, Value(h)>>)
                       ELSE st.vals
    BY <1>3, <1>4
  <1>6. u = CStream(st, h, fed)
    BY <1>5 DEF CStream, Count, name
  <1>7. QED
    BY <1>6 DEF u, d, st

LEMMA CHelperIs ==
  ASSUME NEW c, NEW on, IsCall(c, on), Active, NEW h, IsHelper(h), InC(h),
         NEW c2 \in CHelper(c, h)
  PROVE  \E fed \in CFed(h) :
           c2 = Updated(c, h.side, CStream(c[h.side], h, fed), CValues(c, h, fed))
  <1> DEFINE s == h.side
             st == c[s]
  <1>1. s \in Sides /\ h.form \in {"pos", "as", "field", "value"}
    BY DEF IsHelper
  <1>2. c.active /\ c.deep = program.deep
    BY CallShape
  <1>3. IsStream(st)
    BY <1>1, CallShape
  <1> HIDE DEF s, st
  <1>4. ASSUME NEW st2, NEW values
        PROVE  With(c, s, st2, values) = Updated(c, s, st2, values)
    BY <1>1, WithIs
  <1>5. ASSUME NEW st2
        PROVE  [c EXCEPT ![s] = st2] = Updated(c, s, st2, c.values)
    BY <1>1, ExceptOne
  <1>6. ASSUME NEW fed
        PROVE  Feed(c, s, fed) = [hash |-> st.hash \o fed, len |-> st.len + 1,
                                  counter |-> st.counter, vals |-> st.vals]
    BY <1>3, FeedIs DEF st
  <1>7. CASE h.form = "value"
    <2> DEFINE flat == CStructFed(h.v)
               fed == Tag.V \o (Str(h.v.name) \o flat)
    <2>1. c2 = [c EXCEPT ![s] = Feed(c, s, Tag.V \o Str(h.v.name) \o flat)]
      BY <1>2, <1>7 DEF CHelper, CStruct, CStructFed, CFieldFed, s
    <2>2. Tag.V \o Str(h.v.name) \o flat = fed
      <3>1. IsDeclaration(h.v)
        BY <1>7 DEF InC, IsHelper, Scalars, Integer
      <3>2. Str(h.v.name) \in Seq(Byte) /\ flat \in Seq(Byte)
        BY <3>1, StructBytes
      <3>3. Tag.V \in Seq(Byte)
        BY TagBytes
      <3> HIDE DEF flat
      <3>4. QED
        BY <3>2, <3>3, Concat3
    <2>3. fed \in CFed(h)
      BY <1>7 DEF CFed
    <2> HIDE DEF fed, flat
    <2>4. Feed(c, s, fed) = CStream(st, h, fed) /\ CValues(c, h, fed) = c.values
      BY <1>6, <1>7 DEF CStream, CValues, Typed, Count
    <2>5. c2 = Updated(c, s, CStream(st, h, fed), CValues(c, h, fed))
      BY <1>5, <2>1, <2>2, <2>4
    <2>6. QED
      BY <2>3, <2>5 DEF s, st
  <1>8. CASE h.form = "field"
    <2> DEFINE value == CTrace(h.ty, h.v)
               fed == Tag.G \o (Str(h.name) \o value)
    <2>1. c2 = With(c, s, Feed(c, s, Tag.G \o Str(h.name) \o value),
                    AppendValue(c, <<s, h.name>>))
      BY <1>2, <1>8 DEF CHelper, CField, With, s
    <2>2. Tag.G \o Str(h.name) \o value = fed
      <3>1. h.ty \in Scalars /\ HasType(h.ty, h.v) /\ h.name \in Seq(Byte)
        BY <1>8, FieldArgument
      <3>2. h.v \in Int /\ value = Scalar(h.ty, h.v)
        <4>1. h.v \in Int
          BY <3>1, TypedValue
        <4>2. value = Scalar(h.ty, h.v)
          BY <3>1 DEF CTrace, Scalars, Integer
        <4>3. QED
          BY <4>1, <4>2
      <3>3. Str(h.name) \in Seq(Byte) /\ value \in Seq(Byte)
        BY <3>1, <3>2, StrBytes, ScalarBytes
      <3>4. Tag.G \in Seq(Byte)
        BY TagBytes
      <3> HIDE DEF value
      <3>5. QED
        BY <3>3, <3>4, Concat3
    <2>3. fed \in CFed(h)
      BY <1>8 DEF CFed
    <2> HIDE DEF fed, value
    <2>4. Feed(c, s, fed) = CStream(st, h, fed)
      BY <1>6, <1>8 DEF CStream, Typed, Count
    <2>5. AppendValue(c, <<s, h.name>>) = CValues(c, h, fed)
      BY <1>8 DEF CValues, Typed, s
    <2>6. c2 = Updated(c, s, CStream(st, h, fed), CValues(c, h, fed))
      BY <1>4, <2>1, <2>2, <2>4, <2>5
    <2>7. QED
      BY <2>3, <2>6 DEF s, st
  <1>9. CASE Typed(h)
    <2> DEFINE given == h.form = "as"
    <2>1. CHelper(c, h) = CArg(c, s, h, given)
      BY <1>1, <1>2, <1>9
      DEF CHelper, CInput, CInputAs, COutput, COutputAs, InC, Typed, Sides, s
    <2>2. PICK fed \in CTyped(h) :
            c2 = With(c, s, Captured(c, s, h, given, fed), AppendValue(c, <<s, fed>>))
      BY <2>1 DEF CArg, With, Captured
    <2>3. Captured(c, s, h, given, fed) = CStream(st, h, fed)
      BY <1>2, <1>3, <1>9, CaptureIs DEF s, st
    <2>4. c2 = With(c, s, CStream(st, h, fed), AppendValue(c, <<s, fed>>))
      BY <2>2, <2>3
    <2>5. fed \in CFed(h)
      BY <1>9 DEF CFed, Typed
    <2>6. AppendValue(c, <<s, fed>>) = CValues(c, h, fed)
      BY <1>9 DEF CValues, Typed, s
    <2>7. QED
      BY <1>4, <2>4, <2>5, <2>6 DEF s, st
  <1>10. QED
    BY <1>1, <1>7, <1>8, <1>9 DEF Typed

LEMMA CountType ==
  ASSUME NEW h, IsHelper(h)
  PROVE  Count(h) \in Nat
  <1>1. CASE Typed(h) /\ h.ty = "bytes"
    <2>1. HasType(h.ty, h.v)
      BY <1>1 DEF IsHelper, Typed
    <2>2. h.v \in Seq(Byte)
      BY <1>1, <2>1, TypedValue DEF Scalars, Integer
    <2>3. QED
      BY <1>1, <2>2 DEF Count, Weight
  <1>2. QED
    BY <1>1 DEF Count, Weight

LEMMA RustHelperType ==
  ASSUME NEW c, NEW on, IsCall(c, on), NEW h \in Helpers
  PROVE  IsCall(RustHelper(c, h), on)
  <1>1. IsHelper(h)
    BY ProbeAssumption
  <1>2. CASE ~Active
    <2>1. ~c.active
      BY <1>2, CallShape
    <2>2. RustHelper(c, h) = c
      BY <2>1 DEF RustHelper
    <2>3. QED
      BY <2>2
  <1>3. CASE Active
    <2> DEFINE s == h.side
    <2>1. s \in Sides /\ IsStream(c[s])
      BY <1>1, CallShape DEF IsHelper
    <2>2. RustFed(h) \in Seq(Byte)
      BY <1>1, RustFedType
    <2>3. Count(h) \in Nat
      BY <1>1, CountType
    <2>4. IsStream(RustStream(c[s], h))
      BY <2>1, <2>2, <2>3 DEF IsStream, RustStream
    <2>5. on \/ RustValues(c, h) = <<>>
      BY CallShape DEF RustValues, PushValue
    <2>6. RustHelper(c, h) = Updated(c, s, RustStream(c[s], h), RustValues(c, h))
      BY <1>1, <1>3, RustHelperIs
    <2> HIDE DEF s
    <2>7. QED
      BY <2>1, <2>4, <2>5, <2>6, UpdatedCall
  <1>4. QED
    BY <1>2, <1>3

LEMMA CHelperType ==
  ASSUME NEW c, NEW on, IsCall(c, on), NEW h \in Helpers, NEW c2 \in CHelper(c, h)
  PROVE  IsCall(c2, on)
  <1>1. IsHelper(h)
    BY ProbeAssumption
  <1>2. CASE ~Active \/ ~InC(h)
    <2>1. ~c.active \/ ~InC(h)
      BY <1>2, CallShape
    <2>2. c2 = c
      BY <2>1 DEF CHelper
    <2>3. QED
      BY <2>2
  <1>3. CASE Active /\ InC(h)
    <2> DEFINE s == h.side
    <2>1. s \in Sides /\ IsStream(c[s])
      BY <1>1, CallShape DEF IsHelper
    <2>2. PICK fed \in CFed(h) :
            c2 = Updated(c, s, CStream(c[s], h, fed), CValues(c, h, fed))
      BY <1>1, <1>3, CHelperIs
    <2>3. fed \in Seq(Byte)
      BY <1>3, FedAgrees
    <2>4. Count(h) \in Nat
      BY <1>1, CountType
    <2>5. IsStream(CStream(c[s], h, fed))
      BY <2>1, <2>3, <2>4 DEF IsStream, CStream
    <2>6. on \/ CValues(c, h, fed) = <<>>
      BY CallShape DEF CValues, AppendValue
    <2> HIDE DEF s
    <2>7. QED
      BY <2>1, <2>2, <2>5, <2>6, UpdatedCall
  <1>4. QED
    BY <1>2, <1>3

(***************************************************************************)
(* The two calls of one script.  The C counter runs only where values are  *)
(* captured, the Rust one always; the C values column is kept also where   *)
(* no row is written.                                                      *)
(***************************************************************************)
SameStream(a, b) ==
  /\ a.len = b.len
  /\ program.deep => a.counter = b.counter /\ a.vals = b.vals
  /\ NoBytesField => a.hash = b.hash

Alike(r, c) ==
  /\ \A s \in Sides : SameStream(r[s], c[s])
  /\ program.tsv => r.values = c.values

LEMMA AlikeStep ==
  ASSUME NEW r, IsCall(r, program.tsv /\ program.values),
         NEW c, IsCall(c, program.values), Alike(r, c),
         NEW h \in Helpers, Comparable(h), NEW c2 \in CHelper(c, h)
  PROVE  Alike(RustHelper(r, h), c2)
  <1>1. IsHelper(h) /\ InC(h)
    BY ProbeAssumption DEF Comparable
  <1>2. CASE ~Active
    <2>1. ~c.active /\ ~r.active
      BY <1>2, CallShape
    <2>2. c2 = c /\ RustHelper(r, h) = r
      BY <2>1 DEF CHelper, RustHelper
    <2>3. QED
      BY <2>2
  <1>3. CASE Active
    <2> DEFINE s == h.side
    <2>1. s \in Sides /\ IsStream(c[s]) /\ IsStream(r[s])
      BY <1>1, CallShape DEF IsHelper
    <2>2. PICK fed \in CFed(h) :
            c2 = Updated(c, s, CStream(c[s], h, fed), CValues(c, h, fed))
      BY <1>1, <1>3, CHelperIs
    <2>3. RustHelper(r, h) = Updated(r, s, RustStream(r[s], h), RustValues(r, h))
      BY <1>1, <1>3, RustHelperIs
    <2>4. NoBytesField => fed = RustFed(h)
      BY <1>1, FedAgrees
    <2>5. Typed(h) => fed = RustTyped(h)
      <3>1. ASSUME Typed(h) PROVE CFed(h) = CTyped(h)
        BY <3>1 DEF CFed, Typed
      <3>2. Typed(h) => CTyped(h) = {RustTyped(h)}
        BY <1>1, TypedFed
      <3>3. QED
        BY <2>2, <3>1, <3>2
    <2>6. SameStream(r[s], c[s])
      BY <2>1 DEF Alike
    <2> HIDE DEF s
    <2>7. SameStream(RustStream(r[s], h), CStream(c[s], h, fed))
      BY <2>4, <2>6 DEF SameStream, RustStream, CStream
    <2>8. program.tsv => RustValues(r, h) = CValues(c, h, fed)
      <3>1. ASSUME program.tsv PROVE r.values = c.values /\ (r.values_on <=> c.values_on)
        <4>1. r.values_on = (program.tsv /\ program.values)
          BY CallShape
        <4>2. c.values_on = program.values
          BY CallShape
        <4>3. r.values = c.values
          BY <3>1 DEF Alike
        <4>4. QED
          BY <3>1, <4>1, <4>2, <4>3
      <3>2. (IF Typed(h) THEN RustTyped(h) ELSE h.name)
              = (IF Typed(h) THEN fed ELSE h.name)
        BY <2>5
      <3>3. ASSUME program.tsv, NEW label
            PROVE  PushValue(r, label) = AppendValue(c, label)
        BY <3>1, <3>3 DEF PushValue, AppendValue
      <3>4. QED
        BY <3>1, <3>2, <3>3 DEF RustValues, CValues
    <2>9. ASSUME NEW s2 \in Sides
          PROVE  SameStream(RustHelper(r, h)[s2], c2[s2])
      <3>1. CASE s2 = s
        <4>1. RustHelper(r, h)[s] = RustStream(r[s], h) /\ c2[s] = CStream(c[s], h, fed)
          BY <2>1, <2>2, <2>3 DEF Updated, Sides
        <4>2. QED
          BY <2>7, <3>1, <4>1
      <3>2. CASE s2 # s
        <4>1. RustHelper(r, h)[s2] = r[s2] /\ c2[s2] = c[s2]
          BY <2>1, <2>2, <2>3, <3>2, CallShape DEF Updated, Sides
        <4>2. QED
          BY <4>1 DEF Alike
      <3>3. QED
        BY <3>1, <3>2
    <2>10. RustHelper(r, h).values = RustValues(r, h) /\ c2.values = CValues(c, h, fed)
      BY <2>2, <2>3 DEF Updated
    <2>11. QED
      BY <2>8, <2>9, <2>10 DEF Alike
  <1>4. QED
    BY <1>2, <1>3
-----------------------------------------------------------------------------
(***************************************************************************)
(* The parts of the state, and what an action makes of them.               *)
(***************************************************************************)
LEMMA AppendIs ==
  ASSUME NEW s, NEW n \in Nat, DOMAIN s = 1 .. n, s = [i \in 1 .. n |-> s[i]], NEW e
  PROVE  Append(s, e) = [i \in 1 .. n + 1 |-> IF i = n + 1 THEN e ELSE s[i]]
  <1> DEFINE S == {s[i] : i \in 1 .. n} \cup {e}
  <1>1. s \in Seq(S) /\ e \in S
    OBVIOUS
  <1>2. Len(s) = n
    BY <1>1
  <1> HIDE DEF S
  <1>3. QED
    BY <1>1, <1>2

\* What the helpers called for one call are: those of its inputs, and of its
\* outputs.
Scripts == [Sides -> Seq(Helpers)]

LEMMA ScriptIs ==
  ASSUME NEW t \in Scripts, NEW s \in Sides
  PROVE  t[s] \in Seq(Helpers)
  BY DEF Scripts

LEMMA NoScript == [s \in Sides |-> <<>>] \in Scripts
  BY DEF Scripts

\* One more helper is called.
LEMMA ScriptGrows ==
  ASSUME NEW t \in Scripts, NEW s \in Sides, NEW h \in Helpers,
         NEW u, u = [t EXCEPT ![s] = Append(@, h)]
  PROVE  /\ u \in Scripts /\ u[s] = Append(t[s], h)
         /\ \A r \in Sides : r # s => u[r] = t[r]
  <1>1. Append(t[s], h) \in Seq(Helpers)
    <2>1. t[s] \in Seq(Helpers)
      BY ScriptIs
    <2>2. QED
      BY <2>1
  <1>2. QED
    BY <1>1 DEF Scripts

\* What was written for a call; an object.
IsHistory(x) == x = [rust |-> x.rust, c |-> x.c]
IsObject(x) == x = [id |-> x.id, call |-> x.call, finished |-> x.finished]
LEMMA TypeParts ==
  ASSUME TypeOK
  PROVE  /\ Len(script) \in Nat /\ Begun = 1 .. Len(script)
         /\ script = [i \in Begun |-> script[i]]
         /\ rust = [i \in Begun |-> rust[i]] /\ DOMAIN rust = Begun
         /\ emitted = [i \in Begun |-> emitted[i]] /\ DOMAIN emitted = Begun
         /\ \A i \in Begun : /\ script[i] \in Scripts
                             /\ IsHistory(emitted[i])
         /\ objects = [o \in Objects |-> objects[o]] /\ DOMAIN objects = Objects
         /\ \A o \in Objects :
              /\ IsObject(objects[o])
              /\ objects[o].id \in Nat /\ objects[o].finished \in BOOLEAN
              /\ Open(o) <=> objects[o].finished = FALSE
              /\ objects[o].finished = FALSE =>
                   objects[o].id \in Begun /\ IsCall(objects[o].call, program.values)
  <1>1. script \in Seq(Scripts)
    BY DEF TypeOK, Scripts
  <1>2. /\ Len(script) \in Nat /\ Begun = 1 .. Len(script)
        /\ script = [i \in Begun |-> script[i]]
        /\ \A i \in Begun : script[i] \in Scripts
    BY <1>1 DEF Begun
  <1>3. /\ rust = [i \in Begun |-> rust[i]] /\ DOMAIN rust = Begun
        /\ emitted = [i \in Begun |-> [rust |-> emitted[i].rust, c |-> emitted[i].c]]
    BY DEF TypeOK
  <1>4. ASSUME NEW i \in Begun
        PROVE  IsHistory(emitted[i])
    BY <1>3 DEF IsHistory
  <1>5. emitted = [i \in Begun |-> emitted[i]] /\ DOMAIN emitted = Begun
    BY <1>3
  <1>6. objects = [o \in Objects |->
                    [id |-> objects[o].id, call |-> objects[o].call,
                     finished |-> objects[o].finished]]
    BY DEF TypeOK
  <1>7. objects = [o \in Objects |-> objects[o]] /\ DOMAIN objects = Objects
    BY <1>6
  <1>8. ASSUME NEW o \in Objects
        PROVE  /\ IsObject(objects[o])
               /\ objects[o].id \in Nat /\ objects[o].finished \in BOOLEAN
               /\ Open(o) <=> objects[o].finished = FALSE
               /\ objects[o].finished = FALSE =>
                    objects[o].id \in Begun /\ IsCall(objects[o].call, program.values)
    <2>1. objects[o] = [id |-> objects[o].id, call |-> objects[o].call,
                        finished |-> objects[o].finished]
      BY <1>6
    <2>2. objects[o].id \in Nat /\ objects[o].finished \in BOOLEAN
      BY DEF TypeOK
    <2>3. objects[o].finished = FALSE => objects[o] # NoObject
      BY DEF NoObject
    <2>4. Open(o) <=> objects[o].finished = FALSE
      BY <2>2, <2>3 DEF Open, Alive
    <2>5. objects[o].finished = FALSE =>
                    objects[o].id \in Begun /\ IsCall(objects[o].call, program.values)
      BY <2>3 DEF TypeOK
    <2>6. QED
      BY <2>1, <2>2, <2>4, <2>5 DEF IsObject
  <1>9. QED
    BY <1>2, <1>3, <1>4, <1>5, <1>7, <1>8

Closed(x) == [id |-> x.id, call |-> x.call, finished |-> TRUE]

LEMMA ObjectClosed ==
  ASSUME NEW x, IsObject(x)
  PROVE  [x EXCEPT !.finished = TRUE] = [id |-> x.id, call |-> x.call, finished |-> TRUE]
  <1> DEFINE D == {"id", "call", "finished"}
             u == [x EXCEPT !.finished = TRUE]
  <1>1. DOMAIN x = D
    BY DEF IsObject
  <1>2. u = [y \in D |-> IF y = "finished" THEN TRUE ELSE x[y]]
    BY <1>1
  <1> HIDE DEF u
  <1>3. /\ u = [y \in D |-> u[y]]
        /\ u["id"] = x.id /\ u["call"] = x.call /\ u["finished"] = TRUE
    BY <1>2
  <1>4. u = [id |-> x.id, call |-> x.call, finished |-> TRUE]
    BY <1>3
  <1>5. QED
    BY <1>4 DEF u

LEMMA ObjectCalled ==
  ASSUME NEW x, NEW c, IsObject(x)
  PROVE  [x EXCEPT !.call = c] = [id |-> x.id, call |-> c, finished |-> x.finished]
  <1> DEFINE D == {"id", "call", "finished"}
             u == [x EXCEPT !.call = c]
  <1>1. DOMAIN x = D
    BY DEF IsObject
  <1>2. u = [y \in D |-> IF y = "call" THEN c ELSE x[y]]
    BY <1>1
  <1> HIDE DEF u
  <1>3. /\ u = [y \in D |-> u[y]]
        /\ u["id"] = x.id /\ u["call"] = c /\ u["finished"] = x.finished
    BY <1>2
  <1>4. u = [id |-> x.id, call |-> c, finished |-> x.finished]
    BY <1>3
  <1>5. QED
    BY <1>4 DEF u

LEMMA HistoryOfC ==
  ASSUME NEW x, NEW e, IsHistory(x)
  PROVE  [x EXCEPT !.c = @ \o e] = [rust |-> x.rust, c |-> x.c \o e]
  <1> DEFINE D == {"rust", "c"}
             u == [x EXCEPT !.c = @ \o e]
  <1>1. DOMAIN x = D
    BY DEF IsHistory
  <1>2. u = [y \in D |-> IF y = "c" THEN x.c \o e ELSE x[y]]
    BY <1>1
  <1> HIDE DEF u
  <1>3. /\ u = [y \in D |-> u[y]]
        /\ u["rust"] = x.rust /\ u["c"] = x.c \o e
    BY <1>2
  <1>4. u = [rust |-> x.rust, c |-> x.c \o e]
    BY <1>3
  <1>5. QED
    BY <1>4 DEF u

LEMMA HistoryOfRust ==
  ASSUME NEW x, NEW e, IsHistory(x)
  PROVE  [x EXCEPT !.rust = @ \o e] = [rust |-> x.rust \o e, c |-> x.c]
  <1> DEFINE D == {"rust", "c"}
             u == [x EXCEPT !.rust = @ \o e]
  <1>1. DOMAIN x = D
    BY DEF IsHistory
  <1>2. u = [y \in D |-> IF y = "rust" THEN x.rust \o e ELSE x[y]]
    BY <1>1
  <1> HIDE DEF u
  <1>3. /\ u = [y \in D |-> u[y]]
        /\ u["rust"] = x.rust \o e /\ u["c"] = x.c
    BY <1>2
  <1>4. u = [rust |-> x.rust \o e, c |-> x.c]
    BY <1>3
  <1>5. QED
    BY <1>4 DEF u

LEMMA ClosedIs ==
  ASSUME TypeOK, NEW o \in Objects
  PROVE  [objects EXCEPT ![o].finished = TRUE]
           = [x \in Objects |-> IF x = o THEN Closed(objects[o]) ELSE objects[x]]
  <1>1. objects = [x \in Objects |-> objects[x]] /\ DOMAIN objects = Objects
    BY TypeParts
  <1>2. [objects[o] EXCEPT !.finished = TRUE] = Closed(objects[o])
    BY TypeParts, ObjectClosed DEF Closed
  <1>3. [objects EXCEPT ![o].finished = TRUE]
          = [x \in Objects |-> IF x = o THEN [objects[x] EXCEPT !.finished = TRUE]
                               ELSE objects[x]]
    BY <1>1
  <1>4. QED
    BY <1>2, <1>3

LEMMA CalledIs ==
  ASSUME TypeOK, NEW o \in Objects, NEW c
  PROVE  [objects EXCEPT ![o].call = c]
           = [x \in Objects |->
                IF x = o THEN [id |-> objects[o].id, call |-> c,
                               finished |-> objects[o].finished]
                ELSE objects[x]]
  <1>1. objects = [x \in Objects |-> objects[x]] /\ DOMAIN objects = Objects
    BY TypeParts
  <1>2. [objects[o] EXCEPT !.call = c]
          = [id |-> objects[o].id, call |-> c, finished |-> objects[o].finished]
    BY TypeParts, ObjectCalled
  <1>3. [objects EXCEPT ![o].call = c]
          = [x \in Objects |-> IF x = o THEN [objects[x] EXCEPT !.call = c]
                               ELSE objects[x]]
    BY <1>1
  <1>4. QED
    BY <1>2, <1>3

LEMMA MovedIs ==
  ASSUME TypeOK, NEW o \in Objects, NEW p \in Objects, o # p
  PROVE  Moved(o, p) = [x \in Objects |-> IF x = o THEN Closed(objects[o])
                                          ELSE IF x = p THEN objects[o]
                                          ELSE objects[x]]
  <1> DEFINE f == [objects EXCEPT ![p] = objects[o]]
  <1>1. f = [x \in Objects |-> IF x = p THEN objects[o] ELSE objects[x]]
    BY TypeParts
  <1>2. Moved(o, p) = [f EXCEPT ![o].finished = TRUE]
    BY DEF Moved
  <1>3. f[o] = objects[o] /\ DOMAIN f = Objects /\ f = [x \in Objects |-> f[x]]
    BY <1>1
  <1>4. [objects[o] EXCEPT !.finished = TRUE] = Closed(objects[o])
    BY TypeParts, ObjectClosed DEF Closed
  <1> HIDE DEF f
  <1>5. [f EXCEPT ![o].finished = TRUE]
          = [x \in Objects |-> IF x = o THEN [f[x] EXCEPT !.finished = TRUE] ELSE f[x]]
    BY <1>3
  <1>6. QED
    BY <1>1, <1>2, <1>3, <1>4, <1>5

\* What CppFinish adds to the history.
LEMMA CppFinishIs ==
  ASSUME TypeOK, NEW o \in Objects
  PROVE  CppFinish(o) =
           IF objects[o].finished THEN emitted
           ELSE [i \in Begun |->
                   IF i = objects[o].id
                   THEN [rust |-> emitted[i].rust,
                         c    |-> emitted[i].c \o Emission(objects[o].call)]
                   ELSE emitted[i]]
  <1> DEFINE i == objects[o].id
             e == Emission(objects[o].call)
  <1>1. CASE objects[o].finished
    BY <1>1 DEF CppFinish
  <1>2. CASE ~objects[o].finished
    <2>1. /\ i \in Begun /\ DOMAIN emitted = Begun
          /\ emitted = [k \in Begun |-> emitted[k]]
      BY <1>2, TypeParts
    <2>2. CppFinish(o) = [emitted EXCEPT ![i].c = @ \o e]
      BY <1>2 DEF CppFinish
    <2> HIDE DEF i, e
    <2>3. [emitted[i] EXCEPT !.c = @ \o e]
            = [rust |-> emitted[i].rust, c |-> emitted[i].c \o e]
      BY <2>1, TypeParts, HistoryOfC
    <2>4. [emitted EXCEPT ![i].c = @ \o e]
            = [k \in Begun |-> IF k = i THEN [emitted[k] EXCEPT !.c = @ \o e]
                               ELSE emitted[k]]
      BY <2>1
    <2>5. QED
      BY <1>2, <2>2, <2>3, <2>4 DEF i, e
  <1>3. QED
    BY <1>1, <1>2
-----------------------------------------------------------------------------
(***************************************************************************)
(* The inductive invariant.  An id has one open object at most; a call is  *)
(* written once, when its object is open no more; and while it is open,    *)
(* the two calls of a comparable script are alike.                         *)
(***************************************************************************)
AllComparable(i) ==
  \A s \in Sides : \A k \in DOMAIN script[i][s] : Comparable(script[i][s][k])
Held(i) == \E o \in Objects : Open(o) /\ objects[o].id = i

SameRecord(a, b) == a.entry = b.entry /\ (NoBytesField => a.row = b.row)

HolderInv ==
  \A o, p \in Objects :
    Open(o) /\ Open(p) /\ objects[o].id = objects[p].id => o = p

\* Nothing is written for a call, or a record in C, and one or none in Rust.
Unwritten(i) == emitted[i].c = <<>> /\ emitted[i].rust = <<>>
Written(i) ==
  \E b : /\ emitted[i].c = <<b>>
         /\ \/ emitted[i].rust = <<>>
            \/ \E a : /\ emitted[i].rust = <<a>>
                      /\ AllComparable(i) => SameRecord(a, b)

EmissionInv ==
  \A i \in Begun : IF Active /\ ~Held(i) THEN Written(i) ELSE Unwritten(i)

CallsInv ==
  \A o \in Objects :
    Open(o) => LET i == objects[o].id IN
               /\ IsCall(rust[i], program.tsv /\ program.values)
               /\ AllComparable(i) => Alike(rust[i], objects[o].call)

IInv == TypeOK /\ HolderInv /\ EmissionInv /\ CallsInv

LEMMA EmissionIs ==
  ASSUME NEW c, NEW on, IsCall(c, on)
  PROVE  IF Active THEN \E b : Emission(c) = <<b>> ELSE Emission(c) = <<>>
  BY CallShape DEF Emission

LEMMA EmissionAgrees ==
  ASSUME Active, NEW r, IsCall(r, program.tsv /\ program.values),
         NEW c, IsCall(c, program.values), Alike(r, c)
  PROVE  \E a, b : Emission(r) = <<a>> /\ Emission(c) = <<b>> /\ SameRecord(a, b)
  <1> DEFINE rec(x) ==
               [row   |-> IF ~program.tsv THEN <<>>
                          ELSE <<x.in.hash, x.out.hash, x.in.len, x.out.len, x.values>>,
                entry |-> IF ~program.deep THEN <<>> ELSE <<x.in.vals, x.out.vals>>]
  <1>1. Emission(r) = <<rec(r)>> /\ Emission(c) = <<rec(c)>>
    BY CallShape DEF Emission
  <1>2. SameStream(r.in, c.in) /\ SameStream(r.out, c.out)
    <2>1. r["in"] = r.in /\ c["in"] = c.in /\ r["out"] = r.out /\ c["out"] = c.out
      BY CallShape
    <2>2. QED
      BY <2>1 DEF Alike, Sides
  <1>3. program.tsv => r.values = c.values
    BY DEF Alike
  <1>4. SameRecord(rec(r), rec(c))
    BY <1>2, <1>3 DEF SameRecord, SameStream
  <1> HIDE DEF rec
  <1>5. QED
    BY <1>1, <1>4

LEMMA NewCalls ==
  /\ IsCall(RustNew, program.tsv /\ program.values)
  /\ IsCall(CBegin, program.values)
  /\ Alike(RustNew, CBegin)
  <1>1. Str(Callee) \in Seq(Byte) /\ <<>> \in Seq(Byte)
    BY ProbeAssumption, StrBytes
  <1> DEFINE st == Started(Active)
  <1>2. IsStream(st)
    BY <1>1 DEF IsStream, Started
  <1>3. \A s \in Sides : RustNew[s] = st /\ CBegin[s] = st
    BY DEF RustNew, CBegin, Sides
  <1>4. \A s \in Sides : SameStream(RustNew[s], CBegin[s])
    BY <1>3 DEF SameStream
  <1>5. RustNew.values = <<>> /\ CBegin.values = <<>>
    BY DEF RustNew, CBegin
  <1>6. Alike(RustNew, CBegin)
    BY <1>4, <1>5 DEF Alike
  <1>7. RustNew.deep = program.deep /\ CBegin.deep = program.deep
    BY DEF RustNew, CBegin
  <1>8. /\ RustNew = [active |-> Active, in |-> RustNew.in, out |-> RustNew.out,
                      deep |-> program.deep, values_on |-> program.tsv /\ program.values,
                      values |-> RustNew.values]
        /\ CBegin = [active |-> Active, in |-> CBegin.in, out |-> CBegin.out,
                     deep |-> program.deep, values_on |-> program.values,
                     values |-> CBegin.values]
    BY DEF RustNew, CBegin
  <1> HIDE DEF st
  <1>9. IsCall(RustNew, program.tsv /\ program.values)
    BY <1>2, <1>3, <1>5, <1>7, <1>8 DEF IsCall, IsStream
  <1>10. IsCall(CBegin, program.values)
    BY <1>2, <1>3, <1>5, <1>7, <1>8 DEF IsCall, IsStream
  <1>11. QED
    BY <1>6, <1>9, <1>10

LEMMA InitInv == Init => IInv
  <1> SUFFICES ASSUME Init PROVE IInv
    OBVIOUS
  <1>1. script = <<>> /\ Begun = {} /\ rust = <<>> /\ emitted = <<>>
    BY DEF Init, Begun
  <1>2. \A o \in Objects : objects[o] = NoObject /\ ~Open(o)
    BY DEF Init, Open, Alive
  <1>3. NoObject = [id |-> 0, call |-> NoCall, finished |-> TRUE]
    BY DEF NoObject
  <1>4. TypeOK
    <2>1. /\ rust = [i \in Begun |-> rust[i]]
          /\ emitted = [i \in Begun |-> [rust |-> emitted[i].rust, c |-> emitted[i].c]]
      BY <1>1
    <2>2. objects = [o \in Objects |->
                  [id |-> objects[o].id, call |-> objects[o].call,
                   finished |-> objects[o].finished]]
      BY <1>2, <1>3 DEF Init
    <2>3. \A o \in Objects : objects[o].id \in Nat /\ objects[o].finished \in BOOLEAN
      <3>1. NoObject.id = 0 /\ NoObject.finished = TRUE
        BY <1>3
      <3>2. QED
        <4>1. ASSUME NEW o \in Objects
              PROVE  objects[o].id \in Nat /\ objects[o].finished \in BOOLEAN
          <5>1. objects[o] = NoObject
            BY <1>2
          <5>2. objects[o].id = 0 /\ objects[o].finished = TRUE
            BY <3>1, <5>1
          <5>3. objects[o].id \in Nat
            BY <5>2
          <5>4. objects[o].finished \in BOOLEAN
            BY <5>2, Zenon
          <5>5. QED
            BY <5>3, <5>4
        <4>2. QED
          BY <4>1
    <2>4. program \in Programs /\ script \in Seq(Scripts)
      BY <1>1 DEF Init
    <2>5. QED
      BY <1>1, <1>2, <2>1, <2>2, <2>3, <2>4 DEF TypeOK
  <1>5. QED
    BY <1>1, <1>2, <1>4 DEF IInv, HolderInv, EmissionInv, CallsInv

LEMMA SameCall ==
  ASSUME program' = program, NEW c, NEW on, IsCall(c, on)
  PROVE  IsCall(c, on)'
  BY DEF IsCall, Active

LEMMA SameAlike ==
  ASSUME program' = program, NEW r, NEW c, Alike(r, c)
  PROVE  Alike(r, c)'
  BY DEF Alike, SameStream

(***************************************************************************)
(* An action lets go of an object o: what is open in it is finished and    *)
(* written (e in Rust), and the other open objects are, each, somewhere.   *)
(***************************************************************************)
EndedRecord(o, e, i) ==
  [rust |-> emitted[i].rust \o e,
   c    |-> emitted[i].c \o Emission(objects[o].call)]

EndedBy(o, e) ==
  IF ~Open(o) THEN emitted
  ELSE [i \in Begun |-> IF i = objects[o].id THEN EndedRecord(o, e, i) ELSE emitted[i]]

LEMMA EndedIs ==
  ASSUME TypeOK, NEW o \in Objects, NEW e
  PROVE  /\ EndedBy(o, e) = [i \in Begun |-> EndedBy(o, e)[i]]
         /\ \A i \in Begun :
              EndedBy(o, e)[i] = IF Open(o) /\ i = objects[o].id THEN EndedRecord(o, e, i)
                               ELSE emitted[i]
  <1>1. CASE ~Open(o)
    BY <1>1, TypeParts DEF EndedBy
  <1>2. CASE Open(o)
    BY <1>2 DEF EndedBy
  <1>3. QED
    BY <1>1, <1>2

Comes(x, f) ==
  \/ f[x] = NoObject
  \/ \E y \in Objects : Alive(y) /\ f[x] \in {objects[y], Closed(objects[y])}

Relocated(o, f) ==
  /\ f = [x \in Objects |-> f[x]]
  /\ \A x \in Objects : Comes(x, f)
  /\ \A x \in Objects :
       ~f[x].finished => \E y \in Objects : y # o /\ Open(y) /\ f[x] = objects[y]
  /\ \A y \in Objects : y # o /\ Open(y) => \E x \in Objects : f[x] = objects[y]
  /\ \A x, y \in Objects :
       ~f[x].finished /\ ~f[y].finished /\ f[x].id = f[y].id => x = y

LEMMA ReleaseStep ==
  ASSUME IInv, program' = program, script' = script,
         NEW o \in Objects, rust' = RustDrop(o),
         NEW e \in {<<>>, Emission(rust[objects[o].id])},
         emitted' = EndedBy(o, e), Relocated(o, objects')
  PROVE  IInv'
  <1>1. TypeOK /\ HolderInv /\ EmissionInv /\ CallsInv
    BY DEF IInv
  <1>0. Active' = Active
    BY DEF Active
  <1>2. /\ rust = [i \in Begun |-> rust[i]] /\ DOMAIN rust = Begun
        /\ emitted = [i \in Begun |-> emitted[i]] /\ DOMAIN emitted = Begun
        /\ \A i \in Begun : IsHistory(emitted[i])
        /\ \A y \in Objects :
              /\ IsObject(objects[y]) /\ objects[y].id \in Nat
              /\ objects[y].finished \in BOOLEAN
              /\ Open(y) <=> objects[y].finished = FALSE
              /\ Open(y) => objects[y].id \in Begun
    BY <1>1, TypeParts
  <1>3. Begun' = Begun
    BY DEF Begun
  <1> DEFINE id == objects[o].id
  <1>4. /\ rust' = [i \in Begun |-> rust'[i]]
        /\ \A i \in Begun : rust'[i] = IF Open(o) /\ i = id THEN NoCall ELSE rust[i]
    BY <1>2 DEF RustDrop
  <1>5. /\ emitted' = [i \in Begun |-> emitted'[i]]
        /\ \A i \in Begun : emitted'[i] = IF Open(o) /\ i = id THEN EndedRecord(o, e, i)
                                          ELSE emitted[i]
    BY <1>1, EndedIs
  <1>6. TypeOK'
    <2>1. ASSUME NEW i \in Begun
          PROVE  emitted'[i] = [rust |-> emitted'[i].rust, c |-> emitted'[i].c]
      <3>1. CASE Open(o) /\ i = id
        BY <1>5, <3>1 DEF EndedRecord
      <3>2. CASE ~(Open(o) /\ i = id)
        <4>1. emitted'[i] = emitted[i]
          BY <1>5, <3>2
        <4>2. QED
          BY <1>2, <4>1 DEF IsHistory
      <3>3. QED
        BY <3>1, <3>2
    <2>2. emitted' = [i \in Begun |-> [rust |-> emitted'[i].rust, c |-> emitted'[i].c]]
      BY <1>5, <2>1
    <2>3. ASSUME NEW i \in Begun
          PROVE  rust'[i] = NoCall \/ IsCall(rust[i], program.tsv /\ program.values)'
      <3>1. rust[i] = NoCall \/ IsCall(rust[i], program.tsv /\ program.values)
        BY <1>1 DEF TypeOK
      <3>2. CASE rust'[i] = NoCall
        BY <3>2
      <3>3. CASE rust'[i] # NoCall
        <4>1. rust'[i] = rust[i]
          BY <1>4, <3>3
        <4>2. IsCall(rust[i], program.tsv /\ program.values)
          BY <3>1, <3>3, <4>1
        <4>3. QED
          BY <4>1, <4>2, SameCall
      <3>4. QED
        BY <3>2, <3>3
    <2>4. ASSUME NEW x \in Objects
          PROVE  /\ IsObject(objects'[x])
                 /\ objects'[x].id \in Nat /\ objects'[x].finished \in BOOLEAN
                 /\ objects'[x] # NoObject =>
                      objects'[x].id \in Begun /\ IsCall(objects[x].call, program.values)'
      <3>1. CASE objects'[x] = NoObject
        <4>1. IsObject(NoObject) /\ NoObject.id = 0 /\ NoObject.finished = TRUE
          BY DEF NoObject, IsObject
        <4>2. objects'[x].id = 0 /\ objects'[x].finished = TRUE
          BY <3>1, <4>1
        <4>3. objects'[x].id \in Nat
          BY <4>2
        <4>4. objects'[x].finished \in BOOLEAN
          BY <4>2, Zenon
        <4>5. QED
          BY <3>1, <4>1, <4>3, <4>4
      <3>2. ASSUME NEW y \in Objects, Alive(y),
                   objects'[x] \in {objects[y], Closed(objects[y])}
            PROVE  /\ IsObject(objects'[x])
                   /\ objects'[x].id \in Nat /\ objects'[x].finished \in BOOLEAN
                   /\ objects'[x].id \in Begun
                   /\ IsCall(objects[x].call, program.values)'
        <4>1. /\ objects[y].id \in Begun /\ IsCall(objects[y].call, program.values)
              /\ objects[y].id \in Nat /\ objects[y].finished \in BOOLEAN
              /\ IsObject(objects[y])
          BY <1>1, <1>2, <3>2 DEF TypeOK, Alive
        <4>2. /\ IsObject(Closed(objects[y]))
              /\ Closed(objects[y]).id = objects[y].id
              /\ Closed(objects[y]).call = objects[y].call
              /\ Closed(objects[y]).finished = TRUE
          BY DEF Closed, IsObject
        <4>3. /\ objects'[x].id = objects[y].id /\ objects'[x].call = objects[y].call
              /\ IsObject(objects'[x])
          BY <3>2, <4>1, <4>2
        <4>4. objects'[x].finished \in BOOLEAN
          BY <3>2, <4>1, <4>2, Zenon
        <4>5. IsCall(objects[x].call, program.values)'
          BY <4>1, <4>3, SameCall
        <4>6. QED
          BY <4>1, <4>3, <4>4, <4>5
      <3>3. Comes(x, objects')
        BY DEF Relocated
      <3>4. QED
        BY <3>1, <3>2, <3>3 DEF Comes
    <2>5. objects' = [x \in Objects |->
                        [id |-> objects'[x].id, call |-> objects'[x].call,
                         finished |-> objects'[x].finished]]
      BY <2>4 DEF IsObject, Relocated
    <2>6. program' \in Programs /\ script' \in Seq(Scripts)
      BY <1>1 DEF TypeOK, Scripts
    <2>7. rust' = [i \in Begun' |-> rust'[i]]
      BY <1>3, <1>4
    <2>8. emitted' = [i \in Begun' |-> [rust |-> emitted'[i].rust, c |-> emitted'[i].c]]
      BY <1>3, <2>2
    <2>9. QED
      BY <1>3, <2>3, <2>4, <2>5, <2>6, <2>7, <2>8 DEF TypeOK, Scripts
  <1>7. \A x \in Objects : Open(x)' <=> ~objects'[x].finished
    BY DEF Open, Alive, NoObject
  <1>8. HolderInv'
    BY <1>7 DEF HolderInv, Relocated
  <1>9. CallsInv'
    <2>1. ASSUME NEW x \in Objects, Open(x)'
          PROVE  /\ IsCall(rust[objects[x].id], program.tsv /\ program.values)'
                 /\ AllComparable(objects[x].id)' =>
                      Alike(rust[objects[x].id], objects[x].call)'
      <3>1. PICK y \in Objects : y # o /\ Open(y) /\ objects'[x] = objects[y]
        BY <1>7, <2>1 DEF Relocated
      <3> DEFINE i == objects[y].id
      <3>2. i \in Begun /\ ~(Open(o) /\ i = id)
        BY <1>1, <1>2, <3>1 DEF HolderInv
      <3>3. rust'[i] = rust[i]
        BY <1>4, <3>2
      <3>4. /\ IsCall(rust[i], program.tsv /\ program.values)
            /\ AllComparable(i) => Alike(rust[i], objects[y].call)
        BY <1>1, <3>1 DEF CallsInv
      <3>5. AllComparable(objects[x].id)' => AllComparable(i)
        BY <3>1 DEF AllComparable
      <3>6. QED
        BY <3>1, <3>3, <3>4, <3>5, SameCall, SameAlike
    <2>2. QED
      BY <2>1 DEF CallsInv
  <1>10. EmissionInv'
    <2>1. ASSUME NEW i \in Begun
          PROVE  (IF Active /\ ~Held(i) THEN Written(i) ELSE Unwritten(i))'
      <3>1. AllComparable(i)' = AllComparable(i)
        BY DEF AllComparable
      <3>2. CASE Open(o) /\ i = id
        <4>1. ~Held(i)'
          <5>1. ASSUME NEW x \in Objects, Open(x)' PROVE objects'[x].id # i
            <6>1. PICK y \in Objects : y # o /\ Open(y) /\ objects'[x] = objects[y]
              BY <1>7, <5>1 DEF Relocated
            <6>2. QED
              BY <1>1, <3>2, <6>1 DEF HolderInv
          <5>2. QED
            BY <5>1 DEF Held
        <4>2. Held(i)
          BY <3>2 DEF Held
        <4>3. emitted[i].c = <<>> /\ emitted[i].rust = <<>>
          BY <1>1, <4>2 DEF EmissionInv, Unwritten
        <4>4. emitted'[i].rust = <<>> \o e /\ emitted'[i].c = <<>> \o Emission(objects[o].call)
          <5>1. emitted'[i] = [rust |-> emitted[i].rust \o e,
                               c    |-> emitted[i].c \o Emission(objects[o].call)]
            BY <1>5, <3>2 DEF EndedRecord
          <5>2. QED
            BY <4>3, <5>1
        <4>5. /\ IsCall(rust[i], program.tsv /\ program.values)
              /\ IsCall(objects[o].call, program.values)
              /\ AllComparable(i) => Alike(rust[i], objects[o].call)
          BY <1>1, <1>2, <3>2, TypeParts DEF CallsInv
        <4>6. CASE Active
          <5>1. PICK b : Emission(objects[o].call) = <<b>>
            BY <4>5, <4>6, EmissionIs
          <5>2. PICK a : Emission(rust[i]) = <<a>>
            BY <4>5, <4>6, EmissionIs
          <5>3. AllComparable(i) => SameRecord(a, b)
            <6>1. SUFFICES ASSUME AllComparable(i) PROVE SameRecord(a, b)
              OBVIOUS
            <6>2. PICK a2, b2 : /\ Emission(rust[i]) = <<a2>>
                                /\ Emission(objects[o].call) = <<b2>>
                                /\ SameRecord(a2, b2)
              BY <4>5, <4>6, <6>1, EmissionAgrees
            <6>3. QED
              BY <5>1, <5>2, <6>2
          <5>4. emitted'[i].c = <<b>>
            BY <4>4, <5>1
          <5>5. emitted'[i].rust = <<>> \/ emitted'[i].rust = <<a>>
            BY <3>2, <4>4, <5>2
          <5>6. Written(i)'
            BY <3>1, <5>3, <5>4, <5>5 DEF Written, SameRecord
          <5>7. QED
            BY <4>1, <4>6, <5>6, <1>0
        <4>7. CASE ~Active
          <5>1. Emission(objects[o].call) = <<>> /\ Emission(rust[i]) = <<>>
            BY <4>5, <4>7, EmissionIs
          <5>2. Unwritten(i)'
            BY <3>2, <4>4, <5>1 DEF Unwritten
          <5>3. QED
            BY <4>7, <5>2, <1>0
        <4>8. QED
          BY <4>6, <4>7
      <3>3. CASE ~(Open(o) /\ i = id)
        <4>1. emitted'[i] = emitted[i]
          BY <1>5, <3>3
        <4>2. Held(i)' <=> Held(i)
          <5>1. ASSUME Held(i) PROVE Held(i)'
            <6>1. PICK y \in Objects : Open(y) /\ objects[y].id = i
              BY <5>1 DEF Held
            <6>2. y # o
              BY <3>3, <6>1
            <6>3. PICK x \in Objects : objects'[x] = objects[y]
              BY <6>1, <6>2 DEF Relocated
            <6>4. ~objects'[x].finished /\ objects'[x].id = i
              BY <1>2, <6>1, <6>3
            <6>5. QED
              BY <1>7, <6>4 DEF Held
          <5>2. ASSUME Held(i)' PROVE Held(i)
            BY <1>7, <5>2 DEF Held, Relocated
          <5>3. QED
            BY <5>1, <5>2
        <4>3. IF Active /\ ~Held(i) THEN Written(i) ELSE Unwritten(i)
          BY <1>1 DEF EmissionInv
        <4>4. (Written(i) => Written(i)') /\ (Unwritten(i) => Unwritten(i)')
          BY <3>1, <4>1 DEF Written, Unwritten, SameRecord
        <4>5. QED
          BY <4>2, <4>3, <4>4, <1>0
      <3>4. QED
        BY <3>2, <3>3
    <2>2. QED
      BY <1>3, <2>1 DEF EmissionInv
  <1>11. QED
    BY <1>6, <1>8, <1>9, <1>10 DEF IInv

LEMMA FinishStep ==
  ASSUME IInv, NEW o \in Objects, Finish(o)
  PROVE  IInv'
  <1> DEFINE id == objects[o].id
             e == Emission(rust[id])
  <1>1. TypeOK /\ HolderInv
    BY DEF IInv
  <1>2. /\ Open(o) /\ program' = program /\ script' = script /\ rust' = RustDrop(o)
        /\ objects' = [objects EXCEPT ![o].finished = TRUE]
        /\ emitted' = [CppFinish(o) EXCEPT ![id].rust = @ \o e]
    BY DEF Finish
  <1>3. objects' = [x \in Objects |-> IF x = o THEN Closed(objects[o]) ELSE objects[x]]
    BY <1>1, <1>2, ClosedIs
  <1>4. /\ id \in Begun /\ ~objects[o].finished
        /\ \A i \in Begun : IsHistory(emitted[i])
        /\ \A y \in Objects : Open(y) <=> objects[y].finished = FALSE
        /\ \A y \in Objects : objects[y].finished \in BOOLEAN
    BY <1>1, <1>2, TypeParts
  <1>5. emitted' = EndedBy(o, e)
    <2> DEFINE f == CppFinish(o)
               h == [rust |-> emitted[id].rust,
                     c    |-> emitted[id].c \o Emission(objects[o].call)]
    <2>1. f = [i \in Begun |-> IF i = id THEN h ELSE emitted[i]]
      BY <1>1, <1>4, CppFinishIs
    <2>2. emitted' = [f EXCEPT ![id].rust = @ \o e]
      BY <1>2
    <2> HIDE DEF f, e
    <2>3. f[id] = h /\ DOMAIN f = Begun /\ f = [i \in Begun |-> f[i]]
      <3> HIDE DEF h
      <3>1. QED
        BY <1>4, <2>1
    <2>4. [h EXCEPT !.rust = @ \o e] = [rust |-> h.rust \o e, c |-> h.c]
      BY HistoryOfRust DEF IsHistory
    <2>5. h.rust = emitted[id].rust /\ h.c = emitted[id].c \o Emission(objects[o].call)
      OBVIOUS
    <2> HIDE DEF h
    <2>6. emitted' = [i \in Begun |-> IF i = id THEN [f[i] EXCEPT !.rust = @ \o e] ELSE f[i]]
      BY <1>4, <2>2, <2>3
    <2>7. \A i \in Begun : i # id => f[i] = emitted[i]
      BY <2>1
    <2>8. [f[id] EXCEPT !.rust = @ \o e] = EndedRecord(o, e, id)
      BY <2>3, <2>4, <2>5 DEF EndedRecord
    <2>9. emitted' = [i \in Begun |-> IF i = id THEN EndedRecord(o, e, i) ELSE emitted[i]]
      BY <2>6, <2>7, <2>8
    <2>10. QED
      BY <1>2, <2>9 DEF EndedBy
  <1>6. Closed(objects[o]).finished = TRUE
    BY DEF Closed
  <1>7. \A x \in Objects : Comes(x, objects')
    BY <1>2, <1>3 DEF Comes, Alive, Open
  <1>8. \A x \in Objects : ~objects'[x].finished =>
          x # o /\ Open(x) /\ objects'[x] = objects[x]
    BY <1>3, <1>4, <1>6
  <1>9. \A y \in Objects : y # o => objects'[y] = objects[y]
    BY <1>3
  <1>10. \A x, y \in Objects :
           ~objects'[x].finished /\ ~objects'[y].finished
           /\ objects'[x].id = objects'[y].id => x = y
    BY <1>1, <1>8 DEF HolderInv
  <1>11. Relocated(o, objects')
    BY <1>3, <1>7, <1>8, <1>9, <1>10 DEF Relocated
  <1> HIDE DEF e
  <1>12. e \in {<<>>, Emission(rust[objects[o].id])}
    BY DEF e
  <1>13. QED
    BY <1>2, <1>5, <1>11, <1>12, ReleaseStep

\* What CppFinish writes, where nothing is written in Rust.
LEMMA CppEnded ==
  ASSUME IInv, NEW o \in Objects
  PROVE  CppFinish(o) = EndedBy(o, <<>>)
  <1>0. TypeOK
    BY DEF IInv
  <1>1. CASE objects[o].finished
    <2>1. ~Open(o)
      BY <1>1 DEF Open
    <2>2. QED
      BY <1>1, <2>1 DEF CppFinish, EndedBy
  <1>2. CASE ~objects[o].finished
    <2> DEFINE id == objects[o].id
    <2>1. Open(o) /\ id \in Begun
      BY <1>0, <1>2, TypeParts
    <2>2. emitted[id].rust = <<>>
      BY <2>1 DEF IInv, EmissionInv, Unwritten, Held
    <2>3. emitted[id].rust \o <<>> = emitted[id].rust
      BY <2>2
    <2> DEFINE h == [rust |-> emitted[id].rust,
                     c    |-> emitted[id].c \o Emission(objects[o].call)]
    <2>4. EndedRecord(o, <<>>, id) = h
      BY <2>3 DEF EndedRecord
    <2>5. CppFinish(o) = [i \in Begun |-> IF i = id THEN h ELSE emitted[i]]
      BY <1>0, <1>2, CppFinishIs
    <2> HIDE DEF h
    <2>6. QED
      BY <2>1, <2>4, <2>5 DEF EndedBy
  <1>3. QED
    BY <1>1, <1>2

LEMMA DestroyStep ==
  ASSUME IInv, NEW o \in Objects, Destroy(o)
  PROVE  IInv'
  <1>1. TypeOK /\ HolderInv
    BY DEF IInv
  <1>2. /\ Alive(o) /\ program' = program /\ script' = script /\ rust' = RustDrop(o)
        /\ objects' = [objects EXCEPT ![o] = NoObject]
        /\ emitted' = EndedBy(o, <<>>)
    BY CppEnded DEF Destroy
  <1>3. objects' = [x \in Objects |-> IF x = o THEN NoObject ELSE objects[x]]
    BY <1>1, <1>2, TypeParts
  <1>4. /\ \A y \in Objects : Open(y) <=> objects[y].finished = FALSE
        /\ \A y \in Objects : objects[y].finished \in BOOLEAN
    BY <1>1, TypeParts
  <1>5. NoObject.finished = TRUE
    BY DEF NoObject
  <1>6. \A x \in Objects : Comes(x, objects')
    BY <1>2, <1>3 DEF Comes, Alive
  <1>7. \A x \in Objects : ~objects'[x].finished =>
          x # o /\ Open(x) /\ objects'[x] = objects[x]
    BY <1>3, <1>4, <1>5
  <1>8. \A y \in Objects : y # o => objects'[y] = objects[y]
    BY <1>3
  <1>9. \A x, y \in Objects :
          ~objects'[x].finished /\ ~objects'[y].finished
          /\ objects'[x].id = objects'[y].id => x = y
    BY <1>1, <1>7 DEF HolderInv
  <1>10. Relocated(o, objects')
    BY <1>3, <1>6, <1>7, <1>8, <1>9 DEF Relocated
  <1>11. QED
    BY <1>2, <1>10, ReleaseStep

\* A move: what p held, if anything, is let go, and p holds what o held.
LEMMA MovedRelocates ==
  ASSUME TypeOK, HolderInv, NEW o \in Objects, NEW p \in Objects, o # p, Alive(o),
         objects' = Moved(o, p)
  PROVE  Relocated(p, objects')
  <1>1. objects' = [x \in Objects |-> IF x = o THEN Closed(objects[o])
                                      ELSE IF x = p THEN objects[o] ELSE objects[x]]
    BY MovedIs
  <1>2. /\ \A y \in Objects : Open(y) <=> objects[y].finished = FALSE
        /\ \A y \in Objects : objects[y].finished \in BOOLEAN
    BY TypeParts
  <1>3. Closed(objects[o]).finished = TRUE
    BY DEF Closed
  <1>4. \A x \in Objects : Comes(x, objects')
    BY <1>1 DEF Comes, Alive
  <1> DEFINE from(x) == IF x = p THEN o ELSE x
  <1>5. \A x \in Objects : ~objects'[x].finished =>
          /\ x # o /\ from(x) \in Objects /\ from(x) # p
          /\ Open(from(x)) /\ objects'[x] = objects[from(x)]
    BY <1>1, <1>2, <1>3
  <1>6. \A y \in Objects : y # p /\ Open(y) => \E x \in Objects : objects'[x] = objects[y]
    <2>1. objects'[p] = objects[o]
      BY <1>1
    <2>2. \A y \in Objects : y # p /\ y # o => objects'[y] = objects[y]
      BY <1>1
    <2>3. QED
      BY <2>1, <2>2
  <1>7. \A x, y \in Objects :
          ~objects'[x].finished /\ ~objects'[y].finished
          /\ objects'[x].id = objects'[y].id => x = y
    <2>1. ASSUME NEW x \in Objects, NEW y \in Objects,
                 ~objects'[x].finished, ~objects'[y].finished,
                 objects'[x].id = objects'[y].id
          PROVE  x = y
      <3>1. from(x) = from(y)
        BY <1>5, <2>1 DEF HolderInv
      <3>2. x # o /\ y # o
        BY <1>5, <2>1
      <3>3. QED
        BY <3>1, <3>2
    <2>2. QED
      BY <2>1
  <1>8. objects' = [x \in Objects |-> objects'[x]]
    BY <1>1
  <1>9. \A x \in Objects : ~objects'[x].finished =>
          \E y \in Objects : y # p /\ Open(y) /\ objects'[x] = objects[y]
    BY <1>5
  <1>10. QED
    BY <1>4, <1>6, <1>7, <1>8, <1>9 DEF Relocated

LEMMA MoveConstructStep ==
  ASSUME IInv, NEW o \in Objects, NEW p \in Objects, MoveConstruct(o, p)
  PROVE  IInv'
  <1>1. TypeOK /\ HolderInv
    BY DEF IInv
  <1>2. /\ Alive(o) /\ ~Alive(p) /\ objects' = Moved(o, p) /\ program' = program
        /\ script' = script /\ rust' = rust /\ emitted' = emitted
    BY DEF MoveConstruct
  <1>3. Relocated(p, objects')
    BY <1>1, <1>2, MovedRelocates
  <1>4. rust' = RustDrop(p) /\ emitted' = EndedBy(p, <<>>)
    BY <1>2 DEF RustDrop, EndedBy, Open
  <1>5. QED
    BY <1>2, <1>3, <1>4, ReleaseStep

LEMMA MoveAssignStep ==
  ASSUME IInv, NEW o \in Objects, NEW p \in Objects, MoveAssign(o, p)
  PROVE  IInv'
  <1>1. TypeOK /\ HolderInv
    BY DEF IInv
  <1>2. /\ Alive(o) /\ o # p /\ objects' = Moved(o, p) /\ program' = program
        /\ script' = script /\ rust' = RustDrop(p) /\ emitted' = CppFinish(p)
    BY DEF MoveAssign
  <1>3. Relocated(p, objects')
    BY <1>1, <1>2, MovedRelocates
  <1>4. emitted' = EndedBy(p, <<>>)
    BY <1>2, CppEnded
  <1>5. QED
    BY <1>2, <1>3, <1>4, ReleaseStep

LEMMA StutterStep ==
  ASSUME IInv, UNCHANGED vars
  PROVE  IInv'
  <1>1. /\ TypeOK /\ HolderInv /\ EmissionInv /\ CallsInv
        /\ program' = program /\ rust' = rust /\ objects' = objects
        /\ script' = script /\ emitted' = emitted
    BY DEF IInv, vars
  <1>2. TypeOK'
    BY <1>1 DEF TypeOK, Begun, IsCall, Active
  <1>3. HolderInv'
    BY <1>1 DEF HolderInv, Open, Alive
  <1>4. EmissionInv'
    BY <1>1 DEF EmissionInv, Begun, Active, Held, Open, Alive, Written, Unwritten,
                AllComparable, SameRecord
  <1>5. CallsInv'
    <2>1. ASSUME NEW o \in Objects, Open(o)'
          PROVE  /\ IsCall(rust[objects[o].id], program.tsv /\ program.values)'
                 /\ AllComparable(objects[o].id)' =>
                      Alike(rust[objects[o].id], objects[o].call)'
      <3>1. /\ IsCall(rust[objects[o].id], program.tsv /\ program.values)
            /\ AllComparable(objects[o].id) => Alike(rust[objects[o].id], objects[o].call)
        BY <1>1, <2>1 DEF CallsInv, Open, Alive
      <3>2. QED
        BY <1>1, <3>1, SameCall, SameAlike DEF AllComparable
    <2>2. QED
      BY <2>1 DEF CallsInv
  <1>6. QED
    BY <1>2, <1>3, <1>4, <1>5 DEF IInv

LEMMA ComparableParts ==
  ASSUME NEW t \in Seq(Helpers), NEW h \in Helpers,
         \A k \in DOMAIN Append(t, h) : Comparable(Append(t, h)[k])
  PROVE  Comparable(h) /\ \A k \in DOMAIN t : Comparable(t[k])
  <1>1. /\ Len(t) \in Nat /\ DOMAIN t = 1 .. Len(t)
        /\ DOMAIN Append(t, h) = 1 .. Len(t) + 1
        /\ Append(t, h)[Len(t) + 1] = h
        /\ \A k \in 1 .. Len(t) : Append(t, h)[k] = t[k]
    OBVIOUS
  <1>2. Len(t) + 1 \in DOMAIN Append(t, h)
    BY <1>1
  <1>3. \A k \in DOMAIN t : k \in DOMAIN Append(t, h)
    BY <1>1
  <1>4. QED
    BY <1>1, <1>2, <1>3

LEMMA HelpStep ==
  ASSUME IInv, NEW o \in Objects, NEW h \in Helpers, Help(o, h)
  PROVE  IInv'
  <1> DEFINE id == objects[o].id
  <1>1. TypeOK /\ HolderInv /\ EmissionInv /\ CallsInv
    BY DEF IInv
  <1>2. PICK c \in CHelper(objects[o].call, h) :
          objects' = [objects EXCEPT ![o].call = c]
    BY DEF Help
  <1>3. /\ Open(o) /\ program' = program /\ emitted' = emitted
        /\ rust' = [rust EXCEPT ![id] = RustHelper(@, h)]
        /\ script' = [script EXCEPT ![id][h.side] = Append(@, h)]
    BY DEF Help
  <1>4. /\ script = [i \in Begun |-> script[i]] /\ Len(script) \in Nat
        /\ Begun = 1 .. Len(script)
        /\ rust = [i \in Begun |-> rust[i]] /\ DOMAIN rust = Begun
        /\ objects = [x \in Objects |-> objects[x]]
        /\ \A i \in Begun : script[i] \in Scripts
        /\ \A x \in Objects :
             /\ IsObject(objects[x]) /\ objects[x].id \in Nat
             /\ objects[x].finished \in BOOLEAN
             /\ Open(x) <=> objects[x].finished = FALSE
             /\ Open(x) => objects[x].id \in Begun
    BY <1>1, TypeParts
  <1>5. id \in Begun /\ objects[o].finished = FALSE
    BY <1>3, <1>4
  <1> DEFINE called == [id |-> id, call |-> c, finished |-> objects[o].finished]
  <1>6. objects' = [x \in Objects |-> IF x = o THEN called ELSE objects[x]]
    BY <1>1, <1>2, CalledIs
  <1>7. called.id = id /\ called.call = c /\ called.finished = FALSE /\ IsObject(called)
    BY <1>5 DEF IsObject
  <1> DEFINE grown == [script[id] EXCEPT ![h.side] = Append(@, h)]
  <1>0. h.side \in Sides
    BY ProbeAssumption DEF IsHelper
  <1>21. /\ grown \in Scripts /\ grown[h.side] = Append(script[id][h.side], h)
         /\ \A s \in Sides : s # h.side => grown[s] = script[id][s]
    <2>1. script[id] \in Scripts
      BY <1>4, <1>5
    <2> HIDE DEF id
    <2>2. QED
      BY <1>0, <2>1, ScriptGrows
  <1>22. script' = [script EXCEPT ![id] = grown]
    BY <1>3
  <1> HIDE DEF grown
  <1>8. Begun' = Begun /\ script' \in Seq(Scripts)
    <2>1. grown \in Scripts
      BY <1>21
    <2>2. script \in Seq(Scripts)
      BY <1>1 DEF TypeOK, Scripts
    <2>3. script' \in Seq(Scripts)
      BY <1>22, <1>5, <2>1, <2>2 DEF Begun
    <2>4. Begun' = Begun
      BY <1>22 DEF Begun
    <2>5. QED
      BY <2>3, <2>4
  <1>9. /\ rust' = [i \in Begun |-> rust'[i]]
        /\ \A i \in Begun : rust'[i] = IF i = id THEN RustHelper(rust[i], h) ELSE rust[i]
    BY <1>3, <1>4
  <1>10. /\ script'[id] = grown
         /\ \A i \in Begun : i # id => script'[i] = script[i]
    BY <1>4, <1>5, <1>22
  <1>11. /\ IsCall(rust[id], program.tsv /\ program.values)
         /\ IsCall(objects[o].call, program.values)
         /\ AllComparable(id) => Alike(rust[id], objects[o].call)
    BY <1>1, <1>3, <1>5, TypeParts DEF CallsInv
  <1>12. /\ IsCall(RustHelper(rust[id], h), program.tsv /\ program.values)
         /\ IsCall(c, program.values)
    BY <1>11, RustHelperType, CHelperType
  <1> HIDE DEF called
  <1>13. /\ \A x \in Objects : objects'[x].id = objects[x].id /\ IsObject(objects'[x])
         /\ \A x \in Objects : objects'[x].finished = objects[x].finished
         /\ \A x \in Objects : x # o => objects'[x] = objects[x]
         /\ objects'[o].call = c /\ objects' = [x \in Objects |-> objects'[x]]
    BY <1>4, <1>5, <1>6, <1>7
  <1>14. Active' = Active
    BY <1>3 DEF Active
  <1>15. \A x \in Objects : Open(x)' <=> Open(x)
    <2>1. \A x \in Objects : Open(x)' <=> ~objects'[x].finished
      BY DEF Open, Alive, NoObject
    <2>2. QED
      BY <1>4, <1>13, <2>1
  <1>16. TypeOK'
    <2>1. ASSUME NEW i \in Begun
          PROVE  (rust[i] = NoCall \/ IsCall(rust[i], program.tsv /\ program.values))'
      <3>1. CASE i = id
        BY <1>3, <1>9, <1>12, <3>1, SameCall
      <3>2. CASE i # id
        <4>1. rust'[i] = rust[i]
          BY <1>9, <3>2
        <4>2. rust[i] = NoCall \/ IsCall(rust[i], program.tsv /\ program.values)
          BY <1>1 DEF TypeOK
        <4>3. CASE rust[i] = NoCall
          BY <4>1, <4>3 DEF NoCall
        <4>4. CASE IsCall(rust[i], program.tsv /\ program.values)
          BY <1>3, <4>1, <4>4, SameCall
        <4>5. QED
          BY <4>2, <4>3, <4>4
      <3>3. QED
        BY <3>1, <3>2
    <2>2. ASSUME NEW x \in Objects, objects'[x] # NoObject
          PROVE  objects'[x].id \in Begun /\ IsCall(objects[x].call, program.values)'
      <3>1. CASE x = o
        BY <1>3, <1>5, <1>12, <1>13, <3>1, SameCall
      <3>2. CASE x # o
        <4>1. objects'[x] = objects[x]
          BY <1>13, <3>2
        <4>2. objects[x].id \in Begun /\ IsCall(objects[x].call, program.values)
          BY <1>1, <2>2, <4>1 DEF TypeOK
        <4>3. QED
          BY <1>3, <4>1, <4>2, SameCall
      <3>3. QED
        BY <3>1, <3>2
    <2>3. objects' = [x \in Objects |->
                        [id |-> objects'[x].id, call |-> objects'[x].call,
                         finished |-> objects'[x].finished]]
      BY <1>13 DEF IsObject
    <2>4. \A x \in Objects : objects'[x].id \in Nat
      BY <1>4, <1>13
    <2>5. \A x \in Objects : objects'[x].finished \in BOOLEAN
      BY <1>4, <1>13, Zenon
    <2>6. emitted' = [i \in Begun' |-> [rust |-> emitted'[i].rust, c |-> emitted'[i].c]]
      BY <1>1, <1>3, <1>8 DEF TypeOK
    <2>7. program' \in Programs /\ rust' = [i \in Begun' |-> rust'[i]]
      BY <1>1, <1>3, <1>8, <1>9 DEF TypeOK
    <2>8. QED
      BY <1>8, <2>1, <2>2, <2>3, <2>4, <2>5, <2>6, <2>7 DEF TypeOK, Scripts
  <1>17. HolderInv'
    BY <1>1, <1>13, <1>15 DEF HolderInv
  <1>18. EmissionInv'
    <2>1. ASSUME NEW i \in Begun
          PROVE  (IF Active /\ ~Held(i) THEN Written(i) ELSE Unwritten(i))'
      <3>1. Held(i)' <=> Held(i)
        BY <1>13, <1>15 DEF Held
      <3>2. IF Active /\ ~Held(i) THEN Written(i) ELSE Unwritten(i)
        BY <1>1 DEF EmissionInv
      <3>3. CASE i = id
        <4>1. Held(i)
          BY <1>3, <3>3 DEF Held
        <4>2. Unwritten(i)'
          BY <1>3, <3>2, <4>1 DEF Unwritten
        <4>3. QED
          BY <3>1, <4>1, <4>2
      <3>4. CASE i # id
        <4>1. AllComparable(i)' = AllComparable(i)
          BY <1>10, <3>4 DEF AllComparable
        <4>2. (Written(i) => Written(i)') /\ (Unwritten(i) => Unwritten(i)')
          BY <1>3, <4>1 DEF Written, Unwritten, SameRecord
        <4>3. QED
          BY <1>14, <3>1, <3>2, <4>2
      <3>5. QED
        BY <3>3, <3>4
    <2>2. QED
      BY <1>8, <2>1 DEF EmissionInv
  <1>19. CallsInv'
    <2>1. ASSUME NEW x \in Objects, Open(x)'
          PROVE  /\ IsCall(rust[objects[x].id], program.tsv /\ program.values)'
                 /\ AllComparable(objects[x].id)' =>
                      Alike(rust[objects[x].id], objects[x].call)'
      <3>1. Open(x)
        BY <1>15, <2>1
      <3>2. CASE x = o
        <4>1. objects'[x].id = id /\ objects'[x].call = c
          BY <1>13, <3>2
        <4>2. rust'[id] = RustHelper(rust[id], h)
          BY <1>5, <1>9
        <4>3. ASSUME AllComparable(id)'
              PROVE  AllComparable(id) /\ Comparable(h)
          <5> DEFINE t == script[id][h.side]
          <5>0. script[id] \in Scripts
            BY <1>4, <1>5
          <5>1. t \in Seq(Helpers) /\ grown[h.side] = Append(t, h)
            BY <1>0, <1>21, <5>0, ScriptIs
          <5>3. id' = id
            BY <1>5, <1>13
          <5>4. \A s \in Sides : \A k \in DOMAIN grown[s] : Comparable(grown[s][k])
            <6>1. script'[id'] = grown
              BY <1>10, <5>3
            <6> DEFINE i == id'
            <6>2. \A s \in Sides : \A k \in DOMAIN script'[i][s] : Comparable(script'[i][s][k])
              BY <4>3 DEF AllComparable
            <6>3. script'[i] = grown
              BY <6>1
            <6> HIDE DEF i
            <6>4. QED
              BY <6>2, <6>3
          <5> HIDE DEF t
          <5>5. \A k \in DOMAIN Append(t, h) : Comparable(Append(t, h)[k])
            BY <1>0, <5>1, <5>4
          <5>6. Comparable(h) /\ \A k \in DOMAIN t : Comparable(t[k])
            BY <5>1, <5>5, ComparableParts
          <5>8. ASSUME NEW s \in Sides, NEW k \in DOMAIN script[id][s]
                PROVE  Comparable(script[id][s][k])
            <6>1. CASE s = h.side
              BY <5>6, <6>1 DEF t
            <6>2. CASE s # h.side
              <7>1. grown[s] = script[id][s]
                BY <1>21, <6>2
              <7>2. QED
                BY <5>4, <7>1
            <6>3. QED
              BY <6>1, <6>2
          <5>9. QED
            BY <5>6, <5>8 DEF AllComparable
        <4>4. AllComparable(id)' => Alike(RustHelper(rust[id], h), c)
          BY <1>11, <4>3, AlikeStep
        <4>5. QED
          BY <1>3, <1>12, <3>2, <4>1, <4>2, <4>4, SameCall, SameAlike
      <3>3. CASE x # o
        <4> DEFINE i == objects[x].id
        <4>1. i \in Begun /\ i # id
          BY <1>1, <1>3, <1>4, <3>1, <3>3 DEF HolderInv
        <4>2. objects'[x] = objects[x] /\ rust'[i] = rust[i] /\ script'[i] = script[i]
          BY <1>9, <1>10, <1>13, <3>3, <4>1
        <4>3. /\ IsCall(rust[i], program.tsv /\ program.values)
              /\ AllComparable(i) => Alike(rust[i], objects[x].call)
          BY <1>1, <3>1 DEF CallsInv
        <4>4. AllComparable(objects[x].id)' => AllComparable(i)
          BY <4>2 DEF AllComparable
        <4>5. QED
          BY <1>3, <4>2, <4>3, <4>4, SameCall, SameAlike
      <3>4. QED
        BY <3>2, <3>3
    <2>2. QED
      BY <2>1 DEF CallsInv
  <1>20. QED
    BY <1>16, <1>17, <1>18, <1>19 DEF IInv

LEMMA BeginStep ==
  ASSUME IInv, NEW o \in Objects, Begin(o)
  PROVE  IInv'
  <1> DEFINE n == Len(script) + 1
             fresh == [id |-> n, call |-> CBegin, finished |-> FALSE]
             blank == [rust |-> <<>>, c |-> <<>>]
             empty == [s \in Sides |-> <<>>]
  <1>1. TypeOK /\ HolderInv /\ EmissionInv /\ CallsInv
    BY DEF IInv
  <1>2. /\ ~Alive(o) /\ program' = program
        /\ rust' = Append(rust, RustNew)
        /\ objects' = [objects EXCEPT ![o] = fresh]
        /\ script' = Append(script, empty)
        /\ emitted' = Append(emitted, blank)
    BY DEF Begin
  <1>3. /\ script = [i \in Begun |-> script[i]] /\ Len(script) \in Nat
        /\ Begun = 1 .. Len(script)
        /\ rust = [i \in Begun |-> rust[i]] /\ DOMAIN rust = Begun
        /\ emitted = [i \in Begun |-> emitted[i]] /\ DOMAIN emitted = Begun
        /\ objects = [x \in Objects |-> objects[x]]
        /\ \A i \in Begun : IsHistory(emitted[i])
        /\ \A x \in Objects :
             /\ IsObject(objects[x]) /\ objects[x].id \in Nat
             /\ objects[x].finished \in BOOLEAN
             /\ Open(x) <=> objects[x].finished = FALSE
             /\ Open(x) => objects[x].id \in Begun
    BY <1>1, TypeParts
  <1>4. script' \in Seq(Scripts) /\ Begun' = 1 .. n
    <2>1. script \in Seq(Scripts)
      BY <1>1 DEF TypeOK, Scripts
    <2>2. empty \in Scripts
      BY NoScript
    <2> HIDE DEF empty
    <2>3. QED
      BY <1>2, <2>1, <2>2 DEF Begun
  <1>5. n \notin Begun /\ Begun' = Begun \cup {n} /\ n \in Begun' /\ n \in Nat
    <2>1. ASSUME NEW m \in Nat
          PROVE  /\ m + 1 \notin 1 .. m /\ m + 1 \in Nat
                 /\ 1 .. m + 1 = (1 .. m) \cup {m + 1}
      OBVIOUS
    <2>2. Len(script) \in Nat /\ Begun = 1 .. Len(script)
      BY <1>3
    <2>3. QED
      BY <1>4, <2>1, <2>2
  <1> HIDE DEF fresh, blank, empty
  <1>6. /\ rust' = [i \in Begun' |-> rust'[i]]
        /\ rust'[n] = RustNew /\ \A i \in Begun : rust'[i] = rust[i]
    <2>1. rust' = [i \in 1 .. n |-> IF i = n THEN RustNew ELSE rust[i]]
      <3>1. /\ DOMAIN rust = 1 .. Len(script) /\ Len(script) \in Nat
            /\ rust = [i \in 1 .. Len(script) |-> rust[i]]
        BY <1>3
      <3>2. rust' = Append(rust, RustNew)
        BY <1>2
      <3>3. QED
        BY <3>1, <3>2, AppendIs
    <2> HIDE DEF n
    <2>2. rust' = [i \in Begun' |-> IF i = n THEN RustNew ELSE rust[i]]
      BY <1>4, <2>1
    <2>3. QED
      BY <1>5, <2>2
  <1>7. /\ emitted' = [i \in Begun' |-> emitted'[i]]
        /\ emitted'[n] = blank /\ \A i \in Begun : emitted'[i] = emitted[i]
    <2>1. emitted' = [i \in 1 .. n |-> IF i = n THEN blank ELSE emitted[i]]
      <3>1. /\ DOMAIN emitted = 1 .. Len(script) /\ Len(script) \in Nat
            /\ emitted = [i \in 1 .. Len(script) |-> emitted[i]]
        BY <1>3
      <3>2. emitted' = Append(emitted, blank)
        BY <1>2
      <3>3. QED
        BY <3>1, <3>2, AppendIs
    <2> HIDE DEF n
    <2>2. emitted' = [i \in Begun' |-> IF i = n THEN blank ELSE emitted[i]]
      BY <1>4, <2>1
    <2>3. QED
      BY <1>5, <2>2
  <1>8. \A i \in Begun : script'[i] = script[i]
    <2>1. script \in Seq(Scripts)
      BY <1>1 DEF TypeOK, Scripts
    <2>2. script' = Append(script, empty) /\ Begun = 1 .. Len(script)
      BY <1>2, <1>3
    <2>3. QED
      BY <2>1, <2>2
  <1>9. script'[n] = empty
    <2>1. script \in Seq(Scripts)
      BY <1>1 DEF TypeOK, Scripts
    <2>2. QED
      BY <1>2, <2>1
  <1>10. /\ objects' = [x \in Objects |-> objects'[x]]
         /\ objects'[o] = fresh /\ \A x \in Objects : x # o => objects'[x] = objects[x]
    BY <1>2, <1>3
  <1>11. /\ IsObject(fresh) /\ fresh.id = n /\ fresh.call = CBegin
         /\ fresh.finished = FALSE
    BY DEF fresh, IsObject
  <1>12. IsHistory(blank) /\ blank.rust = <<>> /\ blank.c = <<>>
    BY DEF blank, IsHistory
  <1> HIDE DEF n
  <1>13. Active' = Active
    BY <1>2 DEF Active
  <1>14. ~Open(o) /\ Open(o)' /\ \A x \in Objects : x # o => (Open(x)' <=> Open(x))
    <2>1. fresh # NoObject
      BY <1>11 DEF NoObject
    <2>2. QED
      BY <1>2, <1>10, <1>11, <2>1 DEF Open, Alive
  <1>15. TypeOK'
    <2>1. ASSUME NEW i \in Begun'
          PROVE  (rust[i] = NoCall \/ IsCall(rust[i], program.tsv /\ program.values))'
      <3>1. CASE i = n
        BY <1>2, <1>6, <3>1, NewCalls, SameCall
      <3>2. CASE i # n
        <4>1. i \in Begun /\ rust'[i] = rust[i]
          BY <1>5, <1>6, <3>2
        <4>2. rust[i] = NoCall \/ IsCall(rust[i], program.tsv /\ program.values)
          BY <1>1, <4>1 DEF TypeOK
        <4>3. CASE rust[i] = NoCall
          BY <4>1, <4>3 DEF NoCall
        <4>4. CASE IsCall(rust[i], program.tsv /\ program.values)
          BY <1>2, <4>1, <4>4, SameCall
        <4>5. QED
          BY <4>2, <4>3, <4>4
      <3>3. QED
        BY <3>1, <3>2
    <2>2. ASSUME NEW x \in Objects
          PROVE  /\ IsObject(objects'[x]) /\ objects'[x].id \in Nat
                 /\ objects'[x].finished \in BOOLEAN
                 /\ objects'[x] # NoObject =>
                      objects'[x].id \in Begun' /\ IsCall(objects[x].call, program.values)'
      <3>1. CASE x = o
        <4>1. IsCall(objects[x].call, program.values)'
          BY <1>2, <1>10, <1>11, <3>1, NewCalls, SameCall
        <4>2. objects'[x].finished \in BOOLEAN
          BY <1>10, <1>11, <3>1, Zenon
        <4>3. QED
          BY <1>5, <1>10, <1>11, <3>1, <4>1, <4>2
      <3>2. CASE x # o
        <4>1. objects'[x] = objects[x]
          BY <1>10, <3>2
        <4>2. objects[x] # NoObject =>
                objects[x].id \in Begun /\ IsCall(objects[x].call, program.values)
          BY <1>1 DEF TypeOK
        <4>3. objects'[x].finished \in BOOLEAN
          BY <1>3, <4>1, Zenon
        <4>4. QED
          BY <1>2, <1>3, <1>5, <4>1, <4>2, <4>3, SameCall
      <3>3. QED
        BY <3>1, <3>2
    <2>3. objects' = [x \in Objects |->
                        [id |-> objects'[x].id, call |-> objects'[x].call,
                         finished |-> objects'[x].finished]]
      BY <1>10, <2>2 DEF IsObject
    <2>4. emitted' = [i \in Begun' |-> [rust |-> emitted'[i].rust, c |-> emitted'[i].c]]
      <3>1. \A i \in Begun' : IsHistory(emitted'[i])
        BY <1>3, <1>5, <1>7, <1>12
      <3>2. QED
        BY <1>7, <3>1 DEF IsHistory
    <2>5. program' \in Programs
      BY <1>1, <1>2 DEF TypeOK
    <2>6. QED
      BY <1>4, <1>6, <2>1, <2>2, <2>3, <2>4, <2>5 DEF TypeOK, Scripts
  <1>16. HolderInv'
    <2>1. ASSUME NEW x \in Objects, NEW y \in Objects, Open(x)', Open(y)',
                 objects'[x].id = objects'[y].id
          PROVE  x = y
      <3>1. \A z \in Objects : z # o /\ Open(z)' => objects'[z].id # n
        BY <1>3, <1>5, <1>10, <1>14
      <3>2. objects'[o].id = n
        BY <1>10, <1>11
      <3>3. CASE x = o \/ y = o
        BY <2>1, <3>1, <3>2, <3>3
      <3>4. CASE x # o /\ y # o
        BY <1>1, <1>10, <1>14, <2>1, <3>4 DEF HolderInv
      <3>5. QED
        BY <3>3, <3>4
    <2>2. QED
      BY <2>1 DEF HolderInv
  <1>17. EmissionInv'
    <2>1. ASSUME NEW i \in Begun'
          PROVE  (IF Active /\ ~Held(i) THEN Written(i) ELSE Unwritten(i))'
      <3>1. CASE i = n
        <4>1. Held(i)'
          BY <1>10, <1>11, <1>14, <3>1 DEF Held
        <4>2. Unwritten(i)'
          BY <1>7, <1>12, <3>1 DEF Unwritten
        <4>3. QED
          BY <4>1, <4>2
      <3>2. CASE i # n
        <4>1. i \in Begun
          BY <1>5, <3>2
        <4>2. Held(i)' <=> Held(i)
          <5>1. ASSUME Held(i) PROVE Held(i)'
            BY <1>10, <1>14, <5>1 DEF Held
          <5>2. ASSUME Held(i)' PROVE Held(i)
            <6>1. PICK x \in Objects : Open(x)' /\ objects'[x].id = i
              BY <5>2 DEF Held
            <6>2. x # o
              BY <1>10, <1>11, <3>2, <6>1
            <6>3. QED
              BY <1>10, <1>14, <6>1, <6>2 DEF Held
          <5>3. QED
            BY <5>1, <5>2
        <4>3. IF Active /\ ~Held(i) THEN Written(i) ELSE Unwritten(i)
          BY <1>1, <4>1 DEF EmissionInv
        <4>4. AllComparable(i)' = AllComparable(i) /\ emitted'[i] = emitted[i]
          BY <1>7, <1>8, <4>1 DEF AllComparable
        <4>5. (Written(i) => Written(i)') /\ (Unwritten(i) => Unwritten(i)')
          BY <4>4 DEF Written, Unwritten, SameRecord
        <4>6. QED
          BY <1>13, <4>2, <4>3, <4>5
      <3>3. QED
        BY <3>1, <3>2
    <2>2. QED
      BY <2>1 DEF EmissionInv
  <1>18. CallsInv'
    <2>1. ASSUME NEW x \in Objects, Open(x)'
          PROVE  /\ IsCall(rust[objects[x].id], program.tsv /\ program.values)'
                 /\ AllComparable(objects[x].id)' =>
                      Alike(rust[objects[x].id], objects[x].call)'
      <3>1. CASE x = o
        <4>1. objects'[x].id = n /\ objects'[x].call = CBegin
          BY <1>10, <1>11, <3>1
        <4>2. QED
          BY <1>2, <1>6, <4>1, NewCalls, SameCall, SameAlike
      <3>2. CASE x # o
        <4> DEFINE i == objects[x].id
        <4>1. Open(x) /\ i \in Begun
          BY <1>3, <1>14, <2>1, <3>2
        <4>2. objects'[x] = objects[x] /\ rust'[i] = rust[i] /\ script'[i] = script[i]
          BY <1>6, <1>8, <1>10, <3>2, <4>1
        <4>3. /\ IsCall(rust[i], program.tsv /\ program.values)
              /\ AllComparable(i) => Alike(rust[i], objects[x].call)
          BY <1>1, <4>1 DEF CallsInv
        <4>4. AllComparable(objects[x].id)' => AllComparable(i)
          BY <4>2 DEF AllComparable
        <4>5. QED
          BY <1>2, <4>2, <4>3, <4>4, SameCall, SameAlike
      <3>3. QED
        BY <3>1, <3>2
    <2>2. QED
      BY <2>1 DEF CallsInv
  <1>19. QED
    BY <1>15, <1>16, <1>17, <1>18 DEF IInv

LEMMA NextInv == IInv /\ [Next]_vars => IInv'
  <1> SUFFICES ASSUME IInv, [Next]_vars PROVE IInv'
    OBVIOUS
  <1>1. CASE UNCHANGED vars
    BY <1>1, StutterStep
  <1>2. ASSUME NEW o \in Objects, Begin(o) PROVE IInv'
    BY <1>2, BeginStep
  <1>3. ASSUME NEW o \in Objects, Finish(o) PROVE IInv'
    BY <1>3, FinishStep
  <1>4. ASSUME NEW o \in Objects, Destroy(o) PROVE IInv'
    BY <1>4, DestroyStep
  <1>5. ASSUME NEW o \in Objects, NEW h \in Helpers, Help(o, h) PROVE IInv'
    BY <1>5, HelpStep
  <1>6. ASSUME NEW o \in Objects, NEW p \in Objects, MoveConstruct(o, p) PROVE IInv'
    BY <1>6, MoveConstructStep
  <1>7. ASSUME NEW o \in Objects, NEW p \in Objects, MoveAssign(o, p) PROVE IInv'
    BY <1>7, MoveAssignStep
  <1>8. QED
    BY <1>1, <1>2, <1>3, <1>4, <1>5, <1>6, <1>7 DEF Next
-----------------------------------------------------------------------------
LEMMA InvHolds == Spec => []IInv
  BY InitInv, NextInv, PTL DEF Spec

(***************************************************************************)
(* Whatever is called, in either language, a Call (src/src/lib.rs:95) and  *)
(* an object of the C++ class (src/c/tracehash_cpp.hpp:11) keep their      *)
(* types.                                                                  *)
(***************************************************************************)
THEOREM TypeHolds == Spec => []TypeOK
  <1>1. IInv => TypeOK
    BY DEF IInv
  <1>2. QED
    BY <1>1, InvHolds, PTL

LEMMA ReadOnce ==
  ASSUME NEW a, NEW s, s = <<a>>
  PROVE  s[1] = a /\ Len(s) = 1 /\ s # <<>>
  OBVIOUS

LEMMA PortedWritten ==
  ASSUME IInv, NEW i \in Begun, Ported(i)
  PROVE  SameRecord(emitted[i].rust[1], emitted[i].c[1])
  <1>1. ~Unwritten(i) /\ emitted[i].rust # <<>>
    BY DEF Ported, Unwritten
  <1>2. Written(i)
    BY <1>1 DEF IInv, EmissionInv
  <1>3. AllComparable(i)
    BY DEF Ported, AllComparable
  <1>4. PICK b : /\ emitted[i].c = <<b>>
                 /\ \E a : emitted[i].rust = <<a>> /\ SameRecord(a, b)
    BY <1>1, <1>2, <1>3 DEF Written
  <1>5. PICK a : emitted[i].rust = <<a>> /\ SameRecord(a, b)
    BY <1>4
  <1>6. emitted[i].rust[1] = a /\ emitted[i].c[1] = b
    BY <1>4, <1>5, ReadOnce
  <1>7. QED
    BY <1>5, <1>6

(***************************************************************************)
(* The deep entry of a call is the same in both ports: deep_push_input     *)
(* (src/src/lib.rs:191) and deep_capture_in_u64 (src/c/tracehash_c.c:349)  *)
(* and the like have put the same values in it, under the same names and   *)
(* numbers, whatever was called and moved.                                 *)
(***************************************************************************)
THEOREM EntryParityHolds == Spec => []EntryParity
  <1>1. IInv => EntryParity
    BY PortedWritten DEF EntryParity, SameRecord
  <1>2. QED
    BY <1>1, InvHolds, PTL

(***************************************************************************)
(* So is the row that finish writes (src/src/lib.rs:709,                   *)
(* src/c/tracehash_c.c:1076), unless a struct has a field of bytes.        *)
(***************************************************************************)
THEOREM RowParityHolds ==
  ASSUME NoBytesField
  PROVE  Spec => []RowParity
  <1>1. IInv => RowParity
    BY NoBytesField, PortedWritten DEF RowParity, SameRecord
  <1>2. QED
    BY <1>1, InvHolds, PTL

(***************************************************************************)
(* A call begun in C++ is finished exactly once, for any number of objects *)
(* and any moves, assignments, finishes and destructions of them           *)
(* (src/c/tracehash_cpp.hpp:19-33).                                        *)
(***************************************************************************)
THEOREM FinishedOnceHolds == Spec => []FinishedOnce
  <1>1. ASSUME IInv, NEW i \in Begun
        PROVE  LET open == {o \in Objects : Open(o) /\ objects[o].id = i} IN
               /\ Cardinality(open) <= 1
               /\ Len(emitted[i].c) = IF open = {} /\ (program.tsv \/ program.deep)
                                      THEN 1 ELSE 0
    <2> DEFINE open == {o \in Objects : Open(o) /\ objects[o].id = i}
    <2>1. open = {} <=> ~Held(i)
      BY DEF Held
    <2>2. Cardinality(open) <= 1
      <3>1. CASE open = {}
        <4>1. Cardinality(open) = 0
          BY <3>1, FS_EmptySet
        <4>2. QED
          BY <4>1
      <3>2. CASE open # {}
        <4>1. PICK o : o \in open
          BY <3>2
        <4>2. open = {o}
          BY <1>1, <4>1 DEF IInv, HolderInv
        <4> HIDE DEF open
        <4>3. Cardinality(open) = 1
          BY <4>2, FS_Singleton
        <4>4. QED
          BY <4>3
      <3>3. QED
        BY <3>1, <3>2
    <2>3. IF Active /\ ~Held(i) THEN Written(i) ELSE Unwritten(i)
      BY <1>1 DEF IInv, EmissionInv
    <2>4. Written(i) => Len(emitted[i].c) = 1
      BY ReadOnce DEF Written
    <2>5. Unwritten(i) => Len(emitted[i].c) = 0
      BY DEF Unwritten
    <2> HIDE DEF open
    <2>6. Len(emitted[i].c) = IF open = {} /\ Active THEN 1 ELSE 0
      BY <2>1, <2>3, <2>4, <2>5
    <2>7. QED
      BY <2>2, <2>6 DEF open, Active
  <1>2. IInv => FinishedOnce
    BY <1>1 DEF FinishedOnce
  <1>3. QED
    BY <1>2, InvHolds, PTL
-----------------------------------------------------------------------------
(***************************************************************************)
(* The text of a policy.                                                   *)
(***************************************************************************)
LEMMA MaxOfOne ==
  ASSUME NEW n \in Nat
  PROVE  Max({n}) = n
  <1>1. n \in {n} /\ \A y \in {n} : n >= y
    OBVIOUS
  <1>2. \A x \in {n} : x = n
    OBVIOUS
  <1>3. QED
    BY <1>1, <1>2 DEF Max

\* The policies that a text can have.
IsPolicy(p) ==
  \/ p = All
  \/ \E mode \in {"first", "firstlast"} : \E n : p = Chosen(mode, 0, n, FALSE)
  \/ \E q, n : \E last \in BOOLEAN : p = Chosen("prob", q, n, last)

LEMMA RustPolicyIs ==
  ASSUME NEW parts
  PROVE  IsPolicy(RustPolicy(parts))
  <1>1. CASE ~WellFormed(parts)
    BY <1>1 DEF RustPolicy, Default, FirstN, IsPolicy
  <1>2. CASE WellFormed(parts)
    <2>1. RustPolicy(parts) = FromStr(parts)
      BY <1>2 DEF RustPolicy
    <2>2. CASE parts[1].key = "all"
      BY <2>1, <2>2 DEF FromStr, IsPolicy
    <2>3. CASE parts[1].key = "prob"
      <3>1. (Setting(parts, "last", 1) # 0) \in BOOLEAN
        OBVIOUS
      <3>2. FromStr(parts) = Chosen("prob", parts[2].num, Setting(parts, "first", 0),
                                    Setting(parts, "last", 1) # 0)
        BY <2>3 DEF FromStr
      <3>3. QED
        BY <2>1, <3>1, <3>2, Zenon DEF IsPolicy
    <2>4. CASE parts[1].key \in {"first", "firstlast"}
      BY <2>1, <2>4 DEF FromStr, IsPolicy
    <2>5. QED
      BY <1>2, <2>2, <2>3, <2>4 DEF WellFormed
  <1>3. QED
    BY <1>1, <1>2

\* The text of a policy, read back.
LEMMA DisplayReads ==
  ASSUME NEW p, IsPolicy(p)
  PROVE  WellFormed(Display(p)) /\ FromStr(Display(p)) = p
  <1>1. CASE p = All
    <2>1. Display(p) = <<Word("all")>>
      BY <1>1 DEF All, Chosen, Display
    <2>2. Display(p) # <<>> /\ Display(p)[1].key = "all"
      BY <2>1 DEF Word
    <2>3. QED
      BY <1>1, <2>2 DEF WellFormed, FromStr
  <1>2. ASSUME NEW mode \in {"first", "firstlast"}, NEW n, p = Chosen(mode, 0, n, FALSE)
        PROVE  WellFormed(Display(p)) /\ FromStr(Display(p)) = p
    <2> DEFINE t == Display(p)
    <2>1. t = <<Word(mode), Num(n)>>
      BY <1>2 DEF Chosen, Display
    <2>2. Len(t) = 2 /\ t # <<>> /\ t[1].key = mode /\ t[2].kind = "num" /\ t[2].num = n
      <3> HIDE DEF t
      <3>1. Len(t) = 2 /\ t # <<>> /\ t[1] = Word(mode) /\ t[2] = Num(n)
        BY <2>1
      <3>2. Word(mode).key = mode /\ Num(n).kind = "num" /\ Num(n).num = n
        BY DEF Word, Num
      <3>3. QED
        BY <3>1, <3>2
    <2> HIDE DEF t
    <2>3. WellFormed(t)
      BY <1>2, <2>2 DEF WellFormed
    <2>4. FromStr(t) = p
      BY <1>2, <2>2 DEF FromStr
    <2>5. QED
      BY <2>3, <2>4 DEF t
  <1>3. ASSUME NEW q, NEW n, NEW last \in BOOLEAN, p = Chosen("prob", q, n, last)
        PROVE  WellFormed(Display(p)) /\ FromStr(Display(p)) = p
    <2> DEFINE t == Display(p)
               bit == IF last THEN 1 ELSE 0
    <2>1. p.mode = "prob" /\ p.p = q /\ p.n = n /\ p.keep_last = last
      BY <1>3 DEF Chosen
    <2>2. t = <<Word("prob"), Num(q), KV("first", n), KV("last", bit)>>
      BY <2>1 DEF Display
    <2> HIDE DEF bit, t
    <2>3. /\ Len(t) = 4 /\ t # <<>> /\ t[1].key = "prob"
          /\ t[2].kind = "num" /\ t[2].num = q
          /\ t[3].kind = "kv" /\ t[3].key = "first" /\ t[3].num = n
          /\ t[4].kind = "kv" /\ t[4].key = "last" /\ t[4].num = bit
      BY <2>2 DEF Word, Num, KV
    <2>4. 3 .. Len(t) = {3, 4}
      BY <2>3
    <2>5. WellFormed(t)
      BY <2>3, <2>4 DEF WellFormed
    <2>6. /\ {j \in 3 .. Len(t) : t[j].key = "first"} = {3}
          /\ {j \in 3 .. Len(t) : t[j].key = "last"} = {4}
      BY <2>3, <2>4
    <2>7. Setting(t, "first", 0) = n /\ Setting(t, "last", 1) = bit
      BY <2>3, <2>6, MaxOfOne DEF Setting
    <2>8. (bit # 0) = last
      BY DEF bit
    <2>9. FromStr(t) = Chosen("prob", q, n, last)
      BY <2>3, <2>7, <2>8 DEF FromStr
    <2>10. QED
      BY <1>3, <2>5, <2>9 DEF t
  <1>4. QED
    BY <1>1, <1>2, <1>3 DEF IsPolicy

LEMMA PoliciesAgree ==
  ASSUME NEW parts, ForBoth(parts)
  PROVE  RustPolicy(parts) = CPolicy(parts)
  <1>1. CASE parts = <<>>
    BY <1>1 DEF RustPolicy, WellFormed, CPolicy
  <1>2. CASE parts = <<Word("all")>>
    <2>1. parts # <<>> /\ parts[1].key = "all"
      BY <1>2 DEF Word
    <2>2. WellFormed(parts) /\ FromStr(parts) = All
      BY <2>1 DEF WellFormed, FromStr
    <2>3. QED
      BY <1>2, <2>2 DEF RustPolicy, CPolicy
  <1>3. CASE Len(parts) = 2 /\ parts[1] = Word("first") /\ parts[2].kind = "num"
    <2>1. parts[1].key = "first" /\ parts # <<>> /\ parts # <<Word("all")>>
      BY <1>3 DEF Word
    <2>2. WellFormed(parts)
      <3>1. Len(parts) > 1
        BY <1>3
      <3>2. QED
        BY <1>3, <2>1, <3>1 DEF WellFormed
    <2>3. FromStr(parts) = FirstN(parts[2].num)
      BY <2>1 DEF FromStr, FirstN
    <2>4. CPolicy(parts) = FirstN(parts[2].num)
      BY <1>3, <2>1 DEF CPolicy
    <2>5. QED
      BY <2>2, <2>3, <2>4 DEF RustPolicy
  <1>4. CASE parts[1].key \notin {"all", "first", "firstlast", "prob"}
    <2>1. ~WellFormed(parts)
      BY <1>4 DEF WellFormed
    <2>2. parts # <<Word("all")>> /\ parts[1] # Word("first")
      BY <1>4 DEF Word
    <2>3. QED
      BY <2>1, <2>2 DEF RustPolicy, CPolicy
  <1>5. QED
    BY <1>1, <1>2, <1>3, <1>4 DEF ForBoth

(***************************************************************************)
(* A text for both languages is one policy in both                         *)
(* (src/c/tracehash_c.c:216), and the text of the policy in force, read    *)
(* back, is that policy (src/src/deep/sampling.rs:157): for texts of any   *)
(* length.                                                                 *)
(***************************************************************************)
THEOREM PolicyTextsHold == Spec => []PolicyTextsAgree
  <1>1. PolicyTextsAgree
    BY RustPolicyIs, DisplayReads, PoliciesAgree DEF PolicyTextsAgree
  <1>2. QED
    BY <1>1, PTL

(***************************************************************************)
(* What bytes can be read as.  s stands in w behind o bytes (At); what is  *)
(* read ends where w does, or where a byte of a set begins the next        *)
(* (Ended).  Two readings of the same bytes as pieces one behind the other *)
(* are the same pieces if no place can be read as two (Apart).             *)
(***************************************************************************)
\* s occurs in w behind its first o bytes.
At(w, o, s) ==
  /\ o + Len(s) <= Len(w)
  /\ \A i \in 1 .. Len(s) : w[o + i] = s[i]

LEMMA ConcatLength ==
  ASSUME NEW s \in Seq(Byte), NEW t \in Seq(Byte)
  PROVE  s \o t \in Seq(Byte) /\ Len(s \o t) = Len(s) + Len(t)
  OBVIOUS

LEMMA ConcatFirst ==
  ASSUME NEW s \in Seq(Byte), NEW t \in Seq(Byte), NEW i \in 1 .. Len(s)
  PROVE  (s \o t)[i] = s[i]
  OBVIOUS

LEMMA ConcatSecond ==
  ASSUME NEW s \in Seq(Byte), NEW t \in Seq(Byte), NEW j \in 1 .. Len(t)
  PROVE  (s \o t)[Len(s) + j] = t[j]
  OBVIOUS

LEMMA AtConcat ==
  ASSUME NEW w \in Seq(Byte), NEW o \in Nat, NEW s \in Seq(Byte),
         NEW t \in Seq(Byte), At(w, o, s \o t)
  PROVE  At(w, o, s) /\ At(w, o + Len(s), t)
  <1>1. /\ Len(s) \in Nat /\ Len(t) \in Nat /\ Len(w) \in Nat
        /\ Len(s \o t) = Len(s) + Len(t)
    OBVIOUS
  <1>2. o + (Len(s) + Len(t)) <= Len(w)
    BY <1>1 DEF At
  <1>3. ASSUME NEW i \in 1 .. Len(s)
        PROVE  w[o + i] = s[i]
    <2>1. i \in 1 .. Len(s \o t) /\ (s \o t)[i] = s[i]
      BY <1>1
    <2>2. QED
      BY <2>1 DEF At
  <1>4. ASSUME NEW i \in 1 .. Len(t)
        PROVE  w[(o + Len(s)) + i] = t[i]
    <2>1. Len(s) + i \in 1 .. Len(s \o t) /\ (s \o t)[Len(s) + i] = t[i]
      BY <1>1
    <2>2. o + (Len(s) + i) = (o + Len(s)) + i
      BY <1>1
    <2>3. QED
      BY <2>1, <2>2 DEF At
  <1>5. QED
    BY <1>1, <1>2, <1>3, <1>4 DEF At

LEMMA AtSame ==
  ASSUME NEW w, NEW o, NEW s \in Seq(Byte), NEW t \in Seq(Byte),
         At(w, o, s), At(w, o, t), Len(s) = Len(t)
  PROVE  s = t
  BY DEF At

\* A sequence of one or two bytes, a tag and what is behind it.
LEMMA AtFirst ==
  ASSUME NEW w \in Seq(Byte), NEW o \in Nat, NEW s \in Seq(Byte),
         At(w, o, s), s # <<>>
  PROVE  w[o + 1] = s[1] /\ o + 1 <= Len(w)
  <1>1. Len(s) \in Nat /\ Len(s) > 0
    OBVIOUS
  <1>2. QED
    BY <1>1 DEF At

\* Numbers of a range as large as a word differ in their bytes.
LEMMA U64Apart ==
  ASSUME NEW m \in Int, NEW n \in Int, U64(m) = U64(n),
         \/ 0 <= m /\ m < 65536 /\ 0 <= n /\ n < 65536
         \/ -32768 <= m /\ m < 32768 /\ -32768 <= n /\ n < 32768
  PROVE  m = n
  <1>1. m % 256 = n % 256 /\ (m \div 256) % 256 = (n \div 256) % 256
    BY DEF U64
  <1>2. QED
    BY <1>1

LEMMA U32Apart ==
  ASSUME NEW m \in Int, NEW n \in Int, U32(m) = U32(n),
         -128 <= m, m < 128, -128 <= n, n < 128
  PROVE  m = n
  <1>1. m % 256 = n % 256
    BY DEF U32
  <1>2. QED
    BY <1>1

LEMMA AtStr ==
  ASSUME NEW w \in Seq(Byte), NEW o \in Nat, NEW s \in Text, NEW t \in Text,
         At(w, o, Str(s)), At(w, o, Str(t))
  PROVE  s = t
  <1>1. /\ s \in Seq(Byte) /\ Len(s) \in Nat /\ Len(s) < 65536
        /\ t \in Seq(Byte) /\ Len(t) \in Nat /\ Len(t) < 65536
    BY TextBytes
  <1>2. U64(Len(s)) \in Seq(Byte) /\ U64(Len(t)) \in Seq(Byte)
    BY <1>1, NumberBytes
  <1>3. Len(U64(Len(s))) = 2 /\ Len(U64(Len(t))) = 2
    BY DEF U64
  <1>4. /\ At(w, o, U64(Len(s))) /\ At(w, o + Len(U64(Len(s))), s)
        /\ At(w, o, U64(Len(t))) /\ At(w, o + Len(U64(Len(t))), t)
    BY <1>1, <1>2, AtConcat DEF Str
  <1>5. U64(Len(s)) = U64(Len(t))
    BY <1>2, <1>3, <1>4, AtSame
  <1>6. Len(s) = Len(t)
    BY <1>1, <1>5, U64Apart
  <1>7. At(w, o + 2, s) /\ At(w, o + 2, t)
    BY <1>3, <1>4
  <1>8. QED
    BY <1>1, <1>6, <1>7, AtSame

\* The bytes of the first pieces of a sequence of pieces.
Builds(pieces, f) ==
  /\ f[0] = <<>>
  /\ f[Len(pieces)] = FlattenSeq(pieces)
  /\ \A k \in 0 .. Len(pieces) : f[k] \in Seq(Byte)
  /\ \A k \in 1 .. Len(pieces) : f[k] = f[k - 1] \o pieces[k]

LEMMA BuildsExists ==
  ASSUME NEW pieces \in Seq(Seq(Byte))
  PROVE  \E f : Builds(pieces, f)
  <1> DEFINE n == Len(pieces)
  <1>0. n \in Nat
    OBVIOUS
  <1>1. CASE n = 0
    <2>1. pieces = <<>>
      BY <1>1
    <2>2. FlattenSeq(pieces) = <<>>
      BY <2>1 DEF FlattenSeq
    <2> DEFINE f == [k \in 0 .. 0 |-> <<>>]
    <2>3. Builds(pieces, f)
      BY <1>1, <2>2 DEF Builds
    <2>4. QED
      BY <2>3
  <1>2. CASE n # 0
    <2>1. Len(pieces) \in Nat \ {0}
      BY <1>0, <1>2
    <2>2. PICK g : Flattens(pieces, Len(pieces), g) /\ FlattenSeq(pieces) = g[Len(pieces)]
      BY <2>1, FlattenIs
    <2> DEFINE f == [k \in 0 .. n |-> IF k = 0 THEN <<>> ELSE g[k]]
    <2>3. ASSUME NEW k \in 1 .. n
          PROVE  g[k] = IF k = 1 THEN pieces[k] ELSE g[k - 1] \o pieces[k]
      BY <2>1, <2>2, FlattensAt
    <2>4. ASSUME NEW k \in 1 .. n PROVE pieces[k] \in Seq(Byte)
      OBVIOUS
    <2>5. f[0] = <<>> /\ \A k \in 1 .. n : f[k] = g[k]
      BY <1>0
    <2>6. ASSUME NEW k \in 1 .. n PROVE f[k] = f[k - 1] \o pieces[k]
      <3>1. CASE k = 1
        <4>1. 1 \in 1 .. n /\ 1 - 1 = 0
          BY <1>0, <1>2
        <4>2. f[1] = pieces[1] /\ f[0] = <<>> /\ pieces[1] \in Seq(Byte)
          BY <2>3, <2>4, <2>5, <4>1
        <4> HIDE DEF f
        <4>3. f[1] = <<>> \o pieces[1]
          BY <4>2
        <4>4. QED
          BY <3>1, <4>1, <4>2, <4>3
      <3>2. CASE k # 1
        <4>1. k - 1 \in 1 .. n
          BY <1>0, <3>2
        <4>2. f[k] = g[k] /\ f[k - 1] = g[k - 1]
          BY <2>5, <4>1
        <4> HIDE DEF f
        <4>3. QED
          BY <2>3, <3>2, <4>2
      <3>3. QED
        BY <3>1, <3>2
    <2>7. f[n] = FlattenSeq(pieces)
      BY <1>0, <1>2, <2>2, <2>5
    <2> HIDE DEF f
    <2>8. \A k \in 0 .. n : f[k] \in Seq(Byte)
      <3> DEFINE Bad == {k \in 0 .. n : f[k] \notin Seq(Byte)}
      <3>1. SUFFICES ASSUME Bad # {} PROVE FALSE
        OBVIOUS
      <3>2. PICK k \in Bad : \A m \in Bad : k <= m
        <4>1. Bad \in SUBSET Nat
          BY <1>0
        <4> HIDE DEF Bad
        <4>2. QED
          BY <3>1, <4>1, LeastOf
      <3>3. k \in 0 .. n /\ f[k] \notin Seq(Byte)
        OBVIOUS
      <3>4. k # 0
        <4>1. <<>> \in Seq(Byte)
          OBVIOUS
        <4> HIDE DEF Bad
        <4>2. QED
          BY <2>5, <3>3, <4>1
      <3>5. k \in 1 .. n /\ k - 1 \in 0 .. n
        BY <1>0, <3>3, <3>4
      <3>6. f[k - 1] \in Seq(Byte)
        BY <3>2, <3>5
      <3>7. pieces[k] \in Seq(Byte)
        BY <2>4, <3>5
      <3>8. f[k - 1] \o pieces[k] \in Seq(Byte)
        BY <3>6, <3>7
      <3>9. QED
        BY <2>6, <3>3, <3>5, <3>8
    <2>9. Builds(pieces, f)
      BY <2>5, <2>6, <2>7, <2>8 DEF Builds
    <2>10. QED
      BY <2>9
  <1>3. QED
    BY <1>1, <1>2

LEMMA PiecesAt ==
  ASSUME NEW pieces \in Seq(Seq(Byte)), NEW f, Builds(pieces, f),
         NEW w \in Seq(Byte), NEW o \in Nat, At(w, o, FlattenSeq(pieces))
  PROVE  \A k \in 1 .. Len(pieces) : At(w, o + Len(f[k - 1]), pieces[k])
  <1> DEFINE n == Len(pieces)
             Bad == {j \in 0 .. n : ~ At(w, o, f[n - j])}
  <1>1. n \in Nat
    OBVIOUS
  <1>2. ASSUME NEW k \in 1 .. n, At(w, o, f[k])
        PROVE  At(w, o, f[k - 1]) /\ At(w, o + Len(f[k - 1]), pieces[k])
    <2>1. k - 1 \in 0 .. n
      BY <1>1
    <2>2. f[k - 1] \in Seq(Byte) /\ pieces[k] \in Seq(Byte)
      <3>1. pieces[k] \in Seq(Byte)
        OBVIOUS
      <3>2. f[k - 1] \in Seq(Byte)
        BY <2>1 DEF Builds
      <3>3. QED
        BY <3>1, <3>2
    <2>3. f[k] = f[k - 1] \o pieces[k]
      BY DEF Builds
    <2>4. At(w, o, f[k - 1] \o pieces[k])
      BY <1>2, <2>3
    <2>5. QED
      BY <2>2, <2>4, AtConcat
  <1>3. Bad = {}
    <2>1. SUFFICES ASSUME Bad # {} PROVE FALSE
      OBVIOUS
    <2>2. PICK j \in Bad : \A m \in Bad : j <= m
      <3>1. Bad \in SUBSET Nat
        BY <1>1
      <3> HIDE DEF Bad
      <3>2. QED
        BY <2>1, <3>1, LeastOf
    <2>3. j \in 0 .. n /\ ~ At(w, o, f[n - j])
      OBVIOUS
    <2>4. j # 0
      BY <1>1, <2>3 DEF Builds
    <2>5. j - 1 \in 0 .. n /\ n - (j - 1) \in 1 .. n /\ (n - (j - 1)) - 1 = n - j
      BY <1>1, <2>3, <2>4
    <2>6. At(w, o, f[n - (j - 1)])
      <3>1. j - 1 \notin Bad
        <4> HIDE DEF Bad
        <4>1. QED
          BY <1>1, <2>2, <2>3, <2>5
      <3>2. QED
        BY <2>5, <3>1
    <2>7. QED
      BY <1>2, <2>3, <2>5, <2>6
  <1>4. ASSUME NEW k \in 1 .. n PROVE At(w, o, f[k])
    <2>1. n - k \in 0 .. n /\ n - (n - k) = k
      BY <1>1
    <2>2. QED
      BY <1>3, <2>1
  <1>5. QED
    BY <1>2, <1>4

\* e is the end of w, or what follows begins with a byte of first.
Ended(w, first, e) == e = Len(w) \/ (e < Len(w) /\ w[e + 1] \in first)

\* The pieces begin with a byte of first.
Begins(pieces, first) ==
  \A i \in 1 .. Len(pieces) : pieces[i] # <<>> /\ pieces[i][1] \in first

\* Pieces that occur at one place are the same, if what follows them is the
\* end or begins with a byte of first.
Apart(p, q, w, first) ==
  \A i \in 1 .. Len(p), a \in Nat :
    /\ i <= Len(q)
    /\ At(w, a, p[i]) /\ Ended(w, first, a + Len(p[i]))
    /\ At(w, a, q[i]) /\ Ended(w, first, a + Len(q[i]))
    => p[i] = q[i]

LEMMA PiecesEnd ==
  ASSUME NEW pieces \in Seq(Seq(Byte)), NEW f, Builds(pieces, f),
         NEW w \in Seq(Byte), NEW o \in Nat, At(w, o, FlattenSeq(pieces)),
         NEW first, Begins(pieces, first),
         Ended(w, first, o + Len(FlattenSeq(pieces))),
         NEW k \in 1 .. Len(pieces)
  PROVE  Ended(w, first, (o + Len(f[k - 1])) + Len(pieces[k]))
  <1> DEFINE n == Len(pieces)
  <1>1. n \in Nat
    OBVIOUS
  <1>2. f[k - 1] \in Seq(Byte) /\ pieces[k] \in Seq(Byte) /\ f[k] = f[k - 1] \o pieces[k]
    <2>1. k - 1 \in 0 .. n /\ k \in 1 .. n
      BY <1>1
    <2>2. pieces[k] \in Seq(Byte)
      OBVIOUS
    <2>3. QED
      BY <2>1, <2>2 DEF Builds
  <1>3. (o + Len(f[k - 1])) + Len(pieces[k]) = o + Len(f[k])
    <2>1. Len(f[k]) = Len(f[k - 1]) + Len(pieces[k])
      <3>1. Len(f[k - 1] \o pieces[k]) = Len(f[k - 1]) + Len(pieces[k])
        <4> DEFINE x == f[k - 1]
                   y == pieces[k]
        <4>1. x \in Seq(Byte) /\ y \in Seq(Byte)
          BY <1>2
        <4> HIDE DEF x, y
        <4>2. Len(x \o y) = Len(x) + Len(y)
          BY <4>1, ConcatLength
        <4>3. QED
          BY <4>2 DEF x, y
      <3>2. QED
        BY <1>2, <3>1
    <2>2. Len(f[k - 1]) \in Nat /\ Len(pieces[k]) \in Nat
      BY <1>2
    <2> DEFINE x == Len(f[k - 1])
               y == Len(pieces[k])
               z == Len(f[k])
    <2>3. z = x + y /\ x \in Nat /\ y \in Nat
      BY <2>1, <2>2
    <2> HIDE DEF x, y, z
    <2>4. (o + x) + y = o + z
      BY <2>3
    <2>5. QED
      BY <2>4 DEF x, y, z
  <1>4. CASE k = n
    BY <1>3, <1>4 DEF Builds
  <1>5. CASE k # n
    <2>1. k + 1 \in 1 .. n /\ (k + 1) - 1 = k
      BY <1>1, <1>5
    <2>2. At(w, o + Len(f[k]), pieces[k + 1])
      BY <2>1, PiecesAt
    <2>3. f[k] \in Seq(Byte) /\ pieces[k + 1] \in Seq(Byte)
      BY <1>2, <2>1
    <2>4. pieces[k + 1] # <<>> /\ pieces[k + 1][1] \in first
      BY <2>1 DEF Begins
    <2>5. o + Len(f[k]) \in Nat
      BY <2>3
    <2>6. /\ w[(o + Len(f[k])) + 1] = pieces[k + 1][1]
          /\ (o + Len(f[k])) + 1 <= Len(w)
      BY <2>2, <2>3, <2>4, <2>5, AtFirst
    <2>7. Len(w) \in Nat
      OBVIOUS
    <2>8. Ended(w, first, o + Len(f[k]))
      <3> DEFINE e == o + Len(f[k])
      <3>1. /\ e \in Nat /\ w[e + 1] \in first /\ e + 1 <= Len(w)
        BY <2>4, <2>5, <2>6
      <3> HIDE DEF e
      <3>2. Ended(w, first, e)
        BY <2>7, <3>1 DEF Ended
      <3>3. QED
        BY <3>2 DEF e
    <2>9. QED
      BY <1>3, <2>8
  <1>6. QED
    BY <1>4, <1>5

LEMMA PiecesApart ==
  ASSUME NEW p \in Seq(Seq(Byte)), NEW q \in Seq(Seq(Byte)), NEW w \in Seq(Byte),
         NEW o \in Nat, At(w, o, FlattenSeq(p)), At(w, o, FlattenSeq(q)),
         NEW first, Begins(p, first), Begins(q, first), Apart(p, q, w, first),
         Ended(w, first, o + Len(FlattenSeq(p))),
         Ended(w, first, o + Len(FlattenSeq(q)))
  PROVE  /\ \A i \in 1 .. Len(p) : i <= Len(q) => p[i] = q[i]
         /\ Len(p) < Len(q) => At(w, o + Len(FlattenSeq(p)), q[Len(p) + 1])
  <1>1. PICK f : Builds(p, f)
    BY BuildsExists
  <1>2. PICK g : Builds(q, g)
    BY BuildsExists
  <1>3. Len(p) \in Nat /\ Len(q) \in Nat
    OBVIOUS
  <1> DEFINE Bad == {k \in 1 .. Len(p) :
                       k <= Len(q) /\ (f[k] # g[k] \/ p[k] # q[k])}
  <1>4. Bad = {}
    <2>1. SUFFICES ASSUME Bad # {} PROVE FALSE
      OBVIOUS
    <2>2. PICK k \in Bad : \A m \in Bad : k <= m
      <3>1. Bad \in SUBSET Nat
        BY <1>3
      <3> HIDE DEF Bad
      <3>2. QED
        BY <2>1, <3>1, LeastOf
    <2>3. k \in 1 .. Len(p) /\ k <= Len(q) /\ (f[k] # g[k] \/ p[k] # q[k])
      OBVIOUS
    <2>4. k \in 1 .. Len(q)
      BY <1>3, <2>3
    <2>5. f[k - 1] = g[k - 1]
      <3>1. CASE k = 1
        BY <1>1, <1>2, <3>1 DEF Builds
      <3>2. CASE k # 1
        <4> DEFINE m == Len(p)
                   n == Len(q)
        <4>0. k \in 1 .. m /\ k <= n
          BY <2>3
        <4>1. k - 1 \in 1 .. m /\ k - 1 <= n
          <5>1. m \in Nat /\ n \in Nat
            BY <1>3
          <5> HIDE DEF Bad, m, n
          <5>2. QED
            BY <3>2, <4>0, <5>1
        <4>2. k - 1 \notin Bad
          <5>1. k \in Int
            BY <2>3
          <5> HIDE DEF Bad
          <5>2. QED
            BY <2>2, <5>1
        <4>3. QED
          BY <4>1, <4>2
      <3>3. QED
        BY <3>1, <3>2
    <2> DEFINE a == o + Len(f[k - 1])
    <2>6. a \in Nat
      <3>1. k - 1 \in 0 .. Len(p)
        BY <1>3, <2>3
      <3>2. f[k - 1] \in Seq(Byte)
        BY <1>1, <3>1 DEF Builds
      <3>3. Len(f[k - 1]) \in Nat
        BY <3>2
      <3>4. QED
        BY <3>3
    <2> HIDE DEF Bad
    <2>7. At(w, a, p[k]) /\ Ended(w, first, a + Len(p[k]))
      BY <1>1, <2>3, PiecesAt, PiecesEnd
    <2>8. At(w, a, q[k]) /\ Ended(w, first, a + Len(q[k]))
      BY <1>2, <2>4, <2>5, PiecesAt, PiecesEnd
    <2> HIDE DEF a
    <2>9. p[k] = q[k]
      BY <2>3, <2>6, <2>7, <2>8 DEF Apart
    <2>10. f[k] = f[k - 1] \o p[k] /\ g[k] = g[k - 1] \o q[k]
      BY <1>1, <1>2, <2>3, <2>4 DEF Builds
    <2>11. QED
      BY <2>3, <2>5, <2>9, <2>10
  <1>5. \A i \in 1 .. Len(p) : i <= Len(q) => f[i] = g[i] /\ p[i] = q[i]
    BY <1>4
  <1> HIDE DEF Bad
  <1>6. ASSUME Len(p) < Len(q)
        PROVE  At(w, o + Len(FlattenSeq(p)), q[Len(p) + 1])
    <2>1. f[Len(p)] = g[Len(p)]
      <3>1. CASE Len(p) = 0
        BY <1>1, <1>2, <3>1 DEF Builds
      <3>2. CASE Len(p) # 0
        <4>1. Len(p) \in 1 .. Len(p) /\ Len(p) <= Len(q)
          BY <1>3, <1>6, <3>2
        <4>2. QED
          BY <1>5, <4>1
      <3>3. QED
        BY <3>1, <3>2
    <2>2. f[Len(p)] = FlattenSeq(p)
      BY <1>1 DEF Builds
    <2>3. Len(p) + 1 \in 1 .. Len(q) /\ (Len(p) + 1) - 1 = Len(p)
      BY <1>3, <1>6
    <2>4. At(w, o + Len(g[(Len(p) + 1) - 1]), q[Len(p) + 1])
      BY <1>2, <2>3, PiecesAt
    <2>5. QED
      BY <2>1, <2>2, <2>3, <2>4
  <1>7. QED
    BY <1>5, <1>6

(***************************************************************************)
(* Values: a tag for the kind of the type, and a body behind it whose      *)
(* length is the kind's, or is said first.                                 *)
(***************************************************************************)
\* The types of what a TraceHash impl of the crate can be given, structs apart.
Hashed == Scalars \cup {"str", "bytes", "some", "none"}

\* Integers of all widths are hashed as u64.
Kind(ty) == IF ty \in Integer THEN "u64" ELSE ty

\* The bytes of the Tag.U, Tag.B, .. a kind of value begins with.
TypeTag == [u64 |-> 85, bool |-> 66, f32 |-> 70, f64 |-> 68, str |-> 83,
            bytes |-> 76, some |-> 49, none |-> 48]

Kinds == {"u64", "bool", "f32", "f64", "str", "bytes", "some", "none"}

\* What a slice feeds behind its length.
Elements(v) == FlattenSeq([i \in DOMAIN v |-> Tag.U \o U64(v[i])])

\* What a value feeds behind its tag.
Body(ty, v) ==
  CASE ty \in Integer \cup {"f64"} -> U64(v)
    [] ty = "bool"  -> <<IF v # 0 THEN 1 ELSE 0>>
    [] ty = "f32"   -> U32(v)
    [] ty = "str"   -> Str(v)
    [] ty = "bytes" -> U64(Len(v)) \o Elements(v)
    [] ty = "some"  -> Tag.U \o U64(v)
    [] ty = "none"  -> <<>>

LEMMA ElementsType ==
  ASSUME NEW v \in Seq(Byte)
  PROVE  /\ [i \in DOMAIN v |-> Tag.U \o U64(v[i])] \in Seq(Seq(Byte))
         /\ Elements(v) \in Seq(Byte)
  <1> DEFINE parts == [i \in DOMAIN v |-> Tag.U \o U64(v[i])]
  <1>1. \A i \in 1 .. Len(v) : Tag.U \o U64(v[i]) \in Seq(Byte)
    <2>1. ASSUME NEW i \in 1 .. Len(v)
          PROVE  Tag.U \o U64(v[i]) \in Seq(Byte)
      <3>1. v[i] \in Byte
        OBVIOUS
      <3>2. v[i] \in Int
        BY <3>1, ByteNumbers
      <3>3. U64(v[i]) \in Seq(Byte)
        BY <3>2, NumberBytes
      <3>4. QED
        BY <3>3, TagBytes
    <2>2. QED
      BY <2>1
  <1>2. parts \in Seq(Seq(Byte))
    <2>1. Len(v) \in Nat /\ DOMAIN v = 1 .. Len(v)
      OBVIOUS
    <2>2. QED
      BY <1>1, <2>1
  <1>3. FlattenSeq(parts) \in Seq(Byte)
    <2> HIDE DEF parts
    <2>1. QED
      BY <1>2, FlattenType
  <1>4. QED
    BY <1>2, <1>3 DEF Elements

LEMMA KindCases ==
  ASSUME NEW ty \in Hashed
  PROVE  /\ ty \in Integer => Kind(ty) = "u64"
         /\ ty \notin Integer => Kind(ty) = ty
         /\ Kind(ty) \in Kinds
         /\ Kind(ty) = "u64" => ty \in Integer
  BY DEF Hashed, Scalars, Integer, Kind, Kinds

LEMMA TaggedBody ==
  ASSUME NEW ty \in Hashed, NEW v, HasType(ty, v)
  PROVE  /\ Body(ty, v) \in Seq(Byte)
         /\ TraceHash(ty, v) = <<TypeTag[Kind(ty)]>> \o Body(ty, v)
  <1>1. CASE ty \in Integer
    <2>1. v \in Int
      BY <1>1, TypedValue DEF Scalars
    <2>2. Body(ty, v) = U64(v) /\ TraceHash(ty, v) = Tag.U \o U64(v)
      BY <1>1 DEF Body, TraceHash, Scalar, Integer
    <2>3. Tag.U = <<TypeTag[Kind(ty)]>>
      BY <1>1 DEF Tag, TypeTag, Kind
    <2>4. QED
      BY <2>1, <2>2, <2>3, NumberBytes
  <1>2. CASE ty = "bool"
    <2>1. <<IF v # 0 THEN 1 ELSE 0>> \in Seq(Byte)
      BY DEF Byte
    <2>2. /\ Body(ty, v) = <<IF v # 0 THEN 1 ELSE 0>>
          /\ TraceHash(ty, v) = Tag.B \o <<IF v # 0 THEN 1 ELSE 0>>
      BY <1>2 DEF Body, TraceHash, Scalar, Integer
    <2>3. Tag.B = <<TypeTag[Kind(ty)]>>
      BY <1>2 DEF Tag, TypeTag, Kind, Integer
    <2>4. QED
      BY <2>1, <2>2, <2>3
  <1>3. CASE ty = "f32"
    <2>1. v \in Int
      BY <1>3, TypedValue DEF Scalars
    <2>2. Body(ty, v) = U32(v) /\ TraceHash(ty, v) = Tag.F \o U32(v)
      BY <1>3 DEF Body, TraceHash, Scalar, Integer
    <2>3. Tag.F = <<TypeTag[Kind(ty)]>>
      BY <1>3 DEF Tag, TypeTag, Kind, Integer
    <2>4. QED
      BY <2>1, <2>2, <2>3, NumberBytes
  <1>4. CASE ty = "f64"
    <2>1. v \in Int
      BY <1>4, TypedValue DEF Scalars
    <2>2. Body(ty, v) = U64(v) /\ TraceHash(ty, v) = Tag.D \o U64(v)
      BY <1>4 DEF Body, TraceHash, Scalar, Integer
    <2>3. Tag.D = <<TypeTag[Kind(ty)]>>
      BY <1>4 DEF Tag, TypeTag, Kind, Integer
    <2>4. QED
      BY <2>1, <2>2, <2>3, NumberBytes
  <1>5. CASE ty = "str"
    <2>1. v \in Seq(Byte)
      BY <1>5, TypedValue
    <2>2. Body(ty, v) = Str(v) /\ TraceHash(ty, v) = Tag.S \o Str(v)
      BY <1>5 DEF Body, TraceHash, Scalar, Integer
    <2>3. Tag.S = <<TypeTag[Kind(ty)]>>
      BY <1>5 DEF Tag, TypeTag, Kind, Integer
    <2>4. QED
      BY <2>1, <2>2, <2>3, StrBytes
  <1>6. CASE ty = "bytes"
    <2>1. v \in Seq(Byte)
      BY <1>6, TypedValue
    <2>2. /\ Body(ty, v) = U64(Len(v)) \o Elements(v)
          /\ TraceHash(ty, v) = (Tag.L \o U64(Len(v))) \o Elements(v)
      BY <1>6 DEF Body, TraceHash, Integer, Elements
    <2>3. Tag.L = <<TypeTag[Kind(ty)]>> /\ Tag.L \in Seq(Byte)
      BY <1>6, TagBytes DEF Tag, TypeTag, Kind, Integer
    <2>4. U64(Len(v)) \in Seq(Byte) /\ Elements(v) \in Seq(Byte)
      <3>1. Len(v) \in Int
        BY <2>1
      <3>2. QED
        BY <2>1, <3>1, NumberBytes, ElementsType
    <2>5. (Tag.L \o U64(Len(v))) \o Elements(v) = Tag.L \o (U64(Len(v)) \o Elements(v))
      BY <2>3, <2>4, Concat3
    <2>6. QED
      BY <2>2, <2>3, <2>4, <2>5
  <1>7. CASE ty = "some"
    <2>1. v \in Int
      BY <1>7, TypedValue
    <2>2. Body(ty, v) = Tag.U \o U64(v) /\ TraceHash(ty, v) = (Tag.Some \o Tag.U) \o U64(v)
      BY <1>7 DEF Body, TraceHash, Integer
    <2>3. Tag.Some = <<TypeTag[Kind(ty)]>>
      BY <1>7 DEF Tag, TypeTag, Kind, Integer
    <2>4. Tag.Some \in Seq(Byte) /\ Tag.U \in Seq(Byte) /\ U64(v) \in Seq(Byte)
      BY <2>1, NumberBytes, TagBytes
    <2>5. (Tag.Some \o Tag.U) \o U64(v) = Tag.Some \o (Tag.U \o U64(v))
      BY <2>4, Concat3
    <2>6. Tag.U \o U64(v) \in Seq(Byte)
      BY <2>4
    <2>7. Body(ty, v) \in Seq(Byte)
      BY <2>2, <2>6
    <2>8. QED
      BY <2>2, <2>3, <2>5, <2>7
  <1>8. CASE ty = "none"
    <2>1. Body(ty, v) = <<>> /\ TraceHash(ty, v) = Tag.None
      BY <1>8 DEF Body, TraceHash, Integer
    <2>2. Tag.None = <<TypeTag[Kind(ty)]>> /\ Tag.None \in Seq(Byte)
      BY <1>8, TagBytes DEF Tag, TypeTag, Kind, Integer
    <2>3. Tag.None \o <<>> = Tag.None
      BY <2>2
    <2>4. QED
      BY <2>1, <2>2, <2>3
  <1>9. QED
    BY <1>1, <1>2, <1>3, <1>4, <1>5, <1>6, <1>7, <1>8 DEF Hashed, Scalars

\* A byte and what is behind it.
LEMMA AtTagged ==
  ASSUME NEW w \in Seq(Byte), NEW o \in Nat, NEW b \in Byte, NEW s \in Seq(Byte),
         At(w, o, <<b>> \o s)
  PROVE  w[o + 1] = b /\ o + 1 <= Len(w) /\ At(w, o + 1, s)
  <1>1. <<b>> \in Seq(Byte) /\ Len(<<b>>) = 1 /\ <<b>>[1] = b /\ <<b>> # <<>>
    OBVIOUS
  <1>2. At(w, o, <<b>>) /\ At(w, o + Len(<<b>>), s)
    BY <1>1, AtConcat
  <1>3. QED
    BY <1>1, <1>2, AtFirst

LEMMA TypeTagApart ==
  ASSUME NEW j \in Kinds, NEW k \in Kinds, TypeTag[j] = TypeTag[k]
  PROVE  j = k
  BY DEF Kinds, TypeTag

LEMMA TypeTagByte ==
  ASSUME NEW k \in Kinds
  PROVE  TypeTag[k] \in Byte
  BY DEF Kinds, TypeTag, Byte

LEMMA MeantIs ==
  ASSUME NEW ty \in Hashed, NEW v
  PROVE  /\ ty \in Integer => Meant(ty, v) = <<"u64", U64(v)>>
         /\ ty \notin Integer => Meant(ty, v) = <<ty, <<v>>>>
  BY DEF Meant

\* The bytes of two words at one place.
LEMMA AtWord ==
  ASSUME NEW w \in Seq(Byte), NEW o \in Nat, NEW m \in Int, NEW n \in Int,
         At(w, o, U64(m)), At(w, o, U64(n))
  PROVE  U64(m) = U64(n)
  <1>1. U64(m) \in Seq(Byte) /\ U64(n) \in Seq(Byte)
    BY NumberBytes
  <1>2. Len(U64(m)) = 2 /\ Len(U64(n)) = 2
    BY DEF U64
  <1> DEFINE x == U64(m)
             y == U64(n)
  <1>3. /\ x \in Seq(Byte) /\ y \in Seq(Byte) /\ Len(x) = Len(y)
        /\ At(w, o, x) /\ At(w, o, y)
    BY <1>1, <1>2
  <1> HIDE DEF x, y
  <1>4. x = y
    BY <1>3, AtSame
  <1>5. QED
    BY <1>4 DEF x, y

LEMMA AtWord32 ==
  ASSUME NEW w \in Seq(Byte), NEW o \in Nat, NEW m \in Int, NEW n \in Int,
         At(w, o, U32(m)), At(w, o, U32(n))
  PROVE  U32(m) = U32(n)
  <1>1. U32(m) \in Seq(Byte) /\ U32(n) \in Seq(Byte)
    BY NumberBytes
  <1>2. Len(U32(m)) = 1 /\ Len(U32(n)) = 1
    BY DEF U32
  <1> DEFINE x == U32(m)
             y == U32(n)
  <1>3. /\ x \in Seq(Byte) /\ y \in Seq(Byte) /\ Len(x) = Len(y)
        /\ At(w, o, x) /\ At(w, o, y)
    BY <1>1, <1>2
  <1> HIDE DEF x, y
  <1>4. x = y
    BY <1>3, AtSame
  <1>5. QED
    BY <1>4 DEF x, y

\* A word and what is behind it.
LEMMA AtLength ==
  ASSUME NEW w \in Seq(Byte), NEW o \in Nat, NEW n \in Int, NEW s \in Seq(Byte),
         At(w, o, U64(n) \o s)
  PROVE  At(w, o, U64(n)) /\ At(w, o + 2, s)
  <1>1. U64(n) \in Seq(Byte)
    BY NumberBytes
  <1>2. Len(U64(n)) = 2
    BY DEF U64
  <1>3. At(w, o, U64(n)) /\ At(w, o + Len(U64(n)), s)
    BY <1>1, AtConcat
  <1>4. QED
    BY <1>2, <1>3

\* An element of a slice of bytes.
Element(b) == Tag.U \o U64(b)

LEMMA ElementIs ==
  ASSUME NEW b \in Byte
  PROVE  /\ Element(b) \in Seq(Byte) /\ Len(Element(b)) = 3 /\ Element(b) # <<>>
         /\ Element(b)[1] \in Byte /\ Element(b)[2] = b
  <1>1. b \in Int /\ 0 <= b /\ b < 256
    BY DEF Byte
  <1>2. b % 256 = b /\ (b \div 256) % 256 = 0
    BY <1>1
  <1>3. U64(b) = <<b, 0>>
    BY <1>2 DEF U64
  <1>4. Tag.U = <<85>> /\ 85 \in Byte /\ 0 \in Byte
    BY DEF Tag, Byte
  <1> DEFINE x == <<85>>
             y == <<b, 0>>
  <1>5. x \in Seq(Byte) /\ y \in Seq(Byte) /\ Len(x) = 1 /\ Len(y) = 2
    BY <1>4
  <1>6. y[1] = b
    OBVIOUS
  <1> HIDE DEF x, y
  <1>7. x \o y \in Seq(Byte) /\ Len(x \o y) = 3
    <2>1. x \in Seq(Byte) /\ y \in Seq(Byte)
      BY <1>5
    <2>2. x \o y \in Seq(Byte) /\ Len(x \o y) = Len(x) + Len(y)
      BY <2>1, ConcatLength
    <2>3. QED
      BY <1>5, <2>2
  <1>8. (x \o y)[2] = y[1]
    <2>1. x \in Seq(Byte) /\ y \in Seq(Byte) /\ 1 \in 1 .. Len(y)
      BY <1>5
    <2>2. (x \o y)[Len(x) + 1] = y[1]
      BY <2>1, ConcatSecond
    <2>3. Len(x) = 1
      BY <1>5
    <2>4. Len(x) + 1 = 2
      BY <2>3
    <2>5. QED
      BY <2>2, <2>4
  <1> DEFINE z == x \o y
  <1>9. z \in Seq(Byte) /\ Len(z) = 3 /\ z[2] = b
    BY <1>6, <1>7, <1>8
  <1> HIDE DEF z
  <1>10. z # <<>> /\ z[1] \in Byte
    BY <1>9
  <1>11. Element(b) = z
    BY <1>3, <1>4 DEF Element, x, y, z
  <1>12. QED
    BY <1>9, <1>10, <1>11

\* Slices of one length whose elements are at one place.
LEMMA ElementsApart ==
  ASSUME NEW w \in Seq(Byte), NEW o \in Nat, NEW s \in Seq(Byte),
         NEW t \in Seq(Byte), Len(s) = Len(t),
         At(w, o, Elements(s)), At(w, o, Elements(t))
  PROVE  s = t
  <1> DEFINE p == [i \in DOMAIN s |-> Element(s[i])]
             q == [i \in DOMAIN t |-> Element(t[i])]
  <1>1. p \in Seq(Seq(Byte)) /\ q \in Seq(Seq(Byte))
    BY ElementsType DEF Element
  <1>2. Elements(s) = FlattenSeq(p) /\ Elements(t) = FlattenSeq(q)
    BY DEF Elements, Element
  <1>3. Len(s) \in Nat /\ DOMAIN s = 1 .. Len(s) /\ DOMAIN t = 1 .. Len(s)
    OBVIOUS
  <1>4. Len(p) = Len(s) /\ Len(q) = Len(s)
    BY <1>1, <1>3
  <1>5. ASSUME NEW i \in 1 .. Len(s)
        PROVE  p[i] = Element(s[i]) /\ q[i] = Element(t[i])
    BY <1>3
  <1> HIDE DEF p, q
  <1>6. ASSUME NEW i \in 1 .. Len(s)
        PROVE  s[i] \in Byte /\ t[i] \in Byte
    BY <1>3
  <1>7. ASSUME NEW i \in 1 .. Len(s)
        PROVE  /\ p[i] \in Seq(Byte) /\ Len(p[i]) = 3 /\ p[i] # <<>>
               /\ p[i][1] \in Byte /\ p[i][2] = s[i]
               /\ q[i] \in Seq(Byte) /\ Len(q[i]) = 3 /\ q[i] # <<>>
               /\ q[i][1] \in Byte /\ q[i][2] = t[i]
    BY <1>5, <1>6, ElementIs
  <1>8. Begins(p, Byte) /\ Begins(q, Byte)
    BY <1>4, <1>7 DEF Begins
  <1>9. Apart(p, q, w, Byte)
    <2>1. ASSUME NEW i \in 1 .. Len(s), NEW a, At(w, a, p[i]), At(w, a, q[i])
          PROVE  p[i] = q[i]
      <3>1. p[i] \in Seq(Byte) /\ q[i] \in Seq(Byte) /\ Len(p[i]) = Len(q[i])
        BY <1>7
      <3>2. QED
        BY <2>1, <3>1, AtSame
    <2>2. QED
      BY <1>4, <2>1 DEF Apart
  <1>10. ASSUME NEW x \in Seq(Byte), At(w, o, x)
         PROVE  Ended(w, Byte, o + Len(x))
    <2>1. o + Len(x) \in Nat /\ o + Len(x) <= Len(w) /\ Len(w) \in Nat
      BY <1>10 DEF At
    <2> DEFINE e == o + Len(x)
    <2> HIDE DEF e
    <2>2. ASSUME e \in Nat, e < Len(w) PROVE w[e + 1] \in Byte
      BY <2>2
    <2>3. e \in Nat /\ e <= Len(w) /\ Len(w) \in Nat => Ended(w, Byte, e)
      BY <2>2 DEF Ended
    <2>4. QED
      BY <2>1, <2>3 DEF e
  <1>11. /\ At(w, o, FlattenSeq(p)) /\ At(w, o, FlattenSeq(q))
         /\ FlattenSeq(p) \in Seq(Byte) /\ FlattenSeq(q) \in Seq(Byte)
    BY <1>1, <1>2, FlattenType
  <1>12. /\ Ended(w, Byte, o + Len(FlattenSeq(p)))
         /\ Ended(w, Byte, o + Len(FlattenSeq(q)))
    BY <1>10, <1>11
  <1>13. \A i \in 1 .. Len(p) : i <= Len(q) => p[i] = q[i]
    BY <1>1, <1>8, <1>9, <1>11, <1>12, PiecesApart
  <1>14. ASSUME NEW i \in 1 .. Len(s) PROVE s[i] = t[i]
    <2>1. p[i] = q[i]
      BY <1>3, <1>4, <1>13
    <2>2. QED
      BY <1>7, <2>1
  <1>15. QED
    BY <1>3, <1>14

\* The values of a type fit the words they are hashed as.
LEMMA ScalarValues ==
  ASSUME NEW ty, NEW v, HasType(ty, v)
  PROVE  /\ ty = "bool" => v \in {0, 1}
         /\ ty = "f32" => v \in Int /\ -128 <= v /\ v < 128
         /\ ty = "f64" => v \in Int /\ -32768 <= v /\ v < 32768
         /\ ty = "some" => v \in Int /\ 0 <= v /\ v < 65536
         /\ ty = "none" => v = 0
  <1>1. CASE ty = "bool"
    BY <1>1 DEF HasType, Within, Integer
  <1>2. CASE ty = "f32"
    BY <1>2 DEF HasType, Within, Integer
  <1>3. CASE ty = "f64"
    BY <1>3 DEF HasType, Within, Integer, IntMin, IntMax
  <1>4. CASE ty = "some"
    BY <1>4 DEF HasType, Within, Integer
  <1>5. CASE ty = "none"
    BY <1>5 DEF HasType, Within, Integer
  <1>6. QED
    BY <1>1, <1>2, <1>3, <1>4, <1>5

LEMMA SlicesApart ==
  ASSUME NEW w \in Seq(Byte), NEW o \in Nat, NEW s \in Text, NEW t \in Text,
         At(w, o, U64(Len(s)) \o Elements(s)), At(w, o, U64(Len(t)) \o Elements(t))
  PROVE  s = t
  <1>1. /\ s \in Seq(Byte) /\ Len(s) \in Int /\ 0 <= Len(s) /\ Len(s) < 65536
        /\ t \in Seq(Byte) /\ Len(t) \in Int /\ 0 <= Len(t) /\ Len(t) < 65536
    BY TextBytes
  <1>2. Elements(s) \in Seq(Byte) /\ Elements(t) \in Seq(Byte)
    <2>1. s \in Seq(Byte) /\ t \in Seq(Byte)
      BY <1>1
    <2>2. Elements(s) \in Seq(Byte)
      BY <2>1, ElementsType
    <2>3. Elements(t) \in Seq(Byte)
      BY <2>1, ElementsType
    <2>4. QED
      BY <2>2, <2>3
  <1>3. /\ At(w, o, U64(Len(s))) /\ At(w, o + 2, Elements(s))
        /\ At(w, o, U64(Len(t))) /\ At(w, o + 2, Elements(t))
    <2>1. Len(s) \in Int /\ Len(t) \in Int
      BY <1>1
    <2>2. At(w, o, U64(Len(s))) /\ At(w, o + 2, Elements(s))
      BY <1>2, <2>1, AtLength
    <2>3. At(w, o, U64(Len(t))) /\ At(w, o + 2, Elements(t))
      BY <1>2, <2>1, AtLength
    <2>4. QED
      BY <2>2, <2>3
  <1>4. U64(Len(s)) = U64(Len(t))
    BY <1>1, <1>3, AtWord
  <1>5. Len(s) = Len(t)
    BY <1>1, <1>4, U64Apart
  <1>6. o + 2 \in Nat
    OBVIOUS
  <1>7. QED
    BY <1>1, <1>3, <1>5, <1>6, ElementsApart

\* What is behind a tag, of two values with that tag.
LEMMA BodyApart ==
  ASSUME NEW w \in Seq(Byte), NEW o \in Nat,
         NEW ty \in Hashed, NEW v, HasType(ty, v), At(w, o, Body(ty, v)),
         NEW uy \in Hashed, NEW u, HasType(uy, u), At(w, o, Body(uy, u)),
         Kind(ty) = Kind(uy)
  PROVE  Body(ty, v) = Body(uy, u) /\ Meant(ty, v) = Meant(uy, u)
  <1>1. CASE Kind(ty) = "u64"
    <2>1. ty \in Integer /\ uy \in Integer
      BY <1>1, KindCases
    <2>2. v \in Int /\ u \in Int
      BY <2>1, TypedValue DEF Scalars
    <2>3. Body(ty, v) = U64(v) /\ Body(uy, u) = U64(u)
      BY <2>1 DEF Body, Integer
    <2>4. U64(v) = U64(u)
      BY <2>2, <2>3, AtWord
    <2>5. QED
      BY <2>1, <2>3, <2>4, MeantIs
  <1>2. CASE Kind(ty) # "u64"
    <2>1. ty = uy /\ ty \notin Integer /\ uy \notin Integer
      BY <1>2, KindCases
    <2>2. SUFFICES v = u
      BY <2>1
    <2>3. CASE ty = "bool"
      <3>1. v \in {0, 1} /\ u \in {0, 1}
        BY <2>1, <2>3, ScalarValues
      <3>2. Body(ty, v) = <<v>> /\ Body(uy, u) = <<u>>
        BY <2>1, <2>3, <3>1 DEF Body, Integer
      <3>3. At(w, o, <<v>>) /\ At(w, o, <<u>>)
        BY <3>2
      <3>4. /\ <<v>> \in Seq(Byte) /\ <<u>> \in Seq(Byte)
            /\ <<v>> # <<>> /\ <<u>> # <<>> /\ <<v>>[1] = v /\ <<u>>[1] = u
        BY <3>1 DEF Byte
      <3>5. w[o + 1] = v
        BY <3>3, <3>4, AtFirst
      <3>6. w[o + 1] = u
        BY <3>3, <3>4, AtFirst
      <3>7. QED
        BY <3>5, <3>6
    <2>4. CASE ty = "f32"
      <3>1. /\ v \in Int /\ -128 <= v /\ v < 128
            /\ u \in Int /\ -128 <= u /\ u < 128
        BY <2>1, <2>4, ScalarValues
      <3>2. Body(ty, v) = U32(v) /\ Body(uy, u) = U32(u)
        BY <2>1, <2>4 DEF Body, Integer
      <3>3. U32(v) = U32(u)
        BY <3>1, <3>2, AtWord32
      <3>4. QED
        BY <3>1, <3>3, U32Apart
    <2>5. CASE ty = "f64"
      <3>1. /\ v \in Int /\ -32768 <= v /\ v < 32768
            /\ u \in Int /\ -32768 <= u /\ u < 32768
        BY <2>1, <2>5, ScalarValues
      <3>2. Body(ty, v) = U64(v) /\ Body(uy, u) = U64(u)
        BY <2>1, <2>5 DEF Body, Integer
      <3>3. U64(v) = U64(u)
        BY <3>1, <3>2, AtWord
      <3>4. QED
        BY <3>1, <3>3, U64Apart
    <2>6. CASE ty = "str"
      <3>1. v \in Text /\ u \in Text
        BY <2>1, <2>6, TypedValue
      <3>2. Body(ty, v) = Str(v) /\ Body(uy, u) = Str(u)
        BY <2>1, <2>6 DEF Body, Integer
      <3>3. QED
        BY <3>1, <3>2, AtStr
    <2>7. CASE ty = "bytes"
      <3>1. v \in Text /\ u \in Text
        BY <2>1, <2>7, TypedValue
      <3>2. /\ Body(ty, v) = U64(Len(v)) \o Elements(v)
            /\ Body(uy, u) = U64(Len(u)) \o Elements(u)
        BY <2>1, <2>7 DEF Body, Integer
      <3>3. QED
        BY <3>1, <3>2, SlicesApart
    <2>8. CASE ty = "some"
      <3>1. /\ v \in Int /\ 0 <= v /\ v < 65536
            /\ u \in Int /\ 0 <= u /\ u < 65536
        BY <2>1, <2>8, ScalarValues
      <3>2. Body(ty, v) = <<85>> \o U64(v) /\ Body(uy, u) = <<85>> \o U64(u)
        BY <2>1, <2>8 DEF Body, Integer, Tag
      <3>3. 85 \in Byte /\ U64(v) \in Seq(Byte) /\ U64(u) \in Seq(Byte)
        BY <3>1, NumberBytes DEF Byte
      <3>4. At(w, o + 1, U64(v))
        BY <3>2, <3>3, AtTagged
      <3>5. At(w, o + 1, U64(u))
        BY <3>2, <3>3, AtTagged
      <3>6. o + 1 \in Nat
        OBVIOUS
      <3>7. U64(v) = U64(u)
        BY <3>1, <3>4, <3>5, <3>6, AtWord
      <3>8. QED
        BY <3>1, <3>7, U64Apart
    <2>9. CASE ty = "none"
      BY <2>1, <2>9, ScalarValues
    <2>10. QED
      BY <2>1, <2>3, <2>4, <2>5, <2>6, <2>7, <2>8, <2>9 DEF Hashed, Scalars
  <1>3. QED
    BY <1>1, <1>2

\* Two values at one place are the same value.
LEMMA ValuesApart ==
  ASSUME NEW w \in Seq(Byte), NEW o \in Nat,
         NEW ty \in Hashed, NEW v, HasType(ty, v), At(w, o, TraceHash(ty, v)),
         NEW uy \in Hashed, NEW u, HasType(uy, u), At(w, o, TraceHash(uy, u))
  PROVE  TraceHash(ty, v) = TraceHash(uy, u) /\ Meant(ty, v) = Meant(uy, u)
  <1>1. /\ Kind(ty) \in Kinds /\ Kind(uy) \in Kinds
        /\ TypeTag[Kind(ty)] \in Byte /\ TypeTag[Kind(uy)] \in Byte
    BY KindCases, TypeTagByte
  <1>2. /\ Body(ty, v) \in Seq(Byte) /\ Body(uy, u) \in Seq(Byte)
        /\ TraceHash(ty, v) = <<TypeTag[Kind(ty)]>> \o Body(ty, v)
        /\ TraceHash(uy, u) = <<TypeTag[Kind(uy)]>> \o Body(uy, u)
    BY TaggedBody
  <1>3. w[o + 1] = TypeTag[Kind(ty)] /\ At(w, o + 1, Body(ty, v))
    BY <1>1, <1>2, AtTagged
  <1>4. w[o + 1] = TypeTag[Kind(uy)] /\ At(w, o + 1, Body(uy, u))
    BY <1>1, <1>2, AtTagged
  <1>5. Kind(ty) = Kind(uy)
    BY <1>1, <1>3, <1>4, TypeTagApart
  <1>6. o + 1 \in Nat
    OBVIOUS
  <1>7. Body(ty, v) = Body(uy, u) /\ Meant(ty, v) = Meant(uy, u)
    BY <1>3, <1>4, <1>5, <1>6, BodyApart
  <1>8. QED
    BY <1>2, <1>5, <1>7

(***************************************************************************)
(* Structs: a name, and for each field its name and value, with no count   *)
(* of the fields.  What follows the last field is the tag of another       *)
(* helper's call, so a struct ends where a name's length, which is what a  *)
(* field would begin with, is a tag.                                       *)
(***************************************************************************)
Tags == {b \in Byte : IsTag(b)}

ShortNamed(decl) ==
  /\ ~ IsTag(Len(decl.name) % 256)
  /\ \A i \in DOMAIN decl.fields : ~ IsTag(Len(decl.fields[i].name) % 256)

IsField(f) ==
  f.name \in Text /\ f.ty \in Scalars \cup {"bytes"} /\ HasType(f.ty, f.v)

LEMMA AtItself ==
  ASSUME NEW s \in Seq(Byte)
  PROVE  At(s, 0, s)
  BY DEF At

LEMMA FirstOf ==
  ASSUME NEW s \in Seq(Byte), s # <<>>, NEW t \in Seq(Byte)
  PROVE  s \o t # <<>> /\ (s \o t)[1] = s[1]
  <1>1. Len(s) \in Nat /\ Len(s) > 0 /\ Len(t) \in Nat
    OBVIOUS
  <1>2. 1 \in 1 .. Len(s)
    BY <1>1
  <1>3. (s \o t)[1] = s[1]
    BY <1>2, ConcatFirst
  <1>4. Len(s \o t) = Len(s) + Len(t)
    BY ConcatLength
  <1>5. Len(s \o t) > 0
    BY <1>1, <1>4
  <1>6. QED
    BY <1>3, <1>5

LEMMA StrFirst ==
  ASSUME NEW s \in Seq(Byte), NEW t \in Seq(Byte)
  PROVE  /\ Str(s) \o t # <<>> /\ (Str(s) \o t)[1] = Len(s) % 256
         /\ Str(s) \in Seq(Byte) /\ Len(s) % 256 \in Byte
  <1>1. Len(s) \in Int
    OBVIOUS
  <1>2. Str(s) \in Seq(Byte)
    BY StrBytes
  <1>3. Len(s) % 256 \in Byte
    <2>1. ASSUME NEW n \in Int PROVE n % 256 \in Byte
      BY DEF Byte
    <2>2. QED
      BY <1>1, <2>1
  <1>4. U64(Len(s)) \in Seq(Byte)
    BY <1>1, NumberBytes
  <1>5. U64(Len(s)) # <<>> /\ U64(Len(s))[1] = Len(s) % 256
    <2>1. ASSUME NEW n PROVE U64(n) # <<>> /\ U64(n)[1] = n % 256
      BY DEF U64
    <2>2. QED
      BY <2>1
  <1>6. Str(s) # <<>> /\ Str(s)[1] = U64(Len(s))[1]
    <2> DEFINE x == U64(Len(s))
    <2>1. x \in Seq(Byte) /\ x # <<>>
      BY <1>4, <1>5
    <2>2. Str(s) = x \o s
      BY DEF Str
    <2> HIDE DEF x
    <2>3. x \o s # <<>> /\ (x \o s)[1] = x[1]
      BY <2>1, FirstOf
    <2>4. QED
      BY <2>2, <2>3 DEF x
  <1>7. Str(s) \o t # <<>> /\ (Str(s) \o t)[1] = Str(s)[1]
    BY <1>2, <1>6, FirstOf
  <1>8. QED
    BY <1>2, <1>3, <1>5, <1>6, <1>7

LEMMA FieldIs ==
  ASSUME NEW decl, IsDeclaration(decl), NEW i \in 1 .. Len(decl.fields)
  PROVE  IsField(decl.fields[i])
  BY DEF IsDeclaration, IsField

LEMMA FieldFedIs ==
  ASSUME NEW f, IsField(f)
  PROVE  /\ f.name \in Seq(Byte) /\ Str(f.name) \in Seq(Byte)
         /\ f.ty \in Hashed /\ TraceHash(f.ty, f.v) \in Seq(Byte)
         /\ RustFieldFed(f) \in Seq(Byte)
         /\ RustFieldFed(f) # <<>> /\ RustFieldFed(f)[1] = Len(f.name) % 256
         /\ Len(f.name) % 256 \in Byte
  <1>1. f.name \in Text /\ f.ty \in Hashed /\ HasType(f.ty, f.v)
    BY DEF IsField, Hashed
  <1>2. f.name \in Seq(Byte)
    BY <1>1, TextBytes
  <1>3. TraceHash(f.ty, f.v) \in Seq(Byte)
    BY <1>1, TraceHashBytes DEF Hashed
  <1>4. Str(f.name) \in Seq(Byte)
    BY <1>2, StrBytes
  <1>5. RustFieldFed(f) = Str(f.name) \o TraceHash(f.ty, f.v)
    BY DEF RustFieldFed
  <1>6. Str(f.name) \o TraceHash(f.ty, f.v) \in Seq(Byte)
    BY <1>3, <1>4
  <1>7. /\ Str(f.name) \o TraceHash(f.ty, f.v) # <<>>
        /\ (Str(f.name) \o TraceHash(f.ty, f.v))[1] = Len(f.name) % 256
        /\ Len(f.name) % 256 \in Byte
    <2>1. \A s, t \in Seq(Byte) :
            /\ Str(s) \o t # <<>> /\ (Str(s) \o t)[1] = Len(s) % 256
            /\ Len(s) % 256 \in Byte
      BY StrFirst
    <2>2. QED
      BY Zenon, <1>2, <1>3, <2>1
  <1>8. /\ RustFieldFed(f) \in Seq(Byte)
        /\ RustFieldFed(f) # <<>> /\ RustFieldFed(f)[1] = Len(f.name) % 256
    BY Zenon, <1>5, <1>6, <1>7
  <1>9. QED
    BY Zenon, <1>1, <1>2, <1>3, <1>4, <1>7, <1>8

LEMMA FieldsApart ==
  ASSUME NEW w \in Seq(Byte), NEW o \in Nat,
         NEW f, IsField(f), At(w, o, RustFieldFed(f)),
         NEW g, IsField(g), At(w, o, RustFieldFed(g))
  PROVE  /\ RustFieldFed(f) = RustFieldFed(g)
         /\ f.name = g.name /\ Meant(f.ty, f.v) = Meant(g.ty, g.v)
  <1>1. /\ Str(f.name) \in Seq(Byte) /\ TraceHash(f.ty, f.v) \in Seq(Byte)
        /\ f.ty \in Hashed /\ HasType(f.ty, f.v) /\ f.name \in Text
    BY FieldFedIs DEF IsField
  <1>2. /\ Str(g.name) \in Seq(Byte) /\ TraceHash(g.ty, g.v) \in Seq(Byte)
        /\ g.ty \in Hashed /\ HasType(g.ty, g.v) /\ g.name \in Text
    BY FieldFedIs DEF IsField
  <1>3. /\ At(w, o, Str(f.name))
        /\ At(w, o + Len(Str(f.name)), TraceHash(f.ty, f.v))
    BY <1>1, AtConcat DEF RustFieldFed
  <1>4. /\ At(w, o, Str(g.name))
        /\ At(w, o + Len(Str(g.name)), TraceHash(g.ty, g.v))
    BY <1>2, AtConcat DEF RustFieldFed
  <1>5. f.name = g.name
    BY <1>1, <1>2, <1>3, <1>4, AtStr
  <1> DEFINE a == o + Len(Str(f.name))
  <1>6. a \in Nat
    BY <1>1
  <1>7. At(w, a, TraceHash(f.ty, f.v)) /\ At(w, a, TraceHash(g.ty, g.v))
    BY <1>3, <1>4, <1>5
  <1> HIDE DEF a
  <1>8. /\ TraceHash(f.ty, f.v) = TraceHash(g.ty, g.v)
        /\ Meant(f.ty, f.v) = Meant(g.ty, g.v)
    BY <1>1, <1>2, <1>6, <1>7, ValuesApart
  <1>9. QED
    BY <1>5, <1>8 DEF RustFieldFed

\* The name of the struct, and the pieces its fields feed.
Pieces(decl) == [i \in DOMAIN decl.fields |-> RustFieldFed(decl.fields[i])]

LEMMA StructIs ==
  ASSUME NEW decl, IsDeclaration(decl)
  PROVE  /\ decl.name \in Text /\ Str(decl.name) \in Seq(Byte)
         /\ Pieces(decl) \in Seq(Seq(Byte))
         /\ Len(Pieces(decl)) = Len(decl.fields)
         /\ \A i \in 1 .. Len(decl.fields) :
              Pieces(decl)[i] = RustFieldFed(decl.fields[i])
         /\ Begins(Pieces(decl), Byte)
         /\ FlattenSeq(Pieces(decl)) \in Seq(Byte)
         /\ DerivedHash(decl) = Str(decl.name) \o FlattenSeq(Pieces(decl))
  <1>1. Len(decl.fields) \in Nat /\ DOMAIN decl.fields = 1 .. Len(decl.fields)
    BY DEF IsDeclaration
  <1>2. decl.name \in Text
    BY DEF IsDeclaration
  <1>3. Str(decl.name) \in Seq(Byte)
    BY <1>2, TextBytes, StrBytes
  <1>4. ASSUME NEW i \in 1 .. Len(decl.fields)
        PROVE  /\ RustFieldFed(decl.fields[i]) \in Seq(Byte)
               /\ RustFieldFed(decl.fields[i]) # <<>>
               /\ RustFieldFed(decl.fields[i])[1] \in Byte
    <2>1. IsField(decl.fields[i])
      BY FieldIs
    <2> DEFINE f == decl.fields[i]
    <2>2. IsField(f)
      BY <2>1
    <2> HIDE DEF f
    <2>3. /\ RustFieldFed(f) \in Seq(Byte) /\ RustFieldFed(f) # <<>>
          /\ RustFieldFed(f)[1] \in Byte
      BY <2>2, FieldFedIs
    <2>4. QED
      BY <2>3 DEF f
  <1>5. \A i \in 1 .. Len(decl.fields) :
          Pieces(decl)[i] = RustFieldFed(decl.fields[i])
    BY <1>1 DEF Pieces
  <1>6. Pieces(decl) \in Seq(Seq(Byte))
    BY <1>1, <1>4 DEF Pieces
  <1>7. Len(Pieces(decl)) = Len(decl.fields)
    BY <1>1 DEF Pieces
  <1>8. Begins(Pieces(decl), Byte)
    BY <1>4, <1>5, <1>7 DEF Begins
  <1>9. FlattenSeq(Pieces(decl)) \in Seq(Byte)
    BY <1>6, FlattenType
  <1>10. DerivedHash(decl) = Str(decl.name) \o FlattenSeq(Pieces(decl))
    BY DerivedIs DEF Pieces
  <1>11. QED
    BY <1>2, <1>3, <1>5, <1>6, <1>7, <1>8, <1>9, <1>10

LEMMA AnyEnd ==
  ASSUME NEW w \in Seq(Byte), NEW o \in Nat, NEW x \in Seq(Byte), At(w, o, x)
  PROVE  Ended(w, Byte, o + Len(x))
  <1>1. o + Len(x) \in Nat /\ o + Len(x) <= Len(w) /\ Len(w) \in Nat
    BY DEF At
  <1> DEFINE e == o + Len(x)
  <1> HIDE DEF e
  <1>2. ASSUME e \in Nat, e < Len(w) PROVE w[e + 1] \in Byte
    BY <1>2
  <1>3. e \in Nat /\ e <= Len(w) /\ Len(w) \in Nat => Ended(w, Byte, e)
    BY <1>2 DEF Ended
  <1>4. QED
    BY <1>1, <1>3 DEF e

\* A field does not stand where a struct ends.
LEMMA NoFieldAtEnd ==
  ASSUME NEW w \in Seq(Byte), NEW e \in Nat, Ended(w, Tags, e),
         NEW f, IsField(f), ~ IsTag(Len(f.name) % 256), At(w, e, RustFieldFed(f))
  PROVE  FALSE
  <1>1. /\ RustFieldFed(f) \in Seq(Byte) /\ RustFieldFed(f) # <<>>
        /\ RustFieldFed(f)[1] = Len(f.name) % 256
    BY FieldFedIs
  <1>2. w[e + 1] = Len(f.name) % 256 /\ e + 1 <= Len(w)
    BY <1>1, AtFirst
  <1>3. Len(w) \in Nat
    OBVIOUS
  <1>4. e # Len(w)
    BY <1>2, <1>3
  <1>5. w[e + 1] \in Tags
    BY <1>4 DEF Ended
  <1>6. QED
    BY <1>2, <1>5 DEF Tags

\* Of two structs at one place, with the same name, neither has more fields.
LEMMA FieldCount ==
  ASSUME NEW w \in Seq(Byte), NEW o \in Nat,
         NEW d, IsDeclaration(d), At(w, o, FlattenSeq(Pieces(d))),
         NEW e, IsDeclaration(e), ShortNamed(e), At(w, o, FlattenSeq(Pieces(e))),
         Ended(w, Tags, o + Len(FlattenSeq(Pieces(d))))
  PROVE  /\ Len(d.fields) >= Len(e.fields)
         /\ \A i \in 1 .. Len(d.fields) :
              i <= Len(e.fields) => Pieces(d)[i] = Pieces(e)[i]
  <1> DEFINE p == Pieces(d)
             q == Pieces(e)
  <1>1. /\ p \in Seq(Seq(Byte)) /\ q \in Seq(Seq(Byte))
        /\ Begins(p, Byte) /\ Begins(q, Byte)
        /\ FlattenSeq(p) \in Seq(Byte) /\ FlattenSeq(q) \in Seq(Byte)
        /\ Len(p) = Len(d.fields) /\ Len(q) = Len(e.fields)
    BY StructIs
  <1>2. /\ \A i \in 1 .. Len(d.fields) : p[i] = RustFieldFed(d.fields[i])
        /\ \A i \in 1 .. Len(e.fields) : q[i] = RustFieldFed(e.fields[i])
    BY StructIs
  <1>3. Len(d.fields) \in Nat /\ Len(e.fields) \in Nat
    BY DEF IsDeclaration
  <1> HIDE DEF p, q
  <1>4. Apart(p, q, w, Byte)
    <2>1. ASSUME NEW i \in 1 .. Len(d.fields), i <= Len(e.fields),
                 NEW a \in Nat, At(w, a, p[i]), At(w, a, q[i])
          PROVE  p[i] = q[i]
      <3>1. i \in 1 .. Len(e.fields)
        BY <1>3, <2>1
      <3>2. IsField(d.fields[i]) /\ IsField(e.fields[i])
        BY <3>1, FieldIs
      <3>3. p[i] = RustFieldFed(d.fields[i]) /\ q[i] = RustFieldFed(e.fields[i])
        BY <1>2, <3>1
      <3>4. /\ At(w, a, RustFieldFed(d.fields[i]))
            /\ At(w, a, RustFieldFed(e.fields[i]))
        BY <2>1, <3>3
      <3>5. RustFieldFed(d.fields[i]) = RustFieldFed(e.fields[i])
        BY <3>2, <3>4, FieldsApart
      <3>6. QED
        BY <3>3, <3>5
    <2>2. QED
      BY <1>1, <2>1 DEF Apart
  <1>5. At(w, o, FlattenSeq(p)) /\ At(w, o, FlattenSeq(q))
    BY DEF p, q
  <1>6. /\ Ended(w, Byte, o + Len(FlattenSeq(p)))
        /\ Ended(w, Byte, o + Len(FlattenSeq(q)))
    BY <1>1, <1>5, AnyEnd
  <1>7. /\ \A i \in 1 .. Len(p) : i <= Len(q) => p[i] = q[i]
        /\ Len(p) < Len(q) => At(w, o + Len(FlattenSeq(p)), q[Len(p) + 1])
    BY <1>1, <1>4, <1>5, <1>6, PiecesApart
  <1>8. ASSUME Len(p) < Len(q) PROVE FALSE
    <2> DEFINE i == Len(d.fields) + 1
               end == o + Len(FlattenSeq(p))
               f == e.fields[i]
    <2>1. i \in 1 .. Len(e.fields)
      BY <1>1, <1>3, <1>8
    <2>2. IsField(f)
      BY <2>1, FieldIs
    <2>3. ~ IsTag(Len(f.name) % 256)
      BY <2>1 DEF ShortNamed, IsDeclaration
    <2>4. At(w, end, RustFieldFed(f))
      BY <1>1, <1>2, <1>7, <1>8, <2>1
    <2>5. end \in Nat
      <3>1. Len(FlattenSeq(p)) \in Nat
        BY <1>1
      <3>2. QED
        BY <3>1
    <2>6. Ended(w, Tags, end)
      BY DEF p
    <2> HIDE DEF end, f, i
    <2>7. QED
      BY <2>2, <2>3, <2>4, <2>5, <2>6, NoFieldAtEnd
  <1>9. QED
    <2>1. Len(p) \in Nat /\ Len(q) \in Nat
      BY <1>1, <1>3
    <2>2. ~ (Len(p) < Len(q))
      BY <1>8
    <2>3. Len(p) >= Len(q)
      BY <2>1, <2>2
    <2>4. Len(d.fields) >= Len(e.fields)
      BY <1>1, <2>3
    <2>5. \A i \in 1 .. Len(d.fields) : i <= Len(e.fields) => p[i] = q[i]
      BY <1>1, <1>7
    <2>6. QED
      BY <2>4, <2>5 DEF p, q

LEMMA LengthsSum ==
  ASSUME NEW o \in Nat, NEW s \in Seq(Byte), NEW t \in Seq(Byte)
  PROVE  /\ o + Len(s) \in Nat
         /\ o + Len(s \o t) = (o + Len(s)) + Len(t)
  <1>1. Len(s \o t) = Len(s) + Len(t)
    BY ConcatLength
  <1>2. Len(s) \in Nat /\ Len(t) \in Nat
    OBVIOUS
  <1> DEFINE x == Len(s)
             y == Len(t)
             z == Len(s \o t)
  <1>3. z = x + y /\ x \in Nat /\ y \in Nat
    BY <1>1, <1>2
  <1> HIDE DEF x, y, z
  <1>4. o + x \in Nat /\ o + z = (o + x) + y
    BY <1>3
  <1>5. QED
    BY <1>4 DEF x, y, z

\* Two structs at one place, which both end there as a hash goes on.
LEMMA StructsApart ==
  ASSUME NEW w \in Seq(Byte), NEW o \in Nat,
         NEW d, IsDeclaration(d), ShortNamed(d), At(w, o, DerivedHash(d)),
         NEW e, IsDeclaration(e), ShortNamed(e), At(w, o, DerivedHash(e)),
         Ended(w, Tags, o + Len(DerivedHash(d))),
         Ended(w, Tags, o + Len(DerivedHash(e)))
  PROVE  DerivedHash(d) = DerivedHash(e) /\ MeantByStruct(d) = MeantByStruct(e)
  <1> DEFINE p == FlattenSeq(Pieces(d))
             q == FlattenSeq(Pieces(e))
             a == o + Len(Str(d.name))
  <1>1. /\ d.name \in Text /\ Str(d.name) \in Seq(Byte) /\ p \in Seq(Byte)
        /\ DerivedHash(d) = Str(d.name) \o p
    BY StructIs
  <1>2. /\ e.name \in Text /\ Str(e.name) \in Seq(Byte) /\ q \in Seq(Byte)
        /\ DerivedHash(e) = Str(e.name) \o q
    BY StructIs
  <1> HIDE DEF p, q
  <1>3. At(w, o, Str(d.name)) /\ At(w, o + Len(Str(d.name)), p)
    BY <1>1, AtConcat
  <1>4. At(w, o, Str(e.name)) /\ At(w, o + Len(Str(e.name)), q)
    BY <1>2, AtConcat
  <1>5. d.name = e.name
    BY <1>1, <1>2, <1>3, <1>4, AtStr
  <1>6. /\ a \in Nat
        /\ o + Len(DerivedHash(d)) = a + Len(p)
    BY <1>1, LengthsSum
  <1>7. o + Len(DerivedHash(e)) = a + Len(q)
    BY <1>2, <1>5, LengthsSum
  <1>8. Ended(w, Tags, a + Len(p)) /\ Ended(w, Tags, a + Len(q))
    BY <1>6, <1>7
  <1>9. At(w, a, p) /\ At(w, a, q)
    BY <1>3, <1>4, <1>5
  <1> HIDE DEF a
  <1>10. /\ Len(d.fields) >= Len(e.fields)
         /\ \A i \in 1 .. Len(d.fields) :
              i <= Len(e.fields) => Pieces(d)[i] = Pieces(e)[i]
    BY <1>6, <1>8, <1>9, FieldCount DEF p, q
  <1>11. Len(e.fields) >= Len(d.fields)
    BY <1>6, <1>8, <1>9, FieldCount DEF p, q
  <1>12. /\ Len(d.fields) \in Nat /\ Len(e.fields) \in Nat
         /\ DOMAIN d.fields = 1 .. Len(d.fields) /\ DOMAIN e.fields = 1 .. Len(e.fields)
    BY DEF IsDeclaration
  <1>13. Len(d.fields) = Len(e.fields)
    BY <1>10, <1>11, <1>12
  <1>14. ASSUME NEW i \in 1 .. Len(d.fields)
         PROVE  Pieces(d)[i] = Pieces(e)[i]
    BY <1>10, <1>12, <1>13
  <1>15. ASSUME NEW i \in 1 .. Len(d.fields)
         PROVE  /\ d.fields[i].name = e.fields[i].name
                /\ Meant(d.fields[i].ty, d.fields[i].v)
                     = Meant(e.fields[i].ty, e.fields[i].v)
    <2> DEFINE f == d.fields[i]
               g == e.fields[i]
    <2>1. i \in 1 .. Len(e.fields)
      BY <1>13
    <2>2. IsField(f) /\ IsField(g)
      BY <2>1, FieldIs
    <2>3. RustFieldFed(f) = RustFieldFed(g)
      <3>1. Pieces(d)[i] = RustFieldFed(f)
        BY StructIs
      <3>2. Pieces(e)[i] = RustFieldFed(g)
        BY <2>1, StructIs
      <3>3. QED
        BY <1>14, <3>1, <3>2
    <2> HIDE DEF f, g
    <2> DEFINE s == RustFieldFed(f)
    <2>4. s \in Seq(Byte)
      BY <2>2, FieldFedIs
    <2>5. At(s, 0, s)
      BY <2>4, AtItself
    <2>6. At(s, 0, RustFieldFed(f)) /\ At(s, 0, RustFieldFed(g))
      BY <2>3, <2>5
    <2> HIDE DEF s
    <2>7. f.name = g.name /\ Meant(f.ty, f.v) = Meant(g.ty, g.v)
      BY <2>2, <2>4, <2>6, FieldsApart
    <2>8. QED
      BY <2>7 DEF f, g
  <1>16. Pieces(d) = Pieces(e)
    <2>1. /\ Pieces(d) = [i \in 1 .. Len(d.fields) |-> Pieces(d)[i]]
          /\ Pieces(e) = [i \in 1 .. Len(d.fields) |-> Pieces(e)[i]]
      BY <1>12, <1>13 DEF Pieces
    <2>2. [i \in 1 .. Len(d.fields) |-> Pieces(d)[i]]
            = [i \in 1 .. Len(d.fields) |-> Pieces(e)[i]]
      BY <1>14
    <2>3. QED
      BY <2>1, <2>2
  <1>17. DerivedHash(d) = DerivedHash(e)
    BY <1>1, <1>2, <1>5, <1>16 DEF p, q
  <1>18. [i \in DOMAIN d.fields |->
            <<d.fields[i].name>> \o Meant(d.fields[i].ty, d.fields[i].v)]
           = [i \in DOMAIN e.fields |->
                <<e.fields[i].name>> \o Meant(e.fields[i].ty, e.fields[i].v)]
    BY <1>12, <1>13, <1>15
  <1>19. MeantByStruct(d) = MeantByStruct(e)
    BY <1>5, <1>18 DEF MeantByStruct
  <1>20. QED
    BY <1>17, <1>19

\* What a value means, without the form of the call.
ValueMeant(h) ==
  IF h.ty = "struct" THEN <<"struct", MeantByStruct(h.v)>> ELSE Meant(h.ty, h.v)

WellNamed(h) == h.ty = "struct" => ShortNamed(h.v)

LEMMA ValueCases ==
  ASSUME NEW h, IsHelper(h), ~ Typed(h)
  PROVE  /\ h.ty = "struct" => IsDeclaration(h.v)
         /\ h.ty # "struct" => h.ty \in Hashed /\ HasType(h.ty, h.v)
  BY DEF IsHelper, Typed, Hashed, Scalars, Integer

LEMMA TypeTagIsTag ==
  ASSUME NEW k \in Kinds
  PROVE  IsTag(TypeTag[k])
  BY DEF Kinds, TypeTag, IsTag, Tag

\* A struct does not stand where a value with a tag does.
LEMMA NoStructForValue ==
  ASSUME NEW w \in Seq(Byte), NEW o \in Nat,
         NEW d, IsDeclaration(d), ShortNamed(d), At(w, o, DerivedHash(d)),
         NEW ty \in Hashed, NEW v, HasType(ty, v), At(w, o, TraceHash(ty, v))
  PROVE  FALSE
  <1>1. /\ d.name \in Text /\ FlattenSeq(Pieces(d)) \in Seq(Byte)
        /\ DerivedHash(d) = Str(d.name) \o FlattenSeq(Pieces(d))
    BY StructIs
  <1>2. d.name \in Seq(Byte)
    BY <1>1, TextBytes
  <1>3. /\ Str(d.name) \in Seq(Byte) /\ Str(d.name) # <<>>
        /\ Str(d.name)[1] = Len(d.name) % 256
    <2>1. <<>> \in Seq(Byte)
      OBVIOUS
    <2>2. /\ Str(d.name) \o <<>> # <<>> /\ (Str(d.name) \o <<>>)[1] = Len(d.name) % 256
          /\ Str(d.name) \in Seq(Byte)
      BY <1>2, <2>1, StrFirst
    <2>3. Str(d.name) \o <<>> = Str(d.name)
      BY <2>2
    <2>4. QED
      BY <2>2, <2>3
  <1>4. At(w, o, Str(d.name))
    BY <1>1, <1>3, AtConcat
  <1>5. w[o + 1] = Len(d.name) % 256
    BY <1>3, <1>4, AtFirst
  <1>6. Kind(ty) \in Kinds /\ TypeTag[Kind(ty)] \in Byte
    BY KindCases, TypeTagByte
  <1>7. Body(ty, v) \in Seq(Byte) /\ TraceHash(ty, v) = <<TypeTag[Kind(ty)]>> \o Body(ty, v)
    BY TaggedBody
  <1>8. w[o + 1] = TypeTag[Kind(ty)]
    BY <1>6, <1>7, AtTagged
  <1>9. IsTag(TypeTag[Kind(ty)])
    BY <1>6, TypeTagIsTag
  <1>10. QED
    BY <1>5, <1>8, <1>9 DEF ShortNamed

LEMMA ValueHashesApart ==
  ASSUME NEW w \in Seq(Byte), NEW o \in Nat,
         NEW h, IsHelper(h), ~ Typed(h), WellNamed(h), At(w, o, ValueHash(h)),
         NEW g, IsHelper(g), ~ Typed(g), WellNamed(g), At(w, o, ValueHash(g)),
         Ended(w, Tags, o + Len(ValueHash(h))),
         Ended(w, Tags, o + Len(ValueHash(g)))
  PROVE  ValueHash(h) = ValueHash(g) /\ ValueMeant(h) = ValueMeant(g)
  <1>1. CASE h.ty = "struct" /\ g.ty = "struct"
    <2>1. IsDeclaration(h.v) /\ IsDeclaration(g.v)
      BY <1>1, ValueCases
    <2>2. ShortNamed(h.v) /\ ShortNamed(g.v)
      BY <1>1 DEF WellNamed
    <2>3. ValueHash(h) = DerivedHash(h.v) /\ ValueHash(g) = DerivedHash(g.v)
      BY <1>1 DEF ValueHash
    <2>4. /\ At(w, o, DerivedHash(h.v)) /\ Ended(w, Tags, o + Len(DerivedHash(h.v)))
          /\ At(w, o, DerivedHash(g.v)) /\ Ended(w, Tags, o + Len(DerivedHash(g.v)))
      BY <2>3
    <2>5. /\ DerivedHash(h.v) = DerivedHash(g.v)
          /\ MeantByStruct(h.v) = MeantByStruct(g.v)
      BY <2>1, <2>2, <2>4, StructsApart
    <2>6. QED
      BY <1>1, <2>3, <2>5 DEF ValueMeant
  <1>2. CASE h.ty # "struct" /\ g.ty # "struct"
    <2>1. /\ h.ty \in Hashed /\ HasType(h.ty, h.v)
          /\ g.ty \in Hashed /\ HasType(g.ty, g.v)
      BY <1>2, ValueCases
    <2>2. ValueHash(h) = TraceHash(h.ty, h.v) /\ ValueHash(g) = TraceHash(g.ty, g.v)
      BY <1>2 DEF ValueHash
    <2>3. At(w, o, TraceHash(h.ty, h.v)) /\ At(w, o, TraceHash(g.ty, g.v))
      BY <2>2
    <2>4. /\ TraceHash(h.ty, h.v) = TraceHash(g.ty, g.v)
          /\ Meant(h.ty, h.v) = Meant(g.ty, g.v)
      BY <2>1, <2>3, ValuesApart
    <2>5. QED
      BY <1>2, <2>2, <2>4 DEF ValueMeant
  <1>3. CASE h.ty = "struct" /\ g.ty # "struct"
    <2>1. /\ IsDeclaration(h.v) /\ ShortNamed(h.v) /\ At(w, o, DerivedHash(h.v))
      BY <1>3, ValueCases DEF WellNamed, ValueHash
    <2>2. /\ g.ty \in Hashed /\ HasType(g.ty, g.v) /\ At(w, o, TraceHash(g.ty, g.v))
      BY <1>3, ValueCases DEF ValueHash
    <2>3. QED
      BY <2>1, <2>2, NoStructForValue
  <1>4. CASE h.ty # "struct" /\ g.ty = "struct"
    <2>1. /\ IsDeclaration(g.v) /\ ShortNamed(g.v) /\ At(w, o, DerivedHash(g.v))
      BY <1>4, ValueCases DEF WellNamed, ValueHash
    <2>2. /\ h.ty \in Hashed /\ HasType(h.ty, h.v) /\ At(w, o, TraceHash(h.ty, h.v))
      BY <1>4, ValueCases DEF ValueHash
    <2>3. QED
      BY <2>1, <2>2, NoStructForValue
  <1>5. QED
    BY <1>1, <1>2, <1>3, <1>4

(***************************************************************************)
(* Helper calls, and sequences of them.                                    *)
(***************************************************************************)
\* What the tag of a helper call tells: 86 is V, 71 G, 89 Y, 81 Q.
Class(h) ==
  CASE h.form = "value" -> "value"
    [] h.form = "field" -> "field"
    [] Typed(h) /\ h.ty = "bytes" -> "bytes"
    [] Typed(h) /\ h.ty = "f32q"  -> "f32q"
    [] OTHER                      -> Kind(h.ty)

Classes == {"value", "field", "bytes", "f32q", "u64", "bool", "f32", "f64"}

ClassTag == [value |-> 86, field |-> 71, bytes |-> 89, f32q |-> 81, u64 |-> 85,
             bool |-> 66, f32 |-> 70, f64 |-> 68]

\* What a helper call feeds behind its tag.
Rest(h) ==
  CASE h.form = "value" -> ValueHash(h)
    [] h.form = "field" -> Str(h.name) \o ValueHash(h)
    [] Typed(h) /\ h.ty = "bytes" -> Str(h.v)
    [] Typed(h) /\ h.ty = "f32q"  -> U32(h.q) \o U64(RustQuantize(h.v, h.q))
    [] OTHER                      -> Body(h.ty, h.v)

LEMMA HelperParts ==
  ASSUME NEW h, IsHelper(h)
  PROVE  /\ h.form \in {"value", "field", "pos", "as"}
         /\ Typed(h) <=> h.form \in {"pos", "as"}
         /\ h.name \in Text /\ h.q \in Int /\ -128 <= h.q /\ h.q < 128
         /\ Typed(h) => /\ h.ty \in Scalars \cup {"bytes", "f32q"}
                        /\ HasType(h.ty, h.v)
  BY DEF IsHelper, Typed, Within

LEMMA ClassCases ==
  ASSUME NEW h, IsHelper(h)
  PROVE  /\ Class(h) \in Classes
         /\ ClassTag[Class(h)] \in Byte /\ IsTag(ClassTag[Class(h)])
         /\ Class(h) = "value" <=> h.form = "value"
         /\ Class(h) = "field" <=> h.form = "field"
         /\ Class(h) = "bytes" <=> Typed(h) /\ h.ty = "bytes"
         /\ Class(h) = "f32q" <=> Typed(h) /\ h.ty = "f32q"
         /\ Class(h) \in {"u64", "bool", "f32", "f64"} =>
              Typed(h) /\ h.ty \in Scalars /\ Class(h) = Kind(h.ty)
  <1>1. Class(h) \in Classes => ClassTag[Class(h)] \in Byte /\ IsTag(ClassTag[Class(h)])
    BY DEF Classes, ClassTag, Byte, IsTag, Tag
  <1>2. CASE h.form = "value"
    <2>1. Class(h) = "value" /\ ~ Typed(h)
      BY <1>2 DEF Class, Typed
    <2>2. QED
      BY <1>1, <1>2, <2>1 DEF Classes
  <1>3. CASE h.form = "field"
    <2>1. Class(h) = "field" /\ ~ Typed(h)
      BY <1>3 DEF Class, Typed
    <2>2. QED
      BY <1>1, <1>3, <2>1 DEF Classes
  <1>4. CASE Typed(h)
    <2>1. h.ty \in Scalars \cup {"bytes", "f32q"} /\ h.form \notin {"value", "field"}
      BY <1>4, HelperParts
    <2>2. CASE h.ty = "bytes"
      BY <1>1, <1>4, <2>1, <2>2 DEF Class, Classes
    <2>3. CASE h.ty = "f32q"
      BY <1>1, <1>4, <2>1, <2>3 DEF Class, Classes
    <2>4. CASE h.ty \in Scalars
      <3>1. Class(h) = Kind(h.ty)
        BY <2>1, <2>4 DEF Class, Scalars, Integer
      <3>2. Kind(h.ty) \in {"u64", "bool", "f32", "f64"}
        BY <2>4 DEF Kind, Scalars, Integer
      <3>3. h.ty # "bytes" /\ h.ty # "f32q"
        BY <2>4 DEF Scalars, Integer
      <3>4. QED
        BY <1>1, <1>4, <2>1, <2>4, <3>1, <3>2, <3>3 DEF Classes
    <2>5. QED
      BY <2>1, <2>2, <2>3, <2>4
  <1>5. QED
    BY <1>2, <1>3, <1>4, HelperParts

IsWord(n) == n \in Int /\ -32768 <= n /\ n < 32768

LEMMA QuantizeRange ==
  ASSUME NEW v \in Int, NEW q \in Int
  PROVE  IsWord(RustQuantize(v, q))
  <1>1. RustQuantize(v, q) \in Int
    BY QuantizeType
  <1>2. CASE Divides(v, q)
    <2>1. RustQuantize(v, q) = Saturated(Rounded(v, q))
      BY <1>2 DEF RustQuantize
    <2>2. ASSUME NEW n, Saturated(n) \in Int
          PROVE  IsWord(Saturated(n))
      BY <2>2 DEF Saturated, IntMin, IntMax, IsWord
    <2>3. QED
      BY <1>1, <2>1, <2>2
  <1>3. CASE ~ Divides(v, q)
    <2>1. RustQuantize(v, q) = Special(v)
      BY <1>3 DEF RustQuantize
    <2> DEFINE n == Special(v)
    <2>2. -32768 <= n /\ n < 32768
      BY DEF Special, NaN, Inf, NegInf, IntMin, IntMax
    <2>3. RustQuantize(v, q) = n
      BY <2>1
    <2> HIDE DEF n
    <2>4. QED
      BY <1>1, <2>2, <2>3 DEF IsWord
  <1>4. QED
    BY <1>1, <1>2, <1>3

LEMMA TaggedRest ==
  ASSUME NEW h, IsHelper(h)
  PROVE  /\ Rest(h) \in Seq(Byte)
         /\ RustFed(h) = <<ClassTag[Class(h)]>> \o Rest(h)
  <1>1. CASE h.form = "value"
    <2>1. ~ Typed(h)
      BY <1>1 DEF Typed
    <2>2. ValueHash(h) \in Seq(Byte)
      BY <2>1, ValueFedType
    <2>3. Rest(h) = ValueHash(h) /\ RustFed(h) = Tag.V \o ValueHash(h)
      <3>1. Rest(h) = ValueHash(h)
        BY <1>1 DEF Rest, Typed
      <3>2. RustFed(h) = ValueFed(h)
        BY <1>1, Zenon DEF RustFed
      <3>3. QED
        BY <3>1, <3>2 DEF ValueFed
    <2>4. Tag.V = <<ClassTag[Class(h)]>>
      <3>1. Class(h) = "value"
        BY <1>1 DEF Class, Typed
      <3>2. QED
        BY <3>1 DEF Tag, ClassTag
    <2>5. QED
      BY <2>2, <2>3, <2>4
  <1>2. CASE h.form = "field"
    <2>1. ~ Typed(h)
      BY <1>2 DEF Typed
    <2>2. ValueHash(h) \in Seq(Byte)
      BY <2>1, ValueFedType
    <2>3. Str(h.name) \in Seq(Byte)
      BY HelperParts, TextBytes, StrBytes
    <2>4. /\ Rest(h) = Str(h.name) \o ValueHash(h)
          /\ RustFed(h) = (Tag.G \o Str(h.name)) \o ValueHash(h)
      <3>1. Rest(h) = Str(h.name) \o ValueHash(h)
        BY <1>2 DEF Rest, Typed
      <3>2. RustFed(h) = FieldFed(h)
        BY <1>2 DEF RustFed
      <3>3. QED
        BY <3>1, <3>2 DEF FieldFed
    <2>5. Tag.G = <<ClassTag[Class(h)]>> /\ Tag.G \in Seq(Byte)
      <3>1. Class(h) = "field"
        BY <1>2 DEF Class, Typed
      <3>2. QED
        BY <3>1, TagBytes DEF Tag, ClassTag
    <2>6. (Tag.G \o Str(h.name)) \o ValueHash(h) = Tag.G \o (Str(h.name) \o ValueHash(h))
      BY <2>2, <2>3, <2>5, Concat3
    <2>7. Rest(h) \in Seq(Byte)
      BY <2>2, <2>3, <2>4
    <2>8. QED
      BY <2>4, <2>5, <2>6, <2>7
  <1>3. CASE Typed(h)
    <2>1. /\ h.form \notin {"value", "field"} /\ RustFed(h) = RustTyped(h)
          /\ h.ty \in Scalars \cup {"bytes", "f32q"} /\ HasType(h.ty, h.v)
      BY <1>3, HelperParts DEF RustFed
    <2>2. CASE h.ty = "bytes"
      <3>1. h.v \in Seq(Byte)
        BY <2>1, <2>2, TypedValue
      <3>2. Rest(h) = Str(h.v)
        BY <1>3, <2>1, <2>2 DEF Rest
      <3>3. RustFed(h) = (Tag.Y \o U64(Len(h.v))) \o h.v
        BY <2>1, <2>2 DEF RustTyped, Bytes
      <3>4. U64(Len(h.v)) \in Seq(Byte)
        <4>1. Len(h.v) \in Int
          BY <3>1
        <4>2. QED
          BY <4>1, NumberBytes
      <3>5. Tag.Y = <<ClassTag[Class(h)]>> /\ Tag.Y \in Seq(Byte)
        <4>1. Class(h) = "bytes"
          BY <1>3, <2>2, ClassCases
        <4>2. QED
          BY <4>1, TagBytes DEF Tag, ClassTag
      <3>6. (Tag.Y \o U64(Len(h.v))) \o h.v = Tag.Y \o (U64(Len(h.v)) \o h.v)
        BY <3>1, <3>4, <3>5, Concat3
      <3>7. Str(h.v) = U64(Len(h.v)) \o h.v
        BY DEF Str
      <3>8. Str(h.v) \in Seq(Byte)
        BY <3>1, StrBytes
      <3>9. QED
        BY <3>2, <3>3, <3>5, <3>6, <3>7, <3>8
    <2>3. CASE h.ty = "f32q"
      <3>1. h.v \in Int /\ h.q \in Int
        BY <2>1, <2>3, TypedValue, HelperParts
      <3> DEFINE n == RustQuantize(h.v, h.q)
      <3>2. n \in Int
        BY <3>1, QuantizeType
      <3>3. /\ Rest(h) = U32(h.q) \o U64(n)
            /\ RustFed(h) = (Tag.Q \o U32(h.q)) \o U64(n)
        BY <1>3, <2>1, <2>3 DEF Rest, RustTyped, Quantized
      <3> HIDE DEF n
      <3>4. U32(h.q) \in Seq(Byte) /\ U64(n) \in Seq(Byte)
        BY <3>1, <3>2, NumberBytes
      <3>5. Tag.Q = <<ClassTag[Class(h)]>> /\ Tag.Q \in Seq(Byte)
        <4>1. Class(h) = "f32q"
          BY <1>3, <2>3, ClassCases
        <4>2. QED
          BY <4>1, TagBytes DEF Tag, ClassTag
      <3>6. (Tag.Q \o U32(h.q)) \o U64(n) = Tag.Q \o (U32(h.q) \o U64(n))
        BY <3>4, <3>5, Concat3
      <3>7. U32(h.q) \o U64(n) \in Seq(Byte)
        BY <3>4
      <3>8. QED
        BY <3>3, <3>5, <3>6, <3>7
    <2>4. CASE h.ty \in Scalars
      <3>1. h.ty \in Hashed /\ h.ty \notin {"bytes", "f32q", "str", "some", "none"}
        BY <2>4 DEF Hashed, Scalars, Integer
      <3>2. Rest(h) = Body(h.ty, h.v)
        BY <1>3, <2>1, <3>1 DEF Rest
      <3>3. RustFed(h) = TraceHash(h.ty, h.v)
        BY <2>1, <3>1 DEF RustTyped
      <3>4. /\ Body(h.ty, h.v) \in Seq(Byte)
            /\ TraceHash(h.ty, h.v) = <<TypeTag[Kind(h.ty)]>> \o Body(h.ty, h.v)
        BY <2>1, <3>1, TaggedBody
      <3>5. Class(h) = Kind(h.ty)
        BY <2>1, <3>1 DEF Class
      <3>6. Kind(h.ty) \in {"u64", "bool", "f32", "f64"}
        BY <2>4 DEF Kind, Scalars, Integer
      <3>7. ClassTag[Kind(h.ty)] = TypeTag[Kind(h.ty)]
        BY <3>6 DEF ClassTag, TypeTag
      <3>8. QED
        BY <3>2, <3>3, <3>4, <3>5, <3>7
    <2>5. QED
      BY <2>1, <2>2, <2>3, <2>4
  <1>4. QED
    BY <1>1, <1>2, <1>3, HelperParts

LEMMA ClassTagApart ==
  ASSUME NEW j \in Classes, NEW k \in Classes, ClassTag[j] = ClassTag[k]
  PROVE  j = k
  BY DEF Classes, ClassTag

MeaningOf(h) ==
  IF Typed(h) /\ h.ty = "f32q"
  THEN <<"f32q", <<h.q, RustQuantize(h.v, h.q)>>>> ELSE ValueMeant(h)

LEMMA MeaningIs ==
  ASSUME NEW h, IsHelper(h)
  PROVE  Meaning(h) = <<IF h.form = "as" THEN "pos" ELSE h.form,
                        IF h.form = "field" THEN h.name ELSE <<>>>> \o MeaningOf(h)
  <1>1. h.ty = "f32q" => Typed(h)
    BY DEF IsHelper, Typed, Scalars, Integer
  <1>2. CASE h.ty = "struct"
    BY <1>2 DEF Meaning, MeaningOf, ValueMeant
  <1>3. CASE h.ty = "f32q"
    BY <1>1, <1>3 DEF Meaning, MeaningOf
  <1>4. CASE h.ty # "struct" /\ h.ty # "f32q"
    BY <1>4 DEF Meaning, MeaningOf, ValueMeant
  <1>5. QED
    BY <1>2, <1>3, <1>4

\* What is behind the tag of two helper calls with that tag.
LEMMA RestsApart ==
  ASSUME NEW w \in Seq(Byte), NEW o \in Nat,
         NEW h, IsHelper(h), WellNamed(h), At(w, o, Rest(h)),
         NEW g, IsHelper(g), WellNamed(g), At(w, o, Rest(g)),
         Ended(w, Tags, o + Len(Rest(h))), Ended(w, Tags, o + Len(Rest(g))),
         Class(h) = Class(g)
  PROVE  Rest(h) = Rest(g) /\ Meaning(h) = Meaning(g)
  <1>1. CASE Class(h) = "value"
    <2>1. h.form = "value" /\ g.form = "value"
      BY <1>1, ClassCases
    <2>2. ~ Typed(h) /\ ~ Typed(g)
      BY <2>1 DEF Typed
    <2>3. Rest(h) = ValueHash(h) /\ Rest(g) = ValueHash(g)
      BY <2>1 DEF Rest, Typed
    <2>4. /\ At(w, o, ValueHash(h)) /\ Ended(w, Tags, o + Len(ValueHash(h)))
          /\ At(w, o, ValueHash(g)) /\ Ended(w, Tags, o + Len(ValueHash(g)))
      BY <2>3
    <2>5. ValueHash(h) = ValueHash(g) /\ ValueMeant(h) = ValueMeant(g)
      BY <2>2, <2>4, ValueHashesApart
    <2>6. MeaningOf(h) = MeaningOf(g)
      BY <2>2, <2>5 DEF MeaningOf
    <2>7. QED
      BY <2>1, <2>3, <2>5, <2>6, MeaningIs
  <1>2. CASE Class(h) = "field"
    <2>1. h.form = "field" /\ g.form = "field"
      BY <1>2, ClassCases
    <2>2. ~ Typed(h) /\ ~ Typed(g)
      BY <2>1 DEF Typed
    <2>3. /\ Rest(h) = Str(h.name) \o ValueHash(h)
          /\ Rest(g) = Str(g.name) \o ValueHash(g)
      BY <2>1 DEF Rest, Typed
    <2>4. /\ h.name \in Text /\ ValueHash(h) \in Seq(Byte) /\ Str(h.name) \in Seq(Byte)
      BY <2>2, HelperParts, TextBytes, StrBytes, ValueFedType
    <2>5. /\ g.name \in Text /\ ValueHash(g) \in Seq(Byte) /\ Str(g.name) \in Seq(Byte)
      BY <2>2, HelperParts, TextBytes, StrBytes, ValueFedType
    <2> DEFINE a == o + Len(Str(h.name))
    <2>6. At(w, o, Str(h.name)) /\ At(w, a, ValueHash(h))
      BY <2>3, <2>4, AtConcat
    <2>7. At(w, o, Str(g.name)) /\ At(w, o + Len(Str(g.name)), ValueHash(g))
      BY <2>3, <2>5, AtConcat
    <2>8. h.name = g.name
      BY <2>4, <2>5, <2>6, <2>7, AtStr
    <2>9. a \in Nat /\ o + Len(Rest(h)) = a + Len(ValueHash(h))
      BY <2>3, <2>4, LengthsSum
    <2>10. o + Len(Rest(g)) = a + Len(ValueHash(g))
      BY <2>3, <2>5, <2>8, LengthsSum
    <2>11. /\ At(w, a, ValueHash(h)) /\ Ended(w, Tags, a + Len(ValueHash(h)))
           /\ At(w, a, ValueHash(g)) /\ Ended(w, Tags, a + Len(ValueHash(g)))
      BY <2>6, <2>7, <2>8, <2>9, <2>10
    <2> HIDE DEF a
    <2>12. ValueHash(h) = ValueHash(g) /\ ValueMeant(h) = ValueMeant(g)
      BY <2>2, <2>9, <2>11, ValueHashesApart
    <2>13. MeaningOf(h) = MeaningOf(g)
      BY <2>2, <2>12 DEF MeaningOf
    <2>14. QED
      BY <2>1, <2>3, <2>8, <2>12, <2>13, MeaningIs
  <1>3. CASE Class(h) = "bytes"
    <2>1. Typed(h) /\ h.ty = "bytes" /\ Typed(g) /\ g.ty = "bytes"
      BY <1>3, ClassCases
    <2>2. h.v \in Text /\ g.v \in Text
      BY <2>1, HelperParts, TypedValue
    <2>3. Rest(h) = Str(h.v) /\ Rest(g) = Str(g.v)
      BY <2>1 DEF Rest, Typed
    <2>4. h.v = g.v
      BY <2>2, <2>3, AtStr
    <2>5. MeaningOf(h) = MeaningOf(g)
      BY <2>1, <2>4 DEF MeaningOf, ValueMeant
    <2>6. QED
      BY <2>1, <2>3, <2>4, <2>5, MeaningIs DEF Typed
  <1>4. CASE Class(h) = "f32q"
    <2>1. Typed(h) /\ h.ty = "f32q" /\ Typed(g) /\ g.ty = "f32q"
      BY <1>4, ClassCases
    <2>2. h.v \in Int /\ g.v \in Int
      BY <2>1, HelperParts, TypedValue
    <2>3. /\ h.q \in Int /\ -128 <= h.q /\ h.q < 128
          /\ g.q \in Int /\ -128 <= g.q /\ g.q < 128
      BY HelperParts
    <2> DEFINE m == RustQuantize(h.v, h.q)
               n == RustQuantize(g.v, g.q)
    <2>4. IsWord(m) /\ IsWord(n)
      <3>1. h.q \in Int /\ g.q \in Int
        BY <2>3
      <3>2. IsWord(m)
        BY <2>2, <3>1, QuantizeRange
      <3>3. IsWord(n)
        BY <2>2, <3>1, QuantizeRange
      <3>4. QED
        BY <3>2, <3>3
    <2>5. Rest(h) = U32(h.q) \o U64(m) /\ Rest(g) = U32(g.q) \o U64(n)
      BY <2>1 DEF Rest, Typed
    <2> HIDE DEF m, n
    <2>6. /\ U32(h.q) \in Seq(Byte) /\ U64(m) \in Seq(Byte)
          /\ U32(g.q) \in Seq(Byte) /\ U64(n) \in Seq(Byte)
      <3>1. h.q \in Int /\ g.q \in Int /\ m \in Int /\ n \in Int
        BY <2>3, <2>4 DEF IsWord
      <3>2. QED
        BY <3>1, NumberBytes
    <2>7. At(w, o, U32(h.q)) /\ At(w, o + Len(U32(h.q)), U64(m))
      BY <2>5, <2>6, AtConcat
    <2>8. At(w, o, U32(g.q)) /\ At(w, o + Len(U32(g.q)), U64(n))
      BY <2>5, <2>6, AtConcat
    <2>9. U32(h.q) = U32(g.q)
      BY <2>3, <2>7, <2>8, AtWord32
    <2>10. h.q = g.q
      BY <2>3, <2>9, U32Apart
    <2> DEFINE a == o + Len(U32(h.q))
    <2>11. a \in Nat
      BY <2>6
    <2>12. At(w, a, U64(m)) /\ At(w, a, U64(n))
      BY <2>7, <2>8, <2>9
    <2> HIDE DEF a
    <2>13. U64(m) = U64(n)
      BY <2>4, <2>11, <2>12, AtWord DEF IsWord
    <2>14. m = n
      BY <2>4, <2>13, U64Apart DEF IsWord
    <2>15. MeaningOf(h) = MeaningOf(g)
      BY <2>1, <2>10, <2>14 DEF MeaningOf, m, n
    <2>16. Rest(h) = Rest(g)
      BY <2>5, <2>9, <2>13
    <2>17. QED
      BY <2>1, <2>15, <2>16, MeaningIs DEF Typed
  <1>5. CASE Class(h) \in {"u64", "bool", "f32", "f64"}
    <2>1. /\ Typed(h) /\ h.ty \in Scalars /\ Typed(g) /\ g.ty \in Scalars
          /\ Kind(h.ty) = Kind(g.ty)
      BY <1>5, ClassCases
    <2>2. /\ h.ty \in Hashed /\ h.ty \notin {"bytes", "f32q", "struct"}
          /\ g.ty \in Hashed /\ g.ty \notin {"bytes", "f32q", "struct"}
      BY <2>1 DEF Hashed, Scalars, Integer
    <2>3. HasType(h.ty, h.v) /\ HasType(g.ty, g.v)
      BY <2>1, HelperParts
    <2>4. Rest(h) = Body(h.ty, h.v) /\ Rest(g) = Body(g.ty, g.v)
      BY <2>1, <2>2 DEF Rest, Typed
    <2>5. At(w, o, Body(h.ty, h.v)) /\ At(w, o, Body(g.ty, g.v))
      BY <2>4
    <2>6. /\ Body(h.ty, h.v) = Body(g.ty, g.v)
          /\ Meant(h.ty, h.v) = Meant(g.ty, g.v)
      BY <2>1, <2>2, <2>3, <2>5, BodyApart
    <2>7. MeaningOf(h) = MeaningOf(g)
      BY <2>2, <2>6 DEF MeaningOf, ValueMeant
    <2>8. QED
      BY <2>1, <2>4, <2>6, <2>7, MeaningIs DEF Typed
  <1>6. QED
    BY <1>1, <1>2, <1>3, <1>4, <1>5, ClassCases DEF Classes

\* Two helper calls at one place, which both end there as a hash goes on.
LEMMA CallsApart ==
  ASSUME NEW w \in Seq(Byte), NEW o \in Nat,
         NEW h, IsHelper(h), WellNamed(h), At(w, o, RustFed(h)),
         NEW g, IsHelper(g), WellNamed(g), At(w, o, RustFed(g)),
         Ended(w, Tags, o + Len(RustFed(h))), Ended(w, Tags, o + Len(RustFed(g)))
  PROVE  RustFed(h) = RustFed(g) /\ Meaning(h) = Meaning(g)
  <1> DEFINE b == ClassTag[Class(h)]
             c == ClassTag[Class(g)]
  <1>1. /\ Class(h) \in Classes /\ b \in Byte
        /\ Class(g) \in Classes /\ c \in Byte
    BY ClassCases
  <1>2. /\ Rest(h) \in Seq(Byte) /\ RustFed(h) = <<b>> \o Rest(h)
        /\ Rest(g) \in Seq(Byte) /\ RustFed(g) = <<c>> \o Rest(g)
    BY TaggedRest
  <1>3. b = c => Class(h) = Class(g)
    BY <1>1, ClassTagApart
  <1> HIDE DEF b, c
  <1>4. w[o + 1] = b /\ At(w, o + 1, Rest(h))
    <2>1. At(w, o, <<b>> \o Rest(h))
      BY <1>2
    <2>2. QED
      BY <1>1, <1>2, <2>1, AtTagged
  <1>5. w[o + 1] = c /\ At(w, o + 1, Rest(g))
    <2>1. At(w, o, <<c>> \o Rest(g))
      BY <1>2
    <2>2. QED
      BY <1>1, <1>2, <2>1, AtTagged
  <1>6. b = c /\ Class(h) = Class(g)
    BY <1>3, <1>4, <1>5
  <1>7. <<b>> \in Seq(Byte) /\ Len(<<b>>) = 1 /\ o + 1 \in Nat
    BY <1>1
  <1>8. /\ o + Len(RustFed(h)) = (o + 1) + Len(Rest(h))
        /\ o + Len(RustFed(g)) = (o + 1) + Len(Rest(g))
    <2>1. o + Len(<<b>> \o Rest(h)) = (o + Len(<<b>>)) + Len(Rest(h))
      BY <1>2, <1>7, LengthsSum
    <2>2. o + Len(<<b>> \o Rest(g)) = (o + Len(<<b>>)) + Len(Rest(g))
      BY <1>2, <1>7, LengthsSum
    <2>3. QED
      BY <1>2, <1>6, <1>7, <2>1, <2>2
  <1>9. /\ Ended(w, Tags, (o + 1) + Len(Rest(h)))
        /\ Ended(w, Tags, (o + 1) + Len(Rest(g)))
    BY <1>8
  <1>10. Rest(h) = Rest(g) /\ Meaning(h) = Meaning(g)
    BY <1>4, <1>5, <1>6, <1>7, <1>9, RestsApart
  <1>11. QED
    BY <1>2, <1>6, <1>10

(***************************************************************************)
(* Sequences of helper calls: their pieces of a stream are read one by     *)
(* one.                                                                    *)
(***************************************************************************)
Fed(t) == [k \in DOMAIN t |-> RustFed(t[k])]

LEMMA FedFirst ==
  ASSUME NEW h, IsHelper(h)
  PROVE  /\ RustFed(h) \in Seq(Byte) /\ RustFed(h) # <<>> /\ RustFed(h)[1] \in Tags
  <1> DEFINE b == ClassTag[Class(h)]
  <1>1. b \in Byte /\ IsTag(b)
    BY ClassCases
  <1>2. Rest(h) \in Seq(Byte) /\ RustFed(h) = <<b>> \o Rest(h)
    BY TaggedRest
  <1> HIDE DEF b
  <1>3. <<b>> \in Seq(Byte) /\ <<b>> # <<>> /\ <<b>>[1] = b
    BY <1>1
  <1>4. <<b>> \o Rest(h) # <<>> /\ (<<b>> \o Rest(h))[1] = <<b>>[1]
    BY <1>2, <1>3, FirstOf
  <1>5. <<b>> \o Rest(h) \in Seq(Byte)
    BY <1>2, <1>3, ConcatLength
  <1>6. b \in Tags
    BY <1>1 DEF Tags
  <1>7. QED
    BY <1>2, <1>3, <1>4, <1>5, <1>6

LEMMA FedIs ==
  ASSUME NEW t \in Seq(Helpers)
  PROVE  /\ Fed(t) \in Seq(Seq(Byte)) /\ Len(Fed(t)) = Len(t)
         /\ \A k \in 1 .. Len(t) : Fed(t)[k] = RustFed(t[k])
         /\ FlattenSeq(Fed(t)) \in Seq(Byte)
         /\ Begins(Fed(t), Tags)
         /\ Str(Callee) \in Seq(Byte)
         /\ Stream(t) = Str(Callee) \o FlattenSeq(Fed(t))
         /\ Stream(t) \in Seq(Byte)
  <1>1. Len(t) \in Nat /\ DOMAIN t = 1 .. Len(t)
    OBVIOUS
  <1>2. ASSUME NEW k \in 1 .. Len(t)
        PROVE  /\ RustFed(t[k]) \in Seq(Byte) /\ RustFed(t[k]) # <<>>
               /\ RustFed(t[k])[1] \in Tags
    <2>1. t[k] \in Helpers
      OBVIOUS
    <2>2. IsHelper(t[k])
      BY <2>1, ProbeAssumption
    <2>3. QED
      BY <2>2, FedFirst
  <1>3. /\ \A k \in 1 .. Len(t) : Fed(t)[k] = RustFed(t[k])
        /\ Fed(t) \in Seq(Seq(Byte)) /\ Len(Fed(t)) = Len(t)
    BY <1>1, <1>2 DEF Fed
  <1>4. FlattenSeq(Fed(t)) \in Seq(Byte)
    BY <1>3, FlattenType
  <1>5. Begins(Fed(t), Tags)
    BY <1>2, <1>3 DEF Begins
  <1>6. Str(Callee) \in Seq(Byte)
    BY ProbeAssumption, StrBytes
  <1>7. Stream(t) = Str(Callee) \o FlattenSeq(Fed(t))
    BY DEF Stream, Fed
  <1>8. Stream(t) \in Seq(Byte)
    BY <1>4, <1>6, <1>7, ConcatLength
  <1>9. QED
    BY <1>3, <1>4, <1>5, <1>6, <1>7, <1>8

LEMMA HelpersNamed ==
  ASSUME NamesAreNoTags, NEW h \in Helpers
  PROVE  IsHelper(h) /\ WellNamed(h)
  BY ProbeAssumption DEF NamesAreNoTags, WellNamed, ShortNamed

LEMMA SameFed ==
  ASSUME NamesAreNoTags, NEW h \in Helpers, NEW g \in Helpers, RustFed(h) = RustFed(g)
  PROVE  Meaning(h) = Meaning(g)
  <1>1. /\ IsHelper(h) /\ WellNamed(h) /\ IsHelper(g) /\ WellNamed(g)
    BY HelpersNamed
  <1> DEFINE s == RustFed(h)
  <1>2. s \in Seq(Byte)
    BY <1>1, FedFirst
  <1>3. At(s, 0, RustFed(h)) /\ At(s, 0, RustFed(g))
    BY <1>2, AtItself
  <1>4. Ended(s, Tags, 0 + Len(RustFed(h))) /\ Ended(s, Tags, 0 + Len(RustFed(g)))
    <2>1. Len(s) \in Nat
      BY <1>2
    <2>2. 0 + Len(s) = Len(s)
      BY <2>1
    <2>3. Ended(s, Tags, 0 + Len(s))
      BY <2>2 DEF Ended
    <2>4. QED
      BY <2>3
  <1> HIDE DEF s
  <1>5. QED
    BY <1>1, <1>2, <1>3, <1>4, CallsApart

\* Of two sequences of helper calls that feed the same, neither is longer, and
\* each call of one feeds what the call of the other does.
LEMMA CallCount ==
  ASSUME NamesAreNoTags, NEW t \in Seq(Helpers), NEW u \in Seq(Helpers),
         Stream(t) = Stream(u)
  PROVE  /\ Len(t) >= Len(u)
         /\ \A k \in 1 .. Len(t) : k <= Len(u) => RustFed(t[k]) = RustFed(u[k])
  <1> DEFINE p == Fed(t)
             q == Fed(u)
             w == Stream(t)
             x == FlattenSeq(p)
             y == FlattenSeq(q)
             o == Len(Str(Callee))
  <1>1. /\ p \in Seq(Seq(Byte)) /\ Len(p) = Len(t) /\ Begins(p, Tags)
        /\ x \in Seq(Byte) /\ w = Str(Callee) \o x /\ w \in Seq(Byte)
        /\ Str(Callee) \in Seq(Byte)
    BY FedIs
  <1>2. /\ q \in Seq(Seq(Byte)) /\ Len(q) = Len(u) /\ Begins(q, Tags)
        /\ y \in Seq(Byte) /\ w = Str(Callee) \o y
    BY FedIs
  <1>3. /\ \A k \in 1 .. Len(t) : p[k] = RustFed(t[k])
        /\ \A k \in 1 .. Len(u) : q[k] = RustFed(u[k])
    BY FedIs
  <1>4. Len(t) \in Nat /\ Len(u) \in Nat
    OBVIOUS
  <1> HIDE DEF p, q, w
  <1>5. /\ At(w, o, x) /\ At(w, o, y) /\ o \in Nat
        /\ o + Len(x) = Len(w) /\ o + Len(y) = Len(w)
    <2> HIDE DEF x, y
    <2>1. At(w, 0, w)
      BY <1>1, AtItself
    <2>2. At(w, 0, Str(Callee) \o x) /\ At(w, 0, Str(Callee) \o y)
      BY <1>1, <1>2, <2>1
    <2>3. At(w, 0 + o, x)
      BY <1>1, <2>2, AtConcat
    <2>4. At(w, 0 + o, y)
      BY <1>1, <1>2, <2>2, AtConcat
    <2>5. o \in Nat
      BY <1>1
    <2>6. o + Len(x) = Len(w)
      <3>1. Len(Str(Callee) \o x) = Len(Str(Callee)) + Len(x)
        BY <1>1, ConcatLength
      <3>2. QED
        BY <1>1, <3>1
    <2>7. o + Len(y) = Len(w)
      <3>1. Len(Str(Callee) \o y) = Len(Str(Callee)) + Len(y)
        BY <1>1, <1>2, ConcatLength
      <3>2. QED
        BY <1>2, <3>1
    <2> HIDE DEF o
    <2>8. 0 + o = o
      BY <2>5
    <2>9. QED
      BY <2>3, <2>4, <2>5, <2>6, <2>7, <2>8
  <1> HIDE DEF o
  <1>6. Ended(w, Tags, o + Len(x)) /\ Ended(w, Tags, o + Len(y))
    BY <1>5 DEF Ended
  <1>7. Apart(p, q, w, Tags)
    <2>1. ASSUME NEW i \in 1 .. Len(t), i <= Len(u), NEW a \in Nat,
                 At(w, a, p[i]), Ended(w, Tags, a + Len(p[i])),
                 At(w, a, q[i]), Ended(w, Tags, a + Len(q[i]))
          PROVE  p[i] = q[i]
      <3>1. i \in 1 .. Len(u)
        BY <1>4, <2>1
      <3>2. p[i] = RustFed(t[i]) /\ q[i] = RustFed(u[i])
        BY <1>3, <3>1
      <3> DEFINE h == t[i]
                 g == u[i]
      <3>3. h \in Helpers /\ g \in Helpers
        BY <3>1
      <3>4. IsHelper(h) /\ WellNamed(h) /\ IsHelper(g) /\ WellNamed(g)
        BY <3>3, HelpersNamed
      <3>5. /\ At(w, a, RustFed(h)) /\ Ended(w, Tags, a + Len(RustFed(h)))
            /\ At(w, a, RustFed(g)) /\ Ended(w, Tags, a + Len(RustFed(g)))
        BY <2>1, <3>2
      <3> HIDE DEF h, g
      <3>6. RustFed(h) = RustFed(g)
        BY <1>1, <3>4, <3>5, CallsApart
      <3>7. QED
        BY <3>2, <3>6 DEF h, g
    <2>2. QED
      BY <1>1, <1>2, <2>1 DEF Apart
  <1>8. /\ \A i \in 1 .. Len(p) : i <= Len(q) => p[i] = q[i]
        /\ Len(p) < Len(q) => At(w, o + Len(FlattenSeq(p)), q[Len(p) + 1])
    BY <1>1, <1>2, <1>5, <1>6, <1>7, PiecesApart
  <1>9. ASSUME Len(t) < Len(u) PROVE FALSE
    <2> DEFINE i == Len(t) + 1
    <2>1. i \in 1 .. Len(u)
      BY <1>4, <1>9
    <2>2. At(w, Len(w), q[i])
      BY <1>1, <1>2, <1>5, <1>8, <1>9
    <2>3. q[i] \in Seq(Byte) /\ q[i] # <<>>
      <3>1. q[i] \in Seq(Byte)
        BY <1>2, <2>1
      <3>2. QED
        BY <1>2, <2>1, <3>1 DEF Begins
    <2> DEFINE s == q[i]
    <2>4. At(w, Len(w), s) /\ s \in Seq(Byte) /\ s # <<>>
      BY <2>2, <2>3
    <2>5. Len(w) \in Nat
      BY <1>1
    <2> HIDE DEF s, i
    <2>6. Len(w) + 1 <= Len(w)
      BY <1>1, <2>4, <2>5, AtFirst
    <2>7. QED
      BY <2>5, <2>6
  <1>10. \A k \in 1 .. Len(t) : k <= Len(u) => RustFed(t[k]) = RustFed(u[k])
    <2>1. ASSUME NEW k \in 1 .. Len(t), k <= Len(u)
          PROVE  RustFed(t[k]) = RustFed(u[k])
      <3>1. k \in 1 .. Len(u)
        BY <1>4, <2>1
      <3>2. p[k] = q[k]
        BY <1>1, <1>2, <1>8, <2>1
      <3>3. QED
        BY <1>3, <3>1, <3>2
    <2>2. QED
      BY <2>1
  <1>11. Len(t) >= Len(u)
    BY <1>4, <1>9
  <1>12. QED
    BY <1>10, <1>11

\* What feeds the same bytes means the same.
LEMMA StreamsApart ==
  ASSUME NamesAreNoTags, NEW t \in Seq(Helpers), NEW u \in Seq(Helpers),
         Stream(t) = Stream(u)
  PROVE  Meanings(t) = Meanings(u)
  <1>1. /\ Len(t) >= Len(u)
        /\ \A k \in 1 .. Len(t) : k <= Len(u) => RustFed(t[k]) = RustFed(u[k])
    BY CallCount
  <1>2. Len(u) >= Len(t)
    BY CallCount
  <1>3. /\ Len(t) \in Nat /\ Len(u) \in Nat
        /\ DOMAIN t = 1 .. Len(t) /\ DOMAIN u = 1 .. Len(u)
    OBVIOUS
  <1>4. Len(t) = Len(u)
    <2> DEFINE m == Len(t)
               n == Len(u)
    <2>1. m >= n
      BY <1>1
    <2>2. n >= m
      BY <1>2
    <2>3. m \in Nat /\ n \in Nat
      OBVIOUS
    <2> HIDE DEF m, n
    <2>4. m = n
      BY <2>1, <2>2, <2>3
    <2>5. QED
      BY <2>4 DEF m, n
  <1>5. ASSUME NEW k \in 1 .. Len(t) PROVE Meaning(t[k]) = Meaning(u[k])
    <2>1. t[k] \in Helpers /\ u[k] \in Helpers
      BY <1>4
    <2>2. RustFed(t[k]) = RustFed(u[k])
      BY <1>1, <1>3, <1>4
    <2>3. QED
      BY <2>1, <2>2, SameFed
  <1>6. /\ Meanings(t) = [k \in 1 .. Len(t) |-> Meaning(t[k])]
        /\ Meanings(u) = [k \in 1 .. Len(t) |-> Meaning(u[k])]
    BY <1>3, <1>4 DEF Meanings
  <1>7. [k \in 1 .. Len(t) |-> Meaning(t[k])] = [k \in 1 .. Len(t) |-> Meaning(u[k])]
    BY <1>5
  <1>8. QED
    BY <1>6, <1>7

(***************************************************************************)
(* What the streams of a call hold, in any state: the callee, and what the *)
(* helpers called so far have fed.                                         *)
(***************************************************************************)
StreamInv ==
  \A i \in Begun : rust[i].active =>
    \A s \in Sides : rust[i][s].hash = Stream(script[i][s])

\* What the first pieces build does not depend on a piece behind them.
LEMMA BuildsSame ==
  ASSUME NEW p \in Seq(Seq(Byte)), NEW f, Builds(p, f), NEW x \in Seq(Byte),
         NEW g, Builds(Append(p, x), g)
  PROVE  f[Len(p)] = g[Len(p)]
  <1> DEFINE n == Len(p)
             q == Append(p, x)
             Bad == {k \in 0 .. n : f[k] # g[k]}
  <1>1. n \in Nat
    OBVIOUS
  <1>2. Len(q) = n + 1 /\ \A k \in 1 .. n : q[k] = p[k]
    OBVIOUS
  <1>3. f[0] = g[0]
    BY DEF Builds
  <1> HIDE DEF q
  <1>4. ASSUME NEW k \in 1 .. n
        PROVE  f[k] = f[k - 1] \o p[k] /\ g[k] = g[k - 1] \o p[k]
    <2>1. k \in 1 .. Len(q)
      BY <1>1, <1>2
    <2>2. g[k] = g[k - 1] \o q[k]
      BY <2>1 DEF Builds, q
    <2>3. f[k] = f[k - 1] \o p[k]
      BY DEF Builds
    <2>4. QED
      BY <1>2, <2>2, <2>3
  <1>5. Bad = {}
    <2>1. SUFFICES ASSUME Bad # {} PROVE FALSE
      OBVIOUS
    <2>2. PICK k \in Bad : \A m \in Bad : k <= m
      <3>1. Bad \in SUBSET Nat
        BY <1>1
      <3> HIDE DEF Bad
      <3>2. QED
        BY <2>1, <3>1, LeastOf
    <2>3. k \in 0 .. n /\ f[k] # g[k]
      OBVIOUS
    <2>4. k # 0
      BY <1>3, <2>3
    <2>5. k \in 1 .. n /\ k - 1 \in 0 .. n /\ ~(k <= k - 1)
      BY <1>1, <2>3, <2>4
    <2>6. f[k - 1] = g[k - 1]
      BY <2>2, <2>5
    <2>7. QED
      BY <1>4, <2>3, <2>5, <2>6
  <1>6. n \in 0 .. n
    BY <1>1
  <1>7. QED
    BY <1>5, <1>6

LEMMA FlattenGrows ==
  ASSUME NEW p \in Seq(Seq(Byte)), NEW x \in Seq(Byte)
  PROVE  FlattenSeq(Append(p, x)) = FlattenSeq(p) \o x
  <1> DEFINE q == Append(p, x)
             n == Len(p)
  <1>1. q \in Seq(Seq(Byte)) /\ Len(q) = n + 1 /\ q[n + 1] = x /\ n \in Nat
    OBVIOUS
  <1>2. PICK f : Builds(p, f)
    BY BuildsExists
  <1>3. PICK g : Builds(q, g)
    BY <1>1, BuildsExists
  <1>4. f[n] = g[n]
    BY <1>2, <1>3, BuildsSame
  <1>5. f[n] = FlattenSeq(p)
    BY <1>2 DEF Builds
  <1> HIDE DEF q, n
  <1>6. g[n + 1] = FlattenSeq(q)
    BY <1>1, <1>3 DEF Builds
  <1>7. g[n + 1] = g[n] \o x
    <2>1. n + 1 \in 1 .. Len(q) /\ (n + 1) - 1 = n
      BY <1>1
    <2>2. g[n + 1] = g[(n + 1) - 1] \o q[n + 1]
      BY <1>3, <2>1 DEF Builds
    <2>3. QED
      BY <1>1, <2>1, <2>2
  <1>8. QED
    BY <1>4, <1>5, <1>6, <1>7 DEF q

\* One more helper is called.
LEMMA StreamGrows ==
  ASSUME NEW t \in Seq(Helpers), NEW h \in Helpers
  PROVE  Stream(Append(t, h)) = Stream(t) \o RustFed(h)
  <1> DEFINE u == Append(t, h)
             n == Len(t)
             x == RustFed(h)
  <1>1. /\ u \in Seq(Helpers) /\ n \in Nat /\ DOMAIN u = 1 .. n + 1
        /\ DOMAIN t = 1 .. n /\ u[n + 1] = h /\ \A k \in 1 .. n : u[k] = t[k]
    OBVIOUS
  <1>2. x \in Seq(Byte)
    BY ProbeAssumption, RustFedType
  <1>3. /\ Fed(t) \in Seq(Seq(Byte)) /\ Len(Fed(t)) = n
        /\ FlattenSeq(Fed(t)) \in Seq(Byte) /\ Str(Callee) \in Seq(Byte)
        /\ Stream(t) = Str(Callee) \o FlattenSeq(Fed(t))
    BY FedIs
  <1>4. Stream(u) = Str(Callee) \o FlattenSeq(Fed(u))
    BY <1>1, FedIs
  <1>5. Fed(u) = Append(Fed(t), x)
    <2>1. Fed(u) = [k \in 1 .. n + 1 |-> RustFed(u[k])]
      BY <1>1 DEF Fed
    <2>2. Fed(t) = [k \in 1 .. n |-> RustFed(t[k])]
      BY <1>1 DEF Fed
    <2>3. Append(Fed(t), x) = [k \in 1 .. n + 1 |-> IF k = n + 1 THEN x ELSE Fed(t)[k]]
      <3>1. DOMAIN Fed(t) = 1 .. n /\ Fed(t) = [k \in 1 .. n |-> Fed(t)[k]]
        BY <2>2
      <3> HIDE DEF n, x
      <3>2. QED
        BY <1>1, <3>1, AppendIs
    <2>4. \A k \in 1 .. n + 1 : RustFed(u[k]) = IF k = n + 1 THEN x ELSE Fed(t)[k]
      <3>1. ASSUME NEW k \in 1 .. n + 1, k # n + 1
            PROVE  RustFed(u[k]) = Fed(t)[k]
        <4>1. k \in 1 .. n
          BY <1>1, <3>1
        <4>2. u[k] = t[k]
          BY <1>1, <4>1
        <4>3. Fed(t)[k] = RustFed(t[k])
          BY <2>2, <4>1
        <4>4. QED
          BY <4>2, <4>3
      <3>2. RustFed(u[n + 1]) = x
        BY <1>1
      <3>3. QED
        BY <3>1, <3>2
    <2>5. [k \in 1 .. n + 1 |-> RustFed(u[k])]
            = [k \in 1 .. n + 1 |-> IF k = n + 1 THEN x ELSE Fed(t)[k]]
      <3> HIDE DEF u, x, n
      <3>1. QED
        BY <2>4
    <2>6. QED
      BY <2>1, <2>3, <2>5
  <1> HIDE DEF u, x
  <1>6. FlattenSeq(Fed(u)) = FlattenSeq(Fed(t)) \o x
    BY <1>2, <1>3, <1>5, FlattenGrows
  <1> DEFINE a == Str(Callee)
             b == FlattenSeq(Fed(t))
  <1>7. a \in Seq(Byte) /\ b \in Seq(Byte)
    BY <1>3
  <1>8. Stream(u) = a \o (b \o x) /\ Stream(t) = a \o b
    BY <1>3, <1>4, <1>6
  <1> HIDE DEF a, b
  <1>9. (a \o b) \o x = a \o (b \o x)
    BY <1>2, <1>7, Concat3
  <1>10. QED
    BY <1>8, <1>9 DEF u, x

LEMMA EmptyStream == Stream(<<>>) = Str(Callee)
  <1>1. Fed(<<>>) = <<>>
    BY DEF Fed
  <1>2. <<>> \in Seq(Helpers)
    OBVIOUS
  <1>3. Stream(<<>>) = Str(Callee) \o FlattenSeq(Fed(<<>>)) /\ Str(Callee) \in Seq(Byte)
    BY <1>2, FedIs
  <1>4. FlattenSeq(<<>>) = <<>>
    BY DEF FlattenSeq
  <1>5. QED
    BY <1>1, <1>3, <1>4

\* A Call whose hashes are those of its script, and a helper called.
LEMMA HashStep ==
  ASSUME NEW c, NEW on, IsCall(c, on), c.active, NEW h \in Helpers,
         NEW t \in Scripts, \A s \in Sides : c[s].hash = Stream(t[s]),
         NEW u, u[h.side] = Append(t[h.side], h),
         \A s \in Sides : s # h.side => u[s] = t[s],
         NEW s \in Sides
  PROVE  RustHelper(c, h)[s].hash = Stream(u[s])
  <1>1. IsHelper(h) /\ h.side \in Sides
    BY ProbeAssumption DEF IsHelper
  <1>2. Active /\ c["in"] = c.in /\ c["out"] = c.out
    BY CallShape
  <1> DEFINE st == RustStream(c[h.side], h)
             d == Updated(c, h.side, st, RustValues(c, h))
  <1>3. RustHelper(c, h) = d
    BY <1>1, <1>2, RustHelperIs
  <1>4. st.hash = c[h.side].hash \o RustFed(h)
    BY DEF RustStream
  <1> HIDE DEF st
  <1>5. d[s] = IF s = h.side THEN st ELSE c[s]
    BY <1>1, <1>2 DEF Updated, Sides
  <1> HIDE DEF d
  <1>6. CASE s = h.side
    <2>1. t[s] \in Seq(Helpers)
      BY ScriptIs
    <2>2. Stream(Append(t[s], h)) = Stream(t[s]) \o RustFed(h)
      BY <2>1, StreamGrows
    <2>3. QED
      BY <1>3, <1>4, <1>5, <1>6, <2>2
  <1>7. CASE s # h.side
    BY <1>3, <1>5, <1>7
  <1>8. QED
    BY <1>6, <1>7

LEMMA StreamInit == Init => StreamInv
  BY DEF Init, StreamInv, Begun

\* What lets go of an object leaves the Call of a script, or drops it.
LEMMA DropStreams ==
  ASSUME TypeOK, StreamInv, script' = script, NEW o \in Objects,
         rust' = rust \/ rust' = RustDrop(o)
  PROVE  StreamInv'
  <1>1. rust = [i \in Begun |-> rust[i]] /\ Begun' = Begun
    BY TypeParts DEF Begun
  <1>2. ASSUME NEW i \in Begun PROVE rust'[i] = rust[i] \/ rust'[i] = NoCall
    <2>1. CASE rust' = rust
      BY <2>1
    <2>2. CASE rust' = RustDrop(o)
      BY <1>1, <2>2 DEF RustDrop
    <2>3. QED
      BY <2>1, <2>2
  <1>3. ~NoCall.active
    BY DEF NoCall
  <1>4. ASSUME NEW i \in Begun', rust'[i].active, NEW s \in Sides
        PROVE  rust'[i][s].hash = Stream(script'[i][s])
    <2>1. i \in Begun
      BY <1>1, <1>4
    <2>2. rust'[i] = rust[i]
      BY <1>2, <1>3, <1>4, <2>1
    <2>3. rust[i][s].hash = Stream(script[i][s])
      BY <1>4, <2>1, <2>2 DEF StreamInv
    <2>4. QED
      BY <2>2, <2>3
  <1>5. QED
    BY <1>4 DEF StreamInv

LEMMA BeginStreams ==
  ASSUME TypeOK, StreamInv, NEW o \in Objects, Begin(o)
  PROVE  StreamInv'
  <1> DEFINE n == Len(script) + 1
             empty == [s \in Sides |-> <<>>]
  <1>1. /\ Len(script) \in Nat /\ Begun = 1 .. Len(script)
        /\ script = [i \in 1 .. Len(script) |-> script[i]]
        /\ rust = [i \in 1 .. Len(script) |-> rust[i]]
        /\ DOMAIN rust = 1 .. Len(script)
    BY TypeParts
  <1>2. /\ rust' = Append(rust, RustNew) /\ script' = Append(script, empty)
        /\ program' = program
    BY DEF Begin
  <1> HIDE DEF empty
  <1>3. rust' = [i \in 1 .. n |-> IF i = n THEN RustNew ELSE rust[i]]
    BY <1>1, <1>2, AppendIs
  <1>4. script' = [i \in 1 .. n |-> IF i = n THEN empty ELSE script[i]]
    BY <1>1, <1>2, AppendIs
  <1>5. Begun' = 1 .. n
    BY <1>4 DEF Begun
  <1>6. ASSUME NEW i \in Begun', rust'[i].active, NEW s \in Sides
        PROVE  rust'[i][s].hash = Stream(script'[i][s])
    <2>1. CASE i = n
      <3>1. i \in 1 .. n
        BY <1>5, <1>6
      <3>2. rust'[i] = RustNew /\ script'[i] = empty
        BY <1>3, <1>4, <2>1, <3>1
      <3>3. empty[s] = <<>>
        BY DEF empty
      <3>4. RustNew.active = Active
        BY DEF RustNew
      <3>5. RustNew[s] = Started(Active)
        BY DEF RustNew, Sides
      <3>6. RustNew[s].hash = Str(Callee)
        BY <1>6, <3>2, <3>4, <3>5 DEF Started
      <3>7. QED
        BY <3>2, <3>3, <3>6, EmptyStream
    <2>2. CASE i # n
      <3>1. i \in 1 .. n /\ i \in 1 .. Len(script)
        BY <1>1, <1>5, <1>6, <2>2
      <3>2. rust'[i] = rust[i] /\ script'[i] = script[i]
        BY <1>3, <1>4, <2>2, <3>1
      <3>3. rust[i][s].hash = Stream(script[i][s])
        BY <1>1, <1>6, <3>1, <3>2 DEF StreamInv
      <3>4. QED
        BY <3>2, <3>3
    <2>3. QED
      BY <2>1, <2>2
  <1>7. QED
    BY <1>6 DEF StreamInv

LEMMA HelpStreams ==
  ASSUME TypeOK, StreamInv, CallsInv, NEW o \in Objects, NEW h \in Helpers, Help(o, h)
  PROVE  StreamInv'
  <1> DEFINE id == objects[o].id
             t == script[id]
             c == rust[id]
             grown == [t EXCEPT ![h.side] = Append(@, h)]
  <1>1. /\ Open(o) /\ rust' = [rust EXCEPT ![id] = RustHelper(@, h)]
        /\ script' = [script EXCEPT ![id] = grown]
    BY DEF Help
  <1>2. /\ Begun = 1 .. Len(script)
        /\ script = [i \in Begun |-> script[i]] /\ rust = [i \in Begun |-> rust[i]]
        /\ id \in Begun /\ script[id] \in Scripts
        /\ IsCall(rust[id], program.tsv /\ program.values)
    BY <1>1, TypeParts DEF CallsInv
  <1>3. h.side \in Sides
    BY ProbeAssumption DEF IsHelper
  <1>4. t \in Scripts
    BY <1>2
  <1> HIDE DEF t, id
  <1>5. /\ grown \in Scripts /\ grown[h.side] = Append(t[h.side], h)
        /\ \A s \in Sides : s # h.side => grown[s] = t[s]
    BY <1>3, <1>4, ScriptGrows
  <1> HIDE DEF grown, c
  <1>6. /\ Begun' = Begun
        /\ rust'[id] = RustHelper(c, h) /\ script'[id] = grown
        /\ \A i \in Begun : i # id => rust'[i] = rust[i] /\ script'[i] = script[i]
    <2>1. Begun' = Begun
      BY <1>1 DEF Begun
    <2>2. /\ script'[id] = grown
          /\ \A i \in Begun : i # id => script'[i] = script[i]
      BY <1>1, <1>2
    <2>3. /\ rust'[id] = RustHelper(c, h)
          /\ \A i \in Begun : i # id => rust'[i] = rust[i]
      BY <1>1, <1>2 DEF c
    <2>4. QED
      BY <2>1, <2>2, <2>3
  <1>7. ASSUME NEW i \in Begun, rust'[i].active, NEW s \in Sides
        PROVE  rust'[i][s].hash = Stream(script'[i][s])
    <2>1. CASE i = id
      <3>1. RustHelper(c, h).active
        BY <1>6, <1>7, <2>1
      <3>2. IsCall(RustHelper(c, h), program.tsv /\ program.values)
        BY <1>2, RustHelperType DEF c
      <3>3. RustHelper(c, h).active = Active
        BY <3>2, CallShape
      <3>4. c.active = Active
        BY <1>2, CallShape DEF c
      <3>5. c.active
        BY <3>1, <3>3, <3>4
      <3>6. \A r \in Sides : c[r].hash = Stream(t[r])
        BY <1>2, <3>5 DEF StreamInv, c, t
      <3>7. IsCall(c, program.tsv /\ program.values)
        BY <1>2 DEF c
      <3>8. RustHelper(c, h)[s].hash = Stream(grown[s])
        BY <1>4, <1>5, <3>5, <3>6, <3>7, HashStep
      <3>9. QED
        BY <1>6, <2>1, <3>8
    <2>2. CASE i # id
      BY <1>6, <1>7, <2>2 DEF StreamInv
    <2>3. QED
      BY <2>1, <2>2
  <1>8. QED
    BY <1>6, <1>7 DEF StreamInv

LEMMA StreamStep ==
  ASSUME IInv, StreamInv, [Next]_vars
  PROVE  StreamInv'
  <1>1. TypeOK /\ CallsInv
    BY DEF IInv
  <1>2. CASE UNCHANGED vars
    <2>1. rust' = rust /\ Begun' = Begun /\ script' = script
      BY <1>2 DEF vars, Begun
    <2>2. QED
      BY <2>1 DEF StreamInv
  <1>3. ASSUME NEW o \in Objects, Begin(o) PROVE StreamInv'
    BY <1>1, <1>3, BeginStreams
  <1>4. ASSUME NEW o \in Objects, NEW h \in Helpers, Help(o, h) PROVE StreamInv'
    BY <1>1, <1>4, HelpStreams
  <1>5. ASSUME NEW o \in Objects, Finish(o) \/ Destroy(o) PROVE StreamInv'
    <2>1. script' = script /\ rust' = RustDrop(o)
      BY <1>5 DEF Finish, Destroy
    <2>2. QED
      BY <1>1, <2>1, DropStreams
  <1>6. ASSUME NEW o \in Objects, NEW p \in Objects,
               MoveConstruct(o, p) \/ MoveAssign(o, p)
        PROVE  StreamInv'
    <2>1. script' = script /\ (rust' = rust \/ rust' = RustDrop(p))
      BY <1>6 DEF MoveConstruct, MoveAssign
    <2>2. QED
      BY <1>1, <2>1, DropStreams
  <1>7. QED
    BY <1>2, <1>3, <1>4, <1>5, <1>6 DEF Next

LEMMA StreamInvHolds == Spec => []StreamInv
  <1>1. IInv /\ StreamInv /\ [Next]_vars => StreamInv'
    BY StreamStep
  <1>2. QED
    BY <1>1, InvHolds, StreamInit, PTL DEF Spec

LEMMA TableRow ==
  ASSUME NEW row \in Table
  PROVE  \E t \in Seq(Helpers) : row = <<Stream(t), Meanings(t)>>
  <1>1. PICK p \in Programs : \E t \in SeqOf(Helpers, p.feeds) :
                                row = <<Stream(t), Meanings(t)>>
    BY DEF Table
  <1>2. PICK t \in SeqOf(Helpers, p.feeds) : row = <<Stream(t), Meanings(t)>>
    BY <1>1
  <1>3. p.feeds \in Nat
    BY ProbeAssumption
  <1>4. t \in Seq(Helpers)
    BY <1>2, <1>3 DEF SeqOf
  <1>5. QED
    BY <1>2, <1>4

(***************************************************************************)
(* Nothing can pass for something else in a hash (src/src/lib.rs:207-691): *)
(* any sequence of helper calls of any length that feeds what a call was   *)
(* fed means the same, unless the name of a hashed struct or of a field of *)
(* one has a length whose low byte is a tag.                               *)
(***************************************************************************)
THEOREM StreamsHold ==
  ASSUME NamesAreNoTags
  PROVE  Spec => []StreamsTellApart
  <1>1. ASSUME TypeOK, StreamInv PROVE StreamsTellApart
    <2>1. ASSUME NEW i \in Begun, NEW s \in Sides, rust[i].active,
                 NEW row \in Table, row[1] = rust[i][s].hash
          PROVE  row[2] = Meanings(script[i][s])
      <3>1. rust[i][s].hash = Stream(script[i][s])
        BY <1>1, <2>1 DEF StreamInv
      <3>2. PICK t \in Seq(Helpers) : row = <<Stream(t), Meanings(t)>>
        BY <2>1, TableRow
      <3>3. row[1] = Stream(t) /\ row[2] = Meanings(t)
        BY <3>2
      <3>4. script[i] \in Scripts
        BY <1>1, TypeParts
      <3> DEFINE u == script[i][s]
      <3>5. u \in Seq(Helpers)
        BY <3>4, ScriptIs
      <3>6. Stream(t) = Stream(u)
        BY <2>1, <3>1, <3>3
      <3> HIDE DEF u
      <3>7. Meanings(t) = Meanings(u)
        BY <3>5, <3>6, StreamsApart
      <3>8. QED
        BY <3>3, <3>7 DEF u
    <2>2. QED
      BY <1>1, <2>1 DEF StreamsTellApart, StreamInv
  <1>2. TypeOK /\ StreamInv => StreamsTellApart
    BY <1>1
  <1>3. QED
    BY <1>2, TypeHolds, StreamInvHolds, PTL

(***************************************************************************)
(* What parse_named_fields finds.  It is a function over the tokens read.  *)
(***************************************************************************)
Parses(body, n, f) ==
  f = [i \in 0 .. n |-> IF i = 0 THEN NoFields ELSE FieldToken(f[i - 1], body[i])]

LEMMA ParsesAt ==
  ASSUME NEW body, NEW n \in Nat, NEW f, Parses(body, n, f)
  PROVE  /\ f[0] = NoFields
         /\ \A i \in 1 .. n : f[i] = FieldToken(f[i - 1], body[i])
  <1>1. \A i \in 0 .. n : f[i] = IF i = 0 THEN NoFields ELSE FieldToken(f[i - 1], body[i])
    BY DEF Parses
  <1>2. 0 \in 0 .. n /\ \A i \in 1 .. n : i \in 0 .. n /\ i # 0
    OBVIOUS
  <1>3. QED
    BY <1>1, <1>2

LEMMA ParsesExists ==
  ASSUME NEW body, NEW n \in Nat
  PROVE  \E f : Parses(body, n, f)
  <1> DEFINE Bad == {k \in Nat : ~ \E f : Parses(body, k, f)}
  <1>1. SUFFICES Bad = {}
    OBVIOUS
  <1>2. SUFFICES ASSUME Bad # {} PROVE FALSE
    OBVIOUS
  <1>3. PICK k \in Bad : \A m \in Bad : k <= m
    <2>1. Bad \in SUBSET Nat
      OBVIOUS
    <2> HIDE DEF Bad
    <2>2. QED
      BY <1>2, <2>1, LeastOf
  <1>4. k \in Nat /\ ~ \E f : Parses(body, k, f)
    OBVIOUS
  <1>5. k # 0
    <2> DEFINE f == [i \in 0 .. 0 |-> NoFields]
    <2>1. \A i \in 0 .. 0 : i = 0
      OBVIOUS
    <2>2. Parses(body, 0, f)
      BY <2>1 DEF Parses
    <2>3. QED
      BY <1>4, <2>2
  <1>6. PICK g : Parses(body, k - 1, g)
    <2>1. k - 1 \in Nat /\ k - 1 \notin Bad
      BY <1>3, <1>4, <1>5
    <2>2. QED
      BY <2>1
  <1>7. /\ g[0] = NoFields
        /\ \A i \in 1 .. k - 1 : g[i] = FieldToken(g[i - 1], body[i])
    <2>1. k - 1 \in Nat
      BY <1>4, <1>5
    <2> HIDE DEF Bad
    <2>2. QED
      BY <1>6, <2>1, ParsesAt
  <1> DEFINE f == [i \in 0 .. k |-> IF i = k THEN FieldToken(g[i - 1], body[i]) ELSE g[i]]
  <1>8. Parses(body, k, f)
    <2>1. f[0] = NoFields
      BY <1>4, <1>5, <1>7
    <2>2. ASSUME NEW i \in 1 .. k PROVE f[i] = FieldToken(f[i - 1], body[i])
      <3>1. i - 1 \in 0 .. k /\ i - 1 # k
        BY <1>4
      <3>2. f[i - 1] = g[i - 1]
        BY <3>1
      <3>3. CASE i = k
        BY <1>4, <3>2, <3>3
      <3>4. CASE i # k
        <4>1. i \in 1 .. k - 1
          BY <1>4, <3>4
        <4>2. f[i] = g[i]
          BY <3>4
        <4>3. QED
          BY <1>7, <3>2, <4>1, <4>2
      <3>5. QED
        BY <3>3, <3>4
    <2>3. f = [i \in 0 .. k |-> f[i]]
      OBVIOUS
    <2> HIDE DEF f
    <2>4. \A i \in 0 .. k :
            f[i] = IF i = 0 THEN NoFields ELSE FieldToken(f[i - 1], body[i])
      <3>1. \A i \in 0 .. k : i = 0 \/ i \in 1 .. k
        BY <1>4
      <3>2. QED
        BY <2>1, <2>2, <3>1
    <2>5. QED
      BY <2>3, <2>4 DEF Parses
  <1>9. QED
    BY <1>4, <1>8

LEMMA ParseIs ==
  ASSUME NEW body, Len(body) \in Nat
  PROVE  \E f : Parses(body, Len(body), f) /\ ParseNamedFields(body) = f[Len(body)]
  <1> DEFINE D(f) == Parses(body, Len(body), f)
  <1>1. ParseNamedFields(body) = (CHOOSE f : D(f))[Len(body)]
    BY Zenon DEF ParseNamedFields, Parses
  <1>2. D(CHOOSE f : D(f))
    <2>1. \E f : D(f)
      BY ParsesExists
    <2> HIDE DEF D
    <2>2. QED
      BY <2>1
  <1>3. QED
    BY <1>1, <1>2

\* A turn of the loop, by the fields of the state.
IsState(st) ==
  st = [fields |-> st.fields, candidate |-> st.candidate,
        before_colon |-> st.before_colon, failed |-> st.failed]

LEMMA TurnFailed ==
  ASSUME NEW st, IsState(st), st.failed, NEW tok
  PROVE  FieldToken(st, tok) = st
  BY DEF FieldToken

LEMMA TurnColon ==
  ASSUME NEW st, IsState(st), ~st.failed, NEW u, u = FieldToken(st, Colon)
  PROVE  /\ IsState(u) /\ (u.failed <=> st.candidate = <<>>) /\ u.candidate = <<>>
         /\ u.fields = st.fields \o st.candidate /\ u.before_colon = FALSE
  <1>1. DOMAIN st = {"fields", "candidate", "before_colon", "failed"}
    BY DEF IsState
  <1>2. Colon.kind # "ident"
    BY DEF Colon, Punct
  <1>3. u = [st EXCEPT !.failed = st.candidate = <<>>, !.candidate = <<>>,
                      !.fields = @ \o st.candidate, !.before_colon = FALSE]
    BY <1>2 DEF FieldToken
  <1>4. QED
    BY <1>1, <1>3 DEF IsState

LEMMA TurnComma ==
  ASSUME NEW st, IsState(st), ~st.failed, NEW u, u = FieldToken(st, Comma)
  PROVE  /\ IsState(u) /\ ~ u.failed /\ u.candidate = <<>>
         /\ u.fields = st.fields /\ u.before_colon = TRUE
  <1>1. DOMAIN st = {"fields", "candidate", "before_colon", "failed"}
    BY DEF IsState
  <1>2. Comma.kind # "ident" /\ Comma # Colon
    BY DEF Colon, Comma, Punct
  <1>3. u = [st EXCEPT !.candidate = <<>>, !.before_colon = TRUE]
    BY <1>2 DEF FieldToken
  <1>4. QED
    BY <1>1, <1>3 DEF IsState

LEMMA TurnName ==
  ASSUME NEW st, IsState(st), ~st.failed, NEW tok,
         tok.kind = "ident", st.before_colon, tok # Pub, NEW u, u = FieldToken(st, tok)
  PROVE  /\ IsState(u) /\ ~ u.failed /\ u.candidate = <<tok.text>>
         /\ u.fields = st.fields /\ u.before_colon
  <1>1. DOMAIN st = {"fields", "candidate", "before_colon", "failed"}
    BY DEF IsState
  <1>2. u = [st EXCEPT !.candidate = <<tok.text>>]
    BY DEF FieldToken
  <1>3. QED
    BY <1>1, <1>2 DEF IsState

LEMMA TurnOther ==
  ASSUME NEW st, IsState(st), ~st.failed, NEW tok, tok # Colon, tok # Comma,
         ~(tok.kind = "ident" /\ st.before_colon /\ tok # Pub)
  PROVE  FieldToken(st, tok) = st
  BY DEF FieldToken

LEMMA TurnType ==
  ASSUME NEW st, IsState(st), NEW tok
  PROVE  IsState(FieldToken(st, tok))
  <1>1. CASE st.failed
    BY <1>1, TurnFailed
  <1>2. CASE ~st.failed /\ tok = Colon
    BY <1>2, TurnColon
  <1>3. CASE ~st.failed /\ tok = Comma
    BY <1>3, TurnComma
  <1>4. CASE ~st.failed /\ tok.kind = "ident" /\ st.before_colon /\ tok # Pub
    BY <1>4, TurnName
  <1>5. CASE /\ ~st.failed /\ tok # Colon /\ tok # Comma
             /\ ~(tok.kind = "ident" /\ st.before_colon /\ tok # Pub)
    BY <1>5, TurnOther
  <1>6. QED
    BY <1>1, <1>2, <1>3, <1>4, <1>5

\* Every state of the loop is one.
LEMMA StatesAll ==
  ASSUME NEW body, NEW n \in Nat, NEW f, Parses(body, n, f)
  PROVE  \A i \in 0 .. n : IsState(f[i])
  <1> DEFINE Bad == {i \in 0 .. n : ~ IsState(f[i])}
  <1>1. SUFFICES ASSUME Bad # {} PROVE FALSE
    OBVIOUS
  <1>2. PICK k \in Bad : \A m \in Bad : k <= m
    <2>1. Bad \in SUBSET Nat
      OBVIOUS
    <2> HIDE DEF Bad
    <2>2. QED
      BY <1>1, <2>1, LeastOf
  <1>3. k \in 0 .. n /\ ~ IsState(f[k])
    OBVIOUS
  <1>4. f[0] = NoFields /\ \A i \in 1 .. n : f[i] = FieldToken(f[i - 1], body[i])
    <2> HIDE DEF Bad
    <2>1. QED
      BY ParsesAt
  <1>5. IsState(NoFields)
    BY DEF IsState, NoFields
  <1>6. k # 0
    <2> HIDE DEF Bad
    <2>1. QED
      BY <1>3, <1>4, <1>5
  <1>7. k \in 1 .. n /\ k - 1 \in 0 .. n /\ ~(k <= k - 1)
    BY <1>3, <1>6
  <1>8. IsState(f[k - 1])
    BY <1>2, <1>7
  <1> HIDE DEF Bad
  <1>9. IsState(FieldToken(f[k - 1], body[k]))
    BY <1>8, TurnType
  <1>10. QED
    BY <1>3, <1>4, <1>7, <1>9

\* An error is final.
LEMMA FailedLasts ==
  ASSUME NEW body, NEW n \in Nat, NEW f, Parses(body, n, f),
         NEW i \in 0 .. n, f[i].failed
  PROVE  f[n].failed
  <1> DEFINE Bad == {k \in i .. n : ~ f[k].failed}
  <1>1. SUFFICES ASSUME Bad # {} PROVE FALSE
    <2>1. n \in i .. n
      OBVIOUS
    <2>2. QED
      BY <2>1
  <1>2. PICK k \in Bad : \A m \in Bad : k <= m
    <2>1. Bad \in SUBSET Nat
      OBVIOUS
    <2> HIDE DEF Bad
    <2>2. QED
      BY <1>1, <2>1, LeastOf
  <1>3. k \in i .. n /\ ~ f[k].failed
    OBVIOUS
  <1>4. k # i
    BY <1>3
  <1>5. k - 1 \in i .. n /\ ~(k <= k - 1) /\ k \in 1 .. n /\ k - 1 \in 0 .. n
    BY <1>3, <1>4
  <1>6. f[k - 1].failed
    BY <1>2, <1>5
  <1> HIDE DEF Bad
  <1>7. f[k] = FieldToken(f[k - 1], body[k]) /\ IsState(f[k - 1])
    BY <1>5, ParsesAt, StatesAll
  <1>8. FieldToken(f[k - 1], body[k]) = f[k - 1]
    BY <1>6, <1>7, TurnFailed
  <1>9. QED
    BY <1>3, <1>6, <1>7, <1>8

\* A path in a body is an error.
LEMMA PathFails ==
  ASSUME NEW body, NEW n \in Nat, NEW f, Parses(body, n, f),
         NEW k \in 1 .. n - 1, body[k] = Colon, body[k + 1] = Colon
  PROVE  f[n].failed
  <1>1. /\ k \in 1 .. n /\ k + 1 \in 1 .. n /\ k - 1 \in 0 .. n
        /\ k \in 0 .. n /\ k + 1 \in 0 .. n /\ (k + 1) - 1 = k
    OBVIOUS
  <1>2. /\ f[k] = FieldToken(f[k - 1], Colon) /\ f[k + 1] = FieldToken(f[k], Colon)
        /\ IsState(f[k - 1]) /\ IsState(f[k])
    BY <1>1, ParsesAt, StatesAll
  <1>3. f[k].failed \/ f[k].candidate = <<>>
    <2>1. CASE f[k - 1].failed
      BY <1>2, <2>1, TurnFailed
    <2>2. CASE ~ f[k - 1].failed
      BY <1>2, <2>2, TurnColon
    <2>3. QED
      BY <2>1, <2>2
  <1>4. CASE f[k].failed
    BY <1>1, <1>4, FailedLasts
  <1>5. CASE ~ f[k].failed
    <2>1. f[k + 1].failed
      BY <1>2, <1>3, <1>5, TurnColon
    <2>2. QED
      BY <1>1, <2>1, FailedLasts
  <1>6. QED
    BY <1>4, <1>5

(***************************************************************************)
(* A body without a path: at says where the names are, and no colon is but *)
(* behind a name.                                                          *)
(***************************************************************************)
Places(body, n, names, m, at) ==
  /\ \A k \in 1 .. m : /\ at[k] \in 1 .. n - 1
                       /\ body[at[k]] = Ident(names[k]) /\ body[at[k]] # Pub
                       /\ body[at[k] + 1] = Colon
  /\ \A k \in 1 .. m, j \in 1 .. m :
       k < j => \E i \in at[k] + 2 .. at[j] - 1 : body[i] = Comma
  /\ \A i \in 1 .. n : body[i] = Colon => \E k \in 1 .. m : i = at[k] + 1

\* Behind i tokens: l names have had their colons and are found; a name just
\* read is the candidate; and who is not before a colon is in the type of a
\* field, no comma seen.
Found(body, names, m, at, i, st, l) ==
  /\ IsState(st) /\ ~ st.failed
  /\ l \in 0 .. m /\ st.fields = [j \in 1 .. l |-> names[j]]
  /\ \A j \in 1 .. m : j <= l <=> at[j] + 1 <= i
  /\ \A j \in 1 .. m : at[j] = i => st.candidate = <<names[j]>>
  /\ ~ st.before_colon =>
       \E j \in 1 .. m : /\ at[j] + 1 <= i
                         /\ \A p \in at[j] + 2 .. i : body[p] # Comma

LEMMA PlacesAscend ==
  ASSUME NEW body, NEW n \in Nat, NEW names, NEW m \in Nat, NEW at,
         Places(body, n, names, m, at), NEW k \in 1 .. m, NEW j \in 1 .. m, k < j
  PROVE  at[k] + 2 < at[j]
  <1>1. at[k] \in Int /\ at[j] \in Int
    BY DEF Places
  <1>2. PICK i \in at[k] + 2 .. at[j] - 1 : body[i] = Comma
    BY DEF Places
  <1>3. QED
    BY <1>1, <1>2

LEMMA TokenKinds ==
  ASSUME NEW x
  PROVE  /\ Ident(x) # Colon /\ Ident(x) # Comma /\ Colon # Comma
         /\ Ident(x).kind = "ident" /\ Ident(x).text = x
  BY DEF Ident, Colon, Comma, Punct

LEMMA FoundAtFirst ==
  ASSUME NEW body, NEW n \in Nat, NEW names, NEW m \in Nat, NEW at,
         Places(body, n, names, m, at)
  PROVE  Found(body, names, m, at, 0, NoFields, 0)
  <1>1. \A j \in 1 .. m : at[j] \in 1 .. n - 1
    BY DEF Places
  <1>2. /\ IsState(NoFields) /\ ~ NoFields.failed /\ NoFields.before_colon
        /\ NoFields.fields = <<>>
    BY DEF NoFields, IsState
  <1>3. [j \in 1 .. 0 |-> names[j]] = <<>>
    OBVIOUS
  <1>4. \A j \in 1 .. m : (j <= 0 <=> at[j] + 1 <= 0) /\ at[j] # 0
    BY <1>1
  <1>5. 0 \in 0 .. m
    OBVIOUS
  <1>6. QED
    BY <1>2, <1>3, <1>4, <1>5 DEF Found

LEMMA FoundAtColon ==
  ASSUME NEW body, NEW n \in Nat, NEW names, NEW m \in Nat, NEW at,
         Places(body, n, names, m, at), NEW i \in 0 .. n - 1,
         NEW st, NEW l, Found(body, names, m, at, i, st, l),
         body[i + 1] = Colon
  PROVE  Found(body, names, m, at, i + 1, FieldToken(st, Colon), l + 1)
  <1>0. SUFFICES ASSUME NEW u, u = FieldToken(st, Colon)
                 PROVE  Found(body, names, m, at, i + 1, u, l + 1)
    OBVIOUS
  <1>1. IsState(st) /\ ~ st.failed /\ l \in 0 .. m /\ st.fields = [j \in 1 .. l |-> names[j]]
    BY DEF Found
  <1>2. /\ IsState(u) /\ (u.failed <=> st.candidate = <<>>) /\ u.candidate = <<>>
        /\ u.fields = st.fields \o st.candidate /\ u.before_colon = FALSE
    BY <1>0, <1>1, TurnColon
  <1>3. PICK k \in 1 .. m : i + 1 = at[k] + 1
    <2>1. i + 1 \in 1 .. n
      OBVIOUS
    <2>2. QED
      BY <2>1 DEF Places
  <1>4. \A j \in 1 .. m : at[j] \in Int
    BY DEF Places
  <1>5. at[k] = i
    BY <1>3, <1>4
  <1>6. st.candidate = <<names[k]>>
    BY <1>5 DEF Found
  <1>7. \A j \in 1 .. m : j <= l <=> at[j] + 1 <= i
    BY DEF Found
  <1>8. ASSUME NEW j \in 1 .. m, j < k PROVE at[j] + 2 < i
    <2>1. at[j] + 2 < at[k]
      BY <1>8, PlacesAscend
    <2>2. QED
      BY <1>4, <1>5, <2>1
  <1>9. ASSUME NEW j \in 1 .. m, k < j PROVE i + 2 < at[j]
    <2>1. at[k] + 2 < at[j]
      BY <1>9, PlacesAscend
    <2>2. QED
      BY <1>4, <1>5, <2>1
  <1>10. k = l + 1
    <2>1. ~(k <= l)
      BY <1>5, <1>7
    <2>2. k = 1 \/ k - 1 \in 1 .. m
      OBVIOUS
    <2>3. CASE k = 1
      BY <1>1, <2>1, <2>3
    <2>4. CASE k - 1 \in 1 .. m
      <3>1. k - 1 < k
        OBVIOUS
      <3>2. at[k - 1] + 2 < i /\ at[k - 1] \in Int
        BY <1>4, <1>8, <2>4, <3>1
      <3>3. at[k - 1] + 1 <= i
        BY <3>2
      <3>4. k - 1 <= l
        BY <1>7, <2>4, <3>3
      <3>5. QED
        BY <1>1, <2>1, <3>4
    <2>5. QED
      BY <2>2, <2>3, <2>4
  <1>11. l + 1 \in 0 .. m
    BY <1>1, <1>10
  <1>12. u.fields = [j \in 1 .. l + 1 |-> names[j]]
    <2> DEFINE s == st.fields
    <2>1. s = [j \in 1 .. l |-> names[j]] /\ l \in Nat
      BY <1>1
    <2>2. DOMAIN s = 1 .. l /\ s = [j \in 1 .. l |-> s[j]]
      BY <2>1
    <2>3. u.fields = s \o <<names[l + 1]>>
      BY <1>2, <1>6, <1>10
    <2>4. s \o <<names[l + 1]>> = [j \in 1 .. l + 1 |-> IF j = l + 1 THEN names[l + 1] ELSE s[j]]
      <3> HIDE DEF s
      <3>1. Append(s, names[l + 1]) = [j \in 1 .. l + 1 |-> IF j = l + 1 THEN names[l + 1] ELSE s[j]]
        BY <2>1, <2>2, AppendIs
      <3>2. s \o <<names[l + 1]>> = Append(s, names[l + 1])
        <4> DEFINE S == {s[j] : j \in 1 .. l} \cup {names[l + 1]}
        <4>1. s \in Seq(S) /\ names[l + 1] \in S
          BY <2>1, <2>2
        <4> HIDE DEF S
        <4>2. QED
          BY <4>1
      <3>3. QED
        BY <3>1, <3>2
    <2>5. \A j \in 1 .. l + 1 : names[j] = IF j = l + 1 THEN names[l + 1] ELSE s[j]
      BY <2>1
    <2> HIDE DEF s
    <2>6. QED
      BY <2>3, <2>4, <2>5
  <1>13. \A j \in 1 .. m : j <= l + 1 <=> at[j] + 1 <= i + 1
    <2>1. ASSUME NEW j \in 1 .. m
          PROVE  j <= l + 1 <=> at[j] + 1 <= i + 1
      <3>1. at[j] \in Int /\ l \in Int
        BY <1>1, <1>4
      <3>2. CASE j = k
        BY <1>5, <1>10, <3>1, <3>2
      <3>3. CASE j < k
        BY <1>8, <1>10, <3>1, <3>3
      <3>4. CASE k < j
        BY <1>9, <1>10, <3>1, <3>4
      <3>5. QED
        BY <3>2, <3>3, <3>4
    <2>2. QED
      BY <2>1
  <1>14. \A j \in 1 .. m : at[j] # i + 1
    <2>1. \A j \in 1 .. m : body[at[j]] = Ident(names[j])
      BY DEF Places
    <2>2. QED
      BY <2>1, TokenKinds
  <1>15. at[k] + 1 <= i + 1 /\ \A p \in at[k] + 2 .. i + 1 : body[p] # Comma
    BY <1>5
  <1>16. ~ u.failed
    BY <1>2, <1>6
  <1>17. QED
    BY <1>2, <1>11, <1>12, <1>13, <1>14, <1>15, <1>16 DEF Found

\* Behind a token that is no colon as many names are found as before it.
LEMMA FoundSame ==
  ASSUME NEW body, NEW n \in Nat, NEW names, NEW m \in Nat, NEW at,
         Places(body, n, names, m, at), NEW i \in 0 .. n - 1,
         NEW st, NEW l, Found(body, names, m, at, i, st, l),
         body[i + 1] # Colon
  PROVE  \A j \in 1 .. m : j <= l <=> at[j] + 1 <= i + 1
  <1>1. ASSUME NEW j \in 1 .. m
        PROVE  j <= l <=> at[j] + 1 <= i + 1
    <2>1. at[j] \in Int
      BY DEF Places
    <2>2. body[at[j] + 1] = Colon
      BY DEF Places
    <2>3. at[j] + 1 # i + 1
      BY <2>2
    <2>4. j <= l <=> at[j] + 1 <= i
      BY DEF Found
    <2>5. at[j] + 1 <= i <=> at[j] + 1 <= i + 1
      BY <2>1, <2>3
    <2>6. QED
      BY <2>4, <2>5
  <1>2. QED
    BY <1>1

LEMMA FoundAtComma ==
  ASSUME NEW body, NEW n \in Nat, NEW names, NEW m \in Nat, NEW at,
         Places(body, n, names, m, at), NEW i \in 0 .. n - 1,
         NEW st, NEW l, Found(body, names, m, at, i, st, l),
         body[i + 1] = Comma
  PROVE  Found(body, names, m, at, i + 1, FieldToken(st, Comma), l)
  <1>0. SUFFICES ASSUME NEW u, u = FieldToken(st, Comma)
                 PROVE  Found(body, names, m, at, i + 1, u, l)
    OBVIOUS
  <1>1. IsState(st) /\ ~ st.failed /\ l \in 0 .. m /\ st.fields = [j \in 1 .. l |-> names[j]]
    BY DEF Found
  <1>2. /\ IsState(u) /\ ~ u.failed /\ u.candidate = <<>>
        /\ u.fields = st.fields /\ u.before_colon = TRUE
    BY <1>0, <1>1, TurnComma
  <1>3. \A j \in 1 .. m : j <= l <=> at[j] + 1 <= i + 1
    <2>1. body[i + 1] # Colon
      BY TokenKinds
    <2>2. QED
      BY <2>1, FoundSame
  <1>4. \A j \in 1 .. m : at[j] # i + 1
    <2>1. \A j \in 1 .. m : body[at[j]] = Ident(names[j])
      BY DEF Places
    <2>2. QED
      BY <2>1, TokenKinds
  <1>5. ~ u.failed
    BY <1>1, <1>2
  <1>6. \A j \in 1 .. m : at[j] = i + 1 => u.candidate = <<names[j]>>
    BY <1>4
  <1>7. IsState(u) /\ u.fields = [j \in 1 .. l |-> names[j]] /\ u.before_colon
    BY <1>1, <1>2
  <1>8. QED
    BY <1>1, <1>3, <1>5, <1>6, <1>7 DEF Found

LEMMA FoundAtName ==
  ASSUME NEW body, NEW n \in Nat, NEW names, NEW m \in Nat, NEW at,
         Places(body, n, names, m, at), NEW i \in 0 .. n - 1,
         NEW st, NEW l, Found(body, names, m, at, i, st, l),
         NEW tok, body[i + 1] = tok, tok # Colon,
         tok.kind = "ident", st.before_colon, tok # Pub
  PROVE  Found(body, names, m, at, i + 1, FieldToken(st, tok), l)
  <1>0. SUFFICES ASSUME NEW u, u = FieldToken(st, tok)
                 PROVE  Found(body, names, m, at, i + 1, u, l)
    OBVIOUS
  <1>1. IsState(st) /\ ~ st.failed /\ l \in 0 .. m /\ st.fields = [j \in 1 .. l |-> names[j]]
    BY DEF Found
  <1>2. /\ IsState(u) /\ ~ u.failed /\ u.candidate = <<tok.text>>
        /\ u.fields = st.fields /\ u.before_colon
    BY <1>0, <1>1, TurnName
  <1>3. \A j \in 1 .. m : j <= l <=> at[j] + 1 <= i + 1
    BY FoundSame
  <1>4. ASSUME NEW j \in 1 .. m, at[j] = i + 1 PROVE u.candidate = <<names[j]>>
    <2>1. body[at[j]] = Ident(names[j])
      BY DEF Places
    <2>2. tok = Ident(names[j])
      BY <1>4, <2>1
    <2>3. tok.text = names[j]
      BY <2>2, TokenKinds
    <2>4. QED
      BY <1>2, <2>3
  <1>5. ~ u.failed
    BY <1>1, <1>2
  <1>6. \A j \in 1 .. m : at[j] = i + 1 => u.candidate = <<names[j]>>
    BY <1>4
  <1>7. IsState(u) /\ u.fields = [j \in 1 .. l |-> names[j]] /\ u.before_colon
    BY <1>1, <1>2
  <1>8. QED
    BY <1>1, <1>3, <1>5, <1>6, <1>7 DEF Found

\* What is passed over behind a colon is no name: there would be a comma first.
LEMMA FoundAtOther ==
  ASSUME NEW body, NEW n \in Nat, NEW names, NEW m \in Nat, NEW at,
         Places(body, n, names, m, at), NEW i \in 0 .. n - 1,
         NEW st, NEW l, Found(body, names, m, at, i, st, l),
         NEW tok, body[i + 1] = tok, tok # Colon, tok # Comma,
         ~(tok.kind = "ident" /\ st.before_colon /\ tok # Pub)
  PROVE  Found(body, names, m, at, i + 1, FieldToken(st, tok), l)
  <1>1. IsState(st) /\ ~ st.failed /\ l \in 0 .. m /\ st.fields = [j \in 1 .. l |-> names[j]]
    BY DEF Found
  <1>2. FieldToken(st, tok) = st
    BY <1>1, TurnOther
  <1>3. \A j \in 1 .. m : j <= l <=> at[j] + 1 <= i + 1
    BY FoundSame
  <1>4. \A j \in 1 .. m : at[j] \in Int
    BY DEF Places
  <1>5. ASSUME ~ st.before_colon
        PROVE  \E j \in 1 .. m : /\ at[j] + 1 <= i
                                 /\ \A p \in at[j] + 2 .. i : body[p] # Comma
    BY <1>5 DEF Found
  <1>6. ASSUME NEW j \in 1 .. m, at[j] = i + 1 PROVE FALSE
    <2>1. body[at[j]] = Ident(names[j]) /\ body[at[j]] # Pub
      BY DEF Places
    <2>2. tok.kind = "ident" /\ tok # Pub
      BY <1>6, <2>1, TokenKinds
    <2>3. PICK k \in 1 .. m : /\ at[k] + 1 <= i
                              /\ \A p \in at[k] + 2 .. i : body[p] # Comma
      BY <1>5, <2>2
    <2>4. k < j
      <3>1. CASE k = j
        BY <1>4, <1>6, <2>3, <3>1
      <3>2. CASE j < k
        <4>1. at[j] + 2 < at[k]
          BY <3>2, PlacesAscend
        <4>2. at[k] \in Int
          BY <1>4
        <4>3. QED
          BY <1>6, <2>3, <4>1, <4>2
      <3>3. QED
        BY <3>1, <3>2
    <2>5. PICK p \in at[k] + 2 .. at[j] - 1 : body[p] = Comma
      BY <2>4 DEF Places
    <2>6. at[j] - 1 = i
      BY <1>6
    <2>7. QED
      BY <2>3, <2>5, <2>6
  <1>7. ASSUME ~ st.before_colon
        PROVE  \E j \in 1 .. m : /\ at[j] + 1 <= i + 1
                                 /\ \A p \in at[j] + 2 .. i + 1 : body[p] # Comma
    <2>1. PICK j \in 1 .. m : /\ at[j] + 1 <= i
                              /\ \A p \in at[j] + 2 .. i : body[p] # Comma
      BY <1>5, <1>7
    <2>2. at[j] \in Int
      BY <1>4
    <2>3. at[j] + 1 <= i + 1
      BY <2>1, <2>2
    <2>4. ASSUME NEW p \in at[j] + 2 .. i + 1 PROVE body[p] # Comma
      <3>1. p \in at[j] + 2 .. i \/ p = i + 1
        BY <2>2
      <3>2. QED
        BY <2>1, <3>1
    <2>5. QED
      BY <2>3, <2>4
  <1>8. QED
    BY <1>1, <1>2, <1>3, <1>6, <1>7 DEF Found

LEMMA FoundStep ==
  ASSUME NEW body, NEW n \in Nat, NEW names, NEW m \in Nat, NEW at,
         Places(body, n, names, m, at), NEW i \in 0 .. n - 1,
         NEW st, NEW l, Found(body, names, m, at, i, st, l)
  PROVE  \E k : Found(body, names, m, at, i + 1, FieldToken(st, body[i + 1]), k)
  <1> DEFINE tok == body[i + 1]
  <1>1. CASE tok = Colon
    BY <1>1, FoundAtColon
  <1>2. CASE tok = Comma
    BY <1>2, FoundAtComma
  <1>3. CASE tok # Colon /\ tok.kind = "ident" /\ st.before_colon /\ tok # Pub
    BY <1>3, FoundAtName
  <1>4. CASE /\ tok # Colon /\ tok # Comma
             /\ ~(tok.kind = "ident" /\ st.before_colon /\ tok # Pub)
    BY <1>4, FoundAtOther
  <1>5. QED
    BY <1>1, <1>2, <1>3, <1>4

LEMMA FoundAll ==
  ASSUME NEW body, NEW n \in Nat, NEW f, Parses(body, n, f),
         NEW names, NEW m \in Nat, NEW at, Places(body, n, names, m, at)
  PROVE  \E l : Found(body, names, m, at, n, f[n], l)
  <1> DEFINE Bad == {i \in 0 .. n : ~ \E l : Found(body, names, m, at, i, f[i], l)}
  <1>1. SUFFICES ASSUME Bad # {} PROVE FALSE
    <2>1. n \in 0 .. n
      OBVIOUS
    <2>2. QED
      BY <2>1
  <1>2. PICK k \in Bad : \A j \in Bad : k <= j
    <2>1. Bad \in SUBSET Nat
      OBVIOUS
    <2> HIDE DEF Bad
    <2>2. QED
      BY <1>1, <2>1, LeastOf
  <1>3. k \in 0 .. n /\ ~ \E l : Found(body, names, m, at, k, f[k], l)
    OBVIOUS
  <1>4. k # 0
    <2>1. f[0] = NoFields
      BY ParsesAt
    <2>2. Found(body, names, m, at, 0, f[0], 0)
      BY <2>1, FoundAtFirst
    <2>3. QED
      BY <1>3, <2>2
  <1>5. k - 1 \in 0 .. n /\ ~(k <= k - 1) /\ k \in 1 .. n /\ k - 1 \in 0 .. n - 1
    BY <1>3, <1>4
  <1>6. PICK l : Found(body, names, m, at, k - 1, f[k - 1], l)
    BY <1>2, <1>5
  <1> HIDE DEF Bad
  <1>7. f[k] = FieldToken(f[k - 1], body[k])
    BY <1>5, ParsesAt
  <1> DEFINE i == k - 1
  <1>8. i + 1 = k /\ i \in 0 .. n - 1
    BY <1>5
  <1>9. Found(body, names, m, at, i, f[i], l) /\ f[i + 1] = FieldToken(f[i], body[i + 1])
    BY <1>6, <1>7, <1>8
  <1> HIDE DEF i
  <1>10. \E j : Found(body, names, m, at, i + 1, f[i + 1], j)
    BY <1>8, <1>9, FoundStep
  <1>11. QED
    BY <1>3, <1>8, <1>10

\* Without a path the fields are the names, and there is no error.
LEMMA PlacesFound ==
  ASSUME NEW body, NEW n \in Nat, NEW f, Parses(body, n, f),
         NEW names, NEW m \in Nat, NEW at, Places(body, n, names, m, at)
  PROVE  ~ f[n].failed /\ f[n].fields = [j \in 1 .. m |-> names[j]]
  <1>1. PICK l : Found(body, names, m, at, n, f[n], l)
    BY FoundAll
  <1>2. /\ ~ f[n].failed /\ l \in 0 .. m /\ f[n].fields = [j \in 1 .. l |-> names[j]]
        /\ \A j \in 1 .. m : j <= l <=> at[j] + 1 <= n
    BY <1>1 DEF Found
  <1>3. l = m
    <2>1. CASE m = 0
      BY <1>2, <2>1
    <2>2. CASE m # 0
      <3>1. m \in 1 .. m
        BY <2>2
      <3>2. at[m] \in 1 .. n - 1
        BY <3>1 DEF Places
      <3>3. at[m] + 1 <= n
        BY <3>2
      <3>4. m <= l
        BY <1>2, <3>1, <3>3
      <3>5. QED
        BY <1>2, <3>4
    <2>3. QED
      BY <2>1, <2>2
  <1>4. QED
    BY <1>2, <1>3

LEMMA BodyPlaces ==
  ASSUME NEW body, Len(body) \in Nat, DOMAIN body = 1 .. Len(body),
         NEW names, NEW m \in Nat, DOMAIN names = 1 .. m, IsBody(body, names),
         ~ \E k \in 1 .. Len(body) - 1 : body[k] = Colon /\ body[k + 1] = Colon
  PROVE  \E at : Places(body, Len(body), names, m, at)
  <1> DEFINE n == Len(body)
  <1>0. DOMAIN body = 1 .. n /\ DOMAIN names = 1 .. m
    OBVIOUS
  <1>1. PICK at \in [DOMAIN names -> 1 .. n - 1] :
          /\ \A k \in DOMAIN names :
               /\ body[at[k]] = Ident(names[k]) /\ body[at[k]] # Pub
               /\ body[at[k] + 1] = Colon
          /\ \A k \in DOMAIN names, j \in DOMAIN names :
               k < j => \E i \in at[k] + 2 .. at[j] - 1 : body[i] = Comma
          /\ \A i \in DOMAIN body : body[i] = Colon =>
               \/ \E k \in DOMAIN names : i = at[k] + 1
               \/ \E j \in {i - 1, i + 1} \cap DOMAIN body : body[j] = Colon
    BY Zenon DEF IsBody
  <1>2. n \in Nat
    OBVIOUS
  <1>3. \A k \in 1 .. n - 1 : ~(body[k] = Colon /\ body[k + 1] = Colon)
    OBVIOUS
  <1> HIDE DEF n
  <1>4. ASSUME NEW i \in 1 .. n, body[i] = Colon,
               NEW j \in {i - 1, i + 1} \cap 1 .. n, body[j] = Colon
        PROVE  FALSE
    <2>1. CASE j = i - 1
      <3>1. j \in 1 .. n - 1 /\ j + 1 = i
        BY <1>2, <2>1
      <3>2. QED
        BY <1>3, <1>4, <3>1
    <2>2. CASE j = i + 1
      <3>1. i \in 1 .. n - 1
        BY <1>2, <2>2
      <3>2. QED
        BY <1>3, <1>4, <2>2, <3>1
    <2>3. QED
      BY <2>1, <2>2
  <1>5. \A i \in 1 .. n : body[i] = Colon => \E k \in 1 .. m : i = at[k] + 1
    BY <1>0, <1>1, <1>4
  <1>6. \A k \in 1 .. m : at[k] \in 1 .. n - 1
    BY <1>0, <1>1
  <1>7. Places(body, n, names, m, at)
    BY <1>0, <1>1, <1>5, <1>6 DEF Places
  <1>8. QED
    BY <1>7 DEF n

\* What the derive makes of a struct that has no path in its body.
LEMMA NoPathDerived ==
  ASSUME NEW decl, IsSource(decl), Contains(decl.head, Struct), ~ HasPath(decl.body)
  PROVE  \/ DerivedFields(decl) = Names(decl)
         \/ DerivedFields(decl) = Error /\ decl.fields = <<>>
  <1> DEFINE body == decl.body
             m == Len(decl.fields)
             names == Names(decl)
             st == ParseNamedFields(body)
  <1>1. /\ Len(body) \in Nat /\ DOMAIN body = 1 .. Len(body)
        /\ m \in Nat /\ DOMAIN decl.fields = 1 .. m /\ IsBody(body, names)
    BY DEF IsSource
  <1>2. names = [j \in 1 .. m |-> names[j]] /\ DOMAIN names = 1 .. m
    BY <1>1 DEF Names
  <1>3. ~ \E k \in 1 .. Len(body) - 1 : body[k] = Colon /\ body[k + 1] = Colon
    BY DEF HasPath
  <1>4. PICK f : Parses(body, Len(body), f) /\ st = f[Len(body)]
    BY <1>1, ParseIs
  <1> HIDE DEF names, m, body, st
  <1>5. PICK at : Places(body, Len(body), names, m, at)
    BY <1>1, <1>2, <1>3, BodyPlaces
  <1>6. ~ st.failed /\ st.fields = names
    BY <1>1, <1>2, <1>4, <1>5, PlacesFound
  <1>7. DerivedFields(decl) = IF body # NoBody /\ names # <<>> THEN names ELSE Error
    BY <1>6 DEF DerivedFields, st, body
  <1>8. body = NoBody => m = 0
    <2>1. SUFFICES ASSUME body = NoBody, m # 0 PROVE FALSE
      OBVIOUS
    <2>2. Len(body) = 1
      BY <2>1 DEF NoBody
    <2>3. 1 \in 1 .. m
      BY <1>1, <2>1
    <2>4. at[1] \in 1 .. Len(body) - 1
      BY <1>5, <2>3 DEF Places
    <2>5. QED
      BY <2>2, <2>4
  <1>9. names = <<>> => m = 0
    BY <1>1, <1>2
  <1>10. m = 0 => decl.fields = <<>>
    BY <1>1 DEF m
  <1>11. \/ DerivedFields(decl) = names
         \/ DerivedFields(decl) = Error /\ decl.fields = <<>>
    BY <1>7, <1>8, <1>9, <1>10
  <1>12. QED
    BY <1>11 DEF names

\* A path in the body of a struct is a compile error.
LEMMA PathDerived ==
  ASSUME NEW decl, IsSource(decl), HasPath(decl.body)
  PROVE  DerivedFields(decl) = Error
  <1> DEFINE body == decl.body
             st == ParseNamedFields(body)
  <1>1. Len(body) \in Nat
    BY DEF IsSource
  <1>2. PICK k \in 1 .. Len(body) - 1 : body[k] = Colon /\ body[k + 1] = Colon
    BY DEF HasPath
  <1>3. PICK f : Parses(body, Len(body), f) /\ st = f[Len(body)]
    BY <1>1, ParseIs
  <1> HIDE DEF body, st
  <1>4. st.failed
    BY <1>1, <1>2, <1>3, PathFails
  <1>5. QED
    BY <1>4 DEF DerivedFields, st, body

(***************************************************************************)
(* For every declaration that is compiled: the derived impl hashes the     *)
(* fields it declares, all of them and in order, or there is a compile     *)
(* error, and that only for what is not a struct with named fields or has  *)
(* a `::' in its body (tracehash-rs-derive/src/lib.rs:62-94).              *)
(***************************************************************************)
THEOREM DeriveHolds == Spec => []DeriveFaithful
  <1>1. ASSUME program \in Programs PROVE DeriveFaithful
    <2> DEFINE decl == program.decl
    <2>1. IsSource(decl)
      BY <1>1, ProbeAssumption
    <2>2. CASE ~ Contains(decl.head, Struct)
      BY <2>2 DEF DeriveFaithful, DerivedFields
    <2>3. CASE HasPath(decl.body)
      BY <2>1, <2>3, PathDerived DEF DeriveFaithful
    <2>4. CASE Contains(decl.head, Struct) /\ ~ HasPath(decl.body)
      <3>1. \/ DerivedFields(decl) = Names(decl)
            \/ DerivedFields(decl) = Error /\ decl.fields = <<>>
        BY <2>1, <2>4, NoPathDerived
      <3>2. QED
        BY <3>1 DEF DeriveFaithful
    <2>5. QED
      BY <2>2, <2>3, <2>4
  <1>2. TypeOK => program \in Programs
    BY DEF TypeOK
  <1>3. QED
    BY <1>1, <1>2, TypeHolds, PTL
=============================================================================
