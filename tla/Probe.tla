-------------------------------- MODULE Probe -------------------------------
(***************************************************************************)
(* One program instrumented twice: with the Rust Call (src/src/lib.rs) and *)
(* with the C++ wrapper (src/c/tracehash_cpp.hpp) over the C helpers       *)
(* (src/c/tracehash_c.c).  Both ports make the same helper calls with the  *)
(* same values; what each hashes, counts and captures should be the same.  *)
(*                                                                         *)
(* A helper call is [side, form, ty, v, name, q]: side "in" or "out"; form *)
(* "pos" for input_u64(v), "as" for input_u64_as(name, v), "field" for     *)
(* input_field(name, &v), "value" for input_value(&v); q is the quantum of *)
(* a quantized float.  v of the type "struct" is its declaration: the      *)
(* tokens derive(TraceHash) is given, and the fields [name, ty, v] that    *)
(* TH_DEFINE_STRUCT_HASH is given.                                         *)
(***************************************************************************)
EXTENDS HashStream, Derive, PolicyText, FiniteSets

CONSTANTS
  Programs,   \* environments [tsv, deep, values, mode], a declaration decl,
              \* and two bounds: calls begun, and helper calls made (feeds)
  Helpers,    \* the helper calls a program can make
  Objects,    \* variables of class tracehash::Call
  Callee      \* the name of the instrumented function

Sides == {"in", "out"}
Scalars == Integer \cup {"bool", "f32", "f64"}

\* A name, a string, a slice: bytes, as many as a (scaled) u64 can count.
Text == {s \in Seq(Byte) : Len(s) < 65536}

Within(v, low, high) == v \in Int /\ low <= v /\ v <= high

HasType(ty, v) ==
  \/ ty \in Integer \cup {"f32q"} /\ v \in Int
  \/ ty = "bool" /\ v \in {0, 1}
  \/ ty = "f32"  /\ Within(v, -128, 127)
  \/ ty = "f64"  /\ Within(v, IntMin, IntMax)
  \/ ty = "some" /\ Within(v, 0, 65535)
  \/ ty = "none" /\ v = 0
  \/ ty \in {"str", "bytes"} /\ v \in Text

\* A struct of a program that compiles: the derive has found its fields (see
\* DeriveFaithful), and no two of them have one name.
IsDeclaration(decl) ==
  /\ decl.name \in Text
  /\ Len(decl.fields) \in Nat
  /\ DOMAIN decl.fields = 1 .. Len(decl.fields)
  /\ DerivedFields(decl) = [i \in DOMAIN decl.fields |-> decl.fields[i].name]
  /\ \A i \in DOMAIN decl.fields :
       /\ decl.fields[i].name \in Text
       /\ decl.fields[i].ty \in Scalars \cup {"bytes"}
       /\ HasType(decl.fields[i].ty, decl.fields[i].v)
       /\ \A j \in DOMAIN decl.fields :
            decl.fields[i].name = decl.fields[j].name => i = j

\* The names of the fields of a declaration.
Names(decl) == [i \in DOMAIN decl.fields |-> decl.fields[i].name]

\* What the derive is given: a declaration that compiles, but for the derive.
IsSource(decl) ==
  /\ Len(decl.fields) \in Nat /\ DOMAIN decl.fields = 1 .. Len(decl.fields)
  /\ Len(decl.body) \in Nat /\ DOMAIN decl.body = 1 .. Len(decl.body)
  /\ Contains(decl.head, Struct) => IsBody(decl.body, Names(decl))

\* A typed helper, or input_value, input_field, .. of anything that can be hashed.
IsHelper(h) ==
  /\ h.side \in Sides /\ h.name \in Text /\ Within(h.q, -128, 127)
  /\ \/ /\ h.form \in {"pos", "as"}
        /\ h.ty \in Scalars \cup {"bytes", "f32q"} /\ HasType(h.ty, h.v)
     \/ /\ h.form \in {"field", "value"}
        /\ \/ h.ty = "struct" /\ IsDeclaration(h.v)
           \/ /\ h.ty \in Scalars \cup {"str", "bytes", "some", "none"}
              /\ HasType(h.ty, h.v)

ASSUME ProbeAssumption ==
  /\ \A p \in Programs : /\ p.calls \in Nat /\ p.feeds \in Nat
                         /\ {p.tsv, p.deep, p.values} \subseteq BOOLEAN
                         /\ IsSource(p.decl)
  /\ Callee \in Seq(Byte)
  /\ \A h \in Helpers : IsHelper(h)

VARIABLES
  program,    \* what is run
  rust,       \* the Rust Call of each call begun, until finished or dropped
  objects,    \* the C++ objects
  script,     \* history: the helper calls for each call begun, on each side
  emitted     \* history: what finish wrote for each call, in each language

vars == <<program, rust, objects, script, emitted>>

NoCall == [active |-> FALSE]
NoObject == [id |-> 0, call |-> NoCall, finished |-> TRUE]

Begun == DOMAIN script

Active == program.tsv \/ program.deep

IsCall(c, values_on) ==
  /\ c = [active |-> Active, in |-> c.in, out |-> c.out, deep |-> program.deep,
          values_on |-> values_on, values |-> c.values]
  /\ \A s \in Sides :
       /\ c[s] = [hash |-> c[s].hash, len |-> c[s].len,
                  counter |-> c[s].counter, vals |-> c[s].vals]
       /\ c[s].hash \in Seq(Byte)
       /\ c[s].len \in Nat /\ c[s].counter \in Nat
       /\ c.deep \/ c[s].vals = <<>>
  /\ c.values_on \/ c.values = <<>>

TypeOK ==
  /\ program \in Programs
  /\ script \in Seq([Sides -> Seq(Helpers)])
  /\ rust = [i \in Begun |-> rust[i]]
  /\ emitted = [i \in Begun |-> [rust |-> emitted[i].rust, c |-> emitted[i].c]]
  /\ \A i \in Begun : \/ rust[i] = NoCall
                      \/ IsCall(rust[i], program.tsv /\ program.values)
  /\ objects = [o \in Objects |->
                  [id |-> objects[o].id, call |-> objects[o].call,
                   finished |-> objects[o].finished]]
  /\ \A o \in Objects :
       /\ objects[o].id \in Nat /\ objects[o].finished \in BOOLEAN
       /\ objects[o] # NoObject =>
            objects[o].id \in Begun /\ IsCall(objects[o].call, program.values)
-----------------------------------------------------------------------------
(***************************************************************************)
(* The Rust Call.                                                          *)
(***************************************************************************)
Started(active) ==
  [hash |-> IF active THEN Str(Callee) ELSE <<>>, len |-> 0, counter |-> 0,
   vals |-> <<>>]

\* Call::new.
RustNew ==
  [active |-> Active, in |-> Started(Active), out |-> Started(Active),
   deep |-> program.deep, values_on |-> program.tsv /\ program.values,
   values |-> <<>>]

Weight(h) == IF h.ty = "bytes" THEN Len(h.v) ELSE 1

\* The bytes a call of a typed helper feeds.
RustTyped(h) ==
  CASE h.ty = "bytes" -> Bytes(h.v)
    [] h.ty = "f32q"  -> Quantized(h.q, RustQuantize(h.v, h.q))
    [] OTHER          -> TraceHash(h.ty, h.v)

\* The impl the derive generates, and the hashing of any other value.
DerivedHash(decl) ==
  LET hash(f) == LET g == CHOOSE g \in Range(decl.fields) : g.name = f
                 IN  Str(f) \o TraceHash(g.ty, g.v)
  IN  Str(decl.name) \o FlattenSeq([i \in DOMAIN DerivedFields(decl) |->
                                      hash(DerivedFields(decl)[i])])

ValueHash(h) == IF h.ty = "struct" THEN DerivedHash(h.v) ELSE TraceHash(h.ty, h.v)

\* The bytes input_value and input_field feed.
ValueFed(h) == Tag.V \o ValueHash(h)
FieldFed(h) == Tag.G \o Str(h.name) \o ValueHash(h)

\* push_value.  A label stands for what is printed of the hashed bytes.
PushValue(c, label) == IF c.values_on THEN Append(c.values, label) ELSE c.values

\* Value::U64, Value::F32, .. of an argument.
Value(h) ==
  <<CASE h.ty = "usize" -> "u64" [] h.ty = "f32q" -> "f32" [] OTHER -> h.ty, h.v>>

\* deep_push_input, deep_push_output.
DeepPush(c, s, name, h) ==
  IF c.deep THEN Append(c[s].vals, <<name, Value(h)>>) ELSE c[s].vals

\* What every typed helper does; the counter numbers the arguments.
RustArg(c, s, h, name) ==
  [c EXCEPT ![s] = [hash    |-> @.hash \o RustTyped(h),
                    len     |-> @.len + Weight(h),
                    counter |-> @.counter + 1,
                    vals    |-> DeepPush(c, s, name, h)],
            !.values = PushValue(c, <<s, RustTyped(h)>>)]

AutoName(c, s) == <<s, c[s].counter>>

\* input_u64 .. input_bytes, input_u64_as .. input_bytes_as; and for outputs.
RustInput(c, h)    == RustArg(c, "in", h, AutoName(c, "in"))
RustInputAs(c, h)  == RustArg(c, "in", h, h.name)
RustOutput(c, h)   == RustArg(c, "out", h, AutoName(c, "out"))
RustOutputAs(c, h) == RustArg(c, "out", h, h.name)

\* What a value that is not an argument does to a stream.
Feed(c, s, fed) == [c[s] EXCEPT !.hash = @ \o fed, !.len = @ + 1]

\* input_value, output_value; input_field, output_field.
RustValue(c, s, h) == [c EXCEPT ![s] = Feed(c, s, ValueFed(h))]
RustField(c, s, h) ==
  [c EXCEPT ![s] = Feed(c, s, FieldFed(h)), !.values = PushValue(c, <<s, h.name>>)]

RustHelper(c, h) ==
  IF ~c.active THEN c
  ELSE CASE h.form = "value" -> RustValue(c, h.side, h)
         [] h.form = "field" -> RustField(c, h.side, h)
         [] h.form = "pos" ->
              IF h.side = "in" THEN RustInput(c, h) ELSE RustOutput(c, h)
         [] h.form = "as"  ->
              IF h.side = "in" THEN RustInputAs(c, h) ELSE RustOutputAs(c, h)
-----------------------------------------------------------------------------
(***************************************************************************)
(* The C helpers.  A helper that feeds the hash of a quantized float may   *)
(* feed one of several numbers: a helper call has a set of outcomes.       *)
(***************************************************************************)
\* tracehash_begin.
CBegin ==
  [active |-> Active, in |-> Started(Active), out |-> Started(Active),
   deep |-> program.deep, values_on |-> program.values, values |-> <<>>]

CTyped(h) ==
  IF h.ty = "f32q" THEN {Quantized(h.q, n) : n \in CQuantize(h.v, h.q)}
  ELSE {CTrace(h.ty, h.v)}

\* tracehash_append_value.
AppendValue(c, label) == IF c.values_on THEN Append(c.values, label) ELSE c.values

\* Mutant of DeepCapture: a name given by hand takes no number.
DeepCaptureUnnumbered(c, s, h, given) ==
  IF ~c.deep THEN c[s]
  ELSE LET n == c[s].counter IN
       [c[s] EXCEPT !.counter = IF given THEN n ELSE n + 1,
                    !.vals = Append(@, <<IF given THEN h.name ELSE <<s, n>>, Value(h)>>)]

\* deep_begin_input, deep_begin_output, deep_capture_in_u64, ..
DeepCapture(c, s, h, given) ==
  IF ~c.deep THEN c[s]
  ELSE LET n == c[s].counter IN
       [c[s] EXCEPT !.counter = n + 1,
                    !.vals = Append(@, <<IF given THEN h.name ELSE <<s, n>>, Value(h)>>)]

CArg(c, s, h, given) ==
  {[c EXCEPT ![s] = [DeepCapture(c, s, h, given) EXCEPT !.hash = @ \o fed,
                                                        !.len = @ + Weight(h)],
             !.values = AppendValue(c, <<s, fed>>)] : fed \in CTyped(h)}

CInput(c, h)    == CArg(c, "in", h, FALSE)
CInputAs(c, h)  == CArg(c, "in", h, TRUE)
COutput(c, h)   == CArg(c, "out", h, FALSE)
COutputAs(c, h) == CArg(c, "out", h, TRUE)

\* tracehash_input_field_u64, ..
CField(c, s, h) ==
  [c EXCEPT ![s] = Feed(c, s, Tag.G \o Str(h.name) \o CTrace(h.ty, h.v)),
            !.values = AppendValue(c, <<s, h.name>>)]

\* tracehash_input_struct_begin, .._struct_field_u64, .. as TH_DEFINE_STRUCT_HASH
\* calls them: for the fields of its list.
CStruct(c, s, decl) ==
  LET fed(f) == Str(f.name) \o CTrace(f.ty, f.v) IN
  [c EXCEPT ![s] =
     Feed(c, s, Tag.V \o Str(decl.name)
                  \o FlattenSeq([i \in DOMAIN decl.fields |-> fed(decl.fields[i])]))]

\* What there is a C helper for.
InC(h) ==
  CASE h.form = "value" -> h.ty = "struct"
    [] h.form = "field" -> h.ty \in Integer \cup {"bool", "f32", "f64"}
    [] h.form = "as"    -> h.ty # "f32q"
    [] OTHER            -> TRUE

CHelper(c, h) ==
  IF ~c.active \/ ~InC(h) THEN {c}
  ELSE CASE h.form = "value" -> {CStruct(c, h.side, h.v)}
         [] h.form = "field" -> {CField(c, h.side, h)}
         [] h.form = "pos" -> IF h.side = "in" THEN CInput(c, h) ELSE COutput(c, h)
         [] h.form = "as"  -> IF h.side = "in" THEN CInputAs(c, h) ELSE COutputAs(c, h)
-----------------------------------------------------------------------------
(***************************************************************************)
(* The program.  In Rust a Call is moved, finished by hand or dropped; in  *)
(* C++ an object is, and dropping one finishes it.                         *)
(***************************************************************************)
Init ==
  /\ program \in Programs
  /\ rust = <<>>
  /\ objects = [o \in Objects |-> NoObject]
  /\ script = <<>>
  /\ emitted = <<>>

Alive(o) == objects[o] # NoObject
Open(o) == Alive(o) /\ ~objects[o].finished

Begin(o) ==
  /\ ~Alive(o)
  /\ Len(script) < program.calls
  /\ rust' = Append(rust, RustNew)
  /\ objects' = [objects EXCEPT ![o] =
                   [id |-> Len(script) + 1, call |-> CBegin, finished |-> FALSE]]
  /\ script' = Append(script, [s \in Sides |-> <<>>])
  /\ emitted' = Append(emitted, [rust |-> <<>>, c |-> <<>>])
  /\ UNCHANGED program

\* The helper calls made so far.
Feeds == FlattenSeq([i \in Begun |-> script[i]["in"] \o script[i]["out"]])

Help(o, h) ==
  /\ Open(o)
  /\ Len(Feeds) < program.feeds
  /\ \E c \in CHelper(objects[o].call, h) :
       objects' = [objects EXCEPT ![o].call = c]
  /\ LET i == objects[o].id IN
     /\ rust' = [rust EXCEPT ![i] = RustHelper(@, h)]
     /\ script' = [script EXCEPT ![i][h.side] = Append(@, h)]
  /\ UNCHANGED <<program, emitted>>

\* The row and the deep entry of a call that is finished, in either language.
Emission(c) ==
  IF ~c.active THEN <<>>
  ELSE <<[row   |-> IF ~program.tsv THEN <<>>
                    ELSE <<c.in.hash, c.out.hash, c.in.len, c.out.len, c.values>>,
          entry |-> IF ~program.deep THEN <<>> ELSE <<c.in.vals, c.out.vals>>]>>

\* tracehash::Call::finish, by hand or from the destructor.
CppFinish(o) ==
  IF objects[o].finished THEN emitted
  ELSE [emitted EXCEPT ![objects[o].id].c = @ \o Emission(objects[o].call)]

\* The Rust Call of an open object is dropped: that writes nothing.
RustDrop(o) ==
  IF Open(o) THEN [rust EXCEPT ![objects[o].id] = NoCall] ELSE rust

Finish(o) ==
  /\ Open(o)
  /\ emitted' = [CppFinish(o) EXCEPT ![objects[o].id].rust =
                   @ \o Emission(rust[objects[o].id])]
  /\ rust' = RustDrop(o)
  /\ objects' = [objects EXCEPT ![o].finished = TRUE]
  /\ UNCHANGED <<program, script>>

Destroy(o) ==
  /\ Alive(o)
  /\ emitted' = CppFinish(o)
  /\ rust' = RustDrop(o)
  /\ objects' = [objects EXCEPT ![o] = NoObject]
  /\ UNCHANGED <<program, script>>

\* Mutant of Moved: the source is not told.
MovedTwice(o, p) == [objects EXCEPT ![p] = objects[o]]

Moved(o, p) == [objects EXCEPT ![p] = objects[o], ![o].finished = TRUE]

\* Call(Call &&other).
MoveConstruct(o, p) ==
  /\ Alive(o) /\ ~Alive(p)
  /\ objects' = Moved(o, p)
  /\ UNCHANGED <<program, rust, script, emitted>>

\* operator=(Call &&other): what the target held is finished first.
MoveAssign(o, p) ==
  /\ Alive(o) /\ Alive(p) /\ o # p
  /\ emitted' = CppFinish(p)
  /\ rust' = RustDrop(p)
  /\ objects' = Moved(o, p)
  /\ UNCHANGED <<program, script>>

Next ==
  \E o \in Objects :
    \/ Begin(o) \/ Finish(o) \/ Destroy(o)
    \/ \E h \in Helpers : Help(o, h)
    \/ \E p \in Objects : MoveConstruct(o, p) \/ MoveAssign(o, p)

Spec == Init /\ [][Next]_vars
-----------------------------------------------------------------------------
(***************************************************************************)
(* Safety properties.                                                      *)
(***************************************************************************)
\* Both languages have the helper, and the C quantizer a defined answer.
Comparable(h) ==
  /\ InC(h)
  /\ h.ty = "f32q" /\ Divides(h.v, h.q) => Fits(Rounded(h.v, h.q))

Ported(i) ==
  /\ emitted[i].rust # <<>>
  /\ \A s \in Sides : \A k \in DOMAIN script[i][s] : Comparable(script[i][s][k])

\* The row of a call is the same in both ports: the hashes of inputs and
\* outputs, the lengths and the values column; whatever helpers were called
\* in whatever order, the object moved or not (README.md:241-246, 278).
RowParity ==
  \A i \in Begun : Ported(i) => emitted[i].rust[1].row = emitted[i].c[1].row

\* So is the deep entry: the same names, numbered or given, with the same
\* values in the same order (tests/c_deep_parity.rs).
EntryParity ==
  \A i \in Begun : Ported(i) => emitted[i].rust[1].entry = emitted[i].c[1].entry

\* A call begun in C++ is finished exactly once, as soon as no object that
\* holds it is open: by hand, by a destructor, or by an assignment to the
\* object; a moved-from object finishes nothing (tracehash_cpp.hpp:19-33).
FinishedOnce ==
  \A i \in Begun :
    LET open == {o \in Objects : Open(o) /\ objects[o].id = i} IN
    /\ Cardinality(open) <= 1
    /\ Len(emitted[i].c) = IF open = {} /\ (program.tsv \/ program.deep)
                           THEN 1 ELSE 0

(***************************************************************************)
(* What a hash is meant to tell apart.  Integers of one value are one,     *)
(* whatever their type (lib.rs:767-796); the name of an _as helper is not  *)
(* hashed (lib.rs:353-355); a quantized float is its bucket.               *)
(***************************************************************************)
Meant(ty, v) ==
  IF ty \in Integer THEN <<"u64", U64(v)>> ELSE <<ty, <<v>>>>

MeantByStruct(decl) ==
  <<decl.name, [i \in DOMAIN decl.fields |->
                  <<decl.fields[i].name>> \o Meant(decl.fields[i].ty, decl.fields[i].v)]>>

Meaning(h) ==
  LET form == IF h.form = "as" THEN "pos" ELSE h.form
      name == IF h.form = "field" THEN h.name ELSE <<>>
  IN  <<form, name>> \o CASE h.ty = "struct" -> <<"struct", MeantByStruct(h.v)>>
                           [] h.ty = "f32q" -> <<"f32q", <<h.q, RustQuantize(h.v, h.q)>>>>
                           [] OTHER         -> Meant(h.ty, h.v)

RustFed(h) ==
  CASE h.form = "value" -> ValueFed(h)
    [] h.form = "field" -> FieldFed(h)
    [] OTHER            -> RustTyped(h)

\* A sequence of helper calls for one hash: its bytes and its meaning.
Stream(t) == Str(Callee) \o FlattenSeq([k \in DOMAIN t |-> RustFed(t[k])])
Meanings(t) == [k \in DOMAIN t |-> Meaning(t[k])]

Table == {<<Stream(t), Meanings(t)>> :
            t \in UNION {SeqOf(Helpers, p.feeds) : p \in Programs}}

\* A hash is fed the callee and what its helper calls feed; any sequence of
\* helper calls that feeds the same bytes means the same: no argument can pass
\* for the end of another (lib.rs:207-691).
StreamsTellApart ==
  \A i \in Begun, s \in Sides :
    rust[i].active =>
      /\ rust[i][s].hash = Stream(script[i][s])
      /\ \A row \in Table :
           row[1] = rust[i][s].hash => row[2] = Meanings(script[i][s])

\* No name of a hashed struct, or of a field of one, has a length whose low byte
\* is a tag's: 48 bytes is the shortest such.
IsTag(b) == \E t \in DOMAIN Tag : Tag[t] = <<b>>

NamesAreNoTags ==
  \A h \in Helpers : h.ty = "struct" =>
    /\ ~ IsTag(Len(h.v.name) % 256)
    /\ \A i \in DOMAIN h.v.fields : ~ IsTag(Len(h.v.fields[i].name) % 256)

HasPath(tokens) ==
  \E k \in 1 .. Len(tokens) - 1 : tokens[k] = Colon /\ tokens[k + 1] = Colon

\* The derived impl hashes the fields of the declaration, all of them and in
\* order, or there is a compile error; there is one only for what is not a
\* struct with named fields and for a `::' in the body: no declaration makes
\* it skip or invent a field (tracehash-rs-derive/src/lib.rs:62-94).
DeriveFaithful ==
  LET decl == program.decl IN
  \/ DerivedFields(decl) = Names(decl)
  \/ /\ DerivedFields(decl) = Error
     /\ \/ ~Contains(decl.head, Struct) \/ decl.fields = <<>>
        \/ HasPath(decl.body)

\* Texts that README.md:559-563 gives to both languages, and those no language
\* knows.
ForBoth(parts) ==
  \/ parts = <<>> \/ parts = <<Word("all")>>
  \/ Len(parts) = 2 /\ parts[1] = Word("first") /\ parts[2].kind = "num"
  \/ parts[1].key \notin {"all", "first", "firstlast", "prob"}

\* A text for both languages selects the same calls in both, and the text that
\* the header of a log has for its policy (sampling.rs:157), read back, is the
\* policy that was in force.  `first:', `first:1x' and `all:x' are texts for
\* neither, and the two languages do read them differently.
PolicyTextsAgree ==
  LET inForce == RustPolicy(program.mode)
      text == Display(inForce)
  IN  /\ ForBoth(program.mode) => inForce = CPolicy(program.mode)
      /\ WellFormed(text) /\ FromStr(text) = inForce
=============================================================================
