------------------------------- MODULE MCProbe ------------------------------
(***************************************************************************)
(* Instances of Probe for TLC.  Names are short, values chosen so that one *)
(* argument could pass for the end of another where a length or a tag is   *)
(* missing.                                                                *)
(***************************************************************************)
EXTENDS Probe

a == <<97>>
aU == <<97, 85>>

Arg(s, ty, v)         == [side |-> s, form |-> "pos", ty |-> ty, v |-> v, name |-> <<>>, q |-> 0]
Named(s, ty, v)       == [Arg(s, ty, v) EXCEPT !.form = "as", !.name = a]
Quant(s, v, q)        == [Arg(s, "f32q", v) EXCEPT !.q = q]
FieldOf(s, n, ty, v)  == [Arg(s, ty, v) EXCEPT !.form = "field", !.name = n]
ValueOf(s, ty, v)     == [Arg(s, ty, v) EXCEPT !.form = "value"]
-----------------------------------------------------------------------------
\* Declarations: up to two fields, each with what may stand around its name
\* and a type.
Field(n, ty, v) == [name |-> n, ty |-> ty, v |-> v]
Before == {<<>>, <<Pub>>, <<Pub, Group>>, <<Punct(<<35>>), Group>>}
T == Ident(<<84>>)
Less == Punct(<<60>>)
More == Punct(<<62>>)
Types == {<<T>>, <<Group>>, <<T, Less, T, Comma, T, More>>,
          <<T, Colon, Colon, T>>, <<T, Less, T, Comma, T, Colon, Colon, T, More>>}
FieldTokens(n) == {b \o <<Ident(n), Colon>> \o t : b \in Before, t \in Types}

Decl(head, body, fields) ==
  [name |-> aU, head |-> head, body |-> body, fields |-> fields]

fx == Field(<<120>>, "u64", 7)
fy == Field(<<121>>, "bool", 1)

Structs ==
  {Decl(<<Pub, Struct, T>>, x \o <<Comma>> \o y, <<fx, fy>>) :
     x \in FieldTokens(fx.name), y \in FieldTokens(fy.name)}
  \cup {Decl(<<Struct, T>>, x \o c, <<fx>>) :
          x \in FieldTokens(fx.name), c \in {<<>>, <<Comma>>}}
  \cup {Decl(<<Struct, T>>, <<>>, <<>>), Decl(<<Struct, T, Group>>, NoBody, <<>>),
        Decl(<<T, T>>, <<T, Comma, T>>, <<>>)}

Plain(fields) ==
  Decl(<<Struct, T>>,
       FlattenSeq([i \in DOMAIN fields |-> <<Ident(fields[i].name), Colon, T, Comma>>]),
       fields)
P1 == Plain(<<fx, fy>>)
P2 == Plain(<<Field(aU, "f32", 66)>>)
-----------------------------------------------------------------------------
Second == {Num(n) : n \in {0, 2}} \cup {NumJunk(2), Word(""), Word("x"), KV("first", 2)}
Third == {KV("first", 2), KV("last", 0), KV("last", 2), Word("x"), Num(1)}
Modes == {<<>>} \cup
  {<<Word(w)>> \o t : w \in {"all", "first", "firstlast", "prob", "x"},
     t \in {<<>>} \cup {<<p>> : p \in Second} \cup {<<p, r>> : p \in Second, r \in Third}
           \cup {<<p, r, r2>> : p \in Second, r \in Third, r2 \in Third}}

Env(tsv, deep, values) == [tsv |-> tsv, deep |-> deep, values |-> values]
Program(env, mode, decl, calls, feeds) ==
  [tsv |-> env.tsv, deep |-> env.deep, values |-> env.values, mode |-> mode,
   decl |-> decl, calls |-> calls, feeds |-> feeds]
Envs == {Env(TRUE, TRUE, TRUE), Env(TRUE, FALSE, FALSE), Env(FALSE, TRUE, TRUE)}

MCPrograms ==
  {Program(Env(FALSE, FALSE, FALSE), m, P1, 0, 0) : m \in Modes}
  \cup {Program(Env(FALSE, FALSE, FALSE), <<>>, d, 0, 0) : d \in Structs}
  \cup {Program(Env(FALSE, FALSE, TRUE), <<>>, P1, 1, 1)}
  \cup {Program(e, <<>>, P1, 1, 2) : e \in Envs}
  \cup {Program(e, <<>>, P1, 2, 1) : e \in Envs}

InHelpers ==
  {Arg("in", "u64", 322), Arg("in", "usize", 322), Arg("in", "i64", -1),
   Arg("in", "bool", 1), Arg("in", "f32", 85), Arg("in", "f64", -2),
   Arg("in", "bytes", <<>>), Arg("in", "bytes", <<85, 66>>),
   Quant("in", 3, 16), Quant("in", -3, 16), Quant("in", 4, 16), Quant("in", NaN, 16),
   Quant("in", NaN, 0), Quant("in", 9000, 1),
   Named("in", "u64", 322), Named("in", "bytes", <<85>>), Named("in", "i64", -1),
   FieldOf("in", a, "u64", 322), FieldOf("in", aU, "bool", 1),
   FieldOf("in", a, "str", a), ValueOf("in", "struct", P1), ValueOf("in", "struct", P2),
   ValueOf("in", "bytes", <<66, 1>>), ValueOf("in", "some", 1), ValueOf("in", "none", 0),
   ValueOf("in", "str", <<85>>), ValueOf("in", "u64", 1)}

OutHelpers ==
  {Arg("out", "u64", 322), Named("out", "bytes", <<85>>), Quant("out", -3, 16),
   FieldOf("out", aU, "bool", 1), ValueOf("out", "struct", P1)}

MCHelpers == InHelpers \cup OutHelpers
MCCallee == <<102>>

\* What the theorem about StreamsTellApart supposes of names.
ASSUME MCNames == NamesAreNoTags

\* A struct with a field of bytes.
PB == Plain(<<Field(<<120>>, "bytes", <<1>>)>>)
MCBytesHelpers == {ValueOf(s, "struct", PB) : s \in {"in", "out"}}
MCBytesPrograms == {Program(Env(TRUE, TRUE, TRUE), <<>>, PB, 1, 1)}
=============================================================================
