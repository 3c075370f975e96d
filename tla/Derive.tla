------------------------------- MODULE Derive -------------------------------
(***************************************************************************)
(* derive(TraceHash) (src/tracehash-rs-derive/src/lib.rs): which fields of *)
(* a struct the generated impl hashes, from the tokens of its declaration. *)
(*                                                                         *)
(* A token is [kind, text], the text in bytes: an identifier (keywords     *)
(* included), a punctuation character (`::' is two), or a group, which is  *)
(* one token: what is in (..) and [..] is never looked at.  A declaration  *)
(* has its tokens before the body (head), and the tokens in its braces.    *)
(***************************************************************************)
EXTENDS Integers, Sequences, SequencesExt

Ident(x) == [kind |-> "ident", text |-> x]
Punct(x) == [kind |-> "punct", text |-> x]
Group    == [kind |-> "group", text |-> <<>>]

Struct == Ident(<<115, 116, 114, 117, 99, 116>>)
Pub    == Ident(<<112, 117, 98>>)
Colon  == Punct(<<58>>)
Comma  == Punct(<<44>>)

NoBody == <<Punct(<<59>>)>>  \* a tuple struct, a unit struct
Error  == <<<<33>>>>         \* compile_error!(..) in place of the impl

NoFields == [fields |-> <<>>, candidate |-> <<>>, before_colon |-> TRUE,
             failed |-> FALSE]

\* Mutant of FieldToken: a colon without a candidate in front is passed over.
FieldTokenLenient(st, tok) ==
  IF st.failed THEN st
  ELSE IF tok.kind = "ident" /\ st.before_colon /\ tok # Pub
  THEN [st EXCEPT !.candidate = <<tok.text>>]
  ELSE IF tok = Colon
  THEN [st EXCEPT !.candidate = <<>>, !.fields = @ \o st.candidate,
                  !.before_colon = FALSE]
  ELSE IF tok = Comma
  THEN [st EXCEPT !.candidate = <<>>, !.before_colon = TRUE]
  ELSE st

\* One turn of the loop of parse_named_fields: the last identifier before a
\* colon is a field, any comma ends the field, and a colon without a
\* candidate in front is an error.
FieldToken(st, tok) ==
  IF st.failed THEN st
  ELSE IF tok.kind = "ident" /\ st.before_colon /\ tok # Pub
  THEN [st EXCEPT !.candidate = <<tok.text>>]
  ELSE IF tok = Colon
  THEN [st EXCEPT !.failed = st.candidate = <<>>, !.candidate = <<>>,
                  !.fields = @ \o st.candidate, !.before_colon = FALSE]
  ELSE IF tok = Comma
  THEN [st EXCEPT !.candidate = <<>>, !.before_colon = TRUE]
  ELSE st

\* parse_named_fields: token by token.
ParseNamedFields(body) ==
  LET st[i \in 0 .. Len(body)] ==
        IF i = 0 THEN NoFields ELSE FieldToken(st[i - 1], body[i])
  IN  st[Len(body)]

\* expand: a struct, with a body in braces that has fields.
DerivedFields(decl) ==
  LET st == ParseNamedFields(decl.body) IN
  IF Contains(decl.head, Struct) /\ decl.body # NoBody
     /\ ~st.failed /\ st.fields # <<>>
  THEN st.fields
  ELSE Error
-----------------------------------------------------------------------------
(***************************************************************************)
(* What Rust's grammar has between the braces of a struct: the name of     *)
(* each field and a colon (at), a comma somewhere between two fields, and  *)
(* in a type, outside of groups, no colon but those of `::'.               *)
(***************************************************************************)
IsBody(body, names) ==
  \E at \in [DOMAIN names -> 1 .. Len(body) - 1] :
    /\ \A k \in DOMAIN names :
         /\ body[at[k]] = Ident(names[k]) /\ body[at[k]] # Pub
         /\ body[at[k] + 1] = Colon
    /\ \A k \in DOMAIN names, j \in DOMAIN names :
         k < j => \E i \in at[k] + 2 .. at[j] - 1 : body[i] = Comma
    /\ \A i \in DOMAIN body : body[i] = Colon =>
         \/ \E k \in DOMAIN names : i = at[k] + 1
         \/ \E j \in {i - 1, i + 1} \cap DOMAIN body : body[j] = Colon
=============================================================================
