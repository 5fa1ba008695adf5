------------------------------ MODULE IpcShapes ------------------------------
(***************************************************************************)
(* How a JSON document that crosses the observability IPC boundary is      *)
(* described here.                                                         *)
(*                                                                         *)
(* A value is seen through its class: what the schema and the hand-written *)
(* validators can tell apart.  A value is one item of a class or a list    *)
(* whose items are all of one class; an object that follows a named shape  *)
(* has the shape's name as its class.  A type is the set of the values it  *)
(* allows, and a shape gives each field of an object its type; a field     *)
(* that is left out has the value "absent".                                *)
(***************************************************************************)
EXTENDS Naturals, TLC

Scalars == {"null", "true", "false",
            "empty",                 \* the empty string
            "text", "word",          \* any text; a word the field knows
            "date", "path",          \* a date-time; an absolute path
            "zero", "one", "count", "negative", "fraction",
            "object"}                \* an object of no shape named here

\* What a JavaScript value can be and JSON cannot carry.
Runtime == {"function", "moment", "infinite"}

Classes == Scalars \cup Runtime

One(S)  == {[many |-> FALSE, of |-> c] : c \in S}
List(S) == {[many |-> TRUE, of |-> c] : c \in S}

\* Every value a field can be given.
Values == One(Classes \cup {"absent"}) \cup List(Classes \cup {"nothing"})

Items(T) == {v.of : v \in {w \in T : ~w.many}}

SomeOf(T)   == List(Items(T))                  \* a list that is not empty
ListOf(T)   == List(Items(T) \cup {"nothing"})
Opt(T)      == T \cup One({"absent"})
Nullable(T) == T \cup One({"null"})
Is(c)       == One({c})
Ref(shape)  == One({shape})
Either(S)   == One(S)

Name     == One({"text", "word", "date", "path"})
String   == Name \cup One({"empty"})
Known    == One({"word"})
Flag     == One({"true", "false"})
Bit      == One({"zero", "one"})
Positive == One({"one", "count"})
Whole    == Positive \cup One({"zero"})
Amount   == Whole \cup One({"fraction"})
Number   == Amount \cup One({"negative"})
Object   == One({"object"})

\* A field no table names.
Undeclared == "undeclared"

\* A shape whose fields in S all have type T.
Each(S, T) == [f \in S |-> T]

NoFields == Each({}, {})

-----------------------------------------------------------------------------
(***************************************************************************)
(* A table gives shapes their fields.  An object of any shape passes       *)
(* where just an object is asked for.                                      *)
(***************************************************************************)
Takes(shapes, T, v) ==
    \/ v \in T
    \/ v.of \in shapes /\ [v EXCEPT !.of = "object"] \in T

\* The shapes a document of the root shape is checked against, directly or
\* through the fields that refer to them.
RECURSIVE Closure(_, _)
Closure(table, found) ==
    LET next == found \cup {v.of : v \in UNION {UNION {table[s][f] : f \in DOMAIN table[s]}
                                                : s \in found \cap DOMAIN table}}
    IN  IF next = found THEN found ELSE Closure(table, next)

Reached(table, root) == Closure(table, {root}) \cap DOMAIN table

=============================================================================
