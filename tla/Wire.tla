-------------------------------- MODULE Wire --------------------------------
(***************************************************************************)
(* How the client reads the server's JSON (src/model/parse.c).  Servers    *)
(* differ in how they send a number or a flag - as itself, as a string, or *)
(* not at all -, and a label comes as an object or as an array by          *)
(* position.  A JSON value is known here by its kind and by what the       *)
(* client can read from it; the text of a string is a token.               *)
(***************************************************************************)
EXTENDS Lists, SequencesExt

CONSTANT NoText  \* a string that is not there: NULL

Missing == [is |-> "missing"]
Null == [is |-> "null"]
Number(n) == [is |-> "int", int |-> n]
Flag(b) == [is |-> "bool", bool |-> b]
Array(items) == [is |-> "array", items |-> items]
Object(fields) == [is |-> "object", fields |-> fields]

\* A string: its token, its first character, and the number strtol reads in it.
Str(text, first, n) == [is |-> "str", text |-> text, first |-> first, int |-> n]

\* The field of an object, and the entry of an array, that may not be there.
Field(v, key) == IF key \in DOMAIN v.fields THEN v.fields[key] ELSE Missing
Entry(v, i) == IF i \in DOMAIN v.items THEN v.items[i] ELSE Missing

\* js_int
JsInt(v, default) == IF v.is \in {"int", "str"} THEN v.int ELSE default

\* Mutant: any string that is there is a yes.
JsBoolAnyString(v, default) ==
    CASE v.is = "bool" -> v.bool
      [] v.is = "int" -> v.int # 0
      [] v.is = "str" -> TRUE
      [] OTHER -> default

\* js_bool
JsBool(v, default) ==
    CASE v.is = "bool" -> v.bool
      [] v.is = "int" -> v.int # 0
      [] v.is = "str" -> v.first \in {"t", "T", "1"}
      [] OTHER -> default

\* Mutant: a null is a text as well.
JsStrOfNull(v) ==
    CASE v.is = "str" -> v.text
      [] v.is = "null" -> "null"
      [] OTHER -> NoText

\* js_str; no server of ours sends a text as a number.
JsStr(v) == IF v.is = "str" THEN v.text ELSE NoText

\* parse_label_entry: by position, only a number is an id.
IsLabel(v) == v.is \in {"object", "array"}
ParseLabel(v) ==
    IF v.is = "object"
    THEN [id |-> JsInt(Field(v, "id"), 0),
          caption |-> JsStr(Field(v, "caption")),
          checked |-> JsBool(Field(v, "checked"), FALSE)]
    ELSE [id |-> IF Entry(v, 1).is = "int" THEN Entry(v, 1).int ELSE 0,
          caption |-> JsStr(Entry(v, 2)),
          checked |-> FALSE]

\* parse_labels_array: what is no array is empty, what is no entry is left out.
ParseLabels(v) ==
    IF v.is # "array" THEN <<>>
    ELSE LET entries == Subsequence(v.items, {i \in DOMAIN v.items : IsLabel(v.items[i])})
         IN  [i \in DOMAIN entries |-> ParseLabel(entries[i])]

\* parse_headline_obj, the fields that are annotations.
ParseHeadline(v) ==
    [id |-> JsInt(Field(v, "id"), 0),
     note |-> JsStr(Field(v, "note")),
     score |-> JsInt(Field(v, "score"), 0),
     labels |-> {l.caption : l \in ToSet(ParseLabels(Field(v, "labels")))}]

-----------------------------------------------------------------------------
(* The dialects of servers (external): how each sends a value.             *)

Dialects == {"plain", "strings", "sparse"}

SendInt(n, d) ==
    CASE d = "strings" -> Str("digits", "other", n)
      [] d = "sparse" /\ n = 0 -> Missing
      [] OTHER -> Number(n)

SendBool(b, d) ==
    CASE d = "plain" -> Flag(b)
      [] d = "strings" -> IF b THEN Str("true", "t", 0) ELSE Str("false", "f", 0)
      [] d = "sparse" -> Number(IF b THEN 1 ELSE 0)

\* A text that is not there is null, or left out.
SendText(t, d) ==
    CASE t # NoText -> Str(t, "other", 0)
      [] t = NoText /\ d = "sparse" -> Missing
      [] OTHER -> Null
=============================================================================
