----------------------------- MODULE WireValues -----------------------------
(***************************************************************************)
(* Decoded JSON as the validators see it (internal.go, UseNumber).  A text *)
(* is the sequence of its parts between NUL bytes, so that putting two     *)
(* texts together with a NUL between them is concatenation.                *)
(***************************************************************************)
EXTENDS Naturals, Sequences

CONSTANT Parts \* texts without a NUL

ASSUME PartsAssumption == "" \in Parts

String(text) == [kind |-> "string", text |-> text]
Bool(truth) == [kind |-> "boolean", truth |-> truth]
Number(int64, finite) == [kind |-> "number", int64 |-> int64, finite |-> finite]
Array(items) == [kind |-> "array", items |-> items]
Object(fields) == [kind |-> "object", fields |-> fields]
Null == [kind |-> "null"]

Empty == <<"">>
IsText(text) == text \in Seq(Parts) /\ Len(text) > 0
HasNul(text) == Len(text) > 1

IsString(value) == value.kind = "string"
IsBool(value) == value.kind = "boolean"

(* Numbers keep their spelling, which may be that of an int64, or of        *)
(* something no float64 holds.                                              *)
IsInteger(value) == value.kind = "number" /\ value.int64

(* The text of a field, empty when it is absent or no string. *)
StringField(raw, field) ==
  IF field \in DOMAIN raw /\ IsString(raw[field]) THEN raw[field].text ELSE Empty
=============================================================================
