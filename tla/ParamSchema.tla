---------------------------- MODULE ParamSchema ----------------------------
(***************************************************************************)
(* The structural validation of an invocation's params against the schema  *)
(* that travels with them (schema.go).                                     *)
(***************************************************************************)
EXTENDS WireValues

CONSTANTS LowerName, \* strings.ToLower, on names
          HostOwned  \* the lower-case names of host-stamped scope

SchemaTypes == {<<"string">>, <<"integer">>, <<"number">>, <<"boolean">>, <<"string[]">>}

IsReserved(name) == LowerName[name] \in HostOwned

SchemaValid(schema) ==
  /\ schema.kind = "object"
  /\ \A name \in DOMAIN schema.fields :
       /\ schema.fields[name].kind = "object"
       /\ StringField(schema.fields[name].fields, "type") \in SchemaTypes

(* Required unless explicitly optional: anything but false requires. *)
Required(spec) ==
  ~("required" \in DOMAIN spec /\ IsBool(spec.required) /\ ~spec.required.truth)

HasType(value, type) ==
  \/ type = <<"string">> /\ IsString(value)
  \/ type = <<"boolean">> /\ IsBool(value)
  \/ type = <<"integer">> /\ IsInteger(value)
  \/ type = <<"number">> /\ value.kind = "number" /\ value.finite
  \/ /\ type = <<"string[]">> /\ value.kind = "array"
     /\ \A i \in DOMAIN value.items : IsString(value.items[i])

(* The params of a body; null is as good as none. *)
Params(raw) ==
  IF "params" \notin DOMAIN raw \/ raw.params = Null THEN Object(<<>>) ELSE raw.params

ParamsValid(raw) ==
  /\ "schema" \in DOMAIN raw /\ SchemaValid(raw.schema)
  /\ Params(raw).kind = "object"
  /\ LET params == Params(raw).fields
         specs == raw.schema.fields
     IN  /\ \A name \in DOMAIN params \cup DOMAIN specs : ~IsReserved(name)
         /\ DOMAIN params \subseteq DOMAIN specs
         /\ \A name \in DOMAIN specs :
              LET spec == specs[name].fields
              IN  IF name \in DOMAIN params THEN HasType(params[name], spec.type.text)
                                            ELSE ~Required(spec)
=============================================================================
