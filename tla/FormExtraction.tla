--------------------------- MODULE FormExtraction ---------------------------
(***************************************************************************)
(* functions/form-data-extraction: the caller gives fields, or a schema in *)
(* JSON whose size is bounded, and the model's answer is checked against   *)
(* what was given.  A JSON value is the set of the paths of its nodes, the *)
(* root's the empty one; "accepts" tells the answers that meet a schema,   *)
(* which ajv decides and which is external.  An answer maps the names it   *)
(* has to values of a type.                                                *)
(***************************************************************************)
EXTENDS Integers, Sequences, FiniteSets, FiniteSetsExt, Functions

MAX_FIELDS == 50
MAX_NESTING_DEPTH == 3
MAX_SCHEMA_BYTES == 20000

Missing == <<>>         \* an argument that is not given, or is malformed

FieldSpec == [name : STRING, type : {"string", "number", "boolean", "date"},
              required : BOOLEAN, enum : SUBSET STRING]

IsFormArgs(args) ==
    /\ args.fields \in Seq(FieldSpec)
    /\ args.schema # Missing =>
           /\ IsFiniteSet(args.schema[1].paths)
           /\ <<>> \in args.schema[1].paths
           /\ args.schema[1].paths \subseteq Seq(STRING)

(* Every node is a level, the keywords' values too.                        *)
measureDepth(value) == 1 + Max({Len(path) : path \in value})

WithinBounds(schema) ==
    /\ measureDepth(schema.paths) <= MAX_NESTING_DEPTH
    /\ Cardinality(schema.paths) <= MAX_FIELDS
    /\ schema.bytes <= MAX_SCHEMA_BYTES

(* The union takes the fields if they are well formed, and then forgets    *)
(* the schema; it looks at the schema only if they are not.                *)
parseFormArgs(args) ==
    IF args.fields # Missing /\ Len(args.fields) <= MAX_FIELDS
    THEN [fields |-> args.fields, schema |-> Missing]
    ELSE IF args.schema # Missing /\ WithinBounds(args.schema[1])
    THEN [fields |-> Missing, schema |-> args.schema]
    ELSE [fields |-> Missing, schema |-> Missing]

RefusedArgs(args) == parseFormArgs(args) = [fields |-> Missing, schema |-> Missing]

(* The values of a field: of the enum, whatever its type, or of its type,  *)
(* a date being any string; null too if it is not required.                *)
fieldToZod(spec, value) ==
    \/ value.type = "null" /\ ~spec.required
    \/ IF spec.enum # {} THEN value.type = "string" /\ value.text \in spec.enum
       ELSE value.type = IF spec.type = "date" THEN "string" ELSE spec.type

(* Mutant: of two fields of one name the first counts.                     *)
SpecOfFirst(fields, name) ==
    fields[Min({i \in DOMAIN fields : fields[i].name = name})]

(* Of two fields of one name the last counts.                              *)
SpecOf(fields, name) ==
    fields[Max({i \in DOMAIN fields : fields[i].name = name})]
Names(fields) == {fields[i].name : i \in DOMAIN fields}

(* A field that is not there is not taken for null.                        *)
buildFormResultSchema(fields, answer) ==
    \A name \in Names(fields) :
        name \in DOMAIN answer /\ fieldToZod(SpecOf(fields, name), answer[name])

(* What comes of the answer: the fields asked for and no others, whatever  *)
(* meets the schema, or the code of the failure.                           *)
executeFormDataExtraction(given, answer) ==
    LET args == parseFormArgs(given)
    IN CASE RefusedArgs(given) -> [code |-> "INVALID_ARGS"]
         [] args.fields # Missing /\ buildFormResultSchema(args.fields, answer) ->
                [code |-> "success", fields |-> Restrict(answer, Names(args.fields))]
         [] args.schema # Missing /\ args.schema[1].compiles
                /\ answer \in args.schema[1].accepts ->
                [code |-> "success", fields |-> answer]
         [] args.schema # Missing /\ args.schema[1].compiles
                /\ answer \notin args.schema[1].accepts ->
                [code |-> "SCHEMA_VALIDATION_FAILED"]
         [] OTHER -> [code |-> "INTERPRETATION_FAILED"]
=============================================================================
