--------------------------------- MODULE Seam ---------------------------------
(***************************************************************************)
(* What the two sides of stdio.rs make of arguments, results, errors and   *)
(* schemas where they hand them to rmcp and take them from it.             *)
(*                                                                         *)
(* A JSON value is opaque except where the code tells values apart: null,  *)
(* objects, the empty object, everything else.  A text is a rendering of a *)
(* JSON value or is no JSON at all, and a text is itself a string value.   *)
(* An Option is a set of at most one element.                              *)
(***************************************************************************)
EXTENDS Naturals, Sequences

CONSTANTS
    Objects,    \* JSON objects
    NoFields,   \* the object {}
    Null,       \* JSON null
    Others,     \* JSON numbers, booleans, arrays
    Phrases     \* what a text that is not JSON may say

ASSUME JsonAssumption ==
    /\ NoFields \in Objects
    /\ Null \notin Objects \cup Others
    /\ Objects \cap Others = {}

-------------------------------------------------------------------------------
Rendering(value) == [form |-> "json", of |-> value]
Prose(phrase)    == [form |-> "prose", of |-> phrase]

(* serde_json::from_str. *)
Parse(text) == IF text.form = "json" THEN {text.of} ELSE {}

(* Value::String. *)
StringOf(text) == [string |-> text]

Values == Objects \cup {Null} \cup Others \cup {StringOf(Prose(p)) : p \in Phrases}

(* Option::unwrap_or. *)
UnwrapOr(option, default) ==
    IF option = {} THEN default ELSE CHOOSE x \in option : TRUE

(* Outcomes of a tool, a registry or a transport: Result<Value, KernelError>. *)
Ok(value)               == [kind |-> "ok", value |-> value]
Failure(error, message) == [kind |-> "error", error |-> error, message |-> message]

(* Display of a KernelError, which names its kind and its message. *)
ErrorText(outcome) == Prose(<<outcome.error, outcome.message>>)

-------------------------------------------------------------------------------
(* Arguments: what the client sends, and what the server's registry receives. *)
Sendable(args)      == args \in Objects \cup {Null}
ArgumentsWithNull(args) == {args}   \* mutant of Arguments
Arguments(args)     == IF args = Null THEN {} ELSE {args}
Received(arguments) == UnwrapOr(arguments, NoFields)

(* Results: content blocks, each {text} or {} if it is no text, perhaps a     *)
(* structured content, and perhaps a word on whether the tool failed.         *)
Structured(value) ==
    [content |-> << {Rendering(value)} >>,
     structured_content |-> {value},
     is_error |-> {FALSE}]

Failed(text) ==
    [content |-> << {text} >>, structured_content |-> {}, is_error |-> {TRUE}]

(* The server's reply. *)
ToResult(outcome) ==
    IF outcome.kind = "ok" THEN Structured(outcome.value)
                           ELSE Failed(ErrorText(outcome))

(* A null member of a JSON message reads back as an absent one. *)
OverTheWire(result) == [result EXCEPT !.structured_content = @ \ {Null}]

FirstText(content) ==
    LET texts == {i \in DOMAIN content : content[i] # {}}
    IN  IF texts = {} THEN {}
        ELSE content[CHOOSE i \in texts : \A j \in texts : i <= j]

(* Mutant of FromText: a text is a string, JSON or not. *)
FromTextVerbatim(text) == StringOf(text)

(* A text is read as JSON if it is JSON, as a string otherwise. *)
FromText(text) == UnwrapOr(Parse(text), StringOf(text))

(* The client's reading: an error first, then the structured content, then    *)
(* the first text, then null.                                                 *)
FromResult(result) ==
    LET text == FirstText(result.content)
    IN  IF UnwrapOr(result.is_error, FALSE)
          THEN Failure("ToolFailed", UnwrapOr(text, Prose(<<"tool returned error">>)))
          ELSE Ok(UnwrapOr(result.structured_content,
                           UnwrapOr({FromText(t) : t \in text}, Null)))

(* What a registry's own outcome becomes for a caller across the seam. *)
SeenAs(outcome) ==
    IF outcome.kind = "ok" THEN outcome
                           ELSE Failure("ToolFailed", ErrorText(outcome))

-------------------------------------------------------------------------------
(* Schemas: rmcp wants an object for the arguments and a non-empty object or *)
(* nothing for the result.                                                   *)
ToRmcpTool(schema) ==
    [name |-> schema.name,
     input_schema |-> IF schema.args_schema \in Objects THEN schema.args_schema
                                                        ELSE NoFields,
     output_schema |-> IF schema.result_schema \in Objects \ {NoFields}
                         THEN {schema.result_schema} ELSE {}]

FromRmcpTool(tool) ==
    [name |-> tool.name,
     args_schema |-> tool.input_schema,
     result_schema |-> UnwrapOr(tool.output_schema, Null)]

Relayed(schema) == FromRmcpTool(ToRmcpTool(schema))
===============================================================================
