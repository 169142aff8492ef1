----------------------------- MODULE SeamTheorems -----------------------------
(***************************************************************************)
(* What a call keeps across the seam of stdio.rs, for every value, error   *)
(* and schema.                                                             *)
(***************************************************************************)
EXTENDS Seam, TLAPS

(* The outcomes a registry can have. *)
RegistryOutcomes ==
    [kind : {"ok"}, value : Values] \cup
    [kind : {"error"}, error : STRING, message : Phrases]

LEMMA UnwrapSome == \A x, d : UnwrapOr({x}, d) = x
  <1>1. ASSUME NEW x, NEW d PROVE UnwrapOr({x}, d) = x
    <2>1. {x} # {}
      OBVIOUS
    <2>2. (CHOOSE y \in {x} : TRUE) = x
      OBVIOUS
    <2> QED
      BY <2>1, <2>2 DEF UnwrapOr
  <1> QED
    BY <1>1

LEMMA UnwrapNone == \A d : UnwrapOr({}, d) = d
  BY DEF UnwrapOr

LEMMA FirstOfOne == \A x : FirstText(<< {x} >>) = {x}
  <1>1. ASSUME NEW x PROVE FirstText(<< {x} >>) = {x}
    <2> DEFINE content == << {x} >>
    <2>1. DOMAIN content = {1} /\ content[1] = {x}
      OBVIOUS
    <2>2. {i \in DOMAIN content : content[i] # {}} = {1}
      BY <2>1
    <2>3. (CHOOSE i \in {1} : \A j \in {1} : i <= j) = 1
      OBVIOUS
    <2> HIDE DEF content
    <2>4. FirstText(content) = content[1]
      BY <2>2, <2>3 DEF FirstText
    <2> QED
      BY <2>1, <2>4 DEF content
  <1> QED
    BY <1>1

(* A value comes through stdio unchanged, null included, although null is     *)
(* lost as structured content on the way and read back from the text; an      *)
(* error comes through as a ToolFailed that says what it was (stdio.rs:150-   *)
(* 156, 325-352): "implementations MUST round-trip the result JSON without    *)
(* modification" (transport.rs:35-36).                                        *)
THEOREM ResultRoundTrip ==
    \A outcome \in RegistryOutcomes :
        FromResult(OverTheWire(ToResult(outcome))) = SeenAs(outcome)
  <1> SUFFICES ASSUME NEW outcome \in RegistryOutcomes
               PROVE  FromResult(OverTheWire(ToResult(outcome))) = SeenAs(outcome)
    OBVIOUS
  <1>1. CASE outcome.kind = "ok"
    <2> DEFINE v    == outcome.value
               sent == Structured(v)
               got  == OverTheWire(sent)
    <2>1. outcome = Ok(v)
      BY <1>1 DEF RegistryOutcomes, Ok
    <2>2. /\ got.content = << {Rendering(v)} >>
          /\ got.is_error = {FALSE}
          /\ got.structured_content = {v} \ {Null}
      BY DEF OverTheWire, Structured
    <2>3. FirstText(got.content) = {Rendering(v)}
      BY <2>2, FirstOfOne
    <2>4. UnwrapOr(got.is_error, FALSE) = FALSE
      BY <2>2, UnwrapSome
    <2>5. FromText(Rendering(v)) = v
      <3>1. Parse(Rendering(v)) = {v}
        BY DEF Parse, Rendering
      <3> QED
        BY <3>1, UnwrapSome DEF FromText
    <2>6. {FromText(t) : t \in {Rendering(v)}} = {v}
      BY <2>5
    <2> DEFINE text == UnwrapOr({FromText(t) : t \in {Rendering(v)}}, Null)
    <2>7. text = v
      BY <2>6, UnwrapSome
    <2>8. UnwrapOr(got.structured_content, text) = v
      <3>1. CASE v = Null
        <4>1. got.structured_content = {}
          BY <3>1, <2>2
        <4> QED
          BY <4>1, <2>7, UnwrapNone
      <3>2. CASE v # Null
        <4>1. got.structured_content = {v}
          BY <3>2, <2>2
        <4> QED
          BY <4>1, UnwrapSome
      <3> QED
        BY <3>1, <3>2
    <2>9. FromResult(got) = Ok(UnwrapOr(got.structured_content, text))
      <3> HIDE DEF got
      <3> QED
        BY <2>3, <2>4 DEF FromResult
    <2>10. FromResult(got) = Ok(v)
      BY <2>8, <2>9
    <2>11. ToResult(outcome) = sent
      BY <1>1 DEF ToResult
    <2> QED
      BY <2>1, <2>10, <2>11, <1>1 DEF SeenAs
  <1>2. CASE outcome.kind # "ok"
    <2> DEFINE text == ErrorText(outcome)
               got  == OverTheWire(Failed(text))
    <2>1. got.content = << {text} >> /\ got.is_error = {TRUE}
      BY DEF OverTheWire, Failed
    <2>2. FirstText(got.content) = {text}
      BY <2>1, FirstOfOne
    <2>3. UnwrapOr(got.is_error, FALSE) = TRUE
      BY <2>1, UnwrapSome
    <2>4. UnwrapOr({text}, Prose(<<"tool returned error">>)) = text
      BY UnwrapSome
    <2>5. FromResult(got) = Failure("ToolFailed", text)
      <3> HIDE DEF got, text
      <3> QED
        BY <2>2, <2>3, <2>4 DEF FromResult
    <2>6. ToResult(outcome) = Failed(text)
      BY <1>2 DEF ToResult
    <2> QED
      BY <2>5, <2>6, <1>2 DEF SeenAs
  <1> QED
    BY <1>1, <1>2

(* An object arrives at the tool as it was passed, and null as the empty      *)
(* object (stdio.rs:146-149, 301-303).                                        *)
THEOREM ArgumentsArrive ==
    /\ \A args \in Objects : Received(Arguments(args)) = args
    /\ Received(Arguments(Null)) = NoFields
  <1>1. ASSUME NEW args \in Objects PROVE Received(Arguments(args)) = args
    <2>1. Arguments(args) = {args}
      BY JsonAssumption DEF Arguments
    <2> QED
      BY <2>1, UnwrapSome DEF Received
  <1>2. Received(Arguments(Null)) = NoFields
    BY UnwrapNone DEF Received, Arguments
  <1> QED
    BY <1>1, <1>2

(* A schema that has crossed the seam once crosses it again unchanged, so a   *)
(* server that serves the tools of another one shows the same schemas; and    *)
(* the first crossing changes only schemas that are not what MCP can carry    *)
(* (stdio.rs:76-94, 358-368).                                                 *)
THEOREM SchemasSettle ==
    \A schema :
        /\ Relayed(Relayed(schema)) = Relayed(schema)
        /\ schema.args_schema \in Objects =>
             Relayed(schema).args_schema = schema.args_schema
        /\ schema.result_schema \in (Objects \ {NoFields}) \cup {Null} =>
             Relayed(schema).result_schema = schema.result_schema
  <1> SUFFICES ASSUME NEW schema
               PROVE  /\ Relayed(Relayed(schema)) = Relayed(schema)
                      /\ schema.args_schema \in Objects =>
                           Relayed(schema).args_schema = schema.args_schema
                      /\ schema.result_schema \in (Objects \ {NoFields}) \cup {Null} =>
                           Relayed(schema).result_schema = schema.result_schema
    OBVIOUS
  <1> DEFINE once == Relayed(schema)
  <1>1. /\ once.name = schema.name
        /\ once.args_schema = IF schema.args_schema \in Objects THEN schema.args_schema
                                                                ELSE NoFields
        /\ once.result_schema = IF schema.result_schema \in Objects \ {NoFields}
                                  THEN schema.result_schema ELSE Null
    BY UnwrapSome, UnwrapNone DEF Relayed, ToRmcpTool, FromRmcpTool
  <1>2. once = [name |-> once.name, args_schema |-> once.args_schema,
                result_schema |-> once.result_schema]
    BY DEF Relayed, FromRmcpTool
  <1>3. once.args_schema \in Objects /\ once.result_schema \in (Objects \ {NoFields}) \cup {Null}
    BY <1>1, JsonAssumption
  <1>4. Null \notin Objects
    BY JsonAssumption
  <1>5. Relayed(once) = [name |-> once.name, args_schema |-> once.args_schema,
                         result_schema |-> once.result_schema]
    <2> HIDE DEF once
    <2>1. ToRmcpTool(once).input_schema = once.args_schema /\ ToRmcpTool(once).name = once.name
      BY <1>3 DEF ToRmcpTool
    <2>2. UnwrapOr(ToRmcpTool(once).output_schema, Null) = once.result_schema
      <3>1. CASE once.result_schema \in Objects \ {NoFields}
        <4>1. ToRmcpTool(once).output_schema = {once.result_schema}
          BY <3>1 DEF ToRmcpTool
        <4> QED
          BY <4>1, UnwrapSome
      <3>2. CASE once.result_schema = Null
        <4>1. ToRmcpTool(once).output_schema = {}
          BY <3>2, <1>4 DEF ToRmcpTool
        <4> QED
          BY <4>1, <3>2, UnwrapNone
      <3> QED
        BY <1>3, <3>1, <3>2
    <2> QED
      BY <2>1, <2>2 DEF Relayed, FromRmcpTool
  <1> QED
    BY <1>1, <1>2, <1>4, <1>5
===============================================================================
