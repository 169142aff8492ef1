---------------------------- MODULE MCStdioSession ----------------------------
(***************************************************************************)
(* Sessions with the fixture as the child, which serves two more tools:    *)
(* nothing returns null, with a schema that MCP does not carry, and stuck  *)
(* never returns.                                                          *)
(***************************************************************************)
EXTENDS StdioSession, Fixture, TLC

CONSTANTS berlin, list1

five  == [a |-> 2, b |-> 3]
over  == [a |-> MaxI64, b |-> 1]
wrong == [a |-> berlin, city |-> berlin]

(* An addition, null, and an array, which is refused. *)
MCArgs  == {five, Null, list1}

(* All arguments that the tools tell apart. *)
AllArgs == {five, over, wrong, Null}

MCOthers == {list1}

MCNoFields == [f \in {} |-> f]

MCObjects ==
    {MCNoFields, five, over, wrong, [sum |-> 5], BigPayload.value,
     [city |-> berlin, forecast |-> "clear and cool", transport |-> "stdio-mcp"]}
      \cup {s.args_schema : s \in Descriptors} \cup {s.result_schema : s \in Descriptors}

MCPhrases ==
    {"weather.lookup requires city", "math.checked_add requires integer a",
     "math.checked_add requires integer b", "math.checked_add overflowed"}

MCregistry ==
    [p \in Names \X (Args \cup {Null, NoFields}) |->
        IF p[1] \in {"nothing", "stuck"} THEN Ok(Null) ELSE Outcome(p[1], p[2])]

MCschemas == Descriptors \cup {Descriptor("nothing", list1, NoFields)}
===============================================================================
