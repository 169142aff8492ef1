-------------------------------- MODULE Fixture --------------------------------
(***************************************************************************)
(* The registry that the stdio fixture serves (rig_mcp_stdio_fixture.rs).  *)
(* A JSON object is a function from the names of its fields.               *)
(***************************************************************************)
EXTENDS Seam, Integers

CONSTANTS
    MaxI64,     \* i64::MAX
    Strings     \* the JSON strings among the fields of arguments

-------------------------------------------------------------------------------
I64 == -MaxI64 - 1 .. MaxI64

Field(args, name) ==
    IF args \in Objects /\ name \in DOMAIN args THEN {args[name]} ELSE {}

required_i64(args, name) == Field(args, name) \cap I64

Refused(why) == Failure("InvalidArgument", why)

WeatherLookup(args) ==
    LET city == Field(args, "city") \cap Strings
    IN  IF city = {} THEN Refused("weather.lookup requires city")
        ELSE Ok([city |-> UnwrapOr(city, Null), forecast |-> "clear and cool",
                 transport |-> "stdio-mcp"])

CheckedAdd(args) ==
    LET a   == required_i64(args, "a")
        b   == required_i64(args, "b")
        sum == UnwrapOr(a, 0) + UnwrapOr(b, 0)
    IN  IF a = {} THEN Refused("math.checked_add requires integer a")
        ELSE IF b = {} THEN Refused("math.checked_add requires integer b")
        ELSE IF sum \notin I64 THEN Refused("math.checked_add overflowed")
        ELSE Ok([sum |-> sum])

(* diagnostics.exit_mid_rpc ends the process: what follows is unreachable. *)
ExitMidRpcTool == Ok(NoFields)

BigPayload == Ok([blob |-> "10000 x", items |-> "0 to 199"])

(* registry.invoke. *)
Outcome(name, args) ==
    CASE name = "weather.lookup"           -> WeatherLookup(args)
      [] name = "math.checked_add"         -> CheckedAdd(args)
      [] name = "diagnostics.exit_mid_rpc" -> ExitMidRpcTool
      [] name = "diagnostics.big_payload"  -> BigPayload
      [] OTHER                             -> Failure("UnknownTool", name)

(* registry.schemas, of which only the fields are kept. *)
ObjectSchema(required, properties) ==
    [type |-> "object", required |-> required, properties |-> properties]

AnyObject == ObjectSchema({}, {})

Descriptor(name, args_schema, result_schema) ==
    [name |-> name, args_schema |-> args_schema, result_schema |-> result_schema]

Descriptors ==
    {Descriptor("weather.lookup", ObjectSchema({"city"}, {"city"}),
                ObjectSchema({}, {"city", "forecast", "transport"})),
     Descriptor("math.checked_add", ObjectSchema({"a", "b"}, {"a", "b"}),
                ObjectSchema({}, {"sum"})),
     Descriptor("diagnostics.exit_mid_rpc", AnyObject, AnyObject),
     Descriptor("diagnostics.big_payload", AnyObject, ObjectSchema({}, {"blob", "items"}))}
===============================================================================
