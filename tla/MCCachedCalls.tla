----------------------------- MODULE MCCachedCalls -----------------------------
(* Two clients call two tools with large results and one that fails, and read *)
(* a page of one item at a time.                                              *)
EXTENDS CachedCalls

CONSTANTS a, b

MCItem == {a, b}
MCWord == {"mcp-cache-", "", "+"}
MCBytes == [v \in MCItem |-> 1]
MCResult ==
    [ask \in Asks |->
        CASE ask = "long"  -> [kind |-> "array", items |-> <<a, b, a>>]
          [] ask = "other" -> [kind |-> "array", items |-> <<b, b>>]
          [] ask = "bad"   -> Error("wrapped tool")]
MCArrays == {MCResult[ask].items : ask \in {x \in Asks : MCResult[x].kind = "array"}}
MCLimits == {{1}}
MCNames == CacheHandles
MCRequests == ClientRequests
TaskSymmetry == Permutations(Tasks)
===============================================================================
