---------------------------- MODULE MCPagingClient ----------------------------
(* Two clients, three results: <<a>> passes, <<a, b, a, b>> and <<big, b>> are   *)
(* kept under a threshold of 6 bytes.                                         *)
EXTENDS PagingClient

CONSTANTS a, b, big

MCItem == {a, b, big}
MCWord == {"mcp-cache-", "missing", "", "+"}
MCBytes == [v \in MCItem |-> IF v = big THEN 9 ELSE 1]
MCArrays == {<<a>>, <<a, b, a, b>>, <<big, b>>}
MCLimits == {{}, {1}, {2}}
NoLimit == {{}}
FewLimits == {{0}, {1}, {2}}
MCNames == CacheHandles
MCRequests == ClientRequests
TaskSymmetry == Permutations(Tasks)
===============================================================================
