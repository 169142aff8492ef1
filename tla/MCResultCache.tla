---------------------------- MODULE MCResultCache ----------------------------
(* ResultCache alone: three tasks, as many stores as ids, handles of every id *)
(* the cache will draw and one it never draws.                                *)
EXTENDS ResultCache

CONSTANTS a, b

MCItem == {a, b}
MCWord == {"mcp-cache-", "missing", "", "+"}
MCBytes == [v \in MCItem |-> 1]
MCArrays == {<<a, b>>, <<b>>}
MCNames == {Handle(id) : id \in 0 .. IdSpace - 1} \cup {<< [word |-> "missing", num |-> 0] >>}
TaskSymmetry == Permutations(Tasks)
===============================================================================
