--------------------------- MODULE MCCachedResults ---------------------------
(* CachedResults on two tasks.  With one byte for a and b and nine for big,   *)
(* and a threshold of 6 bytes, <<a>> and <<a, b>> are small, <<a, b, a>> is   *)
(* too long and <<big>> is one item too large.                                *)
EXTENDS CachedResults

CONSTANTS a, b, big

MCItem == {a, b, big}
MCWord == {"mcp-cache-", "missing", "", "+"}
MCBytes == [v \in MCItem |-> IF v = big THEN 9 ELSE 1]
MCArrays == {<<a>>, <<a, b, a>>, <<big>>}

MCNames == {Handle(id) : id \in 0 .. IdSpace - 1}

NoArgs == [page_token |-> {}, handle |-> {}, offset |-> {}, limit |-> {}]

(* By token, by handle, and by handle with a null token, within the array, at *)
(* its end and past it, with the default limit, none, and the largest one;    *)
(* and one from_args refuses.                                                 *)
MCRequests ==
    {[NoArgs EXCEPT !.page_token = {PageToken(Handle(id), 1)}, !.limit = {1}] :
        id \in 0 .. IdSpace - 1}
      \cup {[NoArgs EXCEPT !.page_token = {NotAString}, !.handle = {Handle(0)}],
            [NoArgs EXCEPT !.handle = {Handle(1)}, !.limit = {0}],
            [NoArgs EXCEPT !.handle = {Handle(0)}, !.offset = {2}, !.limit = {MaxUsize}],
            [NoArgs EXCEPT !.page_token = {Handle(0)}]}

TaskSymmetry == Permutations(Tasks)
===============================================================================
