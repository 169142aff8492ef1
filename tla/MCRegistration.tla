---------------------------- MODULE MCRegistration ----------------------------
(***************************************************************************)
(* An instance of Registration: one connection lists a name twice and out  *)
(* of order, the next one, to a newer version of the same peer, has one of *)
(* the tools with another schema and misses the other.  Both peers may     *)
(* have a cache of their own and list its tools.                           *)
(***************************************************************************)
EXTENDS Registration

CONSTANTS c1, c2, cache

(* The hosts are alike. *)
SameHosts == Permutations(Hosts)

Schema(name, version) == [name |-> name, version |-> version]

MCOrder ==
    [n \in Names |-> IF n = "cache.page" THEN 1 ELSE IF n = "cache.release" THEN 2 ELSE 3]

CacheTools == cache :> << Schema("cache.page", 0), Schema("cache.release", 0) >>

MCListing ==
    CacheTools @@
    (c1 :> << Schema("mul", 1), Schema("cache.page", 1), Schema("mul", 2) >>) @@
    (c2 :> << Schema("mul", 3) >>)

(* Without duplicates. *)
MCPlainListing ==
    CacheTools @@ (c1 :> << Schema("mul", 1) >>) @@ (c2 :> << Schema("mul", 2) >>)

(* All of the registry, or the remote tool of it. *)
MCScopes == {Names, {"mul"}}
===============================================================================
