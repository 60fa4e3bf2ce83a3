------------------------------ MODULE MCCache ------------------------------
(***************************************************************************)
(* Buffers that begin and end inside lines and on their borders, smaller     *)
(* and larger than the cache.                                               *)
(***************************************************************************)
EXTENDS Cache

Shapes(k) == IF k = "code" THEN {<<1, 4>>, <<0, 3>>}
             ELSE {<<1, 2>>, <<1, 4>>, <<0, 3>>, <<0, 4>>}
MCJobs == UNION {{[kind |-> k, addr |-> x[1], size |-> x[2]] : x \in Shapes(k)} :
                   k \in {"out", "in", "code"}}
=============================================================================
