---- MODULE MCTopo ----
(***************************************************************************)
(* Every dependency graph over three steps, with self-dependencies and     *)
(* repeated dependencies.                                                  *)
(***************************************************************************)
EXTENDS TopoOrder

ThreeIds == <<"a", "b", "c">>
====
