---- MODULE MCGateway ----
(***************************************************************************)
(* Two callers for TLC: one of an agent with a budget of its own, asking a *)
(* provider behind the Cloudflare gateway, and one that asks a direct      *)
(* provider and is delegated upstream.                                     *)
(***************************************************************************)
EXTENDS Gateway, TLC

CONSTANTS c1, c2, coder, critic, cloud, backup, local, hub, q

Agents2 == c1 :> coder @@ c2 :> critic
Questions1 == [c \in Callers |-> q]
Requested2 == c1 :> cloud @@ c2 :> local
Priority2 == <<cloud, local>>
Chain2 == <<backup, local>>
Budgets == [a \in Agents |-> 1]
====
