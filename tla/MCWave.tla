---- MODULE MCWave ----
(***************************************************************************)
(* A run for TLC: the decomposer's architect, developer, tester, reviewer  *)
(* and devops roles with a security role beside the tester, which makes a  *)
(* mixed wave of an executor and two chat roles, and a wave after it.      *)
(***************************************************************************)
EXTENDS WaveProperties, TLC

CONSTANTS architect, developer, tester, security, devops, reviewer

Order == architect :> 0 @@ developer :> 1 @@ tester :> 2 @@ security :> 3
         @@ devops :> 4 @@ reviewer :> 5

Uses == architect :> {} @@ developer :> {architect}
        @@ tester :> {architect, developer} @@ security :> {architect, developer}
        @@ devops :> {architect, developer}
        @@ reviewer :> {architect, developer, tester}

Modes == [r \in Steps |-> IF r \in {developer, tester} THEN "executor" ELSE "chat"]

\* Chat roles must answer something, the developer's files are checked.
Checks == [r \in Steps |-> IF r = tester THEN "none" ELSE "checks"]

\* chat_require_output.
Chats == {r \in Steps : Modes[r] = "chat"}

Fresh == [r \in Steps |-> "pending"]
====
