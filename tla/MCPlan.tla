---- MODULE MCPlan ----
(***************************************************************************)
(* Small plans for TLC: each one a value for the constants of PlanEngine.  *)
(***************************************************************************)
EXTENDS PlanProperties, TLC

\* A chat draft that a human reviews, an executor build with checks beside
\* it, and an executor step behind both.
ReleaseSteps == {"review", "build", "ship"}
ReleaseDeps == "review" :> {} @@ "build" :> {} @@ "ship" :> {"review", "build"}
ReleasePos == "review" :> 1 @@ "build" :> 2 @@ "ship" :> 3
ReleaseMode == "review" :> "chat" @@ "build" :> "executor" @@ "ship" :> "executor"
ReleaseAcceptance == "review" :> "human" @@ "build" :> "checks" @@ "ship" :> "none"

\* Three independent chats, one of them reviewed, another checked; an executor
\* step that merges two of them.
FanSteps == {"ask", "plan", "vet", "merge"}
FanDeps == "ask" :> {} @@ "plan" :> {} @@ "vet" :> {} @@ "merge" :> {"ask", "plan"}
FanPos == "ask" :> 1 @@ "plan" :> 2 @@ "vet" :> 3 @@ "merge" :> 4
FanMode == "ask" :> "chat" @@ "plan" :> "chat" @@ "vet" :> "chat" @@ "merge" :> "executor"
FanAcceptance == "ask" :> "none" @@ "plan" :> "checks" @@ "vet" :> "human" @@ "merge" :> "checks"
FanQuick == [FanAcceptance EXCEPT !["vet"] = "none"]

\* The same, and a business gate seeded at verifying with a business step
\* behind it.
GatedSteps == FanSteps \cup {"gate", "act"}
GatedDeps == FanDeps @@ "gate" :> {} @@ "act" :> {"gate"}
GatedPos == FanPos @@ "gate" :> 5 @@ "act" :> 6
GatedMode == FanMode @@ "gate" :> "business" @@ "act" :> "business"
GatedAcceptance == FanAcceptance @@ "gate" :> "human" @@ "act" :> "action"
GateSeeded == [s \in GatedSteps |-> IF s = "gate" THEN "verifying" ELSE "pending"]

\* What a run left that died while "ask" was executed.
FanKept == [s \in FanSteps |-> CASE s = "ask"  -> "running"
                                 [] s = "plan" -> "verified"
                                 [] OTHER      -> "pending"]

AllPending == [s \in Steps |-> "pending"]

BothModes == {"shadow", "active"}
ActiveOnly == {"active"}
====
