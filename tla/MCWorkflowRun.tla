--------------------------- MODULE MCWorkflowRun ---------------------------
(***************************************************************************)
(* Strategies for TLC to run: small graphs in which every kind of step,    *)
(* every branch and every join of two paths occurs.                        *)
(***************************************************************************)
EXTENDS WorkflowRun

Table(f, default) == [s \in Steps |-> IF s \in DOMAIN f THEN f[s] ELSE default]

Nothing == [s \in {} |-> NoStep]

(* remind -> pause (Wait) -> check: yes -> done, no -> ask (Human Review)  *)
(* -> warn (a message) -> done                                             *)
ChaseSteps == {"remind", "pause", "check", "ask", "warn", "done"}
ChaseKind ==
  Table([remind |-> "Communication", pause |-> "Wait", check |-> "Condition",
         ask |-> "Human Review", warn |-> "Communication"], "Outcome")
ChaseNext ==
  Table([remind |-> "pause", pause |-> "check", ask |-> "warn", warn |-> "done"],
        NoStep)
ChaseYes == Table([check |-> "done"], NoStep)
ChaseNo  == Table([check |-> "ask"], NoStep)
ChaseWaitFor == Table([warn |-> "payment"], "nothing")

(* start -> pause (Wait) -> think (AI Reassessment) -> warn (a message) -> *)
(* freeze (Case Action: On Hold) -> check: yes -> nothing, no -> gone, an  *)
(* id the strategy lacks                                                   *)
HoldSteps == {"start", "pause", "think", "warn", "freeze", "check", "gone"}
HoldKind ==
  Table([start |-> "Trigger", pause |-> "Wait", think |-> "AI Reassessment",
         warn |-> "Communication", freeze |-> "Case Action",
         check |-> "Condition"], "missing")
HoldNext ==
  Table([start |-> "pause", pause |-> "think", think |-> "warn", warn |-> "freeze",
         freeze |-> "check"], NoStep)
HoldYes  == Table(Nothing, NoStep)
HoldNo   == Table([check |-> "gone"], NoStep)

NoWaitFor == Table(Nothing, "nothing")
HoldWaitFor == Table([warn |-> "payment"], "nothing")
NoEffect  == Table(Nothing, [add |-> {}, drop |-> {}])
Freeze ==
  Table([freeze |-> [add |-> {"on hold"}, drop |-> {}]], [add |-> {}, drop |-> {}])
=============================================================================
