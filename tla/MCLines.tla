--------------------------------- MODULE MCLines -------------------------------
(***************************************************************************)
(* What must go on over lines that break, for TLC: the bridge to the       *)
(* sidecar over its pipes, and the outbox of the client over the network.  *)
(* The two do not meet; part says which one a behaviour is about.          *)
(***************************************************************************)
EXTENDS Engine, Outbox

VARIABLE part

linesVars == <<part, vars, outboxVars>>

LinesInit == part \in {"bridge", "client"} /\ Init /\ OutboxInit

AtBridge(A) == part = "bridge" /\ A /\ UNCHANGED <<part, outboxVars>>
AtClient(A) == part = "client" /\ A /\ UNCHANGED <<part, vars>>

LinesNext == AtBridge(Next) \/ AtClient(OutboxNext)

\* The fairness of Engine and of Outbox, for the part that runs.
LinesFairness ==
    /\ \A r \in Reqs :
         /\ WF_linesVars(AtBridge(Send(r))) /\ WF_linesVars(AtBridge(Launch(r)))
         /\ WF_linesVars(AtBridge(LaunchSucceeds(r) \/ LaunchFails(r)))
         /\ WF_linesVars(AtBridge(Take(r))) /\ WF_linesVars(AtBridge(ToolReturns(r)))
         /\ WF_linesVars(AtBridge(CapEnds(r)))
    /\ WF_linesVars(AtBridge(ReadLine)) /\ WF_linesVars(AtBridge(ReadLoopEnds))
    /\ WF_linesVars(AtBridge(ExitSeen))
    /\ \A v \in Views : WF_linesVars(AtClient(TimerFires(v))) /\ WF_linesVars(AtClient(Posts(v)))

LinesSpec == LinesInit /\ [][LinesNext]_linesVars /\ LinesFairness
=============================================================================
