-------------------------------- MODULE MCKernel -------------------------------
(***************************************************************************)
(* The planes of the kernel for TLC: the content of a profile, a           *)
(* collection of data, the agents of a business, and the evidence of a     *)
(* publish.  They share no state; part says which one a behaviour is       *)
(* about, and the others stay in an initial state.                         *)
(***************************************************************************)
EXTENDS Content, Agents, Evals

CONSTANTS MaxId, MaxActions, MaxCards, MaxEdits           \* Data
ASSUME KernelBounds == MaxId \in Nat

VARIABLES
    part,
    options, schema, docs, counter, drawn, turn, cards, put, edits, calm

\* The specs whose probe and evals pass: every one but the second money rule
\* without a style rule.
AllButOne == [{"money", "style"} -> Bodies \cup {0}] \ {[s \in {"money", "style"} |-> IF s = "money" THEN 2 ELSE 0]}

Data == INSTANCE Data

dataVars == <<options, schema, docs, counter, drawn, turn, cards, put, edits, calm>>
kernelVars == <<part, vars, dataVars, agentVars, evalVars>>

OneOf(S) == CHOOSE x \in S : TRUE

KernelInit ==
    /\ part \in {"content", "data", "agents", "evals"}
    /\ Init /\ Data!Init /\ AgentsInit /\ EvalsInit
    /\ part = "data" \/ ~options.soft
    /\ part = "agents" \/ OneOf(AgentIds) \in DOMAIN agents
    /\ part = "evals" \/ specs[1].content = OneOf(Contents)

InContent == part = "content" /\ Next /\ UNCHANGED <<part, dataVars, agentVars, evalVars>>
InData == part = "data" /\ Data!Next /\ UNCHANGED <<part, vars, agentVars, evalVars>>
InAgents == part = "agents" /\ AgentsNext /\ UNCHANGED <<part, vars, dataVars, evalVars>>
InEvals == part = "evals" /\ EvalsNext /\ UNCHANGED <<part, vars, dataVars, agentVars>>

KernelNext == InContent \/ InData \/ InAgents \/ InEvals

KernelSpec == KernelInit /\ [][KernelNext]_kernelVars
-----------------------------------------------------------------------------

\* The card of a turn could be confirmed as long as nothing has changed, and no two
\* records were given one number (Data).
CardCanBeConfirmed == Data!CardCanBeConfirmed /\ Data!NumbersAreDrawnOnce

\* A confirmed card does what it showed, within the definition in force (Data).
CardAppliesAsShown == Data!CardAppliesAsShown /\ Data!CardsObeyTheSchemaInForce
=============================================================================
