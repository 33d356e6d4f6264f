------------------------------- MODULE Delegation ------------------------------
(***************************************************************************)
(* A manager agent asking its sub-agents: each ask_<sub> is a nested run   *)
(* of the sub's profile inside the manager's tool call, with what is left  *)
(* of the manager's time and tool calls for a budget (kernos/agents.py,    *)
(* kernos/host.py run_sub, kernos/plugins/run.py, app/agent.py run_turn).  *)
(*                                                                         *)
(* The manager's engine waits for the tool: its cap can fire in the        *)
(* sidecar meanwhile, but the turn goes on until the nested run returns.   *)
(* A tool other than ask_* takes no time.  The stages in front of the      *)
(* engine take up to Delay.                                                *)
(***************************************************************************)
EXTENDS Integers, Sequences, SequencesExt

CONSTANTS
    Agents,     \* the root and the subs
    Root,
    Delegates,  \* delegates_to of each agent; it may be cyclic
    Seconds,    \* what a profile may give as max_seconds
    Calls,      \* what it may give as max_tools
    Depths,     \* what a sub may have as max_depth
    RootDepths, \* what the root may have
    Margin,     \* seconds kept back from the manager's budget
    Floor,      \* a run with less is refused
    Delay       \* bound on the time from a run's start to its engine's

ASSUME CapsAssumption == {Margin, Floor, Delay} \cup Seconds \cup Calls \subseteq Nat
ASSUME DepthsAssumption == Depths \cup RootDepths \subseteq Nat /\ Root \in Agents
ASSUME DelegatesAssumption == Delegates \in [Agents -> SUBSET Agents]

VARIABLES
    now,
    caps,       \* the published caps of each agent's profile
    maxDepth,   \* max_depth of each agent
    runs        \* the runs nested in each other, the root's first

delegationVars == <<now, caps, maxDepth, runs>>

NotYet == -1

\* A run, with the caps its engine is given and those of its profile.
Run(agent, seconds, tools, at) ==
    [agent |-> agent, profile |-> caps[agent], seconds |-> seconds, tools |-> tools,
     started |-> at, timer |-> NotYet, calls |-> 0, under |-> 0]

DelegationInit ==
    /\ now = 0
    /\ caps \in [Agents -> [seconds : Seconds, tools : Calls]]
    /\ maxDepth \in {d \in [Agents -> Depths \cup RootDepths] :
                     d[Root] \in RootDepths /\ \A a \in Agents \ {Root} : d[a] \in Depths}
    /\ runs = <<Run(Root, caps[Root].seconds, caps[Root].tools, 0)>>
-----------------------------------------------------------------------------

Running == runs # <<>>
Top == Last(runs)
Put(run) == Front(runs) \o <<run>>
Deadline(run) == run.timer + run.seconds

\* No timer of the innermost run is overdue.
Tick ==
    /\ Running
    /\ IF Top.timer = NotYet THEN now - Top.started < Delay ELSE now < Deadline(Top)
    /\ now' = now + 1
    /\ UNCHANGED <<caps, maxDepth, runs>>

\* The sidecar opens the session, and its deadline runs.
Begins ==
    /\ Running /\ Top.timer = NotYet
    /\ runs' = Put([Top EXCEPT !.timer = now])
    /\ UNCHANGED <<now, caps, maxDepth>>

\* The engine still runs: neither of its caps is reached.
Open ==
    /\ Running /\ Top.timer # NotYet
    /\ now < Deadline(Top)
    /\ Top.calls < Top.tools

Call ==
    /\ Open
    /\ runs' = Put([Top EXCEPT !.calls = @ + 1])
    /\ UNCHANGED <<now, caps, maxDepth>>

\* Mutant of DepthLimit: every agent's own limit.
OwnDepth == maxDepth[Top.agent]

\* The root's limit, carried unchanged into every nested run.
DepthLimit == maxDepth[Root]

\* ask_* tools exist only while depth + 1 is below the limit; the root's depth is 0.
Askable == IF Len(runs) >= DepthLimit THEN {} ELSE Delegates[Top.agent]

\* What was spent before this call.
Used == Top.calls + Top.under

\* Mutant of Budget: what the manager has used is not taken off.
BudgetWhole == [seconds |-> Top.profile.seconds - Margin, tools |-> Top.profile.tools]

\* DelegationPack.budget: of the profile's caps, which are not those of a clamped run.
Budget ==
    [seconds |-> Top.profile.seconds - (now - Top.started) - Margin,
     tools |-> IF Top.profile.tools - Used > 1 THEN Top.profile.tools - Used ELSE 1]

Least(a, b) == IF a < b THEN a ELSE b

\* ask_<sub>: below the floor it is refused; otherwise it starts the nested run.
Ask ==
    /\ Open
    /\ \E sub \in Askable :
         LET asked == Put([Top EXCEPT !.calls = @ + 1]) IN
         runs' = IF Budget.seconds < Floor THEN asked
                 ELSE Append(asked, Run(sub, Least(caps[sub].seconds, Budget.seconds),
                                        Least(caps[sub].tools, Budget.tools), now))
    /\ UNCHANGED <<now, caps, maxDepth>>

\* A run ends: its model answers, a cap is reached, or a stage of it fails.  Its calls,
\* and those nested in it, are put under the manager's.
Ends ==
    /\ Running
    /\ runs' = IF Len(runs) = 1 THEN <<>>
               ELSE LET manager == Last(Front(runs)) IN
                    Front(Front(runs)) \o <<[manager EXCEPT !.under = @ + Top.calls + Top.under]>>
    /\ UNCHANGED <<now, caps, maxDepth>>

DelegationNext == Tick \/ Begins \/ Call \/ Ask \/ Ends
DelegationSpec == DelegationInit /\ [][DelegationNext]_delegationVars
-----------------------------------------------------------------------------

\* Whatever the profiles say and whoever may ask whom, a nested run is over while the
\* manager that waits for it still has time to answer (the margin pays for the stages in
\* front of the sub's engine).
TimeIsLeftToAnswer ==
    \A i \in 1..(Len(runs) - 1) : now <= runs[i].started + runs[i].seconds

\* A cycle of delegates_to ends at the root's max_depth.
NestingEnds == Len(runs) <= (IF maxDepth[Root] > 1 THEN maxDepth[Root] ELSE 1)

\* The sub-agents of a turn never take it past the manager's max_tools, but for the one
\* call a sub is always granted.
CallsAreShared ==
    \A i \in 1..(Len(runs) - 1) :
      LET before == runs[i].calls - 1 + runs[i].under
          inside == runs[i + 1].calls + runs[i + 1].under
      IN  before + inside <= (IF before < runs[i].tools THEN runs[i].tools ELSE before + 1)

SubsStayInTheBudget == TimeIsLeftToAnswer /\ NestingEnds /\ CallsAreShared
=============================================================================
