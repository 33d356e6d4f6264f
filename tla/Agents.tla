-------------------------------- MODULE Agents --------------------------------
(***************************************************************************)
(* The agents of one business, the spaces bound to them, and what a space  *)
(* runs: binding, else the default agent, then its profile's published     *)
(* version with the binding's overrides, kept in the resolver's cache.     *)
(*                                                                         *)
(* A store method is one step; its on_change callbacks (the cache is       *)
(* cleared) run after the commit, in the same thread and before it answers.*)
(* A resolve reads the binding, the agent and the profile in transactions  *)
(* of its own and fills the cache at the end, so that the admin routes,    *)
(* which run in worker threads, come in between.                           *)
(*                                                                         *)
(* Overrides 0 change nothing.  The _system business, the text fields and  *)
(* the delegates' own profiles are left out.                               *)
(***************************************************************************)
EXTENDS Naturals, FiniteSets, Functions

CONSTANTS
    AgentIds,     \* ids an agent can have
    Spaces,       \* space ids
    Profiles,     \* profiles, each with a published version
    MaxLast,      \* bound on the published versions
    MaxBinds      \* bound on the bindings made

VARIABLES
    agents,     \* the agents there are, by id
    bindings,   \* the bound spaces
    published,  \* published_version_id of each profile
    lastId,     \* the last version id given
    cache,      \* the resolver's cache, by version and space
    reading,    \* the resolve in progress
    overtaken,  \* a change was made since that resolve began (history)
    stale,      \* cache keys filled by a resolve that a change overtook (history)
    binds       \* bindings made so far, a bound

agentVars == <<agents, bindings, published, lastId, cache, reading, overtaken, stale, binds>>

Roles == {"manager", "sub"}
Overrides == {0, 1}
NoResolve == [at |-> "idle"]

DefaultAgents == {a \in DOMAIN agents : agents[a].default}
Bound == {bindings[s].agent : s \in DOMAIN bindings}
Referrers(a) == {r \in DOMAIN agents : a \in agents[r].delegates}

\* f, with a new row for x or in place of the one it has.
With(f, x, row) == [z \in DOMAIN f \cup {x} |-> IF z = x THEN row ELSE f[z]]

\* ensure_seeded has made the default agent and published its profile.
AgentsInit ==
    /\ \E a \in AgentIds, p \in Profiles :
         agents = [b \in {a} |-> [role |-> "manager", default |-> TRUE, delegates |-> {}, profile |-> p]]
    /\ bindings = <<>> /\ cache = <<>> /\ reading = NoResolve /\ overtaken = FALSE /\ stale = {} /\ binds = 0
    /\ \E f \in [Profiles -> 1..Cardinality(Profiles)] : IsInjective(f) /\ published = f
    /\ lastId = Cardinality(Profiles)
-----------------------------------------------------------------------------

\* Mutant of Changed: the resolver is not told.
ChangedInSilence == UNCHANGED <<cache, stale>> /\ overtaken' = TRUE

\* _changed: on_change, that is, invalidate.
Changed == cache' = <<>> /\ stale' = {} /\ overtaken' = TRUE

Unseen == UNCHANGED <<cache, stale, overtaken>>

\* Mutant of CheckDelegates: any agent of the business.
CheckDelegatesLoosely(self, ds) == ds \subseteq DOMAIN agents \ {self}

\* _check_delegates: a sub of the business that is not the agent itself, not the
\* default and not bound.
CheckDelegates(self, ds) ==
    /\ ds \subseteq DOMAIN agents \ {self}
    /\ \A d \in ds : agents[d].role = "sub" /\ ~agents[d].default /\ d \notin Bound

\* Mutant of MayChangeRole: nobody asks who delegates to it.
MayChangeRoleUnlessShown(a) == ~agents[a].default /\ a \notin Bound

MayChangeRole(a) == ~agents[a].default /\ a \notin Bound /\ Referrers(a) = {}

\* Mutant of Demoted: the other default stays one.
DemotedNobody(as) == as

\* The other defaults step down.
Demoted(as) == [b \in DOMAIN as |-> [as[b] EXCEPT !.default = FALSE]]

CreateAgent(a, role, default, ds, p) ==
    /\ a \notin DOMAIN agents
    /\ default => role = "manager"
    /\ CheckDelegates(a, ds)
    /\ agents' = With(IF default THEN Demoted(agents) ELSE agents,
                      a, [role |-> role, default |-> default, delegates |-> ds, profile |-> p])
    /\ overtaken' = TRUE
    /\ UNCHANGED <<bindings, published, lastId, cache, reading, stale, binds>>

\* A patch names each of these fields or leaves it as it is.
UpdateAgent(a, role, default, ds, p) ==
    /\ role # agents[a].role => MayChangeRole(a)
    /\ default => role = "manager"
    /\ ds # agents[a].delegates => CheckDelegates(a, ds)
    /\ agents' = With(IF default THEN Demoted(agents) ELSE agents,
                      a, [role |-> role, default |-> default, delegates |-> ds, profile |-> p])
    /\ Changed
    /\ UNCHANGED <<bindings, published, lastId, reading, binds>>

BindSpace(s, a, overrides) ==
    /\ binds < MaxBinds
    /\ agents[a].role = "manager"
    /\ bindings' = With(bindings, s, [agent |-> a, overrides |-> overrides])
    /\ binds' = binds + 1
    /\ Changed
    /\ UNCHANGED <<agents, published, lastId, reading>>

UnbindSpace(s) ==
    /\ bindings' = Restrict(bindings, DOMAIN bindings \ {s})
    /\ Changed
    /\ UNCHANGED <<agents, published, lastId, reading, binds>>

\* A publish or a rollback of a profile.
PublishProfile(p) ==
    /\ lastId < MaxLast
    /\ lastId' = lastId + 1
    /\ published' = [published EXCEPT ![p] = lastId']
    /\ Changed
    /\ UNCHANGED <<agents, bindings, reading, binds>>
-----------------------------------------------------------------------------

(* Resolving: describe, in three transactions, then the cache. *)

ResolveReadsBinding(s) ==
    /\ reading = NoResolve
    /\ reading' = IF s \in DOMAIN bindings
                  THEN [at |-> "agent", space |-> s, agent |-> bindings[s].agent,
                        overrides |-> bindings[s].overrides]
                  ELSE [at |-> "default", space |-> s, overrides |-> 0]
    /\ overtaken' = FALSE
    /\ UNCHANGED <<agents, bindings, published, lastId, cache, stale, binds>>

\* An unbound space runs the business's default agent, or the fallback.
ResolveReadsAgent ==
    /\ reading.at \in {"agent", "default"}
    /\ \/ /\ reading.at = "default" /\ DefaultAgents = {}
          /\ reading' = NoResolve
       \/ \E a \in IF reading.at = "agent" THEN {reading.agent} ELSE DefaultAgents :
             reading' = [at |-> "profile", space |-> reading.space, overrides |-> reading.overrides,
                         profile |-> agents[a].profile]
    /\ UNCHANGED <<agents, bindings, published, lastId, cache, overtaken, stale, binds>>

ResolveReadsProfile ==
    /\ reading.at = "profile"
    /\ LET key == <<published[reading.profile], reading.space>> IN
         reading' = IF key \in DOMAIN cache THEN NoResolve
                    ELSE [at |-> "fill", key |-> key, overrides |-> reading.overrides]
    /\ UNCHANGED <<agents, bindings, published, lastId, cache, overtaken, stale, binds>>

\* The cached spec is the version with the overrides that were read.
ResolveFills ==
    /\ reading.at = "fill"
    /\ cache' = With(cache, reading.key, reading.overrides)
    /\ stale' = IF overtaken THEN stale \cup {reading.key} ELSE stale \ {reading.key}
    /\ reading' = NoResolve
    /\ UNCHANGED <<agents, bindings, published, lastId, overtaken, binds>>

AgentsNext ==
    \/ \E a \in AgentIds, role \in Roles, default \in BOOLEAN, p \in Profiles,
          ds \in SUBSET DOMAIN agents :
         \/ CreateAgent(a, role, default, ds, p)
         \/ a \in DOMAIN agents /\ UpdateAgent(a, role, default, ds, p)
    \/ \E s \in Spaces, a \in DOMAIN agents, o \in Overrides : BindSpace(s, a, o)
    \/ \E s \in DOMAIN bindings : UnbindSpace(s)
    \/ \E p \in Profiles : PublishProfile(p)
    \/ \E s \in Spaces : ResolveReadsBinding(s)
    \/ ResolveReadsAgent \/ ResolveReadsProfile \/ ResolveFills

AgentsSpec == AgentsInit /\ [][AgentsNext]_agentVars
-----------------------------------------------------------------------------

\* Whatever is created, patched, bound and unbound, in any order: one agent at
\* most is the default; the default and every bound agent are managers; and an
\* agent delegates only to subs of its business, never to itself ("its role
\* cannot change" while it is bound, default or delegated to).
OneDefault == \A a, b \in DefaultAgents : a = b
ManagersServeSpaces ==
    /\ \A a \in DefaultAgents : agents[a].role = "manager"
    /\ \A s \in DOMAIN bindings :
         bindings[s].agent \in DOMAIN agents /\ agents[bindings[s].agent].role = "manager"
SubsAreDelegatedTo ==
    \A a \in DOMAIN agents : \A d \in agents[a].delegates :
        d \in DOMAIN agents /\ d # a /\ agents[d].role = "sub"
RolesHold == OneDefault /\ ManagersServeSpaces /\ SubsAreDelegatedTo

\* The overrides a space has now.
OverridesNow(s) == IF s \in DOMAIN bindings THEN bindings[s].overrides ELSE 0

\* What the cache serves a space carries the overrides of its binding, unless the
\* entry was filled by a resolve that a change overtook: the change has cleared the
\* cache by then, and nothing clears it again.
CacheIsCurrent ==
    \A k \in DOMAIN cache : k \in stale \/ cache[k] = OverridesNow(k[2])

AgentsServeTheirSpaces == RolesHold /\ CacheIsCurrent
=============================================================================
