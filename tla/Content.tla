------------------------------ MODULE Content ------------------------------
(***************************************************************************)
(* The content plane of one profile: its versions, the source rows that    *)
(* snapshotting drafts read, and the proposals its agent opens.  Everyone  *)
(* who writes is here: boot, a room member, the agent itself, an operator, *)
(* and whoever approves or rejects a proposal.                             *)
(*                                                                         *)
(* Every store method is one transaction, and an operation of the host is  *)
(* several of them.  Operations that run on the event loop (the room       *)
(* editor, the agent's tools, a confirmed card) exclude each other; the    *)
(* admin routes run in worker threads and come between any two of their    *)
(* transactions.  op[p] is the operation process p is in the middle of.    *)
(*                                                                         *)
(* A spec is reduced to its rules: "money" is tagged money (the fence an   *)
(* agent and a member may not cross), "style" stands for every rule, skill *)
(* and prompt they may change; a body 0 is an absent rule.  Passing are    *)
(* the specs gates 1 to 4 let through.  The actors' reads that precede a   *)
(* first write are one step.                                               *)
(***************************************************************************)
EXTENDS Naturals, Sequences

CONSTANTS
    Bodies,        \* bodies a rule can have; non-zero naturals
    Passing,       \* specs with a passing probe and eval run
    MaxStarts      \* bound on the operations started

ASSUME BodiesAssumption == 0 \notin Bodies

VARIABLES
    versions,   \* the profile's versions: status, spec and the actor who drafted it
    live,       \* published_version_id
    managed,    \* "boot" until a person or an agent publishes
    pub,        \* who made the last publish (history)
    sources,    \* the business's source rows, by slug
    proposals,  \* change proposals, in order
    seen,       \* what a member's editor loaded: base version and etags
    mine,       \* the draft the agent's current turn edits, 0 for none
    op,         \* the operation each process is in the middle of
    started     \* operations started so far, a bound

vars == <<versions, live, managed, pub, sources, proposals, seen, mine, op, started>>

Slugs == {"money", "style"}
Specs == {s \in [Slugs -> Bodies \cup {0}] : s["money"] # 0}
Actors == {"boot", "member", "agent", "admin"}
Processes == {"loop", "thread"}
NoRow == [body |-> 0, by |-> "boot", audit |-> 0]
Idle == [at |-> "idle"]

\* An etag hashes the body and the frontmatter, which carries the audit stamp.
Etag(row) == <<row.body, row.audit>>

Draft(spec, actor) == [status |-> "draft", spec |-> spec, actor |-> actor]
LiveSpec == versions[live].spec

\* create_draft(snapshot=True): the rules are what the source rows say now.
Snapshot == [s \in Slugs |-> sources[s].body]

\* The rows that must follow a published draft, each with the etag it has now.
\* A removed rule has no row in it.
SourceChanges(published, draft) ==
    {[slug |-> s, body |-> draft[s], etag |-> Etag(sources[s])] :
        s \in {t \in Slugs \ {"money"} : draft[t] # 0 /\ draft[t] # published[t]}}

\* blacklisted_changes; the slugs other than "money" stand for what the agent's scope names.
Fenced(published, draft) == draft["money"] # published["money"]

\* Mutant of Gates: without gate 5, the tools' own check is all there is.
GatesOnSpec(spec, actor, skip) == skip \/ spec \in Passing

\* Gates 1 to 4 judge the spec, gate 5 an agent's distance from what is live.
Gates(spec, actor, skip) ==
    /\ skip \/ spec \in Passing
    /\ actor = "agent" => ~Fenced(LiveSpec, spec)

\* Mutant of CanPublish: the version's status is not looked at.
CanPublishAny(v, actor, skip) == Gates(versions[v].spec, actor, skip)

CanPublish(v, actor, skip) ==
    /\ versions[v].status \in {"draft", "superseded"}
    /\ Gates(versions[v].spec, actor, skip)

Published(vs, v) ==
    [i \in DOMAIN vs |->
        IF i = v THEN [vs[i] EXCEPT !.status = "published"]
        ELSE IF i = live THEN [vs[i] EXCEPT !.status = "superseded"] ELSE vs[i]]

\* Mutant of Publish: managed is left to the caller.
PublishUnmarked(v, actor) ==
    /\ versions' = Published(versions, v)
    /\ live' = v /\ pub' = actor /\ managed' = managed

Publish(v, actor) ==
    /\ versions' = Published(versions, v)
    /\ live' = v
    /\ managed' = "human"
    /\ pub' = actor

\* Mutant of Retired: the published version is retired like any other.
RetiredAnyway(vs, v) == [vs EXCEPT ![v].status = "retired"]

\* retire refuses the published version; the caller's cleanup then raises too.
Retired(vs, v) ==
    IF vs[v].status = "published" THEN vs ELSE [vs EXCEPT ![v].status = "retired"]

Start == started < MaxStarts /\ started' = started + 1
Busy(p, at) == op[p].at = at
Step(p, state) == op' = [op EXCEPT ![p] = state]
Released(p) == Step(p, Idle)
UnchangedProfile == UNCHANGED <<versions, live, managed, pub>>

Init ==
    /\ versions = <<[Draft([s \in Slugs |-> 1], "boot") EXCEPT !.status = "published"]>>
    /\ live = 1 /\ managed = "boot" /\ pub = "boot"
    /\ sources = [s \in Slugs |-> [body |-> 1, by |-> "boot", audit |-> 0]]
    /\ proposals = <<>>
    /\ seen = [base |-> 1, etags |-> [s \in Slugs |-> <<1, 0>>]]
    /\ mine = 0
    /\ op = [p \in Processes |-> Idle]
    /\ started = 0

-----------------------------------------------------------------------------
\* The room editor.

MemberLoads ==
    /\ Start
    /\ seen' = [base |-> live, etags |-> [s \in Slugs |-> Etag(sources[s])]]
    /\ seen' # seen
    /\ UNCHANGED <<versions, live, managed, pub, sources, proposals, mine, op>>

\* edit: the base is compared with the profile before anything is written.
EditReads(body) ==
    /\ Start
    /\ Busy("loop", "idle")
    /\ seen.base = live
    /\ body # LiveSpec["style"]
    /\ Step("loop", [at |-> "editing", base |-> live, body |-> body])
    /\ UNCHANGED <<versions, live, managed, pub, sources, proposals, seen, mine>>

\* The draft is based on what is published now, patched, then judged against
\* what was read; a problem retires it.
EditDrafts ==
    /\ Busy("loop", "editing")
    /\ LET base == versions[op["loop"].base].spec
           spec == [LiveSpec EXCEPT !["style"] = op["loop"].body]
           draft == Len(versions) + 1
           changes == SourceChanges(base, spec)
           drafted == Append(versions, Draft(spec, "member"))
           refused == \/ Fenced(base, spec)
                      \/ \E c \in changes : seen.etags[c.slug] \notin {<<0, 0>>, c.etag}
       IN IF refused
          THEN versions' = Retired(drafted, draft) /\ Released("loop")
          ELSE /\ versions' = drafted
               /\ Step("loop", [at |-> "publishing", base |-> op["loop"].base,
                                draft |-> draft, goal |-> spec, skip |-> FALSE,
                                changes |-> changes])
    /\ UNCHANGED <<live, managed, pub, sources, proposals, seen, mine, started>>

\* republish: any version but the live one, if it differs only inside the
\* room's scope; the draft is made from it, the gates on probe and eval skipped.
RepublishReads(target) ==
    /\ Start
    /\ Busy("loop", "idle")
    /\ target # live
    /\ ~Fenced(LiveSpec, versions[target].spec)
    /\ Step("loop", [at |-> "republishing", base |-> live, target |-> target,
                     goal |-> versions[target].spec])
    /\ UNCHANGED <<versions, live, managed, pub, sources, proposals, seen, mine>>

RepublishDrafts ==
    /\ Busy("loop", "republishing")
    /\ versions' = Append(versions, Draft(versions[op["loop"].target].spec, "member"))
    /\ Step("loop", [at |-> "publishing", base |-> op["loop"].base,
                     draft |-> Len(versions) + 1, goal |-> op["loop"].goal, skip |-> TRUE])
    /\ UNCHANGED <<live, managed, pub, sources, proposals, seen, mine, started>>

\* Mutant of StillBase: the comparison is left to the handler's first read.
StillBaseOnceRead(base) == base \in DOMAIN versions

\* if_published is compared inside the publishing transaction.
StillBase(base) == live = base

\* edit compares etags before it publishes, republish collects them afterwards.
ChangesOf(o) == IF o.skip THEN SourceChanges(versions[o.base].spec, o.goal) ELSE o.changes

MemberPublishes ==
    /\ Busy("loop", "publishing")
    /\ LET o == op["loop"] IN
         IF StillBase(o.base) /\ CanPublish(o.draft, "member", o.skip)
         THEN /\ Publish(o.draft, "member")
              /\ Step("loop", [at |-> "applying", changes |-> ChangesOf(o), by |-> "member",
                               audit |-> o.draft, done |-> 0, base |-> o.base])
         ELSE /\ versions' = Retired(versions, o.draft)
              /\ UNCHANGED <<live, managed, pub>>
              /\ Released("loop")
    /\ UNCHANGED <<sources, proposals, seen, mine, started>>

-----------------------------------------------------------------------------
\* The agent's own tools.

\* cms_draft_change: one draft per turn, which the agent goes on editing.
AgentDrafts(body) ==
    /\ Start
    /\ Busy("loop", "idle")
    /\ IF mine = 0
       THEN
            /\ versions' = Append(versions, Draft([LiveSpec EXCEPT !["style"] = body], "agent"))
            /\ mine' = Len(versions) + 1
       ELSE /\ versions[mine].status = "draft"
            /\ versions' = [versions EXCEPT ![mine].spec["style"] = body]
            /\ mine' = mine
    /\ UNCHANGED <<live, managed, pub, sources, proposals, seen, op>>

TurnEnds ==
    /\ mine # 0 /\ mine' = 0
    /\ UNCHANGED <<versions, live, managed, pub, sources, proposals, seen, op, started>>

OwnDraft(v) == versions[v].actor = "agent" /\ versions[v].status = "draft"

Proposal(v, published, changes, status) ==
    [version |-> v, changes |-> changes, status |-> status,
     shown |-> [before |-> published, after |-> versions[v].spec]]

\* cms_propose_publish: the card shows the draft against what is live now.
AgentProposes(v) ==
    /\ Start
    /\ Busy("loop", "idle")
    /\ OwnDraft(v) /\ versions[v].spec # LiveSpec
    /\ proposals' = Append(proposals,
           Proposal(v, LiveSpec, SourceChanges(LiveSpec, versions[v].spec), "pending"))
    /\ UNCHANGED <<versions, live, managed, pub, sources, seen, mine, op>>

\* cms_publish: fence, scope, evidence and etags are read first ...
AgentChecks(v) ==
    /\ Start
    /\ Busy("loop", "idle")
    /\ OwnDraft(v)
    /\ ~Fenced(LiveSpec, versions[v].spec)
    /\ versions[v].spec \in Passing
    /\ Step("loop", [at |-> "selfpublishing", draft |-> v, published |-> LiveSpec,
                     changes |-> SourceChanges(LiveSpec, versions[v].spec)])
    /\ UNCHANGED <<versions, live, managed, pub, sources, proposals, seen, mine>>

\* ... and the gates run again inside the transaction, without if_published.
AgentPublishes ==
    /\ Busy("loop", "selfpublishing")
    /\ LET o == op["loop"] IN
         IF CanPublish(o.draft, "agent", FALSE)
         THEN /\ Publish(o.draft, "agent")
              /\ Step("loop", [at |-> "applying", changes |-> o.changes, by |-> "agent",
                               audit |-> o.draft, done |-> 0, record |-> o.published])
         ELSE UnchangedProfile /\ Released("loop")
    /\ UNCHANGED <<sources, proposals, seen, mine, started>>

-----------------------------------------------------------------------------
\* apply_source_changes and what follows it; each row is a transaction.

Applied(p, c) ==
    sources' = [sources EXCEPT ![c.slug] =
                   [body |-> c.body, by |-> op[p].by, audit |-> op[p].audit]]

\* An existing row must still have the etag it had; a row that was absent
\* when the change was drafted carries no precondition.
Matches(c) == sources[c.slug].body = 0 \/ c.etag[1] = 0 \/ Etag(sources[c.slug]) = c.etag

Apply(p) ==
    /\ Busy(p, "applying")
    /\ \E c \in op[p].changes :
         IF Matches(c)
         THEN Applied(p, c) /\ Step(p, [op[p] EXCEPT !.changes = @ \ {c}])
         ELSE Released(p) /\ UNCHANGED sources
    /\ UNCHANGED <<versions, live, managed, pub, proposals, seen, mine, started>>

\* The last write of the operation: the decision, the agent's own record, or nothing.
Finish(p) ==
    /\ Busy(p, "applying") /\ op[p].changes = {}
    /\ proposals' =
         IF op[p].done # 0 THEN [proposals EXCEPT ![op[p].done].status = "approved"]
         ELSE IF "record" \in DOMAIN op[p]
         THEN Append(proposals, Proposal(op[p].audit, op[p].record, {}, "auto_published"))
         ELSE proposals
    /\ Released(p)
    /\ UNCHANGED <<versions, live, managed, pub, sources, seen, mine, started>>

-----------------------------------------------------------------------------
\* Proposals: a confirmed card on the loop, or an admin route in a thread.

ApproveReads(p, id) ==
    /\ Start
    /\ Busy(p, "idle")
    /\ proposals[id].status = "pending"
    /\ \A c \in proposals[id].changes : Etag(sources[c.slug]) = c.etag
    /\ Step(p, [at |-> "approving", id |-> id])
    /\ UNCHANGED <<versions, live, managed, pub, sources, proposals, seen, mine>>

ApprovePublishes(p) ==
    /\ Busy(p, "approving")
    /\ LET prop == proposals[op[p].id] IN
         IF CanPublish(prop.version, "approver", FALSE)
         THEN /\ Publish(prop.version, "approver")
              /\ Step(p, [at |-> "applying", changes |-> prop.changes, by |-> "agent",
                          audit |-> prop.version, done |-> op[p].id])
         ELSE UnchangedProfile /\ Released(p)
    /\ UNCHANGED <<sources, proposals, seen, mine, started>>

RejectReads(id) ==
    /\ Start
    /\ Busy("thread", "idle")
    /\ proposals[id].status = "pending"
    /\ Step("thread", [at |-> "rejecting", id |-> id])
    /\ UNCHANGED <<versions, live, managed, pub, sources, proposals, seen, mine>>

RejectRetires ==
    /\ Busy("thread", "rejecting")
    /\ LET v == proposals[op["thread"].id].version IN
         versions' = IF versions[v].status = "draft" THEN Retired(versions, v) ELSE versions
    /\ Step("thread", [at |-> "deciding", id |-> op["thread"].id])
    /\ UNCHANGED <<live, managed, pub, sources, proposals, seen, mine, started>>

RejectDecides ==
    /\ Busy("thread", "deciding")
    /\ proposals' = [proposals EXCEPT ![op["thread"].id].status = "rejected"]
    /\ Released("thread")
    /\ UNCHANGED <<versions, live, managed, pub, sources, seen, mine, started>>

-----------------------------------------------------------------------------
\* The operator's routes; each single transaction may come at any moment.

PutSource(s, body) ==
    /\ Start
    /\ sources' = [sources EXCEPT ![s] = [body |-> body, by |-> "admin", audit |-> 0]]
    /\ sources' # sources
    /\ UNCHANGED <<versions, live, managed, pub, proposals, seen, mine, op>>

\* Mutant of Protected: nothing is.
ProtectedNever(s) == s \notin Slugs

\* delete_source looks for a published money rule in a transaction of its own.
Protected(s) == s = "money" /\ LiveSpec["money"] # 0

DeleteChecks(s) ==
    /\ Start
    /\ Busy("thread", "idle")
    /\ ~Protected(s)
    /\ Step("thread", [at |-> "deleting", slug |-> s])
    /\ UNCHANGED <<versions, live, managed, pub, sources, proposals, seen, mine>>

Deletes ==
    /\ Busy("thread", "deleting")
    /\ sources' = [sources EXCEPT ![op["thread"].slug] = NoRow]
    /\ Released("thread")
    /\ UNCHANGED <<versions, live, managed, pub, proposals, seen, mine, started>>

OperatorDrafts ==
    /\ Start
    /\ versions' = Append(versions, Draft(Snapshot, "admin"))
    /\ UNCHANGED <<live, managed, pub, sources, proposals, seen, mine, op>>

\* update_draft: only a draft, and never an agent's.
Editable(v) == versions[v].status = "draft" /\ versions[v].actor # "agent"

OperatorPatches(v, s, body) ==
    /\ Start
    /\ Editable(v)
    /\ versions[v].spec[s] # body
    /\ versions' = [versions EXCEPT ![v].spec[s] = body]
    /\ UNCHANGED <<live, managed, pub, sources, proposals, seen, mine, op>>

OperatorPublishes(v) ==
    /\ Start
    /\ v # live
    /\ CanPublish(v, "admin", FALSE)
    /\ Publish(v, "admin")
    /\ UNCHANGED <<sources, proposals, seen, mine, op>>

\* rollback reads the status, then publishes: the gates are skipped by then.
RollbackReads(v) ==
    /\ Start
    /\ Busy("thread", "idle")
    /\ versions[v].status = "superseded"
    /\ Step("thread", [at |-> "rollback", draft |-> v])
    /\ UNCHANGED <<versions, live, managed, pub, sources, proposals, seen, mine>>

RollbackPublishes ==
    /\ Busy("thread", "rollback")
    /\ IF CanPublish(op["thread"].draft, "admin", TRUE)
       THEN Publish(op["thread"].draft, "admin")
       ELSE UnchangedProfile
    /\ Released("thread")
    /\ UNCHANGED <<sources, proposals, seen, mine, started>>

OperatorRetires(v) ==
    /\ Start
    /\ versions[v].status \in {"draft", "superseded"}
    /\ versions' = Retired(versions, v)
    /\ UNCHANGED <<live, managed, pub, sources, proposals, seen, mine, op>>

-----------------------------------------------------------------------------
\* A restart drops whatever was in the middle and seeds from the code, which
\* may have changed: source rows boot wrote last, and the profile while it is
\* boot's, without gates.

BootSource(row, body) ==
    IF row.body = 0 \/ (Etag(row) # <<body, 0>> /\ row.by = "boot")
    THEN [body |-> body, by |-> "boot", audit |-> 0] ELSE row

Restart(code) ==
    /\ Start
    /\ op' = [p \in Processes |-> Idle] /\ mine' = 0
    /\ sources' = [s \in Slugs |-> BootSource(sources[s], code)]
    /\ LET spec == [s \in Slugs |-> code]
           drafted == Append(versions, Draft(spec, "boot"))
       IN IF managed # "boot" THEN UnchangedProfile
          ELSE
               /\ managed' = managed
               /\ IF spec = LiveSpec
                  THEN versions' = Retired(drafted, Len(drafted)) /\ UNCHANGED <<live, pub>>
                  ELSE /\ versions' = Published(drafted, Len(drafted))
                       /\ live' = Len(drafted) /\ pub' = "boot"
    /\ UNCHANGED <<proposals, seen>>

Next ==
    \/ MemberLoads
    \/ \E b \in Bodies \cup {0} : EditReads(b)
    \/ EditDrafts \/ RepublishDrafts \/ MemberPublishes
    \/ \E v \in DOMAIN versions : RepublishReads(v)
    \/ \E b \in Bodies : AgentDrafts(b)
    \/ TurnEnds
    \/ \E v \in DOMAIN versions : AgentProposes(v) \/ AgentChecks(v)
    \/ AgentPublishes
    \/ \E p \in Processes : Apply(p) \/ Finish(p) \/ ApprovePublishes(p)
    \/ \E p \in Processes, id \in DOMAIN proposals : ApproveReads(p, id)
    \/ \E id \in DOMAIN proposals : RejectReads(id)
    \/ RejectRetires \/ RejectDecides
    \/ \E s \in Slugs, b \in Bodies : PutSource(s, b)
    \/ \E s \in Slugs : DeleteChecks(s)
    \/ Deletes \/ OperatorDrafts
    \/ \E v \in DOMAIN versions, s \in Slugs, b \in Bodies : OperatorPatches(v, s, b)
    \/ \E v \in DOMAIN versions : OperatorPublishes(v) \/ RollbackReads(v) \/ OperatorRetires(v)
    \/ RollbackPublishes
    \/ \E code \in Bodies : Restart(code)

Spec == Init /\ [][Next]_vars
-----------------------------------------------------------------------------

\* Type invariant of the profile's rows and of the editor's snapshot.
TypeOK ==
    /\ \A v \in DOMAIN versions :
         /\ versions[v].status \in {"draft", "published", "superseded", "retired"}
         /\ versions[v].spec \in Specs /\ versions[v].actor \in Actors
    /\ live \in DOMAIN versions /\ mine \in 0..Len(versions)
    /\ sources \in [Slugs -> [body : Bodies \cup {0}, by : Actors, audit : 0..MaxStarts + 1]]

\* Whoever publishes, approves, rolls back, rejects or retires in between whose
\* transactions, the profile's pointer names the one version marked published.
OnePublished == \A v \in DOMAIN versions : versions[v].status = "published" <=> v = live

\* No sequence of deletions, drafts and publishes loses the money rule: every
\* version carries it and its source row stays (delete_source's guard is a
\* transaction before the delete).
MoneyIsNeverLost ==
    /\ sources["money"].body # 0
    /\ \A v \in DOMAIN versions : versions[v].spec["money"] # 0

\* A member's edit or republish and the agent's own publish leave the money
\* rule exactly as the version they replace has it, whatever an operator
\* published while they were under way (gates.py: the fence; sources.py).  Only
\* an operator who patches the member's draft in between can change it.
FenceHolds ==
    [][/\ live' # live /\ pub' \in {"member", "agent"}
       /\ pub' = "member" => versions[live'].spec = op["loop"].goal
       => versions'[live'].spec["money"] = LiveSpec["money"]]_vars

\* Two editors who both read one version cannot both win: what a member's
\* publish supersedes is the version the member's operation read.
NobodyIsOverwritten == [][live' # live /\ pub' = "member" => op["loop"].base = live]_vars

\* A version that is not a draft keeps its content for ever, and a retired or
\* rejected one never comes back, though its approval may be half done.
HistoryIsWrittenOnce ==
    [][\A v \in DOMAIN versions :
          /\ versions[v].status # "draft" => versions'[v].spec = versions[v].spec
          /\ versions[v].status = "retired" => versions'[v].status = "retired"]_vars

\* A restart never puts code's content over what a person or the agent
\* published, not even after a rollback to a version boot itself had made.
BootLeavesPeopleAlone == [][live' # live /\ pub' = "boot" => pub = "boot"]_vars

\* Whoever wrote keeps what they wrote: a publish supersedes what it was made from, a
\* version that was published or retired stays what it was, and boot overwrites nobody.
WritersKeepTheirWork == NobodyIsOverwritten /\ HistoryIsWrittenOnce /\ BootLeavesPeopleAlone

\* What a member's edit changed is what the next snapshotting draft carries:
\* "Anything that publishes a changed spec must therefore write the matching
\* sources too" (sources.py).  No run has it: it does not hold, the code writes no row
\* for a removed rule.
EditSurvivesTheNextDraft ==
    [][\A s \in Slugs :
          /\ op["loop"].at = "applying" /\ op["loop"].changes = {}
          /\ op["loop"].by = "member" /\ sources[s].by # "admin"
          /\ versions[op["loop"].audit].spec[s] # versions[op["loop"].base].spec[s]
          => Snapshot[s] = versions[op["loop"].audit].spec[s]]_vars

\* "a person cannot consent to a change they have not been shown" (osadmin.py):
\* an approval replaces the content the card was diffed against by the content
\* it showed.  No run has it: it does not hold, a publish may come between the check of
\* the base and the approval.
ApprovalPublishesWhatWasShown ==
    [][\A p \in Processes :
          op[p].at = "approving" /\ op'[p].at = "applying"
          => LET shown == proposals[op[p].id].shown IN
               LiveSpec = shown.before /\ versions'[live'].spec = shown.after]_vars
=============================================================================
