--------------------------------- MODULE Evals ---------------------------------
(***************************************************************************)
(* The evidence a publish rests on: suites of cases, runs of a suite       *)
(* against a version, and gate 4, which reads the runs and never a model.  *)
(*                                                                         *)
(* A run row is keyed to the content its version had when the row was      *)
(* made.  A job of its own process then reads the version, reads the suite *)
(* and its cases, grades them and finishes the row; it may be killed, and  *)
(* the version, the suite and the cases go on changing meanwhile.  Reading *)
(* the suite, grading and finishing is one step: nothing that happens      *)
(* between them reaches the row.                                           *)
(*                                                                         *)
(* One profile, one blocking grader, a case graded once; the clock is the  *)
(* age of a run.  The gates before the fourth are in Content.              *)
(***************************************************************************)
EXTENDS Naturals, Sequences, FiniteSets, Functions, SequencesExt, FiniteSetsExt

CONSTANTS
    Suites,        \* suites
    Cases,        \* cases
    Contents,     \* what a spec says besides its eval section
    Cap,          \* max_eval_runs_per_day of the agent
    MaxSpecs,     \* bound on the versions
    MaxRuns,      \* bound on the runs
    MaxChanges    \* bound on the edits of drafts, suites and cases

ASSUME CasesAssumption == IsFiniteSet(Cases)

VARIABLES
    specs,     \* the profile's versions: [content, suites, floor, by, status]
    liveSpec,  \* published_version_id
    suites,    \* the suites there are, by slug: [id, cases]
    cases,     \* the cases there are: confirmed by a person, or where one came from
    runs,      \* eval runs, by id; ran is what the job read, swapped that an edit
               \* came before it did (history)
    jobs,      \* the spec each living job has read, by run
    lastSuite, \* the last suite id given
    changes    \* edits so far, a bound

evalVars == <<specs, liveSpec, suites, cases, runs, jobs, lastSuite, changes>>

Unread == "unread"
Floors == {1, 2}   \* eval.gate: half of the graded cases, or all of them
Waiting == [passed |-> 0, failed |-> 0, raised |-> 0]

\* The seeded version is live; boot published it past the gates.
EvalsInit ==
    /\ \E c \in Contents :
         specs = <<[content |-> c, suites |-> {}, floor |-> 2, by |-> "boot", status |-> "published"]>>
    /\ liveSpec = 1
    /\ suites = <<>> /\ cases = <<>> /\ runs = <<>> /\ jobs = <<>>
    /\ lastSuite = 0 /\ changes = 0
-----------------------------------------------------------------------------

(* The gate. *)

\* spec_sha leaves the eval section out.
Sha(v) == specs[v].content

\* Mutant of Matching: whatever content was run.
MatchingAny(s, v) == {r \in DOMAIN runs : runs[r].suite = suites[s].id /\ runs[r].status # "running"}

\* latest_matching_run looks among these.
Matching(s, v) ==
    {r \in DOMAIN runs : /\ runs[r].suite = suites[s].id
                         /\ runs[r].sha = Sha(v)
                         /\ runs[r].status # "running"}

\* Mutant of Convincing: a case on which the grader raised is no case at all.
ConvincingQuietly(sum, floor) == 2 * sum.passed >= floor * (sum.passed + sum.failed)

\* The blocking grader raised on no case, graded one at least, and passed enough.
Convincing(sum, floor) ==
    /\ sum.raised = 0
    /\ sum.passed + sum.failed > 0
    /\ 2 * sum.passed >= floor * (sum.passed + sum.failed)

\* eval_gate: the newest matching run of every suite decides.
EvalGate(v) ==
    \A s \in specs[v].suites :
        /\ s \in DOMAIN suites
        /\ Matching(s, v) # {}
        /\ LET r == Max(Matching(s, v)) IN
             runs[r].status = "done" /\ Convincing(runs[r].sum, specs[v].floor)

\* _evidence_for: an agent's own publish needs suites, each with a run that is done.
EvidenceFor(v) ==
    /\ specs[v].suites # {}
    /\ \A s \in specs[v].suites :
         /\ s \in DOMAIN suites
         /\ Matching(s, v) # {}
         /\ runs[Max(Matching(s, v))].status = "done"

MadeLive(v) ==
    /\ specs' = [i \in DOMAIN specs |->
                      IF i = v THEN [specs[i] EXCEPT !.status = "published"]
                      ELSE IF i = liveSpec THEN [specs[i] EXCEPT !.status = "superseded"]
                      ELSE specs[i]]
    /\ liveSpec' = v
    /\ UNCHANGED <<suites, cases, runs, jobs, lastSuite, changes>>

PublishVersion(v) ==
    /\ specs[v].status \in {"draft", "superseded"}
    /\ EvalGate(v)
    /\ MadeLive(v)

SelfPublish(v) ==
    /\ specs[v].by = "agent" /\ specs[v].status = "draft"
    /\ EvidenceFor(v)
    /\ EvalGate(v)
    /\ MadeLive(v)

\* A rollback skips the gate: the version passed it when it was published.
RollBack(v) == specs[v].status = "superseded" /\ MadeLive(v)
-----------------------------------------------------------------------------

(* Drafts, suites and cases. *)

Edit == changes < MaxChanges /\ changes' = changes + 1

DraftVersion(by, content, names, floor) ==
    /\ Len(specs) < MaxSpecs
    /\ specs' = Append(specs, [content |-> content, suites |-> names, floor |-> floor,
                                     by |-> by, status |-> "draft"])
    /\ UNCHANGED <<liveSpec, suites, cases, runs, jobs, lastSuite, changes>>

\* Only a draft is edited; an agent's only by the agent.
UpdateDraft(v, content, names, floor) ==
    /\ Edit
    /\ specs[v].status = "draft"
    /\ specs' = [specs EXCEPT ![v] = [@ EXCEPT !.content = content, !.suites = names, !.floor = floor]]
    /\ runs' = [r \in DOMAIN runs |->
                  [runs[r] EXCEPT !.swapped = @ \/ (runs[r].version = v /\ r \in DOMAIN jobs /\ jobs[r] = Unread)]]
    /\ UNCHANGED <<liveSpec, suites, cases, jobs, lastSuite>>

\* A suite keeps its id while its cases change; the runs it has stay evidence.
PutSuite(s, cs) ==
    /\ Edit
    /\ suites' = [x \in DOMAIN suites \cup {s} |->
                    IF x # s THEN suites[x]
                    ELSE [id |-> IF s \in DOMAIN suites THEN suites[s].id ELSE lastSuite + 1, cases |-> cs]]
    /\ lastSuite' = IF s \in DOMAIN suites THEN lastSuite ELSE lastSuite + 1
    /\ UNCHANGED <<specs, liveSpec, cases, runs, jobs>>

\* Mutant of Deletable: the runs are not looked at.
DeletableAlways(s) == TRUE

Deletable(s) == \A r \in DOMAIN runs : runs[r].suite # suites[s].id

DeleteSuite(s) ==
    /\ Deletable(s)
    /\ suites' = Restrict(suites, DOMAIN suites \ {s})
    /\ UNCHANGED <<specs, liveSpec, cases, runs, jobs, lastSuite, changes>>

\* put_case: a case that is there takes the new state.
WithCase(c, state) == [x \in DOMAIN cases \cup {c} |-> IF x = c THEN state ELSE cases[x]]

PutCase(c, state) ==
    /\ Edit
    /\ cases' = WithCase(c, state)
    /\ UNCHANGED <<specs, liveSpec, suites, runs, jobs, lastSuite>>

\* A person confirms what a case expects, or the packs' golden cases are imported.
ConfirmCase(c) == PutCase(c, "confirmed")

\* cms_add_eval_case: for a person to review.
AgentAddsCase(c) == PutCase(c, "agent")

\* A turn is captured for review, and captured cases that nobody reviewed and that are
\* older than they are kept are pruned.
CaptureCase(c) ==
    /\ Edit
    /\ \E old \in SUBSET {x \in DOMAIN cases \ {c} : cases[x] = "captured"} :
         cases' = Restrict(WithCase(c, "captured"), (DOMAIN cases \cup {c}) \ old)
    /\ UNCHANGED <<specs, liveSpec, suites, runs, jobs, lastSuite>>

DropCase(c) ==
    /\ cases' = Restrict(cases, DOMAIN cases \ {c})
    /\ UNCHANGED <<specs, liveSpec, suites, runs, jobs, lastSuite, changes>>
-----------------------------------------------------------------------------

(* Runs. *)

\* start_eval_run; the spawn may raise and leave the row without a job.
StartRun(s, v, by, spawned) ==
    /\ Len(runs) < MaxRuns
    /\ runs' = Append(runs, [suite |-> suites[s].id, slug |-> s, version |-> v, sha |-> Sha(v), by |-> by,
                             age |-> "fresh", status |-> "running", sum |-> Waiting, ran |-> Unread,
                             swapped |-> FALSE])
    /\ jobs' = IF spawned
               THEN [r \in DOMAIN jobs \cup {Len(runs) + 1} |-> IF r \in DOMAIN jobs THEN jobs[r] ELSE Unread]
               ELSE jobs
    /\ UNCHANGED <<specs, liveSpec, suites, cases, lastSuite, changes>>

\* cms_run_eval counts the agents' runs of a day and waits for the one under way,
\* unless that is stale.
MayRunEval ==
    LET recent == {r \in DOMAIN runs : runs[r].by = "agent" /\ runs[r].age # "old"} IN
        /\ \A r \in recent : ~(runs[r].status = "running" /\ runs[r].age = "fresh")
        /\ Cardinality(recent) < Cap

AgentStartsRun(s, v, spawned) ==
    /\ specs[v].by = "agent" /\ specs[v].status = "draft"
    /\ MayRunEval
    /\ StartRun(s, v, "agent", spawned)

\* Only the agents' runs are asked for their age.
Ages(r) ==
    /\ runs[r].by = "agent" /\ runs[r].age # "old"
    /\ runs' = [runs EXCEPT ![r].age = IF @ = "fresh" THEN "stale" ELSE "old"]
    /\ UNCHANGED <<specs, liveSpec, suites, cases, jobs, lastSuite, changes>>

JobReads(r) ==
    /\ jobs[r] = Unread
    /\ jobs' = [jobs EXCEPT ![r] = specs[runs[r].version].content]
    /\ UNCHANGED <<specs, liveSpec, suites, cases, runs, lastSuite, changes>>

Finished(r, status, sum) ==
    /\ runs' = [runs EXCEPT ![r] = [@ EXCEPT !.status = status, !.sum = sum, !.ran = jobs[r]]]
    /\ jobs' = Restrict(jobs, DOMAIN jobs \ {r})
    /\ UNCHANGED <<specs, liveSpec, suites, cases, lastSuite, changes>>

\* A case under review is recorded as skipped.
Gradable(cs) == {c \in cs : cases[c] = "confirmed"}

\* A case passes, fails, has no expectation, or makes the grader raise; a turn that
\* raised fails.
Summaries(cs) ==
    {[passed |-> Cardinality({c \in cs : g[c] = "pass"}), failed |-> Cardinality({c \in cs : g[c] = "fail"}),
      raised |-> Cardinality({c \in cs : g[c] = "raise"})] : g \in [cs -> {"pass", "fail", "none", "raise"}]}

JobFinishes(r) ==
    /\ jobs[r] # Unread
    /\ runs[r].slug \in DOMAIN suites
    /\ LET cs == suites[runs[r].slug].cases IN
         IF ~(cs \subseteq DOMAIN cases) THEN Finished(r, "failed", Waiting)
         ELSE \E sum \in Summaries(Gradable(cs)) : Finished(r, "done", sum)

\* A grader that is not there, a judge that cannot be built.
JobFails(r) == jobs[r] # Unread /\ Finished(r, "failed", Waiting)

JobDies(r) ==
    /\ jobs' = Restrict(jobs, DOMAIN jobs \ {r})
    /\ UNCHANGED <<specs, liveSpec, suites, cases, runs, lastSuite, changes>>

EvalsNext ==
    \/ \E v \in DOMAIN specs : PublishVersion(v) \/ SelfPublish(v) \/ RollBack(v)
    \/ \E c \in Contents, names \in SUBSET Suites, floor \in Floors :
         \/ \E by \in {"agent", "human"} : DraftVersion(by, c, names, floor)
         \/ \E v \in DOMAIN specs : UpdateDraft(v, c, names, floor)
    \/ \E s \in Suites, cs \in SUBSET Cases : PutSuite(s, cs)
    \/ \E s \in DOMAIN suites : DeleteSuite(s)
    \/ \E c \in Cases : ConfirmCase(c) \/ AgentAddsCase(c) \/ CaptureCase(c)
    \/ \E c \in DOMAIN cases : DropCase(c)
    \/ \E s \in DOMAIN suites, v \in DOMAIN specs, spawned \in BOOLEAN :
         StartRun(s, v, "human", spawned) \/ AgentStartsRun(s, v, spawned)
    \/ \E r \in DOMAIN runs : Ages(r)
    \/ \E r \in DOMAIN jobs : JobReads(r) \/ JobFinishes(r) \/ JobFails(r) \/ JobDies(r)

EvalsSpec == EvalsInit /\ [][EvalsNext]_evalVars
-----------------------------------------------------------------------------

\* What is live, by a publish or by a rollback to it, has kept its evidence: for each
\* suite it names there still is that suite and a run of it that graded a case of this
\* very content, raised on none and passed enough of them.  A run whose draft was edited
\* before its job read it (swapped) is the exception the code leaves open: its row is
\* keyed to the content there was, and graded with the content there is.
PublishedWasGraded ==
    liveSpec # 1 =>
        \A s \in specs[liveSpec].suites :
            /\ s \in DOMAIN suites
            /\ \E r \in DOMAIN runs :
                 /\ runs[r].status = "done" /\ runs[r].suite = suites[s].id
                 /\ \/ runs[r].ran = specs[liveSpec].content
                    \/ runs[r].swapped /\ runs[r].sha = specs[liveSpec].content
                 /\ runs[r].sum.raised = 0 /\ runs[r].sum.passed > 0
                 /\ 2 * runs[r].sum.passed >= specs[liveSpec].floor * (runs[r].sum.passed + runs[r].sum.failed)
=============================================================================
