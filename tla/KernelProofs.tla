----------------------------- MODULE KernelProofs -----------------------------
(***************************************************************************)
(* Proofs about what the kernel keeps: the content of a profile (module    *)
(* Content), the agents and the spaces they serve (Agents), the gate of    *)
(* the suites (Evals), and the cards of a collection (Data, in the kernel  *)
(* of MCKernel).  They share no state.                                     *)
(***************************************************************************)
EXTENDS MCKernel, Lemmas
-----------------------------------------------------------------------------
(***************************************************************************)
(* The content of a profile (module Content), for any bodies, any gates    *)
(* and any number of operations whose transactions interleave: the         *)
(* profile's pointer names the one published version, and the money rule   *)
(* is in every version and in the source rows.                             *)
(*                                                                         *)
(* What makes it inductive: what an operation carries from one of its      *)
(* transactions to the next names versions and proposals that exist, and   *)
(* its changes, and the row an operator is about to delete, are of the     *)
(* style rule.                                                             *)
(***************************************************************************)

Rules == Bodies \cup {0, 1}
GoodSpecs == {s \in [Slugs -> Rules] : s["money"] # 0}
Versions == [status : {"draft", "published", "superseded", "retired"}, spec : GoodSpecs, actor : Actors]
Rows == {r \in [Slugs -> [body : Rules, by : Actors, audit : Nat]] : r["money"].body # 0}
Changes == [slug : {"style"}, body : Rules, etag : Rules \X Nat]
Proposals == [version : Nat, changes : SUBSET Changes,
              status : {"pending", "approved", "rejected", "auto_published"},
              shown : [before : GoodSpecs, after : GoodSpecs]]

\* The versions are well formed and lv is the published one.
WellMade(vs, lv) ==
    /\ vs \in Seq(Versions) /\ lv \in DOMAIN vs
    /\ \A v \in DOMAIN vs : vs[v].status = "published" <=> v = lv

\* What the operation o holds is there, among n versions and k proposals.
Sound(o, n, k) ==
    /\ o.at \in {"editing", "republishing", "publishing"} => o.base \in 1..n
    /\ o.at = "editing" => o.body \in Rules
    /\ o.at = "republishing" => o.target \in 1..n
    /\ o.at \in {"republishing", "publishing"} => o.goal \in GoodSpecs
    /\ o.at \in {"publishing", "selfpublishing", "rollback"} => o.draft \in 1..n
    /\ o.at = "publishing" /\ ~o.skip => o.changes \subseteq Changes
    /\ o.at = "selfpublishing" => o.published \in GoodSpecs /\ o.changes \subseteq Changes
    /\ o.at \in {"approving", "rejecting", "deciding"} => o.id \in 1..k
    /\ o.at = "deleting" => o.slug = "style"
    /\ o.at = "applying" => /\ {"at", "changes", "by", "audit"} \subseteq DOMAIN o
                            /\ o.changes \subseteq Changes /\ o.by \in Actors /\ o.audit \in 1..n
                            /\ "record" \in DOMAIN o => o.record \in GoodSpecs

Inv ==
    /\ WellMade(versions, live)
    /\ mine \in 0..Len(versions)
    /\ sources \in Rows
    /\ proposals \in Seq(Proposals) /\ \A i \in DOMAIN proposals : proposals[i].version \in 1..Len(versions)
    /\ DOMAIN op = Processes /\ \A p \in Processes : Sound(op[p], Len(versions), Len(proposals))
-----------------------------------------------------------------------------

\* The versions.

LEMMA Appending ==
  ASSUME NEW vs, NEW lv, WellMade(vs, lv), NEW spec \in GoodSpecs, NEW actor \in Actors
  PROVE  LET ws == Append(vs, Draft(spec, actor)) IN WellMade(ws, lv) /\ Len(ws) = Len(vs) + 1
<1> DEFINE d == Draft(spec, actor)
           ws == Append(vs, d)
<1>1. d \in Versions /\ d.status # "published"
  BY DEF Draft, Versions
<1> HIDE DEF d
<1>2. /\ vs \in Seq(Versions) /\ ws \in Seq(Versions) /\ Len(vs) \in Nat
      /\ DOMAIN vs = 1..Len(vs) /\ DOMAIN ws = 1..Len(vs) + 1 /\ Len(ws) = Len(vs) + 1
      /\ \A v \in DOMAIN vs : ws[v] = vs[v]
      /\ ws[Len(vs) + 1] = d
  BY <1>1, AppendProperties DEF WellMade
<1> HIDE DEF ws
<1>3. \A v \in DOMAIN ws : v \in DOMAIN vs \/ v = Len(vs) + 1
  BY <1>2
<1>4. WellMade(ws, lv)
  BY <1>1, <1>2, <1>3 DEF WellMade
<1> QED
  BY <1>2, <1>4 DEF d, ws

\* A version may be replaced by one of the same standing.
LEMMA Replacing ==
  ASSUME NEW vs, NEW lv, WellMade(vs, lv), NEW v \in DOMAIN vs, NEW w \in Versions,
         w.status = "published" <=> vs[v].status = "published"
  PROVE  WellMade([vs EXCEPT ![v] = w], lv) /\ Len([vs EXCEPT ![v] = w]) = Len(vs)
<1> DEFINE ws == [vs EXCEPT ![v] = w]
<1>1. vs \in Seq(Versions) /\ Len(vs) \in Nat /\ DOMAIN vs = 1..Len(vs)
  BY DEF WellMade
<1>2. ws \in Seq(Versions) /\ DOMAIN ws = DOMAIN vs /\ Len(ws) = Len(vs)
      /\ ws[v] = w /\ \A u \in DOMAIN vs : u # v => ws[u] = vs[u]
  BY <1>1
<1> HIDE DEF ws
<1>3. WellMade(ws, lv)
  BY <1>2 DEF WellMade
<1> QED
  BY <1>2, <1>3 DEF ws

LEMMA Retiring ==
  ASSUME NEW vs, NEW lv, WellMade(vs, lv), NEW v \in DOMAIN vs
  PROVE  WellMade(Retired(vs, v), lv) /\ Len(Retired(vs, v)) = Len(vs)
<1>1. CASE vs[v].status = "published"
  BY <1>1 DEF Retired
<1>2. CASE vs[v].status # "published"
  <2> DEFINE w == [vs[v] EXCEPT !.status = "retired"]
  <2>1. vs[v] \in Versions
    BY DEF WellMade
  <2>2. w \in Versions /\ w.status # "published"
    BY <2>1 DEF Versions
  <2>3. Retired(vs, v) = [vs EXCEPT ![v] = w]
    BY <1>2 DEF Retired
  <2>4. w.status = "published" <=> vs[v].status = "published"
    BY <1>2, <2>2
  <2> HIDE DEF w
  <2>5. WellMade([vs EXCEPT ![v] = w], lv) /\ Len([vs EXCEPT ![v] = w]) = Len(vs)
    BY <2>2, <2>4, Replacing
  <2> QED
    BY <2>3, <2>5
<1> QED
  BY <1>1, <1>2

LEMMA Publishing ==
  ASSUME NEW vs, WellMade(vs, live), NEW v \in DOMAIN vs, v # live
  PROVE  WellMade(Published(vs, v), v) /\ Len(Published(vs, v)) = Len(vs)
<1> DEFINE ws == Published(vs, v)
<1>1. vs \in Seq(Versions) /\ Len(vs) \in Nat /\ DOMAIN vs = 1..Len(vs)
  BY DEF WellMade
<1>2. ASSUME NEW i \in DOMAIN vs
      PROVE  /\ vs[i] \in Versions
             /\ \A status \in {"published", "superseded"} :
                  [vs[i] EXCEPT !.status = status] \in Versions /\ [vs[i] EXCEPT !.status = status].status = status
  <2>1. vs[i] \in Versions
    BY <1>1
  <2> QED
    BY <2>1 DEF Versions
<1>3. ws \in [1..Len(vs) -> Versions]
  BY <1>1, <1>2 DEF Published
<1>4. \A i \in DOMAIN vs : ws[i].status = "published" <=> i = v
  <2> TAKE i \in DOMAIN vs
  <2>1. ws[i] = IF i = v THEN [vs[i] EXCEPT !.status = "published"]
                ELSE IF i = live THEN [vs[i] EXCEPT !.status = "superseded"] ELSE vs[i]
    BY DEF Published
  <2>2. CASE i = v
    BY <1>2, <2>1, <2>2
  <2>3. CASE i # v /\ i = live
    BY <1>2, <2>1, <2>3
  <2>4. CASE i # v /\ i # live
    BY <2>1, <2>4 DEF WellMade
  <2> QED
    BY <2>2, <2>3, <2>4
<1> HIDE DEF ws
<1>5. ws \in Seq(Versions) /\ Len(ws) = Len(vs) /\ DOMAIN ws = DOMAIN vs
  BY <1>1, <1>3
<1> QED
  BY <1>4, <1>5 DEF WellMade, ws

\* The changes a draft makes to the source rows are of the style rule.
LEMMA Changing ==
  ASSUME sources \in Rows, NEW base, NEW draft \in GoodSpecs
  PROVE  SourceChanges(base, draft) \subseteq Changes
<1> SUFFICES ASSUME NEW s \in Slugs \ {"money"}
             PROVE  [slug |-> s, body |-> draft[s], etag |-> Etag(sources[s])] \in Changes
  BY DEF SourceChanges
<1>1. s = "style" /\ s \in Slugs
  BY DEF Slugs
<1>2. draft[s] \in Rules
  BY <1>1 DEF GoodSpecs
<1>3. sources[s] \in [body : Rules, by : Actors, audit : Nat]
  BY <1>1 DEF Rows
<1>4. Etag(sources[s]) \in Rules \X Nat
  BY <1>3 DEF Etag
<1> QED
  BY <1>1, <1>2, <1>4 DEF Changes

LEMMA LiveIsGood == Inv => LiveSpec \in GoodSpecs
<1> SUFFICES ASSUME Inv  PROVE LiveSpec \in GoodSpecs
  OBVIOUS
<1>1. versions[live] \in Versions
  BY DEF Inv, WellMade
<1> QED
  BY <1>1 DEF LiveSpec, Versions

LEMMA SpecsAreGood ==
  ASSUME Inv, NEW v \in DOMAIN versions
  PROVE  versions[v] \in Versions /\ versions[v].spec \in GoodSpecs
<1>1. versions[v] \in Versions
  BY DEF Inv, WellMade
<1> QED
  BY <1>1 DEF Versions

\* A spec keeps its money rule when its style rule is changed.
LEMMA Styling ==
  ASSUME NEW spec \in GoodSpecs, NEW body \in Rules
  PROVE  [spec EXCEPT !["style"] = body] \in GoodSpecs
  BY DEF GoodSpecs, Slugs

\* An operation that goes on holds what exists; the others' holds stay.
LEMMA Stepping ==
  ASSUME Inv, WellMade(versions', live'), Len(versions') >= Len(versions), mine' \in 0..Len(versions'),
         sources' \in Rows, proposals' \in Seq(Proposals), Len(proposals') >= Len(proposals),
         \A i \in DOMAIN proposals' : proposals'[i].version \in 1..Len(versions'),
         \/ op' = op
         \/ \E p \in Processes : \E o : Step(p, o) /\ Sound(o, Len(versions'), Len(proposals'))
  PROVE  Inv'
<1>1. Len(versions) \in Nat /\ Len(versions') \in Nat /\ Len(proposals) \in Nat /\ Len(proposals') \in Nat
  BY DEF Inv, WellMade
<1>2. 1..Len(versions) \subseteq 1..Len(versions') /\ 1..Len(proposals) \subseteq 1..Len(proposals')
  BY <1>1
<1>3. \A p \in Processes : Sound(op[p], Len(versions'), Len(proposals'))
  BY <1>2 DEF Inv, Sound
<1>4. DOMAIN op' = Processes /\ \A p \in Processes : Sound(op'[p], Len(versions'), Len(proposals'))
  <2>1. CASE op' = op
    BY <2>1, <1>3 DEF Inv
  <2>2. CASE \E p \in Processes : \E o : Step(p, o) /\ Sound(o, Len(versions'), Len(proposals'))
    <3>1. PICK p \in Processes : \E o : Step(p, o) /\ Sound(o, Len(versions'), Len(proposals'))
      BY <2>2
    <3>2. PICK o : Step(p, o) /\ Sound(o, Len(versions'), Len(proposals'))
      BY <3>1
    <3>3. DOMAIN op' = Processes /\ op'[p] = o /\ \A q \in Processes : q # p => op'[q] = op[q]
      BY <3>2 DEF Inv, Step
    <3> QED
      BY <3>2, <3>3, <1>3
  <2> QED
    BY <2>1, <2>2
<1> QED
  BY <1>4 DEF Inv

\* What the invariant says of the variables one action leaves alone.
LEMMA Holds ==
  ASSUME Inv
  PROVE  /\ WellMade(versions, live) /\ Len(versions) \in Nat /\ live \in 1..Len(versions)
         /\ DOMAIN versions = 1..Len(versions)
         /\ mine \in 0..Len(versions) /\ sources \in Rows
         /\ proposals \in Seq(Proposals) /\ Len(proposals) \in Nat /\ DOMAIN proposals = 1..Len(proposals)
         /\ \A i \in DOMAIN proposals : proposals[i].version \in 1..Len(versions)
         /\ \A p \in Processes : Sound(op[p], Len(versions), Len(proposals))
         /\ "loop" \in Processes /\ "thread" \in Processes
         /\ \A n, k : Sound(Idle, n, k)
  BY DEF Inv, WellMade, Processes, Idle, Sound
-----------------------------------------------------------------------------

LEMMA InitHolds == Init => Inv
<1> SUFFICES ASSUME Init  PROVE Inv
  OBVIOUS
<1> DEFINE spec == [s \in Slugs |-> 1]
           first == [Draft(spec, "boot") EXCEPT !.status = "published"]
<1>1. spec \in GoodSpecs
  BY DEF GoodSpecs, Slugs, Rules
<1> HIDE DEF spec
<1>2. first \in Versions /\ first.status = "published"
  BY <1>1 DEF Versions, Draft, Actors
<1> HIDE DEF first
<1>3. versions = <<first>> /\ live = 1
  BY DEF Init, first, spec
<1>4. WellMade(versions, live) /\ Len(versions) = 1
  BY <1>2, <1>3 DEF WellMade
<1>5. sources \in Rows
  BY DEF Init, Rows, Rules, Actors, Slugs
<1>6. \A n, k : Sound(Idle, n, k)
  BY DEF Sound, Idle
<1> QED
  BY <1>4, <1>5, <1>6 DEF Init, Inv

\* An operation that has only read, or nothing at all.
LEMMA ReadingKeeps ==
  ASSUME Inv, UNCHANGED <<versions, live, sources, proposals>>, mine' = mine \/ mine' = 0,
         \/ op' = op
         \/ \E p \in Processes : \E o : Step(p, o) /\ Sound(o, Len(versions), Len(proposals))
  PROVE  Inv'
  BY Holds, Stepping

LEMMA MemberReads ==
  ASSUME Inv, \/ MemberLoads \/ TurnEnds
              \/ \E b \in Bodies \cup {0} : EditReads(b)
              \/ \E v \in DOMAIN versions : RepublishReads(v)
  PROVE  Inv'
<1>1. CASE MemberLoads \/ TurnEnds
  BY <1>1, ReadingKeeps DEF MemberLoads, TurnEnds
<1>2. CASE \E b \in Bodies \cup {0} : EditReads(b)
  <2>1. PICK b \in Bodies \cup {0} : EditReads(b)
    BY <1>2
  <2> DEFINE o == [at |-> "editing", base |-> live, body |-> b]
  <2>2. Sound(o, Len(versions), Len(proposals))
    BY Holds DEF Sound, Rules
  <2>3. Step("loop", o) /\ UNCHANGED <<versions, live, sources, proposals, mine>>
    BY <2>1 DEF EditReads
  <2> HIDE DEF o
  <2> QED
    BY <2>2, <2>3, Holds, ReadingKeeps
<1>3. CASE \E v \in DOMAIN versions : RepublishReads(v)
  <2>1. PICK v \in DOMAIN versions : RepublishReads(v)
    BY <1>3
  <2>2. versions[v].spec \in GoodSpecs
    BY SpecsAreGood
  <2> DEFINE o == [at |-> "republishing", base |-> live, target |-> v, goal |-> versions[v].spec]
  <2>3. Sound(o, Len(versions), Len(proposals))
    BY <2>2, Holds DEF Sound
  <2>4. Step("loop", o) /\ UNCHANGED <<versions, live, sources, proposals, mine>>
    BY <2>1 DEF RepublishReads
  <2> HIDE DEF o
  <2> QED
    BY <2>3, <2>4, Holds, ReadingKeeps
<1> QED
  BY <1>1, <1>2, <1>3

LEMMA OthersRead ==
  ASSUME Inv, \/ \E v \in DOMAIN versions : AgentChecks(v) \/ RollbackReads(v)
              \/ \E p \in Processes, id \in DOMAIN proposals : ApproveReads(p, id)
              \/ \E id \in DOMAIN proposals : RejectReads(id)
              \/ \E s \in Slugs : DeleteChecks(s)
  PROVE  Inv'
<1> USE Holds
<1>1. CASE \E v \in DOMAIN versions : AgentChecks(v)
  <2>1. PICK v \in DOMAIN versions : AgentChecks(v)
    BY <1>1
  <2>2. versions[v] \in Versions /\ versions[v].spec \in GoodSpecs /\ LiveSpec \in GoodSpecs
    BY LiveIsGood, SpecsAreGood
  <2> DEFINE o == [at |-> "selfpublishing", draft |-> v, published |-> LiveSpec,
                   changes |-> SourceChanges(LiveSpec, versions[v].spec)]
  <2>3. SourceChanges(LiveSpec, versions[v].spec) \subseteq Changes
    BY <2>2, Changing
  <2>4. Sound(o, Len(versions), Len(proposals))
    BY <2>2, <2>3 DEF Sound
  <2>5. Step("loop", o) /\ UNCHANGED <<versions, live, sources, proposals, mine>>
    BY <2>1 DEF AgentChecks
  <2> HIDE DEF o
  <2> QED
    BY <2>4, <2>5, ReadingKeeps
<1>2. CASE \E v \in DOMAIN versions : RollbackReads(v)
  <2>1. PICK v \in DOMAIN versions : RollbackReads(v)
    BY <1>2
  <2> DEFINE o == [at |-> "rollback", draft |-> v]
  <2>2. Sound(o, Len(versions), Len(proposals))
    BY DEF Sound
  <2>3. Step("thread", o) /\ UNCHANGED <<versions, live, sources, proposals, mine>>
    BY <2>1 DEF RollbackReads
  <2> HIDE DEF o
  <2> QED
    BY <2>2, <2>3, ReadingKeeps
<1>3. CASE \/ \E p \in Processes, id \in DOMAIN proposals : ApproveReads(p, id)
           \/ \E id \in DOMAIN proposals : RejectReads(id)
  <2>1. PICK p \in Processes, id \in DOMAIN proposals, at \in {"approving", "rejecting"} :
          Step(p, [at |-> at, id |-> id]) /\ UNCHANGED <<versions, live, sources, proposals, mine>>
    BY <1>3 DEF ApproveReads, RejectReads
  <2> DEFINE o == [at |-> at, id |-> id]
  <2>2. Sound(o, Len(versions), Len(proposals)) /\ Step(p, o)
    BY <2>1 DEF Sound
  <2> HIDE DEF o
  <2> QED
    BY <2>1, <2>2, ReadingKeeps
<1>4. CASE \E s \in Slugs : DeleteChecks(s)
  <2>1. PICK s \in Slugs : DeleteChecks(s)
    BY <1>4
  <2>2. s = "style"
    BY <2>1, LiveIsGood DEF DeleteChecks, Protected, Slugs, GoodSpecs
  <2> DEFINE o == [at |-> "deleting", slug |-> s]
  <2>3. Sound(o, Len(versions), Len(proposals))
    BY <2>2 DEF Sound
  <2>4. Step("thread", o) /\ UNCHANGED <<versions, live, sources, proposals, mine>>
    BY <2>1 DEF DeleteChecks
  <2> HIDE DEF o
  <2> QED
    BY <2>3, <2>4, ReadingKeeps
<1> QED
  BY <1>1, <1>2, <1>3, <1>4

\* A draft is made, and perhaps retired at once.
LEMMA MemberDrafts ==
  ASSUME Inv, EditDrafts \/ RepublishDrafts
  PROVE  Inv'
<1> USE Holds
<1>1. CASE EditDrafts
  <2> DEFINE held == op["loop"]
             base == versions[held.base].spec
             spec == [LiveSpec EXCEPT !["style"] = held.body]
             drafted == Append(versions, Draft(spec, "member"))
             changed == SourceChanges(base, spec)
             o == [at |-> "publishing", base |-> held.base, draft |-> Len(versions) + 1, goal |-> spec,
                   skip |-> FALSE, changes |-> changed]
  <2>1. held.base \in 1..Len(versions) /\ held.body \in Rules
    BY <1>1 DEF EditDrafts, Busy, Sound
  <2>2. spec \in GoodSpecs
    BY <2>1, LiveIsGood, Styling
  <2>3. changed \subseteq Changes
    BY <2>2, Changing
  <2>4. \/ versions' = Retired(drafted, Len(versions) + 1) /\ Step("loop", Idle)
        \/ versions' = drafted /\ Step("loop", o)
    BY <1>1 DEF EditDrafts, Released
  <2>5. UNCHANGED <<live, sources, proposals, mine>>
    BY <1>1 DEF EditDrafts
  <2> HIDE DEF spec, changed
  <2>6. WellMade(drafted, live) /\ Len(drafted) = Len(versions) + 1
    BY <2>2, Appending DEF Actors
  <2>7. Sound(o, Len(versions) + 1, Len(proposals))
    BY <2>1, <2>2, <2>3 DEF Sound
  <2> HIDE DEF drafted, o
  <2>8. Len(versions) + 1 \in DOMAIN drafted
    BY <2>6 DEF WellMade
  <2>9. WellMade(Retired(drafted, Len(versions) + 1), live)
        /\ Len(Retired(drafted, Len(versions) + 1)) = Len(versions) + 1
    BY <2>6, <2>8, Retiring
  <2>10. WellMade(versions', live') /\ Len(versions') = Len(versions) + 1
    BY <2>4, <2>5, <2>6, <2>9
  <2>11. \E x : Step("loop", x) /\ Sound(x, Len(versions'), Len(proposals'))
    BY <2>4, <2>5, <2>7, <2>10
  <2> QED
    BY <2>5, <2>10, <2>11, Stepping
<1>2. CASE RepublishDrafts
  <2> DEFINE held == op["loop"]
             spec == versions[held.target].spec
             o == [at |-> "publishing", base |-> held.base, draft |-> Len(versions) + 1, goal |-> held.goal,
                   skip |-> TRUE]
  <2>1. held.base \in 1..Len(versions) /\ held.target \in 1..Len(versions) /\ held.goal \in GoodSpecs
    BY <1>2 DEF RepublishDrafts, Busy, Sound
  <2>2. spec \in GoodSpecs
    BY <2>1, SpecsAreGood
  <2>3. versions' = Append(versions, Draft(spec, "member")) /\ Step("loop", o)
        /\ UNCHANGED <<live, sources, proposals, mine>>
    BY <1>2 DEF RepublishDrafts
  <2> HIDE DEF spec
  <2>4. WellMade(versions', live') /\ Len(versions') = Len(versions) + 1
    BY <2>2, <2>3, Appending DEF Actors
  <2>5. Sound(o, Len(versions) + 1, Len(proposals))
    BY <2>1 DEF Sound
  <2> HIDE DEF o
  <2> QED
    BY <2>3, <2>4, <2>5, Stepping
<1> QED
  BY <1>1, <1>2

LEMMA OthersDraft ==
  ASSUME Inv, 0 \notin Bodies, OperatorDrafts \/ \E b \in Bodies : AgentDrafts(b)
  PROVE  Inv'
<1> USE Holds
<1>1. CASE OperatorDrafts
  <2>1. Snapshot \in GoodSpecs
    BY DEF Snapshot, GoodSpecs, Rows, Slugs
  <2>2. versions' = Append(versions, Draft(Snapshot, "admin"))
        /\ UNCHANGED <<live, sources, proposals, mine, op>>
    BY <1>1 DEF OperatorDrafts
  <2>3. WellMade(versions', live') /\ Len(versions') = Len(versions) + 1
    BY <2>1, <2>2, Appending DEF Actors
  <2> QED
    BY <2>2, <2>3, Stepping
<1>2. CASE \E b \in Bodies : AgentDrafts(b)
  <2>1. PICK b \in Bodies : AgentDrafts(b)
    BY <1>2
  <2>2. UNCHANGED <<live, sources, proposals, op>> /\ b \in Rules
    BY <2>1 DEF AgentDrafts, Rules
  <2>3. CASE mine = 0
    <3> DEFINE spec == [LiveSpec EXCEPT !["style"] = b]
    <3>1. spec \in GoodSpecs
      BY <2>2, LiveIsGood, Styling
    <3>2. versions' = Append(versions, Draft(spec, "agent")) /\ mine' = Len(versions) + 1
      BY <2>1, <2>3 DEF AgentDrafts
    <3> HIDE DEF spec
    <3>3. WellMade(versions', live') /\ Len(versions') = Len(versions) + 1
      BY <2>2, <3>1, <3>2, Appending DEF Actors
    <3> QED
      BY <2>2, <3>2, <3>3, Stepping
  <2>4. CASE mine # 0
    <3>1. mine \in DOMAIN versions /\ versions[mine].status = "draft" /\ mine' = mine
          /\ versions' = [versions EXCEPT ![mine].spec["style"] = b]
      BY <2>1, <2>4 DEF AgentDrafts
    <3> DEFINE spec == [versions[mine].spec EXCEPT !["style"] = b]
               w == [versions[mine] EXCEPT !.spec = spec]
    <3>2. versions[mine] \in Versions /\ spec \in GoodSpecs
      BY <2>2, <3>1, SpecsAreGood, Styling
    <3>3. versions' = [versions EXCEPT ![mine] = w]
      BY <3>1
    <3> HIDE DEF spec
    <3>4. w \in Versions /\ w.status = versions[mine].status
      BY <3>2 DEF Versions
    <3> HIDE DEF w
    <3>5. WellMade([versions EXCEPT ![mine] = w], live) /\ Len([versions EXCEPT ![mine] = w]) = Len(versions)
      BY <3>1, <3>4, Replacing
    <3>6. WellMade(versions', live') /\ Len(versions') = Len(versions)
      BY <2>2, <3>3, <3>5
    <3> QED
      BY <2>2, <3>1, <3>6, Stepping
  <2> QED
    BY <2>3, <2>4
<1> QED
  BY <1>1, <1>2

\* Whoever publishes: one transaction, and what the operation goes on to apply.
LEMMA PublishKeeps ==
  ASSUME Inv, NEW v \in DOMAIN versions, NEW actor, NEW by, NEW skip, CanPublish(v, by, skip), Publish(v, actor),
         UNCHANGED <<sources, proposals, mine>>,
         \/ op' = op
         \/ \E p \in Processes : \E o : Step(p, o) /\ Sound(o, Len(versions), Len(proposals))
  PROVE  Inv'
<1>1. v # live
  BY Holds DEF CanPublish, WellMade
<1>2. versions' = Published(versions, v) /\ live' = v
  BY DEF Publish
<1>3. WellMade(Published(versions, v), v) /\ Len(Published(versions, v)) = Len(versions)
  BY <1>1, Holds, Publishing
<1> QED
  BY <1>2, <1>3, Holds, Stepping

LEMMA MemberPublishesKeeps ==
  ASSUME Inv, MemberPublishes
  PROVE  Inv'
<1> USE Holds
<1> DEFINE held == op["loop"]
           o == [at |-> "applying", changes |-> ChangesOf(held), by |-> "member",
                 audit |-> held.draft, done |-> 0, base |-> held.base]
<1>1. /\ held.at = "publishing" /\ held.draft \in 1..Len(versions) /\ held.goal \in GoodSpecs
      /\ ~held.skip => held.changes \subseteq Changes
  BY DEF MemberPublishes, Busy, Sound
<1>2. UNCHANGED <<sources, proposals, mine>>
      /\ \/ CanPublish(held.draft, "member", held.skip) /\ Publish(held.draft, "member") /\ Step("loop", o)
         \/ versions' = Retired(versions, held.draft) /\ UNCHANGED live /\ Step("loop", Idle)
  BY DEF MemberPublishes, Released
<1>3. ChangesOf(held) \subseteq Changes
  BY <1>1, Changing DEF ChangesOf
<1>4. Sound(o, Len(versions), Len(proposals))
  BY <1>1, <1>3 DEF Sound, Actors
<1> HIDE DEF o, held
<1>5. CASE CanPublish(held.draft, "member", held.skip) /\ Publish(held.draft, "member") /\ Step("loop", o)
  BY <1>1, <1>2, <1>4, <1>5, PublishKeeps
<1>6. CASE versions' = Retired(versions, held.draft) /\ UNCHANGED live /\ Step("loop", Idle)
  <2>1. WellMade(versions', live') /\ Len(versions') = Len(versions)
    BY <1>1, <1>6, Retiring
  <2> QED
    BY <1>2, <1>6, <2>1, Stepping
<1> QED
  BY <1>2, <1>5, <1>6

LEMMA AgentPublishesKeeps ==
  ASSUME Inv, AgentPublishes
  PROVE  Inv'
<1> USE Holds
<1> DEFINE held == op["loop"]
           o == [at |-> "applying", changes |-> held.changes, by |-> "agent",
                 audit |-> held.draft, done |-> 0, record |-> held.published]
<1>1. /\ held.at = "selfpublishing" /\ held.draft \in 1..Len(versions)
      /\ held.published \in GoodSpecs /\ held.changes \subseteq Changes
  BY DEF AgentPublishes, Busy, Sound
<1>2. UNCHANGED <<sources, proposals, mine>>
      /\ \/ CanPublish(held.draft, "agent", FALSE) /\ Publish(held.draft, "agent") /\ Step("loop", o)
         \/ UNCHANGED <<versions, live>> /\ Step("loop", Idle)
  BY DEF AgentPublishes, Released, UnchangedProfile
<1>3. Sound(o, Len(versions), Len(proposals))
  BY <1>1 DEF Sound, Actors
<1> HIDE DEF o, held
<1> QED
  BY <1>1, <1>2, <1>3, PublishKeeps, ReadingKeeps

LEMMA ApprovalKeeps ==
  ASSUME Inv, NEW p \in Processes, ApprovePublishes(p)
  PROVE  Inv'
<1> USE Holds
<1> DEFINE id == op[p].id
           prop == proposals[id]
           o == [at |-> "applying", changes |-> prop.changes, by |-> "agent",
                 audit |-> prop.version, done |-> id]
<1>1. id \in DOMAIN proposals
  BY DEF ApprovePublishes, Busy, Sound
<1>2. UNCHANGED <<sources, proposals, mine>>
      /\ \/ CanPublish(prop.version, "approver", FALSE) /\ Publish(prop.version, "approver") /\ Step(p, o)
         \/ UNCHANGED <<versions, live>> /\ Step(p, Idle)
  BY DEF ApprovePublishes, Released, UnchangedProfile
<1>3. prop \in Proposals /\ prop.version \in 1..Len(versions)
  BY <1>1
<1> HIDE DEF id, prop
<1>4. prop.changes \subseteq Changes
  BY <1>3 DEF Proposals
<1>5. Sound(o, Len(versions), Len(proposals))
  BY <1>3, <1>4 DEF Sound, Actors
<1> HIDE DEF o
<1> QED
  BY <1>2, <1>3, <1>5, PublishKeeps, ReadingKeeps

LEMMA OperatorPublishesKeeps ==
  ASSUME Inv, RollbackPublishes \/ \E v \in DOMAIN versions : OperatorPublishes(v)
  PROVE  Inv'
<1> USE Holds
<1>1. CASE \E v \in DOMAIN versions : OperatorPublishes(v)
  BY <1>1, PublishKeeps DEF OperatorPublishes
<1>2. CASE RollbackPublishes
  <2>1. op["thread"].draft \in 1..Len(versions)
    BY <1>2 DEF RollbackPublishes, Busy, Sound
  <2>2. UNCHANGED <<sources, proposals, mine>> /\ Step("thread", Idle)
        /\ \/ CanPublish(op["thread"].draft, "admin", TRUE) /\ Publish(op["thread"].draft, "admin")
           \/ UNCHANGED <<versions, live>>
    BY <1>2 DEF RollbackPublishes, Released, UnchangedProfile
  <2> QED
    BY <2>1, <2>2, PublishKeeps, ReadingKeeps
<1> QED
  BY <1>1, <1>2

\* Versions are retired and patched, never the published one.
LEMMA RetiringKeeps ==
  ASSUME Inv, RejectRetires \/ \E v \in DOMAIN versions : OperatorRetires(v)
  PROVE  Inv'
<1> USE Holds
<1>1. PICK v \in DOMAIN versions :
        /\ versions' = Retired(versions, v) \/ versions' = versions
        /\ UNCHANGED <<live, sources, proposals, mine>>
        /\ \/ op' = op
           \/ \E o : Step("thread", o) /\ Sound(o, Len(versions), Len(proposals))
  <2>1. CASE \E v \in DOMAIN versions : OperatorRetires(v)
    BY <2>1 DEF OperatorRetires
  <2>2. CASE RejectRetires
    <3> DEFINE id == op["thread"].id
               o == [at |-> "deciding", id |-> id]
    <3>1. id \in DOMAIN proposals
      BY <2>2 DEF RejectRetires, Busy, Sound
    <3>2. proposals[id].version \in DOMAIN versions
      BY <3>1
    <3>3. /\ versions' = Retired(versions, proposals[id].version) \/ versions' = versions
          /\ UNCHANGED <<live, sources, proposals, mine>> /\ Step("thread", o)
      BY <2>2 DEF RejectRetires
    <3>4. Sound(o, Len(versions), Len(proposals))
      BY <3>1 DEF Sound
    <3> QED
      BY <3>2, <3>3, <3>4
  <2> QED
    BY <2>1, <2>2
<1>2. WellMade(versions', live') /\ Len(versions') = Len(versions)
  BY <1>1, Retiring
<1> QED
  BY <1>1, <1>2, Stepping

LEMMA PatchKeeps ==
  ASSUME Inv, 0 \notin Bodies, NEW v \in DOMAIN versions, NEW s \in Slugs, NEW b \in Bodies, OperatorPatches(v, s, b)
  PROVE  Inv'
<1> USE Holds
<1> DEFINE spec == [versions[v].spec EXCEPT ![s] = b]
           w == [versions[v] EXCEPT !.spec = spec]
<1>1. versions' = [versions EXCEPT ![v] = w] /\ UNCHANGED <<live, sources, proposals, mine, op>>
  BY DEF OperatorPatches
<1>2. versions[v] \in Versions /\ versions[v].spec \in GoodSpecs
  BY SpecsAreGood
<1>3. spec \in GoodSpecs
  <2> DEFINE old == versions[v].spec
  <2>1. old \in [Slugs -> Rules] /\ old["money"] # 0 /\ b \in Rules /\ b # 0 /\ "money" \in Slugs
    BY <1>2 DEF GoodSpecs, Rules, Slugs
  <2> HIDE DEF old
  <2>2. [old EXCEPT ![s] = b] \in GoodSpecs
    BY <2>1 DEF GoodSpecs
  <2> QED
    BY <2>2 DEF old
<1> HIDE DEF spec
<1>4. w \in Versions /\ w.status = versions[v].status
  BY <1>2, <1>3 DEF Versions
<1> HIDE DEF w
<1>5. WellMade([versions EXCEPT ![v] = w], live) /\ Len([versions EXCEPT ![v] = w]) = Len(versions)
  <2>1. WellMade(versions, live) /\ (w.status = "published" <=> versions[v].status = "published")
    BY <1>4
  <2> QED
    BY <1>4, <2>1, Replacing
<1> QED
  BY <1>1, <1>5, Stepping

\* The source rows.
LEMMA SourcesKeep ==
  ASSUME Inv, 0 \notin Bodies,
         \/ Deletes
         \/ \E s \in Slugs, b \in Bodies : PutSource(s, b)
  PROVE  Inv'
<1> USE Holds
<1>1. PICK s \in Slugs, row \in [body : Rules, by : Actors, audit : Nat] :
        /\ s = "money" => row.body # 0
        /\ sources' = [sources EXCEPT ![s] = row]
        /\ UNCHANGED <<versions, live, proposals, mine>>
        /\ op' = op \/ Step("thread", Idle)
  <2>1. CASE Deletes
    <3>1. op["thread"].slug = "style" /\ NoRow \in [body : Rules, by : Actors, audit : Nat]
      BY <2>1 DEF Deletes, Busy, Sound, NoRow, Rules, Actors
    <3> QED
      BY <2>1, <3>1 DEF Deletes, Released, Slugs
  <2>2. CASE \E s \in Slugs, b \in Bodies : PutSource(s, b)
    <3>1. PICK s \in Slugs, b \in Bodies : PutSource(s, b)
      BY <2>2
    <3> DEFINE row == [body |-> b, by |-> "admin", audit |-> 0]
    <3>2. row \in [body : Rules, by : Actors, audit : Nat] /\ row.body # 0
      BY DEF Rules, Actors
    <3>3. sources' = [sources EXCEPT ![s] = row] /\ UNCHANGED <<versions, live, proposals, mine, op>>
      BY <3>1 DEF PutSource
    <3> HIDE DEF row
    <3> QED
      BY <3>2, <3>3
  <2> QED
    BY <2>1, <2>2
<1>2. sources' \in Rows
  BY <1>1 DEF Rows, Slugs
<1> QED
  BY <1>1, <1>2, Stepping

\* Changes are applied one by one; what is left are fewer.
LEMMA ApplyKeeps ==
  ASSUME Inv, NEW p \in Processes, Apply(p)
  PROVE  Inv'
<1> USE Holds
<1> DEFINE held == op[p]
<1>1. /\ held.at = "applying" /\ {"at", "changes", "by", "audit"} \subseteq DOMAIN held
      /\ held.changes \subseteq Changes /\ held.by \in Actors /\ held.audit \in 1..Len(versions)
      /\ "record" \in DOMAIN held => held.record \in GoodSpecs
  BY DEF Apply, Busy, Sound
<1>2. PICK c \in held.changes :
        /\ UNCHANGED <<versions, live, proposals, mine>>
        /\ \/ Applied(p, c) /\ Step(p, [held EXCEPT !.changes = @ \ {c}])
           \/ Step(p, Idle) /\ UNCHANGED sources
  BY DEF Apply, Released
<1>3. CASE Step(p, Idle) /\ UNCHANGED sources
  BY <1>2, <1>3, ReadingKeeps
<1>4. CASE Applied(p, c) /\ Step(p, [held EXCEPT !.changes = @ \ {c}])
  <2> DEFINE row == [body |-> c.body, by |-> held.by, audit |-> held.audit]
             o == [held EXCEPT !.changes = @ \ {c}]
  <2>1. c.slug = "style" /\ c.body \in Rules
    BY <1>1 DEF Changes
  <2>2. row \in [body : Rules, by : Actors, audit : Nat]
    BY <1>1, <2>1
  <2>3. sources' = [sources EXCEPT !["style"] = row]
    BY <1>4, <2>1 DEF Applied
  <2> HIDE DEF held
  <2>4. /\ DOMAIN o = DOMAIN held /\ o.changes = held.changes \ {c}
        /\ \A f \in DOMAIN held : f # "changes" => o[f] = held[f]
    BY <1>1
  <2>5. o.at = held.at /\ o.by = held.by /\ o.audit = held.audit
        /\ ("record" \in DOMAIN held => o.record = held.record)
    BY <1>1, <2>4
  <2> HIDE DEF row, o
  <2>6. sources' \in Rows
    BY <2>2, <2>3 DEF Rows, Slugs
  <2>7. Sound(o, Len(versions), Len(proposals))
    BY <1>1, <2>4, <2>5 DEF Sound
  <2> QED
    BY <1>2, <1>4, <2>6, <2>7, Stepping DEF held, o
<1> QED
  BY <1>2, <1>3, <1>4

\* The proposals: one more, or one decided.
LEMMA Proposed ==
  ASSUME NEW ps \in Seq(Proposals), NEW x \in Proposals, NEW n,
         x.version \in 1..n, \A i \in DOMAIN ps : ps[i].version \in 1..n
  PROVE  LET qs == Append(ps, x) IN
         qs \in Seq(Proposals) /\ Len(qs) >= Len(ps) /\ \A i \in DOMAIN qs : qs[i].version \in 1..n
<1> DEFINE qs == Append(ps, x)
<1>1. /\ qs \in Seq(Proposals) /\ Len(qs) = Len(ps) + 1 /\ Len(ps) \in Nat
      /\ DOMAIN qs = 1..Len(ps) + 1 /\ DOMAIN ps = 1..Len(ps)
      /\ \A i \in 1..Len(ps) : qs[i] = ps[i]
      /\ qs[Len(ps) + 1] = x
  BY AppendProperties
<1> HIDE DEF qs
<1>2. \A i \in DOMAIN qs : i \in DOMAIN ps \/ i = Len(ps) + 1
  BY <1>1
<1>3. \A i \in DOMAIN qs : qs[i].version \in 1..n
  BY <1>1, <1>2
<1> QED
  BY <1>1, <1>3 DEF qs

LEMMA Decided ==
  ASSUME NEW ps \in Seq(Proposals), NEW id, NEW status \in {"approved", "rejected"}, NEW n,
         \A i \in DOMAIN ps : ps[i].version \in 1..n
  PROVE  LET qs == [ps EXCEPT ![id].status = status] IN
         qs \in Seq(Proposals) /\ Len(qs) >= Len(ps) /\ \A i \in DOMAIN qs : qs[i].version \in 1..n
<1> DEFINE decided == [ps[id] EXCEPT !.status = status]
           qs == [ps EXCEPT ![id] = decided]
<1> SUFFICES qs \in Seq(Proposals) /\ Len(qs) >= Len(ps) /\ \A i \in DOMAIN qs : qs[i].version \in 1..n
  OBVIOUS
<1>1. Len(ps) \in Nat /\ DOMAIN ps = 1..Len(ps)
  OBVIOUS
<1>2. CASE id \notin DOMAIN ps
  <2>1. qs = ps
    BY <1>1, <1>2
  <2> HIDE DEF qs
  <2> QED
    BY <1>1, <2>1
<1>3. CASE id \in DOMAIN ps
  <2>1. ps[id] \in Proposals
    BY <1>3
  <2>2. decided \in Proposals /\ decided.version = ps[id].version
    BY <2>1 DEF Proposals
  <2> HIDE DEF decided
  <2>3. qs \in Seq(Proposals) /\ Len(qs) = Len(ps) /\ DOMAIN qs = DOMAIN ps
        /\ qs[id] = decided /\ \A i \in DOMAIN ps : i # id => qs[i] = ps[i]
    BY <1>1, <1>3, <2>2
  <2> HIDE DEF qs
  <2>4. \A i \in DOMAIN qs : qs[i].version \in 1..n
    BY <1>3, <2>2, <2>3
  <2> QED
    BY <1>1, <2>3, <2>4
<1> QED
  BY <1>2, <1>3

LEMMA ProposalsKeep ==
  ASSUME Inv, UNCHANGED <<versions, live, sources, mine>>, op' = op \/ \E p \in Processes : Step(p, Idle),
         proposals' \in Seq(Proposals), Len(proposals') >= Len(proposals),
         \A i \in DOMAIN proposals' : proposals'[i].version \in 1..Len(versions)
  PROVE  Inv'
<1>1. \/ op' = op
      \/ \E p \in Processes : \E o : Step(p, o) /\ Sound(o, Len(versions'), Len(proposals'))
  BY Holds
<1> QED
  BY <1>1, Holds, Stepping

LEMMA ProposingKeeps ==
  ASSUME Inv, \/ \E v \in DOMAIN versions : AgentProposes(v)
              \/ RejectDecides
              \/ \E p \in Processes : Finish(p)
  PROVE  Inv'
<1> USE Holds
<1>1. ASSUME NEW v \in DOMAIN versions, NEW before \in GoodSpecs, NEW of \in SUBSET Changes,
             NEW status \in {"pending", "auto_published"}
      PROVE  Proposal(v, before, of, status) \in Proposals /\ Proposal(v, before, of, status).version = v
  BY SpecsAreGood DEF Proposal, Proposals
<1>2. CASE \E v \in DOMAIN versions : AgentProposes(v)
  <2>1. PICK v \in DOMAIN versions : AgentProposes(v)
    BY <1>2
  <2> DEFINE x == Proposal(v, LiveSpec, SourceChanges(LiveSpec, versions[v].spec), "pending")
  <2>2. x \in Proposals /\ x.version = v
    BY <1>1, LiveIsGood, SpecsAreGood, Changing
  <2>3. proposals' = Append(proposals, x) /\ UNCHANGED <<versions, live, sources, mine, op>>
    BY <2>1 DEF AgentProposes
  <2> HIDE DEF x
  <2> QED
    BY <2>2, <2>3, Proposed, ProposalsKeep
<1>3. CASE RejectDecides
  <2>1. /\ UNCHANGED <<versions, live, sources, mine>> /\ Step("thread", Idle)
        /\ proposals' = [proposals EXCEPT ![op["thread"].id].status = "rejected"]
    BY <1>3 DEF RejectDecides, Released
  <2> QED
    BY <2>1, Decided, ProposalsKeep
<1>4. CASE \E p \in Processes : Finish(p)
  <2>1. PICK p \in Processes : Finish(p)
    BY <1>4
  <2> DEFINE held == op[p]
             x == Proposal(held.audit, held.record, {}, "auto_published")
  <2>2. held.audit \in DOMAIN versions /\ ("record" \in DOMAIN held => held.record \in GoodSpecs)
    BY <2>1 DEF Finish, Busy, Sound
  <2>3. "record" \in DOMAIN held => x \in Proposals /\ x.version = held.audit
    BY <1>1, <2>2
  <2>4. /\ UNCHANGED <<versions, live, sources, mine>> /\ Step(p, Idle)
        /\ \/ proposals' = [proposals EXCEPT ![held.done].status = "approved"]
           \/ "record" \in DOMAIN held /\ proposals' = Append(proposals, x)
           \/ proposals' = proposals
    BY <2>1 DEF Finish, Released
  <2> HIDE DEF x, held
  <2>5. CASE proposals' = [proposals EXCEPT ![held.done].status = "approved"]
    BY <2>4, <2>5, Decided, ProposalsKeep
  <2>6. CASE "record" \in DOMAIN held /\ proposals' = Append(proposals, x)
    BY <2>2, <2>3, <2>4, <2>6, Proposed, ProposalsKeep
  <2>7. CASE proposals' = proposals
    BY <2>4, <2>7, ReadingKeeps
  <2> QED
    BY <2>4, <2>5, <2>6, <2>7
<1> QED
  BY <1>2, <1>3, <1>4

\* A restart drops the operations and seeds the rows and the profile.
LEMMA RestartKeeps ==
  ASSUME Inv, 0 \notin Bodies, NEW code \in Bodies, Restart(code)
  PROVE  Inv'
<1> USE Holds
<1> DEFINE spec == [s \in Slugs |-> code]
           drafted == Append(versions, Draft(spec, "boot"))
<1>1. /\ op' = [p \in Processes |-> Idle] /\ mine' = 0 /\ proposals' = proposals
      /\ sources' = [s \in Slugs |-> BootSource(sources[s], code)]
      /\ \/ UNCHANGED <<versions, live>>
         \/ versions' = Retired(drafted, Len(drafted)) /\ UNCHANGED live
         \/ versions' = Published(drafted, Len(drafted)) /\ live' = Len(drafted)
  BY DEF Restart, UnchangedProfile
<1>2. spec \in GoodSpecs
  BY DEF GoodSpecs, Slugs, Rules
<1> HIDE DEF spec
<1>3. WellMade(drafted, live) /\ Len(drafted) = Len(versions) + 1
  BY <1>2, Appending DEF Actors
<1> HIDE DEF drafted
<1>4. Len(drafted) \in DOMAIN drafted /\ Len(drafted) # live
  BY <1>3 DEF WellMade
<1>5. WellMade(versions', live') /\ Len(versions') >= Len(versions)
  <2>1. WellMade(Retired(drafted, Len(drafted)), live) /\ Len(Retired(drafted, Len(drafted))) = Len(drafted)
    BY <1>3, <1>4, Retiring
  <2>2. WellMade(Published(drafted, Len(drafted)), Len(drafted))
        /\ Len(Published(drafted, Len(drafted))) = Len(drafted)
    BY <1>3, <1>4, Publishing
  <2> QED
    BY <1>1, <1>3, <2>1, <2>2
<1>6. sources' \in Rows
  <2>1. ASSUME NEW s \in Slugs
        PROVE  /\ sources[s] \in [body : Rules, by : Actors, audit : Nat]
               /\ BootSource(sources[s], code) \in [body : Rules, by : Actors, audit : Nat]
               /\ BootSource(sources[s], code).body # 0
    BY DEF BootSource, Rules, Actors, Rows
  <2>2. "money" \in Slugs
    BY DEF Slugs
  <2> QED
    BY <1>1, <2>1, <2>2 DEF Rows
<1>7. Len(versions') \in Nat
  BY <1>5 DEF WellMade
<1> QED
  BY <1>1, <1>5, <1>6, <1>7 DEF Inv
-----------------------------------------------------------------------------

\* Every step keeps the invariant (the whole of Content's Next).
LEMMA StepKeeps == 0 \notin Bodies /\ Inv /\ [Next]_vars => Inv'
<1> SUFFICES ASSUME 0 \notin Bodies, Inv, [Next]_vars  PROVE Inv'
  OBVIOUS
<1>1. CASE UNCHANGED vars
  BY <1>1, ReadingKeeps DEF vars
<1>2. CASE Next
  BY <1>2, MemberReads, OthersRead, MemberDrafts, OthersDraft, MemberPublishesKeeps, AgentPublishesKeeps,
     ApprovalKeeps, OperatorPublishesKeeps, RetiringKeeps, PatchKeeps, SourcesKeep, ApplyKeeps, ProposingKeeps,
     RestartKeeps DEF Next
<1> QED
  BY <1>1, <1>2

LEMMA InvariantHolds == Spec => []Inv
<1>1. Inv /\ [Next]_vars => Inv'
  BY BodiesAssumption, StepKeeps
<1> QED
  BY <1>1, InitHolds, PTL DEF Spec

\* Whoever publishes, approves, rolls back, rejects or retires in between whose
\* transactions, one version is published and the profile points to it, for any bodies
\* (0, which stands for an absent rule, is none) and any gates (ContentStore.publish).
THEOREM OneVersionIsPublished == Spec => []OnePublished
<1>1. Inv => OnePublished
  BY DEF Inv, WellMade, OnePublished
<1> QED
  BY <1>1, InvariantHolds, PTL

\* Every version and the source rows carry the money rule for ever: neither a snapshot of the
\* rows nor delete_source, whose check is a transaction of its own, can lose it.
THEOREM MoneyStays == Spec => []MoneyIsNeverLost
<1>1. Inv => MoneyIsNeverLost
  BY SpecsAreGood DEF Inv, MoneyIsNeverLost, Rows, GoodSpecs
<1> QED
  BY <1>1, InvariantHolds, PTL
-----------------------------------------------------------------------------
(***************************************************************************)
(* More proofs about the content of a profile (module Content), about its  *)
(* steps: what a publish supersedes, what becomes of a version that was    *)
(* published, and the fence around the money rule.                         *)
(*                                                                         *)
(* What makes it inductive: a member's operation holds the version it read *)
(* as its base; that version is no draft, so its content is settled, and   *)
(* the operation's goal has the base's money rule.                         *)
(***************************************************************************)

\* What was no draft keeps its content, and what was retired stays so.
Kept(vs, ws) ==
    \A v \in DOMAIN vs :
        /\ v \in DOMAIN ws
        /\ vs[v].status # "draft" => ws[v].spec = vs[v].spec /\ ws[v].status # "draft"
        /\ vs[v].status = "retired" => ws[v].status = "retired"

Editing == {"editing", "republishing", "publishing"}

\* The base of a member's operation is settled, and its goal is inside the fence.
BaseIsSettled ==
    op["loop"].at \in Editing =>
        /\ versions[op["loop"].base].status # "draft"
        /\ op["loop"].at # "editing" => op["loop"].goal["money"] = versions[op["loop"].base].spec["money"]

FenceInv == Inv /\ BaseIsSettled /\ (managed = "boot" => pub = "boot")
-----------------------------------------------------------------------------

LEMMA KeptByAppending ==
  ASSUME NEW vs \in Seq(Versions), NEW w
  PROVE  Kept(vs, Append(vs, w))
<1>1. Len(vs) \in Nat /\ DOMAIN vs = 1..Len(vs)
      /\ \A v \in DOMAIN vs : v \in DOMAIN Append(vs, w) /\ Append(vs, w)[v] = vs[v]
  OBVIOUS
<1> QED
  BY <1>1 DEF Kept

LEMMA KeptTwice ==
  ASSUME NEW us, NEW vs, NEW ws, Kept(us, vs), Kept(vs, ws)
  PROVE  Kept(us, ws)
  BY DEF Kept

LEMMA KeptByRetiring ==
  ASSUME NEW vs \in Seq(Versions), NEW v \in DOMAIN vs
  PROVE  Kept(vs, Retired(vs, v))
<1> DEFINE w == [vs[v] EXCEPT !.status = "retired"]
<1>1. w.status = "retired" /\ w.spec = vs[v].spec
  <2>1. vs[v] \in Versions
    OBVIOUS
  <2> QED
    BY <2>1 DEF Versions
<1>2. Retired(vs, v) = vs \/ Retired(vs, v) = [vs EXCEPT ![v] = w]
  BY DEF Retired
<1> HIDE DEF w
<1> QED
  BY <1>1, <1>2 DEF Kept

LEMMA KeptByPublishing ==
  ASSUME NEW vs, WellMade(vs, live), NEW v \in DOMAIN vs, vs[v].status \in {"draft", "superseded"}
  PROVE  Kept(vs, Published(vs, v)) /\ Published(vs, v)[v].spec = vs[v].spec
<1>1. ASSUME NEW i \in DOMAIN vs
      PROVE  \A status \in {"published", "superseded"} :
                 /\ [vs[i] EXCEPT !.status = status].status = status
                 /\ [vs[i] EXCEPT !.status = status].spec = vs[i].spec
  <2>1. vs[i] \in Versions
    BY DEF WellMade
  <2> QED
    BY <2>1 DEF Versions
<1>2. DOMAIN Published(vs, v) = DOMAIN vs
  BY DEF Published
<1>3. vs[live].status = "published" /\ v # live
  BY DEF WellMade
<1>4. ASSUME NEW i \in DOMAIN vs
      PROVE  /\ Published(vs, v)[i].spec = vs[i].spec
             /\ vs[i].status # "draft" => Published(vs, v)[i].status # "draft"
             /\ vs[i].status = "retired" => Published(vs, v)[i].status = "retired"
  <2>1. Published(vs, v)[i] = IF i = v THEN [vs[i] EXCEPT !.status = "published"]
                              ELSE IF i = live THEN [vs[i] EXCEPT !.status = "superseded"] ELSE vs[i]
    BY DEF Published
  <2>2. CASE i = v
    BY <1>1, <2>1, <2>2
  <2>3. CASE i # v /\ i = live
    BY <1>1, <1>3, <2>1, <2>3
  <2>4. CASE i # v /\ i # live
    BY <2>1, <2>4
  <2> QED
    BY <2>2, <2>3, <2>4
<1> QED
  BY <1>2, <1>4 DEF Kept

\* Only a draft is edited.
LEMMA KeptByEditing ==
  ASSUME NEW vs \in Seq(Versions), NEW v \in DOMAIN vs, vs[v].status = "draft", NEW w
  PROVE  Kept(vs, [vs EXCEPT ![v] = w])
  BY DEF Kept

LEMMA StepKeepsHistory ==
  ASSUME Inv, 0 \notin Bodies, Next
  PROVE  Kept(versions, versions')
<1> USE Holds
<1>0. versions \in Seq(Versions) /\ Kept(versions, versions)
  BY DEF WellMade, Kept
<1>1. CASE EditDrafts
  <2> DEFINE drafted == Append(versions, Draft([LiveSpec EXCEPT !["style"] = op["loop"].body], "member"))
  <2>1. versions' = drafted \/ versions' = Retired(drafted, Len(versions) + 1)
    BY <1>1 DEF EditDrafts
  <2>2. [LiveSpec EXCEPT !["style"] = op["loop"].body] \in GoodSpecs
    BY <1>1, LiveIsGood, Styling DEF EditDrafts, Busy, Sound
  <2>3. WellMade(drafted, live) /\ Len(drafted) = Len(versions) + 1
    BY <2>2, Appending DEF Actors
  <2>4. Kept(versions, drafted)
    BY <1>0, KeptByAppending
  <2> HIDE DEF drafted
  <2>5. drafted \in Seq(Versions) /\ Len(versions) + 1 \in DOMAIN drafted
    BY <2>3 DEF WellMade
  <2>6. Kept(drafted, Retired(drafted, Len(versions) + 1))
    BY <2>5, KeptByRetiring
  <2> QED
    BY <2>1, <2>4, <2>6, KeptTwice
<1>2. CASE RepublishDrafts \/ OperatorDrafts
  BY <1>0, <1>2, KeptByAppending DEF RepublishDrafts, OperatorDrafts
<1>3. CASE \E b \in Bodies : AgentDrafts(b)
  <2>1. PICK b \in Bodies : AgentDrafts(b)
    BY <1>3
  <2>2. CASE mine = 0
    BY <1>0, <2>1, <2>2, KeptByAppending DEF AgentDrafts
  <2>3. CASE mine # 0
    <3>1. mine \in DOMAIN versions /\ versions[mine].status = "draft"
          /\ versions' = [versions EXCEPT ![mine] = [versions[mine] EXCEPT !.spec["style"] = b]]
      BY <2>1, <2>3 DEF AgentDrafts
    <3> QED
      BY <1>0, <3>1, KeptByEditing
  <2> QED
    BY <2>2, <2>3
<1>4. CASE \E v \in DOMAIN versions, s \in Slugs, b \in Bodies : OperatorPatches(v, s, b)
  <2>1. PICK v \in DOMAIN versions, s \in Slugs, b \in Bodies : OperatorPatches(v, s, b)
    BY <1>4
  <2>2. versions[v].status = "draft" /\ versions' = [versions EXCEPT ![v] = [versions[v] EXCEPT !.spec[s] = b]]
    BY <2>1 DEF OperatorPatches, Editable
  <2> QED
    BY <1>0, <2>2, KeptByEditing
<1>5. CASE RejectRetires \/ \E v \in DOMAIN versions : OperatorRetires(v)
  <2>1. versions' = versions \/ \E v \in DOMAIN versions : versions' = Retired(versions, v)
    <3>1. CASE RejectRetires
      <4>1. op["thread"].id \in DOMAIN proposals
        BY <3>1 DEF RejectRetires, Busy, Sound
      <4>2. proposals[op["thread"].id].version \in DOMAIN versions
        BY <4>1
      <4> QED
        BY <3>1, <4>2 DEF RejectRetires
    <3> QED
      BY <1>5, <3>1 DEF OperatorRetires
  <2> QED
    BY <1>0, <2>1, KeptByRetiring
<1>6. ASSUME NEW v \in DOMAIN versions, NEW actor, NEW by, NEW skip, CanPublish(v, by, skip), Publish(v, actor)
      PROVE  Kept(versions, versions')
  BY <1>6, KeptByPublishing DEF CanPublish, Publish
<1>7. CASE MemberPublishes
  <2>1. op["loop"].draft \in DOMAIN versions
    BY <1>7 DEF MemberPublishes, Busy, Sound
  <2> QED
    BY <1>0, <1>6, <1>7, <2>1, KeptByRetiring DEF MemberPublishes
<1>8. CASE AgentPublishes \/ RollbackPublishes
  <2>1. AgentPublishes => op["loop"].draft \in DOMAIN versions
    BY DEF AgentPublishes, Busy, Sound
  <2>2. RollbackPublishes => op["thread"].draft \in DOMAIN versions
    BY DEF RollbackPublishes, Busy, Sound
  <2> QED
    BY <1>0, <1>6, <1>8, <2>1, <2>2 DEF AgentPublishes, RollbackPublishes, UnchangedProfile
<1>9. CASE \/ \E p \in Processes : ApprovePublishes(p)
           \/ \E v \in DOMAIN versions : OperatorPublishes(v)
  <2>1. ASSUME NEW p \in Processes, ApprovePublishes(p)
        PROVE  proposals[op[p].id].version \in DOMAIN versions
    <3>1. op[p].id \in DOMAIN proposals
      BY <2>1 DEF ApprovePublishes, Busy, Sound
    <3> QED
      BY <3>1
  <2> QED
    BY <1>0, <1>6, <1>9, <2>1 DEF ApprovePublishes, OperatorPublishes, UnchangedProfile
<1>10. CASE \E code \in Bodies : Restart(code)
  <2>1. PICK code \in Bodies : Restart(code)
    BY <1>10
  <2> DEFINE spec == [s \in Slugs |-> code]
             drafted == Append(versions, Draft(spec, "boot"))
  <2>2. \/ versions' = versions
        \/ versions' = Retired(drafted, Len(drafted))
        \/ versions' = Published(drafted, Len(drafted))
    BY <2>1 DEF Restart, UnchangedProfile
  <2>3. spec \in GoodSpecs
    BY DEF GoodSpecs, Slugs, Rules
  <2> HIDE DEF spec
  <2>4. WellMade(drafted, live) /\ Len(drafted) = Len(versions) + 1
    BY <2>3, Appending DEF Actors
  <2>5. Kept(versions, drafted)
    BY <1>0, KeptByAppending
  <2>6. drafted[Len(versions) + 1].status = "draft"
    BY <1>0, AppendProperties DEF Draft
  <2> HIDE DEF drafted
  <2>7. drafted \in Seq(Versions) /\ Len(drafted) \in DOMAIN drafted /\ drafted[Len(drafted)].status = "draft"
    BY <2>4, <2>6 DEF WellMade
  <2>8. Kept(drafted, Retired(drafted, Len(drafted))) /\ Kept(drafted, Published(drafted, Len(drafted)))
    BY <2>4, <2>7, KeptByRetiring, KeptByPublishing
  <2> QED
    BY <1>0, <2>2, <2>5, <2>8, KeptTwice
<1>11. CASE versions' = versions
  BY <1>0, <1>11
<1>12. ASSUME \/ MemberLoads \/ TurnEnds \/ RejectDecides \/ Deletes
              \/ \E b \in Bodies \cup {0} : EditReads(b)
              \/ \E v \in DOMAIN versions : RepublishReads(v) \/ AgentProposes(v) \/ AgentChecks(v) \/ RollbackReads(v)
              \/ \E p \in Processes : Apply(p) \/ Finish(p)
              \/ \E p \in Processes, id \in DOMAIN proposals : ApproveReads(p, id)
              \/ \E id \in DOMAIN proposals : RejectReads(id)
              \/ \E s \in Slugs, b \in Bodies : PutSource(s, b)
              \/ \E s \in Slugs : DeleteChecks(s)
       PROVE  versions' = versions
  BY <1>12 DEF MemberLoads, TurnEnds, RejectDecides, Deletes, EditReads, RepublishReads, AgentProposes, AgentChecks,
     RollbackReads, Apply, Finish, ApproveReads, RejectReads, PutSource, DeleteChecks
<1> QED
  BY <1>1, <1>2, <1>3, <1>4, <1>5, <1>7, <1>8, <1>9, <1>10, <1>11, <1>12 DEF Next
-----------------------------------------------------------------------------

\* Who moves the profile's pointer, and on which conditions.
LEMMA WhoPublishes ==
  ASSUME Inv, Next, ~UNCHANGED <<live, managed, pub>>
  PROVE  \/ /\ pub' = "member" /\ Busy("loop", "publishing") /\ live = op["loop"].base
            /\ live' = op["loop"].draft /\ managed' = "human"
            /\ versions'[live'].spec = versions[live'].spec
         \/ /\ pub' = "agent" /\ managed' = "human"
            /\ versions'[live'].spec["money"] = LiveSpec["money"]
         \/ pub' \in {"approver", "admin"} /\ managed' = "human"
         \/ pub' = "boot" /\ managed = "boot"
<1> USE Holds
<1>1. CASE MemberPublishes
  <2>1. op["loop"].draft \in DOMAIN versions /\ Busy("loop", "publishing")
    BY <1>1 DEF MemberPublishes, Busy, Sound
  <2>2. StillBase(op["loop"].base) /\ CanPublish(op["loop"].draft, "member", op["loop"].skip)
        /\ Publish(op["loop"].draft, "member")
    BY <1>1 DEF MemberPublishes
  <2>3. Published(versions, op["loop"].draft)[op["loop"].draft].spec = versions[op["loop"].draft].spec
    BY <2>1, <2>2, KeptByPublishing DEF CanPublish
  <2> QED
    BY <2>1, <2>2, <2>3 DEF StillBase, Publish
<1>2. CASE AgentPublishes
  <2>1. op["loop"].draft \in DOMAIN versions
    BY <1>2 DEF AgentPublishes, Busy, Sound
  <2>2. CanPublish(op["loop"].draft, "agent", FALSE) /\ Publish(op["loop"].draft, "agent")
    BY <1>2 DEF AgentPublishes, UnchangedProfile
  <2>3. Published(versions, op["loop"].draft)[op["loop"].draft].spec = versions[op["loop"].draft].spec
    BY <2>1, <2>2, KeptByPublishing DEF CanPublish
  <2>4. versions[op["loop"].draft].spec["money"] = LiveSpec["money"]
    BY <2>2 DEF CanPublish, Gates, Fenced
  <2> QED
    BY <2>2, <2>3, <2>4 DEF Publish
<1>3. CASE \/ \E p \in Processes : ApprovePublishes(p)
           \/ \E v \in DOMAIN versions : OperatorPublishes(v)
           \/ RollbackPublishes
  BY <1>3 DEF ApprovePublishes, OperatorPublishes, RollbackPublishes, Publish, UnchangedProfile
<1>4. CASE \E code \in Bodies : Restart(code)
  BY <1>4 DEF Restart, UnchangedProfile
<1>5. ASSUME \/ MemberLoads \/ TurnEnds \/ RejectDecides \/ Deletes \/ EditDrafts \/ RepublishDrafts
             \/ RejectRetires \/ OperatorDrafts
             \/ \E b \in Bodies \cup {0} : EditReads(b)
             \/ \E b \in Bodies : AgentDrafts(b)
             \/ \E v \in DOMAIN versions :
                  RepublishReads(v) \/ AgentProposes(v) \/ AgentChecks(v) \/ RollbackReads(v) \/ OperatorRetires(v)
             \/ \E p \in Processes : Apply(p) \/ Finish(p)
             \/ \E p \in Processes, id \in DOMAIN proposals : ApproveReads(p, id)
             \/ \E id \in DOMAIN proposals : RejectReads(id)
             \/ \E s \in Slugs, b \in Bodies : PutSource(s, b)
             \/ \E s \in Slugs : DeleteChecks(s)
             \/ \E v \in DOMAIN versions, s \in Slugs, b \in Bodies : OperatorPatches(v, s, b)
      PROVE  UNCHANGED <<live, managed, pub>>
  BY <1>5 DEF UnchangedProfile, MemberLoads, TurnEnds, RejectDecides, Deletes, EditDrafts, RepublishDrafts, RejectRetires,
     OperatorDrafts, EditReads, AgentDrafts, RepublishReads, AgentProposes, AgentChecks, RollbackReads,
     OperatorRetires, Apply, Finish, ApproveReads, RejectReads, PutSource, DeleteChecks, OperatorPatches
<1> QED
  BY <1>1, <1>2, <1>3, <1>4, <1>5 DEF Next

\* managed and pub follow the pointer, or stay.
LEMMA BootFollows ==
  ASSUME Inv, Next, managed = "boot" => pub = "boot"
  PROVE  managed' = "boot" => pub' = "boot"
<1>1. CASE UNCHANGED <<live, managed, pub>>
  BY <1>1
<1>2. CASE ~UNCHANGED <<live, managed, pub>>
  BY <1>2, WhoPublishes
<1> QED
  BY <1>1, <1>2

\* The base of a member's operation stays settled and its goal inside the fence.
LEMMA BaseStaysSettled ==
  ASSUME Inv, BaseIsSettled, 0 \notin Bodies, Next
  PROVE  BaseIsSettled'
<1> USE Holds
<1> DEFINE o == op["loop"]
<1>0. Kept(versions, versions') /\ DOMAIN op = Processes
  BY StepKeepsHistory DEF Inv
<1>1. CASE \E b \in Bodies \cup {0} : EditReads(b)
  <2>1. PICK b \in Bodies \cup {0} : EditReads(b)
    BY <1>1
  <2>2. op'["loop"] = [at |-> "editing", base |-> live, body |-> b] /\ versions' = versions
    BY <1>0, <2>1 DEF EditReads, Step
  <2> QED
    BY <2>2 DEF BaseIsSettled, WellMade
<1>2. CASE \E v \in DOMAIN versions : RepublishReads(v)
  <2>1. PICK v \in DOMAIN versions : RepublishReads(v)
    BY <1>2
  <2>2. op'["loop"] = [at |-> "republishing", base |-> live, target |-> v, goal |-> versions[v].spec]
        /\ versions' = versions /\ versions[v].spec["money"] = LiveSpec["money"]
    BY <1>0, <2>1 DEF RepublishReads, Step, Fenced
  <2> QED
    BY <2>2 DEF BaseIsSettled, WellMade, LiveSpec
<1>3. CASE EditDrafts
  <2> DEFINE base == versions[o.base].spec
             spec == [LiveSpec EXCEPT !["style"] = o.body]
             changed == SourceChanges(base, spec)
             next == [at |-> "publishing", base |-> o.base, draft |-> Len(versions) + 1, goal |-> spec,
                      skip |-> FALSE, changes |-> changed]
  <2>1. o.at = "editing" /\ o.base \in DOMAIN versions
    BY <1>3 DEF EditDrafts, Busy, Sound
  <2>2. versions[o.base].status # "draft"
    BY <2>1 DEF BaseIsSettled, Editing
  <2>3. versions'[o.base].status # "draft" /\ versions'[o.base].spec = base
    BY <1>0, <2>1, <2>2 DEF Kept
  <2>4. op'["loop"] = Idle \/ (op'["loop"] = next /\ ~Fenced(base, spec))
    BY <1>0, <1>3 DEF EditDrafts, Step, Released
  <2> HIDE DEF spec, changed
  <2> QED
    BY SMTT(20), <2>3, <2>4 DEF BaseIsSettled, Editing, Idle, Fenced
<1>4. CASE RepublishDrafts
  <2>1. o.at = "republishing" /\ o.base \in DOMAIN versions
    BY <1>4 DEF RepublishDrafts, Busy, Sound
  <2>2. versions[o.base].status # "draft" /\ o.goal["money"] = versions[o.base].spec["money"]
    BY <2>1 DEF BaseIsSettled, Editing
  <2>3. versions'[o.base].status # "draft" /\ versions'[o.base].spec = versions[o.base].spec
    BY <1>0, <2>1, <2>2 DEF Kept
  <2>4. op'["loop"] = [at |-> "publishing", base |-> o.base, draft |-> Len(versions) + 1, goal |-> o.goal,
                       skip |-> TRUE]
    BY <1>0, <1>4 DEF RepublishDrafts, Step
  <2> QED
    BY <2>2, <2>3, <2>4 DEF BaseIsSettled
<1>5. ASSUME op'["loop"] = op["loop"] \/ op'["loop"].at \notin Editing
      PROVE  BaseIsSettled'
  <2>1. CASE op'["loop"].at \notin Editing
    BY <2>1 DEF BaseIsSettled
  <2>2. CASE op'["loop"] = o /\ o.at \in Editing
    <3>1. o.base \in DOMAIN versions /\ versions[o.base].status # "draft"
      BY <2>2 DEF BaseIsSettled, Editing, Sound
    <3>2. versions'[o.base].status # "draft" /\ versions'[o.base].spec = versions[o.base].spec
      BY <1>0, <3>1 DEF Kept
    <3> QED
      BY <2>2, <3>1, <3>2 DEF BaseIsSettled
  <2> QED
    BY <1>5, <2>1, <2>2
<1>6. ASSUME NEW p \in Processes, NEW x, Step(p, x), x.at \notin Editing
      PROVE  op'["loop"] = op["loop"] \/ op'["loop"].at \notin Editing
  BY <1>0, <1>6 DEF Step
<1>7. CASE MemberPublishes \/ AgentPublishes
  <2>1. \/ Step("loop", Idle)
        \/ Step("loop", [at |-> "applying", changes |-> ChangesOf(o), by |-> "member", audit |-> o.draft,
                         done |-> 0, base |-> o.base])
        \/ Step("loop", [at |-> "applying", changes |-> o.changes, by |-> "agent", audit |-> o.draft,
                         done |-> 0, record |-> o.published])
    BY <1>7 DEF MemberPublishes, AgentPublishes, Released
  <2> QED
    BY <1>0, <1>5, <2>1 DEF Step, Idle, Editing
<1>8. CASE \E p \in Processes : Apply(p) \/ Finish(p) \/ ApprovePublishes(p)
  <2>1. PICK p \in Processes : Apply(p) \/ Finish(p) \/ ApprovePublishes(p)
    BY <1>8
  <2>2. CASE Finish(p) \/ ApprovePublishes(p)
    BY <1>5, <1>6, <2>2 DEF Finish, ApprovePublishes, Released, Idle, Editing
  <2>3. CASE Apply(p)
    <3>1. PICK c \in op[p].changes : Step(p, Idle) \/ Step(p, [op[p] EXCEPT !.changes = op[p].changes \ {c}])
      BY <2>3 DEF Apply, Released
    <3>2. [op[p] EXCEPT !.changes = op[p].changes \ {c}].at = "applying"
      BY <2>3 DEF Apply, Busy, Sound
    <3> QED
      BY <1>5, <1>6, <3>1, <3>2 DEF Idle, Editing
  <2> QED
    BY <2>1, <2>2, <2>3
<1>9. CASE \/ RejectRetires \/ RejectDecides \/ Deletes \/ RollbackPublishes
           \/ \E id \in DOMAIN proposals : RejectReads(id)
           \/ \E s \in Slugs : DeleteChecks(s)
           \/ \E v \in DOMAIN versions : RollbackReads(v)
  BY <1>0, <1>5, <1>9 DEF RejectRetires, RejectDecides, Deletes, RollbackPublishes, RejectReads, DeleteChecks,
     RollbackReads, Step, Released
<1>10. CASE \/ \E v \in DOMAIN versions : AgentChecks(v)
            \/ \E p \in Processes, id \in DOMAIN proposals : ApproveReads(p, id)
            \/ \E code \in Bodies : Restart(code)
  BY <1>0, <1>5, <1>6, <1>10 DEF AgentChecks, ApproveReads, Restart, Step, Idle, Editing
<1>11. CASE \/ MemberLoads \/ TurnEnds \/ OperatorDrafts
            \/ \E b \in Bodies : AgentDrafts(b)
            \/ \E v \in DOMAIN versions : AgentProposes(v) \/ OperatorRetires(v) \/ OperatorPublishes(v)
            \/ \E s \in Slugs, b \in Bodies : PutSource(s, b)
            \/ \E v \in DOMAIN versions, s \in Slugs, b \in Bodies : OperatorPatches(v, s, b)
  BY <1>5, <1>11 DEF MemberLoads, TurnEnds, OperatorDrafts, AgentDrafts, AgentProposes, OperatorRetires,
     OperatorPublishes, PutSource, OperatorPatches
<1> QED
  BY <1>1, <1>2, <1>3, <1>4, <1>7, <1>8, <1>9, <1>10, <1>11 DEF Next

LEMMA FenceStepKeeps == 0 \notin Bodies /\ FenceInv /\ [Next]_vars => FenceInv'
<1> SUFFICES ASSUME 0 \notin Bodies, FenceInv, [Next]_vars  PROVE FenceInv'
  OBVIOUS
<1>1. CASE UNCHANGED vars
  <2>1. Inv'
    BY <1>1, StepKeeps DEF FenceInv
  <2> QED
    BY <1>1, <2>1 DEF FenceInv, BaseIsSettled, vars
<1>2. CASE Next
  BY <1>2, StepKeeps, BaseStaysSettled, BootFollows DEF FenceInv
<1> QED
  BY <1>1, <1>2

LEMMA FenceInvariantHolds == Spec => []FenceInv
<1>1. Init => FenceInv
  BY InitHolds DEF FenceInv, BaseIsSettled, Init, Idle, Editing, Processes
<1>2. FenceInv /\ [Next]_vars => FenceInv'
  BY BodiesAssumption, FenceStepKeeps
<1> QED
  BY <1>1, <1>2, PTL DEF Spec

\* A member's edit or republish and the agent's own publish leave the money rule exactly as the
\* version they replace has it, whatever an operator published while they were under way
\* (sources.py and gate 5 of gates.py).
THEOREM FenceAlwaysHolds == Spec => FenceHolds
<1> DEFINE Crosses ==
      /\ live' # live /\ pub' \in {"member", "agent"}
      /\ pub' = "member" => versions[live'].spec = op["loop"].goal
      /\ versions'[live'].spec["money"] # LiveSpec["money"]
<1>1. FenceInv /\ [Next]_vars => ~Crosses
  <2> SUFFICES ASSUME FenceInv, Next, Crosses  PROVE FALSE
    BY DEF vars
  <2>1. CASE pub' = "agent"
    BY <2>1, WhoPublishes DEF FenceInv
  <2>2. CASE pub' = "member"
    <3>1. Busy("loop", "publishing") /\ live = op["loop"].base /\ versions'[live'].spec = op["loop"].goal
      BY <2>2, WhoPublishes DEF FenceInv
    <3> QED
      BY <3>1 DEF FenceInv, BaseIsSettled, Busy, Editing, LiveSpec
  <2> QED
    BY <2>1, <2>2
<1>2. FenceInv /\ [Next]_vars =>
        [/\ live' # live /\ pub' \in {"member", "agent"}
         /\ pub' = "member" => versions[live'].spec = op["loop"].goal
         => versions'[live'].spec["money"] = LiveSpec["money"]]_vars
  BY <1>1
<1> QED
  BY <1>2, FenceInvariantHolds, PTL DEF Spec, FenceHolds

\* What a member's publish supersedes is the version the operation read, a version that was
\* published or retired stays what it was, and a restart puts code's content only over boot's
\* (ContentStore.publish with if_published, update_draft, ensure_seeded).
THEOREM WritersAlwaysKeepTheirWork == Spec => WritersKeepTheirWork
<1>1. FenceInv /\ [Next]_vars => [live' # live /\ pub' = "member" => op["loop"].base = live]_vars
  BY WhoPublishes DEF FenceInv
<1>2. FenceInv /\ [Next]_vars =>
        [\A v \in DOMAIN versions :
            /\ versions[v].status # "draft" => versions'[v].spec = versions[v].spec
            /\ versions[v].status = "retired" => versions'[v].status = "retired"]_vars
  <2> SUFFICES ASSUME FenceInv, Next
               PROVE  \A v \in DOMAIN versions :
                        /\ versions[v].status # "draft" => versions'[v].spec = versions[v].spec
                        /\ versions[v].status = "retired" => versions'[v].status = "retired"
    OBVIOUS
  <2>1. Kept(versions, versions')
    BY BodiesAssumption, StepKeepsHistory DEF FenceInv
  <2> QED
    BY <2>1 DEF Kept
<1>3. FenceInv /\ [Next]_vars => [live' # live /\ pub' = "boot" => pub = "boot"]_vars
  BY WhoPublishes DEF FenceInv
<1> QED
  BY <1>1, <1>2, <1>3, FenceInvariantHolds, PTL
     DEF Spec, WritersKeepTheirWork, NobodyIsOverwritten, HistoryIsWrittenOnce, BootLeavesPeopleAlone
-----------------------------------------------------------------------------
(***************************************************************************)
(* A space is served by a manager and by what is in force, whatever the    *)
(* agents, spaces and profiles are.                                        *)
(***************************************************************************)

AgentRows == [role : Roles, default : BOOLEAN, delegates : SUBSET AgentIds, profile : Profiles]

AgentsShape ==
    /\ DOMAIN agents \subseteq AgentIds
    /\ agents \in [DOMAIN agents -> AgentRows]
    /\ \A s \in DOMAIN bindings : bindings[s] \in [agent : DOMAIN agents, overrides : Overrides]
    /\ cache = [k \in DOMAIN cache |-> cache[k]]

\* A resolve that nothing has overtaken has read the overrides in force, and it
\* will fill the entry of the space it read them for.
ReadingIsCurrent ==
    ~overtaken =>
        /\ reading.at \in {"agent", "default", "profile"} =>
             reading.overrides = OverridesNow(reading.space)
        /\ reading.at = "fill" => reading.overrides = OverridesNow(reading.key[2])

AgentsInv == AgentsShape /\ AgentsServeTheirSpaces /\ ReadingIsCurrent

\* Stepping down changes nothing of an agent but that it is a default.
LEMMA DemotedRows ==
    ASSUME AgentsShape
    PROVE  /\ DOMAIN Demoted(agents) = DOMAIN agents
           /\ \A b \in DOMAIN agents :
                Demoted(agents)[b] = [role |-> agents[b].role, default |-> FALSE,
                                      delegates |-> agents[b].delegates, profile |-> agents[b].profile]
    BY DEF AgentsShape, Demoted, AgentRows

\* What a create and an update make of the table of agents: a has its new row, and
\* the others keep theirs, but are defaults no more if a is one.
TableAfter(a, role, default, ds, p) ==
    /\ DOMAIN agents' = DOMAIN agents \cup {a}
    /\ agents'[a] = [role |-> role, default |-> default, delegates |-> ds, profile |-> p]
    /\ \A b \in DOMAIN agents \ {a} :
         /\ agents'[b] \in AgentRows
         /\ agents'[b].role = agents[b].role
         /\ agents'[b].delegates = agents[b].delegates
         /\ (agents'[b].default => ~default /\ agents[b].default)
    /\ agents' = [b \in DOMAIN agents' |-> agents'[b]]

\* The row of an agent among the agents.
LEMMA TableIsWritten ==
    ASSUME AgentsShape, NEW a \in AgentIds, NEW role \in Roles, NEW default \in BOOLEAN,
           NEW ds \in SUBSET DOMAIN agents, NEW p \in Profiles,
           agents' = With(IF default THEN Demoted(agents) ELSE agents,
                          a, [role |-> role, default |-> default, delegates |-> ds, profile |-> p])
    PROVE  TableAfter(a, role, default, ds, p)
<1> DEFINE row == [role |-> role, default |-> default, delegates |-> ds, profile |-> p]
           old == IF default THEN Demoted(agents) ELSE agents
<1>1. /\ DOMAIN old = DOMAIN agents
      /\ \A b \in DOMAIN agents :
           /\ old[b] \in AgentRows
           /\ old[b].role = agents[b].role
           /\ old[b].delegates = agents[b].delegates
           /\ (old[b].default => ~default /\ agents[b].default)
    <2>1. CASE default
        <3>1. \A b \in DOMAIN agents : agents[b] \in AgentRows
            BY DEF AgentsShape
        <3>2. /\ DOMAIN old = DOMAIN agents
              /\ \A b \in DOMAIN agents :
                   old[b] = [role |-> agents[b].role, default |-> FALSE,
                             delegates |-> agents[b].delegates, profile |-> agents[b].profile]
            BY <2>1, DemotedRows
        <3> HIDE DEF old
        <3>3. \A b \in DOMAIN agents : old[b].default = FALSE
            BY <3>2
        <3>4. ASSUME NEW b \in DOMAIN agents
              PROVE  /\ old[b] \in AgentRows
                     /\ old[b].role = agents[b].role
                     /\ old[b].delegates = agents[b].delegates
            <4>1. /\ agents[b].role \in Roles
                  /\ agents[b].delegates \in SUBSET AgentIds
                  /\ agents[b].profile \in Profiles
                BY <3>1 DEF AgentRows
            <4>2. old[b] = [role |-> agents[b].role, default |-> FALSE,
                            delegates |-> agents[b].delegates, profile |-> agents[b].profile]
                BY <3>2
            <4> QED BY <4>1, <4>2 DEF AgentRows
        <3> QED BY <3>2, <3>3, <3>4
    <2>2. CASE ~default
        <3>1. \A b \in DOMAIN agents : agents[b] \in AgentRows
            BY DEF AgentsShape
        <3> QED BY <2>2, <3>1 DEF AgentRows
    <2> QED BY <2>1, <2>2
<1> HIDE DEF row, old
<1>2. agents' = With(old, a, row)
    BY DEF old, row
<1>3. /\ DOMAIN agents' = DOMAIN agents \cup {a}
      /\ agents'[a] = row
      /\ \A z \in DOMAIN agents : z # a => agents'[z] = old[z]
      /\ agents' = [z \in DOMAIN agents' |-> agents'[z]]
    BY <1>1, <1>2 DEF With
<1> QED BY <1>1, <1>3 DEF TableAfter, row

\* The roles hold in a table where a has been written as a create or an update may
\* write it.
LEMMA RolesHoldAfter ==
    ASSUME AgentsShape, RolesHold,
           NEW a \in AgentIds, NEW role \in Roles, NEW default \in BOOLEAN,
           NEW ds \in SUBSET DOMAIN agents, NEW p \in Profiles,
           TableAfter(a, role, default, ds, p),
           default => role = "manager",
           \A d \in ds : d # a /\ agents[d].role = "sub",
           (a \in DOMAIN agents /\ role # agents[a].role) => MayChangeRole(a),
           bindings' = bindings
    PROVE  AgentsShape!1' /\ AgentsShape!2' /\ AgentsShape!3' /\ RolesHold'
<1>1. AgentsShape!1' /\ AgentsShape!2'
    BY DEF AgentsShape, TableAfter, AgentRows
<1>2. AgentsShape!3'
    BY DEF AgentsShape, TableAfter
<1>3. OneDefault'
    <2>1. ASSUME NEW b \in DefaultAgents', b # a
          PROVE  b \in DefaultAgents /\ ~default
        BY <2>1 DEF DefaultAgents, TableAfter
    <2>2. a \in DefaultAgents' => default
        BY DEF DefaultAgents, TableAfter
    <2>3. \A b, c \in DefaultAgents : b = c
        BY DEF RolesHold, OneDefault
    <2> QED BY <2>1, <2>2, <2>3 DEF OneDefault
<1>4. ManagersServeSpaces'
    <2>1. ASSUME NEW b \in DefaultAgents'
          PROVE  agents'[b].role = "manager"
        <3>1. CASE b = a
            BY <2>1, <3>1 DEF DefaultAgents, TableAfter
        <3>2. CASE b # a
            BY <2>1, <3>2 DEF DefaultAgents, TableAfter, RolesHold, ManagersServeSpaces
        <3> QED BY <3>1, <3>2
    <2>2. ASSUME NEW s \in DOMAIN bindings
          PROVE  /\ bindings[s].agent \in DOMAIN agents'
                 /\ agents'[bindings[s].agent].role = "manager"
        <3>1. bindings[s].agent \in DOMAIN agents /\ agents[bindings[s].agent].role = "manager"
            BY <2>2 DEF RolesHold, ManagersServeSpaces
        <3>2. CASE bindings[s].agent = a
            <4>1. role = "manager"
                BY <2>2, <3>1, <3>2 DEF MayChangeRole, Bound
            <4> QED BY <3>1, <3>2, <4>1 DEF TableAfter
        <3>3. CASE bindings[s].agent # a
            BY <3>1, <3>3 DEF TableAfter
        <3> QED BY <3>2, <3>3
    <2> QED BY <2>1, <2>2 DEF ManagersServeSpaces
<1>5. SubsAreDelegatedTo'
    <2>1. ASSUME NEW b \in DOMAIN agents', NEW d \in agents'[b].delegates
          PROVE  d \in DOMAIN agents' /\ d # b /\ agents'[d].role = "sub"
        <3>1. CASE b = a
            BY <2>1, <3>1 DEF TableAfter
        <3>2. CASE b # a
            <4>1. b \in DOMAIN agents /\ d \in agents[b].delegates
                BY <2>1, <3>2 DEF TableAfter
            <4>2. d \in DOMAIN agents /\ d # b /\ agents[d].role = "sub"
                BY <4>1 DEF RolesHold, SubsAreDelegatedTo
            <4>3. CASE d = a
                <5>1. role = "sub"
                    BY <4>1, <4>2, <4>3 DEF MayChangeRole, Referrers
                <5> QED BY <4>2, <4>3, <5>1 DEF TableAfter
            <4>4. CASE d # a
                BY <4>2, <4>4 DEF TableAfter
            <4> QED BY <4>3, <4>4
        <3> QED BY <3>1, <3>2
    <2> QED BY <2>1 DEF SubsAreDelegatedTo
<1> QED BY <1>1, <1>2, <1>3, <1>4, <1>5 DEF RolesHold

\* An agent is made or patched.
LEMMA AgentsAreWritten ==
    ASSUME AgentsInv, NEW a \in AgentIds, NEW role \in Roles, NEW default \in BOOLEAN,
           NEW p \in Profiles, NEW ds \in SUBSET DOMAIN agents,
           \/ CreateAgent(a, role, default, ds, p)
           \/ a \in DOMAIN agents /\ UpdateAgent(a, role, default, ds, p)
    PROVE  AgentsInv'
<1>1. TableAfter(a, role, default, ds, p)
    BY TableIsWritten DEF AgentsInv, CreateAgent, UpdateAgent
<1>2. default => role = "manager"
    BY DEF CreateAgent, UpdateAgent
<1>3. ASSUME NEW d \in ds
      PROVE  d # a /\ agents[d].role = "sub"
    <2>1. CASE CheckDelegates(a, ds)
        BY <1>3, <2>1 DEF CheckDelegates
    <2>2. CASE a \in DOMAIN agents /\ ds = agents[a].delegates
        BY <1>3, <2>2 DEF AgentsInv, AgentsServeTheirSpaces, RolesHold, SubsAreDelegatedTo
    <2> QED BY <2>1, <2>2 DEF CreateAgent, UpdateAgent
<1>4. (a \in DOMAIN agents /\ role # agents[a].role) => MayChangeRole(a)
    BY DEF CreateAgent, UpdateAgent
<1>5. bindings' = bindings /\ overtaken'
    BY DEF CreateAgent, UpdateAgent, Changed
<1>6. AgentsShape!1' /\ AgentsShape!2' /\ AgentsShape!3' /\ RolesHold'
    BY <1>1, <1>2, <1>3, <1>4, <1>5, RolesHoldAfter DEF AgentsInv, AgentsServeTheirSpaces
<1>7. AgentsShape!4' /\ CacheIsCurrent'
    <2>1. CASE cache' = cache /\ stale' = stale
        BY <1>5, <2>1 DEF AgentsInv, AgentsShape, AgentsServeTheirSpaces, CacheIsCurrent, OverridesNow
    <2>2. CASE cache' = <<>>
        BY <2>2 DEF AgentsShape, CacheIsCurrent
    <2> QED BY <2>1, <2>2 DEF CreateAgent, UpdateAgent, Changed
<1>8. ReadingIsCurrent'
    BY <1>5 DEF ReadingIsCurrent
<1> QED BY <1>6, <1>7, <1>8 DEF AgentsInv, AgentsShape, AgentsServeTheirSpaces

\* A space is bound or unbound.
LEMMA SpacesAreBound ==
    ASSUME AgentsInv, NEW s,
           \/ \E a \in DOMAIN agents, o \in Overrides : BindSpace(s, a, o)
           \/ UnbindSpace(s)
    PROVE  AgentsInv'
<1>1. agents' = agents /\ cache' = <<>> /\ overtaken'
    BY DEF BindSpace, UnbindSpace, Changed
<1>2. ASSUME NEW t \in DOMAIN bindings'
      PROVE  /\ bindings'[t] \in [agent : DOMAIN agents, overrides : Overrides]
             /\ agents[bindings'[t].agent].role = "manager"
    <2>1. ASSUME t \in DOMAIN bindings
          PROVE  /\ bindings[t] \in [agent : DOMAIN agents, overrides : Overrides]
                 /\ agents[bindings[t].agent].role = "manager"
        BY <2>1 DEF AgentsInv, AgentsShape, AgentsServeTheirSpaces, RolesHold, ManagersServeSpaces
    <2>2. ASSUME NEW a \in DOMAIN agents, NEW o \in Overrides, BindSpace(s, a, o)
          PROVE  /\ bindings'[t] \in [agent : DOMAIN agents, overrides : Overrides]
                 /\ agents[bindings'[t].agent].role = "manager"
        <3>1. bindings' = With(bindings, s, [agent |-> a, overrides |-> o]) /\ agents[a].role = "manager"
            BY <2>2 DEF BindSpace
        <3>2. CASE t = s
            BY <3>1, <3>2 DEF With
        <3>3. CASE t # s
            <4>1. t \in DOMAIN bindings /\ bindings'[t] = bindings[t]
                BY <1>2, <3>1, <3>3 DEF With
            <4> QED BY <2>1, <4>1
        <3> QED BY <3>2, <3>3
    <2>3. ASSUME UnbindSpace(s)
          PROVE  /\ bindings'[t] \in [agent : DOMAIN agents, overrides : Overrides]
                 /\ agents[bindings'[t].agent].role = "manager"
        <3>1. t \in DOMAIN bindings /\ bindings'[t] = bindings[t]
            BY <1>2, <2>3 DEF UnbindSpace, Restrict
        <3> QED BY <2>1, <3>1
    <2> QED BY <2>2, <2>3
<1>3. AgentsShape'
    BY <1>1, <1>2 DEF AgentsInv, AgentsShape
<1>4. ManagersServeSpaces'
    BY <1>1, <1>2 DEF AgentsInv, AgentsServeTheirSpaces, RolesHold, ManagersServeSpaces, DefaultAgents
<1>5. OneDefault' /\ SubsAreDelegatedTo'
    BY <1>1 DEF AgentsInv, AgentsServeTheirSpaces, RolesHold, OneDefault, DefaultAgents, SubsAreDelegatedTo
<1>6. CacheIsCurrent' /\ ReadingIsCurrent'
    BY <1>1 DEF CacheIsCurrent, ReadingIsCurrent
<1> QED BY <1>3, <1>4, <1>5, <1>6 DEF AgentsInv, AgentsServeTheirSpaces, RolesHold

\* A resolve goes a step further.
LEMMA SpacesAreResolved ==
    ASSUME AgentsInv,
           \/ \E s \in Spaces : ResolveReadsBinding(s)
           \/ ResolveReadsAgent \/ ResolveReadsProfile \/ ResolveFills
    PROVE  AgentsInv'
<1>1. agents' = agents /\ bindings' = bindings
    BY DEF ResolveReadsBinding, ResolveReadsAgent, ResolveReadsProfile, ResolveFills
<1>2. RolesHold' /\ AgentsShape!1' /\ AgentsShape!2' /\ AgentsShape!3'
    BY <1>1 DEF AgentsInv, AgentsShape, AgentsServeTheirSpaces, RolesHold, OneDefault, ManagersServeSpaces,
                SubsAreDelegatedTo, DefaultAgents
<1>3. \A s : OverridesNow(s)' = OverridesNow(s)
    BY <1>1 DEF OverridesNow
<1>4. AgentsShape!4' /\ CacheIsCurrent' /\ ReadingIsCurrent'
    <2>1. CASE \E s \in Spaces : ResolveReadsBinding(s)
        <3>1. PICK s \in Spaces : ResolveReadsBinding(s)
            BY <2>1
        <3>2. AgentsShape!4' /\ CacheIsCurrent'
            BY <1>3, <3>1 DEF ResolveReadsBinding, AgentsInv, AgentsShape, AgentsServeTheirSpaces, CacheIsCurrent
        <3>3. ReadingIsCurrent'
            BY <1>1, <3>1 DEF ResolveReadsBinding, ReadingIsCurrent, OverridesNow
        <3> QED BY <3>2, <3>3
    <2>2. CASE ResolveReadsAgent
        <3>1. AgentsShape!4' /\ CacheIsCurrent'
            BY <1>3, <2>2 DEF ResolveReadsAgent, AgentsInv, AgentsShape, AgentsServeTheirSpaces, CacheIsCurrent
        <3>2. ReadingIsCurrent'
            BY <1>3, <2>2 DEF ResolveReadsAgent, AgentsInv, ReadingIsCurrent, NoResolve
        <3> QED BY <3>1, <3>2
    <2>3. CASE ResolveReadsProfile
        <3>1. AgentsShape!4' /\ CacheIsCurrent'
            BY <1>3, <2>3 DEF ResolveReadsProfile, AgentsInv, AgentsShape, AgentsServeTheirSpaces, CacheIsCurrent
        <3>2. ReadingIsCurrent'
            BY <1>3, <2>3 DEF ResolveReadsProfile, AgentsInv, ReadingIsCurrent, NoResolve
        <3> QED BY <3>1, <3>2
    <2>4. CASE ResolveFills
        <3>1. cache' = With(cache, reading.key, reading.overrides) /\ reading' = NoResolve
            BY <2>4 DEF ResolveFills
        <3>2. AgentsShape!4'
            BY <3>1 DEF AgentsShape, With
        <3>3. ASSUME NEW k \in DOMAIN cache'
              PROVE  k \in stale' \/ cache'[k] = OverridesNow(k[2])
            <4>1. CASE k = reading.key
                <5>1. cache'[k] = reading.overrides
                    BY <3>1, <4>1 DEF With
                <5> QED BY <2>4, <4>1, <5>1 DEF ResolveFills, AgentsInv, ReadingIsCurrent
            <4>2. CASE k # reading.key
                <5>1. k \in DOMAIN cache /\ cache'[k] = cache[k]
                    BY <3>1, <3>3, <4>2 DEF With
                <5> QED BY <2>4, <4>2, <5>1 DEF ResolveFills, AgentsInv, AgentsServeTheirSpaces, CacheIsCurrent
            <4> QED BY <4>1, <4>2
        <3>4. CacheIsCurrent'
            BY <1>3, <3>3 DEF CacheIsCurrent
        <3>5. ReadingIsCurrent'
            BY <3>1 DEF ReadingIsCurrent, NoResolve
        <3> QED BY <3>2, <3>4, <3>5
    <2> QED BY <2>1, <2>2, <2>3, <2>4
<1> QED BY <1>2, <1>4 DEF AgentsInv, AgentsShape, AgentsServeTheirSpaces

\* A version is published or rolled back to, or nothing happens.
LEMMA ProfilesArePublished ==
    ASSUME AgentsInv, (\E p \in Profiles : PublishProfile(p)) \/ UNCHANGED agentVars
    PROVE  AgentsInv'
<1>1. CASE \E p \in Profiles : PublishProfile(p)
    <2>1. agents' = agents /\ bindings' = bindings /\ cache' = <<>> /\ overtaken'
        BY <1>1 DEF PublishProfile, Changed
    <2>2. AgentsShape' /\ RolesHold'
        BY <2>1 DEF AgentsInv, AgentsShape, AgentsServeTheirSpaces, RolesHold, OneDefault, ManagersServeSpaces,
                    SubsAreDelegatedTo, DefaultAgents
    <2>3. CacheIsCurrent' /\ ReadingIsCurrent'
        BY <2>1 DEF CacheIsCurrent, ReadingIsCurrent
    <2> QED BY <2>2, <2>3 DEF AgentsInv, AgentsServeTheirSpaces
<1>2. CASE UNCHANGED agentVars
    BY <1>2 DEF agentVars, AgentsInv, AgentsShape, AgentsServeTheirSpaces, RolesHold, OneDefault,
                ManagersServeSpaces, SubsAreDelegatedTo, DefaultAgents, CacheIsCurrent, ReadingIsCurrent, OverridesNow
<1> QED BY <1>1, <1>2

\* One default, managers in front, subs behind, and a cache that is current unless a
\* change overtook the resolve that filled it (AgentsServeTheirSpaces), for any agents,
\* spaces and profiles and any number of changes.
THEOREM AgentsAlwaysServeTheirSpaces == AgentsSpec => []AgentsServeTheirSpaces
<1>1. AgentsInit => AgentsInv
    <2>1. ASSUME AgentsInit PROVE AgentsShape /\ RolesHold
        BY <2>1 DEF AgentsInit, AgentsShape, AgentRows, Roles, RolesHold, OneDefault, ManagersServeSpaces,
                    SubsAreDelegatedTo, DefaultAgents
    <2>2. ASSUME AgentsInit PROVE CacheIsCurrent /\ ReadingIsCurrent
        BY <2>2 DEF AgentsInit, CacheIsCurrent, ReadingIsCurrent, NoResolve
    <2> QED BY <2>1, <2>2 DEF AgentsInv, AgentsServeTheirSpaces
<1>2. AgentsInv /\ [AgentsNext]_agentVars => AgentsInv'
    <2> SUFFICES ASSUME AgentsInv, AgentsNext \/ UNCHANGED agentVars PROVE AgentsInv'
        OBVIOUS
    <2>1. CASE \E a \in AgentIds, role \in Roles, default \in BOOLEAN, p \in Profiles, ds \in SUBSET DOMAIN agents :
                  \/ CreateAgent(a, role, default, ds, p)
                  \/ a \in DOMAIN agents /\ UpdateAgent(a, role, default, ds, p)
        BY <2>1, AgentsAreWritten
    <2>2. CASE \/ \E s \in Spaces, a \in DOMAIN agents, o \in Overrides : BindSpace(s, a, o)
               \/ \E s \in DOMAIN bindings : UnbindSpace(s)
        BY <2>2, SpacesAreBound
    <2>3. CASE (\E p \in Profiles : PublishProfile(p)) \/ UNCHANGED agentVars
        BY <2>3, ProfilesArePublished
    <2>4. CASE (\E s \in Spaces : ResolveReadsBinding(s)) \/ ResolveReadsAgent \/ ResolveReadsProfile \/ ResolveFills
        BY <2>4, SpacesAreResolved
    <2> QED BY <2>1, <2>2, <2>3, <2>4 DEF AgentsNext
<1>3. AgentsInv => AgentsServeTheirSpaces
    BY DEF AgentsInv
<1> QED BY <1>1, <1>2, <1>3, PTL DEF AgentsSpec
-----------------------------------------------------------------------------
(***************************************************************************)
(* What is live has kept its evidence, whatever the suites, cases and      *)
(* contents are.                                                           *)
(***************************************************************************)

SpecRows == [content : Contents, suites : SUBSET Suites, floor : Floors,
             by : {"agent", "human", "boot"}, status : {"draft", "published", "superseded"}]

Sums == [passed : Nat, failed : Nat, raised : Nat]

RunRows == [suite : Nat, slug : Suites, version : Nat, sha : Contents, by : {"agent", "human"},
            age : {"fresh", "stale", "old"}, status : {"running", "done", "failed"}, sum : Sums,
            ran : Contents \cup {Unread}, swapped : BOOLEAN]

SpecsShape == specs \in Seq(SpecRows) /\ liveSpec \in DOMAIN specs

RunsShape ==
    /\ runs \in Seq(RunRows) /\ \A r \in DOMAIN runs : runs[r].version \in DOMAIN specs
    /\ DOMAIN jobs \subseteq DOMAIN runs
    /\ \A r \in DOMAIN jobs : jobs[r] \in Contents \cup {Unread}

SuitesShape ==
    /\ DOMAIN suites \subseteq Suites /\ lastSuite \in Nat
    /\ \A s \in DOMAIN suites : suites[s].id \in Nat /\ suites[s].cases \subseteq Cases

EvalsShape == SpecsShape /\ RunsShape /\ SuitesShape

\* A row is keyed to the content its job grades, unless the draft was edited first.
RowIsKeyed(r) ==
    /\ runs[r].status = "done" => runs[r].ran = runs[r].sha \/ runs[r].swapped
    /\ r \in DOMAIN jobs =>
         /\ runs[r].status = "running"
         /\ \/ runs[r].swapped
            \/ runs[r].sha = IF jobs[r] = Unread THEN specs[runs[r].version].content ELSE jobs[r]

\* A run that speaks for a spec: the conjuncts of PublishedWasGraded.
SpeaksFor(run, id, spec) ==
    /\ run.status = "done" /\ run.suite = id
    /\ run.ran = spec.content \/ (run.swapped /\ run.sha = spec.content)
    /\ run.sum.raised = 0 /\ run.sum.passed > 0
    /\ 2 * run.sum.passed >= spec.floor * (run.sum.passed + run.sum.failed)

Graded(spec) ==
    \A s \in spec.suites :
        s \in DOMAIN suites /\ \E r \in DOMAIN runs : SpeaksFor(runs[r], suites[s].id, spec)

\* What was ever live, the seeded version aside, can be rolled back to at any time.
EvidenceIsKept == \A v \in DOMAIN specs : v # 1 /\ specs[v].status # "draft" => Graded(specs[v])

EvalsInv ==
    /\ EvalsShape
    /\ \A r \in DOMAIN runs : RowIsKeyed(r)
    /\ EvidenceIsKept
    /\ specs[liveSpec].status = "published"
-----------------------------------------------------------------------------

\* A set of numbers up to a bound has the greatest one that Max chooses.
LEMMA MaxIsThere ==
    ASSUME NEW n \in Nat, NEW S \in SUBSET (1..n), S # {}
    PROVE  Max(S) \in S
<1> DEFINE T == {n - m : m \in S}
<1>1. T \subseteq Nat /\ T # {}
    <2>1. \A m \in S : n - m \in Nat
        OBVIOUS
    <2> QED BY <2>1
<1>2. PICK x \in T : \A y \in T : ~(<<y, x>> \in OpToRel(<, Nat))
    <2> HIDE DEF T
    <2> QED BY <1>1, WFMin, NatLessThanWellFounded
<1>3. \A y \in T : ~(y < x)
    BY <1>1, <1>2 DEF OpToRel
<1>4. PICK m \in S : x = n - m
    OBVIOUS
<1>5. \A k \in S : m >= k
    <2> TAKE k \in S
    <2>1. ~(n - k < n - m)
        BY <1>3, <1>4
    <2> QED BY <2>1
<1> QED BY <1>5 DEF Max

\* The specs and the runs are rows.
LEMMA SpecsAreRows ==
    ASSUME EvalsShape
    PROVE  /\ specs \in Seq(SpecRows) /\ Len(specs) \in Nat /\ DOMAIN specs = 1..Len(specs)
           /\ \A v \in DOMAIN specs : specs[v] \in SpecRows
    BY DEF EvalsShape, SpecsShape

LEMMA RunsAreRows ==
    ASSUME EvalsShape
    PROVE  /\ runs \in Seq(RunRows) /\ Len(runs) \in Nat /\ DOMAIN runs = 1..Len(runs)
           /\ \A r \in DOMAIN runs : runs[r] \in RunRows
    BY DEF EvalsShape, RunsShape

\* Runs that nothing touches are fine as long as no spec goes.
LEMMA RunsShapeStays ==
    ASSUME RunsShape, UNCHANGED <<runs, jobs>>, DOMAIN specs \subseteq DOMAIN specs'
    PROVE  RunsShape'
<1>1. \A r \in DOMAIN runs : runs[r].version \in DOMAIN specs'
    BY DEF RunsShape
<1> QED BY <1>1 DEF RunsShape

\* Gate 4 lets a version by on evidence that PublishedWasGraded asks for.
LEMMA GateMeansGraded ==
    ASSUME EvalsShape, \A r \in DOMAIN runs : RowIsKeyed(r), NEW v \in DOMAIN specs, EvalGate(v)
    PROVE  Graded(specs[v])
<1> SUFFICES ASSUME NEW s \in specs[v].suites
             PROVE  s \in DOMAIN suites /\ \E r \in DOMAIN runs : SpeaksFor(runs[r], suites[s].id, specs[v])
    BY DEF Graded
<1> DEFINE r == Max(Matching(s, v))
<1>1. s \in DOMAIN suites /\ Matching(s, v) # {} /\ runs[r].status = "done" /\ Convincing(runs[r].sum, specs[v].floor)
    BY DEF EvalGate
<1>2. Matching(s, v) \subseteq 1..Len(runs) /\ Len(runs) \in Nat
    BY RunsAreRows DEF Matching
<1>3. r \in Matching(s, v)
    BY <1>1, <1>2, MaxIsThere
<1> HIDE DEF r
<1>4. r \in DOMAIN runs /\ runs[r].suite = suites[s].id /\ runs[r].sha = specs[v].content
    BY <1>3 DEF Matching, Sha
<1>5. runs[r].ran = specs[v].content \/ (runs[r].swapped /\ runs[r].sha = specs[v].content)
    BY <1>1, <1>4 DEF RowIsKeyed
<1>6. /\ runs[r].sum.passed \in Nat /\ runs[r].sum.failed \in Nat
      /\ specs[v].floor \in Floors
    <2>1. runs[r] \in RunRows /\ specs[v] \in SpecRows
        BY <1>4, SpecsAreRows, RunsAreRows
    <2> QED BY <2>1 DEF RunRows, SpecRows, Sums
<1>7. /\ runs[r].sum.raised = 0 /\ runs[r].sum.passed > 0
      /\ 2 * runs[r].sum.passed >= specs[v].floor * (runs[r].sum.passed + runs[r].sum.failed)
    <2>1. CASE specs[v].floor = 1
        BY <1>1, <1>6, <2>1 DEF Convincing
    <2>2. CASE specs[v].floor = 2
        BY <1>1, <1>6, <2>2 DEF Convincing
    <2> QED BY <1>6, <2>1, <2>2 DEF Floors
<1> QED BY <1>1, <1>4, <1>5, <1>7 DEF SpeaksFor

\* The runs go on: what is done keeps what it found, and what a person swapped stays so.
RunsGoOn ==
    \A r \in DOMAIN runs : runs[r].status = "done" =>
        /\ r \in DOMAIN runs' /\ runs'[r].status = "done"
        /\ runs'[r].suite = runs[r].suite /\ runs'[r].sha = runs[r].sha
        /\ runs'[r].ran = runs[r].ran /\ runs'[r].sum = runs[r].sum
        /\ runs[r].swapped => runs'[r].swapped

\* The suites that have a run keep their id.
SuitesKeepTheirId ==
    \A s \in DOMAIN suites :
        \/ s \in DOMAIN suites' /\ suites'[s].id = suites[s].id
        \/ \A r \in DOMAIN runs : runs[r].suite # suites[s].id

\* As long as they do, a spec that is graded stays graded.
LEMMA GradedStays ==
    ASSUME NEW spec, Graded(spec), RunsGoOn, SuitesKeepTheirId
    PROVE  Graded(spec)'
<1> SUFFICES ASSUME NEW s \in spec.suites
             PROVE  s \in DOMAIN suites' /\ \E r \in DOMAIN runs' : SpeaksFor(runs'[r], suites'[s].id, spec)
    BY DEF Graded
<1>1. PICK r \in DOMAIN runs : SpeaksFor(runs[r], suites[s].id, spec)
    BY DEF Graded
<1>2. s \in DOMAIN suites /\ runs[r].suite = suites[s].id /\ runs[r].status = "done"
    BY <1>1 DEF Graded, SpeaksFor
<1>3. s \in DOMAIN suites' /\ suites'[s].id = suites[s].id
    BY <1>2 DEF SuitesKeepTheirId
<1>4. SpeaksFor(runs'[r], suites'[s].id, spec)
    BY <1>1, <1>2, <1>3 DEF RunsGoOn, SpeaksFor
<1> QED BY <1>2, <1>3, <1>4 DEF RunsGoOn
-----------------------------------------------------------------------------

\* What is a draft no longer was graded, and is the spec that was graded.
LEMMA EvidenceStays ==
    ASSUME RunsGoOn, SuitesKeepTheirId,
           \A v \in DOMAIN specs' : v # 1 /\ specs'[v].status # "draft" =>
               /\ v \in DOMAIN specs /\ Graded(specs[v])
               /\ specs'[v].content = specs[v].content /\ specs'[v].suites = specs[v].suites
               /\ specs'[v].floor = specs[v].floor
    PROVE  EvidenceIsKept'
<1> SUFFICES ASSUME NEW v \in DOMAIN specs', v # 1, specs'[v].status # "draft", NEW new, new = specs'[v]
             PROVE  Graded(new)'
    BY DEF EvidenceIsKept
<1>1. PICK old : old = specs[v]
    OBVIOUS
<1>3. Graded(old) /\ new.content = old.content /\ new.suites = old.suites /\ new.floor = old.floor
    BY <1>1
<1>4. Graded(old)'
    BY <1>3, GradedStays
<1>5. Graded(new)'
    BY <1>3, <1>4 DEF Graded, SpeaksFor
<1> QED BY <1>5

\* A version is made live: one that gate 4 let by, or one that was live before.
LEMMA GatePublishing ==
    ASSUME EvalsInv, NEW v \in DOMAIN specs, MadeLive(v), v = 1 \/ Graded(specs[v])
    PROVE  EvalsInv'
<1>1. Len(specs) \in Nat /\ DOMAIN specs = 1..Len(specs) /\ \A i \in DOMAIN specs : specs[i] \in SpecRows
    BY SpecsAreRows DEF EvalsInv
<1>2. /\ DOMAIN specs' = DOMAIN specs
      /\ \A i \in DOMAIN specs :
           specs'[i] = IF i = v THEN [specs[i] EXCEPT !.status = "published"]
                       ELSE IF i = liveSpec THEN [specs[i] EXCEPT !.status = "superseded"]
                       ELSE specs[i]
    BY DEF MadeLive
<1>3. ASSUME NEW i \in DOMAIN specs
      PROVE  /\ specs'[i] \in SpecRows
             /\ specs'[i].content = specs[i].content /\ specs'[i].suites = specs[i].suites
             /\ specs'[i].floor = specs[i].floor
             /\ i = v => specs'[i].status = "published"
             /\ i # v => specs'[i].status \in {specs[i].status, "superseded"}
             /\ (i # v /\ i # liveSpec) => specs'[i].status = specs[i].status
    <2>1. specs[i] \in SpecRows
        BY <1>1, <1>3
    <2>2. CASE i = v
        BY <1>2, <1>3, <2>1, <2>2 DEF SpecRows
    <2>3. CASE i # v /\ i = liveSpec
        BY <1>2, <1>3, <2>1, <2>3 DEF SpecRows
    <2>4. CASE i # v /\ i # liveSpec
        BY <1>2, <1>3, <2>1, <2>4 DEF SpecRows
    <2> QED BY <2>2, <2>3, <2>4
<1>4. specs' \in Seq(SpecRows)
    <2>1. specs' = [i \in 1..Len(specs) |-> specs'[i]]
        BY <1>1 DEF MadeLive
    <2>2. specs' \in [1..Len(specs) -> SpecRows]
        BY <1>1, <1>3, <2>1
    <2> QED BY <1>1, <2>2, SeqDef
<1>5. liveSpec' = v /\ UNCHANGED <<suites, cases, runs, jobs>>
    BY DEF MadeLive
<1>6. EvalsShape'
    <2>1. SpecsShape'
        BY <1>2, <1>4, <1>5 DEF SpecsShape
    <2>2. RunsShape'
        BY <1>2, <1>5, RunsShapeStays DEF EvalsInv, EvalsShape
    <2>3. SuitesShape'
        BY DEF MadeLive, EvalsInv, EvalsShape, SuitesShape
    <2> QED BY <2>1, <2>2, <2>3 DEF EvalsShape
<1>7. \A r \in DOMAIN runs' : RowIsKeyed(r)'
    BY <1>3, <1>5 DEF EvalsInv, EvalsShape, RunsShape, RowIsKeyed
<1>8. EvidenceIsKept'
    <2>1. RunsGoOn /\ SuitesKeepTheirId
        BY <1>5 DEF RunsGoOn, SuitesKeepTheirId
    <2>2. ASSUME NEW i \in DOMAIN specs', i # 1, specs'[i].status # "draft"
          PROVE  Graded(specs[i])
        <3>1. CASE i = v
            BY <2>2, <3>1
        <3>2. CASE i = liveSpec
            BY <1>2, <2>2, <3>2 DEF EvalsInv, EvidenceIsKept
        <3>3. CASE i # v /\ i # liveSpec
            <4>1. specs[i].status # "draft"
                BY <1>2, <1>3, <2>2, <3>3
            <4> QED BY <1>2, <2>2, <4>1 DEF EvalsInv, EvidenceIsKept
        <3> QED BY <3>1, <3>2, <3>3
    <2> QED BY <1>2, <1>3, <2>1, <2>2, EvidenceStays
<1>9. specs'[liveSpec'].status = "published"
    BY <1>3, <1>5
<1> QED BY <1>6, <1>7, <1>8, <1>9 DEF EvalsInv

\* The three ways to make a version live.
LEMMA PublishesAndRollbacks ==
    ASSUME EvalsInv, NEW v \in DOMAIN specs, PublishVersion(v) \/ SelfPublish(v) \/ RollBack(v)
    PROVE  EvalsInv'
<1>1. MadeLive(v)
    BY DEF PublishVersion, SelfPublish, RollBack
<1>2. v = 1 \/ Graded(specs[v])
    <2>1. CASE EvalGate(v)
        BY <2>1, GateMeansGraded DEF EvalsInv
    <2>2. CASE specs[v].status = "superseded"
        BY <2>2 DEF EvalsInv, EvidenceIsKept
    <2> QED BY <2>1, <2>2 DEF PublishVersion, SelfPublish, RollBack
<1> QED BY <1>1, <1>2, GatePublishing

\* A new draft.
LEMMA Drafting ==
    ASSUME EvalsInv, NEW by \in {"agent", "human"}, NEW c \in Contents, NEW names \in SUBSET Suites,
           NEW floor \in Floors, DraftVersion(by, c, names, floor)
    PROVE  EvalsInv'
<1> DEFINE row == [content |-> c, suites |-> names, floor |-> floor, by |-> by, status |-> "draft"]
<1>1. row \in SpecRows /\ row.status = "draft"
    BY DEF SpecRows
<1>2. specs' = Append(specs, row)
    BY DEF DraftVersion
<1> HIDE DEF row
<1>3. specs \in Seq(SpecRows) /\ Len(specs) \in Nat /\ DOMAIN specs = 1..Len(specs)
    BY SpecsAreRows DEF EvalsInv
<1>4. /\ specs' \in Seq(SpecRows) /\ DOMAIN specs' = DOMAIN specs \cup {Len(specs) + 1}
      /\ specs'[Len(specs) + 1] = row
      /\ \A i \in DOMAIN specs : specs'[i] = specs[i]
    BY <1>1, <1>2, <1>3, AppendProperties, LenProperties
<1>5. UNCHANGED <<liveSpec, suites, cases, runs, jobs>>
    BY DEF DraftVersion
<1>6. EvalsShape'
    <2>1. SpecsShape'
        BY <1>4, <1>5 DEF EvalsInv, EvalsShape, SpecsShape
    <2>2. RunsShape'
        BY <1>4, <1>5, RunsShapeStays DEF EvalsInv, EvalsShape
    <2>3. SuitesShape'
        BY DEF DraftVersion, EvalsInv, EvalsShape, SuitesShape
    <2> QED BY <2>1, <2>2, <2>3 DEF EvalsShape
<1>7. \A r \in DOMAIN runs' : RowIsKeyed(r)'
    BY <1>4, <1>5 DEF EvalsInv, EvalsShape, RunsShape, RowIsKeyed
<1>8. EvidenceIsKept'
    <2>1. RunsGoOn /\ SuitesKeepTheirId
        BY <1>5 DEF RunsGoOn, SuitesKeepTheirId
    <2>2. ASSUME NEW v \in DOMAIN specs', v # 1, specs'[v].status # "draft"
          PROVE  v \in DOMAIN specs /\ specs'[v] = specs[v] /\ Graded(specs[v])
        <3>1. v \in DOMAIN specs /\ specs'[v] = specs[v]
            BY <1>1, <1>4, <2>2
        <3> QED BY <2>2, <3>1 DEF EvalsInv, EvidenceIsKept
    <2> QED BY <2>1, <2>2, EvidenceStays
<1>9. specs'[liveSpec'].status = "published"
    BY <1>4, <1>5 DEF EvalsInv, EvalsShape, SpecsShape
<1> QED BY <1>6, <1>7, <1>8, <1>9 DEF EvalsInv

\* A run that an edit may have swapped the content under.
SameButSwapped(run, new) ==
    /\ new.suite = run.suite /\ new.version = run.version /\ new.sha = run.sha /\ new.status = run.status
    /\ new.sum = run.sum /\ new.ran = run.ran
    /\ run.swapped => new.swapped

\* An edit of a draft leaves every version that is none alone, and swaps the content
\* under the runs whose job has not read it.
LEMMA GateEditing ==
    ASSUME EvalsInv, NEW v \in DOMAIN specs, NEW c \in Contents, NEW names \in SUBSET Suites,
           NEW floor \in Floors, UpdateDraft(v, c, names, floor)
    PROVE  EvalsInv'
<1> DEFINE row == [specs[v] EXCEPT !.content = c, !.suites = names, !.floor = floor]
           swapped(r) == runs[r].swapped \/ (runs[r].version = v /\ r \in DOMAIN jobs /\ jobs[r] = Unread)
<1>1. specs \in Seq(SpecRows) /\ Len(specs) \in Nat /\ DOMAIN specs = 1..Len(specs) /\ specs[v] \in SpecRows
    BY SpecsAreRows DEF EvalsInv
<1>2. row \in SpecRows /\ row.status = "draft"
    BY <1>1 DEF SpecRows, UpdateDraft
<1>3. specs' = [specs EXCEPT ![v] = row]
    BY <1>1 DEF UpdateDraft
<1> HIDE DEF row
<1>4. /\ specs' \in Seq(SpecRows) /\ DOMAIN specs' = DOMAIN specs
      /\ specs'[v] = row /\ \A i \in DOMAIN specs : i # v => specs'[i] = specs[i]
    BY <1>1, <1>2, <1>3, ExceptSeq
<1>5. UNCHANGED <<liveSpec, suites, cases, jobs>>
    BY DEF UpdateDraft
<1>6. runs' = [r \in DOMAIN runs |-> [runs[r] EXCEPT !.swapped = swapped(r)]]
    BY DEF UpdateDraft
<1>7. \A r \in DOMAIN runs : swapped(r) \in BOOLEAN /\ (runs[r].swapped => swapped(r))
    OBVIOUS
<1>8. ASSUME NEW r \in DOMAIN jobs, runs[r].version = v, jobs[r] = Unread
      PROVE  swapped(r)
    BY <1>8
<1> HIDE DEF swapped
<1>9. \A r \in DOMAIN runs : runs'[r] \in RunRows /\ SameButSwapped(runs[r], runs'[r])
    <2> SUFFICES ASSUME NEW r \in DOMAIN runs
                 PROVE  runs'[r] \in RunRows /\ SameButSwapped(runs[r], runs'[r])
        OBVIOUS
    <2>1. runs[r] \in RunRows /\ runs'[r] = [runs[r] EXCEPT !.swapped = swapped(r)]
        BY <1>6, RunsAreRows DEF EvalsInv
    <2>2. swapped(r) \in BOOLEAN /\ (runs[r].swapped => swapped(r))
        BY <1>7
    <2> QED BY <2>1, <2>2 DEF RunRows, SameButSwapped
<1>10. DOMAIN runs' = DOMAIN runs /\ \A r \in DOMAIN runs : runs'[r].swapped = swapped(r)
    <2> SUFFICES ASSUME NEW r \in DOMAIN runs
                 PROVE  runs'[r].swapped = swapped(r)
        BY <1>6
    <2>1. runs[r] \in RunRows /\ runs'[r] = [runs[r] EXCEPT !.swapped = swapped(r)]
        BY <1>6, RunsAreRows DEF EvalsInv
    <2> QED BY <2>1 DEF RunRows
<1>11. EvalsShape'
    <2>1. SpecsShape'
        BY <1>4, <1>5 DEF EvalsInv, EvalsShape, SpecsShape
    <2>2. runs' \in Seq(RunRows)
        <3>1. Len(runs) \in Nat /\ DOMAIN runs = 1..Len(runs)
            BY RunsAreRows DEF EvalsInv
        <3>2. runs' \in [1..Len(runs) -> RunRows]
            BY <1>6, <1>9, <1>10, <3>1
        <3> QED BY <3>1, <3>2, SeqDef
    <2>3. \A r \in DOMAIN runs' : runs'[r].version \in DOMAIN specs'
        BY <1>4, <1>9, <1>10 DEF EvalsInv, EvalsShape, RunsShape, SameButSwapped
    <2>4. RunsShape'
        BY <1>5, <1>10, <2>2, <2>3 DEF EvalsInv, EvalsShape, RunsShape
    <2>5. SuitesShape'
        BY DEF UpdateDraft, EvalsInv, EvalsShape, SuitesShape
    <2> QED BY <2>1, <2>4, <2>5 DEF EvalsShape
<1>12. ASSUME NEW r \in DOMAIN runs'
       PROVE  RowIsKeyed(r)'
    <2>1. r \in DOMAIN runs /\ RowIsKeyed(r) /\ SameButSwapped(runs[r], runs'[r]) /\ runs'[r].swapped = swapped(r)
        BY <1>9, <1>10, <1>12 DEF EvalsInv
    <2>2. runs'[r].status = "done" => runs'[r].ran = runs'[r].sha \/ runs'[r].swapped
        BY <2>1 DEF RowIsKeyed, SameButSwapped
    <2>3. ASSUME r \in DOMAIN jobs, ~runs'[r].swapped
          PROVE  runs'[r].sha = IF jobs[r] = Unread THEN specs'[runs'[r].version].content ELSE jobs[r]
        <3>1. ~(runs[r].version = v /\ jobs[r] = Unread) /\ ~runs[r].swapped
            BY <1>8, <2>1, <2>3 DEF SameButSwapped
        <3>2. runs[r].version \in DOMAIN specs
            BY <2>1 DEF EvalsInv, EvalsShape, RunsShape
        <3> QED BY <1>4, <2>1, <2>3, <3>1, <3>2 DEF RowIsKeyed, SameButSwapped
    <2> QED BY <1>5, <2>1, <2>2, <2>3 DEF RowIsKeyed, SameButSwapped
<1>13. EvidenceIsKept'
    <2>1. RunsGoOn /\ SuitesKeepTheirId
        BY <1>5, <1>9, <1>10 DEF RunsGoOn, SuitesKeepTheirId, SameButSwapped
    <2>2. ASSUME NEW w \in DOMAIN specs', w # 1, specs'[w].status # "draft"
          PROVE  w \in DOMAIN specs /\ specs'[w] = specs[w] /\ Graded(specs[w])
        <3>1. w \in DOMAIN specs /\ specs'[w] = specs[w]
            BY <1>2, <1>4, <2>2
        <3> QED BY <2>2, <3>1 DEF EvalsInv, EvidenceIsKept
    <2> QED BY <2>1, <2>2, EvidenceStays
<1>14. specs'[liveSpec'].status = "published"
    <2>1. liveSpec # v /\ liveSpec \in DOMAIN specs
        BY DEF UpdateDraft, EvalsInv, EvalsShape, SpecsShape
    <2> QED BY <1>4, <1>5, <2>1 DEF EvalsInv
<1> QED BY <1>11, <1>12, <1>13, <1>14 DEF EvalsInv
-----------------------------------------------------------------------------

\* The steps that leave the specs alone.
LEMMA SpecsStay ==
    ASSUME EvalsInv, UNCHANGED <<specs, liveSpec>>, RunsShape', SuitesShape', RunsGoOn, SuitesKeepTheirId,
           \A r \in DOMAIN runs' : RowIsKeyed(r)'
    PROVE  EvalsInv'
<1>1. EvalsShape'
    BY DEF EvalsInv, EvalsShape, SpecsShape
<1>2. EvidenceIsKept'
    <2>1. \A v \in DOMAIN specs : v # 1 /\ specs[v].status # "draft" => Graded(specs[v])
        BY DEF EvalsInv, EvidenceIsKept
    <2> QED BY <2>1, EvidenceStays
<1> QED BY <1>1, <1>2 DEF EvalsInv

\* Suites and cases change, and the runs do not.
LEMMA SuitesChange ==
    ASSUME EvalsInv,
           \/ \E s \in Suites, cs \in SUBSET Cases : PutSuite(s, cs)
           \/ \E s \in DOMAIN suites : DeleteSuite(s)
           \/ \E c \in Cases : ConfirmCase(c) \/ AgentAddsCase(c) \/ CaptureCase(c)
           \/ \E c \in DOMAIN cases : DropCase(c)
           \/ UNCHANGED evalVars
    PROVE  EvalsInv'
<1>1. UNCHANGED <<specs, liveSpec, runs, jobs>>
    BY DEF PutSuite, DeleteSuite, ConfirmCase, AgentAddsCase, PutCase, CaptureCase, DropCase, evalVars
<1>2. RunsShape'
    BY <1>1, RunsShapeStays DEF EvalsInv, EvalsShape
<1>3. \A r \in DOMAIN runs' : RowIsKeyed(r)'
    BY <1>1 DEF EvalsInv, RowIsKeyed
<1>4. RunsGoOn
    BY <1>1 DEF RunsGoOn
<1>5. SuitesShape' /\ SuitesKeepTheirId
    <2>1. CASE \E s \in Suites, cs \in SUBSET Cases : PutSuite(s, cs)
        <3>1. PICK s \in Suites, cs \in SUBSET Cases : PutSuite(s, cs)
            BY <2>1
        <3>2. /\ DOMAIN suites' = DOMAIN suites \cup {s}
              /\ \A x \in DOMAIN suites : x # s => suites'[x] = suites[x]
              /\ suites'[s] = [id |-> IF s \in DOMAIN suites THEN suites[s].id ELSE lastSuite + 1, cases |-> cs]
              /\ lastSuite' = IF s \in DOMAIN suites THEN lastSuite ELSE lastSuite + 1
            BY <3>1 DEF PutSuite
        <3>3. SuitesShape
            BY DEF EvalsInv, EvalsShape
        <3>4. lastSuite' \in Nat /\ suites'[s].id \in Nat /\ suites'[s].cases \subseteq Cases
            BY <3>2, <3>3 DEF SuitesShape
        <3>5. SuitesShape'
            BY <3>2, <3>3, <3>4 DEF SuitesShape
        <3>6. SuitesKeepTheirId
            BY <3>2 DEF SuitesKeepTheirId
        <3> QED BY <3>5, <3>6
    <2>2. CASE \E s \in DOMAIN suites : DeleteSuite(s)
        <3>1. PICK s \in DOMAIN suites : DeleteSuite(s)
            BY <2>2
        <3>2. /\ DOMAIN suites' = DOMAIN suites \ {s} /\ lastSuite' = lastSuite
              /\ \A x \in DOMAIN suites' : suites'[x] = suites[x]
            BY <3>1 DEF DeleteSuite, Restrict
        <3>3. SuitesShape'
            BY <3>2 DEF EvalsInv, EvalsShape, SuitesShape
        <3>4. \A r \in DOMAIN runs : runs[r].suite # suites[s].id
            BY <3>1 DEF DeleteSuite, Deletable
        <3> QED BY <3>2, <3>3, <3>4 DEF SuitesKeepTheirId
    <2>3. CASE UNCHANGED <<suites, lastSuite>>
        BY <2>3 DEF EvalsInv, EvalsShape, SuitesShape, SuitesKeepTheirId
    <2> QED BY <2>1, <2>2, <2>3 DEF ConfirmCase, AgentAddsCase, PutCase, CaptureCase, DropCase, evalVars
<1> QED BY <1>1, <1>2, <1>3, <1>4, <1>5, SpecsStay

\* A run is started, by a person or by an agent, and its job with it or not.
LEMMA Starting ==
    ASSUME EvalsInv, NEW s \in DOMAIN suites, NEW v \in DOMAIN specs, NEW by \in {"agent", "human"},
           NEW spawned \in BOOLEAN, StartRun(s, v, by, spawned)
    PROVE  EvalsInv'
<1> DEFINE n == Len(runs) + 1
           row == [suite |-> suites[s].id, slug |-> s, version |-> v, sha |-> Sha(v), by |-> by,
                   age |-> "fresh", status |-> "running", sum |-> Waiting, ran |-> Unread, swapped |-> FALSE]
<1>1. /\ runs' = Append(runs, row) /\ UNCHANGED <<specs, liveSpec, suites, lastSuite>>
      /\ jobs' = jobs \/ jobs' = [r \in DOMAIN jobs \cup {n} |-> IF r \in DOMAIN jobs THEN jobs[r] ELSE Unread]
    BY DEF StartRun
<1>2. row \in RunRows
    <2>1. suites[s].id \in Nat /\ s \in Suites
        BY DEF EvalsInv, EvalsShape, SuitesShape
    <2>2. v \in Nat /\ Sha(v) \in Contents
        BY SpecsAreRows DEF EvalsInv, Sha, SpecRows
    <2>3. Waiting \in Sums
        BY DEF Waiting, Sums
    <2> QED BY <2>1, <2>2, <2>3 DEF RunRows
<1>3. row.status = "running" /\ row.version = v /\ row.sha = specs[v].content
    BY DEF Sha
<1> HIDE DEF row
<1>4. /\ runs' \in Seq(RunRows) /\ DOMAIN runs' = DOMAIN runs \cup {n} /\ n \notin DOMAIN runs
      /\ runs'[n] = row /\ \A r \in DOMAIN runs : runs'[r] = runs[r]
    BY <1>1, <1>2, RunsAreRows, AppendProperties, LenProperties DEF EvalsInv
<1> HIDE DEF n
<1>5. /\ DOMAIN jobs \subseteq DOMAIN jobs' /\ DOMAIN jobs' \subseteq DOMAIN jobs \cup {n}
      /\ \A r \in DOMAIN jobs : jobs'[r] = jobs[r]
      /\ n \in DOMAIN jobs' /\ n \notin DOMAIN jobs => jobs'[n] = Unread
    BY <1>1
<1>6. n \notin DOMAIN jobs
    BY <1>4 DEF EvalsInv, EvalsShape, RunsShape
<1>7. RunsShape'
    <2>1. \A r \in DOMAIN runs' : runs'[r].version \in DOMAIN specs
        BY <1>3, <1>4 DEF EvalsInv, EvalsShape, RunsShape
    <2>2. DOMAIN jobs' \subseteq DOMAIN runs' /\ \A r \in DOMAIN jobs' : jobs'[r] \in Contents \cup {Unread}
        BY <1>4, <1>5, <1>6 DEF EvalsInv, EvalsShape, RunsShape
    <2> QED BY <1>1, <1>4, <2>1, <2>2 DEF RunsShape
<1>8. SuitesShape' /\ SuitesKeepTheirId
    BY <1>1 DEF EvalsInv, EvalsShape, SuitesShape, SuitesKeepTheirId
<1>9. RunsGoOn
    BY <1>4 DEF RunsGoOn
<1>10. ASSUME NEW r \in DOMAIN runs'
       PROVE  RowIsKeyed(r)'
    <2>1. CASE r = n
        BY <1>1, <1>3, <1>4, <1>5, <1>6, <2>1 DEF RowIsKeyed
    <2>2. CASE r # n
        <3>1. r \in DOMAIN runs /\ RowIsKeyed(r) /\ runs'[r] = runs[r]
            BY <1>4, <1>10, <2>2 DEF EvalsInv
        <3>2. r \in DOMAIN jobs' => r \in DOMAIN jobs /\ jobs'[r] = jobs[r]
            BY <1>5, <2>2
        <3> QED BY <1>1, <3>1, <3>2 DEF RowIsKeyed
    <2> QED BY <2>1, <2>2
<1> QED BY <1>1, <1>7, <1>8, <1>9, <1>10, SpecsStay

\* A row that has no job left to speak of, or an age.
LEMMA RowIsRewritten ==
    ASSUME EvalsInv, NEW r \in DOMAIN runs, NEW row \in RunRows, runs' = [runs EXCEPT ![r] = row],
           UNCHANGED <<specs, liveSpec, suites, lastSuite>>,
           jobs' = jobs \/ jobs' = Restrict(jobs, DOMAIN jobs \ {r}),
           row.suite = runs[r].suite, row.sha = runs[r].sha, row.version = runs[r].version,
           row.swapped = runs[r].swapped,
           \/ row.status = runs[r].status /\ row.ran = runs[r].ran /\ row.sum = runs[r].sum
           \/ /\ runs[r].status = "running" /\ r \notin DOMAIN jobs'
              /\ row.ran = row.sha \/ row.swapped
    PROVE  EvalsInv'
<1>1. /\ runs' \in Seq(RunRows) /\ DOMAIN runs' = DOMAIN runs
      /\ runs'[r] = row /\ \A q \in DOMAIN runs : q # r => runs'[q] = runs[q]
    BY RunsAreRows, ExceptSeq DEF EvalsInv
<1>2. DOMAIN jobs' \subseteq DOMAIN jobs /\ \A q \in DOMAIN jobs' : jobs'[q] = jobs[q]
    BY DEF Restrict
<1>3. RunsShape'
    <2>1. \A q \in DOMAIN runs' : runs'[q].version \in DOMAIN specs
        BY <1>1 DEF EvalsInv, EvalsShape, RunsShape
    <2>2. DOMAIN jobs' \subseteq DOMAIN runs' /\ \A q \in DOMAIN jobs' : jobs'[q] \in Contents \cup {Unread}
        BY <1>1, <1>2 DEF EvalsInv, EvalsShape, RunsShape
    <2> QED BY <1>1, <2>1, <2>2 DEF RunsShape
<1>4. SuitesShape' /\ SuitesKeepTheirId
    BY DEF EvalsInv, EvalsShape, SuitesShape, SuitesKeepTheirId
<1>5. RunsGoOn
    BY <1>1 DEF RunsGoOn
<1>6. ASSUME NEW q \in DOMAIN runs'
      PROVE  RowIsKeyed(q)'
    <2>1. q \in DOMAIN runs /\ RowIsKeyed(q)
        BY <1>1, <1>6 DEF EvalsInv
    <2>2. CASE q = r
        <3>1. RowIsKeyed(r) /\ runs'[r] = row
            BY <1>1, <2>1, <2>2
        <3>2. row.status = "done" => row.ran = row.sha \/ row.swapped
            BY <3>1 DEF RowIsKeyed
        <3>3. ASSUME r \in DOMAIN jobs'
              PROVE  /\ row.status = "running"
                     /\ row.swapped \/ row.sha = IF jobs'[r] = Unread THEN specs[row.version].content ELSE jobs'[r]
            BY <1>2, <3>1, <3>3 DEF RowIsKeyed
        <3> QED BY <2>2, <3>1, <3>2, <3>3 DEF RowIsKeyed
    <2>3. CASE q # r
        <3>1. runs'[q] = runs[q]
            BY <1>1, <2>1, <2>3
        <3> QED BY <1>2, <2>1, <3>1 DEF RowIsKeyed
    <2> QED BY <2>2, <2>3
<1> QED BY <1>3, <1>4, <1>5, <1>6, SpecsStay

\* A run gets older.
LEMMA Ageing ==
    ASSUME EvalsInv, NEW r \in DOMAIN runs, Ages(r)
    PROVE  EvalsInv'
<1> DEFINE row == [runs[r] EXCEPT !.age = IF @ = "fresh" THEN "stale" ELSE "old"]
<1>1. runs[r] \in RunRows
    BY RunsAreRows DEF EvalsInv
<1>2. /\ row \in RunRows /\ row.suite = runs[r].suite /\ row.sha = runs[r].sha
      /\ row.version = runs[r].version /\ row.swapped = runs[r].swapped
      /\ row.status = runs[r].status /\ row.ran = runs[r].ran /\ row.sum = runs[r].sum
    BY <1>1 DEF RunRows
<1>3. runs' = [runs EXCEPT ![r] = row] /\ UNCHANGED <<specs, liveSpec, suites, lastSuite, jobs>>
    BY DEF Ages
<1> HIDE DEF row
<1> QED BY <1>2, <1>3, RowIsRewritten

\* A job that has read its version finishes: what it grades is what its row is keyed
\* to, or was swapped.
LEMMA Finishing ==
    ASSUME EvalsInv, NEW r \in DOMAIN jobs, jobs[r] # Unread, NEW status \in {"done", "failed"},
           NEW sum \in Sums, Finished(r, status, sum)
    PROVE  EvalsInv'
<1> DEFINE row == [runs[r] EXCEPT !.status = status, !.sum = sum, !.ran = jobs[r]]
<1>1. r \in DOMAIN runs /\ runs[r] \in RunRows /\ RowIsKeyed(r) /\ jobs[r] \in Contents
    BY RunsAreRows DEF EvalsInv, EvalsShape, RunsShape
<1>2. /\ row \in RunRows /\ row.suite = runs[r].suite /\ row.sha = runs[r].sha
      /\ row.version = runs[r].version /\ row.swapped = runs[r].swapped /\ row.ran = jobs[r]
    BY <1>1 DEF RunRows
<1>3. /\ runs' = [runs EXCEPT ![r] = row] /\ jobs' = Restrict(jobs, DOMAIN jobs \ {r})
      /\ UNCHANGED <<specs, liveSpec, suites, lastSuite>>
    BY DEF Finished
<1> HIDE DEF row
<1>4. r \notin DOMAIN jobs'
    BY <1>3 DEF Restrict
<1>5. runs[r].status = "running" /\ (row.ran = row.sha \/ row.swapped)
    BY <1>1, <1>2 DEF RowIsKeyed
<1> QED BY <1>1, <1>2, <1>3, <1>4, <1>5, RowIsRewritten

\* What a suite's cases add up to is numbers.
LEMMA SummariesAreSums ==
    ASSUME NEW cs \in SUBSET Cases
    PROVE  Summaries(Gradable(cs)) \subseteq Sums
<1> SUFFICES ASSUME NEW sum \in Summaries(Gradable(cs))
             PROVE  sum \in Sums
    OBVIOUS
<1>1. PICK g \in [Gradable(cs) -> {"pass", "fail", "none", "raise"}] :
        sum = [passed |-> Cardinality({c \in Gradable(cs) : g[c] = "pass"}),
               failed |-> Cardinality({c \in Gradable(cs) : g[c] = "fail"}),
               raised |-> Cardinality({c \in Gradable(cs) : g[c] = "raise"})]
    BY DEF Summaries
<1>2. \A x : Cardinality({c \in Gradable(cs) : g[c] = x}) \in Nat
    <2> TAKE x
    <2>1. {c \in Gradable(cs) : g[c] = x} \subseteq Cases
        BY DEF Gradable
    <2>2. IsFiniteSet({c \in Gradable(cs) : g[c] = x})
        BY <2>1, FS_Subset, CasesAssumption
    <2> QED BY <2>2, FS_CardinalityType
<1> QED BY <1>1, <1>2 DEF Sums

\* The steps of a job.
LEMMA JobsGoOn ==
    ASSUME EvalsInv, NEW r \in DOMAIN jobs, JobReads(r) \/ JobFinishes(r) \/ JobFails(r) \/ JobDies(r)
    PROVE  EvalsInv'
<1>1. CASE JobReads(r)
    <2>1. /\ DOMAIN jobs' = DOMAIN jobs /\ jobs'[r] = specs[runs[r].version].content
          /\ \A q \in DOMAIN jobs : q # r => jobs'[q] = jobs[q]
          /\ jobs[r] = Unread /\ UNCHANGED <<specs, liveSpec, suites, runs, lastSuite>>
        BY <1>1 DEF JobReads
    <2>2. r \in DOMAIN runs /\ specs[runs[r].version].content \in Contents
        <3>1. r \in DOMAIN runs /\ runs[r].version \in DOMAIN specs
            BY DEF EvalsInv, EvalsShape, RunsShape
        <3> QED BY <3>1, SpecsAreRows DEF EvalsInv, SpecRows
    <2>3. RunsShape'
        BY <2>1, <2>2 DEF EvalsInv, EvalsShape, RunsShape
    <2>4. SuitesShape' /\ SuitesKeepTheirId /\ RunsGoOn
        BY <2>1 DEF EvalsInv, EvalsShape, SuitesShape, SuitesKeepTheirId, RunsGoOn
    <2>5. \A q \in DOMAIN runs' : RowIsKeyed(q)'
        BY <2>1 DEF EvalsInv, RowIsKeyed
    <2> QED BY <2>1, <2>3, <2>4, <2>5, SpecsStay
<1>2. CASE JobFinishes(r) \/ JobFails(r)
    <2>1. Waiting \in Sums
        BY DEF Waiting, Sums
    <2>2. CASE Finished(r, "failed", Waiting)
        BY <1>2, <2>1, <2>2, Finishing DEF JobFinishes, JobFails
    <2>3. CASE JobFinishes(r) /\ ~Finished(r, "failed", Waiting)
        <3> DEFINE cs == suites[runs[r].slug].cases
        <3>1. cs \in SUBSET Cases
            BY <2>3 DEF JobFinishes, EvalsInv, EvalsShape, SuitesShape
        <3>2. PICK sum \in Summaries(Gradable(cs)) : Finished(r, "done", sum)
            BY <2>3 DEF JobFinishes
        <3> HIDE DEF cs
        <3>3. sum \in Sums
            BY <3>1, <3>2, SummariesAreSums
        <3> QED BY <2>3, <3>2, <3>3, Finishing DEF JobFinishes
    <2> QED BY <1>2, <2>2, <2>3 DEF JobFails
<1>3. CASE JobDies(r)
    <2>1. r \in DOMAIN runs /\ runs[r] \in RunRows
        BY RunsAreRows DEF EvalsInv, EvalsShape, RunsShape
    <2>2. runs' = [runs EXCEPT ![r] = runs[r]]
        <3>1. runs \in [1..Len(runs) -> RunRows]
            BY RunsAreRows, SeqDef DEF EvalsInv
        <3>2. runs = [runs EXCEPT ![r] = runs[r]]
            BY <2>1, <3>1
        <3> QED BY <1>3, <3>2 DEF JobDies
    <2> QED BY <1>3, <2>1, <2>2, RowIsRewritten DEF JobDies
<1> QED BY <1>1, <1>2, <1>3
-----------------------------------------------------------------------------

\* Whatever is live, by a publish or by a rollback to it, was graded on what it says,
\* and its evidence is there to see (PublishedWasGraded): for any suites, cases and
\* contents, and any number of versions and runs.
THEOREM PublishedWasAlwaysGraded == EvalsSpec => []PublishedWasGraded
<1>1. EvalsInit => EvalsInv
    <2> SUFFICES ASSUME EvalsInit PROVE EvalsInv
        OBVIOUS
    <2>1. PICK c \in Contents :
            specs = <<[content |-> c, suites |-> {}, floor |-> 2, by |-> "boot", status |-> "published"]>>
        BY DEF EvalsInit
    <2>2. [content |-> c, suites |-> {}, floor |-> 2, by |-> "boot", status |-> "published"] \in SpecRows
        BY DEF SpecRows, Floors
    <2>3. DOMAIN specs = {1} /\ liveSpec = 1 /\ specs[1].status = "published"
        BY <2>1 DEF EvalsInit
    <2>4. SpecsShape
        BY <2>1, <2>2, <2>3 DEF SpecsShape
    <2>5. RunsShape /\ SuitesShape /\ \A r \in DOMAIN runs : RowIsKeyed(r)
        BY DEF EvalsInit, RunsShape, SuitesShape
    <2>6. EvidenceIsKept
        BY <2>3 DEF EvidenceIsKept
    <2> QED BY <2>3, <2>4, <2>5, <2>6 DEF EvalsInv, EvalsShape
<1>2. EvalsInv /\ [EvalsNext]_evalVars => EvalsInv'
    <2> SUFFICES ASSUME EvalsInv, EvalsNext \/ UNCHANGED evalVars PROVE EvalsInv'
        OBVIOUS
    <2>1. CASE \E v \in DOMAIN specs : PublishVersion(v) \/ SelfPublish(v) \/ RollBack(v)
        BY <2>1, PublishesAndRollbacks
    <2>2. CASE \E c \in Contents, names \in SUBSET Suites, floor \in Floors :
                  \/ \E by \in {"agent", "human"} : DraftVersion(by, c, names, floor)
                  \/ \E v \in DOMAIN specs : UpdateDraft(v, c, names, floor)
        BY <2>2, Drafting, GateEditing
    <2>3. CASE \/ \E s \in Suites, cs \in SUBSET Cases : PutSuite(s, cs)
               \/ \E s \in DOMAIN suites : DeleteSuite(s)
               \/ \E c \in Cases : ConfirmCase(c) \/ AgentAddsCase(c) \/ CaptureCase(c)
               \/ \E c \in DOMAIN cases : DropCase(c)
               \/ UNCHANGED evalVars
        BY <2>3, SuitesChange
    <2>4. CASE \E s \in DOMAIN suites, v \in DOMAIN specs, spawned \in BOOLEAN :
                  StartRun(s, v, "human", spawned) \/ AgentStartsRun(s, v, spawned)
        BY <2>4, Starting DEF AgentStartsRun
    <2>5. CASE \E r \in DOMAIN runs : Ages(r)
        BY <2>5, Ageing
    <2>6. CASE \E r \in DOMAIN jobs : JobReads(r) \/ JobFinishes(r) \/ JobFails(r) \/ JobDies(r)
        BY <2>6, JobsGoOn
    <2> QED BY <2>1, <2>2, <2>3, <2>4, <2>5, <2>6 DEF EvalsNext
<1>3. EvalsInv => PublishedWasGraded
    BY DEF EvalsInv, EvalsShape, SpecsShape, EvidenceIsKept, Graded, SpeaksFor, PublishedWasGraded
<1> QED BY <1>1, <1>2, <1>3, PTL DEF EvalsSpec
-----------------------------------------------------------------------------
(***************************************************************************)
(* The cards of a collection (module Data), in the kernel of MCKernel: a   *)
(* card does what it showed and can be confirmed while nothing stored has  *)
(* changed, and no number names two records.                               *)
(*                                                                         *)
(* What makes it inductive: a list of actions has one update of a record   *)
(* and one creation of an id at most, each action says what it makes of    *)
(* the copy it was proposed against, and while nothing has changed that    *)
(* copy is the record.  A card's transaction is a recursive function; what *)
(* holds after each of its actions holds of the first, and of every next.  *)
(***************************************************************************)

Creations == {Data!Action("create", id, <<>>, <<>>, d) : id \in Data!DocIds \cup {0}, d \in Data!NewDocs}
Updates == {Data!Action("update", id, p, d, Data!Onto(d, p)) : id \in Data!DocIds, p \in Data!Payloads, d \in Data!Docs}
Deletions == {Data!Action("delete", id, <<>>, d, Data!Hidden(d)) : id \in Data!DocIds, d \in Data!Docs}
Actions == Creations \cup Updates \cup Deletions

ServerIds == options.ids = "server"

(* A list of actions as a turn builds it. *)
GoodList(list) ==
    /\ list \in Seq(Actions)
    /\ \A i, j \in DOMAIN list : i # j =>
          /\ list[i] # list[j] /\ ~Data!SameUpdate(list[i], list[j])
          /\ list[i].op = "create" /\ list[j].op = "create" /\ list[i].id # 0 => list[i].id # list[j].id
    /\ \A i \in DOMAIN list : list[i].op = "create" => (list[i].id = 0 <=> ServerIds)

(* The action was proposed against what is stored. *)
FreshAction(x) ==
    /\ x.op = "create" => x.id \notin DOMAIN docs
    /\ x.op # "create" => x.id \in DOMAIN docs /\ x.before = docs[x.id]
    /\ x.op # "delete" => Data!Satisfies(schema, x.after)

Fresh(list) == \A i \in DOMAIN list : FreshAction(list[i])

GoodDocs == DOMAIN docs \subseteq Data!DocIds /\ docs \in [DOMAIN docs -> Data!Docs]

GoodNumbers(count, ids) ==
    /\ count \in Nat /\ ids \in Seq(1..count)
    /\ \A i, j \in DOMAIN ids : i # j => ids[i] # ids[j]

OptionsInv == options \in {[soft |-> FALSE, ids |-> "client"], [soft |-> TRUE, ids |-> "server"]}

TurnInv ==
    /\ GoodList(turn.actions)
    /\ turn = [on |-> turn.on, schema |-> turn.schema, actions |-> turn.actions]
    /\ turn.on /\ calm => turn.schema = schema /\ Fresh(turn.actions)

GoodCards(list) ==
    /\ list \in Seq([actions : Seq(Actions), status : {"pending", "committed", "cancelled"}])
    /\ \A c \in DOMAIN list : GoodList(list[c].actions)

DataInv == OptionsInv /\ GoodDocs /\ GoodNumbers(counter, drawn) /\ TurnInv /\ GoodCards(cards)

(* What a document and a payload are. *)
LEMMA OntoIsADoc ==
    ASSUME NEW d \in Data!Docs, NEW p \in Data!Payloads
    PROVE  /\ Data!Onto(d, p) \in Data!Docs /\ Data!Onto(d, p).shown = d.shown
           /\ DOMAIN p \subseteq {"a", "b"}
           /\ \A f \in {"a", "b"} : Data!Onto(d, p)[f] = IF f \in DOMAIN p THEN p[f] ELSE d[f]
<1>1. DOMAIN p \in SUBSET {"a", "b"} /\ p \in [DOMAIN p -> {0, 1}]
    BY DEF Data!Payloads, Data!Fields
<1>2. DOMAIN d = {"a", "b", "shown"} /\ d.a \in {0, 1} /\ d.b \in {0, 1} /\ d.shown \in BOOLEAN
    BY DEF Data!Docs
<1> DEFINE new == Data!Onto(d, p)
<1>3. /\ DOMAIN new = {"a", "b", "shown"} /\ new = [f \in {"a", "b", "shown"} |-> new[f]]
      /\ \A f \in {"a", "b", "shown"} : new[f] = IF f \in DOMAIN p THEN p[f] ELSE d[f]
    BY <1>1, <1>2 DEF Data!Onto
<1> HIDE DEF new
<1>4. new.shown = d.shown /\ new.a \in {0, 1} /\ new.b \in {0, 1}
    BY <1>1, <1>2, <1>3
<1>5. new \in Data!Docs
    BY <1>2, <1>3, <1>4 DEF Data!Docs
<1> QED BY <1>1, <1>3, <1>4, <1>5 DEF new

LEMMA ActionFields ==
    ASSUME NEW x \in Actions
    PROVE  /\ x.op \in {"create", "update", "delete"} /\ x.id \in Nat
           /\ x = [op |-> x.op, id |-> x.id, payload |-> x.payload, before |-> x.before, after |-> x.after]
           /\ x.op = "create" => x.before = <<>> /\ x.payload = <<>> /\ x.after \in Data!Docs
           /\ x.op # "create" => x.before \in Data!Docs /\ x.id \in Data!DocIds
           /\ x.op = "update" => x.payload \in Data!Payloads /\ x.after = Data!Onto(x.before, x.payload)
           /\ x.op = "delete" => x.payload = <<>> /\ x.after = Data!Hidden(x.before)
<1>1. CASE x \in Creations
    <2>1. PICK id \in Data!DocIds \cup {0}, d \in Data!NewDocs : x = Data!Action("create", id, <<>>, <<>>, d)
        BY <1>1 DEF Creations
    <2>2. id \in Nat /\ d \in Data!Docs
        <3>1. d \in Data!Docs
            BY DEF Data!NewDocs, Data!Docs
        <3> QED BY <3>1 DEF Data!DocIds
    <2> QED BY <2>1, <2>2 DEF Data!Action
<1>2. CASE x \in Updates
    <2>1. PICK id \in Data!DocIds, p \in Data!Payloads, d \in Data!Docs : x = Data!Action("update", id, p, d, Data!Onto(d, p))
        BY <1>2 DEF Updates
    <2>2. id \in Nat
        BY DEF Data!DocIds
    <2> QED BY <2>1, <2>2 DEF Data!Action
<1>3. CASE x \in Deletions
    <2>1. PICK id \in Data!DocIds, d \in Data!Docs : x = Data!Action("delete", id, <<>>, d, Data!Hidden(d))
        BY <1>3 DEF Deletions
    <2>2. id \in Nat
        BY DEF Data!DocIds
    <2> QED BY <2>1, <2>2 DEF Data!Action
<1> QED BY <1>1, <1>2, <1>3 DEF Actions
-----------------------------------------------------------------------------
(* What a turn proposes. *)

LEMMA ProposableIsGood ==
    ASSUME DataInv, turn.on, NEW x \in Data!Proposable
    PROVE  /\ x \in Actions
           /\ x.op = "create" => (x.id = 0 <=> ServerIds)
           /\ calm => FreshAction(x)
<1>0. /\ \A id \in DOMAIN docs : id \in Data!DocIds /\ docs[id] \in Data!Docs
      /\ options.ids \in {"client", "server"}
      /\ calm => turn.schema = schema
    BY DEF DataInv, OptionsInv, TurnInv, GoodDocs
<1>1. CASE x \in Data!CreateActions
    <2>1. PICK id \in IF options.ids = "client" THEN Data!DocIds \ DOMAIN docs ELSE {0}, d \in Data!NewDocs :
             Data!Satisfies(turn.schema, d) /\ x = Data!Action("create", id, <<>>, <<>>, d)
        BY <1>1 DEF Data!CreateActions
    <2>2. id \in Data!DocIds \cup {0} /\ (id = 0 <=> ServerIds) /\ id \notin DOMAIN docs
        BY <1>0, <2>1 DEF ServerIds, Data!DocIds
    <2>3. x \in Creations
        BY <2>1, <2>2 DEF Creations
    <2>4. x.op = "create" /\ x.id = id /\ x.after = d
        BY <2>1 DEF Data!Action
    <2> QED BY <1>0, <2>1, <2>2, <2>3, <2>4 DEF Actions, FreshAction
<1>2. CASE x \in Data!UpdateActions /\ Data!Satisfies(turn.schema, x.after)
    <2>1. PICK id \in DOMAIN docs, p \in Data!Payloads : x = Data!Action("update", id, p, docs[id], Data!Onto(docs[id], p))
        BY <1>2 DEF Data!UpdateActions
    <2>2. x \in Updates
        BY <1>0, <2>1 DEF Updates
    <2>3. x.op = "update" /\ x.id = id /\ x.before = docs[id]
        BY <2>1 DEF Data!Action
    <2> QED BY <1>0, <1>2, <2>2, <2>3 DEF Actions, FreshAction
<1>3. CASE x \in Data!DeleteActions
    <2>1. PICK id \in DOMAIN docs : x = Data!Action("delete", id, <<>>, docs[id], Data!Hidden(docs[id]))
        BY <1>3 DEF Data!DeleteActions
    <2>2. x \in Deletions
        BY <1>0, <2>1 DEF Deletions
    <2>3. x.op = "delete" /\ x.id = id /\ x.before = docs[id]
        BY <2>1 DEF Data!Action
    <2> QED BY <2>2, <2>3 DEF Actions, FreshAction
<1> QED BY <1>1, <1>2, <1>3 DEF Data!Proposable

(* Two updates of a record are one update of it. *)
LEMMA MergedIsAnUpdate ==
    ASSUME NEW x \in Actions, NEW y \in Actions, Data!SameUpdate(x, y)
    PROVE  /\ Data!Merged(x, y) \in Actions /\ Data!Merged(x, y).op = "update"
           /\ Data!Merged(x, y).id = x.id /\ Data!Merged(x, y).before = x.before
           /\ Data!Merged(x, y).after["a"] \in {x.after["a"], y.after["a"]}
<1>1. /\ x.op = "update" /\ y.op = "update" /\ x.id \in Data!DocIds
      /\ x.before \in Data!Docs /\ x.payload \in Data!Payloads /\ x.after = Data!Onto(x.before, x.payload)
      /\ y.before \in Data!Docs /\ y.payload \in Data!Payloads /\ y.after = Data!Onto(y.before, y.payload)
    BY ActionFields DEF Data!SameUpdate
<1> DEFINE p == Data!Onto(x.payload, y.payload)
           sent == [f \in DOMAIN y.payload |-> y.after[f]]
           z == Data!Onto(x.after, sent)
<1>2. /\ x.payload \in [DOMAIN x.payload -> {0, 1}] /\ DOMAIN x.payload \in (SUBSET {"a", "b"}) \ {{}}
      /\ y.payload \in [DOMAIN y.payload -> {0, 1}] /\ DOMAIN y.payload \in (SUBSET {"a", "b"}) \ {{}}
    BY <1>1 DEF Data!Payloads, Data!Fields
<1>3. p \in Data!Payloads
    <2>1. /\ DOMAIN p = DOMAIN x.payload \cup DOMAIN y.payload /\ p = [f \in DOMAIN p |-> p[f]]
          /\ \A f \in DOMAIN p : p[f] \in {0, 1}
        BY <1>2 DEF Data!Onto
    <2> HIDE DEF p
    <2>2. p \in [DOMAIN p -> {0, 1}] /\ DOMAIN p \in (SUBSET {"a", "b"}) \ {{}}
        BY <1>2, <2>1
    <2> QED BY <2>2 DEF Data!Payloads, Data!Fields
<1>4. \A f \in DOMAIN y.payload : sent[f] = y.payload[f]
    BY <1>1, <1>2, OntoIsADoc
<1>5. z = Data!Onto(x.before, p)
    <2>1. DOMAIN x.before = {"a", "b", "shown"}
        BY <1>1 DEF Data!Docs
    <2>2. /\ DOMAIN x.after = DOMAIN x.before \cup DOMAIN x.payload
          /\ \A f \in DOMAIN x.after : x.after[f] = IF f \in DOMAIN x.payload THEN x.payload[f] ELSE x.before[f]
        BY <1>1 DEF Data!Onto
    <2>3. /\ DOMAIN z = {"a", "b", "shown"} /\ z = [f \in {"a", "b", "shown"} |-> z[f]]
          /\ \A f \in {"a", "b", "shown"} : z[f] = IF f \in DOMAIN y.payload THEN y.payload[f] ELSE x.after[f]
        BY <1>2, <1>4, <2>1, <2>2 DEF Data!Onto
    <2> DEFINE w == Data!Onto(x.before, p)
    <2>4. /\ DOMAIN p = DOMAIN x.payload \cup DOMAIN y.payload
          /\ \A f \in DOMAIN p : p[f] = IF f \in DOMAIN y.payload THEN y.payload[f] ELSE x.payload[f]
        BY DEF Data!Onto
    <2> HIDE DEF p, z, sent
    <2>5. /\ DOMAIN w = {"a", "b", "shown"} /\ w = [f \in {"a", "b", "shown"} |-> w[f]]
          /\ \A f \in {"a", "b", "shown"} : w[f] = IF f \in DOMAIN p THEN p[f] ELSE x.before[f]
        BY <1>2, <2>1, <2>4 DEF Data!Onto
    <2> HIDE DEF w
    <2>6. \A f \in {"a", "b", "shown"} : w[f] = z[f]
        BY <2>1, <2>2, <2>3, <2>4, <2>5
    <2>7. w = z
        BY <2>3, <2>5, <2>6
    <2> QED BY <2>7 DEF w
<1>6. x = [op |-> "update", id |-> x.id, payload |-> x.payload, before |-> x.before, after |-> x.after]
    BY <1>1, ActionFields
<1>7. Data!Merged(x, y) = [op |-> "update", id |-> x.id, payload |-> p, before |-> x.before, after |-> z]
    BY DEF Data!Merged, Data!Action
<1>8. z["a"] \in {x.after["a"], y.after["a"]}
    <2>1. x.after["a"] = x.after["a"] /\ DOMAIN x.after = {"a", "b", "shown"}
        BY <1>1, OntoIsADoc DEF Data!Docs
    <2> QED BY <1>2, <2>1 DEF Data!Onto
<1> HIDE DEF p, z, sent
<1>9. Data!Action("update", x.id, p, x.before, Data!Onto(x.before, p)) \in Updates
    BY <1>1, <1>3 DEF Updates
<1>10. Data!Merged(x, y) \in Actions
    BY <1>5, <1>7, <1>9 DEF Data!Action, Actions
<1> QED BY <1>7, <1>8, <1>10

LEMMA ProposedIsGood ==
    ASSUME NEW list, GoodList(list), NEW x \in Actions, x.op = "create" => (x.id = 0 <=> ServerIds),
           NEW new, new = Data!Proposed(list, x)
    PROVE  GoodList(new) /\ (Fresh(list) /\ FreshAction(x) => Fresh(new))
<1>0. list \in Seq(Actions) /\ Len(list) \in Nat /\ DOMAIN list = 1..Len(list)
    BY DEF GoodList
<1>1. CASE \E i \in DOMAIN list : Data!SameUpdate(list[i], x)
    <2>1. ~Data!MadeBefore(list, x)
        BY <1>1 DEF Data!MadeBefore, Data!SameUpdate
    <2>2. /\ DOMAIN new = 1..Len(list) /\ new = [i \in 1..Len(list) |-> new[i]]
          /\ \A i \in DOMAIN list : new[i] = IF Data!SameUpdate(list[i], x) THEN Data!Merged(list[i], x) ELSE list[i]
        BY <1>0, <1>1, <2>1 DEF Data!Proposed
    <2>3. ASSUME NEW i \in DOMAIN list
          PROVE  /\ new[i] \in Actions /\ new[i].op = list[i].op /\ new[i].id = list[i].id
                 /\ new[i] # list[i] => list[i].op = "update" /\ Data!SameUpdate(list[i], x)
                 /\ FreshAction(list[i]) /\ FreshAction(x) => FreshAction(new[i])
        <3>1. list[i] \in Actions
            BY <1>0
        <3>2. CASE Data!SameUpdate(list[i], x)
            <4>1. /\ Data!Merged(list[i], x) \in Actions /\ Data!Merged(list[i], x).op = "update"
                  /\ Data!Merged(list[i], x).id = list[i].id /\ Data!Merged(list[i], x).before = list[i].before
                  /\ Data!Merged(list[i], x).after["a"] \in {list[i].after["a"], x.after["a"]}
                BY <3>1, <3>2, MergedIsAnUpdate
            <4>2. new[i] = Data!Merged(list[i], x) /\ list[i].op = "update" /\ x.op = "update"
                BY <2>2, <3>2 DEF Data!SameUpdate
            <4> QED BY <3>2, <4>1, <4>2 DEF FreshAction, Data!Satisfies
        <3> QED BY <2>2, <3>1, <3>2
    <2>4. new \in Seq(Actions)
        <3>1. new \in [1..Len(list) -> Actions]
            BY <1>0, <2>2, <2>3
        <3> QED BY <1>0, <3>1, ASequence
    <2>5. \A i, j \in DOMAIN new : i # j =>
            /\ new[i] # new[j] /\ ~Data!SameUpdate(new[i], new[j])
            /\ new[i].op = "create" /\ new[j].op = "create" /\ new[i].id # 0 => new[i].id # new[j].id
        <3> SUFFICES ASSUME NEW i \in DOMAIN list, NEW j \in DOMAIN list, i # j
                     PROVE  /\ new[i] # new[j] /\ ~Data!SameUpdate(new[i], new[j])
                            /\ new[i].op = "create" /\ new[j].op = "create" /\ new[i].id # 0 => new[i].id # new[j].id
            BY <1>0, <2>2
        <3>1. /\ list[i] # list[j] /\ ~Data!SameUpdate(list[i], list[j])
              /\ list[i].op = "create" /\ list[j].op = "create" /\ list[i].id # 0 => list[i].id # list[j].id
            BY DEF GoodList
        <3> QED BY <2>3, <3>1 DEF Data!SameUpdate
    <2>6. \A i \in DOMAIN new : new[i].op = "create" => (new[i].id = 0 <=> ServerIds)
        BY <1>0, <2>2, <2>3 DEF GoodList
    <2>7. Fresh(list) /\ FreshAction(x) => Fresh(new)
        BY <1>0, <2>2, <2>3 DEF Fresh
    <2> QED BY <2>4, <2>5, <2>6, <2>7 DEF GoodList
<1>2. CASE new = list
    BY <1>2
<1>3. CASE /\ new = Append(list, x) /\ \A i \in DOMAIN list : list[i] # x /\ ~Data!SameUpdate(list[i], x)
           /\ ~Data!MadeBefore(list, x)
    <2>1. /\ new \in Seq(Actions) /\ DOMAIN new = 1..(Len(list) + 1) /\ new[Len(list) + 1] = x
          /\ \A i \in 1..Len(list) : new[i] = list[i]
        BY <1>0, <1>3
    <2>2. \A i \in DOMAIN new : (i \in DOMAIN list /\ new[i] = list[i]) \/ (i \notin DOMAIN list /\ new[i] = x)
        BY <1>0, <2>1
    <2>3. \A i, j \in DOMAIN new : i \notin DOMAIN list /\ j \notin DOMAIN list => i = j
        BY <1>0, <2>1
    <2>4. \A i \in DOMAIN list : /\ list[i] # x /\ ~Data!SameUpdate(list[i], x) /\ ~Data!SameUpdate(x, list[i])
                                 /\ list[i].op = "create" /\ x.op = "create" /\ x.id # 0 => list[i].id # x.id
        BY <1>3 DEF Data!SameUpdate, Data!MadeBefore
    <2>5. /\ \A i, j \in DOMAIN list : i # j =>
               /\ list[i] # list[j] /\ ~Data!SameUpdate(list[i], list[j])
               /\ list[i].op = "create" /\ list[j].op = "create" /\ list[i].id # 0 => list[i].id # list[j].id
          /\ \A i \in DOMAIN list : list[i].op = "create" => (list[i].id = 0 <=> ServerIds)
        BY DEF GoodList
    <2>6. \A i, j \in DOMAIN new : i # j =>
            /\ new[i] # new[j] /\ ~Data!SameUpdate(new[i], new[j])
            /\ new[i].op = "create" /\ new[j].op = "create" /\ new[i].id # 0 => new[i].id # new[j].id
        <3> SUFFICES ASSUME NEW i \in DOMAIN new, NEW j \in DOMAIN new, i # j
                     PROVE  /\ new[i] # new[j] /\ ~Data!SameUpdate(new[i], new[j])
                            /\ new[i].op = "create" /\ new[j].op = "create" /\ new[i].id # 0 => new[i].id # new[j].id
            OBVIOUS
        <3>1. CASE i \in DOMAIN list /\ j \in DOMAIN list
            BY <2>2, <2>5, <3>1
        <3>2. CASE i \in DOMAIN list /\ new[j] = x
            BY <2>2, <2>4, <3>2
        <3>3. CASE new[i] = x /\ j \in DOMAIN list
            BY <2>2, <2>4, <3>3
        <3> QED BY <2>2, <2>3, <3>1, <3>2, <3>3
    <2>7. \A i \in DOMAIN new : new[i].op = "create" => (new[i].id = 0 <=> ServerIds)
        BY <2>2, <2>5
    <2>8. Fresh(list) /\ FreshAction(x) => Fresh(new)
        BY <2>2 DEF Fresh
    <2> QED BY <2>1, <2>6, <2>7, <2>8 DEF GoodList
<1> QED BY <1>1, <1>2, <1>3 DEF Data!Proposed
-----------------------------------------------------------------------------
(* A card's transaction, an action at a time. *)

IsApplied(list, tx, n) ==
    tx = [i \in 0..n |-> IF i = 0 THEN Data!Begun ELSE Data!ApplyAction(tx[i - 1], list[i])]

LEMMA AppliedExists ==
    ASSUME NEW list, NEW N \in Nat
    PROVE  \E tx : IsApplied(list, tx, N)
<1> DEFINE G == {n \in Nat : \E tx : IsApplied(list, tx, n)}
<1>1. 0 \in G
    <2>1. IsApplied(list, [i \in 0..0 |-> Data!Begun], 0)
        BY DEF IsApplied
    <2> QED BY <2>1
<1>2. ASSUME NEW m \in Nat, m \in G PROVE m + 1 \in G
    <2>1. PICK tx : IsApplied(list, tx, m)
        BY <1>2
    <2> DEFINE n == m + 1
               more == [i \in 0..n |-> IF i = n THEN Data!ApplyAction(tx[m], list[n]) ELSE tx[i]]
    <2>2. \A i \in 0..n : more[i] = IF i = 0 THEN Data!Begun ELSE Data!ApplyAction(more[i - 1], list[i])
        <3> TAKE i \in 0..n
        <3>1. CASE i = n
            <4>1. more[i] = Data!ApplyAction(tx[m], list[n]) /\ more[i - 1] = tx[m] /\ i # 0
                BY <3>1
            <4> QED BY <3>1, <4>1
        <3>2. CASE i # n
            <4>1. i \in 0..m /\ more[i] = tx[i]
                BY <3>2
            <4>2. tx[i] = IF i = 0 THEN Data!Begun ELSE Data!ApplyAction(tx[i - 1], list[i])
                BY <2>1, <4>1 DEF IsApplied
            <4>3. i # 0 => more[i - 1] = tx[i - 1]
                BY <4>1
            <4> QED BY <4>1, <4>2, <4>3
        <3> QED BY <3>1, <3>2
    <2>3. more = [i \in 0..n |-> more[i]]
        OBVIOUS
    <2> HIDE DEF more
    <2>4. more = [i \in 0..n |-> IF i = 0 THEN Data!Begun ELSE Data!ApplyAction(more[i - 1], list[i])]
        BY <2>2, <2>3
    <2> QED BY <2>4 DEF IsApplied
<1> HIDE DEF G
<1>3. Nat \subseteq G
    BY <1>1, <1>2, EveryNumber
<1> QED BY <1>3 DEF G

LEMMA AppliedInSteps ==
    ASSUME NEW list, Len(list) \in Nat
    PROVE  /\ Data!AppliedTo(list)[0] = Data!Begun
           /\ \A i \in 1..Len(list) : Data!AppliedTo(list)[i] = Data!ApplyAction(Data!AppliedTo(list)[i - 1], list[i])
<1>1. PICK tx : IsApplied(list, tx, Len(list))
    BY AppliedExists
<1>2. \E tx_ : tx_ = [i \in 0..Len(list) |-> IF i = 0 THEN Data!Begun ELSE Data!ApplyAction(tx_[i - 1], list[i])]
    BY <1>1 DEF IsApplied
<1>3. Data!AppliedTo(list) = [i \in 0..Len(list) |->
           IF i = 0 THEN Data!Begun ELSE Data!ApplyAction(Data!AppliedTo(list)[i - 1], list[i])]
    BY <1>2, Zenon DEF Data!AppliedTo
<1> QED BY <1>3

GoodTx(tx) ==
    /\ tx = [ok |-> tx.ok, docs |-> tx.docs, counter |-> tx.counter, drawn |-> tx.drawn, touched |-> tx.touched]
    /\ tx.ok \in BOOLEAN
    /\ tx.docs \in [DOMAIN tx.docs -> Data!Docs]
    /\ \E b \in Nat : DOMAIN tx.docs \subseteq 1..b
    /\ GoodNumbers(tx.counter, tx.drawn)

(* What an action of a list makes of the documents, when it is not refused. *)
Made(tx, x, new) ==
    \E id \in Nat \ {0} :
       /\ id \notin DOMAIN tx.docs /\ (~ServerIds => id = x.id)
       /\ Data!Satisfies(schema, x.after)
       /\ new.docs = Data!With(tx.docs, id, x.after) /\ new.touched = tx.touched

Rewrote(tx, x, new) ==
    /\ Data!Current(tx, x) /\ new.touched = tx.touched \cup {x.id}
    /\ \/ x.op = "delete" /\ ~options.soft /\ new.docs = Data!Without(tx.docs, x.id)
       \/ /\ x.op = "delete" => options.soft
          /\ Data!Satisfies(schema, Data!Becomes(tx.docs[x.id], x))
          /\ new.docs = Data!With(tx.docs, x.id, Data!Becomes(tx.docs[x.id], x))

Effect(tx, x, new) == tx.ok /\ (IF x.op = "create" THEN Made(tx, x, new) ELSE Rewrote(tx, x, new))

LEMMA LargestIsThere ==
    ASSUME NEW S, NEW b \in Nat, S \subseteq 1..b
    PROVE  Data!Largest(S) \in 0..b /\ \A n \in S : n <= Data!Largest(S)
<1>1. S \cup {0} \in SUBSET (0..b) /\ S \cup {0} # {}
    OBVIOUS
<1>2. PICK m \in S \cup {0} : \A n \in S \cup {0} : n <= m
    BY <1>1, GreatestIsThere
<1>3. \A n \in S : n <= m
    BY <1>2
<1>4. Data!Largest(S) \in S \cup {0} /\ \A n \in S : n <= Data!Largest(S)
    BY <1>3 DEF Data!Largest
<1> QED BY <1>1, <1>4

(* The next number is drawn for the first time and names no record. *)
LEMMA NextIdIsNew ==
    ASSUME NEW tx, GoodTx(tx), NEW id, id = Data!NextId(tx.counter, Data!Largest(DOMAIN tx.docs))
    PROVE  id \in Nat \ {0} /\ id \notin DOMAIN tx.docs /\ GoodNumbers(id, Append(tx.drawn, id))
<1>1. PICK b \in Nat : DOMAIN tx.docs \subseteq 1..b
    BY DEF GoodTx
<1> DEFINE floor == Data!Largest(DOMAIN tx.docs)
<1>2. floor \in Nat /\ \A n \in DOMAIN tx.docs : n <= floor
    <2>1. floor \in 0..b /\ \A n \in DOMAIN tx.docs : n <= floor
        BY <1>1, LargestIsThere
    <2> HIDE DEF floor
    <2> QED BY <2>1
<1>3. tx.counter \in Nat /\ tx.drawn \in Seq(1..tx.counter) /\ \A i, j \in DOMAIN tx.drawn : i # j => tx.drawn[i] # tx.drawn[j]
    BY DEF GoodTx, GoodNumbers
<1> HIDE DEF floor
<1>4. id \in Nat \ {0} /\ id > tx.counter /\ id > floor
    BY <1>2, <1>3 DEF Data!NextId, floor
<1>5. id \notin DOMAIN tx.docs
    <2>1. ~(id <= floor)
        BY <1>2, <1>4
    <2> QED BY <1>2, <2>1
<1>6. GoodNumbers(id, Append(tx.drawn, id))
    <2> DEFINE more == Append(tx.drawn, id)
    <2>1. tx.drawn \in Seq(1..id)
        <3>1. \A i \in DOMAIN tx.drawn : tx.drawn[i] \in 1..id
            BY <1>3, <1>4
        <3> QED BY <1>3, <3>1, SequenceOf
    <2>2. more \in Seq(1..id) /\ Len(tx.drawn) \in Nat
        BY <1>4, <2>1
    <2>3. \A i \in DOMAIN more : \/ i \in DOMAIN tx.drawn /\ more[i] = tx.drawn[i] /\ more[i] <= tx.counter
                                 \/ i = Len(tx.drawn) + 1 /\ more[i] = id
        BY <1>3, <1>4, <2>1, <2>2
    <2>4. \A i, j \in DOMAIN more : i # j => more[i] # more[j]
        BY <1>3, <1>4, <2>3
    <2> QED BY <1>4, <2>2, <2>4 DEF GoodNumbers
<1> QED BY <1>4, <1>5, <1>6
-----------------------------------------------------------------------------
LEMMA HiddenIsADoc ==
    ASSUME NEW d \in Data!Docs
    PROVE  /\ Data!Hidden(d) \in Data!Docs /\ Data!Hidden(d)["shown"] = FALSE
           /\ Data!Hidden(d)["a"] = d["a"] /\ Data!Hidden(d)["b"] = d["b"]
<1> QED BY DEF Data!Hidden, Data!Docs

LEMMA BecomesADoc ==
    ASSUME NEW x \in Actions, x.op # "create", NEW d \in Data!Docs
    PROVE  Data!Becomes(d, x) \in Data!Docs
<1>1. x.op = "update" => x.payload \in Data!Payloads
    BY ActionFields
<1> QED BY <1>1, OntoIsADoc, HiddenIsADoc DEF Data!Becomes

LEMMA WithIsDocs ==
    ASSUME NEW f, f \in [DOMAIN f -> Data!Docs], NEW b \in Nat, DOMAIN f \subseteq 1..b,
           NEW id \in Nat \ {0}, NEW d \in Data!Docs, NEW g, g = Data!With(f, id, d)
    PROVE  /\ g \in [DOMAIN g -> Data!Docs] /\ DOMAIN g = DOMAIN f \cup {id} /\ DOMAIN g \subseteq 1..(b + id)
           /\ g[id] = d /\ \A i \in DOMAIN f \ {id} : g[i] = f[i]
<1> HIDE DEF Data!Docs
<1>1. g = [i \in DOMAIN f \cup {id} |-> IF i = id THEN d ELSE f[i]]
    BY DEF Data!With
<1> QED BY <1>1

(* The rows of a transaction after one action: what it says, or a refusal. *)
TxOf(ok, rows, count, ids, touched) ==
    [ok |-> ok, docs |-> rows, counter |-> count, drawn |-> ids, touched |-> touched]

(* The action is one that no step of the transaction refuses. *)
Passes(tx, x) ==
    /\ tx.ok
    /\ x.op = "create" => /\ Data!Satisfies(schema, x.after)
                          /\ ~ServerIds => x.id \notin DOMAIN tx.docs
    /\ x.op # "create" => /\ Data!Current(tx, x)
                          /\ \/ x.op = "delete" /\ ~options.soft
                             \/ Data!Satisfies(schema, Data!Becomes(tx.docs[x.id], x))

LEMMA StepOfACard ==
    ASSUME NEW tx, GoodTx(tx), NEW x \in Actions, x.op = "create" => (x.id = 0 <=> ServerIds),
           options.soft \in BOOLEAN, NEW new, new = Data!ApplyAction(tx, x)
    PROVE  /\ GoodTx(new)
           /\ new.ok => Effect(tx, x, new)
           /\ Passes(tx, x) => new.ok
<1>1. /\ tx = TxOf(tx.ok, tx.docs, tx.counter, tx.drawn, tx.touched) /\ tx.ok \in BOOLEAN
      /\ tx.docs \in [DOMAIN tx.docs -> Data!Docs] /\ GoodNumbers(tx.counter, tx.drawn)
    BY DEF GoodTx, TxOf
<1>2. PICK b \in Nat : DOMAIN tx.docs \subseteq 1..b
    BY DEF GoodTx
<1>3. /\ x.op \in {"create", "update", "delete"} /\ x.id \in Nat
      /\ x.op = "create" => x.after \in Data!Docs
      /\ x.op # "create" => x.before \in Data!Docs
    BY ActionFields
<1>4. Data!Refused(tx) = TxOf(FALSE, tx.docs, tx.counter, tx.drawn, tx.touched)
    <2>1. Data!Refused(tx) = [tx EXCEPT !.ok = FALSE]
        BY DEF Data!Refused
    <2>2. tx = [ok |-> tx.ok, docs |-> tx.docs, counter |-> tx.counter, drawn |-> tx.drawn, touched |-> tx.touched]
        BY <1>1 DEF TxOf
    <2> QED BY <2>1, <2>2 DEF TxOf
<1>5. GoodTx(Data!Refused(tx)) /\ ~Data!Refused(tx).ok
    BY <1>1, <1>2, <1>4 DEF GoodTx, TxOf
<1>6. CASE ~tx.ok
    BY <1>1, <1>6 DEF Data!ApplyAction, Passes
<1>7. CASE tx.ok /\ x.op = "create"
    <2>1. PICK id : id = IF options.ids = "server" THEN Data!NextId(tx.counter, Data!Largest(DOMAIN tx.docs)) ELSE x.id
        OBVIOUS
    <2>2. new = IF id \in DOMAIN tx.docs \/ ~Data!Allowed(x.after) THEN Data!Refused(tx)
                ELSE [tx EXCEPT !.docs = Data!With(@, id, x.after),
                                !.counter = IF options.ids = "server" THEN id ELSE @,
                                !.drawn = IF options.ids = "server" THEN Append(@, id) ELSE @]
        BY <1>7, <2>1 DEF Data!ApplyAction, Data!ApplyCreate
    <2>3. id \in Nat \ {0} /\ (ServerIds => id \notin DOMAIN tx.docs /\ GoodNumbers(id, Append(tx.drawn, id)))
          /\ (~ServerIds => id = x.id)
        <3>1. CASE ServerIds
            BY <2>1, <3>1, NextIdIsNew DEF ServerIds
        <3>2. CASE ~ServerIds
            BY <1>3, <1>7, <2>1, <3>2 DEF ServerIds
        <3> QED BY <3>1, <3>2
    <2>4. CASE id \in DOMAIN tx.docs \/ ~Data!Allowed(x.after)
        <3>1. new = Data!Refused(tx)
            BY <2>2, <2>4
        <3>2. ~Passes(tx, x)
            BY <1>7, <2>3, <2>4 DEF Passes, Data!Allowed
        <3> QED BY <1>5, <3>1, <3>2
    <2>5. CASE id \notin DOMAIN tx.docs /\ Data!Allowed(x.after)
        <3> DEFINE rows == Data!With(tx.docs, id, x.after)
                   count == IF options.ids = "server" THEN id ELSE tx.counter
                   ids == IF options.ids = "server" THEN Append(tx.drawn, id) ELSE tx.drawn
        <3>1. /\ rows \in [DOMAIN rows -> Data!Docs] /\ DOMAIN rows \subseteq 1..(b + id)
            <4>1. rows = Data!With(tx.docs, id, x.after) /\ tx.docs \in [DOMAIN tx.docs -> Data!Docs]
                BY <1>1
            <4>2. x.after \in Data!Docs
                BY <1>3, <1>7
            <4> HIDE DEF rows
            <4> QED BY <1>2, <2>3, <4>1, <4>2, WithIsDocs
        <3>2. GoodNumbers(count, ids)
            BY <1>1, <2>3 DEF ServerIds
        <3>3. new = [tx EXCEPT !.docs = rows, !.counter = count, !.drawn = ids]
            BY <2>2, <2>5
        <3> HIDE DEF rows, count, ids
        <3>4. new = TxOf(TRUE, rows, count, ids, tx.touched)
            BY <1>1, <1>7, <3>3 DEF TxOf
        <3>5. b + id \in Nat
            BY <2>3
        <3>6. GoodTx(new) /\ new.ok /\ new.docs = rows /\ new.touched = tx.touched
            BY <3>1, <3>2, <3>4, <3>5 DEF GoodTx, TxOf
        <3>7. Made(tx, x, new)
            BY <2>3, <2>5, <3>6 DEF Made, rows, Data!Allowed
        <3> QED BY <1>7, <3>6, <3>7 DEF Effect
    <2> QED BY <2>4, <2>5
<1>8. CASE tx.ok /\ x.op # "create" /\ ~Data!Current(tx, x)
    <2>1. new = Data!Refused(tx) /\ ~Passes(tx, x)
        BY <1>8 DEF Data!ApplyAction, Passes
    <2> QED BY <1>5, <2>1
<1>9. CASE tx.ok /\ x.op # "create" /\ Data!Current(tx, x)
    <2>1. x.id \in DOMAIN tx.docs /\ tx.docs[x.id] \in Data!Docs /\ x.id \in Nat \ {0}
        BY <1>1, <1>2, <1>9 DEF Data!Current
    <2>2. CASE x.op = "delete" /\ ~options.soft
        <3> DEFINE rows == Data!Without(tx.docs, x.id)
        <3>1. new = [tx EXCEPT !.docs = rows, !.touched = @ \cup {x.id}]
            BY <1>9, <2>2 DEF Data!ApplyAction
        <3>2. rows \in [DOMAIN rows -> Data!Docs] /\ DOMAIN rows \subseteq 1..b
            <4>0. rows = Data!Without(tx.docs, x.id) /\ tx.docs \in [DOMAIN tx.docs -> Data!Docs]
                BY <1>1
            <4> HIDE DEF rows
            <4>1. rows \in [DOMAIN rows -> Data!Docs] /\ DOMAIN rows = DOMAIN tx.docs \ {x.id}
                BY <4>0 DEF Data!Without
            <4> QED BY <1>2, <4>1
        <3> HIDE DEF rows
        <3>3. new = TxOf(TRUE, rows, tx.counter, tx.drawn, tx.touched \cup {x.id})
            BY <1>1, <1>9, <3>1 DEF TxOf
        <3>4. GoodTx(new) /\ new.ok /\ new.docs = rows /\ new.touched = tx.touched \cup {x.id}
            BY <1>1, <3>2, <3>3 DEF GoodTx, TxOf
        <3>5. Rewrote(tx, x, new)
            BY <1>9, <2>2, <3>4 DEF Rewrote, rows
        <3> QED BY <1>9, <3>4, <3>5 DEF Effect
    <2>3. CASE ~(x.op = "delete" /\ ~options.soft)
        <3> DEFINE doc == Data!Becomes(tx.docs[x.id], x)
                   rows == Data!With(tx.docs, x.id, doc)
        <3>1. doc \in Data!Docs
            BY <1>9, <2>1, BecomesADoc
        <3>2. new = IF ~Data!Allowed(doc) THEN Data!Refused(tx)
                    ELSE [tx EXCEPT !.docs = rows, !.touched = @ \cup {x.id}]
            BY <1>9, <2>3 DEF Data!ApplyAction, Data!ApplyChange
        <3>3. CASE ~Data!Allowed(doc)
            <4>1. new = Data!Refused(tx) /\ ~Passes(tx, x)
                BY <1>9, <2>3, <3>2, <3>3 DEF Passes, Data!Allowed
            <4> QED BY <1>5, <4>1
        <3>4. CASE Data!Allowed(doc)
            <4> HIDE DEF doc
            <4>0. rows = Data!With(tx.docs, x.id, doc) /\ tx.docs \in [DOMAIN tx.docs -> Data!Docs]
                BY <1>1
            <4>2. new = [tx EXCEPT !.docs = rows, !.touched = @ \cup {x.id}]
                BY <3>2, <3>4
            <4> HIDE DEF rows
            <4>1. /\ rows \in [DOMAIN rows -> Data!Docs] /\ DOMAIN rows \subseteq 1..(b + x.id)
                BY <1>2, <2>1, <3>1, <4>0, WithIsDocs
            <4>3. new = TxOf(TRUE, rows, tx.counter, tx.drawn, tx.touched \cup {x.id})
                BY <1>1, <1>9, <4>2 DEF TxOf
            <4>4. b + x.id \in Nat
                BY <2>1
            <4>5. GoodTx(new) /\ new.ok /\ new.docs = rows /\ new.touched = tx.touched \cup {x.id}
                BY <1>1, <4>1, <4>3, <4>4 DEF GoodTx, TxOf
            <4>6. Rewrote(tx, x, new)
                BY <1>9, <2>3, <3>4, <4>5 DEF Rewrote, rows, doc, Data!Allowed
            <4> QED BY <1>9, <4>5, <4>6 DEF Effect
        <3> QED BY <3>3, <3>4
    <2> QED BY <2>2, <2>3
<1> QED BY <1>6, <1>7, <1>8, <1>9
-----------------------------------------------------------------------------
(* What every step of a transaction does. *)
Stepped(tx, x, new) == (new.ok => Effect(tx, x, new)) /\ (Passes(tx, x) => new.ok)

LEMMA OptionsAre ==
    ASSUME DataInv
    PROVE  options.soft \in BOOLEAN /\ (options.soft <=> ServerIds)
<1>1. \/ options = [soft |-> FALSE, ids |-> "client"]
      \/ options = [soft |-> TRUE, ids |-> "server"]
    BY DEF DataInv, OptionsInv
<1>2. CASE options = [soft |-> FALSE, ids |-> "client"]
    BY <1>2 DEF ServerIds
<1>3. CASE options = [soft |-> TRUE, ids |-> "server"]
    BY <1>3 DEF ServerIds
<1> QED BY <1>1, <1>2, <1>3

LEMMA BegunIsGood ==
    ASSUME DataInv
    PROVE  /\ GoodTx(Data!Begun) /\ Data!Begun.ok /\ Data!Begun.docs = docs /\ Data!Begun.touched = {}
<1>1. DOMAIN docs \subseteq 1..MaxId /\ docs \in [DOMAIN docs -> Data!Docs] /\ GoodNumbers(counter, drawn)
    BY DEF DataInv, GoodDocs, Data!DocIds
<1>2. MaxId \in Nat
    BY KernelBounds
<1> QED BY <1>1, <1>2 DEF GoodTx, Data!Begun

LEMMA RunOfACard ==
    ASSUME DataInv, NEW list, GoodList(list), NEW T, T = Data!AppliedTo(list)
    PROVE  /\ T[0] = Data!Begun /\ Data!Commit(list) = T[Len(list)] /\ Len(list) \in Nat
           /\ \A m \in Nat : m <= Len(list) => GoodTx(T[m])
           /\ \A m \in Nat : m + 1 <= Len(list) => Stepped(T[m], list[m + 1], T[m + 1])
<1>1. list \in Seq(Actions) /\ Len(list) \in Nat /\ DOMAIN list = 1..Len(list)
    BY DEF GoodList
<1>2. T[0] = Data!Begun /\ \A i \in 1..Len(list) : T[i] = Data!ApplyAction(T[i - 1], list[i])
    BY <1>1, AppliedInSteps
<1>3. ASSUME NEW m \in Nat, m + 1 <= Len(list), GoodTx(T[m])
      PROVE  GoodTx(T[m + 1]) /\ Stepped(T[m], list[m + 1], T[m + 1])
    <2>1. m + 1 \in 1..Len(list) /\ m + 1 - 1 = m
        BY <1>1, <1>3
    <2>2. T[m + 1] = Data!ApplyAction(T[m], list[m + 1])
        BY <1>2, <2>1
    <2>3. list[m + 1] \in Actions /\ (list[m + 1].op = "create" => (list[m + 1].id = 0 <=> ServerIds))
        BY <1>1, <2>1 DEF GoodList
    <2>4. options.soft \in BOOLEAN
        BY OptionsAre
    <2> QED BY <1>3, <2>2, <2>3, <2>4, StepOfACard DEF Stepped
<1> DEFINE G == {m \in Nat : m <= Len(list) => GoodTx(T[m])}
<1>4. 0 \in G
    BY <1>2, BegunIsGood
<1>5. ASSUME NEW m \in Nat, m \in G PROVE m + 1 \in G
    <2>1. m + 1 <= Len(list) => m <= Len(list)
        BY <1>1
    <2> QED BY <1>3, <1>5, <2>1
<1> HIDE DEF G
<1>6. Nat \subseteq G
    BY <1>4, <1>5, EveryNumber
<1>7. \A m \in Nat : m <= Len(list) => GoodTx(T[m])
    BY <1>6 DEF G
<1>8. \A m \in Nat : m + 1 <= Len(list) => Stepped(T[m], list[m + 1], T[m + 1])
    <2> TAKE m \in Nat
    <2>1. m + 1 <= Len(list) => m <= Len(list)
        BY <1>1
    <2> QED BY <1>3, <1>7, <2>1
<1> QED BY <1>1, <1>2, <1>7, <1>8 DEF Data!Commit

(* What an action that was not refused has done to the documents. *)
EffectRows(tx, x, new) ==
    /\ tx.ok
    /\ x.op = "create" =>
         \E id \in Nat \ {0} :
            /\ id \notin DOMAIN tx.docs /\ (~ServerIds => id = x.id) /\ Data!Satisfies(schema, x.after)
            /\ DOMAIN new.docs = DOMAIN tx.docs \cup {id} /\ new.docs[id] = x.after
            /\ \A i \in DOMAIN tx.docs : new.docs[i] = tx.docs[i]
            /\ new.touched = tx.touched
    /\ x.op # "create" =>
         /\ x.id \in DOMAIN tx.docs /\ (x.id \in tx.touched \/ tx.docs[x.id] = x.before)
         /\ new.touched = tx.touched \cup {x.id}
         /\ \A i \in DOMAIN tx.docs \ {x.id} : i \in DOMAIN new.docs /\ new.docs[i] = tx.docs[i]
         /\ DOMAIN new.docs = IF x.op = "delete" /\ ~options.soft THEN DOMAIN tx.docs \ {x.id}
                              ELSE DOMAIN tx.docs
         /\ ~(x.op = "delete" /\ ~options.soft) =>
              new.docs[x.id] = Data!Becomes(tx.docs[x.id], x) /\ Data!Satisfies(schema, new.docs[x.id])

LEMMA EffectOnDocs ==
    ASSUME NEW tx, GoodTx(tx), NEW x, NEW new, Effect(tx, x, new)
    PROVE  EffectRows(tx, x, new)
<1>1. tx.ok
    BY DEF Effect
<1>2. CASE x.op = "create"
    <2>1. PICK id \in Nat \ {0} :
             /\ id \notin DOMAIN tx.docs /\ (~ServerIds => id = x.id) /\ Data!Satisfies(schema, x.after)
             /\ new.docs = Data!With(tx.docs, id, x.after) /\ new.touched = tx.touched
        BY <1>2 DEF Effect, Made
    <2>2. /\ DOMAIN new.docs = DOMAIN tx.docs \cup {id} /\ new.docs[id] = x.after
          /\ \A i \in DOMAIN tx.docs : new.docs[i] = tx.docs[i]
        BY <2>1 DEF Data!With
    <2> QED BY <1>1, <1>2, <2>1, <2>2 DEF EffectRows
<1>3. CASE x.op # "create"
    <2>1. Rewrote(tx, x, new)
        BY <1>3 DEF Effect
    <2>2. /\ x.id \in DOMAIN tx.docs /\ (x.id \in tx.touched \/ tx.docs[x.id] = x.before)
          /\ new.touched = tx.touched \cup {x.id}
        BY <2>1 DEF Rewrote, Data!Current
    <2>3. CASE x.op = "delete" /\ ~options.soft /\ new.docs = Data!Without(tx.docs, x.id)
        BY <1>1, <1>3, <2>2, <2>3 DEF Data!Without, EffectRows
    <2>4. CASE /\ x.op = "delete" => options.soft
               /\ Data!Satisfies(schema, Data!Becomes(tx.docs[x.id], x))
               /\ new.docs = Data!With(tx.docs, x.id, Data!Becomes(tx.docs[x.id], x))
        <3> DEFINE doc == Data!Becomes(tx.docs[x.id], x)
        <3> HIDE DEF doc
        <3>1. /\ Data!Satisfies(schema, doc) /\ new.docs = Data!With(tx.docs, x.id, doc)
            BY <2>4 DEF doc
        <3>2. /\ DOMAIN new.docs = DOMAIN tx.docs /\ new.docs[x.id] = doc
              /\ \A i \in DOMAIN tx.docs \ {x.id} : new.docs[i] = tx.docs[i]
            BY <2>2, <3>1 DEF Data!With
        <3> QED BY <1>1, <1>3, <2>2, <2>4, <3>1, <3>2 DEF doc, EffectRows
    <2> QED BY <2>1, <2>3, <2>4 DEF Rewrote
<1> QED BY <1>2, <1>3
-----------------------------------------------------------------------------
(* The definition in force. *)
Obeys(tx) ==
    \A id \in DOMAIN tx.docs :
        (id \in DOMAIN docs /\ tx.docs[id] = docs[id]) \/ Data!Satisfies(schema, tx.docs[id])

LEMMA CardObeysTheSchema ==
    ASSUME DataInv, NEW list, GoodList(list), Data!Commit(list).ok
    PROVE  Obeys(Data!Commit(list))
<1> DEFINE T == Data!AppliedTo(list)
           G == {m \in Nat : m <= Len(list) /\ T[m].ok => Obeys(T[m])}
<1> HIDE DEF T
<1>1. /\ T[0] = Data!Begun /\ Data!Commit(list) = T[Len(list)] /\ Len(list) \in Nat
      /\ \A m \in Nat : m <= Len(list) => GoodTx(T[m])
      /\ \A m \in Nat : m + 1 <= Len(list) => Stepped(T[m], list[m + 1], T[m + 1])
    BY RunOfACard DEF T
<1>2. 0 \in G
    BY <1>1, BegunIsGood DEF Obeys
<1>3. ASSUME NEW m \in Nat, m \in G PROVE m + 1 \in G
    <2> SUFFICES ASSUME m + 1 <= Len(list), T[m + 1].ok PROVE Obeys(T[m + 1])
        OBVIOUS
    <2> DEFINE tx == T[m]
               x == list[m + 1]
               new == T[m + 1]
    <2>0. m <= Len(list)
        BY <1>1
    <2>1. GoodTx(tx) /\ Effect(tx, x, new)
        BY <1>1, <2>0 DEF Stepped
    <2>2. tx.ok /\ Obeys(tx)
        BY <1>3, <2>0, <2>1, EffectOnDocs DEF EffectRows
    <2> HIDE DEF tx, x, new
    <2>3. Obeys(new)
        <3>1. CASE x.op = "create"
            <4>1. PICK id \in Nat \ {0} :
                   /\ id \notin DOMAIN tx.docs /\ Data!Satisfies(schema, x.after)
                   /\ DOMAIN new.docs = DOMAIN tx.docs \cup {id} /\ new.docs[id] = x.after
                   /\ \A i \in DOMAIN tx.docs : new.docs[i] = tx.docs[i]
                BY <2>1, <3>1, EffectOnDocs DEF EffectRows
            <4> QED BY <2>2, <4>1 DEF Obeys
        <3>2. CASE x.op # "create"
            <4>1. /\ x.id \in DOMAIN tx.docs
                  /\ \A i \in DOMAIN tx.docs \ {x.id} : i \in DOMAIN new.docs /\ new.docs[i] = tx.docs[i]
                  /\ DOMAIN new.docs = IF x.op = "delete" /\ ~options.soft THEN DOMAIN tx.docs \ {x.id}
                                       ELSE DOMAIN tx.docs
                  /\ ~(x.op = "delete" /\ ~options.soft) => Data!Satisfies(schema, new.docs[x.id])
                BY <2>1, <3>2, EffectOnDocs DEF EffectRows
            <4> QED BY <2>2, <4>1 DEF Obeys
        <3> QED BY <3>1, <3>2
    <2> QED BY <2>3 DEF new
<1> HIDE DEF G
<1>4. Nat \subseteq G
    BY <1>2, <1>3, EveryNumber
<1> QED BY <1>1, <1>4 DEF G
-----------------------------------------------------------------------------
(* What a card showed. *)
MineIn(list, id) == {i \in DOMAIN list : list[i].id = id}
OneCopy(list, id) == \A i, j \in MineIn(list, id) : list[i].before = list[j].before

(* A record some actions of the card are about, all against one copy of it,  *)
(* after the first m of the card's actions.                                  *)
ShownSoFar(list, id, tx, m) ==
    LET done == {i \in MineIn(list, id) : i <= m}
    IN  /\ (\A i \in MineIn(list, id) : list[i].op = "delete" => options.soft) => id \in DOMAIN tx.docs
        /\ \A i \in done : list[i].op # "create"
        /\ done = {} => id \notin tx.touched /\ id \in DOMAIN tx.docs
        /\ done # {} => \A i \in MineIn(list, id) : list[i].before = docs[id]
        /\ id \in DOMAIN tx.docs =>
             /\ \A f \in {"a", "b"} :
                  /\ \A i \in done : list[i].op = "update" => tx.docs[id][f] = list[i].after[f]
                  /\ (\A i \in done : list[i].op # "update") => tx.docs[id][f] = docs[id][f]
             /\ \A i \in done : list[i].op = "delete" => options.soft /\ tx.docs[id]["shown"] = FALSE
             /\ (\A i \in done : list[i].op # "delete") => tx.docs[id]["shown"] = docs[id]["shown"]

LEMMA ShownStepByStep ==
    ASSUME DataInv, NEW list, GoodList(list), NEW id \in DOMAIN docs, OneCopy(list, id),
           NEW m \in Nat, m + 1 \in DOMAIN list,
           NEW tx, GoodTx(tx), ShownSoFar(list, id, tx, m),
           NEW new, GoodTx(new), Effect(tx, list[m + 1], new)
    PROVE  ShownSoFar(list, id, new, m + 1)
<1> DEFINE x == list[m + 1]
           Mine == MineIn(list, id)
           done == {i \in Mine : i <= m}
           next == {i \in Mine : i <= m + 1}
<1>0. /\ list \in Seq(Actions) /\ \A i \in DOMAIN list : i \in Nat
      /\ options.soft \in BOOLEAN /\ (options.soft <=> ServerIds)
      /\ id \in Nat \ {0} /\ docs[id] \in Data!Docs
    <2>1. options.soft \in BOOLEAN /\ (options.soft <=> ServerIds)
        BY OptionsAre
    <2>2. id \in Nat \ {0} /\ docs[id] \in Data!Docs
        BY DEF DataInv, GoodDocs, Data!DocIds
    <2>3. list \in Seq(Actions) /\ \A i \in DOMAIN list : i \in Nat
        BY DEF GoodList
    <2> QED BY <2>1, <2>2, <2>3
<1>1. /\ x \in Actions /\ \A i \in Mine : i \in DOMAIN list /\ list[i] \in Actions /\ list[i].id = id
      /\ x.op = "create" => (x.id = 0 <=> ServerIds)
    BY <1>0 DEF MineIn, GoodList
<1>2. /\ (\A i \in Mine : list[i].op = "delete" => options.soft) => id \in DOMAIN tx.docs
      /\ \A i \in done : list[i].op # "create"
      /\ done = {} => id \notin tx.touched /\ id \in DOMAIN tx.docs
      /\ done # {} => \A i \in Mine : list[i].before = docs[id]
      /\ id \in DOMAIN tx.docs =>
             /\ \A f \in {"a", "b"} :
                  /\ \A i \in done : list[i].op = "update" => tx.docs[id][f] = list[i].after[f]
                  /\ (\A i \in done : list[i].op # "update") => tx.docs[id][f] = docs[id][f]
             /\ \A i \in done : list[i].op = "delete" => options.soft /\ tx.docs[id]["shown"] = FALSE
             /\ (\A i \in done : list[i].op # "delete") => tx.docs[id]["shown"] = docs[id]["shown"]
    BY DEF ShownSoFar
<1>3. EffectRows(tx, x, new)
    BY EffectOnDocs
<1>4. \A i \in Mine : i <= m + 1 <=> (i <= m \/ i = m + 1)
    BY <1>0, <1>1
<1>5. CASE x.id # id
    <2>1. next = done
        BY <1>1, <1>4, <1>5
    <2>2. /\ new.touched \subseteq tx.touched \cup {x.id}
          /\ id \in DOMAIN tx.docs <=> id \in DOMAIN new.docs
          /\ id \in DOMAIN tx.docs => new.docs[id] = tx.docs[id]
        <3>1. CASE x.op = "create"
            <4>1. PICK new_id \in Nat \ {0} :
                   /\ new_id \notin DOMAIN tx.docs /\ (~ServerIds => new_id = x.id)
                   /\ DOMAIN new.docs = DOMAIN tx.docs \cup {new_id}
                   /\ \A i \in DOMAIN tx.docs : new.docs[i] = tx.docs[i]
                   /\ new.touched = tx.touched
                BY <1>3, <3>1 DEF EffectRows
            <4>2. new_id # id
                BY <1>0, <1>2, <1>5, <4>1
            <4> QED BY <4>1, <4>2
        <3>2. CASE x.op # "create"
            <4>1. /\ new.touched = tx.touched \cup {x.id}
                  /\ \A i \in DOMAIN tx.docs \ {x.id} : i \in DOMAIN new.docs /\ new.docs[i] = tx.docs[i]
                  /\ DOMAIN new.docs \subseteq DOMAIN tx.docs
                BY <1>3, <3>2 DEF EffectRows
            <4> QED BY <1>5, <4>1
        <3> QED BY <3>1, <3>2
    <2> HIDE DEF done, Mine, x
    <2>3. ShownSoFar(list, id, new, m + 1) <=>
              /\ (\A i \in Mine : list[i].op = "delete" => options.soft) => id \in DOMAIN new.docs
              /\ \A i \in done : list[i].op # "create"
              /\ done = {} => id \notin new.touched /\ id \in DOMAIN new.docs
              /\ done # {} => \A i \in Mine : list[i].before = docs[id]
              /\ id \in DOMAIN new.docs =>
                     /\ \A f \in {"a", "b"} :
                          /\ \A i \in done : list[i].op = "update" => new.docs[id][f] = list[i].after[f]
                          /\ (\A i \in done : list[i].op # "update") => new.docs[id][f] = docs[id][f]
                     /\ \A i \in done : list[i].op = "delete" => options.soft /\ new.docs[id]["shown"] = FALSE
                     /\ (\A i \in done : list[i].op # "delete") => new.docs[id]["shown"] = docs[id]["shown"]
        BY <2>1 DEF ShownSoFar, Mine
    <2> QED BY <1>2, <1>5, <2>2, <2>3
<1>6. CASE x.id = id
    <2>1. /\ m + 1 \in Mine /\ next = done \cup {m + 1} /\ m + 1 \notin done
        BY <1>0, <1>1, <1>4, <1>6 DEF MineIn
    <2>2. x.op # "create"
        <3> SUFFICES ASSUME x.op = "create" PROVE FALSE
            OBVIOUS
        <3>1. x.before = <<>>
            BY <1>1, ActionFields
        <3>2. \A i \in Mine : list[i].before = <<>>
            BY <2>1, <3>1 DEF OneCopy
        <3>3. \A i \in Mine : list[i].op = "create"
            <4> TAKE i \in Mine
            <4>1. list[i].op # "create" => list[i].before \in Data!Docs
                BY <1>1, ActionFields
            <4>2. <<>> \notin Data!Docs
                BY DEF Data!Docs
            <4> QED BY <3>2, <4>1, <4>2
        <3>4. id \in DOMAIN tx.docs
            BY <1>2, <3>3
        <3>5. \E new_id \in Nat \ {0} : new_id \notin DOMAIN tx.docs /\ (~ServerIds => new_id = x.id)
            BY <1>3 DEF EffectRows
        <3> QED BY <1>0, <1>1, <1>6, <3>4, <3>5
    <2>3. /\ x.id \in DOMAIN tx.docs /\ (x.id \in tx.touched \/ tx.docs[x.id] = x.before)
          /\ DOMAIN new.docs = IF x.op = "delete" /\ ~options.soft THEN DOMAIN tx.docs \ {x.id}
                               ELSE DOMAIN tx.docs
          /\ ~(x.op = "delete" /\ ~options.soft) => new.docs[x.id] = Data!Becomes(tx.docs[x.id], x)
        BY <1>3, <2>2 DEF EffectRows
    <2>4. /\ x.op \in {"update", "delete"} /\ x.before \in Data!Docs
          /\ x.op = "update" => x.payload \in Data!Payloads /\ x.after = Data!Onto(x.before, x.payload)
        BY <1>1, <2>2, ActionFields
    <2>5. tx.docs[id] \in Data!Docs
        BY <1>6, <2>3 DEF GoodTx
    <2>6. x.before = docs[id] /\ \A i \in Mine : list[i].before = docs[id]
        <3>1. CASE done # {}
            BY <1>2, <2>1, <3>1
        <3>2. CASE done = {}
            <4>1. tx.docs[id] = x.before
                BY <1>2, <1>6, <2>3, <3>2
            <4>2. \A f \in {"a", "b", "shown"} : tx.docs[id][f] = docs[id][f]
                BY <1>2, <1>6, <2>3, <3>2
            <4>3. tx.docs[id] = docs[id]
                BY <1>0, <2>5, <4>2 DEF Data!Docs
            <4>4. \A i \in Mine : list[i].before = x.before
                BY <2>1 DEF OneCopy
            <4> QED BY <4>1, <4>3, <4>4
        <3> QED BY <3>1, <3>2
    <2>7. \A i \in done : list[i].op # "update" \/ x.op # "update"
        <3> TAKE i \in done
        <3>1. i \in DOMAIN list /\ i # m + 1 /\ list[i].id = x.id
            BY <1>1, <1>6, <2>1
        <3>2. ~Data!SameUpdate(list[i], x)
            BY <3>1 DEF GoodList
        <3> QED BY <3>1, <3>2 DEF Data!SameUpdate
    <2>8. id \in DOMAIN new.docs =>
             /\ \A f \in {"a", "b"} :
                  /\ x.op = "update" => new.docs[id][f] = x.after[f]
                  /\ x.op # "update" => new.docs[id][f] = tx.docs[id][f]
             /\ x.op = "delete" => new.docs[id]["shown"] = FALSE
             /\ x.op # "delete" => new.docs[id]["shown"] = tx.docs[id]["shown"]
        <3> SUFFICES ASSUME id \in DOMAIN new.docs
                     PROVE  /\ \A f \in {"a", "b"} :
                                 /\ x.op = "update" => new.docs[id][f] = x.after[f]
                                 /\ x.op # "update" => new.docs[id][f] = tx.docs[id][f]
                            /\ x.op = "delete" => new.docs[id]["shown"] = FALSE
                            /\ x.op # "delete" => new.docs[id]["shown"] = tx.docs[id]["shown"]
            OBVIOUS
        <3>1. new.docs[id] = Data!Becomes(tx.docs[id], x)
            BY <1>6, <2>3
        <3>2. CASE x.op = "delete"
            <4>1. new.docs[id] = Data!Hidden(tx.docs[id])
                BY <3>1, <3>2 DEF Data!Becomes
            <4>2. /\ new.docs[id]["shown"] = FALSE
                  /\ new.docs[id]["a"] = tx.docs[id]["a"] /\ new.docs[id]["b"] = tx.docs[id]["b"]
                BY <2>5, <4>1, HiddenIsADoc
            <4>3. \A f \in {"a", "b"} : new.docs[id][f] = tx.docs[id][f]
                BY <4>2
            <4>4. x.op = "delete" /\ x.op # "update"
                BY <3>2
            <4> QED BY <4>2, <4>3, <4>4, Zenon
        <3>3. CASE x.op = "update"
            <4>1. new.docs[id] = Data!Onto(tx.docs[id], x.payload)
                BY <3>1, <3>3 DEF Data!Becomes
            <4>2. /\ new.docs[id].shown = tx.docs[id].shown
                  /\ \A f \in {"a", "b"} : new.docs[id][f] = IF f \in DOMAIN x.payload THEN x.payload[f] ELSE tx.docs[id][f]
                BY <2>4, <2>5, <3>3, <4>1, OntoIsADoc
            <4>3. \A f \in {"a", "b"} : x.after[f] = IF f \in DOMAIN x.payload THEN x.payload[f] ELSE docs[id][f]
                BY <1>0, <2>4, <2>6, <3>3, OntoIsADoc
            <4>4. \A f \in {"a", "b"} : tx.docs[id][f] = docs[id][f]
                BY <1>2, <1>6, <2>3, <2>7, <3>3
            <4>5. \A f \in {"a", "b"} : new.docs[id][f] = x.after[f]
                BY <4>2, <4>3, <4>4
            <4>6. x.op = "update" /\ x.op # "delete" /\ new.docs[id]["shown"] = tx.docs[id]["shown"]
                BY <3>3, <4>2
            <4> QED BY <4>5, <4>6, Zenon
        <3> QED BY <2>4, <3>2, <3>3
    <2> HIDE DEF done, Mine, x
    <2>9. ShownSoFar(list, id, new, m + 1) <=>
              /\ (\A i \in Mine : list[i].op = "delete" => options.soft) => id \in DOMAIN new.docs
              /\ \A i \in done \cup {m + 1} : list[i].op # "create"
              /\ done \cup {m + 1} = {} => id \notin new.touched /\ id \in DOMAIN new.docs
              /\ done \cup {m + 1} # {} => \A i \in Mine : list[i].before = docs[id]
              /\ id \in DOMAIN new.docs =>
                     /\ \A f \in {"a", "b"} :
                          /\ \A i \in done \cup {m + 1} : list[i].op = "update" => new.docs[id][f] = list[i].after[f]
                          /\ (\A i \in done \cup {m + 1} : list[i].op # "update") => new.docs[id][f] = docs[id][f]
                     /\ \A i \in done \cup {m + 1} : list[i].op = "delete" => options.soft /\ new.docs[id]["shown"] = FALSE
                     /\ (\A i \in done \cup {m + 1} : list[i].op # "delete") => new.docs[id]["shown"] = docs[id]["shown"]
        BY <2>1 DEF ShownSoFar, Mine
    <2>10. (\A i \in Mine : list[i].op = "delete" => options.soft) => id \in DOMAIN new.docs
        BY <1>6, <2>1, <2>3 DEF x
    <2>11. ASSUME id \in DOMAIN new.docs
           PROVE  /\ \A f \in {"a", "b"} :
                       /\ \A i \in done \cup {m + 1} : list[i].op = "update" => new.docs[id][f] = list[i].after[f]
                       /\ (\A i \in done \cup {m + 1} : list[i].op # "update") => new.docs[id][f] = docs[id][f]
                  /\ \A i \in done \cup {m + 1} : list[i].op = "delete" => options.soft /\ new.docs[id]["shown"] = FALSE
                  /\ (\A i \in done \cup {m + 1} : list[i].op # "delete") => new.docs[id]["shown"] = docs[id]["shown"]
        <3>1. list[m + 1] = x /\ id \in DOMAIN tx.docs
            BY <1>6, <2>3 DEF x
        <3>2. CASE x.op = "update"
            BY <1>2, <2>7, <2>8, <2>11, <3>1, <3>2
        <3>3. CASE x.op = "delete"
            <4>1. options.soft
                BY <1>6, <2>3, <2>11, <3>3
            <4> QED BY <1>2, <2>8, <2>11, <3>1, <3>3, <4>1
        <3> QED BY <2>4, <3>2, <3>3
    <2>12. \A i \in done \cup {m + 1} : list[i].op # "create"
        BY <1>2, <2>2 DEF x
    <2> QED BY <2>6, <2>9, <2>10, <2>11, <2>12
<1> QED BY <1>5, <1>6
LEMMA CardShowedItAll ==
    ASSUME DataInv, NEW list, GoodList(list), Data!Commit(list).ok,
           NEW id \in DOMAIN docs, OneCopy(list, id)
    PROVE  ShownSoFar(list, id, Data!Commit(list), Len(list))
<1> DEFINE T == Data!AppliedTo(list)
           G == {m \in Nat : m <= Len(list) /\ T[m].ok => ShownSoFar(list, id, T[m], m)}
<1> HIDE DEF T
<1>1. /\ T[0] = Data!Begun /\ Data!Commit(list) = T[Len(list)] /\ Len(list) \in Nat
      /\ \A m \in Nat : m <= Len(list) => GoodTx(T[m])
      /\ \A m \in Nat : m + 1 <= Len(list) => Stepped(T[m], list[m + 1], T[m + 1])
    BY RunOfACard DEF T
<1>2. list \in Seq(Actions) /\ DOMAIN list = 1..Len(list)
    BY DEF GoodList
<1>3. 0 \in G
    <2>1. {i \in MineIn(list, id) : i <= 0} = {}
        BY <1>1, <1>2 DEF MineIn
    <2>2. T[0].docs = docs /\ T[0].touched = {}
        BY <1>1, BegunIsGood
    <2> QED BY <2>1, <2>2 DEF ShownSoFar
<1>4. ASSUME NEW m \in Nat, m \in G PROVE m + 1 \in G
    <2> SUFFICES ASSUME m + 1 <= Len(list), T[m + 1].ok PROVE ShownSoFar(list, id, T[m + 1], m + 1)
        OBVIOUS
    <2>1. m <= Len(list) /\ m + 1 \in DOMAIN list
        BY <1>1, <1>2
    <2>2. GoodTx(T[m]) /\ GoodTx(T[m + 1]) /\ Effect(T[m], list[m + 1], T[m + 1])
        BY <1>1, <2>1 DEF Stepped
    <2>3. ShownSoFar(list, id, T[m], m)
        BY <1>4, <2>1, <2>2 DEF Effect
    <2> QED BY <2>1, <2>2, <2>3, ShownStepByStep
<1> HIDE DEF G
<1>5. Nat \subseteq G
    BY <1>3, <1>4, EveryNumber
<1> QED BY <1>1, <1>5 DEF G

(* What an action shows. *)
LEMMA WhatAnActionShows ==
    ASSUME NEW x \in Actions, x.op # "create"
    PROVE  /\ \A f \in Data!Changes(x) : /\ x.after[f] # x.before[f]
                                         /\ f \in {"a", "b"} => x.op = "update"
                                         /\ f = "shown" => x.op = "delete" /\ options.soft
                                         /\ f \in {"a", "b", "shown"}
           /\ x.op = "update" => \A f \in {"a", "b"} \ Data!Changes(x) : x.after[f] = x.before[f]
           /\ x.op = "delete" /\ options.soft => x.after["shown"] = FALSE
                                                 /\ ("shown" \notin Data!Changes(x) => x.before["shown"] = FALSE)
<1>1. /\ x.op \in {"update", "delete"} /\ x.before \in Data!Docs
      /\ x.op = "update" => x.payload \in Data!Payloads /\ x.after = Data!Onto(x.before, x.payload)
      /\ x.op = "delete" => x.after = Data!Hidden(x.before)
    BY ActionFields
<1>2. Data!Changes(x) = IF x.op = "delete" /\ ~options.soft THEN {}
                        ELSE {f \in DOMAIN x.after : x.after[f] # x.before[f]}
    BY DEF Data!Changes
<1>3. x.after \in Data!Docs /\ DOMAIN x.after = {"a", "b", "shown"}
    <2>1. x.after \in Data!Docs
        <3>1. x.op = "update" => x.after \in Data!Docs
            BY <1>1, OntoIsADoc
        <3>2. x.op = "delete" => x.after \in Data!Docs
            BY <1>1, HiddenIsADoc
        <3> QED BY <1>1, <3>1, <3>2
    <2> QED BY <2>1 DEF Data!Docs
<1>4. CASE x.op = "update"
    <2>1. x.after["shown"] = x.before["shown"]
        BY <1>1, <1>4, OntoIsADoc
    <2> QED BY <1>2, <1>3, <1>4, <2>1
<1>5. CASE x.op = "delete"
    <2>1. x.after["a"] = x.before["a"] /\ x.after["b"] = x.before["b"] /\ x.after["shown"] = FALSE
        BY <1>1, <1>5, HiddenIsADoc
    <2> QED BY <1>2, <1>3, <1>5, <2>1
<1> QED BY <1>1, <1>4, <1>5

ShownAt(list, id, f) == {i \in DOMAIN list : Data!Shows(list[i], id, f)}

(* What CardAppliesAsShown asks of a record. *)
AsShown(list, id, rows) ==
    /\ \A i \in MineIn(list, id) : list[i].op # "create" =>
         \A f \in Data!Changes(list[i]) : list[i].before[f] = docs[id][f]
    /\ id \in DOMAIN rows =>
         \A f \in DOMAIN docs[id] :
            rows[id][f] = IF ShownAt(list, id, f) = {} THEN docs[id][f]
                          ELSE list[Data!Max(ShownAt(list, id, f))].after[f]

LEMMA CardDoesWhatItShowed ==
    ASSUME DataInv, NEW list, GoodList(list), Data!Commit(list).ok,
           NEW id \in DOMAIN docs, MineIn(list, id) # {}, OneCopy(list, id)
    PROVE  AsShown(list, id, Data!Commit(list).docs)
<1> DEFINE tx == Data!Commit(list)
           Mine == MineIn(list, id)
<1>1. list \in Seq(Actions) /\ Len(list) \in Nat /\ DOMAIN list = 1..Len(list)
    BY DEF GoodList
<1>2. /\ Mine = {i \in Mine : i <= Len(list)}
      /\ \A i \in Mine : i \in DOMAIN list /\ list[i] \in Actions /\ list[i].id = id
    BY <1>1 DEF MineIn
<1>3. ShownSoFar(list, id, tx, Len(list))
    BY CardShowedItAll
<1> HIDE DEF tx, Mine
<1>4. /\ \A i \in Mine : list[i].op # "create" /\ list[i].before = docs[id]
      /\ id \in DOMAIN tx.docs =>
             /\ \A f \in {"a", "b"} :
                  /\ \A i \in Mine : list[i].op = "update" => tx.docs[id][f] = list[i].after[f]
                  /\ (\A i \in Mine : list[i].op # "update") => tx.docs[id][f] = docs[id][f]
             /\ \A i \in Mine : list[i].op = "delete" => options.soft /\ tx.docs[id]["shown"] = FALSE
             /\ (\A i \in Mine : list[i].op # "delete") => tx.docs[id]["shown"] = docs[id]["shown"]
    BY <1>2, <1>3 DEF ShownSoFar, Mine
<1>5. \A i \in Mine : /\ \A f \in Data!Changes(list[i]) :
                            /\ list[i].after[f] # list[i].before[f]
                            /\ f \in {"a", "b"} => list[i].op = "update"
                            /\ f = "shown" => list[i].op = "delete" /\ options.soft
                            /\ f \in {"a", "b", "shown"}
                      /\ list[i].op = "update" =>
                            \A f \in {"a", "b"} \ Data!Changes(list[i]) : list[i].after[f] = list[i].before[f]
                      /\ list[i].op = "delete" /\ options.soft =>
                            /\ list[i].after["shown"] = FALSE
                            /\ "shown" \notin Data!Changes(list[i]) => list[i].before["shown"] = FALSE
    BY <1>2, <1>4, WhatAnActionShows
<1>6. DOMAIN docs[id] = {"a", "b", "shown"}
    <2>1. docs[id] \in Data!Docs
        BY DEF DataInv, GoodDocs
    <2> QED BY <2>1 DEF Data!Docs
<1>7. ASSUME id \in DOMAIN tx.docs, NEW f \in {"a", "b", "shown"}
      PROVE  tx.docs[id][f] = IF ShownAt(list, id, f) = {} THEN docs[id][f]
                              ELSE list[Data!Max(ShownAt(list, id, f))].after[f]
    <2> DEFINE at == ShownAt(list, id, f)
    <2>1. at = {i \in Mine : f \in Data!Changes(list[i])}
        BY DEF ShownAt, Data!Shows, Mine, MineIn
    <2>2. CASE at = {}
        <3>1. \A i \in Mine : f \notin Data!Changes(list[i])
            BY <2>1, <2>2
        <3>2. CASE f \in {"a", "b"}
            BY <1>4, <1>5, <1>7, <2>2, <3>1, <3>2
        <3>3. CASE f = "shown"
            BY <1>4, <1>5, <1>7, <2>2, <3>1, <3>3
        <3> QED BY <3>2, <3>3
    <2>3. CASE at # {}
        <3> DEFINE k == Data!Max(at)
        <3>1. k \in at
            <4>1. at \in SUBSET (0..Len(list))
                BY <1>1 DEF ShownAt
            <4> HIDE DEF at
            <4>2. Max(at) \in at
                BY <1>1, <2>3, <4>1, GreatestIsThere
            <4>3. Data!Max(at) = Max(at)
                BY DEF Data!Max, Max
            <4> QED BY <4>2, <4>3
        <3> HIDE DEF k
        <3>2. k \in Mine /\ f \in Data!Changes(list[k])
            BY <2>1, <3>1
        <3>3. tx.docs[id][f] = list[k].after[f]
            <4>1. CASE f \in {"a", "b"}
                BY <1>4, <1>5, <1>7, <3>2, <4>1
            <4>2. CASE f = "shown"
                BY <1>4, <1>5, <1>7, <3>2, <4>2
            <4> QED BY <4>1, <4>2
        <3> QED BY <2>3, <3>3 DEF k
    <2> QED BY <2>2, <2>3
<1> QED BY <1>4, <1>6, <1>7 DEF AsShown, Mine, tx
-----------------------------------------------------------------------------
(* A card proposed against what is stored, after the first m of its actions. *)
Confirmable(list, tx, m) ==
    /\ tx.ok
    /\ \A id \in DOMAIN docs :
         (\A i \in MineIn(list, id) : i <= m /\ list[i].op = "delete" => options.soft) => id \in DOMAIN tx.docs
    /\ \A id \in DOMAIN docs \cap DOMAIN tx.docs :
         /\ id \notin tx.touched => tx.docs[id] = docs[id]
         /\ tx.docs[id]["a"] = docs[id]["a"] \/ Data!Satisfies(schema, tx.docs[id])
    /\ ~ServerIds => \A id \in DOMAIN tx.docs \ DOMAIN docs :
                       \E i \in MineIn(list, id) : i <= m /\ list[i].op = "create"

LEMMA NextActionPasses ==
    ASSUME DataInv, NEW list, GoodList(list), Fresh(list),
           ~Data!Removed(list), ~Data!HidesInvalid(list),
           NEW m \in Nat, m + 1 \in DOMAIN list, NEW tx, GoodTx(tx), Confirmable(list, tx, m),
           NEW x, x = list[m + 1]
    PROVE  Passes(tx, x)
<1>1. /\ list \in Seq(Actions) /\ \A i \in DOMAIN list : i \in Nat
      /\ options.soft \in BOOLEAN /\ (options.soft <=> ServerIds)
    BY OptionsAre DEF GoodList
<1>2. /\ x \in Actions /\ FreshAction(x)
      /\ x.op = "create" => (x.id = 0 <=> ServerIds)
    BY <1>1 DEF Fresh, GoodList
<1>3. /\ tx.ok
      /\ \A id \in DOMAIN docs :
           (\A i \in MineIn(list, id) : i <= m /\ list[i].op = "delete" => options.soft) => id \in DOMAIN tx.docs
      /\ \A id \in DOMAIN docs \cap DOMAIN tx.docs :
           /\ id \notin tx.touched => tx.docs[id] = docs[id]
           /\ tx.docs[id]["a"] = docs[id]["a"] \/ Data!Satisfies(schema, tx.docs[id])
      /\ ~ServerIds => \A id \in DOMAIN tx.docs \ DOMAIN docs :
                         \E i \in MineIn(list, id) : i <= m /\ list[i].op = "create"
    BY DEF Confirmable
<1>4. CASE x.op = "create"
    <2>1. x.id \notin DOMAIN docs /\ Data!Satisfies(schema, x.after)
        BY <1>2, <1>4 DEF FreshAction
    <2>2. ASSUME ~ServerIds, x.id \in DOMAIN tx.docs PROVE FALSE
        <3>1. PICK i \in DOMAIN list : i <= m /\ list[i].op = "create" /\ list[i].id = x.id
            BY <1>3, <2>1, <2>2 DEF MineIn
        <3>2. i # m + 1 /\ list[i].id # 0
            BY <1>1, <1>2, <1>4, <2>2, <3>1
        <3>3. list[i].id # list[m + 1].id
            BY <1>4, <3>1, <3>2 DEF GoodList
        <3> QED BY <3>1, <3>3
    <2> QED BY <1>3, <1>4, <2>1, <2>2 DEF Passes
<1>5. CASE x.op # "create"
    <2>1. x.id \in DOMAIN docs /\ x.before = docs[x.id]
        BY <1>2, <1>5 DEF FreshAction
    <2>2. \A i \in MineIn(list, x.id) : i <= m /\ list[i].op = "delete" => options.soft
        <3> SUFFICES ASSUME NEW i \in DOMAIN list, list[i].id = x.id, i <= m, list[i].op = "delete"
                     PROVE  options.soft
            BY DEF MineIn
        <3>1. i < m + 1
            BY <1>1
        <3> QED BY <3>1 DEF Data!Removed
    <2>3. x.id \in DOMAIN tx.docs /\ (x.id \in tx.touched \/ tx.docs[x.id] = x.before)
        BY <1>3, <2>1, <2>2
    <2>4. tx.docs[x.id] \in Data!Docs
        BY <2>3 DEF GoodTx
    <2>5. \/ tx.docs[x.id]["a"] = x.before["a"]
          \/ schema = "filled" => tx.docs[x.id]["a"] # 0
        BY <1>3, <2>1, <2>3 DEF Data!Satisfies
    <2>6. CASE x.op = "update"
        <3>1. x.before \in Data!Docs /\ x.payload \in Data!Payloads /\ x.after = Data!Onto(x.before, x.payload)
            BY <1>2, <2>6, ActionFields
        <3>2. schema = "filled" => x.after["a"] # 0
            BY <1>2, <2>6 DEF FreshAction, Data!Satisfies
        <3>3. x.after["a"] = IF "a" \in DOMAIN x.payload THEN x.payload["a"] ELSE x.before["a"]
            BY <3>1, OntoIsADoc
        <3> DEFINE doc == Data!Becomes(tx.docs[x.id], x)
        <3>4. doc["a"] = IF "a" \in DOMAIN x.payload THEN x.payload["a"] ELSE tx.docs[x.id]["a"]
            <4>1. doc = Data!Onto(tx.docs[x.id], x.payload)
                BY <2>6 DEF Data!Becomes
            <4> QED BY <2>4, <3>1, <4>1, OntoIsADoc
        <3>5. schema = "filled" => doc["a"] # 0
            BY <2>5, <3>2, <3>3, <3>4
        <3>6. Data!Satisfies(schema, doc)
            BY <3>5 DEF Data!Satisfies
        <3> QED BY <1>3, <2>3, <2>6, <3>6 DEF Passes, Data!Current
    <2>7. CASE x.op = "delete" /\ options.soft
        <3>1. x.before \in Data!Docs /\ x.after = Data!Hidden(x.before)
            BY <1>2, <2>7, ActionFields
        <3>2. schema = "filled" => x.after["a"] # 0
            BY <2>7 DEF Data!HidesInvalid, Data!Satisfies
        <3> DEFINE doc == Data!Becomes(tx.docs[x.id], x)
        <3>3. doc["a"] = tx.docs[x.id]["a"] /\ x.after["a"] = x.before["a"]
            <4>1. doc = Data!Hidden(tx.docs[x.id])
                BY <2>7 DEF Data!Becomes
            <4> QED BY <2>4, <3>1, <4>1, HiddenIsADoc
        <3>4. schema = "filled" => doc["a"] # 0
            BY <2>5, <3>2, <3>3
        <3>5. Data!Satisfies(schema, doc)
            BY <3>4 DEF Data!Satisfies
        <3> QED BY <1>3, <2>3, <2>7, <3>5 DEF Passes, Data!Current
    <2>8. CASE x.op = "delete" /\ ~options.soft
        BY <1>3, <2>3, <2>8 DEF Passes, Data!Current
    <2>9. x.op \in {"create", "update", "delete"}
        BY <1>2, ActionFields
    <2> QED BY <1>5, <2>6, <2>7, <2>8, <2>9
<1> QED BY <1>4, <1>5

LEMMA ConfirmableStepByStep ==
    ASSUME DataInv, NEW list, GoodList(list), Fresh(list),
           NEW m \in Nat, m + 1 \in DOMAIN list, NEW tx, GoodTx(tx), Confirmable(list, tx, m),
           NEW new, new.ok, Effect(tx, list[m + 1], new)
    PROVE  Confirmable(list, new, m + 1)
<1> DEFINE x == list[m + 1]
<1>1. EffectRows(tx, x, new)
    BY EffectOnDocs
<1>2. \A i \in DOMAIN list : i \in Nat /\ (i <= m + 1 <=> (i <= m \/ i = m + 1))
    BY DEF GoodList
<1>3. m + 1 \in MineIn(list, x.id)
    BY DEF MineIn
<1>4. /\ \A id \in DOMAIN docs :
           (\A i \in MineIn(list, id) : i <= m /\ list[i].op = "delete" => options.soft) => id \in DOMAIN tx.docs
      /\ \A id \in DOMAIN docs \cap DOMAIN tx.docs :
           /\ id \notin tx.touched => tx.docs[id] = docs[id]
           /\ tx.docs[id]["a"] = docs[id]["a"] \/ Data!Satisfies(schema, tx.docs[id])
      /\ ~ServerIds => \A id \in DOMAIN tx.docs \ DOMAIN docs :
                         \E i \in MineIn(list, id) : i <= m /\ list[i].op = "create"
    BY DEF Confirmable
<1>5. /\ \A id : \A i \in MineIn(list, id) : i \in DOMAIN list
      /\ options.soft \in BOOLEAN /\ (options.soft <=> ServerIds)
    BY OptionsAre DEF MineIn
<1>6. x.op = "create" => x.id \notin DOMAIN docs
    BY DEF Fresh, FreshAction
<1>7. x = list[m + 1]
    OBVIOUS
<1> HIDE DEF x
<1>8. CASE x.op = "create"
    <2>1. PICK id \in Nat \ {0} :
                   /\ id \notin DOMAIN tx.docs /\ (~ServerIds => id = x.id) /\ Data!Satisfies(schema, x.after)
                   /\ DOMAIN new.docs = DOMAIN tx.docs \cup {id} /\ new.docs[id] = x.after
                   /\ \A i \in DOMAIN tx.docs : new.docs[i] = tx.docs[i]
                   /\ new.touched = tx.touched
        BY <1>1, <1>8 DEF EffectRows
    <2>2. \A d \in DOMAIN docs :
           (\A i \in MineIn(list, d) : i <= m + 1 /\ list[i].op = "delete" => options.soft) => d \in DOMAIN new.docs
        BY <1>2, <1>4, <1>5, <2>1
    <2>3. id \notin DOMAIN docs
        <3>1. CASE ServerIds
            BY <1>4, <1>5, <2>1, <3>1
        <3>2. CASE ~ServerIds
            BY <1>6, <1>8, <2>1, <3>2
        <3> QED BY <3>1, <3>2
    <2>4. \A d \in DOMAIN docs \cap DOMAIN new.docs :
           /\ d \notin new.touched => new.docs[d] = docs[d]
           /\ new.docs[d]["a"] = docs[d]["a"] \/ Data!Satisfies(schema, new.docs[d])
        BY <1>4, <2>1, <2>3
    <2>5. ~ServerIds => \A d \in DOMAIN new.docs \ DOMAIN docs :
                         \E i \in MineIn(list, d) : i <= m + 1 /\ list[i].op = "create"
        BY <1>2, <1>3, <1>4, <1>5, <1>7, <1>8, <2>1
    <2> QED BY <2>2, <2>4, <2>5 DEF Confirmable
<1>9. CASE x.op # "create"
    <2>1. /\ x.id \in DOMAIN tx.docs
          /\ new.touched = tx.touched \cup {x.id}
          /\ \A i \in DOMAIN tx.docs \ {x.id} : i \in DOMAIN new.docs /\ new.docs[i] = tx.docs[i]
          /\ DOMAIN new.docs = IF x.op = "delete" /\ ~options.soft THEN DOMAIN tx.docs \ {x.id}
                               ELSE DOMAIN tx.docs
          /\ ~(x.op = "delete" /\ ~options.soft) => Data!Satisfies(schema, new.docs[x.id])
        BY <1>1, <1>9 DEF EffectRows
    <2>2. \A d \in DOMAIN docs :
           (\A i \in MineIn(list, d) : i <= m + 1 /\ list[i].op = "delete" => options.soft) => d \in DOMAIN new.docs
        BY <1>2, <1>3, <1>4, <1>5, <1>7, <2>1
    <2>3. \A d \in DOMAIN docs \cap DOMAIN new.docs :
           /\ d \notin new.touched => new.docs[d] = docs[d]
           /\ new.docs[d]["a"] = docs[d]["a"] \/ Data!Satisfies(schema, new.docs[d])
        BY <1>4, <2>1
    <2>4. ~ServerIds => \A d \in DOMAIN new.docs \ DOMAIN docs :
                         \E i \in MineIn(list, d) : i <= m + 1 /\ list[i].op = "create"
        BY <1>2, <1>4, <1>5, <2>1
    <2> QED BY <2>2, <2>3, <2>4 DEF Confirmable
<1> QED BY <1>8, <1>9

LEMMA FreshCardIsConfirmed ==
    ASSUME DataInv, NEW list, GoodList(list), Fresh(list)
    PROVE  Data!Commit(list).ok \/ Data!Removed(list) \/ Data!HidesInvalid(list)
<1> SUFFICES ASSUME ~Data!Removed(list), ~Data!HidesInvalid(list) PROVE Data!Commit(list).ok
    OBVIOUS
<1> DEFINE T == Data!AppliedTo(list)
           G == {m \in Nat : m <= Len(list) => Confirmable(list, T[m], m)}
<1> HIDE DEF T
<1>1. /\ T[0] = Data!Begun /\ Data!Commit(list) = T[Len(list)] /\ Len(list) \in Nat
      /\ \A m \in Nat : m <= Len(list) => GoodTx(T[m])
      /\ \A m \in Nat : m + 1 <= Len(list) => Stepped(T[m], list[m + 1], T[m + 1])
    BY RunOfACard DEF T
<1>2. list \in Seq(Actions) /\ DOMAIN list = 1..Len(list)
    BY DEF GoodList
<1>3. 0 \in G
    <2>1. T[0].ok /\ T[0].docs = docs /\ T[0].touched = {}
        BY <1>1, BegunIsGood
    <2> QED BY <2>1 DEF Confirmable
<1>4. ASSUME NEW m \in Nat, m \in G PROVE m + 1 \in G
    <2> SUFFICES ASSUME m + 1 <= Len(list) PROVE Confirmable(list, T[m + 1], m + 1)
        OBVIOUS
    <2>1. m <= Len(list) /\ m + 1 \in DOMAIN list
        BY <1>1, <1>2
    <2>2. GoodTx(T[m]) /\ Confirmable(list, T[m], m) /\ Stepped(T[m], list[m + 1], T[m + 1])
        BY <1>1, <1>4, <2>1
    <2>3. Passes(T[m], list[m + 1])
        BY <2>1, <2>2, NextActionPasses
    <2>4. T[m + 1].ok /\ Effect(T[m], list[m + 1], T[m + 1])
        BY <2>2, <2>3 DEF Stepped
    <2> QED BY <2>1, <2>2, <2>4, ConfirmableStepByStep
<1> HIDE DEF G
<1>5. Nat \subseteq G
    BY <1>3, <1>4, EveryNumber
<1> QED BY <1>1, <1>5 DEF G, Confirmable
-----------------------------------------------------------------------------
(* What every step leaves. *)

LEMMA NoActionsAreGood == GoodList(<<>>) /\ Fresh(<<>>)
<1> QED BY DEF GoodList, Fresh

LEMMA TurnKept ==
    ASSUME TurnInv, UNCHANGED <<options, turn>>, calm' = FALSE \/ UNCHANGED <<schema, docs, calm>>
    PROVE  TurnInv'
<1>1. GoodList(turn.actions)'
    BY DEF TurnInv, GoodList, ServerIds
<1>2. CASE calm' = FALSE
    BY <1>1, <1>2 DEF TurnInv
<1>3. CASE UNCHANGED <<schema, docs, calm>>
    <2>1. Fresh(turn.actions) => Fresh(turn.actions)'
        BY <1>3 DEF Fresh, FreshAction
    <2> QED BY <1>1, <1>3, <2>1 DEF TurnInv
<1> QED BY <1>2, <1>3

LEMMA CardsFollow ==
    ASSUME NEW list, GoodCards(list), cards' = list, options' = options
    PROVE  GoodCards(cards)'
<1> QED BY DEF GoodCards, GoodList, ServerIds

LEMMA CardsSettled ==
    ASSUME GoodCards(cards), NEW c \in DOMAIN cards, NEW status \in {"committed", "cancelled"}
    PROVE  GoodCards([cards EXCEPT ![c] = Data!Settled(status)])
<1> DEFINE list == [cards EXCEPT ![c] = Data!Settled(status)]
           CardRows == [actions : Seq(Actions), status : {"pending", "committed", "cancelled"}]
<1>1. Data!Settled(status) \in CardRows /\ Data!Settled(status).actions = <<>>
    BY DEF Data!Settled
<1>2. cards \in Seq(CardRows) /\ \A i \in DOMAIN cards : GoodList(cards[i].actions)
    BY DEF GoodCards
<1> HIDE DEF CardRows
<1>3. list \in Seq(CardRows) /\ DOMAIN list = DOMAIN cards
    BY <1>1, <1>2
<1>4. \A i \in DOMAIN list : list[i] = IF i = c THEN Data!Settled(status) ELSE cards[i]
    BY <1>2
<1> HIDE DEF list
<1>5. \A i \in DOMAIN list : GoodList(list[i].actions)
    BY <1>1, <1>2, <1>3, <1>4, NoActionsAreGood
<1> QED BY <1>3, <1>5 DEF GoodCards, CardRows, list

LEMMA CardAppended ==
    ASSUME GoodCards(cards), NEW actions, GoodList(actions)
    PROVE  GoodCards(Append(cards, [actions |-> actions, status |-> "pending"]))
<1> DEFINE card == [actions |-> actions, status |-> "pending"]
           list == Append(cards, card)
           CardRows == [actions : Seq(Actions), status : {"pending", "committed", "cancelled"}]
<1>1. card \in CardRows /\ card.actions = actions
    BY DEF GoodList
<1>2. cards \in Seq(CardRows) /\ \A i \in DOMAIN cards : GoodList(cards[i].actions)
    BY DEF GoodCards
<1> HIDE DEF CardRows, card
<1>3. list \in Seq(CardRows) /\ \A i \in DOMAIN list : (i \in DOMAIN cards /\ list[i] = cards[i]) \/ list[i] = card
    BY <1>1, <1>2
<1> HIDE DEF list
<1>4. \A i \in DOMAIN list : GoodList(list[i].actions)
    BY <1>1, <1>2, <1>3
<1> QED BY <1>3, <1>4 DEF GoodCards, CardRows, list, card

(* The documents, the counter and the numbers drawn are those of a transaction. *)
LEMMA ConfirmKeeps ==
    ASSUME DataInv, NEW c \in DOMAIN cards, Data!ConfirmCard(c)
    PROVE  GoodDocs' /\ GoodNumbers(counter, drawn)'
<1> DEFINE list == cards[c].actions
           tx == Data!Commit(list)
<1>1. /\ Data!Largest(DOMAIN tx.docs) <= MaxId
      /\ docs' = tx.docs /\ counter' = tx.counter /\ drawn' = tx.drawn
    BY DEF Data!ConfirmCard
<1>2. GoodList(list)
    BY DEF DataInv, GoodCards
<1>3. GoodTx(tx)
    BY <1>2, RunOfACard
<1> HIDE DEF tx
<1>4. PICK b \in Nat : DOMAIN tx.docs \subseteq 1..b
    BY <1>3 DEF GoodTx
<1>5. DOMAIN tx.docs \subseteq 1..MaxId
    <2> DEFINE top == Data!Largest(DOMAIN tx.docs)
    <2>1. top \in 0..b /\ \A n \in DOMAIN tx.docs : n <= top
        BY <1>4, LargestIsThere
    <2> HIDE DEF top
    <2>2. top <= MaxId
        BY <1>1 DEF top
    <2>3. ASSUME NEW n \in DOMAIN tx.docs PROVE n \in 1..MaxId
        <3>1. n \in 1..b /\ n <= top
            BY <1>4, <2>1
        <3> QED BY <2>1, <2>2, <3>1, KernelBounds
    <2> QED BY <2>3
<1> QED BY <1>1, <1>3, <1>5 DEF GoodDocs, GoodNumbers, GoodTx, Data!DocIds

LEMMA ProposeKeeps ==
    ASSUME DataInv, NEW x \in Data!Proposable, Data!Propose(x)
    PROVE  TurnInv'
<1> DEFINE new == Data!Proposed(turn.actions, x)
<1>1. /\ turn.on /\ turn' = [turn EXCEPT !.actions = new] /\ UNCHANGED <<options, schema, docs, calm>>
    BY DEF Data!Propose
<1>2. /\ x \in Actions /\ (x.op = "create" => (x.id = 0 <=> ServerIds)) /\ (calm => FreshAction(x))
    BY <1>1, ProposableIsGood
<1>3. /\ GoodList(turn.actions) /\ turn = [on |-> turn.on, schema |-> turn.schema, actions |-> turn.actions]
      /\ calm => turn.schema = schema /\ Fresh(turn.actions)
    BY <1>1 DEF DataInv, TurnInv
<1>4. GoodList(new) /\ (Fresh(turn.actions) /\ FreshAction(x) => Fresh(new))
    BY <1>2, <1>3, ProposedIsGood
<1> HIDE DEF new
<1>5. turn' = [on |-> turn.on, schema |-> turn.schema, actions |-> new]
    BY <1>1, <1>3
<1>6. turn'.on = turn.on /\ turn'.schema = turn.schema /\ turn'.actions = new
    BY <1>5
<1>7. GoodList(turn.actions)'
    BY <1>1, <1>4, <1>6 DEF GoodList, ServerIds
<1>8. calm => Fresh(turn.actions)'
    BY <1>1, <1>2, <1>3, <1>4, <1>6 DEF Fresh, FreshAction
<1> QED BY <1>1, <1>3, <1>5, <1>6, <1>7, <1>8 DEF TurnInv

LEMMA DataStepKeeps ==
    ASSUME DataInv, Data!Next
    PROVE  DataInv'
<1>0. OptionsInv /\ GoodDocs /\ GoodNumbers(counter, drawn) /\ TurnInv /\ GoodCards(cards)
    BY DEF DataInv
<1>1. CASE Data!BeginTurn
    <2>1. /\ turn' = [on |-> TRUE, schema |-> schema, actions |-> <<>>]
          /\ UNCHANGED <<options, schema, docs, counter, drawn, cards>>
        BY <1>1 DEF Data!BeginTurn
    <2>2. TurnInv'
        BY <2>1, NoActionsAreGood DEF TurnInv, GoodList, Fresh
    <2> QED BY <1>0, <2>1, <2>2, CardsFollow DEF DataInv, OptionsInv, GoodDocs, GoodNumbers
<1>2. CASE Data!EndTurn
    <2>1. /\ cards' = IF turn.actions = <<>> THEN cards
                      ELSE Append(cards, [actions |-> turn.actions, status |-> "pending"])
          /\ turn' = [on |-> FALSE, schema |-> "open", actions |-> <<>>]
          /\ UNCHANGED <<options, schema, docs, counter, drawn>>
        BY <1>2 DEF Data!EndTurn, Data!NoTurn
    <2>2. TurnInv'
        BY <2>1 DEF TurnInv, GoodList, Fresh
    <2>3. GoodCards(Append(cards, [actions |-> turn.actions, status |-> "pending"]))
        BY <1>0, CardAppended DEF TurnInv
    <2>4. GoodCards(cards)'
        BY <1>0, <2>1, <2>3, CardsFollow
    <2> QED BY <1>0, <2>1, <2>2, <2>4 DEF DataInv, OptionsInv, GoodDocs, GoodNumbers
<1>3. ASSUME NEW x \in Data!Proposable, Data!Propose(x) PROVE DataInv'
    <2>1. UNCHANGED <<options, docs, counter, drawn, cards>>
        BY <1>3 DEF Data!Propose
    <2>2. TurnInv'
        BY <1>3, ProposeKeeps
    <2> QED BY <1>0, <2>1, <2>2, CardsFollow DEF DataInv, OptionsInv, GoodDocs, GoodNumbers
<1>4. ASSUME NEW c \in DOMAIN cards, Data!ConfirmCard(c) PROVE DataInv'
    <2>1. /\ cards' = [cards EXCEPT ![c] = Data!Settled("committed")]
          /\ calm' = FALSE /\ UNCHANGED <<options, schema, turn>>
        BY <1>4 DEF Data!ConfirmCard
    <2>2. GoodDocs' /\ GoodNumbers(counter, drawn)'
        BY <1>4, ConfirmKeeps
    <2>3. GoodCards([cards EXCEPT ![c] = Data!Settled("committed")])
        BY <1>0, CardsSettled
    <2>4. GoodCards(cards)' /\ TurnInv'
        BY <1>0, <2>1, <2>3, CardsFollow, TurnKept
    <2> QED BY <1>0, <2>1, <2>2, <2>4 DEF DataInv, OptionsInv
<1>5. ASSUME NEW c \in DOMAIN cards, Data!CancelCard(c) PROVE DataInv'
    <2>1. /\ cards' = [cards EXCEPT ![c] = Data!Settled("cancelled")]
          /\ UNCHANGED <<options, schema, docs, counter, drawn, turn, calm>>
        BY <1>5 DEF Data!CancelCard
    <2>2. GoodCards([cards EXCEPT ![c] = Data!Settled("cancelled")])
        BY <1>0, CardsSettled
    <2>3. GoodCards(cards)' /\ TurnInv'
        BY <1>0, <2>1, <2>2, CardsFollow, TurnKept
    <2> QED BY <1>0, <2>1, <2>3 DEF DataInv, OptionsInv, GoodDocs, GoodNumbers
<1>6. ASSUME NEW sch, NEW force, Data!PutCollection(sch, force) PROVE DataInv'
    <2>1. calm' = FALSE /\ UNCHANGED <<options, docs, counter, drawn, turn, cards>>
        BY <1>6 DEF Data!PutCollection
    <2>2. GoodCards(cards)' /\ TurnInv'
        BY <1>0, <2>1, CardsFollow, TurnKept
    <2> QED BY <1>0, <2>1, <2>2 DEF DataInv, OptionsInv, GoodDocs, GoodNumbers
<1>7. CASE Data!PutReadsCollection
    <2>1. UNCHANGED <<options, schema, docs, counter, drawn, turn, cards, calm>>
        BY <1>7 DEF Data!PutReadsCollection
    <2>2. GoodCards(cards)' /\ TurnInv'
        BY <1>0, <2>1, CardsFollow, TurnKept
    <2> QED BY <1>0, <2>1, <2>2 DEF DataInv, OptionsInv, GoodDocs, GoodNumbers
<1>8. ASSUME NEW id \in Data!DocIds, NEW d \in Data!NewDocs, Data!PutWritesDocument(id, d) PROVE DataInv'
    <2>1. /\ docs' = [i \in DOMAIN docs \cup {id} |-> IF i = id THEN d ELSE docs[i]]
          /\ calm' = FALSE /\ UNCHANGED <<options, counter, drawn, turn, cards>>
        BY <1>8 DEF Data!PutWritesDocument, Data!With
    <2>2. d \in Data!Docs
        BY DEF Data!NewDocs, Data!Docs
    <2>3. GoodDocs'
        BY <1>0, <2>1, <2>2 DEF GoodDocs
    <2>4. GoodCards(cards)' /\ TurnInv'
        BY <1>0, <2>1, CardsFollow, TurnKept
    <2> QED BY <1>0, <2>1, <2>3, <2>4 DEF DataInv, OptionsInv, GoodNumbers
<1>9. ASSUME NEW id \in DOMAIN docs, Data!DeleteDocument(id) PROVE DataInv'
    <2>1. /\ docs' = [i \in DOMAIN docs \ {id} |-> docs[i]]
          /\ calm' = FALSE /\ UNCHANGED <<options, counter, drawn, turn, cards>>
        BY <1>9 DEF Data!DeleteDocument, Data!Without
    <2>2. GoodDocs'
        BY <1>0, <2>1 DEF GoodDocs
    <2>3. GoodCards(cards)' /\ TurnInv'
        BY <1>0, <2>1, CardsFollow, TurnKept
    <2> QED BY <1>0, <2>1, <2>2, <2>3 DEF DataInv, OptionsInv, GoodNumbers
<1> QED BY <1>1, <1>2, <1>3, <1>4, <1>5, <1>6, <1>7, <1>8, <1>9 DEF Data!Next

LEMMA DataInit == KernelInit => DataInv
<1> SUFFICES ASSUME Data!Init PROVE DataInv
    BY DEF KernelInit
<1>1. OptionsInv /\ turn = [on |-> FALSE, schema |-> "open", actions |-> <<>>] /\ docs = <<>>
      /\ counter = 0 /\ drawn = <<>> /\ cards = <<>>
    BY DEF Data!Init, Data!NoTurn, OptionsInv
<1>2. GoodDocs
    <2>1. DOMAIN docs = {} /\ docs = [i \in {} |-> docs[i]]
        BY <1>1
    <2> QED BY <2>1 DEF GoodDocs
<1>3. GoodNumbers(counter, drawn)
    BY <1>1 DEF GoodNumbers
<1>4. TurnInv
    BY <1>1, NoActionsAreGood DEF TurnInv
<1>5. GoodCards(cards)
    BY <1>1 DEF GoodCards
<1> QED BY <1>1, <1>2, <1>3, <1>4, <1>5 DEF DataInv

LEMMA DataInvariant == KernelSpec => []DataInv
<1>1. DataInv /\ [KernelNext]_kernelVars => DataInv'
    <2> SUFFICES ASSUME DataInv, [KernelNext]_kernelVars PROVE DataInv'
        OBVIOUS
    <2>1. CASE Data!Next
        BY <2>1, DataStepKeeps
    <2>2. CASE UNCHANGED dataVars
        <3>1. UNCHANGED <<options, schema, docs, counter, drawn, turn, cards, calm>>
            BY <2>2 DEF dataVars
        <3>2. GoodCards(cards)' /\ TurnInv'
            BY <3>1, CardsFollow, TurnKept DEF DataInv
        <3> QED BY <3>1, <3>2 DEF DataInv, OptionsInv, GoodDocs, GoodNumbers
    <2>3. Data!Next \/ UNCHANGED dataVars
        BY DEF KernelNext, InContent, InData, InAgents, InEvals, kernelVars
    <2> QED BY <2>1, <2>2, <2>3
<1> QED BY <1>1, DataInit, PTL DEF KernelSpec

(* The card of a turn can be confirmed as long as nothing stored has changed  *)
(* since the turn began, but for the two cards propose lets through, and no   *)
(* two records are ever given one number, whoever else writes (actions.py     *)
(* proposed and _apply_one, objects.py next_id).                              *)
THEOREM CardsCanAlwaysBeConfirmed == KernelSpec => []CardCanBeConfirmed
<1>1. DataInv => CardCanBeConfirmed
    <2> SUFFICES ASSUME DataInv PROVE CardCanBeConfirmed
        OBVIOUS
    <2>1. Data!NumbersAreDrawnOnce
        BY DEF DataInv, GoodNumbers, Data!NumbersAreDrawnOnce
    <2>2. Data!CardCanBeConfirmed
        BY FreshCardIsConfirmed DEF DataInv, TurnInv, Data!CardCanBeConfirmed
    <2> QED BY <2>1, <2>2 DEF CardCanBeConfirmed
<1> QED BY <1>1, DataInvariant, PTL

(* A confirmed card does what it showed: of every record it changes and      *)
(* keeps, each field ends as the card last showed it, and the value a change *)
(* was shown to replace is the one it had; and what it writes satisfies the  *)
(* definition in force (actions.py body and _apply_one, objects.py _write).  *)
THEOREM CardsAlwaysApplyAsShown == KernelSpec => CardAppliesAsShown
<1>1. ASSUME DataInv, NEW c \in DOMAIN cards, Data!ConfirmCard(c)
      PROVE  /\ GoodList(cards[c].actions) /\ Data!Commit(cards[c].actions).ok
             /\ docs' = Data!Commit(cards[c].actions).docs
    BY <1>1 DEF DataInv, GoodCards, Data!ConfirmCard
<1>2. ASSUME DataInv, Data!Next, NEW c \in DOMAIN cards, Data!Confirmed(c)
      PROVE  Data!ConfirmCard(c)
    <2>1. cards \in Seq([actions : Seq(Actions), status : {"pending", "committed", "cancelled"}])
        BY <1>2 DEF DataInv, GoodCards
    <2>2. cards[c].status = "pending" /\ cards'[c].status = "committed"
        BY <1>2 DEF Data!Confirmed
    <2>3. ASSUME NEW d \in DOMAIN cards, NEW status, cards' = [cards EXCEPT ![d] = Data!Settled(status)]
          PROVE  d = c /\ status = "committed"
        <3>1. cards'[c] = IF c = d THEN Data!Settled(status) ELSE cards[c]
            BY <2>1, <2>3
        <3> QED BY <2>2, <3>1 DEF Data!Settled
    <2>4. ASSUME NEW d \in DOMAIN cards, Data!CancelCard(d) PROVE FALSE
        <3>1. cards' = [cards EXCEPT ![d] = Data!Settled("cancelled")]
            BY <2>4 DEF Data!CancelCard
        <3>2. cards'[c] = IF c = d THEN Data!Settled("cancelled") ELSE cards[c]
            BY <2>1, <3>1
        <3> QED BY <2>2, <3>2 DEF Data!Settled
    <2>5. ASSUME NEW d \in DOMAIN cards, Data!ConfirmCard(d) PROVE d = c
        BY <2>3, <2>5 DEF Data!ConfirmCard
    <2>6. cards' # cards
        BY <2>2
    <2>7. ~Data!EndTurn
        <3> SUFFICES ASSUME Data!EndTurn PROVE FALSE
            OBVIOUS
        <3>1. cards'[c] = cards[c]
            BY <2>1 DEF Data!EndTurn
        <3> QED BY <2>2, <3>1
    <2> QED BY <1>2, <2>4, <2>5, <2>6, <2>7 DEF Data!Next, Data!BeginTurn, Data!Propose, Data!PutCollection,
                Data!PutReadsCollection, Data!PutWritesDocument, Data!DeleteDocument
<1>3. DataInv /\ [KernelNext]_kernelVars =>
        [\A c \in DOMAIN cards : Data!Confirmed(c) =>
           \A id \in DOMAIN docs : (Data!Mine(c, id) # {} /\ Data!SawOneCopy(c, id)) =>
              /\ \A i \in Data!Mine(c, id) : cards[c].actions[i].op # "create" =>
                   \A f \in Data!Changes(cards[c].actions[i]) :
                     cards[c].actions[i].before[f] = docs[id][f]
              /\ id \in DOMAIN docs' =>
                   \A f \in DOMAIN docs[id] : docs'[id][f] = Data!LastShown(c, id, f)]_(Data!vars)
    <2> SUFFICES ASSUME DataInv, Data!Next, NEW c \in DOMAIN cards, Data!Confirmed(c),
                        NEW id \in DOMAIN docs, Data!Mine(c, id) # {}, Data!SawOneCopy(c, id)
                 PROVE  /\ \A i \in Data!Mine(c, id) : cards[c].actions[i].op # "create" =>
                             \A f \in Data!Changes(cards[c].actions[i]) :
                               cards[c].actions[i].before[f] = docs[id][f]
                        /\ id \in DOMAIN docs' =>
                             \A f \in DOMAIN docs[id] : docs'[id][f] = Data!LastShown(c, id, f)
        BY DEF KernelNext, InContent, InData, InAgents, InEvals, kernelVars, dataVars, Data!vars
    <2> DEFINE list == cards[c].actions
    <2>1. GoodList(list) /\ Data!Commit(list).ok /\ docs' = Data!Commit(list).docs
        BY <1>1, <1>2
    <2>2. Data!Mine(c, id) = MineIn(list, id) /\ OneCopy(list, id)
        BY DEF Data!Mine, MineIn, Data!SawOneCopy, OneCopy
    <2>3. \A f : Data!LastShown(c, id, f) = IF ShownAt(list, id, f) = {} THEN docs[id][f]
                                            ELSE list[Data!Max(ShownAt(list, id, f))].after[f]
        BY DEF Data!LastShown, ShownAt
    <2> HIDE DEF list
    <2>4. AsShown(list, id, docs')
        BY <2>1, <2>2, CardDoesWhatItShowed
    <2> QED BY <2>2, <2>3, <2>4 DEF AsShown, list
<1>4. DataInv /\ [KernelNext]_kernelVars =>
        [\A c \in DOMAIN cards : Data!Confirmed(c) =>
           \A id \in DOMAIN docs' :
              (id \notin DOMAIN docs \/ docs'[id] # docs[id]) => Data!Satisfies(schema, docs'[id])]_(Data!vars)
    <2> SUFFICES ASSUME DataInv, Data!Next, NEW c \in DOMAIN cards, Data!Confirmed(c),
                        NEW id \in DOMAIN docs', id \notin DOMAIN docs \/ docs'[id] # docs[id]
                 PROVE  Data!Satisfies(schema, docs'[id])
        BY DEF KernelNext, InContent, InData, InAgents, InEvals, kernelVars, dataVars, Data!vars
    <2>1. /\ GoodList(cards[c].actions) /\ Data!Commit(cards[c].actions).ok
          /\ docs' = Data!Commit(cards[c].actions).docs
        BY <1>1, <1>2
    <2>2. Obeys(Data!Commit(cards[c].actions))
        BY <2>1, CardObeysTheSchema
    <2> QED BY <2>1, <2>2 DEF Obeys
<1> QED
    BY <1>3, <1>4, DataInvariant, PTL
       DEF KernelSpec, CardAppliesAsShown, Data!CardAppliesAsShown, Data!CardsObeyTheSchemaInForce
=============================================================================
