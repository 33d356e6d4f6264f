-------------------------------- MODULE Suggest -------------------------------
(***************************************************************************)
(* Where to eat (suggest_lunch of app/packs/places.py): what the ledger    *)
(* says of each place (stats of app/places.py), the clock rules among its  *)
(* notes (gate_status of app/observations.py), which places are offered    *)
(* and in which order.                                                     *)
(*                                                                         *)
(* Days count down from today, 0; minutes are those of the day.  The order *)
(* has a jitter of less than 5 points, so "a may come before b" is a       *)
(* relation.  The budget is left out of the order and kept in the bands.   *)
(***************************************************************************)
EXTENDS Integers, Sequences, FiniteSets, FiniteSetsExt, Functions

CONSTANTS
    Rows,       \* what the places of a room may be: functions from places to rows
    AgesOfMeals, Visits, Prices,        \* days ago, how many meals in a row, and per head
    GateTimes,  \* the minutes a clock rule may name
    Now,        \* the minute of the day
    MaxSteps    \* bound on the meals and notes

VARIABLES
    rows,       \* place -> [walkable, delivery, untried, closed, hint, walk]
    meals,      \* the ledger: [place, age, times, price]
    notes       \* the room's clock rules in the order of the notes: [place, kind, at]

suggestVars == <<rows, meals, notes>>

Unknown == -1
Places == DOMAIN rows
StatsWindow == 120
ActNowOrder == 20
ActNowBusy == 15
DefaultWalk == 5

Init == rows \in Rows /\ meals = <<>> /\ notes = <<>>

RoomForMore == Len(meals) + Len(notes) < MaxSteps

Eat ==
    /\ RoomForMore
    /\ \E p \in Places, a \in AgesOfMeals, n \in Visits, c \in Prices :
         meals' = Append(meals, [place |-> p, age |-> a, times |-> n, price |-> c])
    /\ UNCHANGED <<rows, notes>>

\* parse_gate lets no other kind in.
NoteRule ==
    /\ RoomForMore
    /\ \E p \in Places, k \in {"busy", "order-by", "closes"}, t \in GateTimes :
         notes' = Append(notes, [place |-> p, kind |-> k, at |-> t])
    /\ UNCHANGED <<rows, meals>>

Next == Eat \/ NoteRule
Spec == Init /\ [][Next]_suggestVars
-----------------------------------------------------------------------------

(* What the ledger says of a place. *)

\* By position: the meals at p that a suggestion looks at.
Counted(p) == {k \in DOMAIN meals : meals[k].place = p /\ meals[k].age <= StatsWindow}
VisitsOf(at) == SumFunctionOnSet([k \in DOMAIN meals |-> meals[k].times], at)
Spent(at) == SumFunctionOnSet([k \in DOMAIN meals |-> meals[k].times * meals[k].price], at)

Times(p) == VisitsOf(Counted(p))
DaysSince(p) == IF Counted(p) = {} THEN Unknown ELSE Min({meals[k].age : k \in Counted(p)})
OnThisWeekday(p) == VisitsOf({k \in Counted(p) : meals[k].age % 7 = 0})

\* price_hint fills in for a place without meals.
PerHead(p) == IF Counted(p) = {} THEN rows[p].hint ELSE Spent(Counted(p)) \div Times(p)

\* The prices that are known, in their order; PriceAt counts from 0.
Known == {p \in Places : PerHead(p) # Unknown}
Below(p) == {q \in Known : PerHead(q) < PerHead(p) \/ (PerHead(q) = PerHead(p) /\ q < p)}
PriceAt(n) == PerHead(CHOOSE p \in Known : Cardinality(Below(p)) = n)

\* Mutant of Threshold: thirds of the count, and not of what lies between first and last.
ThresholdOfCount(third) == PriceAt((third * Cardinality(Known)) \div 3)

\* The boundaries of the bands, counted between the first and the last price.
Threshold(third) == PriceAt((third * (Cardinality(Known) - 1)) \div 3)

Band(p) ==
    CASE PerHead(p) = Unknown \/ Cardinality(Known) < 3 -> "none"
      [] PerHead(p) # Unknown /\ Cardinality(Known) >= 3 /\ PerHead(p) <= Threshold(1) -> "low"
      [] OTHER -> IF PerHead(p) <= Threshold(2) THEN "middle" ELSE "high"
-----------------------------------------------------------------------------

(* The clock. *)

Left(p, rule) == rule.at - Now - (IF rule.kind = "order-by" THEN 0
                                  ELSE IF rows[p].walk = Unknown THEN DefaultWalk ELSE rows[p].walk)

GateStatus(p, rule) ==
    CASE Left(p, rule) < 0 -> "too_late"
      [] Left(p, rule) \in 0..(IF rule.kind = "order-by" THEN ActNowOrder ELSE ActNowBusy) -> "act_now"
      [] OTHER -> "ok"

\* By position: the clock rules among the notes of p.
RulesOf(p) == {k \in DOMAIN notes : notes[k].place = p}

\* Mutant of Worse: the first rule that is not fine decides.
WorseFirst(status, of) == status = "ok" /\ of # "ok"

\* One shut door beats three fine ones.
Worse(status, of) == of = "too_late" \/ (of = "act_now" /\ status = "ok")

\* minutes_left, which is none once it is too late.
Minutes(p, rule) == IF Left(p, rule) < 0 THEN Unknown ELSE Left(p, rule)

\* What the note at k makes of what was said of p before it.
Noted(p, said, k) ==
    IF k \in RulesOf(p) /\ Worse(said.status, GateStatus(p, notes[k]))
    THEN [status |-> GateStatus(p, notes[k]), kind |-> notes[k].kind, left |-> Minutes(p, notes[k])]
    ELSE said
NothingSaid == [status |-> "ok", kind |-> "none", left |-> Unknown]
Verdict(p) ==
    LET upTo[k \in 0..Len(notes)] == IF k = 0 THEN NothingSaid ELSE Noted(p, upTo[k - 1], k)
    IN  upTo[Len(notes)]
-----------------------------------------------------------------------------

(* The order. *)

Pool(delivery) ==
    {p \in Places : ~rows[p].closed /\ IF delivery THEN rows[p].delivery ELSE rows[p].walkable}

Least(a, b) == IF a < b THEN a ELSE b
Most(a, b) == IF a > b THEN a ELSE b

\* Mutant of Familiarity: the longer ago, the better, as it once was.
FamiliarityByAge(p) == IF DaysSince(p) = Unknown THEN 60 ELSE Least(DaysSince(p), 60)

Familiarity(p) == 6 * Least(Times(p), 8) + 6 * OnThisWeekday(p)

Score(p) ==
    Familiarity(p)
    + (IF DaysSince(p) = Unknown THEN 8 ELSE 0 - Most(0, 30 - 3 * DaysSince(p)))
    - (IF rows[p].untried THEN 25 ELSE 0)

\* Mutant of Sinks: a place that is out of reach keeps its place.
SinksNot(p) == FALSE

Sinks(p) == Verdict(p).status = "too_late"

\* a may come before b: the sort by score, then the stable sort by reach.
MayPrecede(a, b) ==
    \/ ~Sinks(a) /\ Sinks(b)
    \/ Sinks(a) = Sinks(b) /\ Score(a) + 5 > Score(b)
-----------------------------------------------------------------------------

\* The room's usuals lead: a place it has been to three times within the window, and not for
\* ten days, never stands behind one it has never been to -- unless it is out of reach.
UsualsLead ==
    \A delivery \in BOOLEAN : \A p, n \in Pool(delivery) :
       /\ Times(p) >= 3 /\ DaysSince(p) >= 10 /\ ~rows[p].untried
       /\ Times(n) = 0 /\ Verdict(p).status # "too_late"
       => ~MayPrecede(n, p)

\* A place out of reach is offered after every place in reach, whatever else is in its notes.
Shut(p) == \E k \in RulesOf(p) : GateStatus(p, notes[k]) = "too_late"
OutOfReachIsLast ==
    \A delivery \in BOOLEAN : \A a, b \in Pool(delivery) : Shut(a) /\ MayPrecede(a, b) => Shut(b)

\* The reason given is a rule that made the status, and no rule is worse.
TheReasonIsTheWorstRule ==
    \A p \in Places :
       LET v == Verdict(p)
           met == {GateStatus(p, notes[k]) : k \in RulesOf(p)}
       IN  /\ v.status = IF "too_late" \in met THEN "too_late" ELSE IF "act_now" \in met THEN "act_now" ELSE "ok"
           /\ v.status # "ok" => \E k \in RulesOf(p) :
                 /\ notes[k].kind = v.kind
                 /\ GateStatus(p, notes[k]) = v.status /\ Minutes(p, notes[k]) = v.left

\* Bands follow the prices, and while three prices are known and all differ, each has a place.
Rank == [none |-> 0, low |-> 1, middle |-> 2, high |-> 3]
BandsFollowPrices ==
    /\ \A p, q \in Known : PerHead(p) <= PerHead(q) => Rank[Band(p)] <= Rank[Band(q)]
    /\ Cardinality({PerHead(p) : p \in Known}) = Cardinality(Known) /\ Cardinality(Known) >= 3
         => {Band(p) : p \in Known} = {"low", "middle", "high"}

SuggestionIsSound == UsualsLead /\ OutOfReachIsLast /\ TheReasonIsTheWorstRule
=============================================================================
