------------------------------ MODULE RoomsProofs -----------------------------
(***************************************************************************)
(* Proofs about what a room is made of: its journal (module Journal), the  *)
(* turns of its bot (Turn) and the budget of its sub-agents (Delegation),  *)
(* its memory (Memory), its places and notes (Notes), what is done with    *)
(* the names people write (Members, Subjects), where it might eat          *)
(* (Suggest), and its move into the store (Migration).                     *)
(***************************************************************************)
EXTENDS MCRooms, Lemmas
-----------------------------------------------------------------------------
(***************************************************************************)
(* The journal never says anything but what the tables say: whichever      *)
(* release serves, its readers see one append-only ledger.                 *)
(*                                                                         *)
(* What makes it inductive: the journal may lack rows or hold old columns  *)
(* while the previous release serves, but it is readable and names no row  *)
(* that the tables have not; and within a session the events stand for the *)
(* rows as the last flush wrote them, not for the rows it has in hand.     *)
(*                                                                         *)
(* The fold is a recursive function; what it holds is shown for one event, *)
(* and for all of them by the first one where it would not be so.          *)
(***************************************************************************)

(* held is the fold of the first n events. *)
IsHeld(entries, held, n) ==
    held = [i \in 0..n |-> IF i = 0 THEN <<>> ELSE Apply(held[i - 1], entries[i])]

(* There is a fold of any number of events. *)
LEMMA FoldExists ==
    ASSUME NEW entries, NEW N \in Nat
    PROVE  \E held : IsHeld(entries, held, N)
<1> DEFINE Without == {n \in Nat : ~ \E held : IsHeld(entries, held, n)}
<1> SUFFICES ASSUME Without # {} PROVE FALSE
    OBVIOUS
<1>1. PICK n \in Without : \A m \in Without : n <= m
    <2>1. Without \subseteq Nat
        OBVIOUS
    <2> HIDE DEF Without
    <2> QED BY <2>1, LeastIsThere
<1>2. n \in Nat /\ ~ \E held : IsHeld(entries, held, n)
    OBVIOUS
<1>3. CASE n = 0
    <2>1. IsHeld(entries, [i \in 0..0 |-> <<>>], 0)
        BY DEF IsHeld
    <2> QED BY <1>2, <1>3, <2>1
<1>4. CASE n > 0
    <2>1. n - 1 \in Nat /\ ~(n <= n - 1)
        BY <1>2, <1>4
    <2>2. n - 1 \notin Without
        BY <1>1, <2>1
    <2>3. PICK held : IsHeld(entries, held, n - 1)
        BY <2>1, <2>2
    <2> DEFINE more == [i \in 0..n |-> IF i = n THEN Apply(held[n - 1], entries[n]) ELSE held[i]]
    <2>4. \A i \in 0..n : more[i] = IF i = 0 THEN <<>> ELSE Apply(more[i - 1], entries[i])
        <3> TAKE i \in 0..n
        <3>1. CASE i = n
            <4>1. more[i] = Apply(held[n - 1], entries[n]) /\ more[i - 1] = held[n - 1]
                BY <1>2, <1>4, <3>1
            <4> QED BY <1>4, <3>1, <4>1
        <3>2. CASE i # n
            <4>1. i \in 0..(n - 1) /\ more[i] = held[i]
                BY <1>2, <3>2
            <4>2. held[i] = IF i = 0 THEN <<>> ELSE Apply(held[i - 1], entries[i])
                BY <2>3, <4>1 DEF IsHeld
            <4>3. i # 0 => more[i - 1] = held[i - 1]
                BY <1>2, <4>1
            <4> QED BY <4>1, <4>2, <4>3
        <3> QED BY <3>1, <3>2
    <2>5. more = [i \in 0..n |-> more[i]]
        OBVIOUS
    <2> HIDE DEF more
    <2>6. more = [i \in 0..n |-> IF i = 0 THEN <<>> ELSE Apply(more[i - 1], entries[i])]
        BY <2>4, <2>5
    <2> QED BY <1>2, <2>6 DEF IsHeld
<1> QED BY <1>2, <1>3, <1>4

(* The fold goes one event at a time. *)
LEMMA FoldSteps ==
    ASSUME NEW entries, Len(entries) \in Nat
    PROVE  /\ HeldAfter(entries)[0] = <<>>
           /\ \A i \in 1..Len(entries) : HeldAfter(entries)[i] = Apply(HeldAfter(entries)[i - 1], entries[i])
<1>1. PICK held : IsHeld(entries, held, Len(entries))
    BY FoldExists
<1>2. \E held_ : held_ = [i \in 0..Len(entries) |-> IF i = 0 THEN <<>> ELSE Apply(held_[i - 1], entries[i])]
    BY <1>1 DEF IsHeld
<1>3. HeldAfter(entries) = [i \in 0..Len(entries) |-> IF i = 0 THEN <<>> ELSE Apply(HeldAfter(entries)[i - 1], entries[i])]
    BY <1>2, Zenon DEF HeldAfter
<1> QED BY <1>3

(* A journal that goes on where another ends has the same fold up to there. *)
LEMMA FoldOfPrefix ==
    ASSUME NEW entries, NEW longer, Len(entries) \in Nat, Len(longer) \in Nat, Len(entries) <= Len(longer),
           \A i \in 1..Len(entries) : longer[i] = entries[i]
    PROVE  HeldAfter(longer)[Len(entries)] = Fold(entries)
<1> DEFINE Apart == {i \in 0..Len(entries) : HeldAfter(longer)[i] # HeldAfter(entries)[i]}
<1>1. Apart = {}
    <2> SUFFICES ASSUME Apart # {} PROVE FALSE
        OBVIOUS
    <2>1. PICK n \in Apart : \A m \in Apart : n <= m
        <3>1. Apart \subseteq Nat
            OBVIOUS
        <3> HIDE DEF Apart
        <3> QED BY <3>1, LeastIsThere
    <2>2. n \in 0..Len(entries) /\ HeldAfter(longer)[n] # HeldAfter(entries)[n]
        OBVIOUS
    <2>3. n # 0
        BY <2>2, FoldSteps
    <2>4. n - 1 \in 0..Len(entries) /\ ~(n <= n - 1)
        BY <2>2, <2>3
    <2>5. HeldAfter(longer)[n - 1] = HeldAfter(entries)[n - 1]
        BY <2>1, <2>4
    <2>6. n \in 1..Len(entries) /\ n \in 1..Len(longer)
        BY <2>2, <2>3
    <2>7. HeldAfter(longer)[n] = Apply(HeldAfter(longer)[n - 1], longer[n]) /\ HeldAfter(entries)[n] = Apply(HeldAfter(entries)[n - 1], entries[n])
        BY <2>6, FoldSteps
    <2> QED BY <2>2, <2>5, <2>6, <2>7
<1> QED BY <1>1 DEF Fold
-----------------------------------------------------------------------------
(* What the events say of the records. *)

Columns == {"amount", "voided", "link"}

(* The event sets that column of that record. *)
SetsColumn(ev, k, c) ==
    /\ k = Key(ev)
    /\ \/ ev.event = "recorded"
       \/ ev.event = "void" /\ c = "voided"
       \/ ev.event = "link" /\ c = "link"

(* The event says of a record what the records say. *)
TrueOf(records, ev) ==
    /\ Key(ev) \in DOMAIN records
    /\ ev.event = "recorded" => ev.row = records[Key(ev)]
    /\ ev.event = "void" => ev.voided = records[Key(ev)].voided
    /\ ev.event = "link" => ev.link = records[Key(ev)].link

(* What a true event makes of a view: it leaves what is right, and puts right what *)
(* it sets.                                                                      *)
PutsRight(records, view, ev, new) ==
    /\ new \in [DOMAIN new -> Rows] /\ DOMAIN new = DOMAIN view \cup {Key(ev)}
    /\ \A k \in DOMAIN view, c \in Columns : view[k][c] = records[k][c] => new[k][c] = records[k][c]
    /\ \A k : \A c \in Columns : SetsColumn(ev, k, c) => new[k][c] = records[k][c]

LEMMA TrueEvent ==
    ASSUME NEW records, records \in [DOMAIN records -> Rows],
           NEW view, view \in [DOMAIN view -> Rows], DOMAIN view \subseteq DOMAIN records,
           NEW ev \in Events, TrueOf(records, ev), ev.event # "recorded" => Key(ev) \in DOMAIN view,
           NEW new, new = Apply(view, ev)
    PROVE  PutsRight(records, view, ev, new)
<1>1. CASE ev.event = "recorded"
    <2>1. /\ DOMAIN new = DOMAIN view \cup {Key(ev)} /\ new[Key(ev)] = ev.row
          /\ \A k \in DOMAIN view : k # Key(ev) => new[k] = view[k]
          /\ new = [k \in DOMAIN new |-> new[k]]
        BY <1>1 DEF Apply
    <2>2. ev.row = records[Key(ev)] /\ ev.row \in Rows
        BY <1>1 DEF TrueOf
    <2> QED BY <2>1, <2>2 DEF SetsColumn, PutsRight
<1>2. CASE ev.event = "void"
    <2> DEFINE key == Key(ev)
               row == [view[key] EXCEPT !.voided = ev.voided]
    <2>1. key \in DOMAIN view /\ view[key] \in Rows /\ ev.voided = records[key].voided /\ ev.voided \in BOOLEAN
        BY <1>2 DEF TrueOf, Events
    <2>2. new = [view EXCEPT ![key] = row]
        BY <1>2 DEF Apply
    <2>3. /\ row \in Rows /\ row.amount = view[key].amount /\ row.voided = ev.voided /\ row.link = view[key].link
        BY <2>1 DEF Rows
    <2> HIDE DEF row, key
    <2>4. /\ DOMAIN new = DOMAIN view /\ new[key] = row /\ \A k \in DOMAIN view : k # key => new[k] = view[k]
          /\ new = [k \in DOMAIN new |-> new[k]]
        BY <2>1, <2>2
    <2>5. new \in [DOMAIN new -> Rows]
        BY <2>3, <2>4
    <2>6. \A k \in DOMAIN view, c \in Columns : view[k][c] = records[k][c] => new[k][c] = records[k][c]
        BY <2>1, <2>3, <2>4 DEF Columns
    <2>7. \A k : \A c \in Columns : SetsColumn(ev, k, c) => k = key /\ c = "voided"
        BY <1>2 DEF SetsColumn, key
    <2>8. DOMAIN new = DOMAIN view \cup {Key(ev)}
        BY <2>1, <2>4 DEF key
    <2> QED BY <2>1, <2>3, <2>4, <2>5, <2>6, <2>7, <2>8 DEF PutsRight
<1>3. CASE ev.event = "link"
    <2> DEFINE key == Key(ev)
               row == [view[key] EXCEPT !.link = ev.link]
    <2>1. key \in DOMAIN view /\ view[key] \in Rows /\ ev.link = records[key].link /\ ev.link \in Links
        BY <1>3 DEF TrueOf, Events
    <2>2. new = [view EXCEPT ![key] = row]
        BY <1>3 DEF Apply
    <2>3. /\ row \in Rows /\ row.amount = view[key].amount /\ row.link = ev.link /\ row.voided = view[key].voided
        BY <2>1 DEF Rows
    <2> HIDE DEF row, key
    <2>4. /\ DOMAIN new = DOMAIN view /\ new[key] = row /\ \A k \in DOMAIN view : k # key => new[k] = view[k]
          /\ new = [k \in DOMAIN new |-> new[k]]
        BY <2>1, <2>2
    <2>5. new \in [DOMAIN new -> Rows]
        BY <2>3, <2>4
    <2>6. \A k \in DOMAIN view, c \in Columns : view[k][c] = records[k][c] => new[k][c] = records[k][c]
        BY <2>1, <2>3, <2>4 DEF Columns
    <2>7. \A k : \A c \in Columns : SetsColumn(ev, k, c) => k = key /\ c = "link"
        BY <1>3 DEF SetsColumn, key
    <2>8. DOMAIN new = DOMAIN view \cup {Key(ev)}
        BY <2>1, <2>4 DEF key
    <2> QED BY <2>1, <2>3, <2>4, <2>5, <2>6, <2>7, <2>8 DEF PutsRight
<1>4. ev.event \in {"recorded", "void", "link"}
    BY DEF Events
<1> QED BY <1>1, <1>2, <1>3, <1>4

(* What is held is what was recorded. *)
LEMMA HeldIsRecorded ==
    ASSUME NEW entries \in Seq(Events), NEW n \in 0..Len(entries)
    PROVE  DOMAIN HeldAfter(entries)[n] = {Key(entries[i]) : i \in {j \in 1..n : entries[j].event = "recorded"}}
<1> DEFINE Keyed(m) == {Key(entries[i]) : i \in {j \in 1..m : entries[j].event = "recorded"}}
           Apart == {m \in 0..Len(entries) : DOMAIN HeldAfter(entries)[m] # Keyed(m)}
<1>1. Len(entries) \in Nat
    OBVIOUS
<1>2. Apart = {}
    <2> SUFFICES ASSUME Apart # {} PROVE FALSE
        OBVIOUS
    <2>1. PICK m \in Apart : \A l \in Apart : m <= l
        <3>1. Apart \subseteq Nat
            OBVIOUS
        <3> HIDE DEF Apart
        <3> QED BY <3>1, LeastIsThere
    <2>2. m \in 0..Len(entries) /\ DOMAIN HeldAfter(entries)[m] # Keyed(m)
        OBVIOUS
    <2>3. m # 0
        <3>1. Keyed(0) = {}
            OBVIOUS
        <3>2. DOMAIN HeldAfter(entries)[0] = {}
            BY <1>1, FoldSteps
        <3> QED BY <2>2, <3>1, <3>2
    <2>4. m - 1 \in 0..Len(entries) /\ ~(m <= m - 1) /\ m \in 1..Len(entries)
        BY <1>1, <2>2, <2>3
    <2>5. DOMAIN HeldAfter(entries)[m - 1] = Keyed(m - 1)
        BY <2>1, <2>4
    <2>6. HeldAfter(entries)[m] = Apply(HeldAfter(entries)[m - 1], entries[m]) /\ entries[m] \in Events
        BY <1>1, <2>4, FoldSteps
    <2>7. entries[m].event \in {"recorded", "void", "link"}
        BY <2>6 DEF Events
    <2>8. CASE entries[m].event = "recorded"
        <3>1. DOMAIN HeldAfter(entries)[m] = Keyed(m - 1) \cup {Key(entries[m])}
            <4> HIDE DEF Keyed
            <4> QED BY <2>5, <2>6, <2>8 DEF Apply
        <3>2. Keyed(m) = Keyed(m - 1) \cup {Key(entries[m])}
            <4>1. \A j : j \in 1..m <=> j \in 1..(m - 1) \/ j = m
                BY <2>4
            <4> QED BY <2>8, <4>1
        <3> QED BY <2>2, <3>1, <3>2
    <2>9. CASE entries[m].event \in {"void", "link"}
        <3>1. DOMAIN HeldAfter(entries)[m] = Keyed(m - 1)
            <4> HIDE DEF Keyed
            <4> QED BY <2>5, <2>6, <2>9 DEF Apply
        <3>2. Keyed(m) = Keyed(m - 1)
            <4>1. \A j : j \in 1..m <=> j \in 1..(m - 1) \/ j = m
                BY <2>4
            <4>2. entries[m].event # "recorded"
                BY <2>9
            <4> QED BY <4>1, <4>2
        <3> QED BY <2>2, <3>1, <3>2
    <2> QED BY <2>7, <2>8, <2>9
<1> QED BY <1>2

(* The fold of the first n events is right about what true events say from the m-th *)
(* on, and about what was right before. *)
RightFrom(records, entries, m, n) ==
    LET before == HeldAfter(entries)[m]
        after == HeldAfter(entries)[n]
    IN  /\ after \in [DOMAIN after -> Rows]
        /\ DOMAIN before \subseteq DOMAIN after /\ DOMAIN after \subseteq DOMAIN records
        /\ \A k \in DOMAIN before, c \in Columns : before[k][c] = records[k][c] => after[k][c] = records[k][c]
        /\ \A i \in (m + 1)..n : \A k : \A c \in Columns :
             SetsColumn(entries[i], k, c) => k \in DOMAIN after /\ after[k][c] = records[k][c]

LEMMA TrueEvents ==
    ASSUME NEW records, records \in [DOMAIN records -> Rows], NEW entries \in Seq(Events),
           NEW m \in 0..Len(entries),
           HeldAfter(entries)[m] \in [DOMAIN HeldAfter(entries)[m] -> Rows], DOMAIN HeldAfter(entries)[m] \subseteq DOMAIN records,
           \A i \in (m + 1)..Len(entries) :
               /\ TrueOf(records, entries[i])
               /\ entries[i].event # "recorded" => Key(entries[i]) \in DOMAIN HeldAfter(entries)[i - 1]
    PROVE  RightFrom(records, entries, m, Len(entries))
<1> DEFINE Wrong == {n \in m..Len(entries) : ~RightFrom(records, entries, m, n)}
<1>1. Len(entries) \in Nat /\ m \in Nat
    OBVIOUS
<1>2. Wrong = {}
    <2> SUFFICES ASSUME Wrong # {} PROVE FALSE
        OBVIOUS
    <2>1. PICK n \in Wrong : \A l \in Wrong : n <= l
        <3>1. Wrong \subseteq Nat
            BY <1>1
        <3> HIDE DEF Wrong
        <3> QED BY <3>1, LeastIsThere
    <2>2. n \in m..Len(entries) /\ ~RightFrom(records, entries, m, n)
        OBVIOUS
    <2>3. n # m
        <3>1. RightFrom(records, entries, m, m)
            <4>1. (m + 1)..m = {}
                BY <1>1
            <4> QED BY <4>1 DEF RightFrom
        <3> QED BY <2>2, <3>1
    <2>4. n - 1 \in m..Len(entries) /\ ~(n <= n - 1) /\ n \in 1..Len(entries) /\ n \in (m + 1)..Len(entries)
        BY <1>1, <2>2, <2>3
    <2>5. RightFrom(records, entries, m, n - 1)
        BY <2>1, <2>4
    <2> HIDE DEF Wrong
    <2>6. PICK before : before = HeldAfter(entries)[m]
        OBVIOUS
    <2>7. PICK view : view = HeldAfter(entries)[n - 1]
        OBVIOUS
    <2>8. PICK after : after = HeldAfter(entries)[n]
        OBVIOUS
    <2>9. PICK ev : ev = entries[n]
        OBVIOUS
    <2>10. /\ view \in [DOMAIN view -> Rows]
           /\ DOMAIN before \subseteq DOMAIN view /\ DOMAIN view \subseteq DOMAIN records
           /\ \A k \in DOMAIN before, c \in Columns : before[k][c] = records[k][c] => view[k][c] = records[k][c]
           /\ \A i \in (m + 1)..(n - 1) : \A k : \A c \in Columns :
                SetsColumn(entries[i], k, c) => k \in DOMAIN view /\ view[k][c] = records[k][c]
        BY <2>5, <2>6, <2>7 DEF RightFrom
    <2>11. /\ ev \in Events /\ after = Apply(view, ev) /\ TrueOf(records, ev)
           /\ ev.event # "recorded" => Key(ev) \in DOMAIN view
        BY <1>1, <2>4, <2>7, <2>8, <2>9, FoldSteps
    <2>12. /\ after \in [DOMAIN after -> Rows] /\ DOMAIN after = DOMAIN view \cup {Key(ev)}
           /\ \A k \in DOMAIN view, c \in Columns : view[k][c] = records[k][c] => after[k][c] = records[k][c]
           /\ \A k : \A c \in Columns : SetsColumn(ev, k, c) => after[k][c] = records[k][c]
        <3>1. view \in [DOMAIN view -> Rows] /\ DOMAIN view \subseteq DOMAIN records
            BY <2>10
        <3>2. /\ ev \in Events /\ after = Apply(view, ev) /\ TrueOf(records, ev)
              /\ ev.event # "recorded" => Key(ev) \in DOMAIN view
            BY <2>11
        <3>3. PutsRight(records, view, ev, after)
            BY <3>1, <3>2, TrueEvent
        <3> QED BY <3>3 DEF PutsRight
    <2>13. Key(ev) \in DOMAIN records
        BY <2>11 DEF TrueOf
    <2>14. \A k : \A c \in Columns : SetsColumn(ev, k, c) => k \in DOMAIN after /\ after[k][c] = records[k][c]
        BY <2>12 DEF SetsColumn
    <2>18. \A i \in (m + 1)..(n - 1) : \A k : \A c \in Columns :
             SetsColumn(entries[i], k, c) => k \in DOMAIN view /\ view[k][c] = records[k][c]
        BY <2>10
    <2>15. ASSUME NEW i \in (m + 1)..n, NEW k, NEW c \in Columns, SetsColumn(entries[i], k, c)
           PROVE  k \in DOMAIN after /\ after[k][c] = records[k][c]
        <3>1. CASE i = n
            BY <2>9, <2>14, <2>15, <3>1
        <3>2. CASE i # n
            <4>1. i \in (m + 1)..(n - 1)
                BY <1>1, <2>4, <2>15, <3>2
            <4>2. k \in DOMAIN view /\ view[k][c] = records[k][c]
                BY <2>15, <2>18, <4>1
            <4> QED BY <2>12, <4>2
        <3> QED BY <3>1, <3>2
    <2>16. /\ DOMAIN before \subseteq DOMAIN after /\ DOMAIN after \subseteq DOMAIN records
           /\ \A k \in DOMAIN before, c \in Columns : before[k][c] = records[k][c] => after[k][c] = records[k][c]
        BY <2>10, <2>12, <2>13
    <2>17. RightFrom(records, entries, m, n)
        BY <2>6, <2>8, <2>12, <2>15, <2>16 DEF RightFrom
    <2> QED BY <2>2, <2>17
<1>3. Len(entries) \in m..Len(entries)
    BY <1>1
<1> QED BY <1>2, <1>3
-----------------------------------------------------------------------------
(* Rows, keys and records. *)

(* The rows of both tables, some of which a writer may have spoilt. *)
AnyRows == [amount : Amounts \cup {WrongAmount}, voided : BOOLEAN, link : Links]
SomeTables(rows) == rows \in [Tables -> Seq(AnyRows)]
GoodTables(rows) == rows \in [Tables -> Seq(Rows)]

LEMMA KeysAre ==
    ASSUME NEW rows
    PROVE  /\ \A k : k \in Keys(rows) <=> \E t \in Tables : \E id \in DOMAIN rows[t] : k = <<t, id>>
           /\ DOMAIN Records(rows) = Keys(rows)
           /\ \A t \in Tables : \A id \in DOMAIN rows[t] :
                <<t, id>> \in Keys(rows) /\ Records(rows)[<<t, id>>] = rows[t][id]
    BY DEF Keys, Records

LEMMA RecordsOfGoodTables ==
    ASSUME NEW rows, GoodTables(rows)
    PROVE  Records(rows) \in [DOMAIN Records(rows) -> Rows]
<1>1. ASSUME NEW k \in Keys(rows)
      PROVE  Records(rows)[k] \in Rows
    <2>1. PICK t \in Tables : \E id \in DOMAIN rows[t] : k = <<t, id>>
        BY <1>1, KeysAre
    <2>2. PICK id \in DOMAIN rows[t] : k = <<t, id>>
        BY <2>1
    <2>3. rows[t] \in Seq(Rows)
        BY DEF GoodTables
    <2>4. rows[t][id] \in Rows
        BY <2>3
    <2> QED BY <2>2, <2>4, KeysAre
<1>2. Records(rows) = [k \in Keys(rows) |-> Records(rows)[k]]
    BY DEF Records
<1> QED BY <1>1, <1>2, KeysAre

LEMMA GoodTablesAreSome ==
    ASSUME NEW rows, GoodTables(rows)
    PROVE  SomeTables(rows)
<1>1. Rows \subseteq AnyRows
    BY DEF Rows, AnyRows
<1>2. Seq(Rows) \subseteq Seq(AnyRows)
    BY <1>1, SeqDef
<1> QED BY <1>2 DEF GoodTables, SomeTables

LEMMA KeysAreFinite ==
    ASSUME NEW rows, SomeTables(rows)
    PROVE  IsFiniteSet(Keys(rows))
<1> DEFINE KeysOf(u) == {<<u, id>> : id \in DOMAIN rows[u]}
<1>1. ASSUME NEW t \in Tables
      PROVE  IsFiniteSet(KeysOf(t))
    <2>1. Len(rows[t]) \in Nat /\ DOMAIN rows[t] = 1..Len(rows[t])
        BY <1>1 DEF SomeTables
    <2>2. IsFiniteSet(1..Len(rows[t]))
        BY <2>1, FS_Interval
    <2> DEFINE f == [id \in 1..Len(rows[t]) |-> <<t, id>>]
    <2>3. f \in Surjection(1..Len(rows[t]), KeysOf(t))
        BY <2>1 DEF Surjection
    <2> QED BY <2>2, <2>3, FS_Surjection
<1>2. "meal" \in Tables /\ "payment" \in Tables /\ \A t \in Tables : t = "meal" \/ t = "payment"
    BY DEF Tables
<1>3. Keys(rows) = KeysOf("meal") \cup KeysOf("payment")
    BY <1>2 DEF Keys
<1> HIDE DEF KeysOf
<1> QED BY <1>1, <1>2, <1>3, FS_Union

-----------------------------------------------------------------------------
(* Events that bring a journal level. *)

(* A journal goes on with true events that say all it did not hold. *)
LEMMA BroughtLevelBy ==
    ASSUME NEW records, records \in [DOMAIN records -> Rows],
           NEW entries \in Seq(Events), Readable(entries),
           Fold(entries) \in [DOMAIN Fold(entries) -> Rows], DOMAIN Fold(entries) \subseteq DOMAIN records,
           NEW more \in Seq(Events),
           \A i \in 1..Len(more) :
               /\ TrueOf(records, more[i])
               /\ more[i].event # "recorded" => Key(more[i]) \in DOMAIN Fold(entries),
           \A k \in DOMAIN records : \A c \in Columns :
               \/ k \in DOMAIN Fold(entries) /\ Fold(entries)[k][c] = records[k][c]
               \/ \E i \in 1..Len(more) : SetsColumn(more[i], k, c)
    PROVE  entries \o more \in Seq(Events) /\ Readable(entries \o more) /\ Fold(entries \o more) = records
<1> DEFINE all == entries \o more
           m == Len(entries)
<1>1. /\ all \in Seq(Events) /\ Len(all) = m + Len(more) /\ m \in Nat /\ Len(more) \in Nat
      /\ \A i \in 1..m : all[i] = entries[i]
      /\ \A i \in 1..Len(more) : all[m + i] = more[i]
      /\ DOMAIN all = 1..Len(all) /\ DOMAIN entries = 1..m
    BY ConcatProperties, LenProperties
<1> HIDE DEF all
<1>2. HeldAfter(all)[m] = Fold(entries) /\ m \in 0..Len(all) /\ m \in 0..Len(entries)
    BY <1>1, FoldOfPrefix
<1>3. DOMAIN Fold(entries) = {Key(all[i]) : i \in {j \in 1..m : all[j].event = "recorded"}}
    BY <1>1, <1>2, HeldIsRecorded
<1>4. ASSUME NEW i \in (m + 1)..Len(all)
      PROVE  /\ i - m \in 1..Len(more) /\ all[i] = more[i - m]
             /\ TrueOf(records, all[i])
             /\ all[i].event # "recorded" => Key(all[i]) \in DOMAIN Fold(entries)
    <2>1. i - m \in 1..Len(more) /\ m + (i - m) = i
        BY <1>1, <1>4
    <2> QED BY <1>1, <2>1
<1>5. ASSUME NEW i \in (m + 1)..Len(all), all[i].event # "recorded"
      PROVE  Key(all[i]) \in DOMAIN HeldAfter(all)[i - 1]
    <2>1. i - 1 \in 0..Len(all) /\ m <= i - 1
        BY <1>1, <1>5
    <2>2. DOMAIN HeldAfter(all)[i - 1] = {Key(all[l]) : l \in {j \in 1..(i - 1) : all[j].event = "recorded"}}
        BY <1>1, <2>1, HeldIsRecorded
    <2>3. \A j : j \in 1..m => j \in 1..(i - 1)
        BY <1>1, <2>1
    <2> QED BY <1>3, <1>4, <1>5, <2>2, <2>3
<1>6. RightFrom(records, all, m, Len(all))
    BY <1>1, <1>2, <1>4, <1>5, TrueEvents
<1>7. PICK after : after = Fold(all)
    OBVIOUS
<1>8. /\ after \in [DOMAIN after -> Rows]
      /\ DOMAIN Fold(entries) \subseteq DOMAIN after /\ DOMAIN after \subseteq DOMAIN records
      /\ \A k \in DOMAIN Fold(entries), c \in Columns : Fold(entries)[k][c] = records[k][c] => after[k][c] = records[k][c]
      /\ \A i \in (m + 1)..Len(all) : \A k : \A c \in Columns :
           SetsColumn(all[i], k, c) => k \in DOMAIN after /\ after[k][c] = records[k][c]
    BY <1>2, <1>6, <1>7 DEF RightFrom, Fold
<1>9. ASSUME NEW k \in DOMAIN records, NEW c \in Columns
      PROVE  k \in DOMAIN after /\ after[k][c] = records[k][c]
    <2>1. CASE k \in DOMAIN Fold(entries) /\ Fold(entries)[k][c] = records[k][c]
        BY <1>8, <2>1
    <2>2. CASE \E i \in 1..Len(more) : SetsColumn(more[i], k, c)
        <3>1. PICK i \in 1..Len(more) : SetsColumn(more[i], k, c)
            BY <2>2
        <3>2. m + i \in (m + 1)..Len(all) /\ all[m + i] = more[i]
            BY <1>1
        <3> QED BY <1>8, <3>1, <3>2
    <2> QED BY <2>1, <2>2
<1>10. after = records
    <2>1. DOMAIN after = DOMAIN records
        BY <1>8, <1>9 DEF Columns
    <2>2. ASSUME NEW k \in DOMAIN records
          PROVE  after[k] = records[k]
        <3>1. /\ after[k].amount = records[k].amount /\ after[k].voided = records[k].voided
              /\ after[k].link = records[k].link
            BY <1>9 DEF Columns
        <3>2. after[k] \in Rows /\ records[k] \in Rows
            BY <1>8, <2>1
        <3> QED BY <3>1, <3>2 DEF Rows
    <2> QED BY <1>8, <2>1, <2>2
<1>11. Readable(all)
    <2> SUFFICES ASSUME NEW i \in DOMAIN all, all[i].event # "recorded"
                 PROVE  Recorded(all, i - 1, all[i].table, all[i].id)
        BY DEF Readable
    <2>1. CASE i \in 1..m
        <3>1. Recorded(entries, i - 1, entries[i].table, entries[i].id)
            BY <1>1, <2>1 DEF Readable
        <3>2. \A j \in 1..(i - 1) : all[j] = entries[j]
            BY <1>1, <2>1
        <3> QED BY <1>1, <2>1, <3>1, <3>2 DEF Recorded
    <2>2. CASE i \notin 1..m
        <3>1. i \in (m + 1)..Len(all)
            BY <1>1, <2>2
        <3>2. PICK j \in 1..m : all[j].event = "recorded" /\ Key(all[j]) = Key(all[i])
            BY <1>3, <1>4, <3>1
        <3>3. j \in 1..(i - 1)
            BY <1>1, <3>1
        <3> QED BY <3>2, <3>3 DEF Recorded, Key
    <2> QED BY <2>1, <2>2
<1> QED BY <1>1, <1>7, <1>10, <1>11 DEF all
-----------------------------------------------------------------------------
(* The mirror and the migration. *)

(* A record of a row is an event, and true of the rows. *)
LEMMA RecordEventIsTrue ==
    ASSUME NEW rows, GoodTables(rows), NEW k \in Keys(rows)
    PROVE  LET ev == RecordEvent(rows, k[1], k[2])
           IN  /\ ev \in Events /\ ev.event = "recorded" /\ Key(ev) = k
               /\ TrueOf(Records(rows), ev)
<1>1. PICK t \in Tables : \E id \in DOMAIN rows[t] : k = <<t, id>>
    BY KeysAre
<1>2. PICK id \in DOMAIN rows[t] : k = <<t, id>>
    BY <1>1
<1>3. rows[t] \in Seq(Rows)
    BY DEF GoodTables
<1>4. id \in Nat /\ rows[t][id] \in Rows
    BY <1>3
<1> DEFINE ev == RecordEvent(rows, k[1], k[2])
<1>5. ev = [event |-> "recorded", table |-> t, id |-> id, row |-> rows[t][id]]
    BY <1>2 DEF RecordEvent
<1> HIDE DEF ev
<1>6. ev \in Events /\ ev.event = "recorded" /\ Key(ev) = k /\ ev.row = rows[t][id]
    BY <1>2, <1>4, <1>5 DEF Events, Key
<1>7. Records(rows)[k] = rows[t][id] /\ k \in DOMAIN Records(rows)
    BY <1>2, KeysAre
<1>8. TrueOf(Records(rows), ev)
    BY <1>6, <1>7 DEF TrueOf
<1> QED BY <1>6, <1>8 DEF ev

(* What a flush may find: rows that only grew since the last one, and new ones of a *)
(* good amount.                                                                     *)
Flushable(s) ==
    /\ SomeTables(s.rows) /\ GoodTables(s.flushed) /\ s.events \in Seq(Events)
    /\ \A t \in Tables : Len(s.flushed[t]) <= Len(s.rows[t])
    /\ \A t \in Tables : \A id \in DOMAIN s.rows[t] :
         id \notin DOMAIN s.flushed[t] => s.rows[t][id].amount \in Amounts

(* The amounts of the older rows are what they were. *)
AmountsStand(s) ==
    \A t \in Tables : \A id \in DOMAIN s.flushed[t] : s.rows[t][id].amount = s.flushed[t][id].amount

LEMMA UnrefusedAmountsStand ==
    ASSUME NEW s, ~Refused(s)
    PROVE  AmountsStand(s)
<1> SUFFICES ASSUME NEW t \in Tables, NEW id \in DOMAIN s.flushed[t],
                    s.rows[t][id].amount # s.flushed[t][id].amount
             PROVE  FALSE
    BY DEF AmountsStand
<1> DEFINE c == <<<<t, id>>, "amount">>
<1>1. c \in Keys(s.flushed) \X {"amount", "voided", "link"}
    BY KeysAre
<1>2. s.rows[c[1][1]][c[1][2]][c[2]] # s.flushed[c[1][1]][c[1][2]][c[2]]
    OBVIOUS
<1>3. c \in Touched(s) /\ c[2] \notin Mutable
    BY <1>1, <1>2 DEF Touched, Mutable
<1> QED BY <1>3 DEF Refused

LEMMA GoodIsFlushed ==
    ASSUME NEW s, Flushable(s), AmountsStand(s)
    PROVE  GoodTables(s.rows)
<1>1. ASSUME NEW t \in Tables
      PROVE  s.rows[t] \in Seq(Rows)
    <2>1. s.rows[t] \in Seq(AnyRows) /\ s.flushed[t] \in Seq(Rows)
        BY DEF Flushable, SomeTables, GoodTables
    <2>2. ASSUME NEW id \in DOMAIN s.rows[t]
          PROVE  s.rows[t][id] \in Rows
        <3>1. s.rows[t][id] \in AnyRows
            BY <2>1
        <3>2. s.rows[t][id].amount \in Amounts
            <4>1. CASE id \in DOMAIN s.flushed[t]
                <5>1. s.flushed[t][id] \in Rows
                    BY <2>1, <4>1
                <5>2. s.flushed[t][id].amount \in Amounts
                    BY <5>1 DEF Rows
                <5> QED BY <4>1, <5>2 DEF AmountsStand
            <4>2. CASE id \notin DOMAIN s.flushed[t]
                BY <4>2 DEF Flushable
            <4> QED BY <4>1, <4>2
        <3> QED BY <3>1, <3>2 DEF AnyRows, Rows
    <2> QED BY <2>1, <2>2, SequenceOf
<1> QED BY <1>1 DEF GoodTables, Flushable, SomeTables

(* What a flush appends makes the journal stand for the rows in hand. *)
LEMMA MirrorIsLevel ==
    ASSUME NEW s, Flushable(s), ~Refused(s), Level(s.flushed, s.events)
    PROVE  s.events \o Mirrored(s) \in Seq(Events) /\ Level(s.rows, s.events \o Mirrored(s))
<1> DEFINE records == Records(s.rows)
           more == Mirrored(s)
           new == {RecordEvent(s.rows, k[1], k[2]) : k \in Fresh(s)}
           touched == {ChangeEvent(s.rows, c[1][1], c[1][2], c[2]) : c \in Touched(s)}
<1>1. AmountsStand(s) /\ GoodTables(s.rows) /\ SomeTables(s.rows)
    BY UnrefusedAmountsStand, GoodIsFlushed DEF Flushable
<1>2. /\ s.events \in Seq(Events) /\ Readable(s.events) /\ Fold(s.events) = Records(s.flushed)
      /\ GoodTables(s.flushed)
    BY DEF Flushable, Level
<1>3. Keys(s.flushed) \subseteq Keys(s.rows)
    <2> SUFFICES ASSUME NEW t \in Tables, NEW id \in DOMAIN s.flushed[t]
                 PROVE  id \in DOMAIN s.rows[t]
        BY KeysAre
    <2>1. s.rows[t] \in Seq(Rows) /\ s.flushed[t] \in Seq(Rows) /\ Len(s.flushed[t]) <= Len(s.rows[t])
        BY <1>1, <1>2 DEF GoodTables, Flushable
    <2> QED BY <2>1
<1>4. ASSUME NEW ev \in new
      PROVE  ev \in Events /\ ev.event = "recorded" /\ TrueOf(records, ev)
    <2>1. PICK k \in Fresh(s) : ev = RecordEvent(s.rows, k[1], k[2])
        BY <1>4
    <2> QED BY <1>1, <2>1, RecordEventIsTrue DEF Fresh
<1>5. ASSUME NEW c \in Touched(s)
      PROVE  LET ev == ChangeEvent(s.rows, c[1][1], c[1][2], c[2])
             IN  /\ ev \in Events /\ Key(ev) \in Keys(s.flushed) /\ TrueOf(records, ev)
                 /\ SetsColumn(ev, c[1], c[2])
    <2>1. c \in Keys(s.flushed) \X {"amount", "voided", "link"} /\ c[2] \in {"voided", "link"}
        BY <1>5 DEF Touched, Refused, Mutable
    <2>2. PICK t \in Tables : \E id \in DOMAIN s.flushed[t] : c[1] = <<t, id>>
        BY <2>1, KeysAre
    <2>3. PICK id \in DOMAIN s.flushed[t] : c[1] = <<t, id>>
        BY <2>2
    <2>4. <<t, id>> \in Keys(s.rows) /\ <<t, id>> \in Keys(s.flushed)
        BY <1>3, <2>3, KeysAre
    <2>5. id \in DOMAIN s.rows[t]
        BY <2>4, KeysAre
    <2>6. s.rows[t] \in Seq(Rows)
        BY <1>1 DEF GoodTables
    <2>7. id \in Nat /\ s.rows[t][id] \in Rows
        BY <2>5, <2>6
    <2>8. records[<<t, id>>] = s.rows[t][id] /\ <<t, id>> \in DOMAIN records
        BY <2>4, <2>5, KeysAre
    <2> HIDE DEF records
    <2>9. CASE c[2] = "voided"
        <3> DEFINE ev == ChangeEvent(s.rows, c[1][1], c[1][2], c[2])
        <3>1. ev = [event |-> "void", table |-> t, id |-> id, voided |-> s.rows[t][id].voided]
            BY <2>3, <2>9 DEF ChangeEvent
        <3> HIDE DEF ev
        <3>2. ev \in Events /\ ev.event = "void" /\ Key(ev) = <<t, id>> /\ ev.voided = s.rows[t][id].voided
            BY <2>7, <3>1 DEF Events, Key, Rows
        <3>3. TrueOf(records, ev) /\ SetsColumn(ev, c[1], c[2])
            BY <2>3, <2>8, <2>9, <3>2 DEF TrueOf, SetsColumn
        <3> QED BY <2>4, <3>2, <3>3 DEF ev
    <2>10. CASE c[2] = "link"
        <3> DEFINE ev == ChangeEvent(s.rows, c[1][1], c[1][2], c[2])
        <3>1. ev = [event |-> "link", table |-> t, id |-> id, link |-> s.rows[t][id].link]
            BY <2>3, <2>10 DEF ChangeEvent
        <3> HIDE DEF ev
        <3>2. ev \in Events /\ ev.event = "link" /\ Key(ev) = <<t, id>> /\ ev.link = s.rows[t][id].link
            BY <2>7, <3>1 DEF Events, Key, Rows
        <3>3. TrueOf(records, ev) /\ SetsColumn(ev, c[1], c[2])
            BY <2>3, <2>8, <2>10, <3>2 DEF TrueOf, SetsColumn
        <3> QED BY <2>4, <3>2, <3>3 DEF ev
    <2> QED BY <2>1, <2>9, <2>10
<1>6. ASSUME NEW ev \in touched
      PROVE  ev \in Events /\ TrueOf(records, ev) /\ Key(ev) \in Keys(s.flushed)
    <2>1. PICK c \in Touched(s) : ev = ChangeEvent(s.rows, c[1][1], c[1][2], c[2])
        BY <1>6
    <2> QED BY <1>5, <2>1
<1>7. IsFiniteSet(Keys(s.rows)) /\ IsFiniteSet(Keys(s.flushed))
    <2>1. SomeTables(s.flushed)
        BY <1>2, GoodTablesAreSome
    <2> QED BY <1>1, <2>1, KeysAreFinite
<1>8. IsFiniteSet(new)
    <2>1. IsFiniteSet(Fresh(s))
        BY <1>7, FS_Difference DEF Fresh
    <2> DEFINE f == [k \in Fresh(s) |-> RecordEvent(s.rows, k[1], k[2])]
    <2>2. f \in Surjection(Fresh(s), new)
        BY DEF Surjection
    <2> QED BY <2>1, <2>2, FS_Surjection
<1>9. IsFiniteSet(touched)
    <2>1. IsFiniteSet({"amount", "voided", "link"})
        <3>1. IsFiniteSet({"amount"})
            BY FS_Singleton
        <3>2. IsFiniteSet({"amount"} \cup {"voided"})
            BY <3>1, FS_AddElement
        <3>3. IsFiniteSet({"amount"} \cup {"voided"} \cup {"link"})
            BY <3>2, FS_AddElement
        <3>4. {"amount"} \cup {"voided"} \cup {"link"} = {"amount", "voided", "link"}
            OBVIOUS
        <3> QED BY <3>3, <3>4
    <2>2. IsFiniteSet(Keys(s.flushed) \X {"amount", "voided", "link"})
        BY <1>7, <2>1, FS_Product
    <2>3. IsFiniteSet(Touched(s))
        <3>1. Touched(s) \subseteq Keys(s.flushed) \X {"amount", "voided", "link"}
            BY DEF Touched
        <3> QED BY <2>2, <3>1, FS_Subset
    <2> DEFINE f == [c \in Touched(s) |-> ChangeEvent(s.rows, c[1][1], c[1][2], c[2])]
    <2>4. f \in Surjection(Touched(s), touched)
        BY DEF Surjection
    <2> QED BY <2>3, <2>4, FS_Surjection
<1>10. /\ Inserts(s) \in Seq(Events) /\ \A ev \in new : \E i \in 1..Len(Inserts(s)) : Inserts(s)[i] = ev
       /\ \A i \in 1..Len(Inserts(s)) : Inserts(s)[i] \in new
    <2>1. Inserts(s) = SetToSeq(new)
        BY DEF Inserts
    <2> HIDE DEF new
    <2>2. Inserts(s) \in Seq(new) /\ \A ev \in new : \E i \in 1..Len(Inserts(s)) : Inserts(s)[i] = ev
        BY <1>8, <2>1, SetToSeqCovers
    <2>3. \A i \in DOMAIN Inserts(s) : Inserts(s)[i] \in new /\ Inserts(s)[i] \in Events
        BY <1>4, <2>2
    <2>4. Inserts(s) \in Seq(Events)
        BY <2>2, <2>3, SequenceOf
    <2> QED BY <2>2, <2>3, <2>4
<1>11. /\ Updates(s) \in Seq(Events) /\ \A ev \in touched : \E i \in 1..Len(Updates(s)) : Updates(s)[i] = ev
       /\ \A i \in 1..Len(Updates(s)) : Updates(s)[i] \in touched
    <2>1. Updates(s) = SetToSeq(touched)
        BY DEF Updates
    <2> HIDE DEF touched
    <2>2. Updates(s) \in Seq(touched) /\ \A ev \in touched : \E i \in 1..Len(Updates(s)) : Updates(s)[i] = ev
        BY <1>9, <2>1, SetToSeqCovers
    <2>3. \A i \in DOMAIN Updates(s) : Updates(s)[i] \in touched /\ Updates(s)[i] \in Events
        BY <1>6, <2>2
    <2>4. Updates(s) \in Seq(Events)
        BY <2>2, <2>3, SequenceOf
    <2> QED BY <2>2, <2>3, <2>4
<1>12. /\ more \in Seq(Events)
       /\ \A i \in 1..Len(more) : more[i] \in new \/ more[i] \in touched
       /\ \A ev : ev \in new \/ ev \in touched => \E i \in 1..Len(more) : more[i] = ev
    <2> HIDE DEF new, touched
    <2>1. /\ more \in Seq(Events) /\ Len(more) = Len(Inserts(s)) + Len(Updates(s))
          /\ Len(Inserts(s)) \in Nat /\ Len(Updates(s)) \in Nat
          /\ \A i \in 1..Len(Inserts(s)) : more[i] = Inserts(s)[i]
          /\ \A i \in 1..Len(Updates(s)) : more[Len(Inserts(s)) + i] = Updates(s)[i]
        BY <1>10, <1>11, ConcatProperties, LenProperties DEF Mirrored
    <2> HIDE DEF more
    <2>2. ASSUME NEW i \in 1..Len(more)
          PROVE  more[i] \in new \/ more[i] \in touched
        <3>1. CASE i <= Len(Inserts(s))
            BY <1>10, <2>1, <3>1
        <3>2. CASE i > Len(Inserts(s))
            <4>1. i - Len(Inserts(s)) \in 1..Len(Updates(s)) /\ Len(Inserts(s)) + (i - Len(Inserts(s))) = i
                BY <2>1, <3>2
            <4> QED BY <1>11, <2>1, <4>1
        <3> QED BY <2>1, <3>1, <3>2
    <2>3. ASSUME NEW ev, ev \in new
          PROVE  \E i \in 1..Len(more) : more[i] = ev
        <3>1. PICK i \in 1..Len(Inserts(s)) : Inserts(s)[i] = ev
            BY <1>10, <2>3
        <3>2. i \in 1..Len(more)
            BY <2>1
        <3> QED BY <2>1, <3>1, <3>2
    <2>4. ASSUME NEW ev, ev \in touched
          PROVE  \E i \in 1..Len(more) : more[i] = ev
        <3>1. PICK i \in 1..Len(Updates(s)) : Updates(s)[i] = ev
            BY <1>11, <2>4
        <3>2. Len(Inserts(s)) + i \in 1..Len(more)
            BY <2>1
        <3> QED BY <2>1, <3>1, <3>2
    <2> QED BY <2>1, <2>2, <2>3, <2>4
<1>13. /\ DOMAIN records = Keys(s.rows) /\ records \in [DOMAIN records -> Rows]
       /\ DOMAIN Fold(s.events) = Keys(s.flushed) /\ Fold(s.events) \in [DOMAIN Fold(s.events) -> Rows]
    BY <1>1, <1>2, KeysAre, RecordsOfGoodTables
<1>14. \A i \in 1..Len(more) :
         TrueOf(records, more[i]) /\ (more[i].event # "recorded" => Key(more[i]) \in DOMAIN Fold(s.events))
    <2> HIDE DEF new, touched, more, records
    <2> QED BY <1>4, <1>6, <1>12, <1>13
<1>15. ASSUME NEW k \in DOMAIN records, NEW c \in Columns
       PROVE  \/ k \in DOMAIN Fold(s.events) /\ Fold(s.events)[k][c] = records[k][c]
              \/ \E i \in 1..Len(more) : SetsColumn(more[i], k, c)
    <2>1. CASE k \in Fresh(s)
        <3> DEFINE ev == RecordEvent(s.rows, k[1], k[2])
        <3>1. ev \in new
            BY <2>1
        <3>2. ev.event = "recorded" /\ Key(ev) = k
            BY <1>1, <2>1, RecordEventIsTrue DEF Fresh
        <3> HIDE DEF ev, new, touched, more
        <3>3. PICK i \in 1..Len(more) : more[i] = ev
            BY <1>12, <3>1
        <3> QED BY <3>2, <3>3 DEF SetsColumn
    <2>2. CASE k \notin Fresh(s)
        <3>1. k \in Keys(s.flushed)
            BY <1>13, <1>15, <2>2 DEF Fresh
        <3>2. PICK t \in Tables : \E id \in DOMAIN s.flushed[t] : k = <<t, id>>
            BY <3>1, KeysAre
        <3>3. PICK id \in DOMAIN s.flushed[t] : k = <<t, id>>
            BY <3>2
        <3>4. id \in DOMAIN s.rows[t]
            BY <1>3, <3>1, <3>3, KeysAre
        <3>5. Fold(s.events)[k] = s.flushed[t][id] /\ records[k] = s.rows[t][id]
            BY <1>2, <3>3, <3>4, KeysAre
        <3>6. CASE s.rows[t][id][c] = s.flushed[t][id][c]
            BY <1>13, <3>1, <3>5, <3>6
        <3>7. CASE s.rows[t][id][c] # s.flushed[t][id][c]
            <4> DEFINE d == <<k, c>>
            <4>1. d \in Keys(s.flushed) \X {"amount", "voided", "link"}
                BY <3>1 DEF Columns
            <4>2. s.rows[d[1][1]][d[1][2]][d[2]] # s.flushed[d[1][1]][d[1][2]][d[2]]
                BY <3>3, <3>7
            <4>3. d \in Touched(s)
                BY <4>1, <4>2 DEF Touched
            <4> DEFINE ev == ChangeEvent(s.rows, d[1][1], d[1][2], d[2])
            <4>4. ev \in touched
                BY <4>3
            <4>5. SetsColumn(ev, d[1], d[2])
                BY <1>5, <4>3
            <4>6. SetsColumn(ev, k, c)
                BY <4>5
            <4> HIDE DEF ev, new, touched, more
            <4>7. PICK i \in 1..Len(more) : more[i] = ev
                BY <1>12, <4>4
            <4> QED BY <4>6, <4>7
        <3> QED BY <3>6, <3>7
    <2> QED BY <2>1, <2>2
<1>16. /\ s.events \o more \in Seq(Events) /\ Readable(s.events \o more) /\ Fold(s.events \o more) = records
    <2> HIDE DEF new, touched, more, records
    <2>1. DOMAIN Fold(s.events) \subseteq DOMAIN records
        BY <1>3, <1>13
    <2>2. more \in Seq(Events)
        BY <1>12
    <2> QED BY <1>2, <1>13, <1>14, <1>15, <2>1, <2>2, BroughtLevelBy
<1> QED BY <1>16 DEF Level

(* The migration makes any journal level that is readable and names no row that is *)
(* not there.                                                                      *)
LEMMA MigrationLevels ==
    ASSUME NEW rows, GoodTables(rows), NEW entries \in Seq(Events), Readable(entries),
           Fold(entries) \in [DOMAIN Fold(entries) -> Rows], DOMAIN Fold(entries) \subseteq Keys(rows)
    PROVE  BroughtLevel(rows, entries) \in Seq(Events) /\ Level(rows, BroughtLevel(rows, entries))
<1> DEFINE records == Records(rows)
           new == {RecordEvent(rows, k[1], k[2]) : k \in Stale(rows, entries)}
           more == SetToSeq(new)
<1>1. Stale(rows, entries) \subseteq Keys(rows)
    BY DEF Stale
<1>2. ASSUME NEW ev \in new
      PROVE  ev \in Events /\ ev.event = "recorded" /\ TrueOf(records, ev)
    <2>1. PICK k \in Stale(rows, entries) : ev = RecordEvent(rows, k[1], k[2])
        BY <1>2
    <2> QED BY <1>1, <2>1, RecordEventIsTrue
<1>3. IsFiniteSet(new)
    <2>1. IsFiniteSet(Stale(rows, entries))
        BY <1>1, GoodTablesAreSome, KeysAreFinite, FS_Subset
    <2> DEFINE f == [k \in Stale(rows, entries) |-> RecordEvent(rows, k[1], k[2])]
    <2>2. f \in Surjection(Stale(rows, entries), new)
        BY DEF Surjection
    <2> QED BY <2>1, <2>2, FS_Surjection
<1>4. more \in Seq(Events) /\ (\A i \in 1..Len(more) : more[i] \in new) /\ \A ev \in new : \E i \in 1..Len(more) : more[i] = ev
    <2> HIDE DEF new
    <2>1. more \in Seq(new) /\ \A ev \in new : \E i \in 1..Len(more) : more[i] = ev
        BY <1>3, SetToSeqCovers
    <2> HIDE DEF more
    <2>2. \A i \in DOMAIN more : more[i] \in new /\ more[i] \in Events
        BY <1>2, <2>1
    <2>3. more \in Seq(Events)
        BY <2>1, <2>2, SequenceOf
    <2> QED BY <2>1, <2>2, <2>3
<1>5. DOMAIN records = Keys(rows) /\ records \in [DOMAIN records -> Rows]
    BY KeysAre, RecordsOfGoodTables
<1>6. ASSUME NEW k \in DOMAIN records, NEW c \in Columns
      PROVE  \/ k \in DOMAIN Fold(entries) /\ Fold(entries)[k][c] = records[k][c]
             \/ \E i \in 1..Len(more) : SetsColumn(more[i], k, c)
    <2>1. CASE k \in Stale(rows, entries)
        <3> DEFINE ev == RecordEvent(rows, k[1], k[2])
        <3>1. ev \in new
            BY <2>1
        <3>2. ev.event = "recorded" /\ Key(ev) = k
            BY <1>1, <2>1, RecordEventIsTrue
        <3> HIDE DEF ev, new, more
        <3>3. PICK i \in 1..Len(more) : more[i] = ev
            BY <1>4, <3>1
        <3> QED BY <3>2, <3>3 DEF SetsColumn
    <2>2. CASE k \notin Stale(rows, entries)
        BY <1>5, <1>6, <2>2 DEF Stale
    <2> QED BY <2>1, <2>2
<1>7. /\ entries \o more \in Seq(Events) /\ Readable(entries \o more) /\ Fold(entries \o more) = records
    <2> HIDE DEF new, more, records
    <2>1. \A i \in 1..Len(more) :
            TrueOf(records, more[i]) /\ (more[i].event # "recorded" => Key(more[i]) \in DOMAIN Fold(entries))
        BY <1>2, <1>4
    <2>2. DOMAIN Fold(entries) \subseteq DOMAIN records /\ more \in Seq(Events)
        BY <1>4, <1>5
    <2> QED BY <1>5, <1>6, <2>1, <2>2, BroughtLevelBy
<1> QED BY <1>7 DEF Level, BroughtLevel
-----------------------------------------------------------------------------
(* The invariant. *)

JournalShape ==
    /\ release \in {"tables_only", "journaled"} /\ serving \in BOOLEAN
    /\ GoodTables(tables) /\ journal \in Seq(Events)

(* The journal may be behind the tables, never ahead of them. *)
BehindTheTables(rows, entries) ==
    /\ Readable(entries)
    /\ Fold(entries) \in [DOMAIN Fold(entries) -> Rows]
    /\ DOMAIN Fold(entries) \subseteq Keys(rows)

Sessions == [open : {TRUE}, rows : [Tables -> Seq(AnyRows)], flushed : [Tables -> Seq(Rows)],
             events : Seq(Events), changes : Nat]

(* A void is never taken back. *)
VoidsStand(s) ==
    \A t \in Tables : \A id \in DOMAIN s.flushed[t] : s.flushed[t][id].voided => s.rows[t][id].voided

(* What a session has in hand grew from what it flushed, and that from what was *)
(* committed; its events are those of what it flushed.                         *)
SessionStands(s) ==
    /\ s \in Sessions /\ Flushable(s) /\ VoidsStand(s)
    /\ \A t \in Tables : Ledger!Keeps(tables[t], s.flushed[t])
    /\ release = "journaled" => Level(s.flushed, s.events)
    /\ release = "tables_only" => s.events = journal /\ AmountsStand(s)

JournalInv ==
    /\ JournalShape
    /\ BehindTheTables(tables, journal)
    /\ serving /\ release = "journaled" => Level(tables, journal)
    /\ tx.open => serving /\ SessionStands(tx)
-----------------------------------------------------------------------------

(* Rows never leave the tables. *)
LEMMA KeysGrow ==
    ASSUME NEW old, NEW new, \A t \in Tables : old[t] \in Seq(AnyRows) /\ new[t] \in Seq(AnyRows) /\ Len(old[t]) <= Len(new[t])
    PROVE  Keys(old) \subseteq Keys(new)
<1> SUFFICES ASSUME NEW t \in Tables, NEW id \in DOMAIN old[t]
             PROVE  id \in DOMAIN new[t]
    BY KeysAre
<1>1. old[t] \in Seq(AnyRows) /\ new[t] \in Seq(AnyRows) /\ Len(old[t]) <= Len(new[t])
    OBVIOUS
<1> QED BY <1>1

LEMMA LevelIsBehind ==
    ASSUME NEW rows, GoodTables(rows), NEW entries, Level(rows, entries)
    PROVE  BehindTheTables(rows, entries)
    BY KeysAre, RecordsOfGoodTables DEF Level, BehindTheTables

(* A row set in hand. *)
LEMMA Changing ==
    ASSUME JournalInv, tx.open, NEW t \in Tables, NEW id \in DOMAIN tx.rows[t], NEW row \in AnyRows,
           Change(t, id, row), tx.rows[t][id].voided => row.voided,
           \/ row.amount = tx.rows[t][id].amount
           \/ id \in DOMAIN tx.flushed[t] /\ release = "journaled"
    PROVE  JournalInv'
<1>1. tx \in Sessions /\ SessionStands(tx) /\ serving
    BY DEF JournalInv, SessionStands
<1> DEFINE new == [tx.rows EXCEPT ![t] = [tx.rows[t] EXCEPT ![id] = row]]
<1>2. tx' = [tx EXCEPT !.rows = new, !.changes = tx.changes + 1]
    <2>1. tx.rows \in [Tables -> Seq(AnyRows)]
        BY <1>1 DEF Sessions
    <2> QED BY <1>1, <2>1 DEF Change, Sessions
<1>3. tx.rows \in [Tables -> Seq(AnyRows)] /\ tx.changes + 1 \in Nat
    BY <1>1 DEF Sessions
<1>4. /\ new \in [Tables -> Seq(AnyRows)]
      /\ \A u \in Tables : Len(new[u]) = Len(tx.rows[u]) /\ DOMAIN new[u] = DOMAIN tx.rows[u]
      /\ \A u \in Tables : \A i \in DOMAIN tx.rows[u] :
           new[u][i] = IF u = t /\ i = id THEN row ELSE tx.rows[u][i]
    <2>1. tx.rows[t] \in Seq(AnyRows)
        BY <1>3
    <2> DEFINE column == [tx.rows[t] EXCEPT ![id] = row]
    <2>2. /\ column \in Seq(AnyRows) /\ Len(column) = Len(tx.rows[t]) /\ DOMAIN column = DOMAIN tx.rows[t]
          /\ \A i \in DOMAIN tx.rows[t] : column[i] = IF i = id THEN row ELSE tx.rows[t][i]
        BY <2>1, ExceptSeq, LenProperties
    <2> HIDE DEF column
    <2>3. new = [tx.rows EXCEPT ![t] = column]
        BY DEF column
    <2> HIDE DEF new
    <2>4. new[t] = column /\ \A u \in Tables : u # t => new[u] = tx.rows[u]
        BY <1>3, <2>3
    <2>5. new \in [Tables -> Seq(AnyRows)]
        BY <1>3, <2>2, <2>3
    <2> QED BY <2>2, <2>4, <2>5
<1> HIDE DEF new
<1>5. /\ tx' \in Sessions /\ tx'.rows = new /\ tx'.flushed = tx.flushed /\ tx'.events = tx.events /\ tx'.open
    BY <1>1, <1>2, <1>3, <1>4 DEF Sessions
<1>6. UNCHANGED <<release, serving, tables, journal>>
    BY DEF Change
<1>7. Flushable(tx)'
    <2>1. Flushable(tx)
        BY <1>1 DEF SessionStands
    <2>2. ASSUME NEW u \in Tables, NEW i \in DOMAIN new[u], i \notin DOMAIN tx.flushed[u]
          PROVE  new[u][i].amount \in Amounts
        <3>1. tx.rows[u][i].amount \in Amounts
            BY <1>4, <2>1, <2>2 DEF Flushable
        <3> QED BY <1>4, <2>2, <3>1
    <2>3. \A u \in Tables : Len(tx.flushed[u]) <= Len(new[u])
        BY <1>4, <2>1 DEF Flushable
    <2> QED BY <1>4, <1>5, <2>1, <2>2, <2>3 DEF Flushable, SomeTables
<1>8. VoidsStand(tx)'
    <2> SUFFICES ASSUME NEW u \in Tables, NEW i \in DOMAIN tx.flushed[u], tx.flushed[u][i].voided
                 PROVE  new[u][i].voided
        BY <1>5 DEF VoidsStand
    <2>1. tx.rows[u][i].voided
        BY <1>1 DEF SessionStands, VoidsStand
    <2>2. i \in DOMAIN tx.rows[u]
        <3>1. tx.rows[u] \in Seq(AnyRows) /\ tx.flushed[u] \in Seq(Rows) /\ Len(tx.flushed[u]) <= Len(tx.rows[u])
            BY <1>1 DEF SessionStands, Sessions, Flushable
        <3> QED BY <3>1
    <2> QED BY <1>4, <2>1, <2>2
<1>9. release = "tables_only" => AmountsStand(tx)'
    <2> SUFFICES ASSUME release = "tables_only", NEW u \in Tables, NEW i \in DOMAIN tx.flushed[u]
                 PROVE  new[u][i].amount = tx.flushed[u][i].amount
        BY <1>5 DEF AmountsStand
    <2>1. tx.rows[u][i].amount = tx.flushed[u][i].amount
        BY <1>1 DEF SessionStands, AmountsStand
    <2>2. i \in DOMAIN tx.rows[u]
        <3>1. tx.rows[u] \in Seq(AnyRows) /\ tx.flushed[u] \in Seq(Rows) /\ Len(tx.flushed[u]) <= Len(tx.rows[u])
            BY <1>1 DEF SessionStands, Sessions, Flushable
        <3> QED BY <3>1
    <2> QED BY <1>4, <2>1, <2>2
<1>10. SessionStands(tx)'
    <2>1. \A u \in Tables : Ledger!Keeps(tables[u], tx.flushed[u])
        BY <1>1 DEF SessionStands
    <2>2. /\ release = "journaled" => Level(tx.flushed, tx.events)
          /\ release = "tables_only" => tx.events = journal
        BY <1>1 DEF SessionStands
    <2>3. (\A u \in Tables : Ledger!Keeps(tables[u], tx.flushed[u]))'
        BY <1>5, <1>6, <2>1 DEF Ledger!Keeps
    <2>4. (release = "journaled" => Level(tx.flushed, tx.events))'
        BY <1>5, <1>6, <2>2
    <2>5. (release = "tables_only" => tx.events = journal)'
        BY <1>5, <1>6, <2>2
    <2> QED BY <1>5, <1>6, <1>7, <1>8, <1>9, <2>3, <2>4, <2>5 DEF SessionStands
<1> QED BY <1>1, <1>5, <1>6, <1>10 DEF JournalInv, JournalShape

(* Nothing is in hand outside a session. *)
LEMMA NothingInHand ==
    ASSUME JournalShape', BehindTheTables(tables, journal)', tx' = Closed,
           serving' /\ release' = "journaled" => Level(tables, journal)'
    PROVE  JournalInv'
<1>1. ~tx'.open
    BY DEF Closed
<1> QED BY <1>1 DEF JournalInv

LEMMA BeginKeeps ==
    ASSUME JournalInv, Begin
    PROVE  JournalInv'
<1>1. UNCHANGED <<release, serving, tables, journal>> /\ serving
    BY DEF Begin
<1>2. /\ tx'.open /\ tx'.rows = tables /\ tx'.flushed = tables /\ tx'.events = journal
      /\ tx' = [open |-> TRUE, rows |-> tables, flushed |-> tables, events |-> journal, changes |-> 0]
    BY DEF Begin, Session
<1>3. GoodTables(tables) /\ SomeTables(tables) /\ journal \in Seq(Events)
    BY GoodTablesAreSome DEF JournalInv, JournalShape
<1>4. tx' \in Sessions
    BY <1>2, <1>3 DEF Sessions, GoodTables, SomeTables
<1>5. \A t \in Tables : Len(tables[t]) \in Nat
    BY <1>3 DEF GoodTables
<1>6. Flushable(tx)'
    BY <1>2, <1>3, <1>5 DEF Flushable, SomeTables, GoodTables
<1>7. VoidsStand(tx)' /\ AmountsStand(tx)'
    BY <1>2 DEF VoidsStand, AmountsStand
<1>8. \A t \in Tables : Ledger!Keeps(tables[t], tables[t])
    BY <1>5 DEF Ledger!Keeps
<1>9. (\A t \in Tables : Ledger!Keeps(tables[t], tx.flushed[t]))'
    BY <1>1, <1>2, <1>8 DEF Ledger!Keeps
<1>10. (release = "journaled" => Level(tx.flushed, tx.events))'
    BY <1>1, <1>2 DEF JournalInv
<1>11. SessionStands(tx)'
    BY <1>1, <1>2, <1>4, <1>6, <1>7, <1>9, <1>10 DEF SessionStands
<1> QED BY <1>1, <1>2, <1>11 DEF JournalInv, JournalShape

(* A new row. *)
LEMMA RecordKeeps ==
    ASSUME JournalInv, NEW t \in Tables, NEW amount \in Amounts, NEW link \in Links, tx.open,
           Record(t, amount, link)
    PROVE  JournalInv'
<1>1. tx \in Sessions /\ SessionStands(tx) /\ serving
    BY DEF JournalInv, SessionStands
<1> DEFINE more == Append(tx.rows[t], Row(amount, link))
           new == [tx.rows EXCEPT ![t] = more]
<1>2. tx' = [tx EXCEPT !.rows = new, !.changes = tx.changes + 1]
    <2>1. tx.rows \in [Tables -> Seq(AnyRows)]
        BY <1>1 DEF Sessions
    <2> QED BY <1>1, <2>1 DEF Record, Sessions
<1>3. tx.rows \in [Tables -> Seq(AnyRows)] /\ tx.changes + 1 \in Nat
    BY <1>1 DEF Sessions
<1>4. /\ new \in [Tables -> Seq(AnyRows)]
      /\ \A u \in Tables : Len(tx.rows[u]) <= Len(new[u])
      /\ \A u \in Tables : \A i \in DOMAIN new[u] :
           \/ i \in DOMAIN tx.rows[u] /\ new[u][i] = tx.rows[u][i]
           \/ i \notin DOMAIN tx.rows[u] /\ new[u][i].amount \in Amounts
      /\ \A u \in Tables : \A i \in DOMAIN tx.rows[u] : i \in DOMAIN new[u] /\ new[u][i] = tx.rows[u][i]
    <2>1. tx.rows[t] \in Seq(AnyRows) /\ Row(amount, link) \in AnyRows /\ Row(amount, link).amount \in Amounts
        BY <1>3 DEF Row, AnyRows
    <2>2. /\ more \in Seq(AnyRows) /\ Len(more) = Len(tx.rows[t]) + 1 /\ DOMAIN more = 1..Len(tx.rows[t]) + 1
          /\ \A i \in 1..Len(tx.rows[t]) : more[i] = tx.rows[t][i]
          /\ more[Len(tx.rows[t]) + 1] = Row(amount, link)
        BY <2>1
    <2>3. Len(tx.rows[t]) \in Nat /\ DOMAIN tx.rows[t] = 1..Len(tx.rows[t])
        BY <2>1
    <2> HIDE DEF more
    <2>4. new[t] = more /\ \A u \in Tables : u # t => new[u] = tx.rows[u]
        BY <1>3
    <2>5. new \in [Tables -> Seq(AnyRows)]
        BY <1>3, <2>2
    <2> HIDE DEF new
    <2>6. ASSUME NEW u \in Tables
          PROVE  /\ Len(tx.rows[u]) <= Len(new[u])
                 /\ \A i \in DOMAIN new[u] :
                      \/ i \in DOMAIN tx.rows[u] /\ new[u][i] = tx.rows[u][i]
                      \/ i \notin DOMAIN tx.rows[u] /\ new[u][i].amount \in Amounts
                 /\ \A i \in DOMAIN tx.rows[u] : i \in DOMAIN new[u] /\ new[u][i] = tx.rows[u][i]
        <3>1. CASE u = t
            <4>1. new[u] = more /\ DOMAIN tx.rows[u] = 1..Len(tx.rows[t]) /\ Len(tx.rows[u]) <= Len(new[u])
                BY <2>2, <2>3, <2>4, <3>1
            <4>2. \A i \in 1..Len(tx.rows[t]) : i \in DOMAIN more /\ more[i] = tx.rows[t][i]
                BY <2>2, <2>3
            <4>3. \A i \in DOMAIN more : i \in 1..Len(tx.rows[t]) \/ i = Len(tx.rows[t]) + 1
                BY <2>2, <2>3
            <4>4. Len(tx.rows[t]) + 1 \notin 1..Len(tx.rows[t]) /\ more[Len(tx.rows[t]) + 1].amount \in Amounts
                BY <2>1, <2>2, <2>3
            <4> QED BY <3>1, <4>1, <4>2, <4>3, <4>4
        <3>2. CASE u # t
            <4>1. new[u] = tx.rows[u] /\ Len(tx.rows[u]) \in Nat
                BY <1>3, <2>4, <3>2
            <4> QED BY <4>1
        <3> QED BY <3>1, <3>2
    <2> QED BY <2>5, <2>6
<1> HIDE DEF new, more
<1>5. /\ tx' \in Sessions /\ tx'.rows = new /\ tx'.flushed = tx.flushed /\ tx'.events = tx.events /\ tx'.open
    BY <1>1, <1>2, <1>3, <1>4 DEF Sessions
<1>6. UNCHANGED <<release, serving, tables, journal>>
    BY DEF Record
<1>7. Flushable(tx)
    BY <1>1 DEF SessionStands
<1>8. ASSUME NEW u \in Tables
      PROVE  /\ Len(tx.flushed[u]) <= Len(new[u])
             /\ \A i \in DOMAIN tx.flushed[u] : i \in DOMAIN tx.rows[u]
    <2>1. /\ tx.rows[u] \in Seq(AnyRows) /\ tx.flushed[u] \in Seq(Rows) /\ new[u] \in Seq(AnyRows)
          /\ Len(tx.flushed[u]) <= Len(tx.rows[u]) /\ Len(tx.rows[u]) <= Len(new[u])
        BY <1>3, <1>4, <1>7 DEF Flushable, GoodTables
    <2>2. Len(tx.rows[u]) \in Nat /\ Len(tx.flushed[u]) \in Nat /\ Len(new[u]) \in Nat
        BY <2>1
    <2>3. DOMAIN tx.rows[u] = 1..Len(tx.rows[u]) /\ DOMAIN tx.flushed[u] = 1..Len(tx.flushed[u])
        BY <2>1
    <2> QED BY <2>1, <2>2, <2>3
<1>9. Flushable(tx)'
    <2>1. ASSUME NEW u \in Tables, NEW i \in DOMAIN new[u], i \notin DOMAIN tx.flushed[u]
          PROVE  new[u][i].amount \in Amounts
        BY <1>4, <1>7, <2>1 DEF Flushable
    <2> QED BY <1>4, <1>5, <1>7, <1>8, <2>1 DEF Flushable, SomeTables
<1>10. VoidsStand(tx)'
    <2> SUFFICES ASSUME NEW u \in Tables, NEW i \in DOMAIN tx.flushed[u], tx.flushed[u][i].voided
                 PROVE  new[u][i].voided
        BY <1>5 DEF VoidsStand
    <2>1. tx.rows[u][i].voided
        BY <1>1 DEF SessionStands, VoidsStand
    <2> QED BY <1>4, <1>8, <2>1
<1>11. release = "tables_only" => AmountsStand(tx)'
    <2> SUFFICES ASSUME release = "tables_only", NEW u \in Tables, NEW i \in DOMAIN tx.flushed[u]
                 PROVE  new[u][i].amount = tx.flushed[u][i].amount
        BY <1>5 DEF AmountsStand
    <2>1. tx.rows[u][i].amount = tx.flushed[u][i].amount
        BY <1>1 DEF SessionStands, AmountsStand
    <2> QED BY <1>4, <1>8, <2>1
<1>12. SessionStands(tx)'
    <2>1. (\A u \in Tables : Ledger!Keeps(tables[u], tx.flushed[u]))'
        BY <1>1, <1>5, <1>6 DEF Ledger!Keeps, SessionStands
    <2>2. (release = "journaled" => Level(tx.flushed, tx.events))'
        BY <1>1, <1>5, <1>6 DEF SessionStands
    <2>3. (release = "tables_only" => tx.events = journal)'
        BY <1>1, <1>5, <1>6 DEF SessionStands
    <2> QED BY <1>5, <1>6, <1>9, <1>10, <1>11, <2>1, <2>2, <2>3 DEF SessionStands
<1> QED BY <1>1, <1>5, <1>6, <1>12 DEF JournalInv, JournalShape

(* A row voided, linked elsewhere, or spoilt. *)
LEMMA ChangeKeeps ==
    ASSUME JournalInv, tx.open, NEW t \in Tables, NEW id \in DOMAIN tx.rows[t],
           \/ Void(t, id)
           \/ \E link \in Links : Link(t, id, link)
           \/ Rewrite(t, id)
    PROVE  JournalInv'
<1>1. tx.rows[t][id] \in AnyRows
    <2>1. tx.rows[t] \in Seq(AnyRows)
        BY DEF JournalInv, SessionStands, Sessions
    <2> QED BY <2>1
<1>2. CASE Void(t, id)
    <2> DEFINE row == [tx.rows[t][id] EXCEPT !.voided = TRUE]
    <2>1. row \in AnyRows /\ row.voided /\ row.amount = tx.rows[t][id].amount
        BY <1>1 DEF AnyRows
    <2>2. Change(t, id, row)
        BY <1>2 DEF Void
    <2> HIDE DEF row
    <2> QED BY <2>1, <2>2, Changing
<1>3. ASSUME NEW link \in Links, Link(t, id, link)
      PROVE  JournalInv'
    <2> DEFINE row == [tx.rows[t][id] EXCEPT !.link = link]
    <2>1. row \in AnyRows /\ row.voided = tx.rows[t][id].voided /\ row.amount = tx.rows[t][id].amount
        BY <1>1 DEF AnyRows
    <2>2. Change(t, id, row)
        BY <1>3 DEF Link
    <2> HIDE DEF row
    <2> QED BY <2>1, <2>2, Changing
<1>4. CASE Rewrite(t, id)
    <2> DEFINE row == [tx.rows[t][id] EXCEPT !.amount = WrongAmount]
    <2>1. row \in AnyRows /\ row.voided = tx.rows[t][id].voided
        BY <1>1 DEF AnyRows
    <2>2. Change(t, id, row) /\ id \in DOMAIN tx.flushed[t] /\ release = "journaled"
        BY <1>4 DEF Rewrite
    <2> HIDE DEF row
    <2> QED BY <2>1, <2>2, Changing
<1> QED BY <1>2, <1>3, <1>4

(* What a flush leaves, and what a commit then publishes. *)
LEMMA FlushLeaves ==
    ASSUME JournalInv, MayFlush
    PROVE  /\ Flushed(tx) = [open |-> TRUE, rows |-> tx.rows, flushed |-> tx.rows,
                             events |-> Flushed(tx).events, changes |-> tx.changes]
           /\ GoodTables(tx.rows)
           /\ Flushed(tx).events \in Seq(Events)
           /\ release = "journaled" => Level(tx.rows, Flushed(tx).events)
           /\ release = "tables_only" => Flushed(tx).events = journal
           /\ \A t \in Tables : Ledger!Keeps(tables[t], tx.rows[t])
<1>1. tx.open /\ SessionStands(tx) /\ tx \in Sessions /\ Flushable(tx) /\ VoidsStand(tx)
    BY DEF JournalInv, MayFlush, SessionStands
<1>2. release \in {"tables_only", "journaled"}
    BY DEF JournalInv, JournalShape
<1>3. AmountsStand(tx)
    <2>1. CASE release = "journaled"
        BY <2>1, UnrefusedAmountsStand DEF MayFlush
    <2>2. CASE release = "tables_only"
        BY <1>1, <2>2 DEF SessionStands
    <2> QED BY <1>2, <2>1, <2>2
<1>4. GoodTables(tx.rows)
    BY <1>1, <1>3, GoodIsFlushed
<1> DEFINE more == IF release = "journaled" THEN Mirrored(tx) ELSE <<>>
<1>5. Flushed(tx) = [tx EXCEPT !.events = tx.events \o more, !.flushed = tx.rows]
    BY DEF Flushed
<1>6. /\ Flushed(tx).events = tx.events \o more
      /\ Flushed(tx) = [open |-> TRUE, rows |-> tx.rows, flushed |-> tx.rows,
                        events |-> Flushed(tx).events, changes |-> tx.changes]
    <2> HIDE DEF more
    <2> QED BY <1>1, <1>5 DEF Sessions
<1>7. tx.events \in Seq(Events)
    BY <1>1 DEF Sessions
<1>8. ASSUME release = "journaled"
      PROVE  Flushed(tx).events \in Seq(Events) /\ Level(tx.rows, Flushed(tx).events)
    <2>1. more = Mirrored(tx) /\ ~Refused(tx) /\ Level(tx.flushed, tx.events)
        BY <1>1, <1>8 DEF MayFlush, SessionStands
    <2>2. tx.events \o Mirrored(tx) \in Seq(Events) /\ Level(tx.rows, tx.events \o Mirrored(tx))
        BY <1>1, <2>1, MirrorIsLevel
    <2> QED BY <1>6, <1>8, <2>1, <2>2
<1>9. ASSUME release = "tables_only"
      PROVE  Flushed(tx).events \in Seq(Events) /\ Flushed(tx).events = journal
    <2>1. more = <<>> /\ tx.events = journal
        BY <1>1, <1>9 DEF SessionStands
    <2>2. tx.events \o <<>> = tx.events
        BY <1>7
    <2> QED BY <1>6, <1>7, <1>9, <2>1, <2>2
<1>10. ASSUME NEW t \in Tables
       PROVE  Ledger!Keeps(tables[t], tx.rows[t])
    <2>1. Ledger!Keeps(tables[t], tx.flushed[t])
        BY <1>1 DEF SessionStands
    <2>2. /\ tables[t] \in Seq(Rows) /\ tx.flushed[t] \in Seq(Rows) /\ tx.rows[t] \in Seq(AnyRows)
          /\ Len(tx.flushed[t]) <= Len(tx.rows[t])
        BY <1>1 DEF JournalInv, JournalShape, GoodTables, Flushable, SomeTables
    <2>3. /\ Len(tables[t]) \in Nat /\ Len(tx.flushed[t]) \in Nat /\ Len(tx.rows[t]) \in Nat
          /\ DOMAIN tables[t] = 1..Len(tables[t]) /\ DOMAIN tx.flushed[t] = 1..Len(tx.flushed[t])
        BY <2>2
    <2>4. Len(tables[t]) <= Len(tx.flushed[t])
        BY <2>1 DEF Ledger!Keeps
    <2>5. ASSUME NEW id \in DOMAIN tables[t]
          PROVE  /\ tx.rows[t][id].amount = tables[t][id].amount
                 /\ tables[t][id].voided => tx.rows[t][id].voided
        <3>1. id \in DOMAIN tx.flushed[t]
            BY <2>3, <2>4
        <3>2. /\ tx.flushed[t][id].amount = tables[t][id].amount
              /\ tables[t][id].voided => tx.flushed[t][id].voided
            BY <2>1 DEF Ledger!Keeps
        <3>3. /\ tx.rows[t][id].amount = tx.flushed[t][id].amount
              /\ tx.flushed[t][id].voided => tx.rows[t][id].voided
            BY <1>1, <1>3, <3>1 DEF AmountsStand, VoidsStand
        <3> QED BY <3>2, <3>3
    <2>6. Len(tables[t]) <= Len(tx.rows[t])
        BY <2>2, <2>3, <2>4
    <2> QED BY <2>5, <2>6 DEF Ledger!Keeps
<1> HIDE DEF more
<1> QED BY <1>2, <1>4, <1>6, <1>8, <1>9, <1>10

LEMMA FlushKeeps ==
    ASSUME JournalInv, Flush
    PROVE  JournalInv'
<1> DEFINE entries == Flushed(tx).events
<1>1. /\ GoodTables(tx.rows) /\ entries \in Seq(Events)
      /\ release = "journaled" => Level(tx.rows, entries)
      /\ release = "tables_only" => entries = journal
      /\ \A t \in Tables : Ledger!Keeps(tables[t], tx.rows[t])
      /\ Flushed(tx) = [open |-> TRUE, rows |-> tx.rows, flushed |-> tx.rows,
                        events |-> entries, changes |-> tx.changes]
    BY FlushLeaves DEF Flush
<1> HIDE DEF entries
<1>2. tx' = [open |-> TRUE, rows |-> tx.rows, flushed |-> tx.rows, events |-> entries, changes |-> tx.changes]
    BY <1>1 DEF Flush
<1>3. UNCHANGED <<release, serving, tables, journal>> /\ tx.open /\ serving /\ tx \in Sessions
    BY DEF Flush, MayFlush, JournalInv, SessionStands
<1>4. tx.rows \in [Tables -> Seq(AnyRows)] /\ tx.rows \in [Tables -> Seq(Rows)] /\ tx.changes \in Nat
    BY <1>1, <1>3 DEF Sessions, GoodTables
<1>5. tx' \in Sessions
    BY <1>1, <1>2, <1>4 DEF Sessions
<1>6. tx'.open /\ tx'.rows = tx.rows /\ tx'.flushed = tx.rows /\ tx'.events = entries
    BY <1>2
<1>7. \A t \in Tables : Len(tx.rows[t]) <= Len(tx.rows[t])
    BY <1>4
<1>8. Flushable(tx)' /\ VoidsStand(tx)' /\ AmountsStand(tx)'
    BY <1>1, <1>4, <1>6, <1>7 DEF Flushable, VoidsStand, AmountsStand, SomeTables, GoodTables
<1>9. (\A t \in Tables : Ledger!Keeps(tables[t], tx.flushed[t]))'
    BY <1>1, <1>3, <1>6 DEF Ledger!Keeps
<1>10. (release = "journaled" => Level(tx.flushed, tx.events))'
    BY <1>1, <1>3, <1>6
<1>11. (release = "tables_only" => tx.events = journal)'
    BY <1>1, <1>3, <1>6
<1>12. SessionStands(tx)'
    BY <1>5, <1>8, <1>9, <1>10, <1>11 DEF SessionStands
<1> QED BY <1>3, <1>12 DEF JournalInv, JournalShape

LEMMA CommitKeeps ==
    ASSUME JournalInv, Commit
    PROVE  JournalInv'
<1> DEFINE entries == Flushed(tx).events
<1>1. /\ GoodTables(tx.rows) /\ entries \in Seq(Events)
      /\ release = "journaled" => Level(tx.rows, entries)
      /\ release = "tables_only" => entries = journal
      /\ \A t \in Tables : Ledger!Keeps(tables[t], tx.rows[t])
    BY FlushLeaves DEF Commit
<1>2. tables' = tx.rows /\ journal' = entries /\ tx' = Closed /\ UNCHANGED <<release, serving>>
    BY DEF Commit
<1> HIDE DEF entries
<1>3. JournalShape'
    BY <1>1, <1>2 DEF JournalInv, JournalShape
<1>4. (serving /\ release = "journaled" => Level(tables, journal))'
    BY <1>1, <1>2
<1>5. BehindTheTables(tx.rows, entries)
    <2>1. CASE release = "journaled"
        BY <1>1, <2>1, LevelIsBehind
    <2>2. CASE release = "tables_only"
        <3>1. BehindTheTables(tables, journal) /\ entries = journal
            BY <1>1, <2>2 DEF JournalInv
        <3>2. Keys(tables) \subseteq Keys(tx.rows)
            <4>1. SomeTables(tables) /\ SomeTables(tx.rows)
                BY <1>1, GoodTablesAreSome DEF JournalInv, JournalShape
            <4>2. \A t \in Tables : /\ tables[t] \in Seq(AnyRows) /\ tx.rows[t] \in Seq(AnyRows)
                                    /\ Len(tables[t]) <= Len(tx.rows[t])
                BY <1>1, <4>1 DEF Ledger!Keeps, SomeTables
            <4> QED BY <4>2, KeysGrow
        <3> QED BY <3>1, <3>2 DEF BehindTheTables
    <2> QED BY <2>1, <2>2 DEF JournalInv, JournalShape
<1>6. BehindTheTables(tables, journal)'
    BY <1>2, <1>5
<1> QED BY <1>2, <1>3, <1>4, <1>6, NothingInHand

LEMMA MigrateKeeps ==
    ASSUME JournalInv, Migrate
    PROVE  JournalInv'
<1> DEFINE entries == BroughtLevel(tables, journal)
<1>1. GoodTables(tables) /\ journal \in Seq(Events) /\ BehindTheTables(tables, journal) /\ ~tx.open
    BY DEF JournalInv, JournalShape, Migrate
<1>2. entries \in Seq(Events) /\ Level(tables, entries)
    BY <1>1, MigrationLevels DEF BehindTheTables
<1>3. journal' = entries /\ UNCHANGED <<release, serving, tables, tx>> /\ ~serving
    BY DEF Migrate
<1> HIDE DEF entries
<1>4. BehindTheTables(tables, entries)
    BY <1>1, <1>2, LevelIsBehind
<1>5. BehindTheTables(tables, journal)'
    BY <1>3, <1>4
<1>6. JournalShape'
    BY <1>2, <1>3 DEF JournalInv, JournalShape
<1> QED BY <1>1, <1>3, <1>5, <1>6 DEF JournalInv

(* Starting and stopping. *)
LEMMA OperatingKeeps ==
    ASSUME JournalInv,
           \/ Rollback \/ Stop \/ Start
           \/ \E r \in {"tables_only", "journaled"} : Deploy(r)
           \/ UNCHANGED vars
    PROVE  JournalInv'
<1>1. UNCHANGED <<tables, journal>>
    BY DEF Rollback, Stop, Start, Deploy, vars
<1>2. BehindTheTables(tables, journal)'
    BY <1>1 DEF JournalInv
<1>3. JournalShape'
    BY <1>1 DEF Rollback, Stop, Start, Deploy, vars, JournalInv, JournalShape
<1>4. (serving /\ release = "journaled" => Level(tables, journal))'
    BY <1>1 DEF Rollback, Stop, Start, Deploy, vars, JournalInv
<1>5. CASE tx' = Closed
    BY <1>2, <1>3, <1>4, <1>5, NothingInHand
<1>6. CASE UNCHANGED tx /\ ~tx.open
    BY <1>2, <1>3, <1>4, <1>6 DEF JournalInv
<1>7. CASE UNCHANGED vars
    <2>1. (tx.open => serving /\ SessionStands(tx))'
        BY <1>7 DEF JournalInv, vars, SessionStands, Flushable, VoidsStand, AmountsStand, Ledger!Keeps
    <2> QED BY <1>2, <1>3, <1>4, <2>1 DEF JournalInv
<1> QED BY <1>5, <1>6, <1>7 DEF Rollback, Stop, Start, Deploy, JournalInv

LEMMA EmptyIsLevel == Level(Empty, <<>>) /\ GoodTables(Empty)
<1>1. DOMAIN Empty = Tables /\ \A t \in Tables : Empty[t] = <<>> /\ DOMAIN Empty[t] = {}
    BY DEF Empty
<1>2. GoodTables(Empty)
    BY <1>1 DEF GoodTables, Empty
<1>3. Keys(Empty) = {}
    BY <1>1, KeysAre
<1>4. Fold(<<>>) = <<>> /\ Readable(<<>>)
    <2>1. Len(<<>>) = 0 /\ <<>> \in Seq(Events)
        OBVIOUS
    <2>2. Fold(<<>>) = <<>>
        BY <2>1, FoldSteps DEF Fold
    <2> QED BY <2>2 DEF Readable
<1>5. Records(Empty) = <<>>
    BY <1>3 DEF Records
<1> QED BY <1>2, <1>4, <1>5 DEF Level
-----------------------------------------------------------------------------

(* The journal is always readable, never ahead of the tables, and level with them while *)
(* the release that reads it serves.                                                    *)
THEOREM JournalIsSound == Spec => []JournalInv
<1>1. Init => JournalInv
    <2> SUFFICES ASSUME Init PROVE JournalInv
        OBVIOUS
    <2>1. tables = Empty /\ journal = <<>> /\ tx = Closed /\ release = "tables_only" /\ serving = TRUE
        BY DEF Init
    <2>2. Level(tables, journal) /\ GoodTables(tables) /\ journal \in Seq(Events)
        BY <2>1, EmptyIsLevel
    <2>3. BehindTheTables(tables, journal)
        BY <2>2, LevelIsBehind
    <2>4. ~tx.open
        BY <2>1 DEF Closed
    <2> QED BY <2>1, <2>2, <2>3, <2>4 DEF JournalInv, JournalShape
<1>2. JournalInv /\ [Next]_vars => JournalInv'
    <2> SUFFICES ASSUME JournalInv, [Next]_vars PROVE JournalInv'
        OBVIOUS
    <2>1. CASE Begin
        BY <2>1, BeginKeeps
    <2>2. CASE Flush
        BY <2>2, FlushKeeps
    <2>3. CASE Commit
        BY <2>3, CommitKeeps
    <2>4. ASSUME NEW t \in Tables, NEW amount \in Amounts, NEW link \in Links, tx.open, Record(t, amount, link)
          PROVE  JournalInv'
        BY <2>4, RecordKeeps
    <2>5. ASSUME NEW t \in Tables, tx.open, NEW id \in DOMAIN tx.rows[t],
                 Void(t, id) \/ (\E link \in Links : Link(t, id, link)) \/ Rewrite(t, id)
          PROVE  JournalInv'
        BY <2>5, ChangeKeeps
    <2>6. CASE Migrate
        BY <2>6, MigrateKeeps
    <2>7. CASE Rollback \/ Stop \/ Start \/ (\E r \in {"tables_only", "journaled"} : Deploy(r)) \/ UNCHANGED vars
        BY <2>7, OperatingKeeps
    <2> QED BY <2>1, <2>2, <2>3, <2>4, <2>5, <2>6, <2>7 DEF Next
<1> QED BY <1>1, <1>2, PTL DEF Spec

(* While the release that reads the journal serves, the journal is level with the tables, *)
(* and a session that has flushed reads its own writes.                                   *)
THEOREM ServedJournalIsAlwaysLevel == Spec => []ServedJournalIsLevel
<1>1. JournalInv => ServedJournalIsLevel
    BY DEF JournalInv, SessionStands, ServedJournalIsLevel
<1> QED BY <1>1, JournalIsSound, PTL

(* A deploy can always bring the journal level. *)
THEOREM MigrationIsNeverRefused == Spec => []MigrationNeverRefused
<1>1. JournalInv => MigrationNeverRefused
    BY MigrationLevels DEF JournalInv, JournalShape, BehindTheTables, MigrationNeverRefused
<1> QED BY <1>1, JournalIsSound, PTL
-----------------------------------------------------------------------------
(* What the readers see. *)

(* Wherever they read from, they read the tables. *)
LEMMA ReadersReadTheTables ==
    ASSUME JournalInv
    PROVE  ReadRows = tables
<1>1. CASE serving /\ release = "journaled"
    <2>1. Fold(journal) = Records(tables)
        BY <1>1 DEF JournalInv, Level
    <2>2. GoodTables(tables)
        BY DEF JournalInv, JournalShape
    <2> DEFINE held == Records(tables)
               ids(t) == {k[2] : k \in {j \in DOMAIN held : j[1] = t}}
               column(t) == [id \in ids(t) |-> held[<<t, id>>]]
    <2>3. ASSUME NEW t \in Tables
          PROVE  column(t) = tables[t]
        <3>1. ids(t) = DOMAIN tables[t]
            <4>1. ASSUME NEW id \in ids(t)
                  PROVE  id \in DOMAIN tables[t]
                <5>1. PICK j \in DOMAIN held : j[1] = t /\ j[2] = id
                    BY <4>1
                <5> QED BY <5>1, KeysAre
            <4>2. ASSUME NEW id \in DOMAIN tables[t]
                  PROVE  id \in ids(t)
                <5>1. <<t, id>> \in DOMAIN held
                    BY KeysAre
                <5> QED BY <5>1
            <4> QED BY <4>1, <4>2
        <3>2. \A id \in DOMAIN tables[t] : held[<<t, id>>] = tables[t][id]
            BY KeysAre
        <3>3. tables[t] = [id \in DOMAIN tables[t] |-> tables[t][id]]
            BY <2>2 DEF GoodTables
        <3> HIDE DEF held, ids
        <3> QED BY <3>1, <3>2, <3>3
    <2>4. FoldedRows = [t \in Tables |-> column(t)]
        BY <2>1 DEF FoldedRows
    <2>5. tables = [t \in Tables |-> tables[t]]
        BY <2>2 DEF GoodTables
    <2> HIDE DEF column
    <2>6. FoldedRows = tables
        BY <2>3, <2>4, <2>5
    <2> QED BY <1>1, <2>6 DEF ReadRows
<1>2. CASE ~(serving /\ release = "journaled")
    BY <1>2 DEF ReadRows
<1> QED BY <1>1, <1>2

(* Whichever release serves, and wherever it reads from, its readers see one ledger that *)
(* grows a whole transaction at a time and keeps the amounts it recorded.               *)
THEOREM ReadersAlwaysSeeOneLedger == Spec => ReadersSeeOneLedger
<1>1. Init => Ledger!Init
    BY DEF Init, Ledger!Init, ReadRows, Empty
<1>2. JournalInv => ReadRows = tables
    BY ReadersReadTheTables
<1>3. (JournalInv => ReadRows = tables)'
    BY <1>2, PTL
<1>4. JournalInv /\ JournalInv' /\ [Next]_vars => [Ledger!Transaction]_ReadRows
    <2> SUFFICES ASSUME JournalInv, JournalInv', [Next]_vars
                 PROVE  [Ledger!Transaction]_ReadRows
        OBVIOUS
    <2>1. ReadRows = tables /\ ReadRows' = tables'
        BY <1>2, <1>3
    <2>2. CASE Commit
        <3>1. tables' = tx.rows /\ \A t \in Tables : Ledger!Keeps(tables[t], tx.rows[t])
            BY <2>2, FlushLeaves DEF Commit
        <3> QED BY <2>1, <3>1 DEF Ledger!Transaction, Ledger!Keeps
    <2>3. CASE UNCHANGED tables
        BY <2>1, <2>3
    <2> QED BY <2>2, <2>3 DEF Next, Begin, Flush, Record, Change, Void, Link, Rewrite, Rollback, Stop, Start,
                              Migrate, Deploy, vars
<1> QED BY <1>1, <1>4, JournalIsSound, PTL DEF Spec, ReadersSeeOneLedger, Ledger!Spec
-----------------------------------------------------------------------------
(***************************************************************************)
(* With the default max_depth a manager asks its subs and they ask nobody: *)
(* whatever caps the profiles have, the manager is left time and calls.    *)
(*                                                                         *)
(* What makes it inductive: a nested run is given what the manager had     *)
(* left when it asked, and neither the manager's calls nor what was put    *)
(* under it changes before the nested run is over.                         *)
(*                                                                         *)
(* The theorem stops at max_depth 2: a run that was itself clamped gives   *)
(* away what its profile allows, not what it was given (MCNested).         *)
(***************************************************************************)

(* What a profile may allow. *)
ProfileCaps == [seconds : Seconds, tools : Calls]

ARun(run) ==
    /\ run = [agent |-> run.agent, profile |-> run.profile, seconds |-> run.seconds, tools |-> run.tools,
              started |-> run.started, timer |-> run.timer, calls |-> run.calls, under |-> run.under]
    /\ run.agent \in Agents /\ run.profile \in ProfileCaps
    /\ run.seconds \in Nat /\ run.tools \in Nat /\ run.started \in Nat /\ run.started <= now
    /\ run.calls \in Nat /\ run.under \in Nat
    /\ run.timer \in Nat \cup {NotYet}

(* The root's run has the caps of its profile. *)
Unclamped(run) == run.seconds = run.profile.seconds /\ run.tools = run.profile.tools

(* A run's clocks: it is not late, and has not made more calls than it may. *)
InTime(run) ==
    /\ run.timer = NotYet => now <= run.started + Delay
    /\ run.timer # NotYet => run.timer <= run.started + Delay /\ now <= run.timer + run.seconds
    /\ run.calls <= run.tools

(* What a nested run was given of the manager's caps. *)
Given(manager, run) ==
    LET before == manager.calls - 1 + manager.under IN
    /\ manager.calls > 0 /\ run.under = 0
    /\ run.started + run.seconds + Margin <= manager.started + manager.seconds
    /\ run.tools <= (IF before < manager.tools THEN manager.tools - before ELSE 1)

DelegationInv ==
    /\ now \in Nat
    /\ caps \in [Agents -> ProfileCaps] /\ maxDepth[Root] \in RootDepths
    /\ \/ runs = <<>>
       \/ \E manager : runs = <<manager>> /\ ARun(manager) /\ Unclamped(manager)
       \/ \E manager, run :
            /\ runs = <<manager, run>> /\ maxDepth[Root] = 2
            /\ ARun(manager) /\ Unclamped(manager)
            /\ ARun(run) /\ InTime(run) /\ Given(manager, run)
-----------------------------------------------------------------------------

(* The innermost run, what stands when it is put back, and a run nested in it. *)
LEMMA Two ==
    ASSUME NEW manager, NEW run
    PROVE  /\ Append(<<manager>>, run) = <<manager, run>> /\ <<manager>> \o <<run>> = <<manager, run>>
           /\ SubSeq(<<manager, run>>, 1, 1) = <<manager>>
<1> DEFINE S == {manager, run}
<1>1. <<manager>> \in Seq(S) /\ <<run>> \in Seq(S) /\ <<manager, run>> \in Seq(S)
    OBVIOUS
<1>2. /\ Len(<<manager>>) = 1 /\ Len(<<run>>) = 1 /\ Len(<<manager, run>>) = 2
      /\ <<manager>>[1] = manager /\ <<run>>[1] = run
      /\ <<manager, run>>[1] = manager /\ <<manager, run>>[2] = run
    OBVIOUS
<1> DEFINE q == <<manager>> \o <<run>>
<1>3. q \in Seq(S) /\ Len(q) = 2 /\ q[1] = manager /\ q[2] = run
    BY <1>1, <1>2, ConcatProperties
<1>4. q = <<manager, run>>
    <2>1. \A i \in 1..Len(q) : i = 1 \/ i = 2
        BY <1>3
    <2> HIDE DEF q
    <2>2. \A i \in 1..Len(q) : q[i] = <<manager, run>>[i]
        BY <1>2, <1>3, <2>1
    <2> QED BY <1>1, <1>2, <1>3, <2>2, SeqEqual
<1>5. Append(<<manager>>, run) = q
    BY <1>1, AppendIsConcat
<1> DEFINE first == SubSeq(<<manager, run>>, 1, 1)
<1>6. first \in Seq(S) /\ Len(first) = 1 /\ first[1] = manager
    BY <1>2, SubSeqProperties
<1>7. first = <<manager>>
    <2> HIDE DEF first
    <2>1. \A i \in 1..Len(first) : i = 1
        BY <1>6
    <2>2. \A i \in 1..Len(first) : first[i] = <<manager>>[i]
        BY <1>2, <1>6, <2>1
    <2> QED BY <1>1, <1>2, <1>6, <2>2, SeqEqual
<1> QED BY <1>4, <1>5, <1>7

LEMMA TopOfOne ==
    ASSUME NEW manager, runs = <<manager>>
    PROVE  /\ Top = manager /\ Len(runs) = 1 /\ Running
           /\ \A new : Put(new) = <<new>>
<1>1. Len(runs) = 1 /\ runs[1] = manager
    OBVIOUS
<1>2. Front(runs) = <<>>
    BY <1>1, SubSeqEmpty DEF Front
<1>3. \A new : <<>> \o <<new>> = <<new>>
    <2> TAKE new
    <2>1. <<new>> \in Seq({new})
        OBVIOUS
    <2> QED BY <2>1, ConcatEmptySeq
<1> QED BY <1>1, <1>2, <1>3 DEF Top, Put, Last, Running

LEMMA TopOfTwo ==
    ASSUME NEW manager, NEW run, runs = <<manager, run>>
    PROVE  /\ Top = run /\ Len(runs) = 2 /\ Running
           /\ \A new : Put(new) = <<manager, new>>
           /\ Last(Front(runs)) = manager
           /\ \A new : Front(Front(runs)) \o <<new>> = <<new>>
<1>1. Len(runs) = 2 /\ runs[2] = run
    OBVIOUS
<1>2. Front(runs) = <<manager>>
    <2>1. Len(runs) - 1 = 1
        BY <1>1
    <2>2. Front(runs) = SubSeq(runs, 1, 1)
        BY <2>1, Zenon DEF Front
    <2> QED BY <2>2, Two, Zenon
<1>3. Len(<<manager>>) = 1 /\ <<manager>>[1] = manager
    OBVIOUS
<1>4. Front(<<manager>>) = <<>>
    BY <1>3, SubSeqEmpty DEF Front
<1>5. \A new : <<>> \o <<new>> = <<new>>
    <2> TAKE new
    <2>1. <<new>> \in Seq({new})
        OBVIOUS
    <2> QED BY <2>1, ConcatEmptySeq
<1> QED BY <1>1, <1>2, <1>3, <1>4, <1>5, Two DEF Top, Put, Last, Running

LEMMA DelegationInitHolds ==
    ASSUME DelegationInit
    PROVE  DelegationInv
<1>1. /\ now = 0 /\ caps \in [Agents -> ProfileCaps] /\ maxDepth[Root] \in RootDepths
      /\ runs = <<Run(Root, caps[Root].seconds, caps[Root].tools, 0)>>
    BY DEF DelegationInit, ProfileCaps
<1> DEFINE manager == Run(Root, caps[Root].seconds, caps[Root].tools, 0)
<1>2. caps[Root] \in ProfileCaps
    BY <1>1, DepthsAssumption
<1>3. caps[Root].seconds \in Nat /\ caps[Root].tools \in Nat
    BY <1>2, CapsAssumption DEF ProfileCaps
<1>4. ARun(manager) /\ Unclamped(manager)
    BY <1>1, <1>2, <1>3, DepthsAssumption DEF Run, ARun, Unclamped, NotYet
<1> HIDE DEF manager
<1>5. runs = <<manager>>
    BY <1>1 DEF manager
<1> QED BY <1>1, <1>4, <1>5 DEF DelegationInv

LEMMA LeastIs ==
    ASSUME NEW a \in Int, NEW b \in Int
    PROVE  Least(a, b) \in {a, b} /\ Least(a, b) <= a /\ Least(a, b) <= b
    BY DEF Least

(* A step of the root's run alone. *)
LEMMA AloneKeeps ==
    ASSUME RootDepths \subseteq 0..2, DelegationInv, DelegationNext,
           NEW manager, runs = <<manager>>, ARun(manager), Unclamped(manager)
    PROVE  DelegationInv'
<1>1. Top = manager /\ Len(runs) = 1 /\ Running /\ \A new : Put(new) = <<new>>
    BY TopOfOne
<1>2. now \in Nat /\ caps \in [Agents -> ProfileCaps] /\ maxDepth[Root] \in RootDepths
    BY DEF DelegationInv
<1>3. UNCHANGED <<caps, maxDepth>>
    BY DEF DelegationNext, Tick, Begins, Call, Ask, Ends
<1>4. CASE Tick
    <2>1. now' = now + 1 /\ runs' = <<manager>>
        BY <1>4 DEF Tick
    <2>2. ARun(manager)'
        BY <1>2, <2>1 DEF ARun
    <2> QED BY <1>2, <1>3, <2>1, <2>2 DEF DelegationInv, Unclamped
<1>5. CASE Begins
    <2> SUFFICES ASSUME NEW new, new = [manager EXCEPT !.timer = now] PROVE DelegationInv'
        OBVIOUS
    <2>1. now' = now /\ runs' = <<new>>
        BY <1>1, <1>5 DEF Begins
    <2>2. ARun(new)' /\ Unclamped(new)
        BY <1>2, <2>1 DEF ARun, Unclamped
    <2> QED BY <1>2, <1>3, <2>1, <2>2 DEF DelegationInv, Unclamped
<1> DEFINE called == [manager EXCEPT !.calls = manager.calls + 1]
<1>6. /\ called.calls = manager.calls + 1 /\ called.under = manager.under /\ called.started = manager.started
      /\ called.seconds = manager.seconds /\ called.tools = manager.tools
      /\ ARun(called) /\ Unclamped(called)
    BY DEF ARun, Unclamped
<1>7. CASE Call
    <2>1. now' = now /\ runs' = <<called>>
        BY <1>1, <1>7 DEF Call
    <2> HIDE DEF called
    <2>2. ARun(called)'
        BY <1>6, <2>1 DEF ARun
    <2> QED BY <1>2, <1>3, <1>6, <2>1, <2>2 DEF DelegationInv, Unclamped
<1>8. CASE Ask
    <2>1. PICK sub \in Askable :
            runs' = IF Budget.seconds < Floor THEN <<called>>
                    ELSE Append(<<called>>, Run(sub, Least(caps[sub].seconds, Budget.seconds),
                                                Least(caps[sub].tools, Budget.tools), now))
        BY <1>1, <1>8 DEF Ask
    <2>2. now' = now
        BY <1>8 DEF Ask
    <2> HIDE DEF called
    <2>3. ARun(called)'
        BY <1>6, <2>2 DEF ARun
    <2>4. CASE Budget.seconds < Floor
        BY <1>2, <1>3, <1>6, <2>1, <2>2, <2>3, <2>4 DEF DelegationInv, Unclamped
    <2>5. CASE ~(Budget.seconds < Floor)
        <3> SUFFICES ASSUME NEW run,
                            run = Run(sub, Least(caps[sub].seconds, Budget.seconds),
                                      Least(caps[sub].tools, Budget.tools), now)
                     PROVE  DelegationInv'
            OBVIOUS
        <3>1. runs' = <<called, run>>
            BY <2>1, <2>5, Two
        <3>2. maxDepth[Root] = 2 /\ sub \in Agents
            <4>1. ~(1 >= maxDepth[Root]) /\ sub \in Delegates[manager.agent]
                BY <1>1, <2>1 DEF Askable, DepthLimit
            <4>2. maxDepth[Root] \in 0..2
                BY <1>2
            <4>3. maxDepth[Root] = 2
                BY <4>1, <4>2
            <4>4. Delegates[manager.agent] \subseteq Agents
                BY DelegatesAssumption DEF ARun
            <4> QED BY <4>1, <4>3, <4>4
        <3>3. caps[sub] \in ProfileCaps /\ caps[sub].seconds \in Nat /\ caps[sub].tools \in Nat
            BY <1>2, <3>2, CapsAssumption DEF ProfileCaps
        <3>4. /\ manager.started \in Nat /\ manager.seconds \in Nat /\ manager.tools \in Nat
              /\ manager.calls \in Nat /\ manager.under \in Nat /\ manager.started <= now
              /\ manager.profile.seconds = manager.seconds /\ manager.profile.tools = manager.tools
              /\ Margin \in Nat /\ Floor \in Nat
            BY CapsAssumption DEF ARun, Unclamped
        <3> DEFINE used == manager.calls + manager.under
                   seconds == manager.seconds - (now - manager.started) - Margin
                   tools == IF manager.tools - used > 1 THEN manager.tools - used ELSE 1
        <3>5. Budget.seconds = seconds /\ Budget.tools = tools
            BY <1>1, <3>4 DEF Budget, Used
        <3>6. /\ seconds \in Nat /\ tools \in Nat
              /\ tools <= (IF used < manager.tools THEN manager.tools - used ELSE 1)
            BY <1>2, <2>5, <3>4, <3>5
        <3>7. /\ run.agent = sub /\ run.profile = caps[sub] /\ run.started = now /\ run.timer = NotYet
              /\ run.calls = 0 /\ run.under = 0
              /\ run.seconds \in Nat /\ run.seconds <= seconds
              /\ run.tools \in Nat /\ run.tools <= tools
              /\ run = [agent |-> run.agent, profile |-> run.profile, seconds |-> run.seconds, tools |-> run.tools,
                        started |-> run.started, timer |-> run.timer, calls |-> run.calls, under |-> run.under]
            <4> HIDE DEF seconds, tools
            <4> DEFINE forSeconds == Least(caps[sub].seconds, Budget.seconds)
                       forTools == Least(caps[sub].tools, Budget.tools)
            <4>1. forSeconds \in Nat /\ forSeconds <= seconds /\ forTools \in Nat /\ forTools <= tools
                BY <3>3, <3>5, <3>6, LeastIs
            <4> HIDE DEF forSeconds, forTools
            <4>2. run = [agent |-> sub, profile |-> caps[sub], seconds |-> forSeconds, tools |-> forTools,
                         started |-> now, timer |-> NotYet, calls |-> 0, under |-> 0]
                BY DEF Run, forSeconds, forTools
            <4> QED BY <4>1, <4>2
        <3>8. ARun(run)'
            BY <1>2, <2>2, <3>2, <3>3, <3>7 DEF ARun
        <3>9. InTime(run)'
            BY <1>2, <2>2, <3>7, CapsAssumption DEF InTime
        <3>10. Given(called, run)
            <4>1. called.calls - 1 + called.under = used /\ called.calls > 0
                BY <1>6, <3>4
            <4>2. run.started + run.seconds + Margin <= called.started + called.seconds
                BY <1>2, <1>6, <3>4, <3>6, <3>7
            <4>3. run.tools <= (IF used < called.tools THEN called.tools - used ELSE 1)
                BY <1>6, <3>4, <3>6, <3>7
            <4> HIDE DEF used
            <4> QED BY <3>7, <4>1, <4>2, <4>3 DEF Given
        <3> QED BY <1>2, <1>3, <1>6, <2>2, <2>3, <3>1, <3>2, <3>8, <3>9, <3>10 DEF DelegationInv, Unclamped, Given
    <2> QED BY <2>4, <2>5
<1>9. CASE Ends
    <2>1. now' = now /\ runs' = <<>>
        BY <1>1, <1>9 DEF Ends
    <2> QED BY <1>2, <1>3, <2>1 DEF DelegationInv
<1> QED BY <1>4, <1>5, <1>7, <1>8, <1>9 DEF DelegationNext

(* A step of the run nested in it. *)
LEMMA NestedKeeps ==
    ASSUME RootDepths \subseteq 0..2, DelegationInv, DelegationNext,
           NEW manager, NEW run, runs = <<manager, run>>, maxDepth[Root] = 2,
           ARun(manager), Unclamped(manager), ARun(run), InTime(run), Given(manager, run)
    PROVE  DelegationInv'
<1>1. /\ Top = run /\ Len(runs) = 2 /\ Running
      /\ \A new : Put(new) = <<manager, new>>
      /\ Last(Front(runs)) = manager
      /\ \A new : Front(Front(runs)) \o <<new>> = <<new>>
    BY TopOfTwo
<1>2. now \in Nat /\ caps \in [Agents -> ProfileCaps] /\ maxDepth[Root] \in RootDepths
    BY DEF DelegationInv
<1>3. UNCHANGED <<caps, maxDepth>>
    BY DEF DelegationNext, Tick, Begins, Call, Ask, Ends
<1>4. /\ run.calls \in Nat /\ run.under = 0 /\ run.tools \in Nat /\ run.seconds \in Nat /\ run.started \in Nat
      /\ run.started <= now /\ run.timer \in Nat \cup {NotYet} /\ Delay \in Nat /\ run.calls <= run.tools
    BY CapsAssumption DEF ARun, InTime, Given
<1>5. CASE Tick
    <2>1. now' = now + 1 /\ runs' = <<manager, run>>
        BY <1>5 DEF Tick
    <2>2. ARun(manager)' /\ ARun(run)'
        BY <1>2, <2>1 DEF ARun
    <2>3. IF run.timer = NotYet THEN now - run.started < Delay ELSE now < run.timer + run.seconds
        BY <1>1, <1>5 DEF Tick, Deadline
    <2>4. InTime(run)'
        <3>1. run.timer = NotYet => now + 1 <= run.started + Delay
            BY <1>2, <1>4, <2>3
        <3>2. run.timer # NotYet => run.timer <= run.started + Delay /\ now + 1 <= run.timer + run.seconds
            BY <1>2, <1>4, <2>3 DEF InTime
        <3> QED BY <2>1, <3>1, <3>2, <1>4 DEF InTime
    <2> QED BY <1>2, <1>3, <2>1, <2>2, <2>4 DEF DelegationInv, Unclamped, Given
<1>6. CASE Begins
    <2> SUFFICES ASSUME NEW new, new = [run EXCEPT !.timer = now] PROVE DelegationInv'
        OBVIOUS
    <2>1. now' = now /\ runs' = <<manager, new>> /\ run.timer = NotYet
        BY <1>1, <1>6 DEF Begins
    <2>2. /\ new.timer = now /\ new.calls = run.calls /\ new.under = run.under /\ new.tools = run.tools
          /\ new.seconds = run.seconds /\ new.started = run.started /\ ARun(new)
        BY <1>2 DEF ARun
    <2>3. ARun(manager)' /\ ARun(new)'
        BY <2>1, <2>2 DEF ARun
    <2>4. InTime(new)'
        BY <1>2, <1>4, <2>1, <2>2 DEF InTime, NotYet
    <2>5. Given(manager, new)
        BY <2>2 DEF Given
    <2> QED BY <1>2, <1>3, <2>1, <2>3, <2>4, <2>5 DEF DelegationInv, Unclamped, Given
<1> DEFINE called == [run EXCEPT !.calls = run.calls + 1]
<1>7. CASE Call \/ Ask
    <2>1. Open /\ now' = now
        BY <1>7 DEF Call, Ask
    <2>2. runs' = <<manager, called>>
        <3>1. CASE Call
            BY <1>1, <3>1 DEF Call
        <3>2. CASE Ask
            BY <1>1, <3>2 DEF Ask, Askable, DepthLimit
        <3> QED BY <1>7, <3>1, <3>2
    <2>3. run.calls < run.tools /\ run.timer # NotYet
        BY <1>1, <2>1 DEF Open
    <2>4. /\ called.timer = run.timer /\ called.calls = run.calls + 1 /\ called.under = run.under
          /\ called.tools = run.tools /\ called.seconds = run.seconds /\ called.started = run.started /\ ARun(called)
        BY DEF ARun
    <2> HIDE DEF called
    <2>5. ARun(manager)' /\ ARun(called)'
        BY <2>1, <2>4 DEF ARun
    <2>6. InTime(called)'
        BY <1>4, <2>1, <2>3, <2>4 DEF InTime
    <2>7. Given(manager, called)
        BY <2>4 DEF Given
    <2>8. (/\ runs = <<manager, called>> /\ maxDepth[Root] = 2
           /\ ARun(manager) /\ Unclamped(manager)
           /\ ARun(called) /\ InTime(called) /\ Given(manager, called))'
        BY <1>3, <2>2, <2>5, <2>6, <2>7 DEF Unclamped, Given
    <2> QED BY <1>2, <1>3, <2>1, <2>8 DEF DelegationInv
<1>8. CASE Ends
    <2> DEFINE new == [manager EXCEPT !.under = manager.under + run.calls + run.under]
    <2>1. now' = now /\ runs' = <<new>>
        <3>1. Len(runs) # 1
            BY <1>1
        <3>2. /\ UNCHANGED <<now, caps, maxDepth>>
              /\ runs' = Front(Front(runs)) \o
                         <<[Last(Front(runs)) EXCEPT !.under = @ + Top.calls + Top.under]>>
            BY <1>8, <3>1, Zenon DEF Ends
        <3>3. runs' = <<[Last(Front(runs)) EXCEPT !.under = @ + Top.calls + Top.under]>>
            BY <1>1, <3>2, Zenon
        <3>4. runs' = <<new>>
            BY <1>1, <3>3, Zenon
        <3> QED BY <3>2, <3>4
    <2>2. manager.under + run.calls + run.under \in Nat
        BY <1>4 DEF ARun
    <2>3. ARun(new) /\ Unclamped(new)
        <3> DEFINE under == manager.under + run.calls + run.under
        <3> HIDE DEF under
        <3> SUFFICES under \in Nat => ARun([manager EXCEPT !.under = under]) /\ Unclamped([manager EXCEPT !.under = under])
            BY <2>2 DEF under
        <3> QED BY <1>4 DEF ARun, Unclamped
    <2> HIDE DEF new
    <2>4. ARun(new)'
        BY <2>1, <2>3 DEF ARun
    <2> QED BY <1>2, <1>3, <2>1, <2>3, <2>4 DEF DelegationInv, Unclamped
<1> QED BY <1>5, <1>6, <1>7, <1>8 DEF DelegationNext
-----------------------------------------------------------------------------

(* With a root's max_depth of at most 2, a nested run is over while its manager still has *)
(* time to answer, no run is nested in it, and together they stay within the manager's    *)
(* tool calls but for the one a sub is always granted.                                    *)
THEOREM SubsAlwaysStayInTheBudget ==
    ASSUME RootDepths \subseteq 0..2, Delay <= Margin
    PROVE  DelegationSpec => []SubsStayInTheBudget
<1>1. DelegationInit => DelegationInv
    BY DelegationInitHolds
<1>2. DelegationInv /\ [DelegationNext]_delegationVars => DelegationInv'
    <2> SUFFICES ASSUME DelegationInv, [DelegationNext]_delegationVars PROVE DelegationInv'
        OBVIOUS
    <2>1. CASE DelegationNext
        <3>1. CASE runs = <<>>
            BY <2>1, <3>1 DEF DelegationNext, Tick, Begins, Call, Ask, Ends, Open, Running
        <3>2. CASE \E manager : runs = <<manager>> /\ ARun(manager) /\ Unclamped(manager)
            BY <2>1, <3>2, AloneKeeps
        <3>3. ASSUME NEW manager, NEW run, runs = <<manager, run>>, maxDepth[Root] = 2,
                     ARun(manager), Unclamped(manager), ARun(run), InTime(run), Given(manager, run)
              PROVE  DelegationInv'
            BY <2>1, <3>3, NestedKeeps
        <3> QED BY <3>1, <3>2, <3>3 DEF DelegationInv
    <2>2. CASE UNCHANGED delegationVars
        BY <2>2 DEF delegationVars, DelegationInv, ARun, InTime
    <2> QED BY <2>1, <2>2
<1>3. DelegationInv => SubsStayInTheBudget
    <2> SUFFICES ASSUME DelegationInv PROVE SubsStayInTheBudget
        OBVIOUS
    <2>1. maxDepth[Root] \in 0..2 /\ now \in Nat
        BY DEF DelegationInv
    <2>2. CASE runs = <<>>
        <3>1. Len(runs) = 0
            BY <2>2
        <3> QED BY <2>1, <3>1 DEF SubsStayInTheBudget, TimeIsLeftToAnswer, NestingEnds, CallsAreShared
    <2>3. ASSUME NEW manager, runs = <<manager>>
          PROVE  SubsStayInTheBudget
        <3>1. Len(runs) = 1
            BY <2>3
        <3> QED BY <2>1, <3>1 DEF SubsStayInTheBudget, TimeIsLeftToAnswer, NestingEnds, CallsAreShared
    <2>4. ASSUME NEW manager, NEW run, runs = <<manager, run>>, maxDepth[Root] = 2,
                 ARun(manager), Unclamped(manager), ARun(run), InTime(run), Given(manager, run)
          PROVE  SubsStayInTheBudget
        <3>1. Len(runs) = 2 /\ runs[1] = manager /\ runs[2] = run
            BY <2>4
        <3>2. \A i \in 1..(Len(runs) - 1) : i = 1
            BY <3>1
        <3>3. now <= manager.started + manager.seconds
            <4>1. /\ run.started \in Nat /\ run.seconds \in Nat /\ run.timer \in Nat \cup {NotYet}
                  /\ manager.started \in Nat /\ manager.seconds \in Nat /\ Delay \in Nat /\ Margin \in Nat
                BY <2>4, CapsAssumption DEF ARun
            <4>2. now <= run.started + Delay + run.seconds
                BY <2>1, <2>4, <4>1 DEF InTime
            <4>3. run.started + run.seconds + Margin <= manager.started + manager.seconds
                BY <2>4 DEF Given
            <4> QED BY <2>1, <4>1, <4>2, <4>3
        <3>4. LET before == manager.calls - 1 + manager.under
                  inside == run.calls + run.under
              IN  before + inside <= (IF before < manager.tools THEN manager.tools ELSE before + 1)
            <4>1. /\ run.calls \in Nat /\ run.under = 0 /\ run.calls <= run.tools /\ run.tools \in Nat
                  /\ manager.calls \in Nat /\ manager.under \in Nat /\ manager.tools \in Nat
                BY <2>4 DEF ARun, InTime, Given
            <4> QED BY <2>4, <4>1 DEF Given
        <3>5. TimeIsLeftToAnswer
            BY <3>1, <3>2, <3>3 DEF TimeIsLeftToAnswer
        <3>6. NestingEnds
            BY <2>4, <3>1 DEF NestingEnds
        <3>7. CallsAreShared
            <4>1. runs[1 + 1] = run
                BY <3>1
            <4> QED BY <3>1, <3>2, <3>4, <4>1 DEF CallsAreShared
        <3> QED BY <3>5, <3>6, <3>7 DEF SubsStayInTheBudget
    <2> QED BY <2>2, <2>3, <2>4 DEF DelegationInv
<1> QED BY <1>1, <1>2, <1>3, PTL DEF DelegationSpec
-----------------------------------------------------------------------------
(***************************************************************************)
(* Proofs about the memory of a room (module Memory), for every log and    *)
(* any number of crashes: no message is behind the watermark without being *)
(* in a summary, and a turn is told every earlier message, unless a person *)
(* let it go.                                                              *)
(*                                                                         *)
(* What makes it inductive: the tasks come in the order of their messages, *)
(* none before the watermark, and the window a task has read is still the  *)
(* window when its summary arrives, because only the holder of the lock    *)
(* moves the watermark.                                                    *)
(***************************************************************************)

Tasks == [kind : {"ask", "clear"}, id : Nat]
Working == [at : {"summarizing", "context"}, kind : {"ask", "clear"}, id : Nat, rows : SUBSET Nat]
AnsweringTasks == [at : {"answering"}, id : Nat, memory : SUBSET Nat, history : SUBSET Nat]

MemoryShape ==
    /\ log \in Seq(Kinds) /\ aged \in 0..Len(log) /\ watermark \in 0..Len(log)
    /\ sections \in Seq(SUBSET Nat) /\ panel \in Seq(SUBSET Nat)
    /\ jobs \in Seq(Tasks) /\ job \in {Idle} \cup Working \cup AnsweringTasks

\* The tasks wait in the order of their messages, all newer than the watermark.
InOrder ==
    /\ \A i \in DOMAIN jobs : jobs[i].id \in watermark + 1 .. Len(log) /\ aged < jobs[i].id
    /\ \A i, k \in DOMAIN jobs : i < k => jobs[i].id < jobs[k].id
    /\ job # Idle => /\ job.id \in watermark + 1 .. Len(log) /\ aged < job.id
                     /\ \A i \in DOMAIN jobs : job.id < jobs[i].id

\* The window a task has read is the window still.
WindowStands ==
    job.at = "summarizing" => job.rows = Window(job) /\ (job.kind = "ask" => job.rows # {})

\* What is summarised is behind the watermark, unless a crash came between the two files.
FoldedOnce == torn \/ \A i \in DOMAIN sections : \A m \in sections[i] : m <= watermark

MemoryInv == MemoryShape /\ InOrder /\ WindowStands /\ FoldedOnce /\ MemoryIsWhole
-----------------------------------------------------------------------------

\* Latest is the maximum of a window (messages_to_summarize returns rows in order).
LEMMA LastIsLatest ==
  ASSUME NEW S \in SUBSET Nat, S # {}, NEW b \in Nat, \A m \in S : m <= b
  PROVE  Latest(S) \in S /\ \A n \in S : n <= Latest(S)
<1> DEFINE T == {b - m : m \in S}
<1>1. T \subseteq Nat /\ T # {}
  <2>1. \A m \in S : m \in Nat /\ m <= b
    OBVIOUS
  <2>2. \A m \in S : b - m \in Nat
    BY <2>1
  <2> QED
    BY <2>2
<1>2. PICK x \in T : \A y \in T : ~(<<y, x>> \in OpToRel(<, Nat))
  <2> HIDE DEF T
  <2> QED
    BY <1>1, WFMin, NatLessThanWellFounded
<1>3. \A y \in T : ~(y < x)
  BY <1>1, <1>2 DEF OpToRel
<1>4. PICK m \in S : x = b - m
  OBVIOUS
<1>5. \A n \in S : n <= m
  <2> TAKE n \in S
  <2>1. ~(b - n < b - m)
    BY <1>3, <1>4
  <2>2. n \in Nat /\ m \in Nat
    OBVIOUS
  <2> QED
    BY <2>1, <2>2
<1> QED
  BY <1>5 DEF Latest

\* A new message leaves the earlier ones where they are.
LEMMA Posting ==
  ASSUME log \in Seq(Kinds), NEW kind \in Kinds, Posted(kind)
  PROVE  /\ log' \in Seq(Kinds) /\ Len(log) \in Nat /\ Len(log') = Len(log) + 1
         /\ Messages = 1..Len(log) /\ Messages' = 1..Len(log) + 1
         /\ \A m \in Messages : Said(m)' <=> Said(m)
  BY DEF Posted, Messages, Said

\* The windows in front of a message do not change with it.
LEMMA PostingBehind ==
  ASSUME log \in Seq(Kinds), NEW kind \in Kinds, Posted(kind), UNCHANGED watermark,
         NEW id \in 0..Len(log) + 1, watermark \in Nat
  PROVE  /\ Preceding(id)' = Preceding(id)
         /\ \A m \in Nat : m < id => (m \in After(watermark)' <=> m \in After(watermark))
<1> USE Posting
<1>1. \A m \in Nat : m < id => (m \in Messages' <=> m \in Messages)
  OBVIOUS
<1>2. Messages' \subseteq Nat
  OBVIOUS
<1> QED
  BY <1>1, <1>2 DEF Preceding, After

\* Nor does what was said before it, wherever the watermark goes meanwhile.
LEMMA PostedBefore ==
  ASSUME log \in Seq(Kinds), NEW kind \in Kinds, Posted(kind), NEW id \in 0..Len(log) + 1
  PROVE  Preceding(id)' = Preceding(id)
<1> USE Posting
<1>1. \A m \in Nat : m < id => (m \in Messages' <=> m \in Messages)
  OBVIOUS
<1>2. Messages' \subseteq Nat /\ Messages \subseteq Nat
  OBVIOUS
<1> QED
  BY <1>1, <1>2 DEF Preceding

\* Whatever a task or the panel does not touch keeps its part of the invariant.
LEMMA MembersOfSummaries ==
  ASSUME NEW m
  PROVE  m \in Summarized <=> \E i \in DOMAIN sections : m \in sections[i]
  BY DEF Summarized

LEMMA MemoryInitHolds == MemoryInit => MemoryInv
<1> SUFFICES ASSUME MemoryInit  PROVE MemoryInv
  OBVIOUS
<1>1. Preceding(1) = {}
  BY DEF MemoryInit, Preceding, Messages
<1> QED
  BY <1>1 DEF MemoryInit, MemoryInv, MemoryShape, InOrder, WindowStands, FoldedOnce, MemoryIsWhole, NothingIsForgotten,
        TurnIsToldEverything, Idle

LEMMA PostKeeps ==
  ASSUME MemoryInv, NEW kind \in {"chat", "ask", "clear"}, Post(kind)
  PROVE  MemoryInv'
<1> USE DEF MemoryInv
<1>1. /\ UNCHANGED <<aged, sections, watermark, job, letGo, torn, panel>>
      /\ \/ jobs' = jobs
         \/ kind # "chat" /\ jobs' = Append(jobs, [kind |-> kind, id |-> Len(log) + 1])
      /\ Posted(kind) /\ kind \in Kinds
  BY DEF Post, Kinds
<1>2. /\ log \in Seq(Kinds) /\ aged \in 0..Len(log) /\ watermark \in 0..Len(log)
      /\ jobs \in Seq(Tasks) /\ Len(log) \in Nat
  BY DEF MemoryShape
<1>3. /\ log' \in Seq(Kinds) /\ Len(log') = Len(log) + 1
      /\ \A id \in 0..Len(log) + 1 :
           /\ Preceding(id)' = Preceding(id)
           /\ \A m \in Nat : m < id => (m \in After(watermark)' <=> m \in After(watermark))
  BY <1>1, <1>2, Posting, PostingBehind
<1>4. kind # "chat" => [kind |-> kind, id |-> Len(log) + 1] \in Tasks
  BY <1>2 DEF Tasks
<1>5. jobs' \in Seq(Tasks)
  <2> DEFINE new == [kind |-> kind, id |-> Len(log) + 1]
  <2>1. kind # "chat" => new \in Tasks
    BY <1>4
  <2>2. jobs' = jobs \/ (kind # "chat" /\ jobs' = Append(jobs, new))
    BY <1>1
  <2> HIDE DEF new
  <2> QED
    BY <2>1, <2>2, <1>2, AppendProperties
<1>6. MemoryShape'
  BY <1>1, <1>2, <1>3, <1>5 DEF MemoryShape
<1>7. InOrder'
  <2>1. CASE jobs' = jobs
    BY <2>1, <1>1, <1>2, <1>3 DEF InOrder
  <2>2. CASE kind # "chat" /\ jobs' = Append(jobs, [kind |-> kind, id |-> Len(log) + 1])
    <3> DEFINE new == [kind |-> kind, id |-> Len(log) + 1]
    <3>0. new \in Tasks /\ new.id = Len(log) + 1
      BY <1>4, <2>2
    <3> HIDE DEF new
    <3>1. /\ DOMAIN jobs' = DOMAIN jobs \cup {Len(jobs) + 1} /\ DOMAIN jobs = 1..Len(jobs)
          /\ \A i \in DOMAIN jobs : jobs'[i] = jobs[i]
          /\ jobs'[Len(jobs) + 1] = new /\ Len(jobs) \in Nat
      BY <2>2, <3>0, <1>2 DEF new
    <3>2. \A i \in DOMAIN jobs' : jobs'[i].id \in watermark' + 1 .. Len(log') /\ aged' < jobs'[i].id
      BY <3>0, <3>1, <1>1, <1>2, <1>3 DEF InOrder
    <3>3. \A i, k \in DOMAIN jobs' : i < k => jobs'[i].id < jobs'[k].id
      BY <3>0, <3>1, <1>2 DEF InOrder
    <3>4. job' # Idle => /\ job'.id \in watermark' + 1 .. Len(log') /\ aged' < job'.id
                         /\ \A i \in DOMAIN jobs' : job'.id < jobs'[i].id
      BY <3>0, <3>1, <1>1, <1>2, <1>3 DEF InOrder
    <3> QED
      BY <3>2, <3>3, <3>4 DEF InOrder
  <2> QED
    BY <2>1, <2>2, <1>1
<1>8. job # Idle => job.id \in 0..Len(log)
  BY <1>2 DEF InOrder
<1>9. WindowStands'
  <2> SUFFICES ASSUME job.at = "summarizing"  PROVE Window(job)' = Window(job)
    BY <1>1 DEF WindowStands
  <2>1. job.id \in 0..Len(log)
    BY <1>8 DEF Idle
  <2>2. /\ \A m \in Nat : m < aged + 1 => (m \in After(watermark)' <=> m \in After(watermark))
        /\ \A m \in Nat : m < job.id => (m \in After(watermark)' <=> m \in After(watermark))
    BY <1>2, <1>3, <2>1
  <2>3. Preceding(job.id)' = Preceding(job.id) /\ \A m \in Preceding(job.id) : m \in Nat /\ m < job.id
    BY <1>1, <1>2, <1>3, <2>1 DEF Preceding, Messages
  <2>4. After(watermark)' \subseteq Nat /\ After(watermark) \subseteq Nat
    BY <1>2, <1>3 DEF After, Messages
  <2>5. After(watermark)' \cap Preceding(job.id) = After(watermark) \cap Preceding(job.id)
    BY <2>2, <2>3
  <2>6. \A m \in Nat : m <= aged => (m \in After(watermark)' <=> m \in After(watermark))
    BY <1>2, <2>2
  <2>7. {m \in After(watermark)' : m <= aged} = {m \in After(watermark) : m <= aged}
    BY <2>4, <2>6
  <2> QED
    BY <1>1, <2>3, <2>5, <2>7 DEF Window
<1>10. MemoryIsWhole'
  <2>1. Preceding(watermark + 1)' = Preceding(watermark + 1) /\ Summarized' = Summarized
    BY <1>1, <1>2, <1>3 DEF Summarized
  <2>2. job.at = "answering" => Preceding(job.id)' = Preceding(job.id)
    BY <1>1, <1>3, <1>8 DEF Idle
  <2> QED
    BY <1>1, <2>1, <2>2 DEF MemoryIsWhole, NothingIsForgotten, TurnIsToldEverything
<1> QED
  BY <1>1, <1>6, <1>7, <1>9, <1>10 DEF FoldedOnce

LEMMA TimeKeeps ==
  ASSUME MemoryInv, TimePasses
  PROVE  MemoryInv'
<1>1. /\ aged' \in 0..Len(log) /\ job = Idle /\ jobs = <<>>
      /\ UNCHANGED <<log, sections, watermark, jobs, job, letGo, torn, panel>>
  BY DEF TimePasses, MemoryInv, MemoryShape
<1>2. MemoryShape' /\ InOrder'
  BY <1>1 DEF MemoryInv, MemoryShape, InOrder
<1>3. Preceding(watermark + 1)' = Preceding(watermark + 1) /\ Summarized' = Summarized
  BY <1>1 DEF Preceding, Messages, Said, Summarized
<1>4. WindowStands' /\ FoldedOnce' /\ MemoryIsWhole'
  BY <1>1, <1>3 DEF MemoryInv, WindowStands, FoldedOnce, MemoryIsWhole, NothingIsForgotten, TurnIsToldEverything, Idle
<1> QED
  BY <1>2, <1>4 DEF MemoryInv

\* A task reads its window and goes to work; the others move up.
LEMMA MemoryBeginKeeps ==
  ASSUME MemoryInv, TakeLock
  PROVE  MemoryInv'
<1> DEFINE j == Head(jobs)
           rows == Window(j)
<1>1. /\ log \in Seq(Kinds) /\ Len(log) \in Nat /\ aged \in 0..Len(log) /\ watermark \in 0..Len(log)
      /\ jobs \in Seq(Tasks) /\ jobs # <<>> /\ job = Idle
      /\ UNCHANGED <<log, aged, sections, watermark, letGo, torn, panel>>
      /\ jobs' = Tail(jobs)
  BY DEF MemoryInv, MemoryShape, TakeLock
<1>2. /\ j \in Tasks /\ j = jobs[1] /\ jobs' \in Seq(Tasks) /\ 1 \in DOMAIN jobs
      /\ \A i \in DOMAIN jobs' : i \in Nat /\ i + 1 \in DOMAIN jobs /\ jobs'[i] = jobs[i + 1]
  BY <1>1, HeadTailProperties
<1>3. rows \subseteq Nat
  BY <1>1 DEF Window, After, Messages
<1>4. /\ job'.at = (IF j.kind = "ask" /\ rows = {} THEN "context" ELSE "summarizing")
      /\ job'.kind = j.kind /\ job'.id = j.id /\ job'.rows = rows
      /\ job' \in Working
  <2>1. job' = [at |-> IF j.kind = "ask" /\ rows = {} THEN "context" ELSE "summarizing",
                kind |-> j.kind, id |-> j.id, rows |-> rows]
    BY DEF TakeLock
  <2>2. j.kind \in {"ask", "clear"} /\ j.id \in Nat
    BY <1>2 DEF Tasks
  <2> HIDE DEF j, rows
  <2> QED
    BY <2>1, <2>2, <1>3 DEF Working
<1> HIDE DEF j
<1>5. MemoryShape'
  BY <1>1, <1>2, <1>4 DEF MemoryInv, MemoryShape
<1>6. InOrder'
  <2>1. \A i \in DOMAIN jobs' : jobs'[i].id \in watermark' + 1 .. Len(log') /\ aged' < jobs'[i].id
    BY <1>1, <1>2 DEF MemoryInv, InOrder
  <2>2. \A i, k \in DOMAIN jobs' : i < k => jobs'[i].id < jobs'[k].id
    <3> TAKE i, k \in DOMAIN jobs'
    <3> HAVE i < k
    <3>1. i + 1 \in DOMAIN jobs /\ k + 1 \in DOMAIN jobs /\ i + 1 < k + 1
      BY <1>2
    <3> QED
      BY <3>1, <1>2 DEF MemoryInv, InOrder
  <2>3. /\ job'.id \in watermark' + 1 .. Len(log') /\ aged' < job'.id
        /\ \A i \in DOMAIN jobs' : job'.id < jobs'[i].id
    <3>1. \A i \in DOMAIN jobs' : 1 < i + 1
      BY <1>1, <1>2, HeadTailProperties
    <3> QED
      BY <3>1, <1>1, <1>2, <1>4 DEF MemoryInv, InOrder
  <2> QED
    BY <2>1, <2>2, <2>3 DEF InOrder
<1>7. WindowStands'
  <2>1. Window(job)' = rows
    BY <1>1, <1>4 DEF Window, After, Preceding, Messages, Said
  <2> HIDE DEF rows
  <2> QED
    BY <2>1, <1>4 DEF WindowStands
<1>8. Preceding(watermark + 1)' = Preceding(watermark + 1) /\ Summarized' = Summarized
  BY <1>1 DEF Preceding, Messages, Said, Summarized
<1>9. FoldedOnce' /\ MemoryIsWhole'
  <2> HIDE DEF rows
  <2> QED
    BY <1>1, <1>4, <1>8 DEF MemoryInv, FoldedOnce, MemoryIsWhole, NothingIsForgotten, TurnIsToldEverything
<1> QED
  BY <1>5, <1>6, <1>7, <1>9 DEF MemoryInv

\* The turn is given what is folded and what is not, in two parts.
LEMMA ContextKeeps ==
  ASSUME MemoryInv, LoadContext
  PROVE  MemoryInv'
<1>1. /\ job.at = "context" /\ UNCHANGED <<log, aged, sections, watermark, jobs, letGo, torn, panel>>
      /\ job' = [at |-> "answering", id |-> job.id, memory |-> Summarized,
                 history |-> After(watermark) \cap Preceding(job.id)]
  BY DEF LoadContext
<1>2. /\ log \in Seq(Kinds) /\ Len(log) \in Nat /\ watermark \in 0..Len(log) /\ job \in Working
      /\ sections \in Seq(SUBSET Nat)
  BY <1>1 DEF MemoryInv, MemoryShape, Idle, AnsweringTasks
<1>3. Summarized \subseteq Nat
  BY <1>2 DEF Summarized
<1>4. job' \in AnsweringTasks /\ job' # Idle /\ job # Idle /\ job'.id = job.id /\ job'.at = "answering"
      /\ job'.memory = Summarized /\ job'.history = After(watermark) \cap Preceding(job.id)
  BY <1>1, <1>2, <1>3 DEF AnsweringTasks, Working, Idle, Preceding, Messages
<1>5. MemoryShape' /\ InOrder'
  BY <1>1, <1>4 DEF MemoryInv, MemoryShape, InOrder
<1>6. WindowStands' /\ FoldedOnce'
  BY <1>1, <1>4 DEF MemoryInv, WindowStands, FoldedOnce
<1>7. Preceding(job.id)' = Preceding(job.id) /\ Preceding(watermark + 1)' = Preceding(watermark + 1)
      /\ Summarized' = Summarized
  BY <1>1, <1>4 DEF Preceding, Messages, Said, Summarized
<1>8. Preceding(job.id) \subseteq Summarized \cup (After(watermark) \cap Preceding(job.id)) \cup letGo
  <2> SUFFICES ASSUME NEW m \in Preceding(job.id), m \notin After(watermark)
               PROVE  m \in Summarized \cup letGo
    OBVIOUS
  <2>1. m \in Messages /\ m \in Nat /\ Said(m) /\ ~(m > watermark)
    BY <1>2 DEF Preceding, After, Messages
  <2>2. m \in Preceding(watermark + 1)
    BY <2>1, <1>2 DEF Preceding
  <2> QED
    BY <2>2 DEF MemoryInv, MemoryIsWhole, NothingIsForgotten
<1>9. torn \/ Summarized \cap (After(watermark) \cap Preceding(job.id)) = {}
  <2> SUFFICES ASSUME ~torn, NEW m \in Summarized, m \in After(watermark)  PROVE FALSE
    OBVIOUS
  <2>1. m <= watermark /\ m > watermark /\ m \in Nat
    BY <1>2, <1>3, MembersOfSummaries DEF MemoryInv, FoldedOnce, After
  <2> QED
    BY <2>1, <1>2
<1>10. MemoryIsWhole'
  BY <1>1, <1>4, <1>7, <1>8, <1>9 DEF MemoryInv, MemoryIsWhole, NothingIsForgotten, TurnIsToldEverything
<1> QED
  BY <1>5, <1>6, <1>10 DEF MemoryInv

LEMMA MemoryAnswerKeeps ==
  ASSUME MemoryInv, Answer
  PROVE  MemoryInv'
<1>1. /\ Posted("bot") /\ "bot" \in Kinds /\ job' = Idle
      /\ UNCHANGED <<aged, sections, watermark, jobs, letGo, torn, panel>>
  BY DEF Answer, Kinds
<1>2. /\ log \in Seq(Kinds) /\ aged \in 0..Len(log) /\ watermark \in 0..Len(log) /\ jobs \in Seq(Tasks)
  BY DEF MemoryInv, MemoryShape
<1>3. log' \in Seq(Kinds) /\ Len(log') = Len(log) + 1 /\ Len(log) \in Nat
      /\ Preceding(watermark + 1)' = Preceding(watermark + 1)
  BY <1>1, <1>2, Posting, PostingBehind
<1>4. MemoryShape' /\ InOrder'
  BY <1>1, <1>2, <1>3 DEF MemoryInv, MemoryShape, InOrder
<1>5. Summarized' = Summarized
  BY <1>1 DEF Summarized
<1>6. WindowStands' /\ FoldedOnce' /\ MemoryIsWhole'
  BY <1>1, <1>3, <1>5 DEF MemoryInv, WindowStands, FoldedOnce, MemoryIsWhole, NothingIsForgotten,
        TurnIsToldEverything, Idle
<1> QED
  BY <1>4, <1>6 DEF MemoryInv

\* Moving the watermark to the end of a window passes by that window only.
LEMMA Folding ==
  ASSUME MemoryInv, job.at = "summarizing"
  PROVE  /\ job \in Working /\ job # Idle /\ job.rows \in SUBSET Nat
         /\ Through(job) \in watermark + 1 .. Len(log) /\ Through(job) <= job.id
         /\ job.kind = "ask" => Through(job) < job.id
         /\ \A m \in job.rows : m <= Through(job)
         /\ \A m \in Preceding(Through(job) + 1) :
              m \in Preceding(watermark + 1) \/ m \in job.rows \/ (job.kind = "clear" /\ m = job.id)
<1>1. /\ log \in Seq(Kinds) /\ Len(log) \in Nat /\ aged \in 0..Len(log) /\ watermark \in 0..Len(log)
      /\ job \in Working /\ job # Idle
  BY DEF MemoryInv, MemoryShape, Idle, AnsweringTasks
<1>2. /\ job.id \in watermark + 1 .. Len(log) /\ aged < job.id /\ job.id \in Nat
      /\ job.kind \in {"ask", "clear"} /\ job.rows \in SUBSET Nat
      /\ job.rows = Window(job) /\ (job.kind = "ask" => job.rows # {})
  BY <1>1 DEF MemoryInv, InOrder, WindowStands, Working
<1>3. \A id : \A m \in Preceding(id) : m \in Nat /\ m < id /\ m \in Messages /\ Said(m)
  BY <1>1 DEF Preceding, Messages
<1>4. \A m \in Nat : m \in Messages /\ Said(m) /\ m <= watermark => m \in Preceding(watermark + 1)
  BY <1>1 DEF Preceding
<1>5. \A m \in Nat : m \in Messages /\ Said(m) /\ ~(m <= watermark) => m \in After(watermark)
  BY <1>1 DEF After
<1>6. CASE job.kind = "clear"
  <2>1. Through(job) = job.id /\ job.rows = After(watermark) \cap Preceding(job.id)
    BY <1>2, <1>6 DEF Through, Window
  <2>2. ASSUME NEW m \in Preceding(job.id + 1), m # job.id, m \notin Preceding(watermark + 1)
        PROVE  m \in job.rows
    <3>1. m \in Nat /\ m < job.id /\ m \in Messages /\ Said(m)
      BY <1>2, <1>3, <2>2
    <3>2. m \in Preceding(job.id)
      BY <3>1 DEF Preceding
    <3> QED
      BY <3>1, <3>2, <2>1, <2>2, <1>4, <1>5
  <2>3. \A m \in job.rows : m <= job.id
    BY <1>2, <1>3, <2>1
  <2> QED
    BY <1>1, <1>2, <1>6, <2>1, <2>2, <2>3
<1>7. CASE job.kind = "ask"
  <2>1. job.rows = {m \in After(watermark) : m <= aged} /\ job.rows # {} /\ Through(job) = Latest(job.rows)
    BY <1>2, <1>7 DEF Through, Window
  <2>2. \A m \in job.rows : m <= aged /\ m > watermark /\ m \in Nat
    BY <1>2, <2>1 DEF After
  <2>3. Latest(job.rows) \in job.rows /\ \A n \in job.rows : n <= Latest(job.rows)
    <3> DEFINE S == job.rows
    <3>1. S \in SUBSET Nat /\ S # {} /\ aged \in Nat /\ \A m \in S : m <= aged
      BY <1>1, <1>2, <2>1, <2>2
    <3> HIDE DEF S
    <3>2. Latest(S) \in S /\ \A n \in S : n <= Latest(S)
      BY <3>1, LastIsLatest
    <3> QED
      BY <3>2 DEF S
  <2>4. Through(job) \in Nat /\ Through(job) > watermark /\ Through(job) <= aged
        /\ \A n \in job.rows : n <= Through(job)
    BY <2>1, <2>2, <2>3
  <2>5. ASSUME NEW m \in Preceding(Through(job) + 1), m \notin Preceding(watermark + 1)
        PROVE  m \in job.rows
    <3>1. m \in Nat /\ m <= aged /\ m \in Messages /\ Said(m)
      <4>1. m \in Nat /\ m < Through(job) + 1 /\ m \in Messages /\ Said(m)
        BY <1>3, <2>5
      <4> QED
        BY <4>1, <2>4, <1>1
    <3> QED
      BY <3>1, <2>1, <2>5, <1>4, <1>5
  <2> QED
    BY <1>1, <1>2, <1>7, <2>4, <2>5
<1> QED
  BY <1>2, <1>6, <1>7

\* A summary that is added is among the summaries; the others stay.
LEMMA Adding ==
  ASSUME sections \in Seq(SUBSET Nat), NEW rows \in SUBSET Nat, sections' = Append(sections, rows)
  PROVE  /\ sections' \in Seq(SUBSET Nat)
         /\ Summarized' = Summarized \cup rows
         /\ \A i \in DOMAIN sections' : sections'[i] = rows
                                        \/ (i \in DOMAIN sections /\ sections'[i] = sections[i])
<1>1. /\ sections' \in Seq(SUBSET Nat) /\ Len(sections) \in Nat
      /\ DOMAIN sections = 1..Len(sections) /\ DOMAIN sections' = 1..Len(sections) + 1
      /\ \A i \in 1..Len(sections) : sections'[i] = sections[i]
      /\ sections'[Len(sections) + 1] = rows
  OBVIOUS
<1>2. \A i \in DOMAIN sections' : i \in DOMAIN sections \/ i = Len(sections) + 1
  BY <1>1
<1>3. Len(sections) + 1 \in DOMAIN sections' /\ \A i \in DOMAIN sections : i \in DOMAIN sections'
  BY <1>1
<1>4. ASSUME NEW m
      PROVE  m \in Summarized' <=> m \in Summarized \cup rows
  BY <1>1, <1>2, <1>3 DEF Summarized
<1> QED
  BY <1>1, <1>2, <1>4

LEMMA ClearKeeps ==
  ASSUME MemoryInv, NEW summary \in BOOLEAN, ClearEnds(summary)
  PROVE  MemoryInv'
<1>1. /\ job.at = "summarizing" /\ job.kind = "clear" /\ job' = Idle
      /\ Posted("divider") /\ "divider" \in Kinds
      /\ watermark' = Through(job) /\ UNCHANGED <<aged, jobs, torn, panel>>
      /\ sections' = (IF summary THEN Append(sections, job.rows) ELSE sections)
      /\ letGo' = (IF summary THEN letGo ELSE letGo \cup job.rows) \cup {job.id}
  BY DEF ClearEnds, Summarizing, Kinds
<1>2. /\ log \in Seq(Kinds) /\ Len(log) \in Nat /\ aged \in 0..Len(log) /\ watermark \in 0..Len(log)
      /\ jobs \in Seq(Tasks) /\ sections \in Seq(SUBSET Nat) /\ panel \in Seq(SUBSET Nat)
  BY DEF MemoryInv, MemoryShape
<1>3. /\ job.rows \in SUBSET Nat /\ job # Idle
      /\ Through(job) \in watermark + 1 .. Len(log) /\ Through(job) <= job.id
      /\ \A m \in job.rows : m <= Through(job)
      /\ \A m \in Preceding(Through(job) + 1) :
            m \in Preceding(watermark + 1) \/ m \in job.rows \/ m = job.id
  BY <1>1, Folding
<1>4. log' \in Seq(Kinds) /\ Len(log') = Len(log) + 1
      /\ \A id \in 0..Len(log) + 1 : Preceding(id)' = Preceding(id)
  BY <1>1, <1>2, Posting, PostedBefore
<1>5. sections' \in Seq(SUBSET Nat) /\ Summarized' = Summarized \cup (IF summary THEN job.rows ELSE {})
      /\ \A i \in DOMAIN sections' : sections'[i] = job.rows
                                     \/ (i \in DOMAIN sections /\ sections'[i] = sections[i])
  <2>1. CASE summary
    BY <2>1, <1>1, <1>2, <1>3, Adding
  <2>2. CASE ~summary
    BY <2>2, <1>1, <1>2 DEF Summarized
  <2> QED
    BY <2>1, <2>2
<1>6. MemoryShape'
  BY <1>1, <1>2, <1>3, <1>4, <1>5 DEF MemoryShape
<1>7. InOrder'
  <2>1. job.id \in Nat /\ \A i \in DOMAIN jobs : job.id < jobs[i].id /\ jobs[i].id \in 1..Len(log)
    BY <1>2, <1>3 DEF MemoryInv, InOrder
  <2>2. \A i \in DOMAIN jobs : jobs[i].id \in Through(job) + 1 .. Len(log) + 1
    BY <2>1, <1>2, <1>3
  <2> QED
    BY <2>2, <1>1, <1>4 DEF MemoryInv, InOrder
<1>8. FoldedOnce'
  BY <1>1, <1>2, <1>3, <1>5 DEF MemoryInv, FoldedOnce
<1>9. NothingIsForgotten'
  <2> SUFFICES ASSUME NEW m \in Preceding(Through(job) + 1)  PROVE m \in Summarized' \cup letGo'
    <3>1. Preceding(watermark + 1)' = Preceding(Through(job) + 1)
      BY <1>1, <1>2, <1>3, <1>4
    <3> QED
      BY <3>1 DEF NothingIsForgotten
  <2>1. m \in Summarized \cup letGo \/ m \in job.rows \/ m = job.id
    BY <1>3 DEF MemoryInv, MemoryIsWhole, NothingIsForgotten
  <2> QED
    BY <2>1, <1>1, <1>5
<1>10. WindowStands' /\ TurnIsToldEverything'
  BY <1>1 DEF WindowStands, TurnIsToldEverything, Idle
<1> QED
  BY <1>6, <1>7, <1>8, <1>9, <1>10 DEF MemoryInv, MemoryIsWhole

LEMMA RolloverKeeps ==
  ASSUME MemoryInv, NEW summary \in BOOLEAN, RolloverEnds(summary)
  PROVE  MemoryInv'
<1>1. /\ job.at = "summarizing" /\ job.kind = "ask" /\ job' = [job EXCEPT !.at = "context"]
      /\ UNCHANGED <<log, aged, jobs, letGo, torn, panel>>
      /\ \/ summary /\ sections' = Append(sections, job.rows) /\ watermark' = Through(job)
         \/ UNCHANGED <<sections, watermark>>
  BY DEF RolloverEnds, Summarizing
<1>2. /\ log \in Seq(Kinds) /\ Len(log) \in Nat /\ aged \in 0..Len(log) /\ watermark \in 0..Len(log)
      /\ jobs \in Seq(Tasks) /\ sections \in Seq(SUBSET Nat)
  BY DEF MemoryInv, MemoryShape
<1>3. /\ job \in Working /\ job # Idle /\ job.rows \in SUBSET Nat
      /\ Through(job) \in watermark + 1 .. Len(log) /\ Through(job) < job.id
      /\ \A m \in job.rows : m <= Through(job)
      /\ \A m \in Preceding(Through(job) + 1) : m \in Preceding(watermark + 1) \/ m \in job.rows
  BY <1>1, Folding
<1>4. job' \in Working /\ job' # Idle /\ job'.at = "context" /\ job'.id = job.id
  BY <1>1, <1>3 DEF Working, Idle
<1>5. WindowStands' /\ TurnIsToldEverything'
  BY <1>4 DEF WindowStands, TurnIsToldEverything
<1>6. CASE UNCHANGED <<sections, watermark>>
  <2>1. MemoryShape' /\ InOrder' /\ FoldedOnce'
    BY <1>1, <1>3, <1>4, <1>6 DEF MemoryInv, MemoryShape, InOrder, FoldedOnce
  <2>2. Preceding(watermark + 1)' = Preceding(watermark + 1) /\ Summarized' = Summarized
    BY <1>1, <1>6 DEF Preceding, Messages, Said, Summarized
  <2> QED
    BY <2>1, <2>2, <1>1, <1>5 DEF MemoryInv, MemoryIsWhole, NothingIsForgotten
<1>7. CASE sections' = Append(sections, job.rows) /\ watermark' = Through(job)
  <2>1. sections' \in Seq(SUBSET Nat) /\ Summarized' = Summarized \cup job.rows
        /\ \A i \in DOMAIN sections' : sections'[i] = job.rows
                                       \/ (i \in DOMAIN sections /\ sections'[i] = sections[i])
    BY <1>2, <1>3, <1>7, Adding
  <2>2. MemoryShape'
    BY <1>1, <1>2, <1>3, <1>4, <1>7, <2>1 DEF MemoryInv, MemoryShape
  <2>3. InOrder'
    <3>1. job.id \in 1..Len(log) /\ \A i \in DOMAIN jobs : job.id < jobs[i].id /\ jobs[i].id \in 1..Len(log)
      BY <1>2, <1>3 DEF MemoryInv, InOrder
    <3>2. job.id \in Through(job) + 1 .. Len(log)
          /\ \A i \in DOMAIN jobs : jobs[i].id \in Through(job) + 1 .. Len(log)
      BY <3>1, <1>2, <1>3
    <3> QED
      BY <3>2, <1>1, <1>3, <1>4, <1>7 DEF MemoryInv, InOrder
  <2>4. FoldedOnce'
    BY <1>1, <1>2, <1>3, <1>7, <2>1 DEF MemoryInv, FoldedOnce
  <2>5. NothingIsForgotten'
    <3>1. Preceding(watermark + 1)' = Preceding(Through(job) + 1)
      BY <1>1, <1>7 DEF Preceding, Messages, Said
    <3>2. \A m \in Preceding(Through(job) + 1) : m \in Summarized \cup letGo \cup job.rows
      BY <1>3 DEF MemoryInv, MemoryIsWhole, NothingIsForgotten
    <3> QED
      BY <3>1, <3>2, <1>1, <2>1 DEF NothingIsForgotten
  <2> QED
    BY <2>2, <2>3, <2>4, <2>5, <1>5 DEF MemoryInv, MemoryIsWhole
<1> QED
  BY <1>1, <1>6, <1>7

LEMMA PanelKeeps ==
  ASSUME MemoryInv, PanelLoads
  PROVE  MemoryInv'
<1>1. panel' = sections /\ UNCHANGED <<log, aged, sections, watermark, jobs, job, letGo, torn>>
  BY DEF PanelLoads
<1>2. Preceding(watermark + 1)' = Preceding(watermark + 1) /\ Summarized' = Summarized /\ Window(job)' = Window(job)
  BY <1>1 DEF Preceding, After, Window, Messages, Said, Summarized
<1>3. \A id : Preceding(id)' = Preceding(id)
  BY <1>1 DEF Preceding, Messages, Said
<1>4. MemoryShape' /\ InOrder' /\ FoldedOnce' /\ WindowStands'
  BY <1>1, <1>2 DEF MemoryInv, MemoryShape, InOrder, FoldedOnce, WindowStands
<1>5. MemoryIsWhole'
  BY <1>1, <1>2, <1>3 DEF MemoryInv, MemoryIsWhole, NothingIsForgotten, TurnIsToldEverything
<1> QED
  BY <1>4, <1>5 DEF MemoryInv

\* Sections may go, or say less, as long as what they summarised is let go.
LEMMA Losing ==
  ASSUME MemoryInv, job = Idle, job' = Idle, sections' \in Seq(SUBSET Nat), Summarized \subseteq Summarized' \cup letGo',
         letGo \subseteq letGo', Summarized' \subseteq Summarized,
         UNCHANGED <<log, aged, watermark, jobs, torn, panel>>
  PROVE  MemoryInv'
<1>1. MemoryShape' /\ InOrder'
  BY DEF MemoryInv, MemoryShape, InOrder
<1>2. WindowStands' /\ TurnIsToldEverything'
  BY DEF WindowStands, TurnIsToldEverything, Idle
<1>3. Preceding(watermark + 1)' = Preceding(watermark + 1)
  BY DEF Preceding, Messages, Said
<1>4. NothingIsForgotten'
  BY <1>3 DEF MemoryInv, MemoryIsWhole, NothingIsForgotten
<1>5. FoldedOnce'
  <2> SUFFICES ASSUME ~torn, NEW i \in DOMAIN sections', NEW m \in sections'[i]  PROVE m <= watermark
    BY DEF FoldedOnce
  <2>1. m \in Summarized'
    BY DEF Summarized
  <2>2. m \in Summarized
    BY <2>1
  <2> QED
    BY <2>2, MembersOfSummaries DEF MemoryInv, FoldedOnce
<1> QED
  BY <1>1, <1>2, <1>4, <1>5 DEF MemoryInv, MemoryIsWhole

LEMMA EditKeeps ==
  ASSUME MemoryInv, NEW i \in DOMAIN sections, EditSection(i)
  PROVE  MemoryInv'
<1>1. /\ job = Idle /\ letGo' = letGo \cup sections[i] /\ sections' = [sections EXCEPT ![i] = {}]
      /\ UNCHANGED <<log, aged, watermark, jobs, job, torn, panel>>
  BY DEF EditSection
<1>2. sections \in Seq(SUBSET Nat)
  BY DEF MemoryInv, MemoryShape
<1>3. /\ sections' \in Seq(SUBSET Nat) /\ DOMAIN sections' = DOMAIN sections /\ sections'[i] = {}
      /\ \A k \in DOMAIN sections : k # i => sections'[k] = sections[k]
  BY <1>1, <1>2
<1>4. \A m \in Summarized' : m \in Summarized
  BY <1>3 DEF Summarized
<1>5. \A m \in Summarized : m \in Summarized' \cup sections[i]
  BY <1>3 DEF Summarized
<1> QED
  BY <1>1, <1>3, <1>4, <1>5, Losing

LEMMA DeleteKeeps ==
  ASSUME MemoryInv, NEW i \in DOMAIN sections, DeleteSection(i)
  PROVE  MemoryInv'
<1> DEFINE front == SubSeq(sections, 1, i - 1)
           back == SubSeq(sections, i + 1, Len(sections))
<1>1. /\ job = Idle /\ letGo' = letGo \cup sections[i] /\ sections' = front \o back
      /\ UNCHANGED <<log, aged, watermark, jobs, job, torn, panel>>
  BY DEF DeleteSection
<1>2. sections \in Seq(SUBSET Nat) /\ Len(sections) \in Nat /\ i \in 1..Len(sections)
      /\ DOMAIN sections = 1..Len(sections)
  BY DEF MemoryInv, MemoryShape
<1>3. /\ front \in Seq(SUBSET Nat) /\ Len(front) = i - 1
      /\ \A k \in 1..i - 1 : front[k] = sections[k]
  BY <1>2, SubSeqProperties
<1>4. /\ back \in Seq(SUBSET Nat) /\ Len(back) = Len(sections) - i
      /\ \A k \in 1..Len(sections) - i : back[k] = sections[k + i]
  BY <1>2, SubSeqProperties
<1> HIDE DEF front, back
<1>5. /\ sections' \in Seq(SUBSET Nat) /\ Len(sections') = Len(sections) - 1
      /\ \A k \in 1..Len(sections) - 1 :
            sections'[k] = IF k <= i - 1 THEN front[k] ELSE back[k - (i - 1)]
  <2>1. /\ front \o back \in Seq(SUBSET Nat) /\ Len(front \o back) = Len(front) + Len(back)
        /\ \A k \in 1..Len(front) + Len(back) :
              (front \o back)[k] = IF k <= Len(front) THEN front[k] ELSE back[k - Len(front)]
    BY <1>3, <1>4, ConcatProperties
  <2>2. Len(front) + Len(back) = Len(sections) - 1
    BY <1>2, <1>3, <1>4
  <2> QED
    BY <1>1, <1>3, <2>1, <2>2
<1>6. DOMAIN sections' = 1..Len(sections) - 1
      /\ \A k \in 1..Len(sections) - 1 : sections'[k] = IF k < i THEN sections[k] ELSE sections[k + 1]
  <2>1. DOMAIN sections' = 1..Len(sections) - 1
    BY <1>5
  <2>2. ASSUME NEW k \in 1..Len(sections) - 1, k < i  PROVE sections'[k] = sections[k]
    <3>1. k \in 1..i - 1 /\ k <= i - 1
      BY <2>2, <1>2
    <3>2. sections'[k] = front[k]
      BY <3>1, <1>5
    <3> QED
      BY <3>1, <3>2, <1>3
  <2>3. ASSUME NEW k \in 1..Len(sections) - 1, ~(k < i)  PROVE sections'[k] = sections[k + 1]
    <3>1. k - (i - 1) \in 1..Len(sections) - i /\ ~(k <= i - 1) /\ (k - (i - 1)) + i = k + 1
      BY <2>3, <1>2
    <3>2. back[k - (i - 1)] = sections[(k - (i - 1)) + i]
      BY <3>1, <1>4
    <3> QED
      BY <3>1, <3>2, <1>5
  <2> QED
    BY <2>1, <2>2, <2>3
<1>7. Summarized' \subseteq Summarized
  <2>1. \A k \in DOMAIN sections' : k \in DOMAIN sections /\ k + 1 \in DOMAIN sections
    BY <1>2, <1>6
  <2> QED
    BY <1>6, <2>1 DEF Summarized
<1>8. Summarized \subseteq Summarized' \cup sections[i]
  <2> SUFFICES ASSUME NEW k \in DOMAIN sections, k # i, NEW m \in sections[k]  PROVE m \in Summarized'
    BY DEF Summarized
  <2>1. CASE k < i
    <3>1. k \in DOMAIN sections' /\ m \in sections'[k]
      BY <1>2, <1>6, <2>1
    <3> QED
      BY <3>1 DEF Summarized
  <2>2. CASE k > i
    <3>1. k - 1 \in 1..Len(sections) - 1 /\ ~(k - 1 < i) /\ (k - 1) + 1 = k
      BY <1>2, <2>2
    <3>2. k - 1 \in DOMAIN sections' /\ sections'[k - 1] = sections[k]
      BY <3>1, <1>6
    <3> QED
      BY <3>2 DEF Summarized
  <2> QED
    BY <1>2, <2>1, <2>2
<1> QED
  BY <1>1, <1>5, <1>7, <1>8, Losing

LEMMA CrashKeeps ==
  ASSUME MemoryInv, Crash
  PROVE  MemoryInv'
<1>1. job' = Idle /\ jobs' = <<>> /\ UNCHANGED <<log, aged, sections, watermark, letGo, torn, panel>>
  BY DEF Crash, Restarted
<1>2. Preceding(watermark + 1)' = Preceding(watermark + 1) /\ Summarized' = Summarized
  BY <1>1 DEF Preceding, Messages, Said, Summarized
<1>3. MemoryShape' /\ InOrder' /\ FoldedOnce'
  BY <1>1 DEF MemoryInv, MemoryShape, InOrder, FoldedOnce
<1>4. WindowStands' /\ MemoryIsWhole'
  BY <1>1, <1>2 DEF MemoryInv, WindowStands, MemoryIsWhole, NothingIsForgotten, TurnIsToldEverything, Idle
<1> QED
  BY <1>3, <1>4 DEF MemoryInv

\* Wherever the crash falls in append_summary, the watermark is behind what is in a summary.
LEMMA TornKeeps ==
  ASSUME MemoryInv, TornCrash
  PROVE  MemoryInv'
<1>1. PICK written \in BOOLEAN :
        /\ job.at = "summarizing" /\ job' = Idle /\ jobs' = <<>> /\ torn' = TRUE
        /\ UNCHANGED <<log, aged, panel>>
        /\ IF written THEN job.rows # {} ELSE job.kind = "clear"
        /\ sections' = IF written THEN Append(sections, job.rows) ELSE sections
        /\ letGo' = IF job.kind = "ask" THEN letGo
                     ELSE letGo \cup {job.id} \cup (IF written THEN {} ELSE job.rows)
        /\ watermark' \in {watermark, 0, Through(job)}
  BY DEF TornCrash, Restarted
<1>2. /\ log \in Seq(Kinds) /\ Len(log) \in Nat /\ watermark \in 0..Len(log)
      /\ sections \in Seq(SUBSET Nat)
  BY DEF MemoryInv, MemoryShape
<1>3. /\ job.rows \in SUBSET Nat /\ job.kind \in {"ask", "clear"}
      /\ Through(job) \in watermark + 1 .. Len(log)
      /\ \A m \in Preceding(Through(job) + 1) :
            m \in Preceding(watermark + 1) \/ m \in job.rows \/ (job.kind = "clear" /\ m = job.id)
  BY <1>1, Folding DEF Working
<1>4. sections' \in Seq(SUBSET Nat) /\ Summarized' = Summarized \cup (IF written THEN job.rows ELSE {})
  <2>1. CASE written
    BY <2>1, <1>1, <1>2, <1>3, Adding
  <2>2. CASE ~written
    BY <2>2, <1>1, <1>2 DEF Summarized
  <2> QED
    BY <2>1, <2>2
<1>5. MemoryShape' /\ InOrder'
  BY <1>1, <1>2, <1>3, <1>4 DEF MemoryInv, MemoryShape, InOrder
<1>6. NothingIsForgotten'
  <2> SUFFICES ASSUME NEW m \in Preceding(Through(job) + 1)  PROVE m \in Summarized' \cup letGo'
    <3>1. Preceding(watermark + 1)' \subseteq Preceding(Through(job) + 1)
      BY <1>1, <1>2, <1>3 DEF Preceding, Messages, Said
    <3> QED
      BY <3>1 DEF NothingIsForgotten
  <2>1. \/ m \in Summarized \cup letGo
        \/ m \in job.rows
        \/ job.kind = "clear" /\ m = job.id
    BY <1>3 DEF MemoryInv, MemoryIsWhole, NothingIsForgotten
  <2> QED
    BY <2>1, <1>1, <1>3, <1>4
<1>7. WindowStands' /\ FoldedOnce' /\ TurnIsToldEverything'
  BY <1>1 DEF WindowStands, FoldedOnce, TurnIsToldEverything, Idle
<1> QED
  BY <1>5, <1>6, <1>7 DEF MemoryInv, MemoryIsWhole
-----------------------------------------------------------------------------

\* Every step keeps the invariant (the whole of Memory's MemoryNext).
LEMMA MemoryStepKeeps == MemoryInv /\ [MemoryNext]_memoryVars => MemoryInv'
<1> SUFFICES ASSUME MemoryInv, [MemoryNext]_memoryVars  PROVE MemoryInv'
  OBVIOUS
<1>1. CASE UNCHANGED memoryVars
  <2>1. Preceding(watermark + 1)' = Preceding(watermark + 1) /\ Summarized' = Summarized /\ Window(job)' = Window(job)
    BY <1>1 DEF memoryVars, Preceding, After, Window, Messages, Said, Summarized
  <2>2. \A id : Preceding(id)' = Preceding(id)
    BY <1>1 DEF memoryVars, Preceding, Messages, Said
  <2> QED
    BY <1>1, <2>1, <2>2 DEF memoryVars, MemoryInv, MemoryShape, InOrder, WindowStands, FoldedOnce, MemoryIsWhole,
          NothingIsForgotten, TurnIsToldEverything
<1>2. CASE \E kind \in {"chat", "ask", "clear"} : Post(kind)
  BY <1>2, PostKeeps
<1>3. CASE TimePasses \/ TakeLock \/ LoadContext \/ Answer
  BY <1>3, TimeKeeps, MemoryBeginKeeps, ContextKeeps, MemoryAnswerKeeps
<1>4. CASE \E summary \in BOOLEAN : ClearEnds(summary) \/ RolloverEnds(summary)
  BY <1>4, ClearKeeps, RolloverKeeps
<1>5. CASE PanelLoads \/ \E i \in DOMAIN sections : EditSection(i) \/ DeleteSection(i)
  BY <1>5, PanelKeeps, EditKeeps, DeleteKeeps
<1>6. CASE Crash \/ TornCrash
  BY <1>6, CrashKeeps, TornKeeps
<1> QED
  BY <1>1, <1>2, <1>3, <1>4, <1>5, <1>6 DEF MemoryNext

\* For any number of messages and of crashes: no message is behind the watermark without
\* being in a summary, and a turn is told every earlier message once, except what a person
\* let go and where a crash tore the files apart (ContextStore, rollover and /clear).
THEOREM MemoryStaysWhole == MemorySpec => []MemoryIsWhole
<1>1. MemorySpec => []MemoryInv
  BY MemoryInitHolds, MemoryStepKeeps, PTL DEF MemorySpec
<1>2. MemoryInv => MemoryIsWhole
  BY DEF MemoryInv
<1> QED
  BY <1>1, <1>2, PTL
-----------------------------------------------------------------------------
(***************************************************************************)
(* Proofs about the places and notes of a room (module Notes), for any     *)
(* number of places and any names: a place answers to every slug it ever   *)
(* had, its notes stay under its slug, and a waiting card names a place.   *)
(*                                                                         *)
(* What makes it inductive: no two places have one live slug.  That is     *)
(* weaker than SlugsAnswerOnce, which does not hold.                       *)
(***************************************************************************)

Places == [slug : SlugNames, formers : SUBSET SlugNames, active : BOOLEAN]
Facts == [subject : SlugNames, text : NoteTexts, about : Nat]
Cards == [action : {"add", "remove"}, subject : SlugNames, text : NoteTexts,
          status : {"pending", "committed", "cancelled"}]

NotesShape ==
    /\ places \in Seq(Places)
    /\ everHeld \subseteq SlugNames \X Nat /\ \A h \in everHeld : h[2] \in Ids
    /\ notes \subseteq Facts /\ \A n \in notes : n.about = 0 \/ n.about \in Ids
    /\ memos \in Seq(Cards)

LiveSlugsDiffer == \A p, q \in Ids : places[p].slug = places[q].slug => p = q

NotesInv == NotesShape /\ LiveSlugsDiffer /\ NotesFollowTheirPlace
-----------------------------------------------------------------------------

LEMMA NotesInitHolds == NotesInit => NotesInv
  BY DEF NotesInit, NotesInv, NotesShape, LiveSlugsDiffer, NotesFollowTheirPlace, EveryNameIsRemembered,
         RenameLeavesNothingBehind, Ids

LEMMA SlugsAreNames ==
  ASSUME NotesInv, NEW p \in Ids
  PROVE  places[p].slug \in SlugNames
<1>1. places \in Seq(Places) /\ p \in DOMAIN places
  BY DEF NotesInv, NotesShape, Ids
<1>2. places[p] \in Places
  BY <1>1
<1> QED
  BY <1>2 DEF Places

\* Where nothing happens to the places, only the notes and the cards are to be looked at.
LEMMA PlacesStay ==
  ASSUME NotesInv, UNCHANGED <<places, everHeld>>,
         notes' \subseteq Facts, \A n \in notes' : n.about = 0 \/ n.about \in Ids,
         \A n \in notes' : n.about # 0 => places[n.about].slug = n.subject,
         memos' \in Seq(Cards),
         \A c \in DOMAIN memos' : memos'[c].status = "pending" => LiveAt(memos'[c].subject) # {}
  PROVE  NotesInv'
<1>1. \A s : LiveAt(s)' = LiveAt(s)
  BY DEF LiveAt, Ids
<1>2. NotesShape' /\ LiveSlugsDiffer' /\ EveryNameIsRemembered'
  BY DEF NotesInv, NotesShape, LiveSlugsDiffer, NotesFollowTheirPlace, EveryNameIsRemembered, Ids
<1>3. RenameLeavesNothingBehind'
  BY <1>1 DEF RenameLeavesNothingBehind
<1> QED
  BY <1>2, <1>3 DEF NotesInv, NotesFollowTheirPlace

\* A fact that is filed is filed under the slug of the place it is about.
LEMMA Filing ==
  ASSUME NotesInv, NEW s \in SlugNames, NEW t \in NoteTexts
  PROVE  /\ Filed(s, t) \in Facts
         /\ Filed(s, t).about = 0 \/ Filed(s, t).about \in Ids
         /\ Filed(s, t).about # 0 => places[Filed(s, t).about].slug = Filed(s, t).subject
<1> DEFINE about == IF LiveAt(s) = {} THEN 0 ELSE CHOOSE p \in LiveAt(s) : TRUE
<1>1. Ids \subseteq Nat /\ LiveAt(s) \subseteq Ids /\ \A p \in LiveAt(s) : places[p].slug = s
  BY DEF NotesInv, NotesShape, Ids, LiveAt
<1>2. about \in Nat /\ (about = 0 \/ about \in Ids) /\ (about # 0 => places[about].slug = s)
  BY <1>1
<1> HIDE DEF about
<1>3. Filed(s, t) = [subject |-> s, text |-> t, about |-> about]
  BY DEF Filed, about
<1> QED
  BY <1>2, <1>3 DEF Facts

\* Adding a fact, whoever adds it.
LEMMA NotedKeeps ==
  ASSUME NotesInv, NEW s \in SlugNames, NEW t \in NoteTexts, notes' = Noted(notes, s, t), UNCHANGED <<places, everHeld>>,
         memos' \in Seq(Cards),
         \A c \in DOMAIN memos' : memos'[c].status = "pending" => LiveAt(memos'[c].subject) # {}
  PROVE  NotesInv'
<1>1. \A n \in notes' : n \in notes \/ n = Filed(s, t)
  BY DEF Noted
<1>2. \A n \in notes' : n \in Facts /\ (n.about = 0 \/ n.about \in Ids)
                        /\ (n.about # 0 => places[n.about].slug = n.subject)
  BY <1>1, Filing DEF NotesInv, NotesShape, NotesFollowTheirPlace, RenameLeavesNothingBehind
<1> QED
  BY <1>2, PlacesStay

\* A place with a new slug comes behind the others.
LEMMA InsertKeeps ==
  ASSUME NotesInv, NEW s \in SlugNames, LiveAt(s) = {}, Insert(s), UNCHANGED <<notes, memos>>
  PROVE  NotesInv'
<1> DEFINE new == [slug |-> s, formers |-> {}, active |-> TRUE]
           id == Len(places) + 1
<1>0. new \in Places /\ new.slug = s /\ new.formers = {}
  BY DEF Places
<1>1. places' = Append(places, new) /\ everHeld' = everHeld \cup {<<s, id>>}
  BY DEF Insert
<1> HIDE DEF new
<1>2. /\ places' \in Seq(Places) /\ id \in Nat \ {0} /\ Ids' = Ids \cup {id} /\ id \notin Ids
      /\ \A p \in Ids : places'[p] = places[p]
      /\ places'[id] = new
  BY <1>0, <1>1, AppendProperties DEF NotesInv, NotesShape, Ids
<1> HIDE DEF id
<1>3. \A p \in Ids : places[p].slug # s
  BY DEF LiveAt
<1>4. NotesShape'
  BY <1>1, <1>2 DEF NotesInv, NotesShape
<1>5. LiveSlugsDiffer'
  BY <1>0, <1>2, <1>3 DEF NotesInv, LiveSlugsDiffer
<1>6. EveryNameIsRemembered'
  <2> SUFFICES ASSUME NEW h \in everHeld'
               PROVE  places'[h[2]].slug = h[1] \/ h[1] \in places'[h[2]].formers
    BY DEF EveryNameIsRemembered
  <2>1. CASE h \in everHeld
    BY <2>1, <1>2 DEF NotesInv, NotesShape, NotesFollowTheirPlace, EveryNameIsRemembered
  <2>2. CASE h = <<s, id>>
    BY <2>2, <1>0, <1>2
  <2> QED
    BY <1>1, <2>1, <2>2
<1>7. RenameLeavesNothingBehind'
  <2>1. \A n \in notes' : n.about # 0 => places'[n.about].slug = n.subject
    BY <1>2 DEF NotesInv, NotesShape, NotesFollowTheirPlace, RenameLeavesNothingBehind
  <2>2. \A r : LiveAt(r) \subseteq LiveAt(r)'
    BY <1>2 DEF LiveAt
  <2> QED
    BY <2>1, <2>2 DEF NotesInv, NotesFollowTheirPlace, RenameLeavesNothingBehind
<1> QED
  BY <1>4, <1>5, <1>6, <1>7 DEF NotesInv, NotesFollowTheirPlace

\* Opening and closing a place moves no slug.
LEMMA ActiveKeeps ==
  ASSUME NotesInv, NEW p \in Ids, NEW flag \in BOOLEAN, places' = [places EXCEPT ![p].active = flag],
         UNCHANGED <<everHeld, notes, memos>>
  PROVE  NotesInv'
<1>1. /\ places' \in Seq(Places) /\ Ids' = Ids
      /\ \A q \in Ids : places'[q].slug = places[q].slug /\ places'[q].formers = places[q].formers
  <2>1. places \in Seq(Places) /\ places[p] \in Places /\ Ids = 1..Len(places) /\ Len(places) \in Nat
    BY DEF NotesInv, NotesShape, Ids
  <2>2. [places[p] EXCEPT !.active = flag] \in Places
        /\ [places[p] EXCEPT !.active = flag].slug = places[p].slug
        /\ [places[p] EXCEPT !.active = flag].formers = places[p].formers
    BY <2>1 DEF Places
  <2> DEFINE place == [places[p] EXCEPT !.active = flag]
  <2>3. places' = [places EXCEPT ![p] = place]
    OBVIOUS
  <2>4. place \in Places /\ place.slug = places[p].slug /\ place.formers = places[p].formers
    BY <2>2
  <2> HIDE DEF place
  <2> QED
    BY <2>1, <2>3, <2>4 DEF Ids
<1>2. \A s : LiveAt(s)' = LiveAt(s)
  BY <1>1 DEF LiveAt
<1>3. NotesShape' /\ LiveSlugsDiffer' /\ EveryNameIsRemembered'
  BY <1>1 DEF NotesInv, NotesShape, LiveSlugsDiffer, NotesFollowTheirPlace, EveryNameIsRemembered
<1>4. RenameLeavesNothingBehind'
  <2>1. \A n \in notes : n.about # 0 => places'[n.about].slug = n.subject
    BY <1>1 DEF NotesInv, NotesShape, NotesFollowTheirPlace, RenameLeavesNothingBehind
  <2> QED
    BY <1>2, <2>1 DEF NotesInv, NotesFollowTheirPlace, RenameLeavesNothingBehind
<1> QED
  BY <1>3, <1>4 DEF NotesInv, NotesFollowTheirPlace

\* A rename takes the notes and the waiting cards along, and leaves the old slug behind.
LEMMA RenameKeeps ==
  ASSUME NotesInv, NEW p \in Ids, NEW new \in SlugNames, RenameSlug(p, new)
  PROVE  NotesInv'
<1> DEFINE old == places[p].slug
           place == [places[p] EXCEPT !.slug = new, !.formers = Formers(places[p], new)]
<1>1. /\ new # old /\ ~Taken(p, new) /\ everHeld' = everHeld \cup {<<new, p>>}
      /\ places' = [places EXCEPT ![p] = place]
      /\ notes' = NotesMoved(old, new) /\ memos' = MemosMoved(old, new)
  BY DEF RenameSlug
<1>2. places \in Seq(Places) /\ places[p] \in Places /\ Ids = 1..Len(places) /\ Len(places) \in Nat
      /\ p \in Nat \ {0}
  BY DEF NotesInv, NotesShape, Ids
<1>3. /\ place \in Places /\ place.slug = new /\ old \in SlugNames
      /\ old \in place.formers /\ \A r \in places[p].formers : r \in place.formers \/ r = new
  BY <1>2 DEF Places, Formers
<1> HIDE DEF place
<1>4. /\ places' \in Seq(Places) /\ Ids' = Ids /\ places'[p] = place
      /\ \A q \in Ids : q # p => places'[q] = places[q]
  BY <1>1, <1>2, <1>3 DEF Ids
<1>5. \A q \in Ids : q # p => places[q].slug # new /\ places[q].slug # old
  BY <1>1 DEF Taken, LiveAt, NotesInv, LiveSlugsDiffer
<1> HIDE DEF old
<1>6. LiveSlugsDiffer'
  BY <1>3, <1>4, <1>5 DEF NotesInv, LiveSlugsDiffer
<1>7. EveryNameIsRemembered'
  <2> SUFFICES ASSUME NEW h \in everHeld'
               PROVE  places'[h[2]].slug = h[1] \/ h[1] \in places'[h[2]].formers
    BY DEF EveryNameIsRemembered
  <2>1. CASE h = <<new, p>>
    BY <2>1, <1>3, <1>4
  <2>2. CASE h \in everHeld /\ h[2] = p
    <3>1. h[1] = old \/ h[1] \in places[p].formers
      BY <2>2 DEF NotesInv, NotesFollowTheirPlace, EveryNameIsRemembered, old
    <3> QED
      BY <3>1, <2>2, <1>3, <1>4
  <2>3. CASE h \in everHeld /\ h[2] # p
    BY <2>3, <1>4 DEF NotesInv, NotesShape, NotesFollowTheirPlace, EveryNameIsRemembered
  <2> QED
    BY <1>1, <2>1, <2>2, <2>3
<1>8. \A n \in notes' : /\ n \in Facts /\ (n.about = 0 \/ n.about \in Ids)
                        /\ (n.about # 0 => places'[n.about].slug = n.subject)
  <2> SUFFICES ASSUME NEW n \in notes'
               PROVE  /\ n \in Facts /\ (n.about = 0 \/ n.about \in Ids)
                      /\ (n.about # 0 => places'[n.about].slug = n.subject)
    OBVIOUS
  <2>1. ASSUME NEW m \in notes
        PROVE  /\ m \in Facts /\ (m.about = 0 \/ m.about \in Ids)
               /\ (m.about # 0 => places[m.about].slug = m.subject)
    BY DEF NotesInv, NotesShape, NotesFollowTheirPlace, RenameLeavesNothingBehind
  <2>2. CASE n \in notes /\ n.subject # old
    <3>1. n.about # 0 => n.about # p
      BY <2>1, <2>2 DEF old
    <3> QED
      BY <3>1, <2>1, <2>2, <1>4
  <2>3. CASE \E m \in notes : m.subject = old /\ n = [m EXCEPT !.subject = new]
    <3>1. PICK m \in notes : m.subject = old /\ n = [m EXCEPT !.subject = new]
      BY <2>3
    <3>2. n \in Facts /\ n.subject = new /\ n.about = m.about
      BY <3>1, <2>1 DEF Facts
    <3>3. m.about # 0 => m.about = p
      BY <3>1, <2>1, <1>5
    <3> QED
      BY <3>2, <3>3, <2>1, <1>3, <1>4
  <2> QED
    BY <1>1, <2>2, <2>3 DEF NotesMoved
<1>9. memos' \in Seq(Cards)
      /\ \A c \in DOMAIN memos' : memos'[c].status = "pending" =>
            \E q \in Ids : places'[q].slug = memos'[c].subject
  <2>1. memos \in Seq(Cards) /\ Len(memos) \in Nat /\ DOMAIN memos = 1..Len(memos)
    BY DEF NotesInv, NotesShape
  <2>2. ASSUME NEW c \in DOMAIN memos
        PROVE  /\ [memos[c] EXCEPT !.subject = new] \in Cards
               /\ [memos[c] EXCEPT !.subject = new].subject = new
    <3>1. memos[c] \in Cards
      BY <2>1
    <3> QED
      BY <3>1 DEF Cards
  <2>3. /\ DOMAIN memos' = 1..Len(memos)
        /\ \A c \in DOMAIN memos :
              memos'[c] = IF memos[c].status = "pending" /\ memos[c].subject = old
                          THEN [memos[c] EXCEPT !.subject = new] ELSE memos[c]
    BY <1>1, <2>1 DEF MemosMoved
  <2>4. memos' \in [1..Len(memos) -> Cards]
    <3>1. memos' = [c \in 1..Len(memos) |-> memos'[c]]
      BY <1>1, <2>1 DEF MemosMoved
    <3>2. \A c \in 1..Len(memos) : memos'[c] \in Cards
      BY <2>1, <2>2, <2>3
    <3> QED
      BY <3>1, <3>2
  <2>5. ASSUME NEW c \in DOMAIN memos', memos'[c].status = "pending"
        PROVE  \E q \in Ids : places'[q].slug = memos'[c].subject
    <3>1. CASE memos[c].status = "pending" /\ memos[c].subject = old
      <4>1. c \in DOMAIN memos /\ memos'[c] = [memos[c] EXCEPT !.subject = new]
        BY <3>1, <2>1, <2>3, <2>5
      <4>2. memos'[c].subject = new
        BY <4>1, <2>2
      <4> QED
        BY <4>2, <1>3, <1>4
    <3>2. CASE ~(memos[c].status = "pending" /\ memos[c].subject = old)
      <4>1. memos'[c] = memos[c] /\ memos[c].status = "pending" /\ memos[c].subject # old
        BY <3>2, <2>1, <2>3, <2>5
      <4>2. PICK q \in Ids : places[q].slug = memos[c].subject
        BY <4>1, <2>1, <2>3 DEF NotesInv, NotesFollowTheirPlace, RenameLeavesNothingBehind, LiveAt
      <4>3. q # p
        BY <4>1, <4>2 DEF old
      <4> QED
        BY <4>1, <4>2, <4>3, <1>4
    <3> QED
      BY <3>1, <3>2
  <2> QED
    BY <2>1, <2>4, <2>5
<1>10. NotesShape'
  BY <1>1, <1>4, <1>8, <1>9, <1>2 DEF NotesInv, NotesShape
<1>11. RenameLeavesNothingBehind'
  BY <1>4, <1>8, <1>9 DEF RenameLeavesNothingBehind, LiveAt
<1> QED
  BY <1>6, <1>7, <1>10, <1>11 DEF NotesInv, NotesFollowTheirPlace

LEMMA PlacesKeep ==
  ASSUME NotesInv, NEW s \in SlugNames, CreatePlace(s) \/ SeedPlace(s)
  PROVE  NotesInv'
<1>1. CASE LiveAt(s) = {} /\ Insert(s) /\ UNCHANGED <<notes, memos>>
  BY <1>1, InsertKeeps
<1>2. CASE \E p \in Ids : places' = [places EXCEPT ![p].active = TRUE] /\ UNCHANGED <<everHeld, notes, memos>>
  BY <1>2, ActiveKeeps
<1> QED
  BY <1>1, <1>2 DEF CreatePlace, SeedPlace, Answering, LiveAt, FormerAt

LEMMA NotesKeep ==
  ASSUME NotesInv, NEW t \in NoteTexts,
         \/ \E s \in SlugNames : SeedNote(s, t) \/ PanelAdds(s, t)
         \/ \E n \in notes : PanelRewrites(n, t)
  PROVE  NotesInv'
<1>1. memos \in Seq(Cards) /\ \A c \in DOMAIN memos : memos[c].status = "pending" => LiveAt(memos[c].subject) # {}
  BY DEF NotesInv, NotesShape, NotesFollowTheirPlace, RenameLeavesNothingBehind
<1>2. CASE \E s \in SlugNames : SeedNote(s, t) \/ PanelAdds(s, t)
  <2>1. PICK c \in SlugNames : notes' = Noted(notes, c, t) /\ UNCHANGED <<places, everHeld, memos>>
    <3>1. \A p \in Ids : places[p].slug \in SlugNames
      BY SlugsAreNames
    <3>2. \A s : Answering(s) \subseteq Ids
      BY DEF Answering, LiveAt, FormerAt
    <3> QED
      BY <1>2, <3>1, <3>2 DEF SeedNote, PanelAdds
  <2> QED
    BY <1>1, <2>1, NotedKeeps
<1>3. CASE \E n \in notes : PanelRewrites(n, t)
  <2>1. PICK n \in notes : notes' = (notes \ {n}) \cup {[n EXCEPT !.text = t]}
                           /\ UNCHANGED <<places, everHeld, memos>>
    BY <1>3 DEF PanelRewrites
  <2>2. \A m \in notes : m \in Facts /\ (m.about = 0 \/ m.about \in Ids)
                         /\ (m.about # 0 => places[m.about].slug = m.subject)
    BY DEF NotesInv, NotesShape, NotesFollowTheirPlace, RenameLeavesNothingBehind
  <2>3. [n EXCEPT !.text = t] \in Facts /\ [n EXCEPT !.text = t].about = n.about
        /\ [n EXCEPT !.text = t].subject = n.subject
    BY <2>2 DEF Facts
  <2> DEFINE rewritten == [n EXCEPT !.text = t]
  <2>4. rewritten \in Facts /\ rewritten.about = n.about /\ rewritten.subject = n.subject
        /\ \A m \in notes' : m \in notes \/ m = rewritten
    BY <2>1, <2>3
  <2> HIDE DEF rewritten
  <2>5. \A m \in notes' : m \in Facts /\ (m.about = 0 \/ m.about \in Ids)
                          /\ (m.about # 0 => places[m.about].slug = m.subject)
    BY <2>2, <2>4
  <2> QED
    BY <1>1, <2>1, <2>5, PlacesStay
<1> QED
  BY <1>2, <1>3

LEMMA DeletingKeeps ==
  ASSUME NotesInv, notes' \subseteq notes, UNCHANGED <<places, everHeld>>,
         memos' \in Seq(Cards),
         \A c \in DOMAIN memos' : memos'[c].status = "pending" => LiveAt(memos'[c].subject) # {}
  PROVE  NotesInv'
<1>1. \A n \in notes : n \in Facts /\ (n.about = 0 \/ n.about \in Ids)
                       /\ (n.about # 0 => places[n.about].slug = n.subject)
  BY DEF NotesInv, NotesShape, NotesFollowTheirPlace, RenameLeavesNothingBehind
<1> QED
  BY <1>1, PlacesStay

\* A card names a place that is there when the card is made.
LEMMA ProposeKeeps ==
  ASSUME NotesInv, NEW p \in Ids, NEW t \in NoteTexts, Remember(p, t) \/ Forget(p, t)
  PROVE  NotesInv'
<1>1. PICK action \in {"add", "remove"} : Propose(action, p, t)
  BY DEF Remember, Forget
<1> DEFINE card == [action |-> action, subject |-> places[p].slug, text |-> t, status |-> "pending"]
<1>2. memos' = Append(memos, card) /\ UNCHANGED <<places, everHeld, notes>>
  BY <1>1 DEF Propose
<1>3. card \in Cards /\ card.subject = places[p].slug
  BY SlugsAreNames DEF Cards
<1> HIDE DEF card
<1>4. /\ memos \in Seq(Cards) /\ memos' \in Seq(Cards)
      /\ \A c \in DOMAIN memos' : memos'[c] = card \/ (c \in DOMAIN memos /\ memos'[c] = memos[c])
  BY <1>2, <1>3 DEF NotesInv, NotesShape
<1>5. p \in LiveAt(places[p].slug)
  BY DEF LiveAt
<1>6. \A c \in DOMAIN memos' : memos'[c].status = "pending" => LiveAt(memos'[c].subject) # {}
  BY <1>3, <1>4, <1>5 DEF NotesInv, NotesFollowTheirPlace, RenameLeavesNothingBehind
<1> QED
  BY <1>2, <1>4, <1>6, DeletingKeeps

\* An answer takes the card out of the waiting ones, whatever it does to the notes.
LEMMA NotesAnswerKeeps ==
  ASSUME NotesInv, NEW c \in DOMAIN memos, CommitMemo(c) \/ CancelMemo(c)
  PROVE  NotesInv'
<1>1. PICK status \in {"committed", "cancelled"} :
        memos' = [memos EXCEPT ![c].status = status] /\ UNCHANGED <<places, everHeld>>
  BY DEF CommitMemo, CancelMemo
<1>2. memos \in Seq(Cards) /\ memos[c] \in Cards
  BY DEF NotesInv, NotesShape
<1> DEFINE card == [memos[c] EXCEPT !.status = status]
<1>3. card \in Cards /\ card.status = status /\ memos' = [memos EXCEPT ![c] = card]
  BY <1>1, <1>2 DEF Cards
<1> HIDE DEF card
<1>4. /\ memos' \in Seq(Cards) /\ DOMAIN memos' = DOMAIN memos /\ memos'[c] = card
      /\ \A d \in DOMAIN memos : d # c => memos'[d] = memos[d]
  BY <1>2, <1>3
<1>5. \A d \in DOMAIN memos' : memos'[d].status = "pending" => LiveAt(memos'[d].subject) # {}
  BY <1>3, <1>4 DEF NotesInv, NotesFollowTheirPlace, RenameLeavesNothingBehind
<1>6. \/ notes' \subseteq notes
      \/ notes' = Noted(notes, memos[c].subject, memos[c].text)
  BY DEF CommitMemo, CancelMemo
<1>7. memos[c].subject \in SlugNames /\ memos[c].text \in NoteTexts
  BY <1>2 DEF Cards
<1> QED
  BY <1>1, <1>4, <1>5, <1>6, <1>7, NotedKeeps, DeletingKeeps
-----------------------------------------------------------------------------

\* Every step keeps the invariant (the whole of Notes' NotesNext).
LEMMA NotesStepKeeps == NotesInv /\ [NotesNext]_noteVars => NotesInv'
<1> SUFFICES ASSUME NotesInv, [NotesNext]_noteVars  PROVE NotesInv'
  OBVIOUS
<1>0. memos \in Seq(Cards) /\ \A c \in DOMAIN memos : memos[c].status = "pending" => LiveAt(memos[c].subject) # {}
  BY DEF NotesInv, NotesShape, NotesFollowTheirPlace, RenameLeavesNothingBehind
<1>1. CASE UNCHANGED noteVars
  BY <1>0, <1>1, DeletingKeeps DEF noteVars
<1>2. CASE \E s \in SlugNames : CreatePlace(s) \/ SeedPlace(s)
  BY <1>2, PlacesKeep
<1>3. CASE \E p \in Ids, flag \in BOOLEAN : SetActive(p, flag)
  BY <1>3, ActiveKeeps DEF SetActive
<1>4. CASE \E p \in Ids, s \in SlugNames : RenameSlug(p, s)
  BY <1>4, RenameKeeps
<1>5. CASE \/ \E s \in SlugNames, t \in NoteTexts : SeedNote(s, t) \/ PanelAdds(s, t)
           \/ \E n \in notes, t \in NoteTexts : PanelRewrites(n, t)
  BY <1>5, NotesKeep
<1>6. CASE \E n \in notes : PanelDeletes(n)
  BY <1>0, <1>6, DeletingKeeps DEF PanelDeletes
<1>7. CASE \E p \in Ids, t \in NoteTexts : Remember(p, t) \/ Forget(p, t)
  BY <1>7, ProposeKeeps
<1>8. CASE \E c \in DOMAIN memos : CommitMemo(c) \/ CancelMemo(c)
  BY <1>8, NotesAnswerKeeps
<1> QED
  BY <1>1, <1>2, <1>3, <1>4, <1>5, <1>6, <1>7, <1>8 DEF NotesNext

\* For any names and any number of places, notes and cards: through every chain of renames
\* a place answers to each of its slugs, its notes stay under its slug, and a card that waits
\* names a place (places.rename_slug, notes and memos.retarget_subject).
THEOREM NotesAlwaysFollow == NotesSpec => []NotesFollowTheirPlace
<1>1. NotesSpec => []NotesInv
  BY NotesInitHolds, NotesStepKeeps, PTL DEF NotesSpec
<1>2. NotesInv => NotesFollowTheirPlace
  BY DEF NotesInv
<1> QED
  BY <1>1, <1>2, PTL
-----------------------------------------------------------------------------
(***************************************************************************)
(* What steps behind nobody's back, in the room of MCRooms, for any names, *)
(* places and bounds: the names of a turn (Members), the panel of the      *)
(* room's memory (Memory), and the links and notes of its places           *)
(* (Subjects).                                                             *)
(*                                                                         *)
(* What makes it inductive: the holes of a turn are among the names its    *)
(* context still calls unknown, and the directory, the meals and their     *)
(* links have their shape.  The heart of it is what a sure guess is: the   *)
(* places of the first tier any place is in, when that is one place.       *)
(***************************************************************************)

(* A name of the turn is a hole only while the tool context still knows it as one. *)
HolesAreKnown == holes \subseteq unknown

LEMMA HolesStayKnown ==
    ASSUME HolesAreKnown, Members!Next
    PROVE  HolesAreKnown'
<1>1. CASE Members!FindMembers
    BY <1>1 DEF HolesAreKnown, Members!FindMembers, Members!StillUnknown
<1>2. CASE Members!AddMember
    BY <1>2 DEF HolesAreKnown, Members!AddMember, Members!Filled
<1>3. CASE Members!NextTurn
    BY <1>3 DEF HolesAreKnown, Members!NextTurn
<1>4. CASE Members!UpdateMember \/ Members!DeleteMember \/ Members!ProposeMeal \/ Members!Join
    BY <1>4 DEF HolesAreKnown, Members!UpdateMember, Members!DeleteMember, Members!ProposeMeal, Members!Join
<1> QED
    BY <1>1, <1>2, <1>3, <1>4 DEF Members!Next

(* Whoever is nobody's word is dropped, so a meal that drops nobody has all the holes. *)
LEMMA HolesAreOnTheMeal ==
    ASSUME HolesAreKnown, Members!Next, accepted' # Members!NoMeal
    PROVE  \A n \in holes :
             \/ \E i \in accepted'.on : members[i].active /\ Members!WordsOf(i) \cap Members!Words(n) # {}
             \/ \E g \in accepted'.guests : Members!Words(g) \cap Members!Words(n) # {}
<1>1. Members!ProposeMeal
    BY DEF Members!Next, Members!FindMembers, Members!AddMember, Members!NextTurn, Members!UpdateMember,
           Members!DeleteMember, Members!Join
<1>2. PICK on \in (SUBSET Members!Ids) \ {{}}, guests \in SUBSET Names :
           /\ Members!Dropped(on, guests) = {}
           /\ accepted' = [on |-> on, guests |-> guests, holes |-> holes]
    BY <1>1 DEF Members!ProposeMeal
<1>3. SUFFICES ASSUME NEW n \in holes
               PROVE  \/ \E i \in on : members[i].active /\ Members!WordsOf(i) \cap Members!Words(n) # {}
                      \/ \E g \in guests : Members!Words(g) \cap Members!Words(n) # {}
    BY <1>2
<1>4. n \in unknown
    BY DEF HolesAreKnown
<1>5. Members!Words(n) \cap ((UNION {Members!WordsOf(i) : i \in on \cap Members!Active})
                               \cup (UNION {Members!Words(g) : g \in guests})) # {}
    BY <1>2, <1>4 DEF Members!Dropped
<1>6. PICK w \in Members!Words(n) : \/ \E i \in on \cap Members!Active : w \in Members!WordsOf(i)
                                    \/ \E g \in guests : w \in Members!Words(g)
    BY <1>5
<1> QED
    BY <1>6 DEF Members!Active

(* In the panel a section is lost only while the file is as the panel loaded it. *)
LEMMA PanelLosesOnlyThat ==
    ASSUME MemoryNext, letGo' # letGo, job' = job
    PROVE  \E i \in DOMAIN panel : i \in DOMAIN sections /\ panel[i] = sections[i] /\ letGo' = letGo \cup panel[i]
<1>1. \E i \in DOMAIN sections : EditSection(i) \/ DeleteSection(i)
    BY DEF MemoryNext, Post, TimePasses, TakeLock, LoadContext, Answer, ClearEnds, RolloverEnds, Summarizing,
           PanelLoads, Crash, TornCrash, Restarted, Idle
<1> QED
    BY <1>1 DEF EditSection, DeleteSection, Unchanged

(* What a dish is linked to: the one place that bears its name in the first way of     *)
(* writing it that any place answers to.                                               *)
LEMMA SureIsTheName ==
    ASSUME NEW d, Subjects!SureOf(d) # Subjects!Nobody
    PROVE  /\ Subjects!SureOf(d) \in Subjects!Live
           /\ Subjects!Others(d, Subjects!SureOf(d)) = {}
           /\ \E n \in Subjects!NamesOf(Subjects!SureOf(d)) :
                Subjects!N!Folded(n) \in {Subjects!N!Folded(d), Subjects!WithoutVenue(d)}
<1> DEFINE p == Subjects!SureOf(d)
           tiers == <<Subjects!Exact(d), Subjects!Bearing(Subjects!N!Folded(d)),
                      Subjects!Bearing(Subjects!WithoutVenue(d))>>
<1>1. Subjects!Sure(d) = {p}
    BY DEF Subjects!SureOf, Subjects!Only, Subjects!IsOne, Subjects!Nobody
<1>2. PICK k \in 1..3 : tiers[k] = {p} /\ \A j \in 1..(k - 1) : tiers[j] = {}
    <2>1. Subjects!Sure(d) = Subjects!N!FirstNonEmpty(tiers)
        BY DEF Subjects!Sure
    <2> DEFINE First(i) == tiers[i] # {} /\ \A j \in 1..(i - 1) : tiers[j] = {}
    <2>2. DOMAIN tiers = 1..3
        OBVIOUS
    <2> HIDE DEF tiers, p
    <2>3. /\ \E i \in DOMAIN tiers : tiers[i] # {}
          /\ Subjects!Sure(d) = tiers[CHOOSE i \in DOMAIN tiers : First(i)]
        BY <1>1, <2>1 DEF Subjects!N!FirstNonEmpty
    <2>4. \E i \in DOMAIN tiers : First(i)
        <3> DEFINE S == {i \in 1..3 : tiers[i] # {}}
        <3>1. S \in SUBSET Nat /\ S # {}
            BY <2>2, <2>3
        <3>2. PICK i \in S : \A m \in S : i <= m
            <4> HIDE DEF S
            <4> QED BY <3>1, LeastIsThere
        <3>3. \A j \in 1..(i - 1) : j \in 1..3 /\ ~(i <= j)
            OBVIOUS
        <3> QED BY <2>2, <3>2, <3>3
    <2> DEFINE k == CHOOSE i \in DOMAIN tiers : First(i)
    <2>5. k \in 1..3 /\ First(k) /\ tiers[k] = Subjects!Sure(d)
        <3> HIDE DEF First
        <3> QED BY <2>2, <2>3, <2>4
    <2> HIDE DEF k
    <2> QED BY <1>1, <2>5
<1>3. CASE k = 1
    <2>1. Subjects!Exact(d) = {p}
        BY <1>2, <1>3
    <2>2. p \in Subjects!Live /\ d \in Subjects!NamesOf(p)
        BY <2>1 DEF Subjects!Exact
    <2> QED BY <2>1, <2>2 DEF Subjects!Others
<1>4. CASE k # 1
    <2>1. 1 \in 1..(k - 1)
        BY <1>2, <1>4
    <2>2. Subjects!Exact(d) = {} /\ \E f \in {Subjects!N!Folded(d), Subjects!WithoutVenue(d)} : Subjects!Bearing(f) = {p}
        BY <1>2, <1>4, <2>1
    <2>3. p \in Subjects!Live /\ \E n \in Subjects!NamesOf(p) :
                Subjects!N!Folded(n) \in {Subjects!N!Folded(d), Subjects!WithoutVenue(d)}
        BY <2>2 DEF Subjects!Bearing
    <2> HIDE DEF p
    <2> QED BY <2>2, <2>3 DEF Subjects!Others, p
<1> QED BY <1>3, <1>4

(* What a name is spelled like in the directory, and a row of it. *)
Spelled == Writings \cup {Subjects!N!Folded(t) : t \in Writings}
PlaceRows == [names : {s \in Seq(Spelled) : Len(s) >= 2}, active : BOOLEAN]

SubjectsShape ==
    /\ known \in Seq(PlaceRows)
    /\ meals \in Seq([dish : Writings, place : Nat])
    /\ passed \in Seq(SUBSET Nat) /\ Len(passed) = Len(meals)

LEMMA SureIsANumber ==
    ASSUME SubjectsShape, NEW d
    PROVE  Subjects!SureOf(d) \in Nat /\ \A p : Subjects!Others(d, p) \subseteq Nat
<1>1. Subjects!Live \subseteq Nat
    BY DEF SubjectsShape, Subjects!Live
<1>2. Subjects!SureOf(d) # Subjects!Nobody => Subjects!SureOf(d) \in Nat
    BY <1>1, SureIsTheName
<1>3. Subjects!SureOf(d) \in Nat
    BY <1>2 DEF Subjects!Nobody
<1>4. \A p : Subjects!Others(d, p) \subseteq Nat
    BY <1>1 DEF Subjects!Others, Subjects!Exact
<1> QED BY <1>3, <1>4

(* A dish that is linked by a step is linked as the code is sure of it. *)
MealLinked(k) ==
    LET before == IF k \in DOMAIN meals THEN meals[k].place ELSE Subjects!Nobody IN
    \/ k \in DOMAIN meals /\ meals'[k].place = before
    \/ /\ before = Subjects!Nobody
       /\ meals'[k].place = Subjects!SureOf(meals'[k].dish)
       /\ passed'[k] = Subjects!Others(meals'[k].dish, meals'[k].place)

LEMMA RecordMealLinks ==
    ASSUME SubjectsShape, Subjects!RecordMeal
    PROVE  SubjectsShape' /\ \A k \in DOMAIN meals' : MealLinked(k)
<1>1. PICK d \in Writings : /\ meals' = Append(meals, [dish |-> d, place |-> Subjects!SureOf(d)])
                         /\ passed' = Append(passed, Subjects!Others(d, Subjects!SureOf(d)))
    BY DEF Subjects!RecordMeal
<1> DEFINE row == [dish |-> d, place |-> Subjects!SureOf(d)]
           others == Subjects!Others(d, Subjects!SureOf(d))
<1>2. row \in [dish : Writings, place : Nat] /\ others \in SUBSET Nat /\ known' = known
    BY SureIsANumber DEF Subjects!RecordMeal
<1>3. /\ row.place = Subjects!SureOf(row.dish) /\ others = Subjects!Others(row.dish, row.place)
      /\ meals' = Append(meals, row) /\ passed' = Append(passed, others)
    BY <1>1
<1> HIDE DEF row, others
<1>4. SubjectsShape'
    BY <1>2, <1>3 DEF SubjectsShape
<1>5. \A k \in DOMAIN meals' : \/ k \in DOMAIN meals /\ meals'[k] = meals[k]
                               \/ k \notin DOMAIN meals /\ meals'[k] = row /\ passed'[k] = others
    BY <1>2, <1>3 DEF SubjectsShape
<1> QED BY <1>3, <1>4, <1>5 DEF MealLinked

LEMMA BackfillKeeps ==
    ASSUME SubjectsShape, Subjects!BackfillLinks
    PROVE  SubjectsShape' /\ \A k \in DOMAIN meals' : MealLinked(k)
<1>1. DOMAIN meals = 1..Len(meals) /\ Len(meals) \in Nat /\ Len(passed) = Len(meals) /\ known' = known
    BY DEF SubjectsShape, Subjects!BackfillLinks
<1>2. ASSUME NEW k \in DOMAIN meals
      PROVE  /\ meals'[k] \in [dish : Writings, place : Nat] /\ passed'[k] \in SUBSET Nat
             /\ MealLinked(k)
    <2>1. meals[k] \in [dish : Writings, place : Nat] /\ passed[k] \in SUBSET Nat
        <3>1. k \in 1..Len(passed)
            BY <1>1
        <3>2. passed \in Seq(SUBSET Nat) /\ meals \in Seq([dish : Writings, place : Nat])
            BY DEF SubjectsShape
        <3> QED BY <1>1, <3>1, <3>2, ElementOfSeq
    <2>2. CASE meals[k].place = Subjects!Nobody
        <3> DEFINE row == [meals[k] EXCEPT !.place = Subjects!SureOf(meals[k].dish)]
        <3>1. row \in [dish : Writings, place : Nat] /\ row.dish = meals[k].dish /\ row.place = Subjects!SureOf(row.dish)
            BY <2>1, SureIsANumber
        <3>2. meals'[k] = row /\ passed'[k] = Subjects!Others(row.dish, row.place)
            BY <2>2, <3>1 DEF Subjects!BackfillLinks, Subjects!Unlinked
        <3> HIDE DEF row
        <3> QED BY <2>2, <3>1, <3>2, SureIsANumber DEF MealLinked
    <2>3. CASE meals[k].place # Subjects!Nobody
        <3>1. meals'[k] = meals[k] /\ passed'[k] = passed[k]
            BY <2>3 DEF Subjects!BackfillLinks, Subjects!Unlinked
        <3> QED BY <2>1, <3>1 DEF MealLinked
    <2> QED BY <2>2, <2>3
<1>3. /\ meals' = [k \in 1..Len(meals) |-> meals'[k]] /\ passed' = [k \in 1..Len(meals) |-> passed'[k]]
      /\ DOMAIN meals' = DOMAIN meals
    BY <1>1 DEF Subjects!BackfillLinks
<1>4. meals' \in [1..Len(meals) -> [dish : Writings, place : Nat]] /\ passed' \in [1..Len(meals) -> SUBSET Nat]
    BY <1>1, <1>2, <1>3
<1>5. /\ meals' \in Seq([dish : Writings, place : Nat]) /\ passed' \in Seq(SUBSET Nat)
      /\ Len(meals') = Len(meals) /\ Len(passed') = Len(meals)
    <2> DEFINE Meal == [dish : Writings, place : Nat]
    <2> HIDE DEF Meal
    <2>1. meals' \in Seq(Meal) /\ Len(meals') = Len(meals)
        <3>1. meals' \in [1..Len(meals) -> Meal]
            BY <1>4 DEF Meal
        <3> QED BY <1>1, <3>1, ASequence, Zenon
    <2>2. passed' \in Seq(SUBSET Nat) /\ Len(passed') = Len(meals)
        BY <1>1, <1>4, ASequence, Zenon
    <2> QED BY <2>1, <2>2 DEF Meal
<1>6. SubjectsShape'
    BY <1>1, <1>5 DEF SubjectsShape
<1> QED BY <1>2, <1>3, <1>6

LEMMA PlacesKeepTheirShape ==
    ASSUME SubjectsShape, Subjects!AddPlace \/ Subjects!EditPlace
    PROVE  SubjectsShape'
<1>1. UNCHANGED <<meals, passed>>
    BY DEF Subjects!AddPlace, Subjects!EditPlace
<1>2. CASE Subjects!AddPlace
    <2>1. PICK n \in Writings : known' = Append(known, [names |-> <<Subjects!N!Folded(n), n>>, active |-> TRUE])
        BY <1>2 DEF Subjects!AddPlace
    <2>2. [names |-> <<Subjects!N!Folded(n), n>>, active |-> TRUE] \in PlaceRows
        BY DEF PlaceRows, Spelled
    <2> QED BY <1>1, <2>1, <2>2 DEF SubjectsShape
<1>3. CASE Subjects!EditPlace
    <2>1. PICK p \in DOMAIN known :
             \/ \E n \in Writings : known' = [known EXCEPT ![p].names = <<@[1], @[2], n>>]
             \/ known' = [known EXCEPT ![p].active = ~@]
        BY <1>3 DEF Subjects!EditPlace
    <2>2. known[p] \in PlaceRows /\ known[p].names \in Seq(Spelled) /\ Len(known[p].names) >= 2
        <3>1. known[p] \in PlaceRows
            BY DEF SubjectsShape
        <3> QED BY <3>1 DEF PlaceRows
    <2>3. known[p].names[1] \in Spelled /\ known[p].names[2] \in Spelled
        BY <2>2
    <2>4. PICK row : known' = [known EXCEPT ![p] = row] /\ row \in PlaceRows
        <3>1. CASE \E n \in Writings : known' = [known EXCEPT ![p].names = <<@[1], @[2], n>>]
            <4>1. PICK n \in Writings : known' = [known EXCEPT ![p].names = <<@[1], @[2], n>>]
                BY <3>1
            <4>2. n \in Spelled /\ known[p].active \in BOOLEAN
                BY <2>2 DEF Spelled, PlaceRows
            <4>3. [known[p] EXCEPT !.names = <<@[1], @[2], n>>] \in PlaceRows
                <5>1. <<known[p].names[1], known[p].names[2], n>> \in Seq(Spelled)
                    BY <2>3, <4>2
                <5> DEFINE Named == {s \in Seq(Spelled) : Len(s) >= 2}
                           three == <<known[p].names[1], known[p].names[2], n>>
                <5>2. three \in Named
                    BY <5>1
                <5>3. known[p] \in [names : Named, active : BOOLEAN]
                    BY <2>2 DEF PlaceRows
                <5> HIDE DEF Named, three
                <5>4. [known[p] EXCEPT !.names = three] \in [names : Named, active : BOOLEAN]
                    BY <5>2, <5>3
                <5> QED BY <5>4 DEF Named, three, PlaceRows
            <4> QED BY <4>1, <4>3
        <3>2. CASE known' = [known EXCEPT ![p].active = ~@]
            <4>1. [known[p] EXCEPT !.active = ~@] \in PlaceRows
                BY <2>2 DEF PlaceRows
            <4> QED BY <3>2, <4>1
        <3> QED BY <2>1, <3>1, <3>2
    <2> QED BY <1>1, <2>4 DEF SubjectsShape
<1> QED BY <1>2, <1>3

(* A dish is linked for good, and to the place whose name it is. *)
LEMMA LinksStaySure ==
    ASSUME SubjectsShape, Subjects!Next
    PROVE  SubjectsShape' /\ \A k \in DOMAIN meals' : MealLinked(k)
<1>1. CASE Subjects!AddPlace \/ Subjects!EditPlace
    BY <1>1, PlacesKeepTheirShape DEF Subjects!AddPlace, Subjects!EditPlace, MealLinked
<1>2. CASE Subjects!Remember
    BY <1>2 DEF Subjects!Remember, SubjectsShape, MealLinked
<1> QED BY <1>1, <1>2, RecordMealLinks, BackfillKeeps DEF Subjects!Next

(* A note says a place was meant only when nobody answers to the text. *)
LEMMA NoteOfAPlace ==
    ASSUME PlacesAreNotPeople, [Subjects!Next]_subjectVars
    PROVE  PlacesAreNotPeople'
<1>1. CASE said' = said
    BY <1>1 DEF PlacesAreNotPeople, Subjects!PlacesAreNotPeople
<1>2. CASE Subjects!Remember
    <2>1. \A t : Subjects!PlaceMeant(t) # Subjects!Nobody => Subjects!N!Lookup(t) = {}
        BY DEF Subjects!PlaceMeant
    <2> QED BY <1>2, <2>1 DEF Subjects!Remember, PlacesAreNotPeople, Subjects!PlacesAreNotPeople
<1> QED BY <1>1, <1>2 DEF Subjects!Next, subjectVars, Subjects!AddPlace, Subjects!EditPlace,
                          Subjects!RecordMeal, Subjects!BackfillLinks

(* The invariant of the rooms' parts that step behind nobody's back. *)
PartsInv == HolesAreKnown /\ SubjectsShape /\ PlacesAreNotPeople

LEMMA PartsInit == RoomsInit => PartsInv
<1> SUFFICES ASSUME RoomsInit PROVE PartsInv
    OBVIOUS
<1>1. HolesAreKnown
    BY DEF RoomsInit, Members!Init, HolesAreKnown
<1>2. known = <<>> /\ meals = <<>> /\ passed = <<>> /\ said = {}
    BY DEF RoomsInit, Subjects!Init
<1>3. SubjectsShape /\ PlacesAreNotPeople
    BY <1>2 DEF SubjectsShape, PlacesAreNotPeople, Subjects!PlacesAreNotPeople
<1> QED BY <1>1, <1>3 DEF PartsInv

LEMMA PartsStepKeeps == PartsInv /\ [RoomsNext]_roomVars => PartsInv'
<1> SUFFICES ASSUME PartsInv, [RoomsNext]_roomVars PROVE PartsInv'
    OBVIOUS
<1>1. [Members!Next]_memberVars /\ [Subjects!Next]_subjectVars
    BY DEF RoomsNext, roomVars
<1>2. HolesAreKnown'
    BY <1>1, HolesStayKnown DEF PartsInv, HolesAreKnown, memberVars
<1>3. SubjectsShape'
    BY <1>1, LinksStaySure DEF PartsInv, SubjectsShape, subjectVars
<1>4. PlacesAreNotPeople'
    BY <1>1, NoteOfAPlace DEF PartsInv
<1> QED BY <1>2, <1>3, <1>4 DEF PartsInv

(* For any room, any names and any directory: a note is filed under a place only if the *)
(* text could not mean a person (_memo_subject).                                       *)
THEOREM PlacesAreNeverPeople == RoomsSpec => []PlacesAreNotPeople
<1>1. RoomsSpec => []PartsInv
    BY PartsInit, PartsStepKeeps, PTL DEF RoomsSpec
<1>2. PartsInv => PlacesAreNotPeople
    BY DEF PartsInv
<1> QED BY <1>1, <1>2, PTL

(* No step acts behind people's backs, whatever the room: a meal is accepted with the name *)
(* the turn could not place, an edit in the panel loses only what the panel showed, and a   *)
(* dish is linked for good and to the place whose name it is.                              *)
THEOREM NothingIsBehindTheirBacks == RoomsSpec => NothingBehindTheirBacks
<1>1. RoomsSpec => []PartsInv
    BY PartsInit, PartsStepKeeps, PTL DEF RoomsSpec
<1>2. PartsInv /\ [RoomsNext]_roomVars =>
        [accepted' # Members!NoMeal =>
         \A n \in holes :
            \/ \E i \in accepted'.on : members[i].active /\ Members!WordsOf(i) \cap Members!Words(n) # {}
            \/ \E g \in accepted'.guests : Members!Words(g) \cap Members!Words(n) # {}]_memberVars
    <2> SUFFICES ASSUME PartsInv, Members!Next, accepted' # Members!NoMeal
                 PROVE  \A n \in holes :
                          \/ \E i \in accepted'.on : members[i].active /\ Members!WordsOf(i) \cap Members!Words(n) # {}
                          \/ \E g \in accepted'.guests : Members!Words(g) \cap Members!Words(n) # {}
        BY DEF RoomsNext, roomVars
    <2> QED BY HolesAreOnTheMeal DEF PartsInv
<1>3. PartsInv /\ [RoomsNext]_roomVars =>
        [letGo' # letGo /\ job' = job =>
          \E i \in DOMAIN panel : i \in DOMAIN sections /\ panel[i] = sections[i]
                                  /\ letGo' = letGo \cup panel[i]]_memoryVars
    <2> SUFFICES ASSUME MemoryNext, letGo' # letGo, job' = job
                 PROVE  \E i \in DOMAIN panel : i \in DOMAIN sections /\ panel[i] = sections[i]
                                                /\ letGo' = letGo \cup panel[i]
        BY DEF RoomsNext, roomVars
    <2> QED BY PanelLosesOnlyThat
<1>4. PartsInv /\ [RoomsNext]_roomVars =>
        [\A k \in DOMAIN meals' :
         LET before == IF k \in DOMAIN meals THEN meals[k].place ELSE Subjects!Nobody
             after == meals'[k].place
         IN  /\ before # Subjects!Nobody => after = before
             /\ after # before =>
                  /\ passed'[k] = {}
                  /\ \E n \in Subjects!NamesOf(after) :
                       Subjects!N!Folded(n) \in {Subjects!N!Folded(meals'[k].dish),
                                                Subjects!WithoutVenue(meals'[k].dish)}]_subjectVars
    <2> SUFFICES ASSUME PartsInv, Subjects!Next, NEW k \in DOMAIN meals'
                 PROVE  LET before == IF k \in DOMAIN meals THEN meals[k].place ELSE Subjects!Nobody
                            after == meals'[k].place
                        IN  /\ before # Subjects!Nobody => after = before
                            /\ after # before =>
                                 /\ passed'[k] = {}
                                 /\ \E n \in Subjects!NamesOf(after) :
                                      Subjects!N!Folded(n) \in {Subjects!N!Folded(meals'[k].dish),
                                                               Subjects!WithoutVenue(meals'[k].dish)}
        BY DEF RoomsNext, roomVars
    <2>1. MealLinked(k)
        BY LinksStaySure DEF PartsInv
    <2> QED BY <2>1, SureIsTheName DEF MealLinked
<1> QED
    BY <1>1, <1>2, <1>3, <1>4, PTL DEF RoomsSpec, NothingBehindTheirBacks, Members!NobodyIsForgotten,
       PanelLosesWhatItShowed, Subjects!LinksAreSure, memberVars, subjectVars, Members!memberVars, Subjects!subjectVars
-----------------------------------------------------------------------------
(***************************************************************************)
(* A room keeps its places and notes through deploys and undos (module     *)
(* Migration).                                                             *)
(*                                                                         *)
(* What makes it inductive: the release that serves, or that the stopped   *)
(* container would start again, has all of it; before the move the store   *)
(* is empty, after it the table has no place that the store lacks; and a   *)
(* deploy or an undo under way has left the marker for its next step.      *)
(*                                                                         *)
(* The notes are in order: the truth is what an edit leaves of the served  *)
(* facts, each of them where it first stood.  What sifting a sequence does *)
(* is shown for one element more, and for all sequences by the first one   *)
(* where it would not be so.                                               *)
(***************************************************************************)

(* upTo is the sifting of s at the places in I, as far as N. *)
SiftedTo(s, I, upTo, N) ==
    upTo = [n \in 0..N |-> IF n = 0 THEN <<>> ELSE IF n \in I THEN Append(upTo[n - 1], s[n]) ELSE upTo[n - 1]]

(* There is a sifting as far as any number. *)
LEMMA SiftingExists ==
    ASSUME NEW s, NEW I, NEW N \in Nat
    PROVE  \E upTo : SiftedTo(s, I, upTo, N)
<1> DEFINE Good == {n \in Nat : \E upTo : SiftedTo(s, I, upTo, n)}
<1>1. 0 \in Good
    <2>1. SiftedTo(s, I, [n \in 0..0 |-> <<>>], 0)
        BY DEF SiftedTo
    <2> QED BY <2>1
<1>2. ASSUME NEW n \in Nat, n \in Good
      PROVE  n + 1 \in Good
    <2>1. PICK u : SiftedTo(s, I, u, n)
        BY <1>2
    <2> DEFINE more == [k \in 0..(n + 1) |->
                          IF k = n + 1 THEN IF k \in I THEN Append(u[n], s[k]) ELSE u[n] ELSE u[k]]
    <2>2. \A k \in 0..(n + 1) :
             more[k] = IF k = 0 THEN <<>> ELSE IF k \in I THEN Append(more[k - 1], s[k]) ELSE more[k - 1]
        <3> TAKE k \in 0..(n + 1)
        <3>1. CASE k = n + 1
            <4>1. more[k - 1] = u[n] /\ k # 0
                BY <1>2, <3>1
            <4>2. more[k] = IF k \in I THEN Append(u[n], s[k]) ELSE u[n]
                BY <3>1
            <4> QED BY <4>1, <4>2
        <3>2. CASE k # n + 1
            <4>1. k \in 0..n /\ more[k] = u[k]
                BY <1>2, <3>2
            <4>2. k # 0 => more[k - 1] = u[k - 1]
                BY <1>2, <4>1
            <4>3. u[k] = IF k = 0 THEN <<>> ELSE IF k \in I THEN Append(u[k - 1], s[k]) ELSE u[k - 1]
                BY <2>1, <4>1 DEF SiftedTo
            <4> HIDE DEF more
            <4> QED BY <4>1, <4>2, <4>3
        <3> QED BY <3>1, <3>2
    <2>3. more = [k \in 0..(n + 1) |-> more[k]]
        OBVIOUS
    <2> HIDE DEF more
    <2>4. more = [k \in 0..(n + 1) |->
                    IF k = 0 THEN <<>> ELSE IF k \in I THEN Append(more[k - 1], s[k]) ELSE more[k - 1]]
        BY <2>2, <2>3
    <2>5. SiftedTo(s, I, more, n + 1)
        BY <2>4 DEF SiftedTo
    <2> QED BY <2>5
<1>3. Nat \subseteq Good
    <2> HIDE DEF Good
    <2> QED BY <1>1, <1>2, EveryNumber
<1> QED BY <1>3

(* It is what Sifted ends with. *)
LEMMA SiftedEnds ==
    ASSUME NEW s, NEW I, Len(s) \in Nat
    PROVE  \E u : SiftedTo(s, I, u, Len(s)) /\ Migration!Sifted(s, I) = u[Len(s)]
<1> DEFINE P(u) == u = [n \in 0..Len(s) |->
                          IF n = 0 THEN <<>> ELSE IF n \in I THEN Append(u[n - 1], s[n]) ELSE u[n - 1]]
           it == CHOOSE u : P(u)
<1>1. PICK u : SiftedTo(s, I, u, Len(s))
    BY SiftingExists
<1>2. P(it)
    <2>1. P(u)
        BY <1>1 DEF SiftedTo
    <2> HIDE DEF P
    <2> QED BY <2>1
<1>3. Migration!Sifted(s, I) = it[Len(s)]
    BY DEF Migration!Sifted
<1>4. SiftedTo(s, I, it, Len(s))
    BY <1>2 DEF SiftedTo
<1> QED BY <1>3, <1>4

(* One element more is taken or left. *)
LEMMA SiftedGrows ==
    ASSUME NEW S, NEW s \in Seq(S), NEW x \in S, NEW I, NEW J, \A n \in 1..Len(s) : n \in J <=> n \in I
    PROVE  Migration!Sifted(Append(s, x), J) =
             IF Len(s) + 1 \in J THEN Append(Migration!Sifted(s, I), x) ELSE Migration!Sifted(s, I)
<1> DEFINE more == Append(s, x)
           N == Len(s)
<1>1. N \in Nat /\ Len(more) = N + 1 /\ (\A n \in 1..N : more[n] = s[n]) /\ more[N + 1] = x
    BY AppendProperties, LenProperties
<1> HIDE DEF more, N
<1>2. PICK u : SiftedTo(s, I, u, N) /\ Migration!Sifted(s, I) = u[N]
    BY <1>1, SiftedEnds DEF N
<1>3. PICK v : SiftedTo(more, J, v, N + 1) /\ Migration!Sifted(more, J) = v[N + 1]
    BY <1>1, SiftedEnds
<1>4. \A n \in 0..N : u[n] = IF n = 0 THEN <<>> ELSE IF n \in I THEN Append(u[n - 1], s[n]) ELSE u[n - 1]
    BY <1>2 DEF SiftedTo
<1>5. \A n \in 0..(N + 1) : v[n] = IF n = 0 THEN <<>> ELSE IF n \in J THEN Append(v[n - 1], more[n]) ELSE v[n - 1]
    BY <1>3 DEF SiftedTo
<1> DEFINE Same == {n \in Nat : n <= N => v[n] = u[n]}
<1>6. 0 \in Same
    BY <1>1, <1>4, <1>5
<1>7. ASSUME NEW n \in Nat, n \in Same
      PROVE  n + 1 \in Same
    <2>1. ASSUME n + 1 <= N
          PROVE  v[n + 1] = u[n + 1]
        <3>1. n + 1 \in 0..N /\ n + 1 \in 0..(N + 1) /\ n + 1 \in 1..N /\ n + 1 # 0 /\ n + 1 - 1 = n /\ n <= N
            BY <1>1, <2>1
        <3>2. v[n] = u[n] /\ more[n + 1] = s[n + 1] /\ (n + 1 \in J <=> n + 1 \in I)
            BY <1>1, <1>7, <3>1 DEF N
        <3>3. v[n + 1] = IF n + 1 \in J THEN Append(v[n], more[n + 1]) ELSE v[n]
            BY <1>5, <3>1
        <3>4. u[n + 1] = IF n + 1 \in I THEN Append(u[n], s[n + 1]) ELSE u[n]
            BY <1>4, <3>1
        <3> QED BY <3>2, <3>3, <3>4
    <2> QED BY <2>1
<1>8. Nat \subseteq Same
    <2> HIDE DEF Same
    <2> QED BY <1>6, <1>7, EveryNumber
<1>9. v[N] = u[N]
    BY <1>1, <1>8
<1>10. v[N + 1] = IF N + 1 \in J THEN Append(v[N], x) ELSE v[N]
    BY <1>1, <1>5
<1> QED BY <1>2, <1>3, <1>9, <1>10 DEF more, N

LEMMA SiftedNone ==
    ASSUME NEW I
    PROVE  Migration!Sifted(<<>>, I) = <<>>
<1>1. Len(<<>>) = 0
    OBVIOUS
<1>2. PICK u : SiftedTo(<<>>, I, u, 0) /\ Migration!Sifted(<<>>, I) = u[0]
    BY <1>1, SiftedEnds
<1> QED BY <1>2 DEF SiftedTo

LEMMA OnlyGrows ==
    ASSUME NEW S, NEW s \in Seq(S), NEW x \in S, NEW A
    PROVE  /\ Migration!Only(Append(s, x), A) = IF x \in A THEN Append(Migration!Only(s, A), x) ELSE Migration!Only(s, A)
           /\ Migration!Only(<<>>, A) = <<>>
<1> DEFINE more == Append(s, x)
           I == {i \in DOMAIN s : s[i] \in A}
           J == {i \in DOMAIN more : more[i] \in A}
<1>1. /\ Len(s) \in Nat /\ DOMAIN s = 1..Len(s) /\ DOMAIN more = 1..(Len(s) + 1)
      /\ (\A n \in 1..Len(s) : more[n] = s[n]) /\ more[Len(s) + 1] = x
    <2>1. more \in Seq(S) /\ Len(more) = Len(s) + 1 /\ (\A n \in 1..Len(s) : more[n] = s[n]) /\ more[Len(s) + 1] = x
        BY AppendProperties
    <2> HIDE DEF more
    <2> QED BY <2>1, LenProperties
<1> HIDE DEF more
<1>2. \A n \in 1..Len(s) : n \in J <=> n \in I
    BY <1>1
<1>3. Len(s) + 1 \in J <=> x \in A
    BY <1>1
<1>4. Migration!Only(s, A) = Migration!Sifted(s, I) /\ Migration!Only(more, A) = Migration!Sifted(more, J)
    BY DEF Migration!Only
<1> HIDE DEF I, J
<1>5. Migration!Sifted(more, J) = IF Len(s) + 1 \in J THEN Append(Migration!Sifted(s, I), x) ELSE Migration!Sifted(s, I)
    BY <1>2, SiftedGrows DEF more
<1>6. Migration!Only(<<>>, A) = <<>>
    BY SiftedNone DEF Migration!Only
<1> QED BY <1>3, <1>4, <1>5, <1>6 DEF more

LEMMA UniqueGrows ==
    ASSUME NEW S, NEW s \in Seq(S), NEW x \in S
    PROVE  /\ Migration!Unique(Append(s, x)) = IF x \in ToSet(s) THEN Migration!Unique(s) ELSE Append(Migration!Unique(s), x)
           /\ Migration!Unique(<<>>) = <<>>
<1> DEFINE more == Append(s, x)
           I == {i \in DOMAIN s : \A j \in 1..(i - 1) : s[j] # s[i]}
           J == {i \in DOMAIN more : \A j \in 1..(i - 1) : more[j] # more[i]}
<1>1. /\ Len(s) \in Nat /\ DOMAIN s = 1..Len(s) /\ DOMAIN more = 1..(Len(s) + 1)
      /\ (\A n \in 1..Len(s) : more[n] = s[n]) /\ more[Len(s) + 1] = x
    <2>1. more \in Seq(S) /\ Len(more) = Len(s) + 1 /\ (\A n \in 1..Len(s) : more[n] = s[n]) /\ more[Len(s) + 1] = x
        BY AppendProperties
    <2> HIDE DEF more
    <2> QED BY <2>1, LenProperties
<1> HIDE DEF more
<1>2. \A n \in 1..Len(s) : n \in J <=> n \in I
    <2> TAKE n \in 1..Len(s)
    <2>1. n \in DOMAIN s /\ n \in DOMAIN more /\ more[n] = s[n] /\ \A j \in 1..(n - 1) : more[j] = s[j]
        BY <1>1
    <2> QED BY <2>1
<1>3. Len(s) + 1 \in J <=> x \notin ToSet(s)
    <2>1. Len(s) + 1 \in DOMAIN more /\ Len(s) + 1 - 1 = Len(s)
        BY <1>1
    <2>2. Len(s) + 1 \in J <=> \A j \in 1..Len(s) : s[j] # x
        BY <1>1, <2>1
    <2>3. ToSet(s) = {s[j] : j \in 1..Len(s)}
        BY <1>1 DEF ToSet
    <2> QED BY <2>2, <2>3
<1>4. Migration!Unique(s) = Migration!Sifted(s, I) /\ Migration!Unique(more) = Migration!Sifted(more, J)
    BY DEF Migration!Unique
<1> HIDE DEF I, J
<1>5. Migration!Sifted(more, J) = IF Len(s) + 1 \in J THEN Append(Migration!Sifted(s, I), x) ELSE Migration!Sifted(s, I)
    BY <1>2, SiftedGrows DEF more
<1>6. Migration!Unique(<<>>) = <<>>
    BY SiftedNone DEF Migration!Unique
<1> QED BY <1>3, <1>4, <1>5, <1>6 DEF more
-----------------------------------------------------------------------------
LEMMA AppendedSet ==
    ASSUME NEW S, NEW s \in Seq(S), NEW x \in S
    PROVE  ToSet(Append(s, x)) = ToSet(s) \cup {x} /\ ToSet(<<>>) = {}
<1> DEFINE more == Append(s, x)
<1>1. more \in Seq(S) /\ Len(more) = Len(s) + 1 /\ (\A n \in 1..Len(s) : more[n] = s[n]) /\ more[Len(s) + 1] = x
    BY AppendProperties
<1> HIDE DEF more
<1>2. DOMAIN more = 1..(Len(s) + 1) /\ DOMAIN s = 1..Len(s) /\ Len(s) \in Nat
    BY <1>1, LenProperties
<1>3. ToSet(more) = {more[n] : n \in 1..(Len(s) + 1)} /\ ToSet(s) = {s[n] : n \in 1..Len(s)}
    BY <1>2 DEF ToSet
<1>4. 1..(Len(s) + 1) = 1..Len(s) \cup {Len(s) + 1}
    BY <1>2
<1>5. ToSet(more) = ToSet(s) \cup {x}
    BY <1>1, <1>3, <1>4
<1>6. ToSet(<<>>) = {}
    BY DEF ToSet
<1> QED BY <1>5, <1>6 DEF more

(* What is left of a sequence is what it has of those. *)
LEMMA OnlyIsPart ==
    ASSUME NEW S, NEW s \in Seq(S), NEW A
    PROVE  Migration!Only(s, A) \in Seq(S) /\ ToSet(Migration!Only(s, A)) = ToSet(s) \cap A
<1> DEFINE G == {t \in Seq(S) : Migration!Only(t, A) \in Seq(S) /\ ToSet(Migration!Only(t, A)) = ToSet(t) \cap A}
<1>1. <<>> \in G
    <2>1. Migration!Only(<<>>, A) = <<>>
        BY SiftedNone DEF Migration!Only
    <2>2. ToSet(<<>>) = {} /\ <<>> \in Seq(S)
        BY DEF ToSet
    <2> QED BY <2>1, <2>2
<1>2. ASSUME NEW t \in Seq(S), NEW x \in S, t \in G
      PROVE  Append(t, x) \in G
    <2> DEFINE more == Append(t, x)
               rest == Migration!Only(t, A)
    <2>1. more \in Seq(S) /\ ToSet(more) = ToSet(t) \cup {x}
        BY AppendedSet, AppendProperties
    <2>2. Migration!Only(more, A) = IF x \in A THEN Append(rest, x) ELSE rest
        BY OnlyGrows
    <2>3. rest \in Seq(S) /\ ToSet(rest) = ToSet(t) \cap A
        BY <1>2
    <2> HIDE DEF rest, more
    <2>4. Append(rest, x) \in Seq(S) /\ ToSet(Append(rest, x)) = ToSet(rest) \cup {x}
        BY <2>3, AppendedSet, AppendProperties
    <2>5. Migration!Only(more, A) \in Seq(S) /\ ToSet(Migration!Only(more, A)) = ToSet(more) \cap A
        <3>1. CASE x \in A
            BY <2>1, <2>2, <2>3, <2>4, <3>1
        <3>2. CASE x \notin A
            BY <2>1, <2>2, <2>3, <3>2
        <3> QED BY <3>1, <3>2
    <2>6. more \in G
        BY <2>1, <2>5
    <2> QED BY <2>6 DEF more
<1>3. Seq(S) \subseteq G
    <2> HIDE DEF G
    <2> QED BY <1>1, <1>2, EverySequence
<1> QED BY <1>3

(* Uniqueness takes nothing away. *)
LEMMA UniqueIsWhole ==
    ASSUME NEW S, NEW s \in Seq(S)
    PROVE  Migration!Unique(s) \in Seq(S) /\ ToSet(Migration!Unique(s)) = ToSet(s)
<1> DEFINE G == {t \in Seq(S) : Migration!Unique(t) \in Seq(S) /\ ToSet(Migration!Unique(t)) = ToSet(t)}
<1>1. <<>> \in G
    <2>1. Migration!Unique(<<>>) = <<>> /\ <<>> \in Seq(S)
        BY SiftedNone DEF Migration!Unique
    <2> QED BY <2>1
<1>2. ASSUME NEW t \in Seq(S), NEW x \in S, t \in G
      PROVE  Append(t, x) \in G
    <2> DEFINE more == Append(t, x)
               rest == Migration!Unique(t)
    <2>1. more \in Seq(S) /\ ToSet(more) = ToSet(t) \cup {x}
        BY AppendedSet, AppendProperties
    <2>2. Migration!Unique(more) = IF x \in ToSet(t) THEN rest ELSE Append(rest, x)
        BY UniqueGrows
    <2>3. rest \in Seq(S) /\ ToSet(rest) = ToSet(t)
        BY <1>2
    <2> HIDE DEF rest, more
    <2>4. Append(rest, x) \in Seq(S) /\ ToSet(Append(rest, x)) = ToSet(rest) \cup {x}
        BY <2>3, AppendedSet, AppendProperties
    <2>5. Migration!Unique(more) \in Seq(S) /\ ToSet(Migration!Unique(more)) = ToSet(more)
        <3>1. CASE x \in ToSet(t)
            BY <2>1, <2>2, <2>3, <3>1
        <3>2. CASE x \notin ToSet(t)
            BY <2>1, <2>2, <2>3, <2>4, <3>2
        <3> QED BY <3>1, <3>2
    <2>6. more \in G
        BY <2>1, <2>5
    <2> QED BY <2>6 DEF more
<1>3. Seq(S) \subseteq G
    <2> HIDE DEF G
    <2> QED BY <1>1, <1>2, EverySequence
<1> QED BY <1>3

LEMMA OnlyOfOnly ==
    ASSUME NEW S, NEW s \in Seq(S), NEW A, NEW B
    PROVE  Migration!Only(Migration!Only(s, A), B) = Migration!Only(s, A \cap B)
<1> DEFINE G == {t \in Seq(S) : Migration!Only(Migration!Only(t, A), B) = Migration!Only(t, A \cap B)}
<1>1. <<>> \in G
    <2>1. \A C : Migration!Only(<<>>, C) = <<>> /\ <<>> \in Seq(S)
        BY SiftedNone DEF Migration!Only
    <2> QED BY <2>1
<1>2. ASSUME NEW t \in Seq(S), NEW x \in S, t \in G
      PROVE  Append(t, x) \in G
    <2> DEFINE more == Append(t, x)
               rest == Migration!Only(t, A)
    <2>1. rest \in Seq(S) /\ more \in Seq(S)
        BY OnlyIsPart, AppendProperties
    <2>2. Migration!Only(more, A) = IF x \in A THEN Append(rest, x) ELSE rest
        BY OnlyGrows
    <2>3. Migration!Only(more, A \cap B) = IF x \in A \cap B THEN Append(Migration!Only(t, A \cap B), x) ELSE Migration!Only(t, A \cap B)
        BY OnlyGrows
    <2>4. Migration!Only(rest, B) = Migration!Only(t, A \cap B)
        BY <1>2
    <2> HIDE DEF rest, more
    <2>5. Migration!Only(Append(rest, x), B) = IF x \in B THEN Append(Migration!Only(rest, B), x) ELSE Migration!Only(rest, B)
        BY <2>1, OnlyGrows
    <2>6. Migration!Only(Migration!Only(more, A), B) = Migration!Only(more, A \cap B)
        <3>1. CASE x \in A /\ x \in B
            <4>1. Migration!Only(more, A) = Append(rest, x) /\ x \in A \cap B
                BY <2>2, <3>1
            <4>2. Migration!Only(Append(rest, x), B) = Append(Migration!Only(rest, B), x)
                BY <2>5, <3>1
            <4> QED BY <2>3, <2>4, <4>1, <4>2
        <3>2. CASE x \in A /\ x \notin B
            <4>1. Migration!Only(more, A) = Append(rest, x) /\ x \notin A \cap B
                BY <2>2, <3>2
            <4>2. Migration!Only(Append(rest, x), B) = Migration!Only(rest, B)
                BY <2>5, <3>2
            <4> QED BY <2>3, <2>4, <4>1, <4>2
        <3>3. CASE x \notin A
            <4>1. Migration!Only(more, A) = rest /\ x \notin A \cap B
                BY <2>2, <3>3
            <4> QED BY <2>3, <2>4, <4>1
        <3> QED BY <3>1, <3>2, <3>3
    <2>7. more \in G
        BY <2>1, <2>6
    <2> QED BY <2>7 DEF more
<1>3. Seq(S) \subseteq G
    <2> HIDE DEF G
    <2> QED BY <1>1, <1>2, EverySequence
<1> QED BY <1>3

LEMMA OnlyOfAll ==
    ASSUME NEW S, NEW s \in Seq(S), NEW A
    PROVE  /\ ToSet(s) \subseteq A => Migration!Only(s, A) = s
           /\ ToSet(s) \cap A = {} => Migration!Only(s, A) = <<>>
<1> DEFINE G == {t \in Seq(S) : /\ ToSet(t) \subseteq A => Migration!Only(t, A) = t
                                /\ ToSet(t) \cap A = {} => Migration!Only(t, A) = <<>>}
<1>1. <<>> \in G
    <2>1. Migration!Only(<<>>, A) = <<>> /\ <<>> \in Seq(S)
        BY SiftedNone DEF Migration!Only
    <2> QED BY <2>1
<1>2. ASSUME NEW t \in Seq(S), NEW x \in S, t \in G
      PROVE  Append(t, x) \in G
    <2> DEFINE more == Append(t, x)
    <2>1. more \in Seq(S) /\ ToSet(more) = ToSet(t) \cup {x}
        BY AppendedSet, AppendProperties
    <2>2. Migration!Only(more, A) = IF x \in A THEN Append(Migration!Only(t, A), x) ELSE Migration!Only(t, A)
        BY OnlyGrows
    <2>3. /\ ToSet(t) \subseteq A => Migration!Only(t, A) = t
          /\ ToSet(t) \cap A = {} => Migration!Only(t, A) = <<>>
        BY <1>2
    <2>4. ToSet(more) \subseteq A => Migration!Only(more, A) = more
        BY <2>1, <2>2, <2>3
    <2>5. ToSet(more) \cap A = {} => Migration!Only(more, A) = <<>>
        <3> HIDE DEF more
        <3> QED BY <2>1, <2>2, <2>3
    <2>6. more \in G
        BY <2>1, <2>4, <2>5
    <2> QED BY <2>6
<1>3. Seq(S) \subseteq G
    <2> HIDE DEF G
    <2> QED BY <1>1, <1>2, EverySequence
<1> QED BY <1>3

LEMMA OnlyOfUnique ==
    ASSUME NEW S, NEW s \in Seq(S), NEW A
    PROVE  Migration!Only(Migration!Unique(s), A) = Migration!Unique(Migration!Only(s, A))
<1> DEFINE G == {t \in Seq(S) : Migration!Only(Migration!Unique(t), A) = Migration!Unique(Migration!Only(t, A))}
<1>1. <<>> \in G
    <2>1. Migration!Only(<<>>, A) = <<>> /\ Migration!Unique(<<>>) = <<>> /\ <<>> \in Seq(S)
        BY SiftedNone DEF Migration!Only, Migration!Unique
    <2> QED BY <2>1
<1>2. ASSUME NEW t \in Seq(S), NEW x \in S, t \in G
      PROVE  Append(t, x) \in G
    <2> DEFINE more == Append(t, x)
               rest == Migration!Only(t, A)
               once == Migration!Unique(t)
    <2>1. rest \in Seq(S) /\ once \in Seq(S) /\ more \in Seq(S) /\ ToSet(rest) = ToSet(t) \cap A
        BY OnlyIsPart, UniqueIsWhole, AppendProperties
    <2>2. Migration!Only(more, A) = IF x \in A THEN Append(rest, x) ELSE rest
        BY OnlyGrows
    <2>3. Migration!Unique(more) = IF x \in ToSet(t) THEN once ELSE Append(once, x)
        BY UniqueGrows
    <2>4. Migration!Only(once, A) = Migration!Unique(rest)
        BY <1>2
    <2> HIDE DEF rest, once, more
    <2>5. Migration!Only(Append(once, x), A) = IF x \in A THEN Append(Migration!Only(once, A), x) ELSE Migration!Only(once, A)
        BY <2>1, OnlyGrows
    <2>6. Migration!Unique(Append(rest, x)) = IF x \in ToSet(rest) THEN Migration!Unique(rest) ELSE Append(Migration!Unique(rest), x)
        BY <2>1, UniqueGrows
    <2>7. Migration!Only(Migration!Unique(more), A) = Migration!Unique(Migration!Only(more, A))
        <3>1. CASE x \in A /\ x \in ToSet(t)
            BY <2>1, <2>2, <2>3, <2>4, <2>6, <3>1
        <3>2. CASE x \in A /\ x \notin ToSet(t)
            BY <2>1, <2>2, <2>3, <2>4, <2>5, <2>6, <3>2
        <3>3. CASE x \notin A
            BY <2>2, <2>3, <2>4, <2>5, <3>3
        <3> QED BY <3>1, <3>2, <3>3
    <2>8. more \in G
        BY <2>1, <2>7
    <2> QED BY <2>8 DEF more
<1>3. Seq(S) \subseteq G
    <2> HIDE DEF G
    <2> QED BY <1>1, <1>2, EverySequence
<1> QED BY <1>3

LEMMA UniqueOfUnique ==
    ASSUME NEW S, NEW s \in Seq(S)
    PROVE  Migration!Unique(Migration!Unique(s)) = Migration!Unique(s)
<1> DEFINE G == {t \in Seq(S) : Migration!Unique(Migration!Unique(t)) = Migration!Unique(t)}
<1>1. <<>> \in G
    <2>1. Migration!Unique(<<>>) = <<>> /\ <<>> \in Seq(S)
        BY SiftedNone DEF Migration!Unique
    <2> QED BY <2>1
<1>2. ASSUME NEW t \in Seq(S), NEW x \in S, t \in G
      PROVE  Append(t, x) \in G
    <2> DEFINE more == Append(t, x)
               once == Migration!Unique(t)
    <2>1. once \in Seq(S) /\ more \in Seq(S) /\ ToSet(once) = ToSet(t)
        BY UniqueIsWhole, AppendProperties
    <2>2. Migration!Unique(more) = IF x \in ToSet(t) THEN once ELSE Append(once, x)
        BY UniqueGrows
    <2>3. Migration!Unique(once) = once
        BY <1>2
    <2> HIDE DEF once, more
    <2>4. Migration!Unique(Append(once, x)) = IF x \in ToSet(once) THEN Migration!Unique(once) ELSE Append(Migration!Unique(once), x)
        BY <2>1, UniqueGrows
    <2>5. Migration!Unique(Migration!Unique(more)) = Migration!Unique(more)
        BY <2>1, <2>2, <2>3, <2>4
    <2>6. more \in G
        BY <2>1, <2>5
    <2> QED BY <2>6 DEF more
<1>3. Seq(S) \subseteq G
    <2> HIDE DEF G
    <2> QED BY <1>1, <1>2, EverySequence
<1> QED BY <1>3
-----------------------------------------------------------------------------
(* The room keeps its places and notes. *)

(* told is what is left of the facts, each of them once. *)
Tells(facts, told) == Migration!Only(Migration!Unique(facts), ToSet(told)) = told

(* Whatever the sequence does not have makes no difference. *)
LEMMA OnlyOfMet ==
    ASSUME NEW S, NEW s \in Seq(S), NEW A, NEW B, ToSet(s) \cap A = ToSet(s) \cap B
    PROVE  Migration!Only(s, A) = Migration!Only(s, B)
<1>1. Migration!Only(s, ToSet(s)) = s
    BY OnlyOfAll
<1>2. Migration!Only(Migration!Only(s, ToSet(s)), A) = Migration!Only(s, ToSet(s) \cap A)
    BY OnlyOfOnly
<1>3. Migration!Only(Migration!Only(s, ToSet(s)), B) = Migration!Only(s, ToSet(s) \cap B)
    BY OnlyOfOnly
<1> QED BY <1>1, <1>2, <1>3

(* What is told is among the facts, and says nothing twice. *)
LEMMA ToldOnce ==
    ASSUME NEW S, NEW facts \in Seq(S), NEW told \in Seq(S), Tells(facts, told)
    PROVE  ToSet(told) \subseteq ToSet(facts) /\ Migration!Unique(told) = told
<1> DEFINE once == Migration!Unique(facts)
           T == ToSet(told)
<1>1. once \in Seq(S) /\ ToSet(once) = ToSet(facts) /\ Migration!Unique(once) = once
    BY UniqueIsWhole, UniqueOfUnique
<1>2. Migration!Only(once, T) = told
    BY DEF Tells
<1> HIDE DEF once, T
<1>3. ToSet(Migration!Only(once, T)) = ToSet(once) \cap T
    BY <1>1, OnlyIsPart
<1>4. Migration!Only(Migration!Unique(once), T) = Migration!Unique(Migration!Only(once, T))
    BY <1>1, OnlyOfUnique
<1>5. ToSet(told) \subseteq ToSet(facts)
    BY <1>1, <1>2, <1>3
<1>6. Migration!Unique(told) = told
    BY <1>1, <1>2, <1>4
<1> QED BY <1>5, <1>6

(* What an edit of the notes comes to. *)
OneEdit(S, before, after) ==
    \/ after = before
    \/ \E f \in S : after = Append(before, f)
    \/ \E f \in S : after = Migration!Only(before, S \ {f})
ToldAfter(S, before, after, told) ==
    Migration!Unique(Migration!Only(told, ToSet(after)) \o Migration!Only(after, S \ ToSet(before)))

LEMMA EditIsTold ==
    ASSUME NEW S, NEW before \in Seq(S), NEW after, NEW told \in Seq(S), Tells(before, told), OneEdit(S, before, after)
    PROVE  /\ ToldAfter(S, before, after, told) \in Seq(S)
           /\ Tells(after, ToldAfter(S, before, after, told))
<1> DEFINE once == Migration!Unique(before)
           T == ToSet(told)
           B == ToSet(before)
           new == ToldAfter(S, before, after, told)
<1>1. T \subseteq B /\ Migration!Unique(told) = told
    BY ToldOnce
<1>2. once \in Seq(S) /\ ToSet(once) = B
    BY UniqueIsWhole
<1>3. Migration!Only(once, T) = told
    BY DEF Tells
<1>4. Migration!Only(before, S \ B) = <<>>
    BY OnlyOfAll
<1>5. told \o <<>> = told
    BY ConcatEmptySeq
<1>6. ASSUME ToSet(after) = B, Migration!Only(after, S \ B) = <<>>
      PROVE  new = told
    <2>1. Migration!Only(told, ToSet(after)) = told
        BY <1>1, <1>6, OnlyOfAll
    <2> QED BY <1>1, <1>5, <1>6, <2>1 DEF ToldAfter
<1>7. CASE after = before
    <2>1. new = told
        BY <1>4, <1>6, <1>7
    <2> QED BY <1>7, <2>1
<1>8. ASSUME NEW f \in S, after = Append(before, f)
      PROVE  new \in Seq(S) /\ Tells(after, new)
    <2>1. /\ after \in Seq(S) /\ ToSet(after) = B \cup {f}
          /\ Migration!Unique(after) = IF f \in B THEN once ELSE Append(once, f)
          /\ Migration!Only(after, S \ B) = IF f \in S \ B THEN Append(Migration!Only(before, S \ B), f) ELSE Migration!Only(before, S \ B)
        BY <1>8, AppendedSet, AppendProperties, UniqueGrows, OnlyGrows
    <2>2. CASE f \in B
        <3>1. ToSet(after) = B /\ Migration!Only(after, S \ B) = <<>> /\ Migration!Unique(after) = once
            BY <1>4, <2>1, <2>2
        <3>2. new = told
            BY <1>6, <3>1
        <3> QED BY <1>3, <3>1, <3>2 DEF Tells
    <2>3. CASE f \notin B
        <3>1. Migration!Unique(after) = Append(once, f) /\ Migration!Only(after, S \ B) = Append(<<>>, f)
            BY <1>4, <2>1, <2>3
        <3>2. Migration!Only(told, ToSet(after)) = told
            BY <1>1, <2>1, OnlyOfAll
        <3>3. told \o Append(<<>>, f) = Append(told, f)
            <4>1. Append(<<>>, f) = <<f>>
                OBVIOUS
            <4> QED BY <4>1, AppendIsConcat
        <3>4. Migration!Unique(Append(told, f)) = Append(told, f)
            <4>1. f \notin ToSet(told)
                BY <1>1, <2>3
            <4> QED BY <1>1, <4>1, UniqueGrows
        <3>5. new = Append(told, f)
            BY <3>1, <3>2, <3>3, <3>4 DEF ToldAfter
        <3>6. new \in Seq(S) /\ ToSet(new) = T \cup {f}
            BY <3>5, AppendedSet, AppendProperties
        <3>7. Migration!Only(Append(once, f), T \cup {f}) = Append(Migration!Only(once, T \cup {f}), f)
            <4> DEFINE C == T \cup {f}
            <4>1. f \in C
                OBVIOUS
            <4> HIDE DEF once, C
            <4>2. Migration!Only(Append(once, f), C) = IF f \in C THEN Append(Migration!Only(once, C), f) ELSE Migration!Only(once, C)
                BY <1>2, OnlyGrows
            <4>3. Migration!Only(Append(once, f), C) = Append(Migration!Only(once, C), f)
                BY <4>1, <4>2
            <4> QED BY <4>3 DEF C
        <3>8. Migration!Only(once, T \cup {f}) = Migration!Only(once, T)
            <4>1. ToSet(once) \cap (T \cup {f}) = ToSet(once) \cap T
                BY <1>2, <2>3
            <4> HIDE DEF once, T
            <4> QED BY <1>2, <4>1, OnlyOfMet
        <3>9. Migration!Only(Migration!Unique(after), ToSet(new)) = new
            BY <1>3, <3>1, <3>5, <3>6, <3>7, <3>8
        <3> QED BY <3>6, <3>9 DEF Tells
    <2> QED BY <2>2, <2>3
<1>9. ASSUME NEW f \in S, after = Migration!Only(before, S \ {f})
      PROVE  new \in Seq(S) /\ Tells(after, new)
    <2> DEFINE T2 == T \ {f}
    <2>1. after \in Seq(S) /\ ToSet(after) = B \cap (S \ {f}) /\ B \subseteq S
        <3>1. B \subseteq S
            BY LenProperties DEF ToSet
        <3> QED BY <1>9, <3>1, OnlyIsPart
    <2>2. Migration!Only(after, S \ B) = <<>>
        <3>1. ToSet(after) \cap (S \ B) = {}
            BY <2>1
        <3> QED BY <2>1, <3>1, OnlyOfAll
    <2>3. Migration!Only(told, ToSet(after)) = Migration!Only(told, T2)
        <3>1. ToSet(told) \cap ToSet(after) = ToSet(told) \cap T2
            BY <1>1, <2>1
        <3> HIDE DEF T2
        <3> QED BY <3>1, OnlyOfMet
    <2>4. Migration!Only(told, T2) \in Seq(S) /\ ToSet(Migration!Only(told, T2)) = T2
        <3>1. T \cap T2 = T2
            OBVIOUS
        <3> HIDE DEF T2
        <3> QED BY <3>1, OnlyIsPart
    <2>5. Migration!Only(told, T2) \o <<>> = Migration!Only(told, T2)
        BY <2>4, ConcatEmptySeq
    <2>6. Migration!Only(Migration!Unique(told), T2) = Migration!Unique(Migration!Only(told, T2))
        BY OnlyOfUnique
    <2>7. new = Migration!Only(told, T2)
        BY <1>1, <2>2, <2>3, <2>5, <2>6 DEF ToldAfter
    <2>8. Migration!Unique(after) = Migration!Only(once, S \ {f})
        BY <1>9, OnlyOfUnique
    <2>9. Migration!Only(Migration!Only(once, S \ {f}), T2) = Migration!Only(once, (S \ {f}) \cap T2)
        BY <1>2, OnlyOfOnly
    <2>10. Migration!Only(Migration!Only(once, T), T2) = Migration!Only(once, T \cap T2)
        BY <1>2, OnlyOfOnly
    <2>11. (S \ {f}) \cap T2 = T2 /\ T \cap T2 = T2
        BY <1>1, <2>1
    <2>12. Migration!Only(Migration!Unique(after), T2) = new
        BY <1>3, <2>7, <2>8, <2>9, <2>10, <2>11
    <2> QED BY <2>4, <2>7, <2>12 DEF Tells
<1> QED BY <1>7, <1>8, <1>9 DEF OneEdit

RoomData == [places : [Sites -> Nat], notes : Seq(Lore)]

(* Which release the room is served by, or was when it was stopped. *)
Serving == IF server # "off" THEN server ELSE IF deploy = "stopped" THEN image ELSE "new"

MigrationShape ==
    /\ table \in [Sites -> Nat] /\ (file = Migration!Gone \/ file \in Seq(Lore))
    /\ stored \in RoomData /\ truth \in RoomData
    /\ mark \in BOOLEAN /\ server \in {"old", "new", "off"} /\ image \in {"old", "new"}
    /\ deploy \in {"none", "stopped", "retiring", "applied", "undoing"}
    /\ server = "off" <=> deploy # "none"

(* The previous release has everything in the table and the file. *)
OldIsWhole ==
    Serving = "old" =>
      ~mark /\ stored = Migration!Empty /\ truth.places = table /\ Tells(Migration!Lines, truth.notes)

(* The new one has it in the store; what it leaves in the table it has as well. *)
NewIsWhole ==
    Serving = "new" =>
      /\ truth.places = stored.places /\ Tells(stored.notes, truth.notes)
      /\ Migration!Unique(stored.notes) = stored.notes
      /\ mark => \A p \in Sites : stored.places[p] = 0 => table[p] = 0
      /\ ~mark => table = Migration!NoPlaces /\ file = Migration!Gone

(* What a deploy or an undo has done before its next step. *)
HalfWay ==
    /\ deploy \in {"retiring", "applied", "undoing"} => mark
    /\ deploy = "undoing" /\ stored.notes # <<>> => file = stored.notes

MigrationInv == MigrationShape /\ OldIsWhole /\ NewIsWhole /\ HalfWay

(* The sign that there is no file is no sequence of facts. *)
LEMMA GoneIsNoFact == \A q \in Seq(Lore) : q # Migration!Gone
<1> SUFFICES ASSUME Migration!Gone \in Seq(Lore) PROVE FALSE
    OBVIOUS
<1>1. 1 \in 1..Len(Migration!Gone) /\ Migration!Gone[1] = "gone"
    BY DEF Migration!Gone
<1>2. "gone" \in Lore
    BY <1>1, ElementOfSeq
<1> QED BY <1>2, LoreAssumption

LEMMA LinesAreFacts ==
    ASSUME file = Migration!Gone \/ file \in Seq(Lore)
    PROVE  /\ Migration!Lines \in Seq(Lore)
           /\ file \in Seq(Lore) => Migration!Lines = file
           /\ file = Migration!Gone => Migration!Lines = <<>>
BY GoneIsNoFact, EmptySeq DEF Migration!Lines

LEMMA NothingWritten ==
    Migration!Only(<<>>, {}) = <<>> /\ Migration!Unique(<<>>) = <<>> /\ ToSet(<<>>) = {}
BY SiftedNone DEF Migration!Only, Migration!Unique, ToSet

LEMMA MigrationInit == Migration!Init => MigrationInv
<1> SUFFICES ASSUME Migration!Init PROVE MigrationInv
    OBVIOUS
<1>1. stored = Migration!Empty /\ mark = FALSE /\ deploy = "none" /\ image = "old"
      /\ truth = [places |-> table, notes |-> Migration!Unique(Migration!Lines)]
    BY DEF Migration!Init
<1>2. \/ server = "old" /\ table \in [Sites -> Nat] /\ (file = Migration!Gone \/ file \in Seq(Lore))
      \/ server = "new" /\ table = Migration!NoPlaces /\ file = Migration!Gone
    <2>1. ASSUME NEW q \in [1..2 -> Lore]
          PROVE  q \in Seq(Lore)
        BY ASequence
    <2>2. <<>> \in Seq(Lore)
        BY EmptySeq
    <2>3. CASE server = "old" /\ table \in [Sites -> {0, 1}] /\ file \in {Migration!Gone} \cup {<<>>} \cup [1..2 -> Lore]
        <3>1. table \in [Sites -> Nat]
            BY <2>3
        <3> QED BY <2>1, <2>2, <2>3, <3>1
    <2> QED BY <2>3 DEF Migration!Init
<1>3. table \in [Sites -> Nat] /\ stored \in RoomData
    <2>1. <<>> \in Seq(Lore)
        BY EmptySeq
    <2> QED BY <1>1, <1>2, <2>1 DEF Migration!NoPlaces, Migration!Empty, RoomData
<1>4. Migration!Lines \in Seq(Lore)
    <2>1. file = Migration!Gone \/ file \in Seq(Lore)
        BY <1>2
    <2> QED BY <2>1, LinesAreFacts
<1> DEFINE once == Migration!Unique(Migration!Lines)
<1>5. once \in Seq(Lore) /\ ToSet(once) = ToSet(Migration!Lines)
    BY <1>4, UniqueIsWhole
<1>6. Tells(Migration!Lines, once)
    <2>1. Migration!Only(once, ToSet(once)) = once
        <3> HIDE DEF once
        <3> QED BY <1>5, OnlyOfAll
    <2> QED BY <2>1 DEF Tells
<1>7. truth.notes = once /\ truth.places = table /\ truth \in RoomData
    BY <1>1, <1>3, <1>5 DEF RoomData
<1> HIDE DEF once
<1>8. MigrationShape
    BY <1>1, <1>2, <1>3, <1>7 DEF MigrationShape
<1>9. OldIsWhole
    BY <1>1, <1>6, <1>7 DEF OldIsWhole, Serving
<1>10. NewIsWhole
    <2> SUFFICES ASSUME server = "new" PROVE NewIsWhole
        BY <1>1, <1>2 DEF NewIsWhole, Serving
    <2>1. table = Migration!NoPlaces /\ file = Migration!Gone /\ Migration!Lines = <<>>
        BY <1>2, LinesAreFacts
    <2>2. once = <<>> /\ stored.notes = <<>> /\ stored.places = Migration!NoPlaces
        BY <1>1, <2>1, NothingWritten DEF once, Migration!Empty
    <2>3. Tells(<<>>, <<>>)
        BY NothingWritten DEF Tells
    <2> QED BY <1>1, <1>7, <2>1, <2>2, <2>3, NothingWritten DEF NewIsWhole
<1>11. HalfWay
    BY <1>1 DEF HalfWay
<1> QED BY <1>8, <1>9, <1>10, <1>11 DEF MigrationInv

(* What an edit is, of whatever the room is served from. *)
LEMMA EditedIs ==
    ASSUME NEW data \in RoomData, NEW after \in Migration!Edited(data)
    PROVE  /\ after \in RoomData
           /\ \A p \in Sites : data.places[p] <= after.places[p]
           /\ OneEdit(Lore, data.notes, after.notes)
<1>0. data.places \in [Sites -> Nat] /\ data.notes \in Seq(Lore) /\ data = [places |-> data.places, notes |-> data.notes]
    BY DEF RoomData
<1>1. ASSUME NEW p \in Sites, after = [data EXCEPT !.places[p] = @ + 1]
      PROVE  after \in RoomData /\ (\A q \in Sites : data.places[q] <= after.places[q]) /\ after.notes = data.notes
    <2>1. after.notes = data.notes /\ after.places = [data.places EXCEPT ![p] = @ + 1]
          /\ after = [places |-> after.places, notes |-> after.notes]
        BY <1>0, <1>1
    <2>2. after.places \in [Sites -> Nat] /\ \A q \in Sites : after.places[q] = IF q = p THEN data.places[q] + 1 ELSE data.places[q]
        BY <1>0, <2>1
    <2>3. \A q \in Sites : data.places[q] \in Nat
        BY <1>0
    <2> QED BY <1>0, <2>1, <2>2, <2>3 DEF RoomData
<1>2. ASSUME NEW f \in Lore, after = [data EXCEPT !.notes = Append(@, f)]
      PROVE  after \in RoomData /\ after.places = data.places /\ after.notes = Append(data.notes, f)
    <2>1. Append(data.notes, f) \in Seq(Lore)
        BY <1>0, AppendProperties
    <2> QED BY <1>0, <1>2, <2>1 DEF RoomData
<1>3. ASSUME NEW f \in Lore, after = [data EXCEPT !.notes = Migration!Only(@, Lore \ {f})]
      PROVE  after \in RoomData /\ after.places = data.places /\ after.notes = Migration!Only(data.notes, Lore \ {f})
    <2>1. Migration!Only(data.notes, Lore \ {f}) \in Seq(Lore)
        BY <1>0, OnlyIsPart
    <2> QED BY <1>0, <1>3, <2>1 DEF RoomData
<1>4. \A q \in Sites : data.places[q] <= data.places[q]
    BY <1>0
<1>5. \/ \E p \in Sites : after = [data EXCEPT !.places[p] = @ + 1]
      \/ \E f \in Lore : after = [data EXCEPT !.notes = Append(@, f)]
      \/ \E f \in Lore : after = [data EXCEPT !.notes = Migration!Only(@, Lore \ {f})]
    BY DEF Migration!Edited
<1> QED BY <1>1, <1>2, <1>3, <1>4, <1>5 DEF OneEdit

(* The truth follows an edit of what the room is served from. *)
LEMMA TruthFollows ==
    ASSUME NEW before \in RoomData, NEW after \in RoomData, truth \in RoomData,
           truth.places = before.places, Tells(before.notes, truth.notes),
           OneEdit(Lore, before.notes, after.notes), Migration!Follows(before, after)
    PROVE  truth' \in RoomData /\ truth'.places = after.places /\ Tells(after.notes, truth'.notes)
<1>1. /\ before.notes \in Seq(Lore) /\ truth.notes \in Seq(Lore)
      /\ before.places \in [Sites -> Nat] /\ after.places \in [Sites -> Nat]
    BY DEF RoomData
<1> DEFINE told == ToldAfter(Lore, before.notes, after.notes, truth.notes)
           summed == [p \in Sites |-> truth.places[p] + after.places[p] - before.places[p]]
<1>2. truth' = [places |-> summed, notes |-> told]
    BY Zenon DEF Migration!Follows, ToldAfter, ToSet, Migration!ToSet
<1>3. told \in Seq(Lore) /\ Tells(after.notes, told)
    BY <1>1, EditIsTold
<1>4. summed = after.places
    <2>1. \A p \in Sites : truth.places[p] + after.places[p] - before.places[p] = after.places[p]
        BY <1>1
    <2>2. summed = [p \in Sites |-> after.places[p]]
        BY <2>1
    <2> HIDE DEF summed
    <2> QED BY <1>1, <2>2
<1> HIDE DEF told, summed
<1> QED BY <1>1, <1>2, <1>3, <1>4 DEF RoomData

LEMMA SameServing ==
    ASSUME MigrationInv, UNCHANGED <<table, file, stored, mark, truth>>, Serving' = Serving
    PROVE  OldIsWhole' /\ NewIsWhole'
<1>1. Migration!Lines' = Migration!Lines
    BY DEF Migration!Lines
<1> QED BY <1>1 DEF MigrationInv, OldIsWhole, NewIsWhole, Tells

LEMMA ServingIs ==
    ASSUME MigrationShape
    PROVE  Serving \in {"old", "new"}
BY DEF MigrationShape, Serving

LEMMA EditsKeep ==
    ASSUME MigrationInv, Migration!EditOld \/ Migration!EditNew
    PROVE  MigrationInv'
<1>1. CASE Migration!EditOld
    <2> DEFINE before == [places |-> table, notes |-> Migration!Lines]
    <2>1. server = "old" /\ deploy = "none" /\ UNCHANGED <<stored, mark, server, deploy, image>>
        BY <1>1 DEF Migration!EditOld, MigrationInv, MigrationShape
    <2>2. ~mark /\ stored = Migration!Empty /\ truth.places = table /\ Tells(Migration!Lines, truth.notes)
        BY <2>1 DEF MigrationInv, OldIsWhole, Serving
    <2>3. Migration!Lines \in Seq(Lore) /\ before \in RoomData
        BY LinesAreFacts DEF MigrationInv, MigrationShape, RoomData
    <2>4. PICK after \in Migration!Edited(before) :
             table' = after.places /\ file' = after.notes /\ Migration!Follows(before, after)
        BY <1>1 DEF Migration!EditOld
    <2>5. before.places = table /\ before.notes = Migration!Lines
        OBVIOUS
    <2> HIDE DEF before
    <2>6. after \in RoomData /\ OneEdit(Lore, before.notes, after.notes)
        BY <2>3, <2>4, EditedIs
    <2>7. truth' \in RoomData /\ truth'.places = after.places /\ Tells(after.notes, truth'.notes)
        BY <2>2, <2>3, <2>4, <2>5, <2>6, TruthFollows DEF MigrationInv, MigrationShape
    <2>8. table' \in [Sites -> Nat] /\ file' \in Seq(Lore)
        BY <2>4, <2>6 DEF RoomData
    <2>9. Migration!Lines' = file'
        <3>1. file' # Migration!Gone
            BY <2>8, GoneIsNoFact
        <3> QED BY <3>1 DEF Migration!Lines
    <2>10. MigrationShape'
        BY <2>1, <2>7, <2>8 DEF MigrationInv, MigrationShape
    <2>11. OldIsWhole' /\ NewIsWhole' /\ HalfWay'
        BY <2>1, <2>2, <2>4, <2>7, <2>9 DEF OldIsWhole, NewIsWhole, HalfWay, Serving, Tells, Migration!Empty
    <2> QED BY <2>10, <2>11 DEF MigrationInv
<1>2. CASE Migration!EditNew
    <2>1. server = "new" /\ deploy = "none" /\ UNCHANGED <<table, file, mark, server, deploy, image>>
        BY <1>2 DEF Migration!EditNew, MigrationInv, MigrationShape
    <2>2. /\ truth.places = stored.places /\ Tells(stored.notes, truth.notes)
          /\ Migration!Unique(stored.notes) = stored.notes
          /\ mark => \A p \in Sites : stored.places[p] = 0 => table[p] = 0
          /\ ~mark => table = Migration!NoPlaces /\ file = Migration!Gone
        BY <2>1 DEF MigrationInv, NewIsWhole, Serving
    <2>3. PICK after \in Migration!Edited(stored) :
             stored' = [after EXCEPT !.notes = Migration!Unique(@)] /\ Migration!Follows(stored, stored')
        BY <1>2 DEF Migration!EditNew
    <2>4. stored \in RoomData /\ truth \in RoomData
        BY DEF MigrationInv, MigrationShape
    <2>5. after \in RoomData /\ OneEdit(Lore, stored.notes, after.notes) /\ \A p \in Sites : stored.places[p] <= after.places[p]
        BY <2>3, <2>4, EditedIs
    <2> DEFINE once == Migration!Unique(after.notes)
    <2>6. once \in Seq(Lore) /\ Migration!Unique(once) = once
        BY <2>5, UniqueIsWhole, UniqueOfUnique DEF RoomData
    <2>7. stored'.places = after.places /\ stored'.notes = once /\ stored' \in RoomData
        BY <2>3, <2>5, <2>6 DEF RoomData
    <2>8. OneEdit(Lore, stored.notes, once)
        <3>1. stored.notes \in Seq(Lore)
            BY <2>4 DEF RoomData
        <3>2. CASE after.notes = stored.notes
            BY <2>2, <3>2 DEF OneEdit
        <3>3. ASSUME NEW f \in Lore, after.notes = Append(stored.notes, f)
              PROVE  OneEdit(Lore, stored.notes, once)
            <4>1. once = stored.notes \/ once = Append(stored.notes, f)
                BY <2>2, <3>1, <3>3, UniqueGrows
            <4> QED BY <4>1 DEF OneEdit
        <3>4. ASSUME NEW f \in Lore, after.notes = Migration!Only(stored.notes, Lore \ {f})
              PROVE  OneEdit(Lore, stored.notes, once)
            <4>1. once = Migration!Only(stored.notes, Lore \ {f})
                BY <2>2, <3>1, <3>4, OnlyOfUnique
            <4> QED BY <4>1 DEF OneEdit
        <3> QED BY <2>5, <3>2, <3>3, <3>4 DEF OneEdit
    <2> HIDE DEF once
    <2>9. truth' \in RoomData /\ truth'.places = stored'.places /\ Tells(stored'.notes, truth'.notes)
        BY <2>2, <2>3, <2>4, <2>7, <2>8, TruthFollows
    <2>10. mark => \A p \in Sites : stored'.places[p] = 0 => table[p] = 0
        <3>1. \A p \in Sites : stored.places[p] \in Nat /\ after.places[p] \in Nat
            BY <2>4, <2>5 DEF RoomData
        <3> QED BY <2>2, <2>5, <2>7, <3>1
    <2>11. MigrationShape'
        BY <2>1, <2>7, <2>9 DEF MigrationInv, MigrationShape
    <2>12. OldIsWhole' /\ NewIsWhole' /\ HalfWay'
        BY <2>1, <2>2, <2>6, <2>7, <2>9, <2>10 DEF OldIsWhole, NewIsWhole, HalfWay, Serving, Tells
    <2> QED BY <2>11, <2>12 DEF MigrationInv
<1> QED BY <1>1, <1>2

LEMMA MovesKeep ==
    ASSUME MigrationInv, Migration!Stop \/ Migration!Up \/ Migration!ScriptDies \/ Migration!UndoFails
    PROVE  MigrationInv'
<1>1. MigrationShape /\ HalfWay
    BY DEF MigrationInv
<1>2. UNCHANGED <<table, file, stored, mark, truth>> /\ Serving' = Serving
    BY <1>1 DEF Migration!Stop, Migration!Up, Migration!ScriptDies, Migration!UndoFails, MigrationShape, Serving
<1>3. OldIsWhole' /\ NewIsWhole'
    BY <1>2, SameServing
<1>4. MigrationShape' /\ HalfWay'
    BY <1>1, <1>2 DEF Migration!Stop, Migration!Up, Migration!ScriptDies, Migration!UndoFails, MigrationShape, HalfWay
<1> QED BY <1>3, <1>4 DEF MigrationInv

LEMMA ByHandKeeps ==
    ASSUME MigrationInv, Migration!UpByHand
    PROVE  MigrationInv'
<1>1. server \in {"old", "new"} /\ deploy = "none" /\ server' = "new" /\ deploy' = "none"
      /\ UNCHANGED <<table, file, stored, mark, deploy, image, truth>>
    BY DEF Migration!UpByHand, MigrationInv, MigrationShape
<1>2. MigrationShape' /\ HalfWay'
    BY <1>1 DEF MigrationInv, MigrationShape, HalfWay
<1>3. CASE server = "new"
    <2>1. Serving' = Serving
        BY <1>1, <1>3 DEF Serving
    <2> QED BY <1>1, <1>2, <2>1, SameServing DEF MigrationInv
<1>4. CASE server = "old"
    <2>1. ~mark /\ stored = Migration!Empty /\ truth.places = table /\ Tells(Migration!Lines, truth.notes)
        BY <1>1, <1>4 DEF MigrationInv, OldIsWhole, Serving
    <2>2. table = Migration!NoPlaces /\ file = Migration!Gone
        BY <2>1 DEF Migration!UpByHand, Migration!Pending
    <2>3. Migration!Lines = <<>>
        BY <2>2, LinesAreFacts
    <2>4. stored.notes = <<>> /\ stored.places = table
        BY <2>1, <2>2 DEF Migration!Empty
    <2>5. NewIsWhole'
        BY <1>1, <2>1, <2>2, <2>3, <2>4, NothingWritten DEF NewIsWhole, Serving, Tells
    <2>6. OldIsWhole'
        BY <1>1 DEF OldIsWhole, Serving
    <2> QED BY <1>2, <2>5, <2>6 DEF MigrationInv
<1> QED BY <1>1, <1>3, <1>4

LEMMA RetireKeeps ==
    ASSUME MigrationInv, Migration!Retire
    PROVE  MigrationInv'
<1>1. deploy = "retiring" /\ deploy' = "applied" /\ file' \in {Migration!Gone, file} /\ mark
      /\ UNCHANGED <<table, stored, mark, server, image, truth>> /\ server = "off"
    BY DEF Migration!Retire, MigrationInv, MigrationShape, HalfWay
<1>2. MigrationShape' /\ HalfWay'
    BY <1>1 DEF MigrationInv, MigrationShape, HalfWay
<1>3. Serving = "new" /\ Serving' = "new"
    BY <1>1 DEF Serving
<1>4. OldIsWhole' /\ NewIsWhole'
    BY <1>1, <1>3 DEF MigrationInv, OldIsWhole, NewIsWhole, Tells
<1> QED BY <1>2, <1>4 DEF MigrationInv

LEMMA ApplyKeeps ==
    ASSUME MigrationInv, Migration!Apply
    PROVE  MigrationInv'
<1>1. deploy = "stopped" /\ server = "off" /\ Serving = image /\ UNCHANGED <<table, file, image, truth>>
    BY DEF Migration!Apply, MigrationInv, MigrationShape, Serving
<1>2. CASE mark /\ deploy' = "applied" /\ UNCHANGED <<stored, mark, server>>
    <2>1. Serving = "new"
        BY <1>2, ServingIs DEF MigrationInv, OldIsWhole
    <2>2. Serving' = "new"
        BY <1>1, <1>2 DEF Serving
    <2>3. MigrationShape' /\ HalfWay'
        BY <1>1, <1>2 DEF MigrationInv, MigrationShape, HalfWay
    <2> QED BY <1>1, <1>2, <2>1, <2>2, <2>3, SameServing DEF MigrationInv
<1>3. CASE ~mark /\ server' = image /\ deploy' = "none" /\ UNCHANGED <<stored, mark>>
    <2>1. Serving' = Serving
        BY <1>1, <1>3 DEF Serving, MigrationInv, MigrationShape
    <2>2. MigrationShape' /\ HalfWay'
        BY <1>1, <1>3 DEF MigrationInv, MigrationShape, HalfWay
    <2> QED BY <1>1, <1>3, <2>1, <2>2, SameServing DEF MigrationInv
<1>4. CASE ~mark /\ Migration!Verified /\ stored' = Migration!Imported /\ mark' = TRUE
           /\ deploy' = "retiring" /\ UNCHANGED server
    <2> DEFINE once == Migration!Unique(Migration!Lines)
               imported == [p \in Sites |-> IF stored.places[p] = 0 THEN table[p] ELSE stored.places[p]]
    <2>1. Migration!Imported = [places |-> imported, notes |-> Migration!Unique(stored.notes \o Migration!Lines)]
        BY DEF Migration!Imported
    <2>2. stored'.notes = once /\ stored'.places = imported
        BY <1>4, <2>1 DEF Migration!Verified
    <2>3. Migration!Lines \in Seq(Lore) /\ table \in [Sites -> Nat] /\ stored \in RoomData
        BY LinesAreFacts DEF MigrationInv, MigrationShape
    <2>4. once \in Seq(Lore) /\ Migration!Unique(once) = once
        BY <2>3, UniqueIsWhole, UniqueOfUnique
    <2>5. imported \in [Sites -> Nat] /\ \A p \in Sites : imported[p] = 0 => table[p] = 0
        BY <2>3 DEF RoomData
    <2>6. stored' \in RoomData
        BY <1>4, <2>1, <2>2, <2>4, <2>5 DEF RoomData
    <2>7. truth.places = imported /\ Tells(once, truth.notes)
        <3>1. CASE image = "old"
            <4>1. stored = Migration!Empty /\ truth.places = table /\ Tells(Migration!Lines, truth.notes)
                BY <1>1, <3>1 DEF MigrationInv, OldIsWhole
            <4>2. imported = table
                BY <2>3, <4>1 DEF Migration!Empty, Migration!NoPlaces
            <4> QED BY <2>4, <4>1, <4>2 DEF Tells
        <3>2. CASE image = "new"
            <4>1. /\ truth.places = stored.places /\ Tells(stored.notes, truth.notes)
                  /\ Migration!Unique(stored.notes) = stored.notes
                  /\ table = Migration!NoPlaces /\ file = Migration!Gone
                BY <1>1, <1>4, <3>2 DEF MigrationInv, NewIsWhole
            <4>2. Migration!Lines = <<>> /\ once = <<>>
                BY <4>1, LinesAreFacts, NothingWritten
            <4>3. stored.notes \o <<>> = stored.notes
                BY <2>3, ConcatEmptySeq DEF RoomData
            <4>4. stored.notes = <<>>
                BY <1>4, <2>1, <2>2, <4>1, <4>2, <4>3
            <4>5. imported = stored.places
                BY <2>3, <4>1 DEF RoomData, Migration!NoPlaces
            <4> QED BY <4>1, <4>2, <4>4, <4>5
        <3> QED BY <3>1, <3>2 DEF MigrationInv, MigrationShape
    <2> HIDE DEF once, imported
    <2>8. MigrationShape' /\ HalfWay'
        BY <1>1, <1>4, <2>6 DEF MigrationInv, MigrationShape, HalfWay
    <2>9. OldIsWhole' /\ NewIsWhole'
        BY <1>1, <1>4, <2>2, <2>4, <2>5, <2>7 DEF OldIsWhole, NewIsWhole, Serving, Tells
    <2> QED BY <2>8, <2>9 DEF MigrationInv
<1> QED BY <1>2, <1>3, <1>4 DEF Migration!Apply

LEMMA UndoKeeps ==
    ASSUME MigrationInv, Migration!UndoFiles \/ Migration!UndoCommits
    PROVE  MigrationInv'
<1>1. CASE Migration!UndoFiles
    <2>1. server = "new" /\ mark /\ server' = "off" /\ deploy' = "undoing"
          /\ file' = (IF stored.notes # <<>> THEN stored.notes ELSE file)
          /\ UNCHANGED <<table, stored, mark, image, truth>>
        BY <1>1 DEF Migration!UndoFiles
    <2>2. MigrationShape' /\ HalfWay'
        BY <2>1 DEF MigrationInv, MigrationShape, HalfWay, RoomData
    <2>3. Serving = "new" /\ Serving' = "new"
        BY <2>1 DEF Serving
    <2>4. OldIsWhole' /\ NewIsWhole'
        BY <2>1, <2>3 DEF MigrationInv, OldIsWhole, NewIsWhole, Tells
    <2> QED BY <2>2, <2>4 DEF MigrationInv
<1>2. CASE Migration!UndoCommits
    <2>1. deploy = "undoing" /\ server = "off" /\ mark /\ table' = Migration!Restored
          /\ stored' = Migration!Empty /\ mark' = FALSE /\ server' = "old" /\ deploy' = "none"
          /\ UNCHANGED <<file, image, truth>> /\ (stored.notes # <<>> => file = stored.notes)
        BY <1>2 DEF Migration!UndoCommits, MigrationInv, MigrationShape, HalfWay
    <2>2. /\ truth.places = stored.places /\ Tells(stored.notes, truth.notes)
          /\ \A p \in Sites : stored.places[p] = 0 => table[p] = 0
        BY <2>1 DEF MigrationInv, NewIsWhole, Serving
    <2>3. stored \in RoomData /\ truth \in RoomData /\ table \in [Sites -> Nat]
          /\ (file = Migration!Gone \/ file \in Seq(Lore))
        BY DEF MigrationInv, MigrationShape
    <2>4. Migration!Restored = stored.places
        <3>1. \A p \in Sites : (IF stored.places[p] # 0 THEN stored.places[p] ELSE table[p]) = stored.places[p]
            BY <2>2
        <3>2. stored.places = [p \in Sites |-> stored.places[p]]
            BY <2>3 DEF RoomData
        <3>3. Migration!Restored = [p \in Sites |-> IF stored.places[p] # 0 THEN stored.places[p] ELSE table[p]]
            BY DEF Migration!Restored
        <3> QED BY <3>1, <3>2, <3>3
    <2>5. Migration!Lines' = Migration!Lines /\ Migration!Lines \in Seq(Lore)
        BY <2>1, <2>3, LinesAreFacts DEF Migration!Lines
    <2>6. Tells(Migration!Lines, truth.notes)
        <3>1. CASE stored.notes # <<>>
            <4>1. file \in Seq(Lore) /\ file = stored.notes
                BY <2>1, <2>3, <3>1 DEF RoomData
            <4> QED BY <2>2, <2>3, <4>1, LinesAreFacts
        <3>2. CASE stored.notes = <<>>
            <4>1. truth.notes = <<>>
                <5>1. truth.notes \in Seq(Lore)
                    BY <2>3 DEF RoomData
                <5>2. Migration!Only(<<>>, ToSet(truth.notes)) = <<>>
                    BY SiftedNone DEF Migration!Only
                <5> QED BY <2>2, <3>2, <5>2, NothingWritten DEF Tells
            <4>2. Migration!Unique(Migration!Lines) \in Seq(Lore)
                BY <2>5, UniqueIsWhole
            <4>3. Migration!Only(Migration!Unique(Migration!Lines), {}) = <<>>
                BY <4>2, OnlyOfAll
            <4> QED BY <4>1, <4>3, NothingWritten DEF Tells
        <3> QED BY <3>1, <3>2
    <2>7. MigrationShape' /\ HalfWay'
        <3>1. <<>> \in Seq(Lore) /\ Migration!Empty \in RoomData
            BY EmptySeq DEF Migration!Empty, Migration!NoPlaces, RoomData
        <3>2. stored.places \in [Sites -> Nat]
            BY <2>3 DEF RoomData
        <3> QED BY <2>1, <2>3, <2>4, <3>1, <3>2 DEF MigrationInv, MigrationShape, HalfWay
    <2>8. OldIsWhole' /\ NewIsWhole'
        BY <2>1, <2>2, <2>4, <2>5, <2>6 DEF OldIsWhole, NewIsWhole, Serving, Tells, Migration!Empty, Migration!NoPlaces
    <2> QED BY <2>7, <2>8 DEF MigrationInv
<1> QED BY <1>1, <1>2

LEMMA MigrationStepKeeps == MigrationInv /\ [Migration!Next]_migrationVars => MigrationInv'
<1> SUFFICES ASSUME MigrationInv, [Migration!Next]_migrationVars PROVE MigrationInv'
    OBVIOUS
<1>1. CASE UNCHANGED migrationVars
    <2>1. Serving' = Serving /\ UNCHANGED <<table, file, stored, mark, truth, server, deploy, image>>
        BY <1>1 DEF migrationVars, Serving
    <2> QED BY <2>1, SameServing DEF MigrationInv, MigrationShape, HalfWay
<1> QED BY <1>1, EditsKeep, MovesKeep, ByHandKeeps, RetireKeeps, ApplyKeeps, UndoKeeps DEF Migration!Next

(* Nothing of a room is lost. *)
LEMMA MigrationLosesNothing == MigrationInv => Migration!NothingIsLost
<1> SUFFICES ASSUME MigrationInv, server # "off"
             PROVE  /\ Migration!Served.places = truth.places
                    /\ Migration!Only(Migration!Served.notes, ToSet(truth.notes)) = truth.notes
    BY Zenon DEF Migration!NothingIsLost, ToSet, Migration!ToSet
<1>1. server \in {"old", "new"} /\ Serving = server
    BY DEF MigrationInv, MigrationShape, Serving
<1>2. CASE server = "old"
    BY <1>1, <1>2 DEF MigrationInv, OldIsWhole, Tells, Migration!Served
<1>3. CASE server = "new"
    BY <1>1, <1>3 DEF MigrationInv, NewIsWhole, Tells, Migration!Served
<1> QED BY <1>1, <1>2, <1>3

(* For any room, any facts and any places: it is served with every place as it was last     *)
(* edited and every note it wrote, through deploys whose script dies once the backend is    *)
(* stopped, renames that fail, undos and restarts by hand (migrate_storage.py, deploy.yml); *)
(* and its balances come from a journal level with the tables (ledger/journal.py).          *)
THEOREM NothingIsEverLost == RoomsSpec => []NothingIsLost
<1>1. RoomsInit => Init /\ MigrationInv
    BY MigrationInit DEF RoomsInit
<1>2. [RoomsNext]_roomVars => [Next]_vars
    BY DEF RoomsNext, roomVars
<1>3. MigrationInv /\ [RoomsNext]_roomVars => MigrationInv'
    <2> SUFFICES ASSUME MigrationInv, [RoomsNext]_roomVars PROVE MigrationInv'
        OBVIOUS
    <2>1. [Migration!Next]_migrationVars
        BY DEF RoomsNext, roomVars
    <2> QED BY <2>1, MigrationStepKeeps
<1>4. RoomsSpec => Spec
    BY <1>1, <1>2, PTL DEF RoomsSpec, Spec
<1>5. RoomsSpec => []MigrationInv
    BY <1>1, <1>3, PTL DEF RoomsSpec
<1>6. MigrationInv /\ ServedJournalIsLevel /\ MigrationNeverRefused => NothingIsLost
    BY MigrationLosesNothing DEF NothingIsLost
<1> QED BY <1>4, <1>5, <1>6, ServedJournalIsAlwaysLevel, MigrationIsNeverRefused, PTL
-----------------------------------------------------------------------------
(***************************************************************************)
(* A turn tells the truth (module Turn).                                   *)
(*                                                                         *)
(* What makes it inductive: until the engine ends, the calls as they were  *)
(* made are the manager's calls with those of the sub-agents where their   *)
(* numbers say; from then on they are the calls of the result.  What the   *)
(* packs decided is on a card or still to be written, kind by kind and     *)
(* once; and a card that the room shows wrongly is one that the turn has   *)
(* still to announce.                                                      *)
(***************************************************************************)

Args == Payloads \cup Changes \cup (Pairs \X Payloads) \cup Nat \cup {None}
TurnCalls == [tool : AllTools \cup {"ask"}, arg : Args, ok : BOOLEAN, from : {"own", "sub"}]
Statuses == {"pending", "cancelled", "superseded"}
RoomCards == [kind : DraftKinds \cup {"memo"}, payload : Args \cup SUBSET Args, status : Statuses]
TurnDrafts == [is : {"draft"}, kind : DraftKinds, payload : Args \cup SUBSET Args]

TurnTypes ==
    /\ profile \in Profiles
    /\ stage \in {"context", "run", "asking", "render", "validate", "persist", "after", "publish", "failed", "done"}
    /\ calls \in Seq(TurnCalls) /\ nested \in Seq(TurnCalls) /\ happened \in Seq(TurnCalls)
    /\ made \in Nat
    /\ DOMAIN subs \subseteq Nat /\ \A i \in DOMAIN subs : subs[i] \in Seq(TurnCalls)
    /\ cards \in Seq(RoomCards) /\ Len(Before) <= Len(cards)
    /\ shown \in Seq(Statuses \cup {None}) /\ Len(shown) = Len(cards)
    /\ drafts \in Seq(TurnDrafts)
    /\ events \in Seq(Nat)
    /\ raised => stage \in {"after", "failed"}
    /\ stage = "failed" => raised

CallsAreMerged ==
    /\ stage = "context" => calls = <<>> /\ happened = <<>> /\ subs = <<>> /\ made = 0
    /\ stage = "run" => happened = Merged(calls, subs) /\ made = Len(calls)
    /\ stage = "asking" => happened = Append(Merged(calls, subs), Asking) \o nested /\ made = Len(calls) + 1
    /\ stage \in {"context", "run"} => nested = <<>>
    /\ stage \in {"context", "run", "asking"} => \A i \in DOMAIN subs : i < Len(calls)
    /\ stage \notin {"context", "run", "asking"} => calls = happened

CallsAreSound ==
    \A k \in DOMAIN happened :
       LET c == happened[k] IN
         /\ c.ok /\ c.tool = "pay" => c.arg \in Pairs \X Payloads
         /\ c.ok /\ c.tool = "remember" => c.arg \in DOMAIN cards /\ cards[c.arg].kind = "memo"

Did(tool, i) == \E k \in DOMAIN happened : happened[k].ok /\ happened[k].tool = tool /\ happened[k].arg = i

StillToAnnounce(i) ==
    \/ i \in changed \/ \E k \in DOMAIN events : events[k] = i
    \/ Did("remember", i)
    \/ stage \notin {"after", "publish"} /\ Did("cancel", i)

ShownOrToAnnounce ==
    ~raised /\ stage # "done" => \A i \in DOMAIN cards : shown[i] = cards[i].status \/ StillToAnnounce(i)

WordsAreChecked ==
    /\ stage # "done" => posted = Nothing
    /\ ~raised /\ stage \in {"validate", "persist", "after", "publish"} =>
         /\ outcome.is = "body" /\ ~outcome.claimed => outcome.words = text
         /\ outcome.is = "body" /\ ~outcome.claimed /\ stage # "validate" => ~Forged

Wanted(kind) == CASE kind = "meal" -> LunchDecides [] kind = "pay" -> LedgerDecides [] OTHER -> RecordsDecide
Remaining(kind) == {i \in DOMAIN drafts : drafts[i].kind = kind}

CardOfKind(kind) ==
    /\ \A i, j \in Born(kind) : i = j
    /\ \A i, j \in Remaining(kind) : i = j
    /\ Born(kind) = {} \/ Remaining(kind) = {}
    /\ Born(kind) \cup Remaining(kind) # {} <=> Results(kind) # {}
    /\ \A i \in Born(kind) : cards[i].payload = Wanted(kind).payload
    /\ \A i \in Remaining(kind) : drafts[i].payload = Wanted(kind).payload

CardsAreWanted ==
    /\ stage \in {"context", "run", "asking", "render"} => \A kind \in DraftKinds : Born(kind) = {}
    /\ stage \in {"validate", "persist"} => \A kind \in DraftKinds : CardOfKind(kind)
    /\ stage \in {"after", "publish", "done"} /\ ~raised =>
         drafts = <<>> /\ \A kind \in DraftKinds : CardOfKind(kind)

TurnInv ==
    /\ TurnTypes /\ CallsAreMerged /\ CallsAreSound /\ ShownOrToAnnounce /\ WordsAreChecked /\ CardsAreWanted
    /\ CardsAreShownAsTheyAre /\ NoForgeryIsPosted /\ TraceReadsAsItHappened
-----------------------------------------------------------------------------
(* upTo is the merging as far as the manager's call number N. *)
MergedTo(own, put, upTo, N) ==
    upTo = [n \in 0..N |-> IF n = 0 THEN <<>> ELSE Append(upTo[n - 1], own[n]) \o Under(put, n - 1)]

(* There is a merging as far as any number. *)
LEMMA MergingExists ==
    ASSUME NEW own, NEW put, NEW N \in Nat
    PROVE  \E upTo : MergedTo(own, put, upTo, N)
<1> DEFINE Good == {n \in Nat : \E upTo : MergedTo(own, put, upTo, n)}
<1>1. 0 \in Good
    <2>1. MergedTo(own, put, [n \in 0..0 |-> <<>>], 0)
        BY DEF MergedTo
    <2> QED BY <2>1
<1>2. ASSUME NEW n \in Nat, n \in Good
      PROVE  n + 1 \in Good
    <2>1. PICK u : MergedTo(own, put, u, n)
        BY <1>2
    <2> DEFINE more == [k \in 0..(n + 1) |->
                          IF k = n + 1 THEN Append(u[n], own[k]) \o Under(put, n) ELSE u[k]]
    <2>2. \A k \in 0..(n + 1) :
             more[k] = IF k = 0 THEN <<>> ELSE Append(more[k - 1], own[k]) \o Under(put, k - 1)
        <3> TAKE k \in 0..(n + 1)
        <3>1. CASE k = n + 1
            <4>1. more[k - 1] = u[n] /\ k # 0 /\ k - 1 = n
                BY <1>2, <3>1
            <4>2. more[k] = Append(u[n], own[k]) \o Under(put, n)
                BY <3>1
            <4> QED BY <4>1, <4>2
        <3>2. CASE k # n + 1
            <4>1. k \in 0..n /\ more[k] = u[k]
                BY <1>2, <3>2
            <4>2. k # 0 => more[k - 1] = u[k - 1]
                BY <1>2, <4>1
            <4>3. u[k] = IF k = 0 THEN <<>> ELSE Append(u[k - 1], own[k]) \o Under(put, k - 1)
                BY <2>1, <4>1 DEF MergedTo
            <4> HIDE DEF more
            <4> QED BY <4>1, <4>2, <4>3
        <3> QED BY <3>1, <3>2
    <2>3. more = [k \in 0..(n + 1) |-> more[k]]
        OBVIOUS
    <2> HIDE DEF more
    <2>4. more = [k \in 0..(n + 1) |->
                    IF k = 0 THEN <<>> ELSE Append(more[k - 1], own[k]) \o Under(put, k - 1)]
        BY <2>2, <2>3
    <2>5. MergedTo(own, put, more, n + 1)
        BY <2>4 DEF MergedTo
    <2> QED BY <2>5
<1>3. Nat \subseteq Good
    <2> HIDE DEF Good
    <2> QED BY <1>1, <1>2, EveryNumber
<1> QED BY <1>3

(* It is what Merged ends with. *)
LEMMA MergedEnds ==
    ASSUME NEW own, NEW put, Len(own) \in Nat
    PROVE  \E u : MergedTo(own, put, u, Len(own)) /\ Merged(own, put) = u[Len(own)]
<1> DEFINE P(u) == u = [n \in 0..Len(own) |->
                          IF n = 0 THEN <<>> ELSE Append(u[n - 1], own[n]) \o Under(put, n - 1)]
           it == CHOOSE u : P(u)
<1>1. PICK u : MergedTo(own, put, u, Len(own))
    BY MergingExists
<1>2. P(it)
    <2>1. P(u)
        BY <1>1 DEF MergedTo
    <2> HIDE DEF P
    <2> QED BY <2>1
<1>3. Merged(own, put) = it[Len(own)]
    BY DEF Merged
<1>4. MergedTo(own, put, it, Len(own))
    BY <1>2 DEF MergedTo
<1> QED BY <1>3, <1>4

LEMMA MergedNone ==
    ASSUME NEW put
    PROVE  Merged(<<>>, put) = <<>>
<1>1. Len(<<>>) = 0
    OBVIOUS
<1>2. PICK u : MergedTo(<<>>, put, u, 0) /\ Merged(<<>>, put) = u[0]
    BY <1>1, MergedEnds
<1> QED BY <1>2 DEF MergedTo

WithThose(p, x, q) == Append(p, x) \o q

(* One call more of the manager, and what is put under its number. *)
LEMMA MergedGrows ==
    ASSUME NEW S, NEW own \in Seq(S), NEW x \in S, NEW put, NEW after,
           \A i \in 0..(Len(own) - 1) : Under(after, i) = Under(put, i)
    PROVE  Merged(Append(own, x), after) = Append(Merged(own, put), x) \o Under(after, Len(own))
<1> DEFINE more == Append(own, x)
           N == Len(own)
<1>1. N \in Nat /\ Len(more) = N + 1 /\ (\A n \in 1..N : more[n] = own[n]) /\ more[N + 1] = x
    BY AppendProperties, LenProperties
<1>2. \A i \in 0..(N - 1) : Under(after, i) = Under(put, i)
    OBVIOUS
<1> HIDE DEF more, N
<1>3. PICK u : MergedTo(own, put, u, N) /\ Merged(own, put) = u[N]
    BY <1>1, MergedEnds DEF N
<1>4. PICK v : MergedTo(more, after, v, N + 1) /\ Merged(more, after) = v[N + 1]
    BY <1>1, MergedEnds
<1>5. \A n \in 0..N : u[n] = IF n = 0 THEN <<>> ELSE WithThose(u[n - 1], own[n], Under(put, n - 1))
    BY <1>3 DEF MergedTo, WithThose
<1>6. \A n \in 0..(N + 1) : v[n] = IF n = 0 THEN <<>> ELSE WithThose(v[n - 1], more[n], Under(after, n - 1))
    BY <1>4 DEF MergedTo, WithThose
<1> DEFINE Same == {n \in Nat : n <= N => v[n] = u[n]}
<1>7. 0 \in Same
    BY <1>1, <1>5, <1>6
<1>8. ASSUME NEW n \in Nat, n \in Same
      PROVE  n + 1 \in Same
    <2>1. ASSUME n + 1 <= N
          PROVE  v[n + 1] = u[n + 1]
        <3>1. n + 1 \in 0..N /\ n + 1 \in 0..(N + 1) /\ n + 1 \in 1..N /\ n + 1 # 0 /\ n + 1 - 1 = n /\ n <= N /\ n \in 0..(N - 1)
            BY <1>1, <2>1
        <3>2. v[n] = u[n] /\ more[n + 1] = own[n + 1] /\ Under(after, n) = Under(put, n)
            BY <1>1, <1>2, <1>8, <3>1
        <3>3. v[n + 1] = WithThose(v[n], more[n + 1], Under(after, n))
            BY <1>6, <3>1
        <3>4. u[n + 1] = WithThose(u[n], own[n + 1], Under(put, n))
            BY <1>5, <3>1
        <3> QED BY <3>2, <3>3, <3>4
    <2> QED BY <2>1
<1>9. Nat \subseteq Same
    <2> HIDE DEF Same
    <2> QED BY <1>7, <1>8, EveryNumber
<1>10. v[N] = u[N]
    BY <1>1, <1>9
<1>11. v[N + 1] = WithThose(v[N], x, Under(after, N))
    BY <1>1, <1>6
<1> QED BY <1>3, <1>4, <1>10, <1>11 DEF more, N, WithThose

(* What is merged are calls. *)
LEMMA MergedType ==
    ASSUME NEW S, NEW put, \A i \in DOMAIN put : put[i] \in Seq(S)
    PROVE  \A s \in Seq(S) : Merged(s, put) \in Seq(S)
<1> DEFINE G == {s \in Seq(S) : Merged(s, put) \in Seq(S)}
<1>1. <<>> \in G
    <2>1. <<>> \in Seq(S) /\ Merged(<<>>, put) = <<>>
        BY MergedNone
    <2> QED BY <2>1
<1>2. ASSUME NEW s \in Seq(S), NEW x \in S, s \in G
      PROVE  Append(s, x) \in G
    <2>1. Merged(Append(s, x), put) = Append(Merged(s, put), x) \o Under(put, Len(s))
        BY MergedGrows
    <2>2. Under(put, Len(s)) \in Seq(S)
        BY DEF Under
    <2>3. Merged(s, put) \in Seq(S)
        BY <1>2
    <2>4. Append(Merged(s, put), x) \in Seq(S)
        BY <2>3, AppendProperties
    <2>5. Merged(Append(s, x), put) \in Seq(S)
        BY <2>1, <2>2, <2>4, ConcatProperties
    <2> QED BY <2>5, AppendProperties
<1>3. Seq(S) \subseteq G
    <2> HIDE DEF G
    <2> QED BY <1>1, <1>2, EverySequence
<1> QED BY <1>3
-----------------------------------------------------------------------------
(* The drafts in q are those in W, one of each kind. *)
Lists(q, W) ==
    /\ q \in Seq(TurnDrafts)
    /\ \A i \in DOMAIN q : q[i] \in W
    /\ \A w \in W : \E i \in DOMAIN q : q[i] = w
    /\ \A i, j \in DOMAIN q : q[i].kind = q[j].kind => i = j

Decides == TurnDrafts \cup {Undecided, Body("settlement", TRUE)}

(* What the packs have decided so far. *)
Gathered(so, W) ==
    /\ so \in [outcome : Decides, more : Seq(TurnDrafts)]
    /\ so.outcome.is = "none" => so.more = <<>>
    /\ Lists(Drafted(so), W)

LEMMA ListsGrow ==
    ASSUME NEW q, NEW W, Lists(q, W), NEW d \in TurnDrafts, ~ \E i \in DOMAIN q : q[i].kind = d.kind
    PROVE  Lists(Append(q, d), W \cup {d})
<1> DEFINE more == Append(q, d)
<1>1. q \in Seq(TurnDrafts)
    BY DEF Lists
<1>2. more \in Seq(TurnDrafts) /\ Len(more) = Len(q) + 1 /\ (\A i \in 1..Len(q) : more[i] = q[i]) /\ more[Len(q) + 1] = d
    BY <1>1, AppendProperties
<1>3. Len(q) \in Nat /\ DOMAIN q = 1..Len(q)
    BY <1>1, LenProperties
<1> HIDE DEF more
<1>4. DOMAIN more = 1..(Len(q) + 1)
    BY <1>2, LenProperties
<1>5. \A i \in DOMAIN more : (i \in DOMAIN q /\ more[i] = q[i]) \/ (i = Len(q) + 1 /\ more[i] = d)
    BY <1>2, <1>3, <1>4
<1>6. \A i \in DOMAIN q : i \in DOMAIN more /\ more[i] = q[i]
    BY <1>2, <1>3, <1>4
<1>7. Len(q) + 1 \in DOMAIN more
    BY <1>3, <1>4
<1>8. \A i \in DOMAIN more : more[i] \in W \cup {d}
    BY <1>5 DEF Lists
<1>9. \A w \in W \cup {d} : \E i \in DOMAIN more : more[i] = w
    <2> TAKE w \in W \cup {d}
    <2>1. CASE w = d
        BY <1>2, <1>7, <2>1
    <2>2. CASE w \in W
        <3>1. PICK i \in DOMAIN q : q[i] = w
            BY <2>2 DEF Lists
        <3> QED BY <1>6, <3>1
    <2> QED BY <2>1, <2>2
<1>10. \A i, j \in DOMAIN more : more[i].kind = more[j].kind => i = j
    <2> TAKE i, j \in DOMAIN more
    <2> HAVE more[i].kind = more[j].kind
    <2>1. CASE i \in DOMAIN q /\ j \in DOMAIN q
        BY <1>6, <2>1 DEF Lists
    <2>2. CASE i = Len(q) + 1 /\ j = Len(q) + 1
        BY <2>2
    <2>3. CASE i \in DOMAIN q /\ j = Len(q) + 1
        BY <1>2, <1>6, <2>3
    <2>4. CASE j \in DOMAIN q /\ i = Len(q) + 1
        BY <1>2, <1>6, <2>4
    <2> QED BY <1>5, <2>1, <2>2, <2>3, <2>4
<1>11. Lists(more, W \cup {d})
    BY <1>2, <1>8, <1>9, <1>10 DEF Lists
<1> QED BY <1>11 DEF more

LEMMA ListsNone == Lists(<<>>, {})
<1>1. <<>> \in Seq(TurnDrafts) /\ DOMAIN <<>> = {}
    BY EmptySeq
<1> QED BY <1>1 DEF Lists

LEMMA DecidesAre ==
    ASSUME NEW d \in Decides
    PROVE  /\ d.is \in {"none", "draft", "body"}
           /\ d.is = "draft" <=> d \in TurnDrafts
           /\ d.is = "none" <=> d = Undecided
           /\ d.is = "body" => d.claimed
BY DEF Decides, TurnDrafts, Undecided, Body

LEMMA DraftedJoin ==
    ASSUME NEW p, NEW q \in Seq(TurnDrafts), NEW d \in TurnDrafts, p \in Decides
    PROVE  AsDraft(p) \o (q \o AsDraft(d)) = Append(AsDraft(p) \o q, d)
<1>1. AsDraft(d) = <<d>> /\ <<d>> \in Seq(TurnDrafts)
    <2>1. d.is = "draft"
        BY DEF TurnDrafts
    <2>2. AsDraft(d) = <<d>>
        BY <2>1 DEF AsDraft
    <2>3. <<d>> \in Seq(TurnDrafts)
        OBVIOUS
    <2> QED BY <2>2, <2>3
<1>2. AsDraft(p) \in Seq(TurnDrafts)
    BY DecidesAre, EmptySeq DEF AsDraft
<1>3. AsDraft(p) \o q \in Seq(TurnDrafts)
    BY <1>2, ConcatProperties
<1>4. AsDraft(p) \o (q \o <<d>>) = (AsDraft(p) \o q) \o <<d>>
    BY <1>1, <1>2, ConcatAssociative
<1>5. Append(AsDraft(p) \o q, d) = (AsDraft(p) \o q) \o <<d>>
    BY <1>3, AppendIsConcat
<1> QED BY <1>1, <1>4, <1>5

(* One pack more. *)
LEMMA JoinedGathers ==
    ASSUME NEW so, NEW W, Gathered(so, W), NEW d \in Decides,
           d.is = "draft" => \A w \in W : w.kind = d.kind => w = d
    PROVE  Gathered(Joined(so, d), IF d.is = "draft" THEN W \cup {d} ELSE W)
<1>1. /\ so.outcome \in Decides /\ so.more \in Seq(TurnDrafts) /\ so = [outcome |-> so.outcome, more |-> so.more]
      /\ so.outcome.is = "none" => so.more = <<>>
      /\ Lists(Drafted(so), W)
    BY DEF Gathered
<1>2. Drafted(so) = AsDraft(so.outcome) \o so.more
    BY DEF Drafted
<1>3. CASE d.is = "none"
    <2>1. Joined(so, d) = so
        BY <1>3 DEF Joined
    <2> QED BY <1>3, <2>1
<1>4. CASE d.is = "draft" /\ \E i \in DOMAIN Drafted(so) : Drafted(so)[i].kind = d.kind
    <2>1. Joined(so, d) = so
        BY <1>4 DEF Joined
    <2>2. d \in W
        BY <1>1, <1>4 DEF Lists
    <2>3. W \cup {d} = W
        BY <2>2
    <2> QED BY <1>4, <2>1, <2>3
<1>5. CASE d.is = "body" /\ so.outcome.is = "none"
    <2>1. Joined(so, d) = [so EXCEPT !.outcome = d]
        BY <1>5 DEF Joined
    <2>2. Joined(so, d) = [outcome |-> d, more |-> <<>>]
        BY <1>1, <1>5, <2>1
    <2>3. AsDraft(d) = <<>> /\ AsDraft(so.outcome) = <<>>
        BY <1>5 DEF AsDraft
    <2>4. Drafted(Joined(so, d)) = Drafted(so)
        BY <1>1, <1>2, <1>5, <2>2, <2>3 DEF Drafted
    <2>5. <<>> \in Seq(TurnDrafts)
        BY EmptySeq
    <2> QED BY <1>1, <1>5, <2>2, <2>4, <2>5 DEF Gathered
<1>6. CASE d.is = "body" /\ so.outcome.is # "none"
    <2>1. Joined(so, d) = [so EXCEPT !.more = @ \o AsDraft(d)]
        BY <1>6 DEF Joined
    <2>2. AsDraft(d) = <<>>
        BY <1>6 DEF AsDraft
    <2>3. so.more \o <<>> = so.more
        BY <1>1, ConcatEmptySeq
    <2>4. Joined(so, d) = so
        BY <1>1, <2>1, <2>2, <2>3
    <2> QED BY <1>6, <2>4
<1>7. CASE d.is = "draft" /\ ~(\E i \in DOMAIN Drafted(so) : Drafted(so)[i].kind = d.kind)
    <2>1. d \in TurnDrafts
        BY <1>7, DecidesAre
    <2>2. Lists(Append(Drafted(so), d), W \cup {d})
        BY <1>1, <1>7, <2>1, ListsGrow
    <2>3. CASE so.outcome.is = "none"
        <3>1. Joined(so, d) = [so EXCEPT !.outcome = d]
            BY <1>7, <2>3 DEF Joined
        <3>2. Joined(so, d) = [outcome |-> d, more |-> <<>>]
            BY <1>1, <2>3, <3>1
        <3>3. AsDraft(d) = <<d>> /\ AsDraft(so.outcome) = <<>>
            BY <1>7, <2>3 DEF AsDraft
        <3>4. Drafted(so) = <<>>
            BY <1>1, <1>2, <2>3, <3>3
        <3>5. Drafted(Joined(so, d)) = <<d>> \o <<>>
            BY <3>2, <3>3 DEF Drafted
        <3>6. <<d>> \o <<>> = <<d>> /\ Append(<<>>, d) = <<d>>
            OBVIOUS
        <3>7. Drafted(Joined(so, d)) = Append(Drafted(so), d)
            BY <3>4, <3>5, <3>6
        <3>8. <<>> \in Seq(TurnDrafts)
            BY EmptySeq
        <3>9. Joined(so, d) \in [outcome : Decides, more : Seq(TurnDrafts)] /\ Joined(so, d).more = <<>>
            BY <3>2, <3>8
        <3> QED BY <1>7, <2>2, <3>7, <3>9 DEF Gathered
    <2>4. CASE so.outcome.is # "none"
        <3>1. Joined(so, d) = [so EXCEPT !.more = @ \o AsDraft(d)]
            BY <1>7, <2>4 DEF Joined
        <3> DEFINE q == so.more \o AsDraft(d)
        <3>2. Joined(so, d) = [outcome |-> so.outcome, more |-> q]
            BY <1>1, <3>1
        <3>3. Drafted(Joined(so, d)) = AsDraft(so.outcome) \o q
            <4> HIDE DEF q
            <4> QED BY <3>2 DEF Drafted
        <3>4. Drafted(Joined(so, d)) = Append(Drafted(so), d)
            BY <1>1, <1>2, <2>1, <3>3, DraftedJoin
        <3>5. AsDraft(d) \in Seq(TurnDrafts)
            BY <1>7, <2>1 DEF AsDraft
        <3>6. so.more \o AsDraft(d) \in Seq(TurnDrafts)
            BY <1>1, <3>5, ConcatProperties
        <3>7. Joined(so, d) \in [outcome : Decides, more : Seq(TurnDrafts)] /\ Joined(so, d).outcome = so.outcome
            BY <1>1, <3>2, <3>6
        <3> QED BY <1>7, <2>2, <2>4, <3>4, <3>7 DEF Gathered
    <2> QED BY <2>3, <2>4
<1> QED BY <1>3, <1>4, <1>5, <1>6, <1>7, DecidesAre
-----------------------------------------------------------------------------
LEMMA SeqIs ==
    ASSUME NEW S, NEW q \in Seq(S)
    PROVE  Len(q) \in Nat /\ DOMAIN q = 1..Len(q) /\ \A i \in DOMAIN q : q[i] \in S
BY LenProperties, ElementOfSeq

LEMMA LastResult ==
    ASSUME NEW tool, calls \in Seq(TurnCalls), Results(tool) # {}
    PROVE  Max(Results(tool)) \in Results(tool) /\ \A k \in Results(tool) : k <= Max(Results(tool))
<1>1. Len(calls) \in Nat /\ DOMAIN calls = 1..Len(calls)
    BY SeqIs
<1>2. Results(tool) \in SUBSET (0..Len(calls))
    BY <1>1 DEF Results
<1> HIDE DEF Results
<1> QED BY <1>1, <1>2, GreatestIsThere

(* w is what is decided of the calls of a kind. *)
DecisionOf(kind, w) ==
    /\ w \in Decides
    /\ Results(kind) # {} <=> w.is = "draft"
    /\ Results(kind) # {} => w = Draft(kind, w.payload) /\ w \in TurnDrafts

LEMMA WantedIs ==
    ASSUME calls \in Seq(TurnCalls)
    PROVE  \A kind \in DraftKinds : DecisionOf(kind, Wanted(kind))
<1>1. ASSUME NEW i \in DOMAIN calls
      PROVE  calls[i].arg \in Args
    <2>1. calls[i] \in TurnCalls
        BY <1>1, SeqIs
    <2> QED BY <2>1 DEF TurnCalls
<1>2. ASSUME NEW kind \in DraftKinds, NEW p \in Args \cup SUBSET Args
      PROVE  Draft(kind, p) \in TurnDrafts /\ Draft(kind, p).is = "draft" /\ Draft(kind, p).payload = p
    BY <1>2 DEF Draft, TurnDrafts
<1>3. Undecided \in Decides /\ Undecided.is = "none" /\ Body("settlement", TRUE) \in Decides /\ Body("settlement", TRUE).is = "body"
    BY DEF Decides, Undecided, Body
<1>4. \A x \in TurnDrafts : x \in Decides
    BY DEF Decides
<1>6. DecisionOf("meal", LunchDecides)
    <2>1. CASE Results("meal") = {}
        BY <1>3, <2>1 DEF LunchDecides, DecisionOf
    <2>2. CASE Results("meal") # {}
        <3> DEFINE p == calls[Max(Results("meal"))].arg
        <3>1. p \in Args
            <4>1. Max(Results("meal")) \in Results("meal")
                BY <2>2, LastResult
            <4>2. Max(Results("meal")) \in DOMAIN calls
                BY <4>1 DEF Results
            <4> QED BY <1>1, <4>2
        <3>2. LunchDecides = Draft("meal", p)
            BY <2>2 DEF LunchDecides
        <3> HIDE DEF p
        <3> QED BY <1>2, <1>4, <2>2, <3>1, <3>2 DEF DraftKinds, DecisionOf
    <2> QED BY <2>1, <2>2
<1>7. DecisionOf("pay", LedgerDecides)
    <2>1. CASE Results("pay") = {}
        <3>1. LedgerDecides \in {Undecided, Body("settlement", TRUE)}
            BY <2>1 DEF LedgerDecides
        <3> QED BY <1>3, <2>1, <3>1 DEF DecisionOf
    <2>2. CASE Results("pay") # {}
        <3> DEFINE p == Collapsed(Results("pay"))
        <3>1. p \in SUBSET Args
            BY <1>1 DEF Collapsed, Results
        <3>2. LedgerDecides = Draft("pay", p)
            BY <2>2 DEF LedgerDecides
        <3> HIDE DEF p
        <3> QED BY <1>2, <1>4, <2>2, <3>1, <3>2 DEF DraftKinds, DecisionOf
    <2> QED BY <2>1, <2>2
<1>8. DecisionOf("change", RecordsDecide)
    <2>1. CASE Results("change") = {}
        BY <1>3, <2>1 DEF RecordsDecide, DecisionOf
    <2>2. CASE Results("change") # {}
        <3> DEFINE p == {calls[i].arg : i \in Results("change")}
        <3>1. p \in SUBSET Args
            BY <1>1 DEF Results
        <3>2. RecordsDecide = Draft("change", p)
            BY <2>2 DEF RecordsDecide
        <3> HIDE DEF p
        <3> QED BY <1>2, <1>4, <2>2, <3>1, <3>2 DEF DraftKinds, DecisionOf
    <2> QED BY <2>1, <2>2
<1>9. Wanted("meal") = LunchDecides /\ Wanted("pay") = LedgerDecides /\ Wanted("change") = RecordsDecide
    BY DEF Wanted
<1> QED BY <1>6, <1>7, <1>8, <1>9 DEF DraftKinds

(* What the packs decide is one draft of each kind that was asked for. *)
LEMMA DecisionsAre ==
    ASSUME calls \in Seq(TurnCalls)
    PROVE  /\ Gathered(Decisions, {Wanted(k) : k \in {kind \in DraftKinds : Results(kind) # {}}})
           /\ Decisions.outcome \in Decides
<1> DEFINE none == [outcome |-> Undecided, more |-> <<>>]
           L == Wanted("meal")
           P == Wanted("pay")
           R == Wanted("change")
           one == Joined(none, L)
           two == Joined(one, P)
           three == Joined(two, R)
           four == Joined(three, R)
           Some(d) == IF d.is = "draft" THEN {d} ELSE {}
<1>1. Decisions = four
    BY DEF Decisions, Wanted
<1>2. L \in Decides /\ P \in Decides /\ R \in Decides
    BY WantedIs DEF DraftKinds, DecisionOf
<1>3. /\ L.is = "draft" => L.kind = "meal"
      /\ P.is = "draft" => P.kind = "pay"
      /\ R.is = "draft" => R.kind = "change"
    <2>1. \A k \in DraftKinds : Wanted(k).is = "draft" => Wanted(k) = Draft(k, Wanted(k).payload)
        BY WantedIs DEF DecisionOf
    <2>2. \A k, p : Draft(k, p).kind = k
        BY DEF Draft
    <2> QED BY <2>1, <2>2 DEF DraftKinds
<1>4. {Wanted(k) : k \in {kind \in DraftKinds : Results(kind) # {}}} = Some(L) \cup Some(P) \cup Some(R)
    <2>1. \A k \in DraftKinds : Results(k) # {} <=> Wanted(k).is = "draft"
        BY WantedIs DEF DecisionOf
    <2> QED BY <2>1 DEF DraftKinds
<1>5. Gathered(none, {})
    <2>1. Drafted(none) = <<>> \o <<>>
        BY DEF Drafted, AsDraft, Undecided
    <2>2. Drafted(none) = <<>>
        BY <2>1
    <2>3. none \in [outcome : Decides, more : Seq(TurnDrafts)]
        BY EmptySeq DEF Decides
    <2> QED BY <2>2, <2>3, ListsNone DEF Gathered
<1> HIDE DEF none, L, P, R
<1>6. Gathered(one, Some(L))
    <2>1. Gathered(one, IF L.is = "draft" THEN {} \cup {L} ELSE {})
        BY <1>2, <1>5, JoinedGathers
    <2> QED BY <2>1
<1> HIDE DEF one
<1>7. Gathered(two, Some(L) \cup Some(P))
    <2>1. P.is = "draft" => \A w \in Some(L) : w.kind = P.kind => w = P
        BY <1>3
    <2>2. Gathered(two, IF P.is = "draft" THEN Some(L) \cup {P} ELSE Some(L))
        BY <1>2, <1>6, <2>1, JoinedGathers
    <2> QED BY <2>2
<1> HIDE DEF two
<1>8. Gathered(three, Some(L) \cup Some(P) \cup Some(R))
    <2>1. R.is = "draft" => \A w \in Some(L) \cup Some(P) : w.kind = R.kind => w = R
        BY <1>3
    <2>2. Gathered(three, IF R.is = "draft" THEN Some(L) \cup Some(P) \cup {R} ELSE Some(L) \cup Some(P))
        <3> HIDE DEF Some
        <3> QED BY <1>2, <1>7, <2>1, JoinedGathers
    <2> QED BY <2>2
<1> HIDE DEF three
<1>9. Gathered(four, Some(L) \cup Some(P) \cup Some(R))
    <2> DEFINE W == Some(L) \cup Some(P) \cup Some(R)
    <2>1. R.is = "draft" => (\A w \in W : w.kind = R.kind => w = R) /\ R \in W
        BY <1>3
    <2> HIDE DEF W
    <2>2. Gathered(three, W)
        BY <1>8 DEF W
    <2>3. Gathered(four, IF R.is = "draft" THEN W \cup {R} ELSE W)
        BY <1>2, <2>1, <2>2, JoinedGathers
    <2>4. (IF R.is = "draft" THEN W \cup {R} ELSE W) = W
        BY <2>1
    <2>5. Gathered(four, W)
        BY <2>3, <2>4
    <2> QED BY <2>5 DEF W
<1> HIDE DEF four, Some
<1>10. four.outcome \in Decides
    BY <1>9 DEF Gathered
<1> QED BY <1>1, <1>4, <1>9, <1>10
-----------------------------------------------------------------------------
(* What was decided, before any of it is written. *)
LEMMA DecidedCards ==
    ASSUME calls \in Seq(TurnCalls), drafts' = Drafted(Decisions), cards' = cards, calls' = calls,
           \A kind \in DraftKinds : Born(kind) = {}
    PROVE  drafts' \in Seq(TurnDrafts) /\ \A kind \in DraftKinds : CardOfKind(kind)'
<1> DEFINE q == Drafted(Decisions)
           W == {Wanted(k) : k \in {kind \in DraftKinds : Results(kind) # {}}}
<1>1. Lists(q, W)
    BY DecisionsAre DEF Gathered
<1> HIDE DEF q
<1>2. ASSUME NEW kind \in DraftKinds
      PROVE  CardOfKind(kind)'
    <2>1. Born(kind)' = {} /\ Results(kind)' = Results(kind) /\ Wanted(kind)' = Wanted(kind)
        <3>1. \A t : Results(t)' = Results(t)
            BY DEF Results
        <3>2. LunchDecides' = LunchDecides /\ LedgerDecides' = LedgerDecides /\ RecordsDecide' = RecordsDecide
            BY <3>1 DEF LunchDecides, LedgerDecides, RecordsDecide, Collapsed
        <3>3. Wanted(kind)' = Wanted(kind)
            BY <3>2 DEF Wanted
        <3>4. Born(kind)' = Born(kind)
            BY DEF Born
        <3> QED BY <1>2, <3>1, <3>3, <3>4
    <2>2. Remaining(kind)' = {i \in DOMAIN q : q[i].kind = kind}
        BY DEF Remaining, q
    <2>3. \A k \in DraftKinds : Results(k) # {} => Wanted(k).kind = k /\ Wanted(k) = Draft(k, Wanted(k).payload)
        <3>1. \A k, p : Draft(k, p).kind = k
            BY DEF Draft
        <3>2. \A k \in DraftKinds : Results(k) # {} => Wanted(k) = Draft(k, Wanted(k).payload)
            BY WantedIs DEF DecisionOf
        <3> QED BY <3>1, <3>2
    <2>4. \A i \in DOMAIN q : q[i].kind = kind => q[i] = Wanted(kind) /\ Results(kind) # {}
        <3> TAKE i \in DOMAIN q
        <3> HAVE q[i].kind = kind
        <3>1. PICK k \in DraftKinds : Results(k) # {} /\ q[i] = Wanted(k)
            BY <1>1 DEF Lists
        <3>2. k = kind
            BY <2>3, <3>1
        <3> QED BY <3>1, <3>2
    <2>5. Results(kind) # {} => \E i \in DOMAIN q : q[i].kind = kind
        <3> HAVE Results(kind) # {}
        <3>1. PICK i \in DOMAIN q : q[i] = Wanted(kind)
            BY <1>1, <1>2 DEF Lists
        <3> QED BY <1>2, <2>3, <3>1
    <2>6. \A i, j \in Remaining(kind)' : i = j
        BY <1>1, <2>2 DEF Lists
    <2>7. Remaining(kind)' # {} <=> Results(kind)' # {}
        BY <2>1, <2>2, <2>4, <2>5
    <2>8. \A i \in Remaining(kind)' : drafts'[i].payload = Wanted(kind)'.payload
        BY <2>1, <2>2, <2>4 DEF q
    <2> QED BY <2>1, <2>6, <2>7, <2>8 DEF CardOfKind
<1> QED BY <1>1, <1>2 DEF Lists, q
-----------------------------------------------------------------------------
(* What a call may be. *)
CallIsSound(c, from) ==
    /\ c \in TurnCalls /\ c.from = from
    /\ c.ok /\ c.tool = "pay" => c.arg \in Pairs \X Payloads
    /\ c.ok /\ c.tool = "remember" => c.arg = Len(cards) + 1
    /\ c.ok /\ c.tool = "cancel" => c.arg \in DOMAIN cards /\ cards[c.arg].kind # "memo"

LEMMA AttemptIs ==
    ASSUME TurnTypes, NEW from \in {"own", "sub"}, NEW c \in Attempts(from)
    PROVE  CallIsSound(c, from)
<1>1. /\ profile.tools \subseteq AllTools /\ profile.payloads \subseteq Payloads
      /\ Len(cards) \in Nat /\ DOMAIN cards = 1..Len(cards)
    BY ProfilesAssumption, SeqIs DEF TurnTypes
<1>2. CASE c \in [tool : profile.tools, arg : {None}, ok : {FALSE}, from : {from}]
    <2>1. c \in TurnCalls /\ c.ok = FALSE /\ c.from = from
        BY <1>1, <1>2 DEF TurnCalls, Args
    <2> QED BY <2>1 DEF CallIsSound
<1>3. CASE \E tool \in profile.tools : c \in [tool : {tool}, arg : Arguments(tool), ok : {TRUE}, from : {from}]
    <2>1. PICK tool \in profile.tools : c \in [tool : {tool}, arg : Arguments(tool), ok : {TRUE}, from : {from}]
        BY <1>3
    <2>2. c = [tool |-> tool, arg |-> c.arg, ok |-> TRUE, from |-> from] /\ c.arg \in Arguments(tool)
        BY <2>1
    <2>3. tool \in AllTools
        BY <1>1
    <2>4. /\ tool = "pay" => c.arg \in Pairs \X Payloads
          /\ tool = "remember" => c.arg = Len(cards) + 1
          /\ tool = "cancel" => c.arg \in DOMAIN cards /\ cards[c.arg].kind # "memo"
        BY <1>1, <2>2 DEF Arguments
    <2>5. c.arg \in Args
        <3>1. tool = "meal" => c.arg \in Payloads
            BY <1>1, <2>2 DEF Arguments
        <3>2. tool = "change" => c.arg \in Changes
            BY <2>2 DEF Arguments
        <3>3. tool = "settle" => c.arg \in Nat
            BY <1>1, <2>2 DEF Arguments
        <3>4. tool \in {"remember", "cancel"} => c.arg \in Nat
            BY <1>1, <2>4
        <3> QED BY <2>3, <2>4, <3>1, <3>2, <3>3, <3>4 DEF Args, AllTools
    <2>6. \A a \in Args : [tool |-> tool, arg |-> a, ok |-> TRUE, from |-> from] \in TurnCalls
        BY <2>3 DEF TurnCalls
    <2>7. c.tool = tool /\ c.ok = TRUE /\ c.from = from /\ c \in TurnCalls
        BY <2>2, <2>5, <2>6
    <2>8. /\ c.tool = "pay" => c.arg \in Pairs \X Payloads
          /\ c.tool = "remember" => c.arg = Len(cards) + 1
          /\ c.tool = "cancel" => c.arg \in DOMAIN cards /\ cards[c.arg].kind # "memo"
        BY <2>4, <2>7
    <2> QED BY <2>7, <2>8, Zenon DEF CallIsSound
<1> QED BY <1>2, <1>3 DEF Attempts

(* What a call does to the cards. *)
CallDone(c) ==
    /\ cards' \in Seq(RoomCards) /\ shown' \in Seq(Statuses \cup {None})
    /\ Len(cards) <= Len(cards') /\ Len(shown') = Len(cards')
    /\ \A i \in DOMAIN cards :
         /\ i \in DOMAIN cards' /\ cards'[i].kind = cards[i].kind /\ shown'[i] = shown[i]
         /\ cards'[i].status = cards[i].status \/ (c.ok /\ c.tool = "cancel" /\ c.arg = i)
    /\ \A i \in DOMAIN cards' :
         i \in DOMAIN cards \/ (c.ok /\ c.tool = "remember" /\ i = c.arg /\ cards'[i].kind = "memo")
    /\ c.ok /\ c.tool = "remember" => c.arg \in DOMAIN cards' /\ cards'[c.arg].kind = "memo"

LEMMA CancelledCard ==
    ASSUME NEW x \in RoomCards, NEW s \in Statuses
    PROVE  /\ [x EXCEPT !.status = s] \in RoomCards /\ [x EXCEPT !.status = s].kind = x.kind
           /\ [x EXCEPT !.status = s].payload = x.payload
BY DEF RoomCards

LEMMA CallDoes ==
    ASSUME TurnTypes, NEW from, NEW c, CallIsSound(c, from), cards' = CardsAfter(c), shown' = ShownAfter(c)
    PROVE  CallDone(c)
<1>1. /\ cards \in Seq(RoomCards) /\ Len(cards) \in Nat /\ DOMAIN cards = 1..Len(cards)
      /\ shown \in Seq(Statuses \cup {None}) /\ Len(shown) = Len(cards) /\ DOMAIN shown = 1..Len(cards)
      /\ \A i \in DOMAIN cards : cards[i] \in RoomCards
    BY SeqIs DEF TurnTypes
<1>2. CASE c.ok /\ c.tool = "remember"
    <2> DEFINE memo == [kind |-> "memo", payload |-> None, status |-> "pending"]
    <2>1. cards' = Append(cards, memo) /\ shown' = Append(shown, None)
        BY <1>2 DEF CardsAfter, ShownAfter
    <2>2. memo \in RoomCards /\ memo.kind = "memo"
        BY DEF RoomCards, Args, Statuses
    <2>3. /\ cards' \in Seq(RoomCards) /\ Len(cards') = Len(cards) + 1 /\ DOMAIN cards' = 1..(Len(cards) + 1)
          /\ \A i \in 1..Len(cards) : cards'[i] = cards[i]
          /\ cards'[Len(cards) + 1] = memo
        <3> HIDE DEF memo
        <3>1. /\ cards' \in Seq(RoomCards) /\ Len(cards') = Len(cards) + 1
              /\ \A i \in 1..Len(cards) : cards'[i] = cards[i]
              /\ cards'[Len(cards) + 1] = memo
            BY <1>1, <2>1, <2>2, AppendProperties
        <3> QED BY <3>1, LenProperties
    <2>4. /\ shown' \in Seq(Statuses \cup {None}) /\ Len(shown') = Len(cards) + 1
          /\ \A i \in 1..Len(cards) : shown'[i] = shown[i]
        BY <1>1, <2>1, AppendProperties
    <2>5. c.arg = Len(cards) + 1
        BY <1>2 DEF CallIsSound
    <2> HIDE DEF memo
    <2> QED BY <1>1, <1>2, <2>2, <2>3, <2>4, <2>5 DEF CallDone
<1>3. CASE c.ok /\ c.tool = "cancel"
    <2>1. cards' = [cards EXCEPT ![c.arg].status = "cancelled"] /\ shown' = shown
        BY <1>3 DEF CardsAfter, ShownAfter
    <2>2. \A i \in 1..Len(cards) : cards'[i] = IF i = c.arg THEN [cards[i] EXCEPT !.status = "cancelled"] ELSE cards[i]
        BY <1>1, <2>1
    <2>3. \A i \in 1..Len(cards) : cards'[i] \in RoomCards /\ cards'[i].kind = cards[i].kind
                                   /\ (i # c.arg => cards'[i].status = cards[i].status)
        <3>1. \A x \in RoomCards : LET y == [x EXCEPT !.status = "cancelled"] IN y \in RoomCards /\ y.kind = x.kind
            BY CancelledCard DEF Statuses
        <3> QED BY <1>1, <2>2, <3>1
    <2>4. DOMAIN cards' = 1..Len(cards) /\ cards' = [i \in 1..Len(cards) |-> cards'[i]]
        BY <1>1, <2>1
    <2>5. cards' \in [1..Len(cards) -> RoomCards]
        BY <2>3, <2>4
    <2>6. cards' \in Seq(RoomCards) /\ Len(cards') = Len(cards)
        BY <1>1, <2>5, ASequence
    <2> QED BY <1>1, <1>3, <2>1, <2>3, <2>4, <2>6 DEF CallDone
<1>4. CASE ~(c.ok /\ c.tool \in {"cancel", "remember"})
    <2>1. cards' = cards /\ shown' = shown
        BY <1>4 DEF CardsAfter, ShownAfter
    <2> QED BY <1>1, <1>4, <2>1 DEF CallDone
<1> QED BY <1>2, <1>3, <1>4
-----------------------------------------------------------------------------
LEMMA TurnInitHolds == TurnInit => TurnInv
<1> SUFFICES ASSUME TurnInit PROVE TurnInv
    OBVIOUS
<1>1. Before \in Seq(Proposals) /\ Len(Before) \in Nat /\ DOMAIN Before = 1..Len(Before)
    BY BeforeAssumption, SeqIs
<1>2. \A i \in 1..Len(Before) : Before[i].kind \in DraftKinds /\ Before[i].payload \in Args \cup SUBSET Args
    <2>1. \A x \in Proposals : x.kind \in DraftKinds /\ x.payload \in Args \cup SUBSET Args
        BY DEF Proposals, DraftKinds, Args
    <2> QED BY <1>1, <2>1, SeqIs
<1>3. /\ cards \in [1..Len(Before) -> RoomCards]
      /\ \A i \in 1..Len(Before) : cards[i].status = "pending"
    <2>1. \A i \in 1..Len(Before) :
             [kind |-> Before[i].kind, payload |-> Before[i].payload, status |-> "pending"] \in RoomCards
        BY <1>2 DEF RoomCards, Statuses
    <2> QED BY <1>1, <2>1 DEF TurnInit
<1>4. shown \in [1..Len(Before) -> Statuses \cup {None}] /\ \A i \in 1..Len(Before) : shown[i] = "pending"
    BY <1>1 DEF TurnInit, Statuses
<1>5. /\ cards \in Seq(RoomCards) /\ Len(cards) = Len(Before) /\ DOMAIN cards = 1..Len(Before)
      /\ shown \in Seq(Statuses \cup {None}) /\ Len(shown) = Len(Before)
    BY <1>1, <1>3, <1>4, ASequence
<1>6. /\ <<>> \in Seq(TurnCalls) /\ <<>> \in Seq(TurnDrafts) /\ <<>> \in Seq(Nat)
      /\ DOMAIN <<>> = {} /\ Len(<<>>) = 0
    BY EmptySeq
<1>7. TurnTypes
    BY <1>1, <1>5, <1>6 DEF TurnInit, TurnTypes
<1>8. CallsAreMerged /\ CallsAreSound /\ WordsAreChecked
    BY <1>6 DEF TurnInit, CallsAreMerged, CallsAreSound, WordsAreChecked
<1>9. ShownOrToAnnounce
    BY <1>3, <1>4, <1>5 DEF TurnInit, ShownOrToAnnounce
<1>10. CardsAreWanted
    BY <1>1, <1>5 DEF TurnInit, CardsAreWanted, Born
<1>11. CardsAreShownAsTheyAre /\ TraceReadsAsItHappened
    BY DEF TurnInit, CardsAreShownAsTheyAre, TraceReadsAsItHappened
<1>12. NoForgeryIsPosted
    BY DEF TurnInit, NoForgeryIsPosted, Nothing
<1> QED
    BY <1>7, <1>8, <1>9, <1>10, <1>11, <1>12 DEF TurnInv

(* One element more. *)
LEMMA OneMore ==
    ASSUME NEW S, NEW q \in Seq(S), NEW x \in S
    PROVE  /\ Append(q, x) \in Seq(S) /\ Len(Append(q, x)) = Len(q) + 1
           /\ DOMAIN Append(q, x) = DOMAIN q \cup {Len(q) + 1}
           /\ \A k \in DOMAIN q : Append(q, x)[k] = q[k]
           /\ Append(q, x)[Len(q) + 1] = x
<1> DEFINE more == Append(q, x)
<1>1. more \in Seq(S) /\ Len(more) = Len(q) + 1 /\ (\A i \in 1..Len(q) : more[i] = q[i]) /\ more[Len(q) + 1] = x
    BY AppendProperties
<1>2. Len(q) \in Nat /\ DOMAIN q = 1..Len(q)
    BY SeqIs
<1> HIDE DEF more
<1>3. DOMAIN more = 1..(Len(q) + 1)
    BY <1>1, SeqIs
<1>4. DOMAIN more = DOMAIN q \cup {Len(q) + 1}
    BY <1>2, <1>3
<1>5. \A k \in DOMAIN q : more[k] = q[k]
    BY <1>1, <1>2
<1> QED BY <1>1, <1>4, <1>5 DEF more

(* A call more, the manager's or a sub-agent's. *)
LEMMA CallKeeps ==
    ASSUME TurnInv, stage \in {"run", "asking"}, NEW from, NEW c, CallIsSound(c, from), CallDone(c),
           happened' = Append(happened, c), UNCHANGED <<stage, drafts, changed, events, posted, raised>>
    PROVE  CallsAreSound' /\ ShownOrToAnnounce' /\ WordsAreChecked' /\ CardsAreWanted'
<1>1. happened \in Seq(TurnCalls) /\ c \in TurnCalls
    BY DEF TurnInv, TurnTypes, CallIsSound
<1> DEFINE n == Len(happened) + 1
<1>2. /\ DOMAIN happened' = DOMAIN happened \cup {n}
      /\ \A k \in DOMAIN happened : happened'[k] = happened[k]
      /\ happened'[n] = c
    BY <1>1, OneMore
<1> HIDE DEF n
<1>3. \A i \in DOMAIN cards : i \in DOMAIN cards' /\ cards'[i].kind = cards[i].kind
    BY DEF CallDone
<1>4. CallsAreSound'
    <2> SUFFICES ASSUME NEW k \in DOMAIN happened'
                 PROVE  /\ happened'[k].ok /\ happened'[k].tool = "pay" => happened'[k].arg \in Pairs \X Payloads
                        /\ happened'[k].ok /\ happened'[k].tool = "remember" =>
                             happened'[k].arg \in DOMAIN cards' /\ cards'[happened'[k].arg].kind = "memo"
        BY DEF CallsAreSound
    <2>1. CASE k \in DOMAIN happened
        <3>1. /\ happened[k].ok /\ happened[k].tool = "pay" => happened[k].arg \in Pairs \X Payloads
              /\ happened[k].ok /\ happened[k].tool = "remember" =>
                   happened[k].arg \in DOMAIN cards /\ cards[happened[k].arg].kind = "memo"
            BY <2>1 DEF TurnInv, CallsAreSound
        <3> QED BY <1>2, <1>3, <2>1, <3>1
    <2>2. CASE k = n
        <3>1. /\ c.ok /\ c.tool = "pay" => c.arg \in Pairs \X Payloads
              /\ c.ok /\ c.tool = "remember" => c.arg \in DOMAIN cards' /\ cards'[c.arg].kind = "memo"
            BY DEF CallIsSound, CallDone
        <3> QED BY <1>2, <2>2, <3>1
    <2> QED BY <1>2, <2>1, <2>2
<1>5. ShownOrToAnnounce'
    <2>1. ~raised' /\ stage' # "done"
        BY DEF TurnInv, TurnTypes
    <2> SUFFICES ASSUME NEW i \in DOMAIN cards'
                 PROVE  shown'[i] = cards'[i].status \/ StillToAnnounce(i)'
        BY DEF ShownOrToAnnounce
    <2>2. \A t, j : Did(t, j) => Did(t, j)'
        BY <1>2 DEF Did
    <2>3. c.ok => Did(c.tool, c.arg)'
        BY <1>2 DEF Did
    <2>4. CASE i \in DOMAIN cards /\ cards'[i].status = cards[i].status
        <3>1. shown'[i] = shown[i]
            BY <2>4 DEF CallDone
        <3>2. shown[i] = cards[i].status \/ StillToAnnounce(i)
            BY <2>1, <2>4 DEF TurnInv, ShownOrToAnnounce
        <3>3. StillToAnnounce(i) => StillToAnnounce(i)'
            BY <2>2 DEF StillToAnnounce
        <3> QED BY <2>4, <3>1, <3>2, <3>3
    <2>5. CASE c.ok /\ c.tool = "cancel" /\ c.arg = i
        <3>1. Did("cancel", i)'
            BY <2>3, <2>5
        <3> QED BY <3>1 DEF StillToAnnounce
    <2>6. CASE c.ok /\ c.tool = "remember" /\ i = c.arg
        <3>1. Did("remember", i)'
            BY <2>3, <2>6
        <3> QED BY <3>1 DEF StillToAnnounce
    <2> QED BY <2>4, <2>5, <2>6 DEF CallDone
<1>6. WordsAreChecked'
    BY DEF TurnInv, WordsAreChecked
<1>7. CardsAreWanted'
    <2>1. ASSUME NEW kind \in DraftKinds, NEW i \in Born(kind)'
          PROVE  FALSE
        <3>1. i \in DOMAIN cards' /\ i > Len(Before) /\ cards'[i].kind = kind
            BY <2>1 DEF Born
        <3>2. i \in DOMAIN cards
            BY <2>1, <3>1 DEF CallDone, DraftKinds
        <3>3. i \in Born(kind)
            BY <1>3, <3>1, <3>2 DEF Born
        <3> QED BY <2>1, <3>3 DEF TurnInv, CardsAreWanted
    <2> QED BY <2>1 DEF CardsAreWanted
<1> QED BY <1>4, <1>5, <1>6, <1>7
-----------------------------------------------------------------------------
(* Before it is over a turn has shown and posted nothing yet. *)
LEMMA NotDone ==
    ASSUME TurnInv, stage' \notin {"publish", "done"}, posted' = posted, stage # "done"
    PROVE  CardsAreShownAsTheyAre' /\ NoForgeryIsPosted' /\ TraceReadsAsItHappened'
<1>1. posted' = Nothing
    BY DEF TurnInv, WordsAreChecked
<1>2. NoForgeryIsPosted'
    BY <1>1 DEF NoForgeryIsPosted, Nothing
<1> QED BY <1>2 DEF CardsAreShownAsTheyAre, TraceReadsAsItHappened

LEMMA OwnCallKeeps ==
    ASSUME TurnInv, OwnCall
    PROVE  TurnInv'
<1>1. TurnTypes
    BY DEF TurnInv
<1>2. PICK c \in Attempts("own") :
         calls' = Append(calls, c) /\ happened' = Append(happened, c) /\ cards' = CardsAfter(c) /\ shown' = ShownAfter(c)
    BY DEF OwnCall
<1>3. CallIsSound(c, "own")
    BY <1>1, AttemptIs
<1>4. CallDone(c)
    BY <1>1, <1>2, <1>3, CallDoes
<1>5. CallsAreSound' /\ ShownOrToAnnounce' /\ WordsAreChecked' /\ CardsAreWanted'
    BY <1>2, <1>3, <1>4, CallKeeps DEF OwnCall
<1>6. c \in TurnCalls
    BY <1>3 DEF CallIsSound
<1>7. /\ calls \in Seq(TurnCalls) /\ happened \in Seq(TurnCalls) /\ Len(calls) \in Nat
      /\ calls' \in Seq(TurnCalls) /\ happened' \in Seq(TurnCalls) /\ Len(calls') = Len(calls) + 1
    BY <1>1, <1>2, <1>6, OneMore, SeqIs DEF TurnTypes
<1>8. TurnTypes'
    <2>1. Len(Before) \in Nat /\ Len(cards) \in Nat /\ Len(cards') \in Nat
        BY <1>1, <1>4, SeqIs, BeforeAssumption DEF TurnTypes, CallDone
    <2>2. Len(Before) <= Len(cards')
        BY <1>1, <1>4, <2>1 DEF TurnTypes, CallDone
    <2> QED BY <1>1, <1>4, <1>7, <2>2 DEF TurnTypes, CallDone, OwnCall
<1>9. CallsAreMerged'
    <2>1. happened = Merged(calls, subs) /\ made = Len(calls) /\ nested = <<>> /\ \A i \in DOMAIN subs : i < Len(calls)
        BY DEF TurnInv, CallsAreMerged, OwnCall
    <2>2. Under(subs, Len(calls)) = <<>>
        BY <1>7, <2>1 DEF Under
    <2>3. Merged(Append(calls, c), subs) = Append(Merged(calls, subs), c) \o Under(subs, Len(calls))
        BY <1>6, <1>7, MergedGrows
    <2>4. Merged(calls', subs) = happened' \o <<>>
        BY <1>2, <2>1, <2>2, <2>3
    <2>5. happened' = Merged(calls', subs)
        BY <1>7, <2>4, ConcatEmptySeq
    <2>6. \A i \in DOMAIN subs : i < Len(calls')
        BY <1>1, <1>7, <2>1 DEF TurnTypes
    <2>7. stage' = "run" /\ subs' = subs /\ nested' = nested /\ made' = made + 1
        BY DEF OwnCall
    <2> QED BY <1>7, <2>1, <2>5, <2>6, <2>7 DEF CallsAreMerged
<1>10. CardsAreShownAsTheyAre' /\ NoForgeryIsPosted' /\ TraceReadsAsItHappened'
    BY NotDone DEF OwnCall
<1> QED BY <1>5, <1>8, <1>9, <1>10 DEF TurnInv

LEMMA SubCallKeeps ==
    ASSUME TurnInv, SubCall
    PROVE  TurnInv'
<1>1. TurnTypes
    BY DEF TurnInv
<1>2. PICK c \in Attempts("sub") :
         nested' = Append(nested, c) /\ happened' = Append(happened, c) /\ cards' = CardsAfter(c) /\ shown' = ShownAfter(c)
    BY DEF SubCall
<1>3. CallIsSound(c, "sub")
    BY <1>1, AttemptIs
<1>4. CallDone(c)
    BY <1>1, <1>2, <1>3, CallDoes
<1>5. CallsAreSound' /\ ShownOrToAnnounce' /\ WordsAreChecked' /\ CardsAreWanted'
    BY <1>2, <1>3, <1>4, CallKeeps DEF SubCall
<1>6. c \in TurnCalls
    BY <1>3 DEF CallIsSound
<1>7. /\ calls \in Seq(TurnCalls) /\ nested \in Seq(TurnCalls) /\ happened \in Seq(TurnCalls)
      /\ nested' \in Seq(TurnCalls) /\ happened' \in Seq(TurnCalls)
    BY <1>1, <1>2, <1>6, OneMore DEF TurnTypes
<1>8. TurnTypes'
    <2>1. Len(Before) \in Nat /\ Len(cards) \in Nat /\ Len(cards') \in Nat
        BY <1>1, <1>4, SeqIs, BeforeAssumption DEF TurnTypes, CallDone
    <2>2. Len(Before) <= Len(cards')
        BY <1>1, <1>4, <2>1 DEF TurnTypes, CallDone
    <2> QED BY <1>1, <1>4, <1>7, <2>2 DEF TurnTypes, CallDone, SubCall
<1>9. CallsAreMerged'
    <2> DEFINE p == Append(Merged(calls, subs), Asking)
    <2>1. happened = p \o nested /\ made = Len(calls) + 1 /\ \A i \in DOMAIN subs : i < Len(calls)
        BY DEF TurnInv, CallsAreMerged, SubCall
    <2>2. p \in Seq(TurnCalls)
        <3>1. Merged(calls, subs) \in Seq(TurnCalls)
            BY <1>1, MergedType DEF TurnTypes
        <3>2. Asking \in TurnCalls
            BY DEF Asking, TurnCalls, Args
        <3> QED BY <3>1, <3>2, OneMore
    <2> HIDE DEF p
    <2>3. Append(p \o nested, c) = (p \o nested) \o <<c>> /\ Append(nested, c) = nested \o <<c>>
        <3>1. p \o nested \in Seq(TurnCalls)
            BY <1>7, <2>2, ConcatProperties
        <3> QED BY <1>6, <1>7, <3>1, AppendIsConcat
    <2>4. <<c>> \in Seq(TurnCalls)
        BY <1>6
    <2>5. p \o (nested \o <<c>>) = (p \o nested) \o <<c>>
        BY <1>7, <2>2, <2>4, ConcatAssociative
    <2>6. happened' = p \o nested'
        BY <1>2, <2>1, <2>3, <2>5
    <2>7. stage' = "asking" /\ subs' = subs /\ calls' = calls /\ made' = made
        BY DEF SubCall
    <2>8. happened' = Append(Merged(calls', subs'), Asking) \o nested'
        BY <2>6, <2>7 DEF p, Asking
    <2> QED BY <2>1, <2>7, <2>8 DEF CallsAreMerged
<1>10. CardsAreShownAsTheyAre' /\ NoForgeryIsPosted' /\ TraceReadsAsItHappened'
    BY NotDone DEF SubCall
<1> QED BY <1>5, <1>8, <1>9, <1>10 DEF TurnInv
-----------------------------------------------------------------------------
(* A step that makes no call and touches no card. *)
LEMMA CardsStay ==
    ASSUME TurnInv, UNCHANGED <<cards, happened>>
    PROVE  CallsAreSound'
BY DEF TurnInv, CallsAreSound

LEMMA StillShown ==
    ASSUME TurnInv, UNCHANGED <<cards, happened, shown, changed, events, raised>>, ~raised, stage # "done",
           stage \notin {"after", "publish"} => stage' \notin {"after", "publish"}
    PROVE  ShownOrToAnnounce'
<1>1. \A i \in DOMAIN cards : shown[i] = cards[i].status \/ StillToAnnounce(i)
    BY DEF TurnInv, ShownOrToAnnounce
<1>2. \A i : StillToAnnounce(i) => StillToAnnounce(i)'
    BY DEF StillToAnnounce, Did
<1> QED BY <1>1, <1>2 DEF ShownOrToAnnounce

LEMMA NoneBorn ==
    ASSUME TurnInv, UNCHANGED cards, stage \in {"context", "run", "asking", "render"}
    PROVE  \A kind \in DraftKinds : Born(kind) = {} /\ Born(kind)' = {}
BY DEF TurnInv, CardsAreWanted, Born

LEMMA FailsKeeps ==
    ASSUME TurnInv, Fails
    PROVE  TurnInv'
<1>1. TurnTypes'
    BY DEF TurnInv, TurnTypes, Fails
<1>2. CallsAreMerged'
    <2>1. calls = happened /\ stage' = "after" /\ calls' = calls /\ happened' = happened
        BY DEF TurnInv, CallsAreMerged, Fails
    <2> QED BY <2>1 DEF CallsAreMerged
<1>3. ShownOrToAnnounce' /\ WordsAreChecked' /\ CardsAreWanted'
    BY DEF Fails, ShownOrToAnnounce, TurnInv, WordsAreChecked, CardsAreWanted
<1>4. CallsAreSound'
    BY CardsStay DEF Fails
<1>5. CardsAreShownAsTheyAre' /\ NoForgeryIsPosted' /\ TraceReadsAsItHappened'
    BY NotDone DEF Fails
<1> QED BY <1>1, <1>2, <1>3, <1>4, <1>5 DEF TurnInv

LEMMA TurnContextKeeps ==
    ASSUME TurnInv, Context
    PROVE  TurnInv'
<1>1. TurnTypes' /\ ~raised
    BY DEF TurnInv, TurnTypes, Context
<1>2. CallsAreMerged'
    <2>1. /\ calls = <<>> /\ happened = <<>> /\ subs = <<>> /\ made = 0 /\ nested = <<>>
          /\ stage' = "run" /\ UNCHANGED <<calls, happened, subs, made, nested>>
        BY DEF TurnInv, CallsAreMerged, Context
    <2>2. Merged(calls', subs') = <<>>
        BY <2>1, MergedNone
    <2>3. Len(<<>>) = 0 /\ DOMAIN <<>> = {}
        BY EmptySeq
    <2> QED BY <2>1, <2>2, <2>3 DEF CallsAreMerged
<1>3. ShownOrToAnnounce'
    BY <1>1, StillShown DEF Context
<1>4. WordsAreChecked' /\ CardsAreWanted'
    BY NoneBorn DEF Context, TurnInv, WordsAreChecked, CardsAreWanted
<1>5. CallsAreSound'
    BY CardsStay DEF Context
<1>6. CardsAreShownAsTheyAre' /\ NoForgeryIsPosted' /\ TraceReadsAsItHappened'
    BY NotDone DEF Context
<1> QED BY <1>1, <1>2, <1>3, <1>4, <1>5, <1>6 DEF TurnInv

LEMMA AskStartsKeeps ==
    ASSUME TurnInv, AskStarts
    PROVE  TurnInv'
<1>1. TurnTypes /\ ~raised
    BY DEF TurnInv, TurnTypes, AskStarts
<1>2. Asking \in TurnCalls /\ ~(Asking.tool \in {"pay", "remember"})
    BY DEF Asking, TurnCalls, Args
<1> DEFINE n == Len(happened) + 1
<1>3. /\ happened \in Seq(TurnCalls) /\ happened' = Append(happened, Asking) /\ happened' \in Seq(TurnCalls)
      /\ DOMAIN happened' = DOMAIN happened \cup {n}
      /\ \A k \in DOMAIN happened : happened'[k] = happened[k]
      /\ happened'[n] = Asking
    BY <1>1, <1>2, OneMore DEF TurnTypes, AskStarts
<1> HIDE DEF n
<1>4. TurnTypes'
    BY <1>1, <1>3 DEF TurnTypes, AskStarts
<1>5. CallsAreMerged'
    <2>1. happened = Merged(calls, subs) /\ made = Len(calls) /\ nested = <<>> /\ \A i \in DOMAIN subs : i < Len(calls)
        BY DEF TurnInv, CallsAreMerged, AskStarts
    <2>2. stage' = "asking" /\ UNCHANGED <<calls, subs, nested>> /\ made' = made + 1
        BY DEF AskStarts
    <2>3. happened' = Append(Merged(calls, subs), Asking) \o <<>>
        BY <1>3, <2>1, ConcatEmptySeq
    <2>4. happened' = Append(Merged(calls', subs'), Asking) \o nested'
        BY <2>1, <2>2, <2>3
    <2> QED BY <2>1, <2>2, <2>4 DEF CallsAreMerged, Asking
<1>6. CallsAreSound'
    <2>1. cards' = cards
        BY DEF AskStarts
    <2> SUFFICES ASSUME NEW k \in DOMAIN happened'
                 PROVE  /\ happened'[k].ok /\ happened'[k].tool = "pay" => happened'[k].arg \in Pairs \X Payloads
                        /\ happened'[k].ok /\ happened'[k].tool = "remember" =>
                             happened'[k].arg \in DOMAIN cards' /\ cards'[happened'[k].arg].kind = "memo"
        BY DEF CallsAreSound
    <2>2. CASE k \in DOMAIN happened
        BY <1>3, <2>1, <2>2 DEF TurnInv, CallsAreSound
    <2>3. CASE k = n
        BY <1>2, <1>3, <2>3
    <2> QED BY <1>3, <2>2, <2>3
<1>7. ShownOrToAnnounce'
    <2>1. \A i \in DOMAIN cards : shown[i] = cards[i].status \/ StillToAnnounce(i)
        BY <1>1 DEF TurnInv, ShownOrToAnnounce, AskStarts
    <2>2. \A t, j : Did(t, j) => Did(t, j)'
        BY <1>3 DEF Did
    <2>3. \A i : StillToAnnounce(i) => StillToAnnounce(i)'
        BY <2>2 DEF StillToAnnounce, AskStarts
    <2> QED BY <2>1, <2>3 DEF ShownOrToAnnounce, AskStarts
<1>8. WordsAreChecked' /\ CardsAreWanted'
    BY NoneBorn DEF AskStarts, TurnInv, WordsAreChecked, CardsAreWanted
<1>9. CardsAreShownAsTheyAre' /\ NoForgeryIsPosted' /\ TraceReadsAsItHappened'
    BY NotDone DEF AskStarts
<1> QED BY <1>4, <1>5, <1>6, <1>7, <1>8, <1>9 DEF TurnInv

LEMMA AskReturnsKeeps ==
    ASSUME TurnInv, AskReturns
    PROVE  TurnInv'
<1>1. TurnTypes /\ ~raised
    BY DEF TurnInv, TurnTypes, AskReturns
<1>2. Asking \in TurnCalls
    BY DEF Asking, TurnCalls, Args
<1>3. /\ calls \in Seq(TurnCalls) /\ nested \in Seq(TurnCalls) /\ happened \in Seq(TurnCalls) /\ Len(calls) \in Nat
      /\ calls' = Append(calls, Asking) /\ calls' \in Seq(TurnCalls) /\ Len(calls') = Len(calls) + 1
    BY <1>1, <1>2, OneMore, SeqIs DEF TurnTypes, AskReturns
<1>4. /\ happened = Append(Merged(calls, subs), Asking) \o nested /\ made = Len(calls) + 1
      /\ \A i \in DOMAIN subs : i < Len(calls)
    BY DEF TurnInv, CallsAreMerged, AskReturns
<1>5. made - 1 = Len(calls) /\ Len(calls) \notin DOMAIN subs
    BY <1>3, <1>4
<1>6. /\ subs' = [i \in DOMAIN subs \cup {Len(calls)} |-> IF i = Len(calls) THEN nested ELSE subs[i]]
      /\ Under(subs', Len(calls)) = nested
    <2>1. Under(subs, Len(calls)) \o nested = nested
        BY <1>3, <1>5, ConcatEmptySeq DEF Under
    <2> DEFINE N == Len(calls)
               q == Under(subs, N) \o nested
    <2>2. subs' = [i \in DOMAIN subs \cup {N} |-> IF i = N THEN Under(subs, i) \o nested ELSE subs[i]]
        BY <1>5 DEF AskReturns
    <2> HIDE DEF N
    <2>3. subs' = [i \in DOMAIN subs \cup {N} |-> IF i = N THEN q ELSE subs[i]]
        BY <2>2
    <2> HIDE DEF q
    <2>4. Under(subs', N) = q
        BY <2>3 DEF Under
    <2>5. q = nested
        BY <2>1 DEF q, N
    <2> QED BY <2>3, <2>4, <2>5 DEF N
<1>7. TurnTypes'
    <2>1. DOMAIN subs' = DOMAIN subs \cup {Len(calls)} /\ \A i \in DOMAIN subs' : subs'[i] = nested \/ (i \in DOMAIN subs /\ subs'[i] = subs[i])
        BY <1>6
    <2>2. DOMAIN subs' \subseteq Nat /\ \A i \in DOMAIN subs' : subs'[i] \in Seq(TurnCalls)
        BY <1>1, <1>3, <2>1 DEF TurnTypes
    <2>3. nested' \in Seq(TurnCalls)
        BY EmptySeq DEF AskReturns
    <2> QED BY <1>1, <1>3, <2>2, <2>3 DEF TurnTypes, AskReturns
<1>8. CallsAreMerged'
    <2>1. \A i \in 0..(Len(calls) - 1) : Under(subs', i) = Under(subs, i)
        BY <1>3, <1>6 DEF Under
    <2>2. Merged(Append(calls, Asking), subs') = Append(Merged(calls, subs), Asking) \o Under(subs', Len(calls))
        BY <1>2, <1>3, <2>1, MergedGrows
    <2>3. happened' = Merged(calls', subs')
        BY <1>3, <1>4, <1>6, <2>2 DEF AskReturns
    <2>4. stage' = "run" /\ made' = made /\ nested' = <<>>
        BY DEF AskReturns
    <2>5. \A i \in DOMAIN subs' : i < Len(calls')
        <3>1. \A i \in DOMAIN subs : i \in Nat
            BY <1>1 DEF TurnTypes
        <3> QED BY <1>3, <1>4, <1>6, <3>1
    <2> QED BY <1>3, <1>4, <2>3, <2>4, <2>5 DEF CallsAreMerged
<1>9. ShownOrToAnnounce'
    BY <1>1, StillShown DEF AskReturns
<1>10. WordsAreChecked' /\ CardsAreWanted'
    BY NoneBorn DEF AskReturns, TurnInv, WordsAreChecked, CardsAreWanted
<1>11. CallsAreSound'
    BY CardsStay DEF AskReturns
<1>12. CardsAreShownAsTheyAre' /\ NoForgeryIsPosted' /\ TraceReadsAsItHappened'
    BY NotDone DEF AskReturns
<1> QED BY <1>7, <1>8, <1>9, <1>10, <1>11, <1>12 DEF TurnInv
-----------------------------------------------------------------------------
LEMMA EngineEndsKeeps ==
    ASSUME TurnInv, EngineEnds
    PROVE  TurnInv'
<1>1. TurnTypes /\ ~raised
    BY DEF TurnInv, TurnTypes, EngineEnds
<1>2. happened = Merged(calls, subs) /\ calls' = happened /\ happened' = happened /\ stage' = "render"
    BY DEF TurnInv, CallsAreMerged, EngineEnds
<1>3. CallsAreMerged'
    BY <1>2 DEF CallsAreMerged
<1>4. TurnTypes'
    BY <1>1, <1>2 DEF TurnTypes, EngineEnds
<1>5. ShownOrToAnnounce'
    BY <1>1, StillShown DEF EngineEnds
<1>6. WordsAreChecked' /\ CardsAreWanted'
    BY NoneBorn DEF EngineEnds, TurnInv, WordsAreChecked, CardsAreWanted
<1>7. CallsAreSound'
    BY CardsStay DEF EngineEnds
<1>8. CardsAreShownAsTheyAre' /\ NoForgeryIsPosted' /\ TraceReadsAsItHappened'
    BY NotDone DEF EngineEnds
<1> QED BY <1>3, <1>4, <1>5, <1>6, <1>7, <1>8 DEF TurnInv

LEMMA RenderKeeps ==
    ASSUME TurnInv, Render
    PROVE  TurnInv'
<1>1. TurnTypes /\ ~raised /\ ~raised' /\ stage' = "validate" /\ calls = happened /\ calls' = calls /\ happened' = happened
    BY DEF TurnInv, TurnTypes, CallsAreMerged, Render
<1>2. calls \in Seq(TurnCalls)
    BY <1>1 DEF TurnTypes
<1>3. drafts' \in Seq(TurnDrafts) /\ \A kind \in DraftKinds : CardOfKind(kind)'
    <2>1. \A kind \in DraftKinds : Born(kind) = {}
        BY NoneBorn DEF Render
    <2>2. drafts' = Drafted(Decisions) /\ cards' = cards
        BY DEF Render
    <2> QED BY <1>1, <1>2, <2>1, <2>2, DecidedCards
<1>4. TurnTypes'
    BY <1>1, <1>3 DEF TurnTypes, Render
<1>5. CallsAreMerged'
    BY <1>1 DEF CallsAreMerged
<1>6. ShownOrToAnnounce'
    BY <1>1, StillShown DEF Render
<1>7. WordsAreChecked'
    <2>1. posted' = posted /\ posted = Nothing /\ text' = text
        BY DEF Render, TurnInv, WordsAreChecked
    <2>2. outcome'.is = "body" /\ ~outcome'.claimed => outcome'.words = text
        <3> DEFINE o == Decisions.outcome
        <3>1. o \in Decides
            BY <1>2, DecisionsAre
        <3>2. outcome' = IF o.is = "none" THEN Body(text, ~text.says) ELSE o
            BY DEF Render
        <3> HIDE DEF o
        <3>3. CASE o.is = "none"
            <4>1. outcome' = Body(text, ~text.says)
                BY <3>2, <3>3
            <4> QED BY <4>1 DEF Body
        <3>4. CASE o.is # "none"
            BY <3>1, <3>2, <3>4, DecidesAre
        <3> QED BY <3>3, <3>4
    <2> QED BY <1>1, <2>1, <2>2 DEF WordsAreChecked
<1>8. CardsAreWanted'
    BY <1>1, <1>3 DEF CardsAreWanted
<1>9. CallsAreSound'
    BY CardsStay DEF Render
<1>10. CardsAreShownAsTheyAre' /\ NoForgeryIsPosted' /\ TraceReadsAsItHappened'
    BY NotDone DEF Render
<1> QED BY <1>4, <1>5, <1>6, <1>7, <1>8, <1>9, <1>10 DEF TurnInv

(* What is wanted depends on the calls only. *)
LEMMA WantedStays ==
    ASSUME calls' = calls
    PROVE  \A kind : Results(kind)' = Results(kind) /\ Wanted(kind)' = Wanted(kind)
<1> TAKE kind
<1>1. \A t : Results(t)' = Results(t)
    BY DEF Results
<1>2. LunchDecides' = LunchDecides /\ LedgerDecides' = LedgerDecides /\ RecordsDecide' = RecordsDecide
    BY <1>1 DEF LunchDecides, LedgerDecides, RecordsDecide, Collapsed
<1>3. Wanted(kind)' = Wanted(kind)
    BY <1>2 DEF Wanted
<1> QED BY <1>1, <1>3

LEMMA KindsStay ==
    ASSUME UNCHANGED <<cards, drafts, calls>>, NEW kind, CardOfKind(kind)
    PROVE  CardOfKind(kind)'
<1>1. Results(kind)' = Results(kind) /\ Wanted(kind)' = Wanted(kind)
    BY WantedStays
<1>2. Born(kind)' = Born(kind) /\ Remaining(kind)' = Remaining(kind)
    BY DEF Born, Remaining
<1> QED BY <1>1, <1>2 DEF CardOfKind

LEMMA ValidateKeeps ==
    ASSUME TurnInv, Validate
    PROVE  TurnInv'
<1>1. TurnTypes /\ ~raised /\ ~raised' /\ stage' = "persist" /\ calls = happened /\ calls' = calls /\ happened' = happened
    BY DEF TurnInv, TurnTypes, CallsAreMerged, Validate
<1>2. TurnTypes'
    BY <1>1 DEF TurnTypes, Validate
<1>3. CallsAreMerged'
    BY <1>1 DEF CallsAreMerged
<1>4. ShownOrToAnnounce'
    BY <1>1, StillShown DEF Validate
<1>5. WordsAreChecked'
    <2>1. posted' = Nothing /\ text' = text
        BY DEF Validate, TurnInv, WordsAreChecked
    <2>2. Forged' <=> Forged
        BY <1>1, <2>1 DEF Forged, Evidence
    <2>3. outcome.is = "body" /\ ~outcome.claimed => outcome.words = text
        BY <1>1 DEF TurnInv, WordsAreChecked, Validate
    <2>4. outcome' = IF outcome.is = "body" /\ ~outcome.claimed /\ Forged THEN Warning ELSE outcome
        BY DEF Validate
    <2>5. Warning.claimed
        BY DEF Warning
    <2>6. outcome'.is = "body" /\ ~outcome'.claimed => outcome'.words = text /\ ~Forged
        BY <2>3, <2>4, <2>5
    <2> QED BY <1>1, <2>1, <2>2, <2>6 DEF WordsAreChecked
<1>6. CardsAreWanted'
    <2>1. \A kind \in DraftKinds : CardOfKind(kind)
        BY DEF TurnInv, CardsAreWanted, Validate
    <2>2. \A kind \in DraftKinds : CardOfKind(kind)'
        BY <2>1, KindsStay DEF Validate
    <2> QED BY <1>1, <2>2 DEF CardsAreWanted
<1>7. CallsAreSound'
    BY CardsStay DEF Validate
<1>8. CardsAreShownAsTheyAre' /\ NoForgeryIsPosted' /\ TraceReadsAsItHappened'
    BY NotDone DEF Validate
<1> QED BY <1>2, <1>3, <1>4, <1>5, <1>6, <1>7, <1>8 DEF TurnInv

LEMMA PersistRestKeeps ==
    ASSUME TurnInv, PersistRest
    PROVE  TurnInv'
<1>1. TurnTypes /\ ~raised /\ ~raised' /\ stage' = "after" /\ calls = happened /\ calls' = calls /\ happened' = happened
    BY DEF TurnInv, TurnTypes, CallsAreMerged, PersistRest
<1>2. TurnTypes'
    BY <1>1 DEF TurnTypes, PersistRest
<1>3. CallsAreMerged'
    BY <1>1 DEF CallsAreMerged
<1>4. ShownOrToAnnounce'
    <2>1. \A i \in DOMAIN cards : shown[i] = cards[i].status \/ StillToAnnounce(i)
        BY <1>1 DEF TurnInv, ShownOrToAnnounce, PersistRest
    <2>2. UNCHANGED <<cards, shown, events>> /\ changed' = changed \cup CancelledCards
        BY DEF PersistRest
    <2>3. \A i : Did("cancel", i) => i \in CancelledCards
        <3> SUFFICES ASSUME NEW i, Did("cancel", i) PROVE i \in CancelledCards
            OBVIOUS
        <3>1. PICK k \in DOMAIN calls : calls[k].ok /\ calls[k].tool = "cancel" /\ calls[k].arg = i
            BY <1>1 DEF Did
        <3>2. calls[k] \in ToSet(calls)
            BY DEF ToSet
        <3> QED BY <3>1, <3>2 DEF CancelledCards
    <2>4. \A i : StillToAnnounce(i) => StillToAnnounce(i)'
        <3>1. \A t, i : Did(t, i)' <=> Did(t, i)
            BY <1>1 DEF Did
        <3> QED BY <2>2, <2>3, <3>1 DEF StillToAnnounce
    <2> QED BY <2>1, <2>2, <2>4 DEF ShownOrToAnnounce
<1>5. WordsAreChecked'
    <2>1. posted' = Nothing /\ text' = text /\ outcome' = outcome
        BY DEF PersistRest, TurnInv, WordsAreChecked
    <2>2. Forged' <=> Forged
        BY <1>1, <2>1 DEF Forged, Evidence
    <2>3. outcome.is = "body" /\ ~outcome.claimed => outcome.words = text /\ ~Forged
        BY <1>1 DEF TurnInv, WordsAreChecked, PersistRest
    <2> QED BY <1>1, <2>1, <2>2, <2>3 DEF WordsAreChecked
<1>6. CardsAreWanted'
    <2>1. \A kind \in DraftKinds : CardOfKind(kind)
        BY DEF TurnInv, CardsAreWanted, PersistRest
    <2>2. \A kind \in DraftKinds : CardOfKind(kind)'
        BY <2>1, KindsStay DEF PersistRest
    <2>3. drafts' = <<>>
        BY DEF PersistRest
    <2> QED BY <1>1, <2>2, <2>3 DEF CardsAreWanted
<1>7. CallsAreSound'
    BY CardsStay DEF PersistRest
<1>8. CardsAreShownAsTheyAre' /\ NoForgeryIsPosted' /\ TraceReadsAsItHappened'
    BY NotDone DEF PersistRest
<1> QED BY <1>2, <1>3, <1>4, <1>5, <1>6, <1>7, <1>8 DEF TurnInv

LEMMA TraceKeeps ==
    ASSUME TurnInv, Trace
    PROVE  TurnInv'
<1>1. TurnTypes /\ calls = happened /\ calls' = calls /\ happened' = happened /\ stage = "after"
      /\ stage' = (IF raised THEN "failed" ELSE "publish") /\ raised' = raised
    BY DEF TurnInv, TurnTypes, CallsAreMerged, Trace
<1>2. TurnTypes'
    BY <1>1 DEF TurnTypes, Trace
<1>3. CallsAreMerged'
    BY <1>1 DEF CallsAreMerged
<1>4. ShownOrToAnnounce'
    <2>1. CASE raised
        BY <1>1, <2>1 DEF ShownOrToAnnounce
    <2>2. CASE ~raised
        BY <1>1, <2>2, StillShown DEF Trace
    <2> QED BY <2>1, <2>2
<1>5. WordsAreChecked'
    <2>1. posted' = Nothing /\ text' = text /\ outcome' = outcome
        BY <1>1 DEF Trace, TurnInv, WordsAreChecked
    <2>2. Forged' <=> Forged
        BY <1>1, <2>1 DEF Forged, Evidence
    <2>3. ~raised => (outcome.is = "body" /\ ~outcome.claimed => outcome.words = text /\ ~Forged)
        BY <1>1 DEF TurnInv, WordsAreChecked
    <2> QED BY <1>1, <2>1, <2>2, <2>3 DEF WordsAreChecked
<1>6. CardsAreWanted'
    <2>1. ~raised => drafts = <<>> /\ \A kind \in DraftKinds : CardOfKind(kind)
        BY <1>1 DEF TurnInv, CardsAreWanted
    <2>2. ~raised => drafts' = <<>> /\ \A kind \in DraftKinds : CardOfKind(kind)'
        BY <2>1, KindsStay DEF Trace
    <2> QED BY <1>1, <2>2 DEF CardsAreWanted
<1>7. CallsAreSound'
    BY CardsStay DEF Trace
<1>8. CardsAreShownAsTheyAre'
    BY <1>1 DEF CardsAreShownAsTheyAre
<1>9. NoForgeryIsPosted'
    <2>1. posted' = Nothing
        BY <1>1 DEF Trace, TurnInv, WordsAreChecked
    <2> QED BY <2>1 DEF NoForgeryIsPosted, Nothing
<1>10. TraceReadsAsItHappened'
    BY <1>1 DEF TraceReadsAsItHappened, Trace
<1> QED BY <1>2, <1>3, <1>4, <1>5, <1>6, <1>7, <1>8, <1>9, <1>10 DEF TurnInv
-----------------------------------------------------------------------------
(* Cards of which at most the status changes. *)
LEMMA OnlyTheStatus ==
    ASSUME TurnTypes, NEW R, NEW s \in Statuses,
           NEW q, q = [i \in DOMAIN cards |-> IF i \in R THEN [cards[i] EXCEPT !.status = s] ELSE cards[i]]
    PROVE  /\ q \in Seq(RoomCards) /\ Len(q) = Len(cards) /\ DOMAIN q = DOMAIN cards
           /\ \A i \in DOMAIN cards : q[i].kind = cards[i].kind /\ q[i].payload = cards[i].payload
           /\ \A i \in DOMAIN cards : i \notin R => q[i] = cards[i]
<1>1. cards \in Seq(RoomCards) /\ Len(cards) \in Nat /\ DOMAIN cards = 1..Len(cards) /\ \A i \in DOMAIN cards : cards[i] \in RoomCards
    BY SeqIs DEF TurnTypes
<1>2. \A i \in DOMAIN cards : LET y == [cards[i] EXCEPT !.status = s] IN
         y \in RoomCards /\ y.kind = cards[i].kind /\ y.payload = cards[i].payload
    BY <1>1, CancelledCard
<1>3. \A i \in DOMAIN cards : q[i] = IF i \in R THEN [cards[i] EXCEPT !.status = s] ELSE cards[i]
    OBVIOUS
<1>4. \A i \in DOMAIN cards : q[i] \in RoomCards /\ q[i].kind = cards[i].kind /\ q[i].payload = cards[i].payload
    BY <1>1, <1>2, <1>3
<1>5. DOMAIN q = 1..Len(cards) /\ q = [i \in 1..Len(cards) |-> q[i]]
    BY <1>1
<1>6. q \in [1..Len(cards) -> RoomCards]
    BY <1>1, <1>4, <1>5
<1>7. q \in Seq(RoomCards) /\ Len(q) = Len(cards)
    BY <1>1, <1>6, ASequence
<1> QED BY <1>1, <1>3, <1>4, <1>5, <1>7

LEMMA PersistCardKeeps ==
    ASSUME TurnInv, PersistCard
    PROVE  TurnInv'
<1>1. TurnTypes /\ ~raised /\ ~raised' /\ stage = "persist" /\ stage' = "persist"
      /\ calls = happened /\ calls' = calls /\ happened' = happened
    BY DEF TurnInv, TurnTypes, CallsAreMerged, PersistCard
<1> DEFINE d == Head(drafts)
           n == Len(cards) + 1
           new == [kind |-> d.kind, payload |-> d.payload, status |-> "pending"]
           mid == [i \in DOMAIN cards |-> IF i \in Retires(d) THEN [cards[i] EXCEPT !.status = "superseded"] ELSE cards[i]]
<1>2. /\ cards' = Append(mid, new) /\ shown' = Append(shown, None) /\ changed' = changed \cup Retires(d)
      /\ events' = <<n>> \o events /\ drafts' = Tail(drafts) /\ drafts # <<>>
    BY DEF PersistCard, Superseded
<1>3. /\ drafts \in Seq(TurnDrafts) /\ Len(drafts) \in Nat /\ DOMAIN drafts = 1..Len(drafts)
      /\ cards \in Seq(RoomCards) /\ Len(cards) \in Nat /\ DOMAIN cards = 1..Len(cards)
      /\ shown \in Seq(Statuses \cup {None}) /\ Len(shown) = Len(cards) /\ DOMAIN shown = DOMAIN cards
      /\ events \in Seq(Nat) /\ Len(Before) <= Len(cards) /\ Len(Before) \in Nat
    BY <1>1, SeqIs, BeforeAssumption DEF TurnTypes
<1>4. /\ d = drafts[1] /\ 1 \in DOMAIN drafts /\ d \in TurnDrafts
      /\ drafts' \in Seq(TurnDrafts) /\ Len(drafts') = Len(drafts) - 1
      /\ DOMAIN drafts' = 1..(Len(drafts) - 1)
      /\ \A i \in DOMAIN drafts' : i + 1 \in DOMAIN drafts /\ drafts'[i] = drafts[i + 1]
    <2>1. Len(drafts) # 0
        BY <1>2, <1>3, EmptySeq
    <2>2. d = drafts[1] /\ 1 \in DOMAIN drafts
        BY <1>2, <1>3, <2>1, HeadTailProperties
    <2>3. /\ drafts' \in Seq(TurnDrafts) /\ Len(drafts') = Len(drafts) - 1
          /\ \A i \in 1 .. Len(Tail(drafts)) : Tail(drafts)[i] = drafts[i + 1]
        BY <1>2, <1>3, HeadTailProperties
    <2>4. DOMAIN drafts' = 1..(Len(drafts) - 1)
        BY <2>3, SeqIs
    <2>5. d \in TurnDrafts
        BY <1>3, <2>2, SeqIs
    <2>6. \A i \in DOMAIN drafts' : i + 1 \in DOMAIN drafts /\ drafts'[i] = drafts[i + 1]
        BY <1>2, <1>3, <2>3, <2>4
    <2> QED BY <2>2, <2>3, <2>4, <2>5, <2>6
<1> HIDE DEF d
<1>5. new \in RoomCards /\ new.kind = d.kind /\ new.payload = d.payload
    BY <1>4 DEF TurnDrafts, RoomCards, Statuses
<1>6. /\ mid \in Seq(RoomCards) /\ Len(mid) = Len(cards) /\ DOMAIN mid = DOMAIN cards
      /\ \A i \in DOMAIN cards : mid[i].kind = cards[i].kind /\ mid[i].payload = cards[i].payload
      /\ \A i \in DOMAIN cards : i \notin Retires(d) => mid[i] = cards[i]
    <2>1. "superseded" \in Statuses
        BY DEF Statuses
    <2> QED BY <1>1, <2>1, OnlyTheStatus
<1> HIDE DEF new, mid
<1>7. /\ cards' \in Seq(RoomCards) /\ Len(cards') = n /\ DOMAIN cards' = DOMAIN cards \cup {n}
      /\ \A i \in DOMAIN cards : cards'[i] = mid[i]
      /\ cards'[n] = new
    BY <1>2, <1>5, <1>6, OneMore
<1>8. /\ shown' \in Seq(Statuses \cup {None}) /\ Len(shown') = n
      /\ \A i \in DOMAIN cards : shown'[i] = shown[i]
    <2>1. None \in Statuses \cup {None}
        OBVIOUS
    <2> QED BY <1>2, <1>3, <2>1, OneMore
<1>9. \A i \in DOMAIN cards : i \in DOMAIN cards' /\ cards'[i].kind = cards[i].kind /\ cards'[i].payload = cards[i].payload
    BY <1>6, <1>7
<1>10. events' \in Seq(Nat) /\ \A e : (e = n \/ \E k \in DOMAIN events : events[k] = e) => \E k \in DOMAIN events' : events'[k] = e
    <2>1. n \in Nat
        BY <1>3
    <2> HIDE DEF n
    <2>2. <<n>> \in Seq(Nat) /\ DOMAIN <<n>> = {1} /\ <<n>>[1] = n
        BY <2>1
    <2>3. Joins(events', <<n>>, events)
        BY <1>2, <1>3, <2>2, ConcatJoins
    <2>4. events' \in Seq(Nat)
        BY <1>2, <1>3, <2>2, ConcatProperties
    <2> QED BY <2>2, <2>3, <2>4 DEF Joins
<1>11. TurnTypes'
    <2>1. Len(Before) <= Len(cards')
        BY <1>3, <1>7
    <2> QED BY <1>1, <1>4, <1>7, <1>8, <1>10, <2>1 DEF TurnTypes, PersistCard
<1>12. CallsAreMerged'
    BY <1>1 DEF CallsAreMerged
<1>13. CallsAreSound'
    BY <1>1, <1>9 DEF TurnInv, CallsAreSound
<1>14. ShownOrToAnnounce'
    <2> SUFFICES ASSUME NEW i \in DOMAIN cards'
                 PROVE  shown'[i] = cards'[i].status \/ StillToAnnounce(i)'
        BY DEF ShownOrToAnnounce
    <2>1. CASE i = n
        <3>1. \E k \in DOMAIN events' : events'[k] = i
            BY <1>10, <2>1
        <3> QED BY <3>1 DEF StillToAnnounce
    <2>2. CASE i \in DOMAIN cards /\ i \in Retires(d)
        BY <1>2, <2>2 DEF StillToAnnounce
    <2>3. CASE i \in DOMAIN cards /\ i \notin Retires(d)
        <3>1. shown'[i] = shown[i] /\ cards'[i].status = cards[i].status
            BY <1>6, <1>7, <1>8, <2>3
        <3>2. shown[i] = cards[i].status \/ StillToAnnounce(i)
            BY <1>1, <2>3 DEF TurnInv, ShownOrToAnnounce
        <3>3. \A t : Did(t, i)' <=> Did(t, i)
            BY <1>1 DEF Did
        <3>4. StillToAnnounce(i) => StillToAnnounce(i)'
            BY <1>1, <1>2, <1>10, <3>3 DEF StillToAnnounce
        <3> QED BY <3>1, <3>2, <3>4
    <2> QED BY <1>7, <2>1, <2>2, <2>3
<1>15. WordsAreChecked'
    <2>1. posted' = Nothing /\ text' = text /\ outcome' = outcome
        BY <1>1 DEF PersistCard, TurnInv, WordsAreChecked
    <2>2. Forged' <=> Forged
        BY <1>1, <2>1 DEF Forged, Evidence
    <2>3. outcome.is = "body" /\ ~outcome.claimed => outcome.words = text /\ ~Forged
        BY <1>1 DEF TurnInv, WordsAreChecked
    <2> QED BY <1>1, <2>1, <2>2, <2>3 DEF WordsAreChecked
<1>16. ASSUME NEW kind \in DraftKinds
       PROVE  CardOfKind(kind)'
    <2>1. CardOfKind(kind)
        BY <1>1, <1>16 DEF TurnInv, CardsAreWanted
    <2>2. Results(kind)' = Results(kind) /\ Wanted(kind)' = Wanted(kind)
        BY <1>1, WantedStays
    <2>3. \A i : i \in Born(kind)' <=> i \in Born(kind) \/ (i = n /\ d.kind = kind)
        <3>1. n > Len(Before)
            BY <1>3
        <3> QED BY <1>3, <1>5, <1>7, <1>9, <3>1 DEF Born
    <2>4. \A i \in Remaining(kind)' : i + 1 \in Remaining(kind) /\ drafts'[i] = drafts[i + 1] /\ i \in Nat
        BY <1>4 DEF Remaining
    <2>5. CASE d.kind = kind
        <3>1. 1 \in Remaining(kind)
            BY <1>4, <2>5 DEF Remaining
        <3>2. Born(kind) = {} /\ \A i \in Remaining(kind) : i = 1
            BY <2>1, <3>1 DEF CardOfKind
        <3>3. Remaining(kind)' = {}
            <4>1. \A i \in DOMAIN drafts' : i + 1 # 1
                BY <1>3, <1>4
            <4>2. \A i \in Remaining(kind)' : i \in DOMAIN drafts'
                BY DEF Remaining
            <4> QED BY <2>4, <3>2, <4>1, <4>2
        <3>4. Born(kind)' = {n}
            BY <2>3, <2>5, <3>2
        <3>5. Results(kind) # {}
            BY <2>1, <3>1 DEF CardOfKind
        <3>6. cards'[n].payload = Wanted(kind).payload
            <4>1. drafts[1].payload = Wanted(kind).payload
                BY <2>1, <3>1 DEF CardOfKind
            <4> QED BY <1>4, <1>5, <1>7, <4>1
        <3> HIDE DEF n
        <3> QED BY <2>2, <3>3, <3>4, <3>5, <3>6 DEF CardOfKind
    <2>6. CASE d.kind # kind
        <3>1. Born(kind)' = Born(kind)
            BY <2>3, <2>6
        <3>2. \A i \in Remaining(kind) : i - 1 \in Remaining(kind)'
            <4> TAKE i \in Remaining(kind)
            <4>1. i \in DOMAIN drafts /\ drafts[i].kind = kind
                BY DEF Remaining
            <4>2. i # 1
                BY <1>4, <2>6, <4>1
            <4>3. i - 1 \in DOMAIN drafts' /\ i - 1 + 1 = i
                BY <1>3, <1>4, <4>1, <4>2
            <4>4. drafts'[i - 1] = drafts[i]
                BY <1>4, <4>3
            <4> QED BY <4>1, <4>3, <4>4 DEF Remaining
        <3>3. Remaining(kind)' = {} <=> Remaining(kind) = {}
            BY <2>4, <3>2
        <3>4. \A i, j \in Remaining(kind)' : i = j
            <4> TAKE i, j \in Remaining(kind)'
            <4>1. i + 1 = j + 1
                BY <2>1, <2>4 DEF CardOfKind
            <4> QED BY <2>4, <4>1
        <3>5. \A i \in Born(kind)' : cards'[i].payload = Wanted(kind)'.payload
            <4>1. \A i \in Born(kind) : i \in DOMAIN cards /\ cards[i].payload = Wanted(kind).payload
                BY <2>1 DEF CardOfKind, Born
            <4> QED BY <1>9, <2>2, <3>1, <4>1
        <3>6. \A i \in Remaining(kind)' : drafts'[i].payload = Wanted(kind)'.payload
            BY <2>1, <2>2, <2>4 DEF CardOfKind
        <3> QED BY <2>1, <2>2, <3>1, <3>3, <3>4, <3>5, <3>6 DEF CardOfKind
    <2> QED BY <2>5, <2>6
<1>17. CardsAreWanted'
    BY <1>1, <1>16 DEF CardsAreWanted
<1>18. CardsAreShownAsTheyAre' /\ NoForgeryIsPosted' /\ TraceReadsAsItHappened'
    BY <1>1, NotDone DEF PersistCard
<1> QED BY <1>11, <1>12, <1>13, <1>14, <1>15, <1>17, <1>18 DEF TurnInv
-----------------------------------------------------------------------------
LEMMA AnnounceKeeps ==
    ASSUME TurnInv, Announce
    PROVE  TurnInv'
<1>1. TurnTypes /\ ~raised /\ ~raised' /\ stage = "publish" /\ stage' = "done"
      /\ calls = happened /\ calls' = calls /\ happened' = happened /\ cards' = cards /\ drafts' = drafts
    BY DEF TurnInv, TurnTypes, CallsAreMerged, Announce
<1> DEFINE reply == IF outcome.is = "draft" THEN {Last(events)} ELSE {}
           others == {e \in ToSet(events) : e \notin reply}
           all == Memos \cup others \cup changed \cup reply
<1>2. shown' = [i \in DOMAIN cards |-> IF i \in all THEN cards[i].status ELSE shown[i]]
    BY DEF Announce
<1>3. \A i : i \in changed \/ (\E k \in DOMAIN events : events[k] = i) => i \in all
    BY DEF ToSet
<1> HIDE DEF all
<1>4. /\ cards \in Seq(RoomCards) /\ Len(cards) \in Nat /\ DOMAIN cards = 1..Len(cards)
      /\ shown \in Seq(Statuses \cup {None}) /\ Len(shown) = Len(cards) /\ DOMAIN shown = DOMAIN cards
      /\ \A i \in DOMAIN cards : shown[i] \in Statuses \cup {None} /\ cards[i].status \in Statuses
    <2>1. \A x \in RoomCards : x.status \in Statuses
        BY DEF RoomCards
    <2> QED BY <1>1, <2>1, SeqIs DEF TurnTypes
<1>5. shown' \in Seq(Statuses \cup {None}) /\ Len(shown') = Len(cards')
    <2>1. shown' \in [1..Len(cards) -> Statuses \cup {None}]
        BY <1>2, <1>4
    <2> QED BY <1>1, <1>4, <2>1, ASequence
<1>6. TurnTypes'
    <2>1. events' \in Seq(Nat)
        BY EmptySeq DEF Announce
    <2> QED BY <1>1, <1>5, <2>1 DEF TurnTypes, Announce
<1>7. CallsAreMerged'
    BY <1>1 DEF CallsAreMerged
<1>8. ShownOrToAnnounce'
    BY <1>1 DEF ShownOrToAnnounce
<1>9. WordsAreChecked'
    BY <1>1 DEF WordsAreChecked
<1>10. CardsAreWanted'
    <2>1. drafts = <<>> /\ \A kind \in DraftKinds : CardOfKind(kind)
        BY <1>1 DEF TurnInv, CardsAreWanted
    <2>2. \A kind \in DraftKinds : CardOfKind(kind)'
        BY <1>1, <2>1, KindsStay
    <2> QED BY <1>1, <2>1, <2>2 DEF CardsAreWanted
<1>11. CallsAreSound'
    BY <1>1, CardsStay
<1>12. CardsAreShownAsTheyAre'
    <2> SUFFICES ASSUME NEW i \in DOMAIN cards'
                 PROVE  \/ shown'[i] = cards'[i].status
                        \/ cards'[i].kind = "memo" /\ \E c \in ToSet(happened') : c.from = "sub" /\ c.tool = "remember" /\ c.arg = i
        BY DEF CardsAreShownAsTheyAre
    <2>1. shown'[i] = IF i \in all THEN cards[i].status ELSE shown[i]
        BY <1>1, <1>2
    <2>2. shown[i] = cards[i].status \/ StillToAnnounce(i)
        BY <1>1 DEF TurnInv, ShownOrToAnnounce
    <2>3. CASE i \in all \/ shown[i] = cards[i].status
        BY <1>1, <2>1, <2>3
    <2>4. CASE Did("remember", i)
        <3>1. PICK k \in DOMAIN happened : happened[k].ok /\ happened[k].tool = "remember" /\ happened[k].arg = i
            BY <2>4 DEF Did
        <3>2. happened[k] \in ToSet(happened) /\ happened[k].from \in {"own", "sub"}
            <4>1. happened[k] \in TurnCalls
                BY <1>1, SeqIs DEF TurnTypes
            <4> QED BY <4>1 DEF ToSet, TurnCalls
        <3>3. cards[i].kind = "memo"
            BY <3>1 DEF TurnInv, CallsAreSound
        <3>4. CASE happened[k].from = "own"
            <4>1. k \in Results("remember")
                BY <1>1, <3>1, <3>4 DEF Results
            <4>2. i \in Memos
                BY <1>1, <3>1, <4>1 DEF Memos
            <4>3. i \in all
                BY <4>2 DEF all
            <4> QED BY <1>1, <2>1, <4>3
        <3>5. CASE happened[k].from = "sub"
            BY <1>1, <3>1, <3>2, <3>3, <3>5
        <3> QED BY <3>2, <3>4, <3>5
    <2> QED BY <1>1, <1>3, <2>2, <2>3, <2>4 DEF StillToAnnounce
<1>13. NoForgeryIsPosted'
    <2>1. posted' = IF outcome.is = "body" /\ ~outcome.claimed THEN outcome.words ELSE Nothing
        BY DEF Announce
    <2>2. CASE outcome.is = "body" /\ ~outcome.claimed
        <3>1. posted' = text /\ ~Forged
            BY <1>1, <2>1, <2>2 DEF TurnInv, WordsAreChecked
        <3>2. CASE ~text.claims \/ ~(text.dead \/ text.stray)
            BY <3>1, <3>2 DEF NoForgeryIsPosted
        <3>3. CASE text.claims /\ (text.dead \/ text.stray)
            <4>1. Evidence # {}
                BY <3>1, <3>3 DEF Forged
            <4>2. PICK c \in ToSet(calls) : c.tool \in CommitTools /\ c.ok /\ c.from = "own"
                BY <4>1 DEF Evidence
            <4> QED BY <1>1, <4>2 DEF NoForgeryIsPosted
        <3> QED BY <3>2, <3>3
    <2>3. CASE ~(outcome.is = "body" /\ ~outcome.claimed)
        BY <2>1, <2>3 DEF NoForgeryIsPosted, Nothing
    <2> QED BY <2>2, <2>3
<1>14. TraceReadsAsItHappened'
    BY <1>1 DEF TurnInv, TraceReadsAsItHappened, Announce
<1> QED BY <1>6, <1>7, <1>8, <1>9, <1>10, <1>11, <1>12, <1>13, <1>14 DEF TurnInv

LEMMA PersonCancelsKeeps ==
    ASSUME TurnInv, PersonCancels
    PROVE  TurnInv'
<1>1. TurnTypes /\ stage # "done" /\ stage' = stage
    BY DEF TurnInv, PersonCancels
<1>2. UNCHANGED <<profile, calls, subs, nested, made, happened, text, outcome, drafts, changed, events, posted, traced, raised>>
    BY DEF PersonCancels
<1>3. PICK p \in DOMAIN cards :
         cards[p].kind # "memo" /\ cards' = [cards EXCEPT ![p].status = "cancelled"] /\ shown' = [shown EXCEPT ![p] = "cancelled"]
    BY DEF PersonCancels
<1>4. /\ cards \in Seq(RoomCards) /\ Len(cards) \in Nat /\ DOMAIN cards = 1..Len(cards) /\ \A i \in DOMAIN cards : cards[i] \in RoomCards
      /\ shown \in Seq(Statuses \cup {None}) /\ Len(shown) = Len(cards) /\ DOMAIN shown = 1..Len(cards)
      /\ \A i \in DOMAIN cards : shown[i] \in Statuses \cup {None}
    BY <1>1, SeqIs DEF TurnTypes
<1>5. cards' = [i \in DOMAIN cards |-> IF i \in {p} THEN [cards[i] EXCEPT !.status = "cancelled"] ELSE cards[i]]
    BY <1>3
<1>6. /\ cards' \in Seq(RoomCards) /\ Len(cards') = Len(cards) /\ DOMAIN cards' = DOMAIN cards
      /\ \A i \in DOMAIN cards : cards'[i].kind = cards[i].kind /\ cards'[i].payload = cards[i].payload
      /\ \A i \in DOMAIN cards : i # p => cards'[i] = cards[i]
    <2>1. "cancelled" \in Statuses
        BY DEF Statuses
    <2>2. /\ cards' \in Seq(RoomCards) /\ Len(cards') = Len(cards) /\ DOMAIN cards' = DOMAIN cards
          /\ \A i \in DOMAIN cards : cards'[i].kind = cards[i].kind /\ cards'[i].payload = cards[i].payload
          /\ \A i \in DOMAIN cards : i \notin {p} => cards'[i] = cards[i]
        <3> DEFINE R == {p}
                   q == cards'
        <3>1. q = [i \in DOMAIN cards |-> IF i \in R THEN [cards[i] EXCEPT !.status = "cancelled"] ELSE cards[i]]
            BY <1>5
        <3> HIDE DEF R, q
        <3>2. /\ q \in Seq(RoomCards) /\ Len(q) = Len(cards) /\ DOMAIN q = DOMAIN cards
              /\ \A i \in DOMAIN cards : q[i].kind = cards[i].kind /\ q[i].payload = cards[i].payload
              /\ \A i \in DOMAIN cards : i \notin R => q[i] = cards[i]
            BY <1>1, <2>1, <3>1, OnlyTheStatus
        <3> QED BY <3>2 DEF R, q
    <2> QED BY <2>2
<1>7. cards'[p].status = "cancelled" /\ shown'[p] = "cancelled" /\ \A i \in DOMAIN cards : i # p => shown'[i] = shown[i]
    <2>1. cards'[p] = [cards[p] EXCEPT !.status = "cancelled"] /\ cards[p] \in RoomCards
        BY <1>3, <1>4
    <2>2. cards'[p].status = "cancelled"
        BY <2>1 DEF RoomCards
    <2> QED BY <1>3, <1>4, <2>2
<1>8. shown' \in Seq(Statuses \cup {None}) /\ Len(shown') = Len(cards')
    <2>1. shown' = [i \in 1..Len(cards) |-> IF i = p THEN "cancelled" ELSE shown[i]]
        BY <1>3, <1>4
    <2>2. shown' \in [1..Len(cards) -> Statuses \cup {None}]
        BY <1>4, <2>1 DEF Statuses
    <2> QED BY <1>4, <1>6, <2>2, ASequence
<1>9. TurnTypes'
    BY <1>1, <1>2, <1>6, <1>8 DEF TurnTypes
<1>10. CallsAreMerged'
    BY <1>1, <1>2 DEF TurnInv, CallsAreMerged
<1>11. CallsAreSound'
    BY <1>2, <1>6 DEF TurnInv, CallsAreSound
<1>12. ShownOrToAnnounce'
    <2> SUFFICES ASSUME ~raised, NEW i \in DOMAIN cards
                 PROVE  shown'[i] = cards'[i].status \/ StillToAnnounce(i)'
        BY <1>2, <1>6 DEF ShownOrToAnnounce
    <2>1. shown[i] = cards[i].status \/ StillToAnnounce(i)
        BY <1>1 DEF TurnInv, ShownOrToAnnounce
    <2>2. \A t, j : Did(t, j)' <=> Did(t, j)
        BY <1>2 DEF Did
    <2>3. StillToAnnounce(i) => StillToAnnounce(i)'
        BY <1>1, <1>2, <2>2 DEF StillToAnnounce
    <2> QED BY <1>6, <1>7, <2>1, <2>3
<1>13. WordsAreChecked'
    <2>1. Forged' <=> Forged
        BY <1>2 DEF Forged, Evidence
    <2> QED BY <1>1, <1>2, <2>1 DEF TurnInv, WordsAreChecked
<1>14. CardsAreWanted'
    <2>1. \A kind : Born(kind)' = Born(kind) /\ Remaining(kind)' = Remaining(kind)
        BY <1>2, <1>6 DEF Born, Remaining
    <2>2. \A kind : Results(kind)' = Results(kind) /\ Wanted(kind)' = Wanted(kind)
        BY <1>2, WantedStays
    <2>3. \A kind : CardOfKind(kind) => CardOfKind(kind)'
        <3> TAKE kind
        <3> HAVE CardOfKind(kind)
        <3>1. \A i \in Born(kind) : cards'[i].payload = Wanted(kind).payload
            BY <1>6 DEF CardOfKind, Born
        <3> QED BY <1>2, <2>1, <2>2, <3>1 DEF CardOfKind
    <2> QED BY <1>1, <1>2, <2>1, <2>3 DEF TurnInv, CardsAreWanted
<1>15. CardsAreShownAsTheyAre'
    BY <1>1 DEF CardsAreShownAsTheyAre
<1>16. NoForgeryIsPosted'
    <2>1. posted' = Nothing
        BY <1>1, <1>2 DEF TurnInv, WordsAreChecked
    <2> QED BY <2>1 DEF NoForgeryIsPosted, Nothing
<1>17. TraceReadsAsItHappened'
    BY <1>1, <1>2 DEF TurnInv, TraceReadsAsItHappened
<1> QED BY <1>9, <1>10, <1>11, <1>12, <1>13, <1>14, <1>15, <1>16, <1>17 DEF TurnInv

LEMMA TurnStepKeeps == TurnInv /\ [TurnNext]_turnVars => TurnInv'
<1> SUFFICES ASSUME TurnInv, [TurnNext]_turnVars PROVE TurnInv'
    OBVIOUS
<1>1. CASE UNCHANGED turnVars
    <2>1. UNCHANGED <<profile, stage, cards, calls, subs, nested, made, happened, text, outcome, drafts, changed,
                      events, shown, posted, traced, raised>>
        BY <1>1 DEF turnVars
    <2>2. TurnTypes' /\ CallsAreMerged' /\ CallsAreSound' /\ WordsAreChecked'
        BY <2>1 DEF TurnInv, TurnTypes, CallsAreMerged, CallsAreSound, WordsAreChecked, Forged, Evidence
    <2>3. ShownOrToAnnounce'
        BY <2>1 DEF TurnInv, ShownOrToAnnounce, StillToAnnounce, Did
    <2>4. \A kind : Born(kind)' = Born(kind) /\ (CardOfKind(kind) => CardOfKind(kind)')
        BY <2>1, KindsStay DEF Born
    <2>5. CardsAreWanted'
        BY <2>1, <2>4 DEF TurnInv, CardsAreWanted
    <2>6. CardsAreShownAsTheyAre' /\ NoForgeryIsPosted' /\ TraceReadsAsItHappened'
        BY <2>1 DEF TurnInv, CardsAreShownAsTheyAre, NoForgeryIsPosted, TraceReadsAsItHappened
    <2> QED BY <2>2, <2>3, <2>5, <2>6 DEF TurnInv
<1> QED
    BY <1>1, FailsKeeps, TurnContextKeeps, OwnCallKeeps, AskStartsKeeps, SubCallKeeps, AskReturnsKeeps, EngineEndsKeeps,
       RenderKeeps, ValidateKeeps, PersistCardKeeps, PersistRestKeeps, TraceKeeps, AnnounceKeeps, PersonCancelsKeeps
    DEF TurnNext

(* What is on the cards at the end is what was asked for last. *)
LEMMA TheLastWord == TurnInv => CardsAreTheLastWord
<1> SUFFICES ASSUME TurnInv, stage = "done" PROVE CardsAreTheLastWord
    BY DEF CardsAreTheLastWord
<1>1. /\ calls = happened /\ calls \in Seq(TurnCalls) /\ drafts = <<>> /\ ~raised
      /\ \A kind \in DraftKinds : CardOfKind(kind)
    BY DEF TurnInv, TurnTypes, CallsAreMerged, CardsAreWanted
<1>2. \A tool : Results(tool) = Own(tool)
    BY <1>1 DEF Results, Own
<1>3. \A kind : Remaining(kind) = {}
    BY <1>1, EmptySeq DEF Remaining
<1>4. ASSUME NEW kind \in DraftKinds
      PROVE  Cardinality(Born(kind)) = IF Own(kind) = {} THEN 0 ELSE 1
    <2>1. (Born(kind) # {} <=> Own(kind) # {}) /\ \A i, j \in Born(kind) : i = j
        BY <1>1, <1>2, <1>3, <1>4 DEF CardOfKind
    <2>2. CASE Own(kind) = {}
        BY <2>1, <2>2, FS_EmptySet
    <2>3. CASE Own(kind) # {}
        <3>1. PICK i : i \in Born(kind)
            BY <2>1, <2>3
        <3>2. Born(kind) = {i}
            BY <2>1, <3>1
        <3> QED BY <2>3, <3>2, FS_Singleton
    <2> QED BY <2>2, <2>3
<1>5. \A kind \in DraftKinds : \A i \in Born(kind) : cards[i].payload = Wanted(kind).payload /\ Own(kind) # {}
    BY <1>1, <1>2 DEF CardOfKind
<1>6. Wanted("meal") = LunchDecides /\ Wanted("pay") = LedgerDecides /\ Wanted("change") = RecordsDecide
    BY DEF Wanted
<1>7. \A k, p : Draft(k, p).payload = p
    BY DEF Draft
<1>8. ASSUME NEW i \in Born("meal")
      PROVE  \E k \in Own("meal") : cards[i].payload = happened[k].arg /\ \A l \in Own("meal") : l <= k
    <2>1. Results("meal") # {} /\ cards[i].payload = LunchDecides.payload
        BY <1>2, <1>5, <1>6, <1>8 DEF DraftKinds
    <2>2. cards[i].payload = calls[Max(Results("meal"))].arg
        BY <1>7, <2>1 DEF LunchDecides
    <2>3. Max(Results("meal")) \in Results("meal") /\ \A k \in Results("meal") : k <= Max(Results("meal"))
        BY <1>1, <2>1, LastResult
    <2> QED BY <1>1, <1>2, <2>2, <2>3
<1>9. ASSUME NEW i \in Born("change")
      PROVE  cards[i].payload = {happened[k].arg : k \in Own("change")}
    <2>1. Results("change") # {} /\ cards[i].payload = RecordsDecide.payload
        BY <1>2, <1>5, <1>6, <1>9 DEF DraftKinds
    <2>2. cards[i].payload = {calls[k].arg : k \in Results("change")}
        BY <1>7, <2>1 DEF RecordsDecide
    <2> QED BY <1>1, <1>2, <2>2
<1>10. ASSUME NEW i \in Born("pay")
       PROVE  cards[i].payload = {p \in Pairs \X Payloads :
                \E k \in Own("pay") :
                  happened[k].arg = p /\ \A l \in Own("pay") : happened[l].arg[1] = p[1] => l <= k}
    <2>1. Results("pay") # {} /\ cards[i].payload = LedgerDecides.payload
        BY <1>2, <1>5, <1>6, <1>10 DEF DraftKinds
    <2>2. cards[i].payload = Collapsed(Results("pay"))
        BY <1>7, <2>1 DEF LedgerDecides
    <2>3. cards[i].payload =
            {happened[k].arg : k \in {k \in Own("pay") : ~ \E j \in Own("pay") : j > k /\ happened[j].arg[1] = happened[k].arg[1]}}
        BY <1>1, <1>2, <2>2 DEF Collapsed
    <2>4. \A k \in Own("pay") : happened[k].arg \in Pairs \X Payloads /\ k \in Nat
        BY <1>1, SeqIs DEF TurnInv, CallsAreSound, Own
    <2>5. \A k \in Own("pay") :
             (~ \E j \in Own("pay") : j > k /\ happened[j].arg[1] = happened[k].arg[1])
               <=> \A l \in Own("pay") : happened[l].arg[1] = happened[k].arg[1] => l <= k
        BY <2>4
    <2> HIDE DEF Own
    <2> QED BY <2>3, <2>4, <2>5
<1> QED BY <1>4, <1>8, <1>9, <1>10 DEF CardsAreTheLastWord

(* A turn ends with the cards the manager last proposed, shown as they stand, without a    *)
(* forged reply, and with a trace in the order of the calls, whatever the profile, the      *)
(* cards that were there and the calls.                                                     *)
THEOREM TurnsTellTheTruth == RoomsSpec => []TurnTellsTheTruth
<1>1. RoomsInit => TurnInv
    BY TurnInitHolds DEF RoomsInit
<1>2. TurnInv /\ [RoomsNext]_roomVars => TurnInv'
    <2> SUFFICES ASSUME TurnInv, [RoomsNext]_roomVars PROVE TurnInv'
        OBVIOUS
    <2>1. [TurnNext]_turnVars
        BY DEF RoomsNext, roomVars
    <2> QED BY <2>1, TurnStepKeeps
<1>3. TurnInv => TurnTellsTheTruth
    BY TheLastWord DEF TurnInv, TurnTellsTheTruth
<1> QED BY <1>1, <1>2, <1>3, PTL DEF RoomsSpec
-----------------------------------------------------------------------------
(***************************************************************************)
(* A suggestion is sound (module Suggest), whatever the places of a room,  *)
(* its meals and its clock rules.  It is computed, so that the invariant   *)
(* is the kind of ledger and notes it is computed from.                    *)
(***************************************************************************)
Eatings(d) == [place : DOMAIN d, age : Ages, times : Visits, price : Prices]
ClockRules(d) == [place : DOMAIN d, kind : {"busy", "order-by", "closes"}, at : GateTimes]

SuggestTypes ==
    /\ offered \in Directories
    /\ eaten \in Seq(Eatings(offered))
    /\ clocks \in Seq(ClockRules(offered))

LEMMA SuggestTypesStay == SuggestTypes /\ [Suggest!Next]_suggestVars => SuggestTypes'
<1> SUFFICES ASSUME SuggestTypes, [Suggest!Next]_suggestVars PROVE SuggestTypes'
    OBVIOUS
<1>1. CASE Suggest!Eat
    <2>1. PICK p \in DOMAIN offered, a \in Ages, n \in Visits, c \in Prices :
             eaten' = Append(eaten, [place |-> p, age |-> a, times |-> n, price |-> c])
        BY <1>1 DEF Suggest!Eat, Suggest!Places
    <2>2. [place |-> p, age |-> a, times |-> n, price |-> c] \in Eatings(offered)
        BY DEF Eatings
    <2>3. eaten' \in Seq(Eatings(offered))
        BY <2>1, <2>2, AppendProperties DEF SuggestTypes
    <2> QED BY <1>1, <2>3 DEF SuggestTypes, Suggest!Eat
<1>2. CASE Suggest!NoteRule
    <2>1. PICK p \in DOMAIN offered, k \in {"busy", "order-by", "closes"}, t \in GateTimes :
             clocks' = Append(clocks, [place |-> p, kind |-> k, at |-> t])
        BY <1>2 DEF Suggest!NoteRule, Suggest!Places
    <2>2. [place |-> p, kind |-> k, at |-> t] \in ClockRules(offered)
        BY DEF ClockRules
    <2>3. clocks' \in Seq(ClockRules(offered))
        BY <2>1, <2>2, AppendProperties DEF SuggestTypes
    <2> QED BY <1>2, <2>3 DEF SuggestTypes, Suggest!NoteRule
<1>3. CASE UNCHANGED suggestVars
    BY <1>3 DEF SuggestTypes, suggestVars
<1> QED BY <1>1, <1>2, <1>3 DEF Suggest!Next
-----------------------------------------------------------------------------
(* The meals of a ledger, by position. *)
LEMMA LedgerIs ==
    ASSUME SuggestTypes
    PROVE  /\ IsFiniteSet(DOMAIN eaten)
           /\ \A k \in DOMAIN eaten : /\ eaten[k].age \in Nat /\ eaten[k].times \in Nat \ {0} /\ eaten[k].price \in Nat
                                      /\ eaten[k].place \in DOMAIN offered
<1>1. Len(eaten) \in Nat /\ DOMAIN eaten = 1..Len(eaten) /\ \A k \in DOMAIN eaten : eaten[k] \in Eatings(offered)
    BY LenProperties, ElementOfSeq DEF SuggestTypes
<1>2. IsFiniteSet(1..Len(eaten))
    BY <1>1, FS_Interval
<1> QED BY <1>1, <1>2, SuggestAssumption DEF Eatings

LEMMA RowsAre ==
    ASSUME SuggestTypes
    PROVE  /\ IsFiniteSet(DOMAIN offered) /\ DOMAIN offered \subseteq Nat
           /\ \A p \in DOMAIN offered :
                /\ offered[p].hint \in Nat \cup {-1} /\ offered[p].walk \in Nat \cup {-1}
                /\ offered[p].untried \in BOOLEAN
    BY SuggestAssumption DEF SuggestTypes

(* A visit is one at least. *)
LEMMA VisitsAreCounted ==
    ASSUME SuggestTypes, NEW at \in SUBSET DOMAIN eaten
    PROVE  /\ Suggest!VisitsOf(at) \in Nat /\ Suggest!Spent(at) \in Nat
           /\ Suggest!VisitsOf(at) = 0 <=> at = {}
<1> DEFINE f == [k \in DOMAIN eaten |-> eaten[k].times]
           g == [k \in DOMAIN eaten |-> eaten[k].times * eaten[k].price]
<1>1. IsFiniteSet(at)
    BY LedgerIs, FS_Subset
<1>2. \A k \in at : f[k] \in Nat /\ f[k] > 0 /\ g[k] \in Nat
    <2> TAKE k \in at
    <2>1. eaten[k].times \in Nat \ {0} /\ eaten[k].price \in Nat
        BY LedgerIs
    <2>2. f[k] = eaten[k].times /\ g[k] = eaten[k].times * eaten[k].price
        OBVIOUS
    <2> HIDE DEF f, g
    <2> QED BY <2>1, <2>2
<1>3. Suggest!VisitsOf(at) = SumFunctionOnSet(f, at) /\ Suggest!Spent(at) = SumFunctionOnSet(g, at)
    BY DEF Suggest!VisitsOf, Suggest!Spent, Suggest!SumFunctionOnSet, Suggest!FoldFunctionOnSet, Suggest!MapThenFoldSet,
           SumFunctionOnSet, FoldFunctionOnSet, MapThenFoldSet
<1> HIDE DEF f, g
<1>4. SumFunctionOnSet(f, at) \in Nat /\ SumFunctionOnSet(g, at) \in Nat
    BY <1>1, <1>2, SumIsNatural
<1>5. at = {} => SumFunctionOnSet(f, at) = 0
    BY SumOfNone
<1>6. ASSUME at # {}
      PROVE  SumFunctionOnSet(f, at) # 0
    <2>1. PICK k : k \in at
        BY <1>6
    <2>2. IsFiniteSet(at \ {k})
        BY <1>1, FS_Subset
    <2>3. SumFunctionOnSet(f, at \ {k}) \in Nat
        BY <1>2, <2>2, SumIsNatural
    <2>4. SumFunctionOnSet(f, at) = f[k] + SumFunctionOnSet(f, at \ {k})
        BY <1>1, <1>2, <2>1, SumTakesOut
    <2>5. f[k] \in Nat /\ f[k] > 0
        BY <1>2, <2>1
    <2> QED BY <2>3, <2>4, <2>5
<1> QED BY <1>3, <1>4, <1>5, <1>6

LEMMA PlaceIsCounted ==
    ASSUME SuggestTypes, NEW p
    PROVE  /\ Suggest!Times(p) \in Nat /\ Suggest!OnThisWeekday(p) \in Nat
           /\ Suggest!DaysSince(p) \in Nat \cup {-1}
           /\ Suggest!Times(p) = 0 => Suggest!OnThisWeekday(p) = 0 /\ Suggest!DaysSince(p) = -1
           /\ Suggest!Counted(p) # {} => Suggest!Times(p) # 0
<1> DEFINE today == {k \in Suggest!Counted(p) : eaten[k].age % 7 = 0}
           ages == {eaten[k].age : k \in Suggest!Counted(p)}
<1>1. Suggest!Counted(p) \in SUBSET DOMAIN eaten /\ today \in SUBSET DOMAIN eaten
    BY DEF Suggest!Counted
<1>2. Suggest!Times(p) \in Nat /\ (Suggest!Times(p) = 0 <=> Suggest!Counted(p) = {})
    BY <1>1, VisitsAreCounted DEF Suggest!Times
<1>3. Suggest!OnThisWeekday(p) \in Nat /\ (today = {} => Suggest!OnThisWeekday(p) = 0)
    BY <1>1, VisitsAreCounted DEF Suggest!OnThisWeekday
<1>4. Suggest!Counted(p) = {} => today = {}
    OBVIOUS
<1>5. Suggest!DaysSince(p) \in Nat \cup {-1} /\ (Suggest!Counted(p) = {} => Suggest!DaysSince(p) = -1)
    <2>1. CASE Suggest!Counted(p) = {}
        BY <2>1 DEF Suggest!DaysSince, Suggest!Unknown
    <2>2. CASE Suggest!Counted(p) # {}
        <3>1. ages \in SUBSET Nat /\ ages # {}
            BY <1>1, <2>2, LedgerIs
        <3>2. Suggest!DaysSince(p) = Suggest!Min(ages)
            BY <2>2 DEF Suggest!DaysSince
        <3> HIDE DEF ages
        <3>3. \E n \in ages : \A m \in ages : n <= m
            BY <3>1, LeastIsThere
        <3>4. Suggest!Min(ages) \in ages
            BY <3>3 DEF Suggest!Min
        <3> QED BY <2>2, <3>1, <3>2, <3>4
    <2> QED BY <2>1, <2>2
<1> HIDE DEF today
<1> QED BY <1>2, <1>3, <1>4, <1>5

(* What a usual has on a place nobody has been to. *)
LEMMA UsualsScore ==
    ASSUME SuggestTypes, NEW p \in DOMAIN offered, NEW n \in DOMAIN offered,
           Suggest!Times(p) >= 3, Suggest!DaysSince(p) >= 10, ~offered[p].untried, Suggest!Times(n) = 0
    PROVE  ~(Suggest!Score(n) + 5 > Suggest!Score(p))
<1>1. Suggest!Times(p) \in Nat /\ Suggest!OnThisWeekday(p) \in Nat /\ Suggest!DaysSince(p) \in Nat \cup {-1}
    BY PlaceIsCounted
<1>2. Suggest!OnThisWeekday(n) = 0 /\ Suggest!DaysSince(n) = -1
    BY PlaceIsCounted
<1>3. Suggest!Familiarity(n) = 0
    BY <1>2 DEF Suggest!Familiarity, Suggest!Least
<1>4. Suggest!Familiarity(p) \in Int /\ Suggest!Familiarity(p) >= 18
    <2> HIDE DEF Suggest!Times, Suggest!OnThisWeekday
    <2>1. Suggest!Least(Suggest!Times(p), 8) \in Nat /\ Suggest!Least(Suggest!Times(p), 8) >= 3
        BY <1>1 DEF Suggest!Least
    <2> QED BY <1>1, <2>1 DEF Suggest!Familiarity
<1>5. Suggest!Most(0, 30 - 3 * Suggest!DaysSince(p)) = 0 /\ Suggest!DaysSince(p) # -1
    BY <1>1 DEF Suggest!Most
<1>6. Suggest!Score(p) = Suggest!Familiarity(p)
    BY <1>4, <1>5 DEF Suggest!Score, Suggest!Unknown
<1>7. Suggest!Score(n) \in {8, 8 - 25}
    BY <1>2, <1>3 DEF Suggest!Score, Suggest!Unknown
<1> QED BY <1>4, <1>6, <1>7

LEMMA UsualsAlwaysLead == SuggestTypes => Suggest!UsualsLead
<1> SUFFICES ASSUME SuggestTypes, NEW delivery \in BOOLEAN, NEW p \in Suggest!Pool(delivery), NEW n \in Suggest!Pool(delivery),
                    Suggest!Times(p) >= 3 /\ Suggest!DaysSince(p) >= 10 /\ ~offered[p].untried,
                    Suggest!Times(n) = 0 /\ Suggest!Verdict(p).status # "too_late"
             PROVE  ~Suggest!MayPrecede(n, p)
    BY DEF Suggest!UsualsLead
<1>1. p \in DOMAIN offered /\ n \in DOMAIN offered
    BY DEF Suggest!Pool, Suggest!Places
<1>2. ~(Suggest!Score(n) + 5 > Suggest!Score(p))
    BY <1>1, UsualsScore
<1>3. ~Suggest!Sinks(p)
    BY DEF Suggest!Sinks
<1> QED BY <1>2, <1>3 DEF Suggest!MayPrecede
-----------------------------------------------------------------------------
(* u is what is said of p when the first notes have been looked at. *)
VerdictTo(p, u, N) ==
    u = [k \in 0..N |-> IF k = 0 THEN Suggest!NothingSaid ELSE Suggest!Noted(p, u[k - 1], k)]

LEMMA VerdictExists ==
    ASSUME NEW p, NEW N \in Nat
    PROVE  \E u : VerdictTo(p, u, N)
<1> DEFINE Good == {n \in Nat : \E u : VerdictTo(p, u, n)}
<1>1. 0 \in Good
    <2>1. VerdictTo(p, [k \in 0..0 |-> Suggest!NothingSaid], 0)
        BY DEF VerdictTo
    <2> QED BY <2>1
<1>2. ASSUME NEW n \in Nat, n \in Good
      PROVE  n + 1 \in Good
    <2>1. PICK u : VerdictTo(p, u, n)
        BY <1>2
    <2> DEFINE more == [k \in 0..(n + 1) |-> IF k = n + 1 THEN Suggest!Noted(p, u[n], k) ELSE u[k]]
    <2>2. \A k \in 0..(n + 1) :
             more[k] = IF k = 0 THEN Suggest!NothingSaid ELSE Suggest!Noted(p, more[k - 1], k)
        <3> TAKE k \in 0..(n + 1)
        <3>1. CASE k = n + 1
            <4>1. more[k - 1] = u[n] /\ k # 0 /\ k - 1 = n
                BY <1>2, <3>1
            <4>2. more[k] = Suggest!Noted(p, u[n], k)
                BY <3>1
            <4> QED BY <4>1, <4>2
        <3>2. CASE k # n + 1
            <4>1. k \in 0..n /\ more[k] = u[k]
                BY <1>2, <3>2
            <4>2. k # 0 => more[k - 1] = u[k - 1]
                BY <1>2, <4>1
            <4>3. u[k] = IF k = 0 THEN Suggest!NothingSaid ELSE Suggest!Noted(p, u[k - 1], k)
                BY <2>1, <4>1 DEF VerdictTo
            <4> HIDE DEF more
            <4> QED BY <4>1, <4>2, <4>3
        <3> QED BY <3>1, <3>2
    <2>3. more = [k \in 0..(n + 1) |-> more[k]]
        OBVIOUS
    <2> HIDE DEF more
    <2>4. VerdictTo(p, more, n + 1)
        BY <2>2, <2>3 DEF VerdictTo
    <2> QED BY <2>4
<1>3. Nat \subseteq Good
    <2> HIDE DEF Good
    <2> QED BY <1>1, <1>2, EveryNumber
<1> QED BY <1>3

LEMMA VerdictEnds ==
    ASSUME NEW p, Len(clocks) \in Nat
    PROVE  \E u : VerdictTo(p, u, Len(clocks)) /\ Suggest!Verdict(p) = u[Len(clocks)]
<1> DEFINE P(u) == u = [k \in 0..Len(clocks) |->
                          IF k = 0 THEN Suggest!NothingSaid ELSE Suggest!Noted(p, u[k - 1], k)]
           it == CHOOSE u : P(u)
<1>1. PICK u : VerdictTo(p, u, Len(clocks))
    BY VerdictExists
<1>2. P(it)
    <2>1. P(u)
        BY <1>1 DEF VerdictTo
    <2> HIDE DEF P
    <2> QED BY <2>1
<1>3. Suggest!Verdict(p) = it[Len(clocks)]
    BY DEF Suggest!Verdict
<1>4. VerdictTo(p, it, Len(clocks))
    BY <1>2 DEF VerdictTo
<1> QED BY <1>3, <1>4

StatusOf(p, k) == Suggest!GateStatus(p, clocks[k])

(* v is right about the first n notes. *)
SaidRight(p, v, n) ==
    /\ v.status \in {"ok", "act_now", "too_late"}
    /\ (\E k \in Suggest!RulesOf(p) : k <= n /\ StatusOf(p, k) = "too_late") <=> v.status = "too_late"
    /\ v.status = "ok" => ~ \E k \in Suggest!RulesOf(p) : k <= n /\ StatusOf(p, k) = "act_now"
    /\ v.status # "ok" => \E k \in Suggest!RulesOf(p) :
          /\ clocks[k].kind = v.kind /\ StatusOf(p, k) = v.status /\ Suggest!Minutes(p, clocks[k]) = v.left
          /\ k <= n

LEMMA StatusIs ==
    ASSUME NEW p, NEW k
    PROVE  StatusOf(p, k) \in {"ok", "act_now", "too_late"}
    BY DEF StatusOf, Suggest!GateStatus

LEMMA NotedRight ==
    ASSUME NEW p, NEW v, NEW n \in Nat, SaidRight(p, v, n), Suggest!RulesOf(p) \subseteq Nat
    PROVE  SaidRight(p, Suggest!Noted(p, v, n + 1), n + 1)
<1> DEFINE w == Suggest!Noted(p, v, n + 1)
           it == [status |-> StatusOf(p, n + 1), kind |-> clocks[n + 1].kind, left |-> Suggest!Minutes(p, clocks[n + 1])]
<1>1. \A k \in Suggest!RulesOf(p) : k <= n + 1 <=> k <= n \/ k = n + 1
    OBVIOUS
<1>2. StatusOf(p, n + 1) \in {"ok", "act_now", "too_late"}
    BY StatusIs
<1>3. CASE n + 1 \in Suggest!RulesOf(p) /\ Suggest!Worse(v.status, StatusOf(p, n + 1))
    <2>1. w = it
        BY <1>3 DEF Suggest!Noted, StatusOf
    <2>2. w.status = StatusOf(p, n + 1) /\ w.kind = clocks[n + 1].kind /\ w.left = Suggest!Minutes(p, clocks[n + 1])
        BY <2>1
    <2> HIDE DEF w, it
    <2>3. StatusOf(p, n + 1) = "too_late" \/ (StatusOf(p, n + 1) = "act_now" /\ v.status = "ok")
        BY <1>3 DEF Suggest!Worse
    <2>4. SaidRight(p, w, n + 1)
        BY <1>1, <1>2, <1>3, <2>2, <2>3 DEF SaidRight
    <2> QED BY <2>4 DEF w
<1>4. CASE ~(n + 1 \in Suggest!RulesOf(p) /\ Suggest!Worse(v.status, StatusOf(p, n + 1)))
    <2>1. w = v
        BY <1>4 DEF Suggest!Noted, StatusOf
    <2> HIDE DEF w, it
    <2>2. n + 1 \in Suggest!RulesOf(p) =>
            StatusOf(p, n + 1) # "too_late" /\ (StatusOf(p, n + 1) = "act_now" => v.status # "ok")
        BY <1>4 DEF Suggest!Worse
    <2>3. SaidRight(p, v, n + 1)
        BY <1>1, <1>2, <2>2 DEF SaidRight
    <2> QED BY <2>1, <2>3 DEF w
<1> QED BY <1>3, <1>4

LEMMA VerdictIsRight ==
    ASSUME SuggestTypes, NEW p
    PROVE  SaidRight(p, Suggest!Verdict(p), Len(clocks)) /\ \A k \in Suggest!RulesOf(p) : k <= Len(clocks)
<1>1. Len(clocks) \in Nat /\ DOMAIN clocks = 1..Len(clocks)
    BY LenProperties DEF SuggestTypes
<1>2. PICK u : VerdictTo(p, u, Len(clocks)) /\ Suggest!Verdict(p) = u[Len(clocks)]
    BY <1>1, VerdictEnds
<1>3. Suggest!RulesOf(p) \subseteq Nat /\ \A k \in Suggest!RulesOf(p) : k <= Len(clocks) /\ k > 0
    BY <1>1 DEF Suggest!RulesOf
<1> DEFINE Right == {n \in Nat : n <= Len(clocks) => SaidRight(p, u[n], n)}
<1>4. 0 \in Right
    <2>1. u[0] = Suggest!NothingSaid
        BY <1>1, <1>2 DEF VerdictTo
    <2>2. ~ \E k \in Suggest!RulesOf(p) : k <= 0
        BY <1>3
    <2>3. SaidRight(p, Suggest!NothingSaid, 0)
        BY <2>2 DEF SaidRight, Suggest!NothingSaid
    <2> QED BY <2>1, <2>3
<1>5. ASSUME NEW n \in Nat, n \in Right
      PROVE  n + 1 \in Right
    <2>1. ASSUME n + 1 <= Len(clocks)
          PROVE  SaidRight(p, u[n + 1], n + 1)
        <3>1. n + 1 \in 0..Len(clocks) /\ n + 1 # 0 /\ n + 1 - 1 = n /\ n <= Len(clocks)
            BY <1>1, <2>1
        <3>2. u[n + 1] = Suggest!Noted(p, u[n], n + 1)
            BY <1>2, <3>1 DEF VerdictTo
        <3>3. SaidRight(p, u[n], n)
            BY <1>5, <3>1
        <3> QED BY <1>3, <3>2, <3>3, NotedRight
    <2> QED BY <2>1
<1>6. Nat \subseteq Right
    <2> HIDE DEF Right
    <2> QED BY <1>4, <1>5, EveryNumber
<1> QED BY <1>1, <1>2, <1>3, <1>6

LEMMA ReasonIsAlwaysTheWorst == SuggestTypes => Suggest!TheReasonIsTheWorstRule
<1> SUFFICES ASSUME SuggestTypes, NEW p \in Suggest!Places
             PROVE  LET v == Suggest!Verdict(p)
                        met == {Suggest!GateStatus(p, clocks[k]) : k \in Suggest!RulesOf(p)}
                    IN  /\ v.status = IF "too_late" \in met THEN "too_late" ELSE IF "act_now" \in met THEN "act_now" ELSE "ok"
                        /\ v.status # "ok" => \E k \in Suggest!RulesOf(p) :
                             /\ clocks[k].kind = v.kind
                             /\ Suggest!GateStatus(p, clocks[k]) = v.status /\ Suggest!Minutes(p, clocks[k]) = v.left
    BY DEF Suggest!TheReasonIsTheWorstRule
<1> DEFINE v == Suggest!Verdict(p)
<1>1. SaidRight(p, v, Len(clocks)) /\ \A k \in Suggest!RulesOf(p) : k <= Len(clocks)
    BY VerdictIsRight
<1> HIDE DEF v
<1>2. (\E k \in Suggest!RulesOf(p) : StatusOf(p, k) = "too_late") <=> v.status = "too_late"
    BY <1>1 DEF SaidRight
<1>3. v.status = "act_now" => \E k \in Suggest!RulesOf(p) : StatusOf(p, k) = "act_now"
    BY <1>1 DEF SaidRight
<1>4. v.status = "ok" => ~ \E k \in Suggest!RulesOf(p) : StatusOf(p, k) = "act_now"
    BY <1>1 DEF SaidRight
<1>5. v.status \in {"ok", "act_now", "too_late"}
    BY <1>1 DEF SaidRight
<1>6. v.status # "ok" => \E k \in Suggest!RulesOf(p) :
        clocks[k].kind = v.kind /\ StatusOf(p, k) = v.status /\ Suggest!Minutes(p, clocks[k]) = v.left
    BY <1>1 DEF SaidRight
<1> QED BY <1>2, <1>3, <1>4, <1>5, <1>6 DEF StatusOf, v

LEMMA OutOfReachIsAlwaysLast == SuggestTypes => Suggest!OutOfReachIsLast
<1> SUFFICES ASSUME SuggestTypes, NEW a, NEW b, Suggest!Shut(a), Suggest!MayPrecede(a, b)
             PROVE  Suggest!Shut(b)
    BY DEF Suggest!OutOfReachIsLast
<1>1. \A p : Suggest!Shut(p) <=> Suggest!Sinks(p)
    <2> TAKE p
    <2>1. SaidRight(p, Suggest!Verdict(p), Len(clocks)) /\ \A k \in Suggest!RulesOf(p) : k <= Len(clocks)
        BY VerdictIsRight
    <2> QED BY <2>1 DEF Suggest!Shut, Suggest!Sinks, SaidRight, StatusOf
<1> QED BY <1>1 DEF Suggest!MayPrecede
-----------------------------------------------------------------------------
(* The module counts as this one does. *)
LEMMA CountedAlike == \A S : Suggest!Cardinality(S) = Cardinality(S)
    BY DEF Suggest!Cardinality, Cardinality

LEMMA PricesAre ==
    ASSUME SuggestTypes
    PROVE  /\ IsFiniteSet(Suggest!Known)
           /\ \A p \in Suggest!Known : Suggest!PerHead(p) \in Nat
<1>1. IsFiniteSet(Suggest!Known)
    BY RowsAre, FS_Subset DEF Suggest!Known, Suggest!Places
<1>2. ASSUME NEW p \in Suggest!Known
      PROVE  Suggest!PerHead(p) \in Nat
    <2>1. p \in DOMAIN offered /\ Suggest!PerHead(p) # -1
        BY DEF Suggest!Known, Suggest!Places, Suggest!Unknown
    <2>2. CASE Suggest!Counted(p) = {}
        BY <2>1, <2>2, RowsAre DEF Suggest!PerHead
    <2>3. CASE Suggest!Counted(p) # {}
        <3>1. Suggest!Times(p) \in Nat /\ Suggest!Times(p) # 0
            BY <2>3, PlaceIsCounted
        <3>2. Suggest!Counted(p) \in SUBSET DOMAIN eaten
            BY DEF Suggest!Counted
        <3>3. Suggest!Spent(Suggest!Counted(p)) \in Nat
            BY <3>2, VisitsAreCounted
        <3>4. Suggest!PerHead(p) = Suggest!Spent(Suggest!Counted(p)) \div Suggest!Times(p)
            BY <2>3 DEF Suggest!PerHead
        <3>5. \A s \in Nat, t \in Nat : t # 0 => s \div t \in Nat
            OBVIOUS
        <3> QED BY <3>1, <3>3, <3>4, <3>5
    <2> QED BY <2>2, <2>3
<1> QED BY <1>1, <1>2

RankOf(p) == Cardinality(Suggest!Below(p))
Ahead(q, p) == Suggest!PerHead(q) < Suggest!PerHead(p) \/ (Suggest!PerHead(q) = Suggest!PerHead(p) /\ q < p)

(* By price, and by id where prices are the same, the places stand in one line. *)
LEMMA PlacesAreALine ==
    ASSUME SuggestTypes, NEW p \in Suggest!Known, NEW q \in Suggest!Known
    PROVE  /\ p = q \/ Ahead(p, q) \/ Ahead(q, p)
           /\ ~Ahead(p, p) /\ p \in Nat
           /\ \A r \in Suggest!Known : Ahead(r, p) /\ Ahead(p, q) => Ahead(r, q)
<1>1. \A r \in Suggest!Known : r \in Nat /\ Suggest!PerHead(r) \in Nat
    BY RowsAre, PricesAre DEF Suggest!Known, Suggest!Places
<1> QED BY <1>1 DEF Ahead

LEMMA RanksFollowTheLine ==
    ASSUME SuggestTypes
    PROVE  /\ \A p \in Suggest!Known : RankOf(p) \in 0..(Cardinality(Suggest!Known) - 1)
           /\ \A p, q \in Suggest!Known : Ahead(p, q) => RankOf(p) < RankOf(q)
<1> DEFINE K == Suggest!Known
<1>1. IsFiniteSet(K) /\ Cardinality(K) \in Nat
    BY PricesAre, FS_CardinalityType
<1>2. \A p : Suggest!Below(p) = {q \in K : Ahead(q, p)}
    BY DEF Suggest!Below, Ahead
<1>3. ASSUME NEW p \in K
      PROVE  RankOf(p) \in Nat /\ RankOf(p) < Cardinality(K) /\ IsFiniteSet(Suggest!Below(p))
    <2>1. Suggest!Below(p) \in SUBSET K /\ p \notin Suggest!Below(p)
        BY <1>2, PlacesAreALine
    <2> HIDE DEF K
    <2>2. IsFiniteSet(Suggest!Below(p)) /\ Cardinality(Suggest!Below(p)) <= Cardinality(K)
          /\ Cardinality(Suggest!Below(p)) # Cardinality(K)
        BY <1>1, <1>3, <2>1, FS_Subset
    <2>3. Cardinality(Suggest!Below(p)) \in Nat
        BY <2>2, FS_CardinalityType
    <2> QED BY <1>1, <2>2, <2>3 DEF RankOf
<1>4. ASSUME NEW p \in K, NEW q \in K, Ahead(p, q)
      PROVE  RankOf(p) < RankOf(q)
    <2>1. \A r \in K : Ahead(r, p) => Ahead(r, q)
        BY <1>4, PlacesAreALine
    <2>2. ~Ahead(p, p)
        BY PlacesAreALine
    <2>3. Suggest!Below(p) \in SUBSET Suggest!Below(q) /\ p \in Suggest!Below(q) /\ p \notin Suggest!Below(p)
        BY <1>2, <1>4, <2>1, <2>2
    <2> HIDE DEF K
    <2>4. RankOf(p) <= RankOf(q) /\ RankOf(p) # RankOf(q)
        BY <1>3, <2>3, FS_Subset DEF RankOf
    <2>5. RankOf(p) \in Nat /\ RankOf(q) \in Nat
        BY <1>3
    <2> QED BY <2>4, <2>5
<1> HIDE DEF K
<1> QED BY <1>1, <1>3, <1>4 DEF K

(* Every number below theirs is the rank of one. *)
LEMMA EveryRankIsTaken ==
    ASSUME SuggestTypes, NEW n \in 0..(Cardinality(Suggest!Known) - 1)
    PROVE  \E p \in Suggest!Known : RankOf(p) = n /\ Suggest!PriceAt(n) = Suggest!PerHead(p)
<1> DEFINE N == Cardinality(Suggest!Known)
           f == [p \in Suggest!Known |-> RankOf(p)]
<1>1. IsFiniteSet(Suggest!Known) /\ N \in Nat
    BY PricesAre, FS_CardinalityType
<1>2. \A p \in Suggest!Known : RankOf(p) \in 0..(N - 1)
    BY RanksFollowTheLine
<1>3. \A p, q \in Suggest!Known : RankOf(p) = RankOf(q) => p = q
    <2> SUFFICES ASSUME NEW p \in Suggest!Known, NEW q \in Suggest!Known, RankOf(p) = RankOf(q) PROVE p = q
        OBVIOUS
    <2>1. ~(RankOf(p) < RankOf(q)) /\ ~(RankOf(q) < RankOf(p))
        BY <1>2
    <2> QED BY <2>1, RanksFollowTheLine, PlacesAreALine
<1>4. f \in Injection(Suggest!Known, 0..(N - 1)) /\ \A p \in Suggest!Known : f[p] = RankOf(p)
    BY <1>2, <1>3 DEF Injection, IsInjective
<1>5. n \in 0..(N - 1)
    OBVIOUS
<1> HIDE DEF f, N
<1>6. IsFiniteSet(0..(N - 1)) /\ Cardinality(0..(N - 1)) = N
    BY <1>1, FS_Interval
<1>7. f \in Surjection(Suggest!Known, 0..(N - 1))
    BY <1>4, <1>6, FS_Injection DEF N
<1>8. \E p \in Suggest!Known : RankOf(p) = n
    BY <1>4, <1>5, <1>7 DEF Surjection
<1> DEFINE it == CHOOSE p \in Suggest!Known : Cardinality(Suggest!Below(p)) = n
<1>9. it \in Suggest!Known /\ RankOf(it) = n
    BY <1>8 DEF RankOf
<1>10. Suggest!PriceAt(n) = Suggest!PerHead(it)
    BY CountedAlike DEF Suggest!PriceAt
<1> QED BY <1>9, <1>10

LEMMA HigherRankIsNoCheaper ==
    ASSUME SuggestTypes, NEW p \in Suggest!Known, NEW q \in Suggest!Known, RankOf(p) < RankOf(q)
    PROVE  Suggest!PerHead(p) <= Suggest!PerHead(q) /\ p # q
<1>1. RankOf(p) \in Nat /\ RankOf(q) \in Nat
    BY RanksFollowTheLine
<1>2. ~Ahead(q, p) /\ p # q
    BY <1>1, RanksFollowTheLine
<1>3. Suggest!PerHead(p) \in Nat /\ Suggest!PerHead(q) \in Nat
    BY PricesAre
<1> QED BY <1>2, <1>3 DEF Ahead

BandIs(p) ==
    IF Suggest!PerHead(p) <= Suggest!Threshold(1) THEN "low"
    ELSE IF Suggest!PerHead(p) <= Suggest!Threshold(2) THEN "middle" ELSE "high"

LEMMA BandOfKnown ==
    ASSUME NEW p \in Suggest!Known, Cardinality(Suggest!Known) \in Nat
    PROVE  Suggest!Band(p) = IF Cardinality(Suggest!Known) < 3 THEN "none" ELSE BandIs(p)
<1>1. Suggest!PerHead(p) # Suggest!Unknown
    BY DEF Suggest!Known
<1>2. Suggest!Cardinality(Suggest!Known) = Cardinality(Suggest!Known)
    BY CountedAlike
<1>3. CASE Cardinality(Suggest!Known) < 3
    BY <1>1, <1>2, <1>3 DEF Suggest!Band
<1>4. CASE ~(Cardinality(Suggest!Known) < 3)
    <2>1. Cardinality(Suggest!Known) >= 3
        BY <1>4
    <2> QED BY <1>1, <1>2, <1>4, <2>1 DEF Suggest!Band, BandIs
<1> QED BY <1>3, <1>4

(* The two boundaries are prices of places, the third and two thirds up the line. *)
LEMMA BoundariesAre ==
    ASSUME SuggestTypes, Cardinality(Suggest!Known) >= 3
    PROVE  \E p, q, r \in Suggest!Known :
             /\ Suggest!Threshold(1) = Suggest!PerHead(p) /\ Suggest!Threshold(2) = Suggest!PerHead(q)
             /\ RankOf(p) < RankOf(q) /\ RankOf(q) < RankOf(r)
<1> DEFINE N == Cardinality(Suggest!Known)
           one == (1 * (N - 1)) \div 3
           two == (2 * (N - 1)) \div 3
<1>1. N \in Nat
    BY PricesAre, FS_CardinalityType
<1>2. one \in 0..(N - 1) /\ two \in 0..(N - 1) /\ N - 1 \in 0..(N - 1) /\ one < two /\ two < N - 1
    BY <1>1
<1>3. Suggest!Threshold(1) = Suggest!PriceAt(one) /\ Suggest!Threshold(2) = Suggest!PriceAt(two)
    BY CountedAlike DEF Suggest!Threshold
<1> HIDE DEF one, two
<1>4. PICK p \in Suggest!Known : RankOf(p) = one /\ Suggest!PriceAt(one) = Suggest!PerHead(p)
    BY <1>2, EveryRankIsTaken
<1>5. PICK q \in Suggest!Known : RankOf(q) = two /\ Suggest!PriceAt(two) = Suggest!PerHead(q)
    BY <1>2, EveryRankIsTaken
<1>6. PICK r \in Suggest!Known : RankOf(r) = N - 1
    BY <1>2, EveryRankIsTaken
<1> QED BY <1>2, <1>3, <1>4, <1>5, <1>6

PricesDiffer == \A p, q \in Suggest!Known : Suggest!PerHead(p) = Suggest!PerHead(q) => p = q

(* As many prices as places. *)
LEMMA PricesDifferByCount ==
    ASSUME SuggestTypes,
           Cardinality({Suggest!PerHead(p) : p \in Suggest!Known}) = Cardinality(Suggest!Known)
    PROVE  PricesDiffer
<1> DEFINE f == [p \in Suggest!Known |-> Suggest!PerHead(p)]
           T == {Suggest!PerHead(p) : p \in Suggest!Known}
<1>1. f \in Surjection(Suggest!Known, T)
    BY DEF Surjection
<1>2. IsFiniteSet(Suggest!Known)
    BY PricesAre
<1>3. \A p \in Suggest!Known : f[p] = Suggest!PerHead(p)
    OBVIOUS
<1>4. Cardinality(T) = Cardinality(Suggest!Known)
    OBVIOUS
<1> HIDE DEF f, T
<1>5. f \in Injection(Suggest!Known, T)
    BY <1>1, <1>2, <1>4, FS_Surjection
<1> QED BY <1>3, <1>5 DEF Injection, IsInjective, PricesDiffer

LEMMA BandsAlwaysFollow == SuggestTypes => Suggest!BandsFollowPrices
<1> SUFFICES ASSUME SuggestTypes PROVE Suggest!BandsFollowPrices
    OBVIOUS
<1> DEFINE N == Cardinality(Suggest!Known)
<1>1. N \in Nat /\ \A p \in Suggest!Known : Suggest!PerHead(p) \in Nat
    BY PricesAre, FS_CardinalityType
<1>2. \A p \in Suggest!Known : Suggest!Band(p) = IF N < 3 THEN "none" ELSE BandIs(p)
    BY <1>1, BandOfKnown
<1>3. ASSUME N >= 3
      PROVE  \E p, q, r \in Suggest!Known :
               /\ Suggest!Threshold(1) = Suggest!PerHead(p) /\ Suggest!Threshold(2) = Suggest!PerHead(q)
               /\ RankOf(p) < RankOf(q) /\ RankOf(q) < RankOf(r)
    BY <1>3, BoundariesAre
<1> HIDE DEF N
<1>4. ASSUME NEW p \in Suggest!Known, NEW q \in Suggest!Known, Suggest!PerHead(p) <= Suggest!PerHead(q)
      PROVE  Suggest!Rank[Suggest!Band(p)] <= Suggest!Rank[Suggest!Band(q)]
    <2>1. Suggest!Rank["none"] = 0 /\ Suggest!Rank["low"] = 1 /\ Suggest!Rank["middle"] = 2 /\ Suggest!Rank["high"] = 3
        BY DEF Suggest!Rank
    <2>2. CASE N < 3
        BY <1>2, <2>1, <2>2
    <2>3. CASE ~(N < 3)
        <3>1. N >= 3
            BY <1>1, <2>3
        <3>2. Suggest!Threshold(1) \in Nat /\ Suggest!Threshold(2) \in Nat
            BY <1>1, <1>3, <3>1
        <3>3. Suggest!PerHead(p) \in Nat /\ Suggest!PerHead(q) \in Nat
            BY <1>1
        <3>4. Suggest!Rank[BandIs(p)] <= Suggest!Rank[BandIs(q)]
            BY <1>4, <2>1, <3>2, <3>3 DEF BandIs
        <3> QED BY <1>2, <2>3, <3>4
    <2> QED BY <2>2, <2>3
<1>5. ASSUME PricesDiffer, N >= 3
      PROVE  {Suggest!Band(p) : p \in Suggest!Known} = {"low", "middle", "high"}
    <2>1. PICK p \in Suggest!Known, q \in Suggest!Known, r \in Suggest!Known :
             /\ Suggest!Threshold(1) = Suggest!PerHead(p) /\ Suggest!Threshold(2) = Suggest!PerHead(q)
             /\ RankOf(p) < RankOf(q) /\ RankOf(q) < RankOf(r)
        BY <1>3, <1>5
    <2>2. /\ Suggest!PerHead(p) <= Suggest!PerHead(q) /\ Suggest!PerHead(p) # Suggest!PerHead(q)
          /\ Suggest!PerHead(q) <= Suggest!PerHead(r) /\ Suggest!PerHead(q) # Suggest!PerHead(r)
        BY <1>5, <2>1, HigherRankIsNoCheaper DEF PricesDiffer
    <2>3. Suggest!PerHead(p) \in Nat /\ Suggest!PerHead(q) \in Nat /\ Suggest!PerHead(r) \in Nat
        BY <1>1
    <2>4. ~(N < 3)
        BY <1>1, <1>5
    <2>5. Suggest!Band(p) = "low" /\ Suggest!Band(q) = "middle" /\ Suggest!Band(r) = "high"
        BY <1>2, <2>1, <2>2, <2>3, <2>4 DEF BandIs
    <2>6. \A x \in Suggest!Known : Suggest!Band(x) \in {"low", "middle", "high"}
        BY <1>2, <2>4 DEF BandIs
    <2> QED BY <2>5, <2>6
<1>6. \A S : Suggest!Cardinality(S) = Cardinality(S)
    BY CountedAlike
<1>7. Suggest!Cardinality({Suggest!PerHead(p) : p \in Suggest!Known}) = Suggest!Cardinality(Suggest!Known)
        /\ Suggest!Cardinality(Suggest!Known) >= 3
        => PricesDiffer /\ N >= 3
    BY <1>6, PricesDifferByCount DEF N
<1> QED BY <1>4, <1>5, <1>7 DEF Suggest!BandsFollowPrices
-----------------------------------------------------------------------------
(* A suggestion puts the usuals first and what is out of reach last, gives the rule that    *)
(* decided as its reason, and has bands that follow the prices, whatever the directory, the *)
(* meals, the rules and the time of day.                                                    *)
THEOREM SuggestionsAreSound == RoomsSpec => []SuggestionIsSound
<1>1. RoomsInit => SuggestTypes
    <2> SUFFICES ASSUME RoomsInit PROVE SuggestTypes
        OBVIOUS
    <2>1. Suggest!Init
        BY DEF RoomsInit
    <2> QED BY <2>1, EmptySeq DEF Suggest!Init, SuggestTypes
<1>2. SuggestTypes /\ [RoomsNext]_roomVars => SuggestTypes'
    <2> SUFFICES ASSUME SuggestTypes, [RoomsNext]_roomVars PROVE SuggestTypes'
        OBVIOUS
    <2>1. [Suggest!Next]_suggestVars
        BY DEF RoomsNext, roomVars
    <2> QED BY <2>1, SuggestTypesStay
<1>3. SuggestTypes => SuggestionIsSound
    BY UsualsAlwaysLead, OutOfReachIsAlwaysLast, ReasonIsAlwaysTheWorst, BandsAlwaysFollow
    DEF SuggestionIsSound, Suggest!SuggestionIsSound
<1> QED BY <1>1, <1>2, <1>3, PTL DEF RoomsSpec
==============================================================================
