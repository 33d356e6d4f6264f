-------------------------------- MODULE Journal --------------------------------
(***************************************************************************)
(* The ledger journal of one room: backend/ledger_core/journal.py (the     *)
(* mirror), view.py (the fold every balance is read through), importer.py  *)
(* and the ledger step of app/migrate_storage.py.                          *)
(*                                                                         *)
(* Every write goes to the tables; a flush listener appends the matching   *)
(* events in the same transaction.  The previous release writes the tables *)
(* only, and the operator may deploy either one on the same database, so   *)
(* the journal can fall behind.  The migration brings it level, and the    *)
(* journaled release refuses to start until it is.                         *)
(*                                                                         *)
(* Left out: the columns that never change (one amount stands for them),   *)
(* dates and names, settlements, which are recorded once and never change, *)
(* and the refusal of deletes, which no caller attempts.                   *)
(***************************************************************************)
EXTENDS Integers, Sequences, FiniteSets, SequencesExt

CONSTANTS
  Amounts,      \* amounts a row may be recorded with
  Links,        \* what a meal's place or a payment's meal may be set to
  MaxRows,      \* bounds: rows per table,
  MaxChanges,   \* changes in one transaction,
  MaxEvents     \* and events in the journal

ASSUME BoundsAssumption == {MaxRows, MaxChanges, MaxEvents} \subseteq Nat
ASSUME AmountsAssumption == 0 \notin Amounts

Tables == {"meal", "payment"}

VARIABLES
  release,      \* the deployed image: "tables_only" or "journaled"
  serving,      \* whether the backend is up
  tables,       \* the committed rows
  journal,      \* the committed events
  tx            \* the open session, or Closed

vars == <<release, serving, tables, journal, tx>>

Row(amount, link) == [amount |-> amount, voided |-> FALSE, link |-> link]
Rows   == [amount : Amounts, voided : BOOLEAN, link : Links]
Events ==
  [event : {"recorded"}, table : Tables, id : Nat, row : Rows]
    \cup [event : {"void"}, table : Tables, id : Nat, voided : BOOLEAN]
    \cup [event : {"link"}, table : Tables, id : Nat, link : Links]

WrongAmount == 0
Empty  == [t \in Tables |-> <<>>]
Closed == [open |-> FALSE]

(* The rows and events a session would commit now, and the rows as its     *)
(* last flush wrote them.                                                  *)
Session(rows, events) ==
  [open |-> TRUE, rows |-> rows, flushed |-> rows, events |-> events, changes |-> 0]

----------------------------------------------------------------------------
(* Reading the journal. *)

(* One of the first n events recorded that row. *)
Recorded(events, n, t, id) ==
  \E i \in 1..n : events[i].event = "recorded" /\ events[i].table = t /\ events[i].id = id

(* fold does not raise. *)
Readable(events) ==
  \A i \in DOMAIN events :
    events[i].event # "recorded" => Recorded(events, i - 1, events[i].table, events[i].id)

Key(ev) == <<ev.table, ev.id>>

(* Mutant: a later full record does not replace the first. *)
ApplyFirstRecord(view, ev) ==
  CASE ev.event = "recorded" ->
         [k \in DOMAIN view \cup {Key(ev)} |-> IF k \in DOMAIN view THEN view[k] ELSE ev.row]
    [] ev.event = "void"     -> [view EXCEPT ![Key(ev)].voided = ev.voided]
    [] ev.event = "link"     -> [view EXCEPT ![Key(ev)].link = ev.link]

(* _apply: a record replaces whatever was held under its id. *)
Apply(view, ev) ==
  CASE ev.event = "recorded" ->
         [k \in DOMAIN view \cup {Key(ev)} |-> IF k = Key(ev) THEN ev.row ELSE view[k]]
    [] ev.event = "void"     -> [view EXCEPT ![Key(ev)].voided = ev.voided]
    [] ev.event = "link"     -> [view EXCEPT ![Key(ev)].link = ev.link]

(* What is held after each of the events, and after the last. *)
HeldAfter(events) ==
  LET held[n \in 0..Len(events)] == IF n = 0 THEN <<>> ELSE Apply(held[n - 1], events[n])
  IN  held
Fold(events) == HeldAfter(events)[Len(events)]

(* The same records, from the tables. *)
Keys(rows)    == UNION {{<<t, id>> : id \in DOMAIN rows[t]} : t \in Tables}
Records(rows) == [k \in Keys(rows) |-> rows[k[1]][k[2]]]

(* No difference that parity would report. *)
Level(rows, events) == Readable(events) /\ Fold(events) = Records(rows)

----------------------------------------------------------------------------
(* Writing. *)

Begin ==
  /\ serving /\ ~tx.open
  /\ tx' = Session(tables, journal)
  /\ UNCHANGED <<release, serving, tables, journal>>

Room == tx.open /\ tx.changes < MaxChanges

Record(t, amount, link) ==
  /\ Room
  /\ Len(tx.rows[t]) < MaxRows
  /\ tx' = [tx EXCEPT !.rows[t] = Append(@, Row(amount, link)), !.changes = @ + 1]
  /\ UNCHANGED <<release, serving, tables, journal>>

(* A column of a row the session holds is set. *)
Change(t, id, row) ==
  /\ Room
  /\ row # tx.rows[t][id]
  /\ tx' = [tx EXCEPT !.rows[t][id] = row, !.changes = @ + 1]
  /\ UNCHANGED <<release, serving, tables, journal>>

Void(t, id)       == Change(t, id, [tx.rows[t][id] EXCEPT !.voided = TRUE])
Link(t, id, link) == Change(t, id, [tx.rows[t][id] EXCEPT !.link = link])

(* A writer that rewrites a recorded amount, as none should: the release   *)
(* that journals refuses its flush.                                        *)
Rewrite(t, id) ==
  /\ release = "journaled"
  /\ id \in DOMAIN tx.flushed[t]
  /\ Change(t, id, [tx.rows[t][id] EXCEPT !.amount = WrongAmount])

----------------------------------------------------------------------------
(* The mirror. *)

(* The rows added since the last flush, and the columns of older rows that *)
(* are not what it wrote.                                                  *)
Fresh(s) == Keys(s.rows) \ Keys(s.flushed)
Touched(s) ==
  {c \in Keys(s.flushed) \X {"amount", "voided", "link"} :
     s.rows[c[1][1]][c[1][2]][c[2]] # s.flushed[c[1][1]][c[1][2]][c[2]]}

RecordEvent(rows, t, id) ==
  [event |-> "recorded", table |-> t, id |-> id, row |-> rows[t][id]]

ChangeEvent(rows, t, id, column) ==
  IF column = "voided"
  THEN [event |-> "void", table |-> t, id |-> id, voided |-> rows[t][id].voided]
  ELSE [event |-> "link", table |-> t, id |-> id, link |-> rows[t][id].link]

(* The columns of a mirrored row that may change after it is recorded. *)
Mutable == {"voided", "link"}

(* Mutant: any column may change. *)
RefusedNothing(s) == FALSE

(* LedgerImmutable is raised, and the flush writes nothing. *)
Refused(s) == \E c \in Touched(s) : c[2] \notin Mutable

Inserts(s) == SetToSeq({RecordEvent(s.rows, k[1], k[2]) : k \in Fresh(s)})
Updates(s) == SetToSeq({ChangeEvent(s.rows, c[1][1], c[1][2], c[2]) : c \in Touched(s)})

(* Mutant: only new rows are mirrored. *)
MirroredInserts(s) == Inserts(s)

(* _mirror: the new rows as they now are, then what changed of the others. *)
Mirrored(s) == Inserts(s) \o Updates(s)

(* A flush appends the events; the previous release has no mirror. *)
Flushed(s) ==
  [s EXCEPT !.events = @ \o (IF release = "journaled" THEN Mirrored(s) ELSE <<>>),
            !.flushed = s.rows]

MayFlush == tx.open /\ ~(release = "journaled" /\ Refused(tx))

Flush ==
  /\ MayFlush
  /\ tx.rows # tx.flushed
  /\ tx' = Flushed(tx)
  /\ UNCHANGED <<release, serving, tables, journal>>

(* A commit flushes first; rows and events become visible together. *)
Commit ==
  /\ MayFlush
  /\ Len(Flushed(tx).events) <= MaxEvents
  /\ tables' = tx.rows
  /\ journal' = Flushed(tx).events
  /\ tx' = Closed
  /\ UNCHANGED <<release, serving>>

(* An exception, LedgerImmutable among them. *)
Rollback ==
  /\ tx.open
  /\ tx' = Closed
  /\ UNCHANGED <<release, serving, tables, journal>>

----------------------------------------------------------------------------
(* Operating. *)

(* A crash, or the stop before a deploy: what was not committed is gone. *)
Stop ==
  /\ serving
  /\ serving' = FALSE
  /\ tx' = Closed
  /\ UNCHANGED <<release, tables, journal>>

Deploy(r) ==
  /\ ~serving
  /\ release' = r
  /\ UNCHANGED <<serving, tables, journal, tx>>

(* The rows the journal lacks or holds differently. *)
Stale(rows, events) ==
  LET held == Fold(events) IN
  {k \in Keys(rows) : k \notin DOMAIN held \/ held[k] # Records(rows)[k]}

(* import_room (an empty journal) and reconcile: one full record for every *)
(* stale row.                                                              *)
BroughtLevel(rows, events) ==
  events \o SetToSeq({RecordEvent(rows, k[1], k[2]) : k \in Stale(rows, events)})

(* migrate_storage --apply, run by the deploy: commits only if the journal *)
(* then equals the tables.                                                 *)
Migrate ==
  /\ ~serving /\ release = "journaled"
  /\ Readable(journal)
  /\ Level(tables, BroughtLevel(tables, journal))
  /\ journal' = BroughtLevel(tables, journal)
  /\ Len(journal') <= MaxEvents
  /\ UNCHANGED <<release, serving, tables, tx>>

(* Mutant: the journaled release starts whatever the journal holds. *)
StartUnchecked ==
  /\ ~serving
  /\ serving' = TRUE
  /\ UNCHANGED <<release, tables, journal, tx>>

(* The lifespan hook: pending() refuses while the two disagree. *)
Start ==
  /\ ~serving
  /\ release = "journaled" => Level(tables, journal)
  /\ serving' = TRUE
  /\ UNCHANGED <<release, tables, journal, tx>>

Init ==
  /\ release = "tables_only" /\ serving = TRUE
  /\ tables = Empty /\ journal = <<>>
  /\ tx = Closed

Next ==
  \/ Begin \/ Flush \/ Commit \/ Rollback
  \/ \E t \in Tables, amount \in Amounts, link \in Links : tx.open /\ Record(t, amount, link)
  \/ \E t \in Tables : tx.open /\ \E id \in DOMAIN tx.rows[t] :
       \/ Void(t, id)
       \/ \E link \in Links : Link(t, id, link)
       \/ Rewrite(t, id)
  \/ Stop \/ Start \/ Migrate
  \/ \E r \in {"tables_only", "journaled"} : Deploy(r)

Spec == Init /\ [][Next]_vars

----------------------------------------------------------------------------
TypeOK ==
  /\ release \in {"tables_only", "journaled"} /\ serving \in BOOLEAN
  /\ \A t \in Tables : tables[t] \in Seq(Rows)
  /\ journal \in Seq(Events)
  /\ tx.open =>
       /\ \A t \in Tables : tx.rows[t] \in Seq(Rows \cup {[r EXCEPT !.amount = WrongAmount] : r \in Rows})
       /\ tx.events \in Seq(Events)
       /\ Keys(tx.flushed) \subseteq Keys(tx.rows)

(* While the journaled release serves, the journal every balance is read   *)
(* from holds exactly the rows of the tables, whatever releases served     *)
(* before and however their transactions ended; and a session that has     *)
(* flushed reads its own writes.                                           *)
ServedJournalIsLevel ==
  serving /\ release = "journaled" =>
    /\ Level(tables, journal)
    /\ tx.open /\ tx.rows = tx.flushed => Level(tx.rows, tx.events)

(* The migration can always bring the journal level: it is never unreadable *)
(* and never holds a row the tables lack, so a deploy is never refused.    *)
MigrationNeverRefused ==
  Readable(journal) /\ Level(tables, BroughtLevel(tables, journal))

(* What a reader sees: the journal's fold when the journaled release       *)
(* serves, the tables otherwise.                                           *)
FoldedRows ==
  LET held == Fold(journal) IN
  [t \in Tables |-> [id \in {k[2] : k \in {j \in DOMAIN held : j[1] = t}} |-> held[<<t, id>>]]]
ReadRows == IF serving /\ release = "journaled" THEN FoldedRows ELSE tables

Ledger == INSTANCE LedgerOfRecord WITH rows <- ReadRows, Tables <- Tables

(* Whichever release serves, its readers see one append-only ledger.       *)
ReadersSeeOneLedger == Ledger!Spec
=============================================================================
