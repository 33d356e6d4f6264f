------------------------------- MODULE Migration ------------------------------
(***************************************************************************)
(* Moving a room's places and notes out of the legacy table and file into  *)
(* the store, and back (app/migrate_storage.py, step "storage-a"), as the  *)
(* deploy runs it (.github/workflows/deploy.yml): the backend is stopped,  *)
(* the import commits, the file is renamed, the new backend is started.    *)
(* Either script may die between two of these, and a rename may fail.      *)
(*                                                                         *)
(* One room.  A place is its version, 0 when there is none.  The previous  *)
(* release is not in the repository: it reads and writes the table and the *)
(* file.  The ledger's own step is in Journal.                             *)
(***************************************************************************)
EXTENDS Integers, Sequences, SequencesExt, FiniteSets

CONSTANTS
    Facts,      \* what a note may say
    Places,     \* place ids
    DiesAt,     \* the stages of a deploy at which its script may die
    MaxEdits,   \* bound on what the room writes
    MaxMoves    \* bound on deploys, undos and restarts

VARIABLES
    table,      \* the legacy places
    file,       \* observations.md: its facts in order, or Gone
    stored,     \* [places, notes] of the store
    mark,       \* whether the "storage-a" document is there
    server,     \* "old", "new" or "off"
    stage,      \* where the deploy or the undo is
    image,      \* what the stopped container runs
    truth,      \* history: [places, notes] as the room left them
    edits, moves

migrationVars == <<table, file, stored, mark, server, stage, image, truth, edits, moves>>

Gone == <<"gone">>
NoPlaces == [p \in Places |-> 0]
Empty == [places |-> NoPlaces, notes |-> <<>>]

Lines == IF file = Gone THEN <<>> ELSE file

\* The elements of s at the places in I, in their order.
Sifted(s, I) ==
    LET upTo[n \in 0..Len(s)] ==
          IF n = 0 THEN <<>> ELSE IF n \in I THEN Append(upTo[n - 1], s[n]) ELSE upTo[n - 1]
    IN  upTo[Len(s)]
Only(s, kept) == Sifted(s, {i \in DOMAIN s : s[i] \in kept})

\* list(dict.fromkeys(facts)): an identical line is one fact, where it first stood.
Unique(facts) == Sifted(facts, {i \in DOMAIN facts : \A j \in 1..(i - 1) : facts[j] # facts[i]})

Init ==
    /\ stored = Empty /\ mark = FALSE /\ stage = "none" /\ image = "old" /\ edits = 0 /\ moves = 0
    /\ \/ /\ server = "old"
          /\ table \in [Places -> {0, 1}]
          /\ file \in {Gone, <<>>} \cup [1..2 -> Facts]
       \/ server = "new" /\ table = NoPlaces /\ file = Gone      \* a new installation
    /\ truth = [places |-> table, notes |-> Unique(Lines)]
-----------------------------------------------------------------------------

(* The room writes. *)

Edited(data) ==
    {[data EXCEPT !.places[p] = @ + 1] : p \in Places}
    \cup {[data EXCEPT !.notes = Append(@, f)] : f \in Facts}
    \cup {[data EXCEPT !.notes = Only(@, Facts \ {f})] : f \in Facts}

MayEdit == edits < MaxEdits /\ edits' = edits + 1

\* The same edit to what the room believes is there.
Follows(before, after) ==
    truth' = [places |-> [p \in Places |-> truth.places[p] + after.places[p] - before.places[p]],
              notes  |-> Unique(Only(truth.notes, ToSet(after.notes))
                                \o Only(after.notes, Facts \ ToSet(before.notes)))]

EditOld ==
    /\ server = "old" /\ MayEdit
    /\ \E after \in Edited([places |-> table, notes |-> Lines]) :
         /\ table' = after.places
         /\ file' = after.notes
         /\ Follows([places |-> table, notes |-> Lines], after)
    /\ UNCHANGED <<stored, mark, server, stage, image, moves>>

\* observations.append adds no fact twice.
EditNew ==
    /\ server = "new" /\ MayEdit
    /\ \E after \in Edited(stored) :
         /\ stored' = [after EXCEPT !.notes = Unique(@)]
         /\ Follows(stored, stored')
    /\ UNCHANGED <<table, file, mark, server, stage, image, moves>>
-----------------------------------------------------------------------------

(* The deploy. *)

Moving == moves < MaxMoves /\ moves' = moves + 1

Stop ==
    /\ server # "off" /\ stage = "none" /\ Moving
    /\ server' = "off" /\ image' = server /\ stage' = "stopped"
    /\ UNCHANGED <<table, file, stored, mark, truth, edits>>

Imported == [places |-> [p \in Places |-> IF stored.places[p] = 0 THEN table[p] ELSE stored.places[p]],
             notes  |-> Unique(stored.notes \o Lines)]

\* Nothing commits unless every legacy row equals its record, and the notes the file.
Verified == /\ \A p \in Places : table[p] # 0 => Imported.places[p] = table[p]
            /\ Imported.notes = Unique(Lines)

\* A step done before is skipped.
Apply ==
    /\ stage = "stopped"
    /\ \/ /\ mark
          /\ stage' = "applied"
          /\ UNCHANGED <<stored, mark, server>>
       \/ /\ ~mark /\ Verified
          /\ stored' = Imported /\ mark' = TRUE
          /\ stage' = "retiring"
          /\ UNCHANGED server
       \/ /\ ~mark /\ ~Verified                    \* refused: the same container again
          /\ server' = image /\ stage' = "none"
          /\ UNCHANGED <<stored, mark>>
    /\ UNCHANGED <<table, file, image, truth, edits, moves>>

\* _retire_files, after the commit; an OSError is only printed.
Retire ==
    /\ stage = "retiring" /\ stage' = "applied"
    /\ file' \in {Gone, file}
    /\ UNCHANGED <<table, stored, mark, server, image, truth, edits, moves>>

\* Mutant of Pending: the app starts on whatever is there.
PendingNever == FALSE

\* pending: legacy data and no marker.
Pending == ~mark /\ (table # NoPlaces \/ file # Gone)

Up ==
    /\ stage = "applied" /\ ~Pending
    /\ server' = "new" /\ stage' = "none"
    /\ UNCHANGED <<table, file, stored, mark, image, truth, edits, moves>>

\* A plain "up -d --build", without the migration.
UpByHand ==
    /\ server # "off" /\ stage = "none" /\ Moving /\ ~Pending
    /\ server' = "new"
    /\ UNCHANGED <<table, file, stored, mark, stage, image, truth, edits>>

\* The trap of the script starts the stopped container again.
ScriptDies ==
    /\ stage \in DiesAt
    /\ server' = image /\ stage' = "none"
    /\ UNCHANGED <<table, file, stored, mark, image, truth, edits, moves>>
-----------------------------------------------------------------------------

(* The way back: stop the backend, --undo, deploy the previous commit. *)

\* First the files of the rooms whose notes are in the store.
UndoFiles ==
    /\ server = "new" /\ stage = "none" /\ mark /\ Moving
    /\ server' = "off" /\ stage' = "undoing"
    /\ file' = IF stored.notes # <<>> THEN stored.notes ELSE file
    /\ UNCHANGED <<table, stored, mark, image, truth, edits>>

\* Mutant of Restored: only the places the table does not have.
RestoredMissing == [p \in Places |-> IF table[p] = 0 THEN stored.places[p] ELSE table[p]]

\* Every place of the store, edits and new places included, over the legacy rows.
Restored == [p \in Places |-> IF stored.places[p] # 0 THEN stored.places[p] ELSE table[p]]

\* Then the table, and the documents and the marker go, in one transaction.
UndoCommits ==
    /\ stage = "undoing"
    /\ table' = Restored /\ stored' = Empty /\ mark' = FALSE
    /\ server' = "old" /\ stage' = "none"
    /\ UNCHANGED <<file, image, truth, edits, moves>>

\* The undo fails after the files: the store is intact, and the new backend goes on.
UndoFails ==
    /\ stage = "undoing"
    /\ server' = "new" /\ stage' = "none"
    /\ UNCHANGED <<table, file, stored, mark, image, truth, edits, moves>>

Next ==
    \/ EditOld \/ EditNew
    \/ Stop \/ Apply \/ Retire \/ Up \/ UpByHand \/ ScriptDies
    \/ UndoFiles \/ UndoCommits \/ UndoFails
Spec == Init /\ [][Next]_migrationVars
-----------------------------------------------------------------------------

Served == IF server = "old" THEN [places |-> table, notes |-> Unique(Lines)] ELSE stored

\* Whichever release serves, whatever the deploys and undos on the way to it, the room has
\* every place as it was last edited and every note it wrote, in order.
NothingIsLost ==
    server # "off" =>
      /\ Served.places = truth.places
      /\ Only(Served.notes, ToSet(truth.notes)) = truth.notes

\* "A failure here costs nothing -- the app no longer reads the file either way"
\* (_retire_files): a note the room removed does not come back.
\* No run has it: it does not hold when a rename failed and the move is undone later.
NothingComesBack == server # "off" => ToSet(Served.notes) \subseteq ToSet(truth.notes)
=============================================================================
