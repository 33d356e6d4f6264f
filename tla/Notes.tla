------------------------------- MODULE Notes -------------------------------
(***************************************************************************)
(* The places of one room, the notes filed under their slugs, and the memo *)
(* cards that propose notes.  A slug is a place's identity in the notes,   *)
(* in the cards and in the seed files; a rename moves the first two and    *)
(* leaves the old slug on the place for the third.                         *)
(*                                                                         *)
(* Every handler holds the agent lock and is one transaction; so is each   *)
(* seeding, which runs in a process of its own.  A note is its subject and *)
(* its text (its id hashes them), with the place it was filed under while  *)
(* that slug was live, 0 otherwise: history, for the properties.           *)
(***************************************************************************)
EXTENDS Naturals, Sequences

CONSTANTS
    SlugNames,     \* slugs that names and requests fold to
    NoteTexts,     \* what a note can say
    MaxPlaces,     \* bound on the places created
    MaxMemos       \* bound on the memo cards created

VARIABLES
    places,     \* slug, former_slugs and active, by id
    everHeld,   \* every slug a place has had, with its id (history)
    notes,      \* the room's notes
    memos       \* memo cards, in order

noteVars == <<places, everHeld, notes, memos>>

Ids == DOMAIN places
LiveAt(s) == {p \in Ids : places[p].slug = s}
FormerAt(s) == {p \in Ids : s \in places[p].formers}

\* Where a slug leads: to the place that has it, else to one that had it.
Answering(s) == IF LiveAt(s) # {} THEN LiveAt(s) ELSE FormerAt(s)

\* A note's document.  Its id hashes the subject and the text, so that an identical fact
\* is the same fact.
Filed(s, t) == [subject |-> s, text |-> t,
                about |-> IF LiveAt(s) = {} THEN 0 ELSE CHOOSE p \in LiveAt(s) : TRUE]
Held(ns, s, t) == \E n \in ns : n.subject = s /\ n.text = t

\* append, which first puts the text on one line.
Noted(ns, s, t) == IF Held(ns, s, t) THEN ns ELSE ns \cup {Filed(s, t)}

NotesInit ==
    /\ places = <<>> /\ everHeld = {} /\ notes = {} /\ memos = <<>>
-----------------------------------------------------------------------------

Insert(s) ==
    /\ Len(places) < MaxPlaces
    /\ places' = Append(places, [slug |-> s, formers |-> {}, active |-> TRUE])
    /\ everHeld' = everHeld \cup {<<s, Len(places) + 1>>}

\* The panel's route, and a confirmed places_create: the live slugs are checked.
CreatePlace(s) ==
    /\ LiveAt(s) = {}
    /\ Insert(s)
    /\ UNCHANGED <<notes, memos>>

\* The routes' edit_place, or hiding, on the one flag the notes depend on; the slug is not
\* EDITABLE.
SetActive(p, flag) ==
    /\ places[p].active # flag
    /\ places' = [places EXCEPT ![p].active = flag]
    /\ UNCHANGED <<everHeld, notes, memos>>

Taken(p, new) == \E q \in (LiveAt(new) \cup FormerAt(new)) : q # p

\* Mutant of Formers: only the last slug is remembered.
FormersLast(place, new) == {place.slug}

Formers(place, new) == (place.formers \ {new, place.slug}) \cup {place.slug}

\* Mutant of NotesMoved: the duplicate is left where it was.
NotesMovedOrLeft(old, new) ==
    {[n EXCEPT !.subject = IF @ = old /\ ~Held(notes, new, n.text) THEN new ELSE @] : n \in notes}

\* retarget_subject: a moved fact that lands on one the room holds is dropped.
NotesMoved(old, new) ==
    {n \in notes : n.subject # old}
      \cup {[n EXCEPT !.subject = new] :
              n \in {m \in notes : m.subject = old /\ ~Held(notes, new, m.text)}}

\* Only pending cards: a committed one is a record of what was written.
MemosMoved(old, new) ==
    [i \in DOMAIN memos |->
        IF memos[i].status = "pending" /\ memos[i].subject = old
        THEN [memos[i] EXCEPT !.subject = new] ELSE memos[i]]

RenameSlug(p, new) ==
    /\ new # places[p].slug
    /\ ~Taken(p, new)
    /\ places' = [places EXCEPT ![p].slug = new, ![p].formers = Formers(places[p], new)]
    /\ everHeld' = everHeld \cup {<<new, p>>}
    /\ notes' = NotesMoved(places[p].slug, new)
    /\ memos' = MemosMoved(places[p].slug, new)

\* A row of a seed file: the place that answers to its slug is refreshed.
SeedPlace(s) ==
    /\ IF Answering(s) = {} THEN Insert(s)
       ELSE /\ \E p \in Answering(s) : places' = [places EXCEPT ![p].active = TRUE]
            /\ UNCHANGED everHeld
    /\ UNCHANGED <<notes, memos>>

\* A line of the seed's notes: its subject becomes the place's current slug.
SeedNote(s, t) ==
    /\ \E c \in IF Answering(s) = {} THEN {s} ELSE {places[p].slug : p \in Answering(s)} :
         notes' = Noted(notes, c, t)
    /\ UNCHANGED <<places, everHeld, memos>>
-----------------------------------------------------------------------------

\* The panel.  A rewrite or a deletion carries the etag of all the notes, so it
\* is made by someone who has loaded them as they are.  Adding needs no etag;
\* the subject must lead somewhere, live or former.
PanelAdds(s, t) ==
    /\ Answering(s) # {}
    /\ notes' = Noted(notes, s, t)
    /\ UNCHANGED <<places, everHeld, memos>>

PanelRewrites(n, t) ==
    /\ ~Held(notes, n.subject, t)
    /\ notes' = (notes \ {n}) \cup {[n EXCEPT !.text = t]}
    /\ UNCHANGED <<places, everHeld, memos>>

PanelDeletes(n) ==
    /\ notes' = notes \ {n}
    /\ UNCHANGED <<places, everHeld, memos>>
-----------------------------------------------------------------------------

Propose(action, p, t) ==
    /\ Len(memos) < MaxMemos
    /\ places[p].active
    /\ memos' = Append(memos, [action |-> action, subject |-> places[p].slug, text |-> t,
                               status |-> "pending"])
    /\ UNCHANGED <<places, everHeld, notes>>

Remember(p, t) == Propose("add", p, t)

Forget(p, t) == Held(notes, places[p].slug, t) /\ Propose("remove", p, t)

\* commit looks only for "committed".
Committable(c) == memos[c].status # "committed"

CommitMemo(c) ==
    /\ Committable(c)
    /\ LET m == memos[c] IN
         notes' = IF m.action = "add" THEN Noted(notes, m.subject, m.text)
                  ELSE {n \in notes : ~(n.subject = m.subject /\ n.text = m.text)}
    /\ memos' = [memos EXCEPT ![c].status = "committed"]
    /\ UNCHANGED <<places, everHeld>>

CancelMemo(c) ==
    /\ memos[c].status = "pending"
    /\ memos' = [memos EXCEPT ![c].status = "cancelled"]
    /\ UNCHANGED <<places, everHeld, notes>>

NotesNext ==
    \/ \E s \in SlugNames : CreatePlace(s) \/ SeedPlace(s)
    \/ \E p \in Ids, flag \in BOOLEAN : SetActive(p, flag)
    \/ \E p \in Ids, s \in SlugNames : RenameSlug(p, s)
    \/ \E s \in SlugNames, t \in NoteTexts : SeedNote(s, t) \/ PanelAdds(s, t)
    \/ \E n \in notes, t \in NoteTexts : PanelRewrites(n, t)
    \/ \E n \in notes : PanelDeletes(n)
    \/ \E p \in Ids, t \in NoteTexts : Remember(p, t) \/ Forget(p, t)
    \/ \E c \in DOMAIN memos : CommitMemo(c) \/ CancelMemo(c)

NotesSpec == NotesInit /\ [][NotesNext]_noteVars
-----------------------------------------------------------------------------

\* Type invariant of the places, the notes and the cards.
NotesTypeOK ==
    /\ \A p \in Ids : places[p].slug \in SlugNames /\ places[p].formers \subseteq SlugNames \ {places[p].slug}
    /\ \A n \in notes : n.subject \in SlugNames /\ n.text \in NoteTexts /\ n.about \in 0..Len(places)
    /\ \A c \in DOMAIN memos : memos[c].status \in {"pending", "committed", "cancelled"}

\* Through every rename, a note filed under a place's slug stays under that
\* place's slug, and a card waiting for its answer names a place that exists;
\* one left behind is the orphan memos.retarget_subject describes.
RenameLeavesNothingBehind ==
    /\ \A n \in notes : n.about # 0 => places[n.about].slug = n.subject
    /\ \A c \in DOMAIN memos : memos[c].status = "pending" => LiveAt(memos[c].subject) # {}

\* A place answers to every slug it ever had, through any chain of renames and
\* back, or the next seeding makes a second place of it (seed_places._by_slug).
EveryNameIsRemembered ==
    \A h \in everHeld : places[h[2]].slug = h[1] \/ h[1] \in places[h[2]].formers

NotesFollowTheirPlace == EveryNameIsRemembered /\ RenameLeavesNothingBehind

\* "two rows must never both answer to one slug" (places.rename_slug).  No run has it: it
\* does not hold, CreatePlace looks only at the live slugs.
SlugsAnswerOnce ==
    \A p, q \in Ids : p # q =>
        ({places[p].slug} \cup places[p].formers) \cap ({places[q].slug} \cup places[q].formers) = {}
=============================================================================
