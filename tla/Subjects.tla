-------------------------------- MODULE Subjects -------------------------------
(***************************************************************************)
(* What a free text means among the room's places and people: the place    *)
(* index of app/places.py, the links of meals to places (backfill_links,   *)
(* and the guess on a meal's card, app/packs/lunch.py), the subject of a   *)
(* note (_memo_subject of app/packs/places.py) and how the knowledge panel *)
(* reads it back (SubjectIndex of app/knowledge.py).                       *)
(*                                                                         *)
(* A name is a sequence of words, as in Members, whose look-up this uses.  *)
(* A place answers to its name and its aliases; its slug is the name it    *)
(* was created with, without tones.                                        *)
(***************************************************************************)
EXTENDS Integers, Sequences, SequencesExt, FiniteSets

CONSTANTS
    Texts,      \* the names places have and the room writes
    Plain, Honorifics,
    Venues,     \* plain words in front of a place's name
    Rooms,      \* the people of a room: sequences of [names, active]
    MaxPlaces, MaxMeals, MaxNotes

VARIABLES
    people,     \* fixed for a room
    places,     \* by id: [names, active], the slug's words first
    meals,      \* by id: [dish, place]
    notes,      \* [kind, key, meant]: the subject, and (history) who or what was meant
    passed      \* history: for each meal, the other places that bore its very name when it was last linked

subjectVars == <<people, places, meals, notes, passed>>

Nobody == 0
N == INSTANCE Members WITH members <- people, Names <- Texts, MaxMembers <- 0, MaxCalls <- 0,
                           unknown <- {}, made <- 0, holes <- {}, accepted <- 0

Init == people \in Rooms /\ places = <<>> /\ meals = <<>> /\ notes = {} /\ passed = <<>>
-----------------------------------------------------------------------------

(* The place index. *)

Live == {p \in DOMAIN places : places[p].active}
NamesOf(p) == ToSet(places[p].names)
WordsOf(p) == UNION {ToSet(N!Folded(n)) : n \in NamesOf(p)}
Bearing(folded) == {p \in Live : \E n \in NamesOf(p) : N!Folded(n) = folded}

WithoutVenue(text) ==
    LET words == N!Folded(text)
        from == CHOOSE k \in DOMAIN words :
                  /\ \A j \in 1..(k - 1) : words[j] \in Venues
                  /\ k = Len(words) \/ words[k] \notin Venues
    IN  SubSeq(words, from, Len(words))

\* _PlaceIndex.lookup: the places a text could mean, by the first tier that has any.
Exact(text) == {p \in Live : text \in NamesOf(p)}
Sure(text) == N!FirstNonEmpty(<<Exact(text), Bearing(N!Folded(text)), Bearing(WithoutVenue(text))>>)
Loose(text) == {p \in Live : ToSet(WithoutVenue(text)) \subseteq WordsOf(p)}

\* Whatever asks for it, resolve or resolve_one: one place is an answer, several are none.
Meant(text) == IF Sure(text) # {} THEN Sure(text) ELSE Loose(text)
IsOne(S) == \E x \in S : S = {x}
Only(S) == IF IsOne(S) THEN CHOOSE x \in S : TRUE ELSE Nobody
-----------------------------------------------------------------------------

AddPlace ==
    /\ Len(places) < MaxPlaces
    /\ \E n \in Texts :
         /\ \A p \in DOMAIN places : N!Folded(places[p].names[1]) # N!Folded(n)
         /\ places' = Append(places, [names |-> <<N!Folded(n), n>>, active |-> TRUE])
    /\ UNCHANGED <<people, meals, notes, passed>>

\* edit_place: another alias, hidden, shown again.
EditPlace ==
    /\ \E p \in DOMAIN places :
         \/ \E n \in Texts : places' = [places EXCEPT ![p].names = <<@[1], @[2], n>>]
         \/ places' = [places EXCEPT ![p].active = ~@]
    /\ UNCHANGED <<people, meals, notes, passed>>

Others(text, p) == Exact(text) \ {p}

\* Mutant of SureOf: the tier does not matter, one place is enough.
SureOfOne(text) == Only(Meant(text))

\* One place, and by a tier narrow enough to write on.
SureOf(text) == Only(Sure(text))

\* A meal's card links it when the guess is sure.
RecordMeal ==
    /\ Len(meals) < MaxMeals
    /\ \E d \in Texts :
         /\ meals' = Append(meals, [dish |-> d, place |-> SureOf(d)])
         /\ passed' = Append(passed, Others(d, SureOf(d)))
    /\ UNCHANGED <<people, places, notes>>

\* Mutant of Unlinked: every meal is looked at again.
UnlinkedAll(k) == TRUE

\* Meals that carry a place are never revisited.
Unlinked(k) == meals[k].place = Nobody

BackfillLinks ==
    /\ meals' = [k \in DOMAIN meals |-> IF Unlinked(k) THEN [meals[k] EXCEPT !.place = SureOf(meals[k].dish)]
                                        ELSE meals[k]]
    /\ passed' = [k \in DOMAIN meals |-> IF Unlinked(k) THEN Others(meals[k].dish, meals'[k].place) ELSE passed[k]]
    /\ UNCHANGED <<people, places, notes>>
-----------------------------------------------------------------------------

\* Mutant of PlaceMeant: a sure place is enough, whoever has that name.
PlaceMeantFirst(text) == Only(Sure(text))

\* The subject of a note: a place nobody in the room could be confused with ...
PlaceMeant(text) == IF N!Lookup(text) = {} /\ IsOne(Meant(text)) THEN Only(Sure(text)) ELSE Nobody

\* ... or the one member of that name, when no one place could be meant.
MemberMeant(text) == IF ~IsOne(Meant(text)) THEN Only(N!Lookup(text)) ELSE Nobody

\* Members are filed under the display name, here the second of their names.
DisplayName(i) == people[i].names[2]

Remember ==
    /\ Cardinality(notes) < MaxNotes
    /\ \E t \in Texts :
         \/ /\ PlaceMeant(t) # Nobody
            /\ notes' = notes \cup {[kind |-> "place", key |-> places[PlaceMeant(t)].names[1],
                                     meant |-> PlaceMeant(t), text |-> t, rivals |-> N!Lookup(t)]}
         \/ /\ PlaceMeant(t) = Nobody /\ MemberMeant(t) # Nobody
            /\ notes' = notes \cup {[kind |-> "member", key |-> N!Folded(DisplayName(MemberMeant(t))),
                                     meant |-> MemberMeant(t), text |-> t, rivals |-> Meant(t)]}
    /\ UNCHANGED <<people, places, meals, passed>>

Next == AddPlace \/ EditPlace \/ RecordMeal \/ BackfillLinks \/ Remember
Spec == Init /\ [][Next]_subjectVars
-----------------------------------------------------------------------------

\* SubjectIndex: the first member, removed ones too, any of whose names folds to the key.
ReadBack(note) ==
    LET of == {i \in DOMAIN people : \E n \in ToSet(people[i].names) : N!Folded(n) = note.key}
    IN  CHOOSE i \in of : \A k \in of : i <= k

\* A link, once made, stays; and a meal is linked, then or later, because the dish is the
\* place's name -- with and without tones, with and without a word for "restaurant" -- and
\* the exact name of no other place the room shows.
LinksAreSure ==
    [][\A k \in DOMAIN meals' :
         LET before == IF k \in DOMAIN meals THEN meals[k].place ELSE Nobody
             after == meals'[k].place
         IN  /\ before # Nobody => after = before
             /\ after # before =>
                  /\ passed'[k] = {}
                  /\ \E n \in NamesOf(after) :
                       N!Folded(n) \in {N!Folded(meals'[k].dish), WithoutVenue(meals'[k].dish)}]_subjectVars

\* A note is filed under a place only if the text could not mean a person.
PlacesAreNotPeople == \A n \in notes : n.kind = "place" => n.rivals = {}

\* "Across namespaces, ambiguity is never guessed" (_memo_subject).  No run has it: it does
\* not hold, the one person of a name is taken when several places could be meant by it.
AmbiguityIsNeverGuessed == \A n \in notes : n.rivals = {}

\* "both must resolve to one person" (SubjectIndex): a note about a member is read as theirs.
\* No run has it: it does not hold, an earlier member may fold to the same key.
NotesFindTheirMember == \A n \in notes : n.kind = "member" => ReadBack(n) = n.meant
=============================================================================
