-------------------------------- MODULE MCRooms --------------------------------
(***************************************************************************)
(* What a room is made of, for TLC: its journal, a turn of its bot and the *)
(* sub-agents of the turn, its notes and its memory, its people, its       *)
(* places and what a text means among them, the lunch suggestion, and the  *)
(* move into the store.  They share no state here; part says which one a   *)
(* behaviour is about, and the others stay in an initial state.            *)
(***************************************************************************)
EXTENDS Journal, Delegation, Memory, Notes, Turn

CONSTANTS
    Names, Plain, Honorifics, MaxMembers, MaxLookups,                \* Members
    Writings, Venues, Rooms, MaxDirectory, MaxDishes, MaxRemembered,    \* Subjects
    Directories, Ages, Visits, Prices, GateTimes, Minute, MaxSteps,     \* Suggest
    Lore, Sites, MaxEdits, MaxMoves                                  \* Migration

\* A fact is not the sign that there is no file.
ASSUME LoreAssumption == "gone" \notin Lore

\* A place has an id and a row; a meal is one visit at least; -1 is what is not known.
ASSUME SuggestAssumption ==
    /\ Ages \subseteq Nat /\ Visits \subseteq Nat \ {0} /\ Prices \subseteq Nat
    /\ GateTimes \subseteq Nat /\ Minute \in Nat
    /\ \A d \in Directories :
         /\ IsFiniteSet(DOMAIN d) /\ DOMAIN d \subseteq Nat
         /\ d \in [DOMAIN d -> [walkable : BOOLEAN, delivery : BOOLEAN, untried : BOOLEAN, closed : BOOLEAN,
                              hint : Nat \cup {-1}, walk : Nat \cup {-1}]]

VARIABLES
    part,
    members, unknown, tried, holes, accepted,                                 \* Members
    table, file, stored, mark, server, deploy, image, truth, edits, moves,    \* Migration
    offered, eaten, clocks,                                                   \* Suggest
    people, known, meals, said, passed                                        \* Subjects

\* A room with a pending meal and a pending payment.
OneMealOnePay == <<[kind |-> "meal", payload |-> 1], [kind |-> "pay", payload |-> {<<"ab", 1>>}]>>

\* Few of the tools and three calls; all of them, and corrections, and two.
TwoProfiles ==
    {[tools |-> {"meal", "pay", "cancel"}, payloads |-> {1}, calls |-> 3],
     [tools |-> AllTools, payloads |-> {1, 2}, calls |-> 2]}

\* The subs may ask each other, and the root all of them.
Cyclic == [a \in Agents |-> Agents \ {a, Root}]

\* Names that differ by a tone, by an honorific, and by where a word stands.
FewNames == {<<"le">>, <<"anh", "hu'ng">>, <<"hung", "le">>}
Tones == [w \in {"le", "anh", "hung", "hu'ng", "nhim", "trang", "bun", "bu'n", "quan"} |->
            IF w = "hu'ng" THEN "hung" ELSE IF w = "bu'n" THEN "bun" ELSE w]

Members == INSTANCE Members WITH made <- tried, MaxCalls <- MaxLookups

Migration == INSTANCE Migration WITH
    stage <- deploy, Facts <- Lore, Places <- Sites, DiesAt <- {"stopped"}

\* Three places: one nobody has tried, one far away, one that is closed or delivers.
Plainly(hint) == [walkable |-> TRUE, delivery |-> FALSE, untried |-> FALSE, closed |-> FALSE, hint |-> hint, walk |-> -1]
FewDirectories ==
    {<<Plainly(30), [Plainly(-1) EXCEPT !.untried = TRUE], [Plainly(70) EXCEPT !.walk = 12]>>,
     <<Plainly(-1), [Plainly(30) EXCEPT !.closed = TRUE], [Plainly(200) EXCEPT !.delivery = TRUE]>>}

Suggest == INSTANCE Suggest WITH
    rows <- offered, meals <- eaten, notes <- clocks, Rows <- Directories, AgesOfMeals <- Ages, Now <- Minute

\* Trang may be meant by the name of Bun Trang, which is written in three ways.
Trang == [names |-> <<<<"nhim">>, <<"trang">>>>, active |-> TRUE]
OnlyTrang == {<<Trang>>}
SomeTexts == {<<"trang">>, <<"quan", "bun", "trang">>, <<"bu'n", "trang">>}

Subjects == INSTANCE Subjects WITH
    places <- known, notes <- said, Texts <- Writings, MaxPlaces <- MaxDirectory, MaxMeals <- MaxDishes, MaxNotes <- MaxRemembered
-----------------------------------------------------------------------------

memberVars == <<members, unknown, tried, holes, accepted>>
migrationVars == <<table, file, stored, mark, server, deploy, image, truth, edits, moves>>
suggestVars == <<offered, eaten, clocks>>
subjectVars == <<people, known, meals, said, passed>>
roomVars == <<part, vars, turnVars, delegationVars, noteVars, memoryVars, memberVars, migrationVars,
              suggestVars, subjectVars>>

\* The parts that start in one of several states start in one of them while another runs.
RoomsInit ==
    /\ part \in {"journal", "turn", "delegation", "notes", "memory", "members",
                 "migration", "suggest", "subjects"}
    /\ Init /\ NotesInit /\ MemoryInit /\ Subjects!Init
    /\ TurnInit /\ (part = "turn" \/ profile = CHOOSE p \in Profiles : TRUE)
    /\ DelegationInit
    /\ part = "delegation" \/ (caps = [a \in Agents |-> CHOOSE c \in [seconds : Seconds, tools : Calls] : TRUE]
                               /\ maxDepth[Root] = CHOOSE d \in RootDepths : TRUE)
    /\ Members!Init /\ (part = "members" \/ members[1].names = <<CHOOSE n \in Names : TRUE>>)
    /\ Migration!Init /\ (part = "migration" \/ server = "new")
    /\ Suggest!Init /\ (part = "suggest" \/ offered = CHOOSE d \in Directories : TRUE)

RoomsNext ==
    /\ UNCHANGED part
    /\ IF part = "journal" THEN Next ELSE UNCHANGED vars
    /\ IF part = "turn" THEN TurnNext ELSE UNCHANGED turnVars
    /\ IF part = "delegation" THEN DelegationNext ELSE UNCHANGED delegationVars
    /\ IF part = "notes" THEN NotesNext ELSE UNCHANGED noteVars
    /\ IF part = "memory" THEN MemoryNext ELSE UNCHANGED memoryVars
    /\ IF part = "members" THEN Members!Next ELSE UNCHANGED memberVars
    /\ IF part = "migration" THEN Migration!Next ELSE UNCHANGED migrationVars
    /\ IF part = "suggest" THEN Suggest!Next ELSE UNCHANGED suggestVars
    /\ IF part = "subjects" THEN Subjects!Next ELSE UNCHANGED subjectVars

RoomsSpec == RoomsInit /\ [][RoomsNext]_roomVars
-----------------------------------------------------------------------------

\* A turn ends with the cards the manager last proposed, shown as they stand, without a
\* forged reply, and with a trace in the order of the calls (Turn).
TurnTellsTheTruth ==
    CardsAreTheLastWord /\ CardsAreShownAsTheyAre /\ NoForgeryIsPosted /\ TraceReadsAsItHappened

\* No step acts behind people's backs: a meal is not accepted without the name of the turn
\* that met nobody (Members), an edit in the panel loses what the panel showed and nothing
\* that came in between (Memory), and a dish is linked to a place for good, and only when it
\* can mean no other (Subjects).
NothingBehindTheirBacks ==
    Members!NobodyIsForgotten /\ PanelLosesWhatItShowed /\ Subjects!LinksAreSure

\* A room keeps its places and notes through deploys and undos (Migration); its balances
\* are read from a journal level with the tables, and a deploy can always bring that
\* about (Journal).
NothingIsLost == Migration!NothingIsLost /\ ServedJournalIsLevel /\ MigrationNeverRefused

\* The usuals lead, a shut door comes last, the reason given is the one, and the price
\* bands follow the prices (Suggest).
SuggestionIsSound == part = "suggest" => Suggest!SuggestionIsSound /\ Suggest!BandsFollowPrices

\* A note is filed under a place only if no person could be meant, whatever links the
\* room's meals have got (Subjects).
PlacesAreNotPeople == Subjects!PlacesAreNotPeople
=============================================================================
