-------------------------------- MODULE Members -------------------------------
(***************************************************************************)
(* Who is in a room and what they answer to (app/accounts.py,              *)
(* app/packs/members.py, ledger_core/roster.py), and the names of a bot    *)
(* turn: those it looked up, those nobody answered to, and the proposal    *)
(* that must not leave one of them out (packs/lunch_ledger/tools.py).      *)
(*                                                                         *)
(* A name is a sequence of words, and Plain takes the tones off a word.    *)
(* A member's names are the display name, the nickname, the aliases and    *)
(* the account holder; the nickname is the first.  Sign-in and the draw list    *)
(* are not modelled; every tool and every route is one transaction.        *)
(***************************************************************************)
EXTENDS Integers, Sequences, SequencesExt, FiniteSets

CONSTANTS
    Names,       \* names people have, and names the room writes
    Plain,       \* the words without tones
    Honorifics,  \* plain words in front of a name
    MaxMembers,  \* bound on the members there ever are
    MaxCalls     \* bound on the tool calls of a turn

VARIABLES
    members,     \* by id: [names, active]
    unknown,     \* ctx.unknown_names of the turn
    made,        \* tool calls of the turn
    holes,       \* history: names of the turn that met nobody, or several, last time
    accepted     \* history: what the last step proposed and the tool accepted, or NoMeal

memberVars == <<members, unknown, made, holes, accepted>>

NoMeal == [on |-> {}, guests |-> {}, holes |-> {}]

Init ==
    /\ \E n \in Names : members = <<[names |-> <<n>>, active |-> TRUE]>>
    /\ unknown = {} /\ made = 0 /\ holes = {} /\ accepted = NoMeal
-----------------------------------------------------------------------------

(* The name index. *)

Ids == DOMAIN members
Active == {i \in Ids : members[i].active}
NamesOf(i) == ToSet(members[i].names)

Folded(name) == [i \in DOMAIN name |-> Plain[name[i]]]

\* _strip_honorific, which never takes the last word.
Stripped(name) ==
    LET words == Folded(name)
        from == CHOOSE k \in DOMAIN words :
                  /\ \A j \in 1..(k - 1) : words[j] \in Honorifics
                  /\ k = Len(words) \/ words[k] \notin Honorifics
    IN  SubSeq(words, from, Len(words))

\* name_tokens, and the words of everything a member answers to.
Words(name) == ToSet(Stripped(name))
WordsOf(i) == UNION {ToSet(Folded(n)) : n \in NamesOf(i)}

FirstNonEmpty(tiers) == IF \E k \in DOMAIN tiers : tiers[k] # {}
                        THEN tiers[CHOOSE k \in DOMAIN tiers : tiers[k] # {} /\ \A j \in 1..(k - 1) : tiers[j] = {}]
                        ELSE {}

\* _NameIndex.lookup: the members a name could mean, the narrowest tier that has any.
Lookup(name) ==
    LET own == Stripped(name)
        whole(n) == {i \in Active : \E f \in NamesOf(i) : Folded(f) = n}
    IN  FirstNonEmpty(<<{i \in Active : name \in NamesOf(i)}, whole(Folded(name)), whole(own)>>
          \o (IF Len(own) > 1 THEN <<{i \in Active : ToSet(own) \subseteq WordsOf(i)}>>
              ELSE <<{i \in Active : \E f \in NamesOf(i) : Last(Folded(f)) = own[1]},
                     {i \in Active : own[1] \in WordsOf(i)}>>))

NicknameFree(nickname) == \A i \in Ids : members[i].names[1] # nickname
-----------------------------------------------------------------------------

(* The tools of a turn. *)

Calling == made < MaxCalls /\ made' = made + 1

\* Mutant of StillUnknown: the names of the last look-up only.
StillUnknownNow(asked, met) == {n \in asked : n \notin met}

\* A name is a hole until it is asked for again and means one member.
StillUnknown(asked, met) == (unknown \cup {n \in asked : n \notin met}) \ met

\* find_members: several names at once, the turn's mentions among them.
FindMembers ==
    /\ Calling
    /\ \E asked \in {a \in SUBSET Names : Cardinality(a) \in 1..2} :
         LET met == {n \in asked : Cardinality(Lookup(n)) = 1} IN
         /\ unknown' = StillUnknown(asked, met)
         /\ holes' = (holes \ met) \cup (asked \ met)
    /\ accepted' = NoMeal
    /\ UNCHANGED members

\* Mutant of Filled: adding anybody fills every hole.
FilledAll(name) == unknown

\* The holes a new member's name fills: those it shares a word with.
Filled(name) == {n \in unknown : Words(n) \cap Words(name) # {}}

\* add_member, which adds an unclaimed account.
AddMember ==
    /\ Calling
    /\ Len(members) < MaxMembers
    /\ \E name \in Names :
         /\ NicknameFree(name)
         /\ members' = Append(members, [names |-> <<name>>, active |-> TRUE])
         /\ unknown' = unknown \ Filled(name)
         /\ holes' = {n \in holes : Words(n) \cap Words(name) = {}}
    /\ accepted' = NoMeal

\* accounts.update_member: any of a nickname nobody else has, an alias, and whether the
\* member is active, in one call.  A removed member is updated, and restored, like any.
UpdatesOf(i) ==
    {[names |-> <<nickname>> \o more, active |-> a] :
       nickname \in {members[i].names[1]} \cup {n \in Names : NicknameFree(n)},
       more \in {Tail(members[i].names)} \cup {<<n>> : n \in Names},
       a \in BOOLEAN}

UpdateMember ==
    /\ Calling
    /\ \E i \in Ids : \E row \in UpdatesOf(i) : members' = [members EXCEPT ![i] = row]
    /\ accepted' = NoMeal
    /\ UNCHANGED <<unknown, holes>>

\* soft_delete_member: the names stay taken, and the ledger keeps the member.
SoftDeleted(i) == [members[i] EXCEPT !.active = FALSE]

\* delete_member.
DeleteMember ==
    /\ Calling
    /\ \E i \in Active : members' = [members EXCEPT ![i] = SoftDeleted(i)]
    /\ accepted' = NoMeal
    /\ UNCHANGED <<unknown, holes>>

\* Mutant of Dropped: whoever is in the room is accounted for.
DroppedOutsiders(on, guests) ==
    {n \in unknown : Words(n) \cap ((UNION {WordsOf(i) : i \in Active}) \cup (UNION {Words(g) : g \in guests})) = {}}

\* _dropped_names: the holes no word of which is in a name of somebody on the meal.
Dropped(on, guests) ==
    {n \in unknown : Words(n) \cap ((UNION {WordsOf(i) : i \in on \cap Active}) \cup (UNION {Words(g) : g \in guests})) = {}}

\* propose_meal, as far as it looks at names; guests and the initiator read alike.
ProposeMeal ==
    /\ Calling
    /\ \E on \in (SUBSET Ids) \ {{}}, guests \in {g \in SUBSET Names : Cardinality(g) <= 1} :
         accepted' = IF Dropped(on, guests) = {} THEN [on |-> on, guests |-> guests, holes |-> holes]
                     ELSE NoMeal
    /\ UNCHANGED <<members, unknown, holes>>

\* The turn is over; the next one has a context of its own.
NextTurn ==
    /\ made > 0
    /\ unknown' = {} /\ made' = 0 /\ holes' = {} /\ accepted' = NoMeal
    /\ UNCHANGED members
-----------------------------------------------------------------------------

(* The room's people, turn or no turn. *)

\* create_account.
Join ==
    /\ Len(members) < MaxMembers
    /\ \E name \in Names :
         /\ NicknameFree(name)
         /\ members' = Append(members, [names |-> <<name>>, active |-> TRUE])
    /\ accepted' = NoMeal
    /\ UNCHANGED <<unknown, made, holes>>

Next ==
    \/ FindMembers \/ AddMember \/ UpdateMember \/ DeleteMember \/ ProposeMeal
    \/ NextTurn \/ Join
Spec == Init /\ [][Next]_memberVars
-----------------------------------------------------------------------------

\* A meal is not accepted while a name of the turn that meets nobody, or several people,
\* is neither on it nor among its guests, under whatever name -- unless it was asked for
\* again and found, or a member was added who bears a word of it.  (The words of those on
\* the meal are looked at as they are when it is proposed.)
NobodyIsForgotten ==
    [][accepted' # NoMeal =>
         \A n \in holes :
            \/ \E i \in accepted'.on : members[i].active /\ WordsOf(i) \cap Words(n) # {}
            \/ \E g \in accepted'.guests : Words(g) \cap Words(n) # {}]_memberVars
=============================================================================
