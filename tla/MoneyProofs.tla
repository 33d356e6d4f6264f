----------------------------- MODULE MoneyProofs -----------------------------
(***************************************************************************)
(* Theorems about a room's money: the attribution of payments (module      *)
(* Attribution), for every ledger; the division of a bill (Splits, Bills), *)
(* for every bill; and what is computed from the two (Settlement) -- poker *)
(* nights, the notes of transfers, the panels of every period, the cards   *)
(* and the codes with which debts are paid -- for every room; and how a    *)
(* graded turn is judged on its money (Grading), for every turn.           *)
(***************************************************************************)
EXTENDS MCMoney, DebtProofs

(* The ledger that grows is always one of these. *)
APayment == [frm : Everyone, to : Everyone, amount : PayAmounts, kind : {"meal", "game"}, ref : Nat]
LedgerInv == ALedger(debts, paid) /\ paid \in Seq(APayment)

LEMMA SequenceOfPayments ==
    ASSUME NEW made \in Seq(APayment)
    PROVE  Payments(made)
<1>1. Len(made) \in Nat /\ DOMAIN made = 1..Len(made) /\ \A i \in DOMAIN made : made[i] \in APayment
    BY LenProperties, ElementOfSeq
<1>2. IsFiniteSet(1..Len(made))
    BY <1>1, FS_Interval
<1>3. \A i \in DOMAIN made : made[i].amount \in Nat
    BY <1>1, RowsAssumption DEF APayment
<1> QED BY <1>1, <1>2, <1>3 DEF Payments

LEMMA NewEdges ==
    ASSUME NEW t \in Things, NEW day \in Days, NEW creditor \in Everyone, NEW eaters \in SUBSET Everyone,
           NEW shares \in [eaters -> EdgeAmounts]
    PROVE  LET new == EdgesOf(t[1], t[2], creditor, shares, day) IN
           /\ IsFiniteSet(new)
           /\ \A e \in new : /\ AnEdge(e) /\ <<e.kind, e.ref>> = t /\ e.creditor = creditor
                             /\ e.debtor \in eaters \ {creditor} /\ e.amount = shares[e.debtor] /\ e.day = day
           /\ \A e, f \in new : e.debtor = f.debtor => e = f
<1>1. t = <<t[1], t[2]>> /\ t[1] \in {"meal", "game"} /\ t[2] \in Nat \ {NoRef} /\ day \in Int
    BY RowsAssumption DEF Things, NoRef
<1>2. IsFiniteSet(DOMAIN shares) /\ DOMAIN shares = eaters /\ \A m \in DOMAIN shares : shares[m] \in Nat
    <2>1. IsFiniteSet(eaters)
        BY EveryoneAssumption, FS_Subset
    <2> QED BY <2>1, RowsAssumption
<1> DEFINE new == EdgesOf(t[1], t[2], creditor, shares, day)
<1>3. /\ IsFiniteSet(new)
      /\ \A e \in new : /\ AnEdge(e) /\ e.kind = t[1] /\ e.ref = t[2] /\ e.creditor = creditor
                        /\ e.debtor \in (DOMAIN shares) \ {creditor} /\ e.amount = shares[e.debtor] /\ e.day = day
      /\ \A e, f \in new : e.debtor = f.debtor => e = f
    BY <1>1, <1>2, EdgesAre
<1> HIDE DEF new
<1>4. \A e \in new : <<e.kind, e.ref>> = t
    BY <1>1, <1>3
<1> QED BY <1>2, <1>3, <1>4 DEF new

LEMMA LedgerInitHolds == LedgerInit => LedgerInv
<1> SUFFICES ASSUME LedgerInit PROVE LedgerInv
    OBVIOUS
<1>1. debts = {} /\ paid = <<>> /\ paid \in Seq(APayment)
    BY EmptySeq DEF LedgerInit
<1>2. Payments(paid)
    BY <1>1, SequenceOfPayments
<1>3. IsFiniteSet({})
    BY FS_EmptySet
<1> QED BY <1>1, <1>2, <1>3 DEF LedgerInv, ALedger, Distinct

LEMMA LedgerStepKeeps == LedgerInv /\ [LedgerNext]_ledgerVars => LedgerInv'
<1> SUFFICES ASSUME LedgerInv, [LedgerNext]_ledgerVars PROVE LedgerInv'
    OBVIOUS
<1>1. CASE AddThing
    <2>1. PICK t \in Things, day \in Days, creditor \in Everyone, eaters \in SUBSET Everyone :
            \E shares \in [eaters -> EdgeAmounts] :
              /\ \A e \in debts : <<e.kind, e.ref>> # t
              /\ debts' = debts \cup EdgesOf(t[1], t[2], creditor, shares, day)
              /\ paid' = paid
        BY <1>1 DEF AddThing
    <2>2. PICK shares \in [eaters -> EdgeAmounts] :
              /\ \A e \in debts : <<e.kind, e.ref>> # t
              /\ debts' = debts \cup EdgesOf(t[1], t[2], creditor, shares, day)
              /\ paid' = paid
        BY <2>1
    <2> DEFINE new == EdgesOf(t[1], t[2], creditor, shares, day)
    <2>3. /\ IsFiniteSet(new)
          /\ \A e \in new : AnEdge(e) /\ <<e.kind, e.ref>> = t
          /\ \A e, f \in new : e.debtor = f.debtor => e = f
        BY NewEdges
    <2> HIDE DEF new
    <2>4. IsFiniteSet(debts') /\ \A e \in debts' : AnEdge(e)
        BY <2>2, <2>3, FS_Union DEF new, LedgerInv, ALedger
    <2>5. Distinct(debts')
        BY <2>2, <2>3 DEF new, LedgerInv, ALedger, Distinct
    <2>6. paid' = paid /\ Payments(paid') /\ paid' \in Seq(APayment)
        BY <2>2 DEF LedgerInv, ALedger
    <2> QED BY <2>4, <2>5, <2>6 DEF LedgerInv, ALedger
<1>2. CASE AddPayment
    <2>1. PICK frm \in Everyone, to \in Everyone, amount \in PayAmounts, t \in Things \cup {<<"meal", NoRef>>} :
            paid' = Append(paid, [frm |-> frm, to |-> to, amount |-> amount, kind |-> t[1], ref |-> t[2]])
        BY <1>2 DEF AddPayment
    <2> DEFINE p == [frm |-> frm, to |-> to, amount |-> amount, kind |-> t[1], ref |-> t[2]]
    <2>2. t[1] \in {"meal", "game"} /\ t[2] \in Nat
        BY RowsAssumption DEF Things, NoRef
    <2>3. p \in APayment
        BY <2>2 DEF APayment
    <2>4. paid' = Append(paid, p)
        BY <2>1
    <2> HIDE DEF p
    <2>5. paid' \in Seq(APayment)
        BY <2>3, <2>4, AppendProperties DEF LedgerInv
    <2>6. Payments(paid')
        BY <2>5, SequenceOfPayments
    <2>7. debts' = debts
        BY <1>2 DEF AddPayment
    <2> QED BY <2>5, <2>6, <2>7 DEF LedgerInv, ALedger
<1>3. CASE UNCHANGED ledgerVars
    <2>1. debts' = debts /\ paid' = paid
        BY <1>3 DEF ledgerVars
    <2> QED BY <2>1 DEF LedgerInv, ALedger
<1> QED BY <1>1, <1>2, <1>3 DEF LedgerNext
-----------------------------------------------------------------------------
LEMMA InvConserves == LedgerInv => PairIsConserved
<1> SUFFICES ASSUME LedgerInv PROVE PairIsConserved
    OBVIOUS
<1>1. ALedger(debts, paid)
    BY DEF LedgerInv
<1>2. \A e \in debts : Outstanding(debts, paid)[e] \in 0 .. e.amount
    BY <1>1, PaidIs
<1>3. \A d, c \in Everyone :
        OwedOver(Outstanding(debts, paid), debts, d, c)
          = Positive(Gross(debts, d, c) - AmountOf(paid, PairPayments(paid, <<d, c>>)))
    <2> TAKE d, c \in Everyone
    <2> QED BY <1>1, PairIsSettled
<1> QED BY <1>2, <1>3 DEF PairIsConserved

(* For any members, meals, games, shares and payments, in whatever order they are      *)
(* recorded: a pair's open debts are what was lent less what was paid, and no less     *)
(* than nothing (apply_payments_fifo).                                                 *)
THEOREM PairIsAlwaysConserved == LedgerSpec => []PairIsConserved
<1>1. LedgerInv => PairIsConserved
    BY InvConserves
<1> QED BY <1>1, LedgerInitHolds, LedgerStepKeeps, PTL DEF LedgerSpec

LEMMA InvIsFair == LedgerInv => StampedThenOldest
<1> SUFFICES ASSUME LedgerInv, NEW e \in debts
             PROVE  LET open == Outstanding(debts, paid) IN
                    /\ e.amount - open[e] >= Direct(paid, e)
                    /\ open[e] > 0 =>
                         \A f \in PairEdges(debts, <<e.debtor, e.creditor>>) :
                           (f.day > e.day \/ (f.day = e.day /\ f.kind = e.kind /\ f.ref > e.ref))
                             => open[f] = f.amount - Direct(paid, f)
    BY DEF StampedThenOldest
<1>1. ALedger(debts, paid) /\ AnEdge(e)
    BY DEF LedgerInv, ALedger
<1> DEFINE out == Outstanding(debts, paid)[e]
           poured == Poured(debts, paid, <<e.debtor, e.creditor>>, e)
<1>2. e.amount - out >= Direct(paid, e)
    <2>1. out = Rest(paid, e) - poured /\ poured \in 0..Rest(paid, e)
        BY <1>1, PaidIs
    <2>2. /\ Rest(paid, e) \in 0..e.amount /\ Rest(paid, e) = e.amount - Direct(paid, e)
          /\ Direct(paid, e) \in 0..e.amount /\ e.amount \in Nat
        BY <1>1, StampedIs DEF LedgerInv, ALedger, AnEdge
    <2> HIDE DEF out, poured
    <2> QED BY <2>1, <2>2
<1>3. ASSUME NEW f \in PairEdges(debts, <<e.debtor, e.creditor>>),
             f.day > e.day \/ (f.day = e.day /\ f.kind = e.kind /\ f.ref > e.ref), out > 0
      PROVE  Outstanding(debts, paid)[f] = f.amount - Direct(paid, f)
    <2>1. f \in debts /\ AnEdge(f)
        BY DEF PairEdges, LedgerInv, ALedger
    <2>2. Before(e, f)
        BY <1>1, <1>3, <2>1 DEF Before, AnEdge
    <2> QED BY <1>1, <1>3, <2>2, EarlierFirst
<1> QED BY <1>2, <1>3

LEMMA InvReopensNothing == LedgerInv => PaymentNeverReopens
<1> SUFFICES ASSUME LedgerInv, paid # <<>>, NEW e \in debts
             PROVE  Outstanding(debts, paid)[e] <= Outstanding(debts, Front(paid))[e]
    BY DEF PaymentNeverReopens
<1> DEFINE n == Len(paid)
           before == Front(paid)
<1>1. paid \in Seq(APayment) /\ n \in Nat /\ n # 0 /\ DOMAIN paid = 1..n
    BY LenProperties, EmptySeq DEF LedgerInv
<1>2. before \in Seq(APayment) /\ DOMAIN before = 1..(n - 1) /\ \A j \in 1..(n - 1) : before[j] = paid[j]
    <2>1. before = [j \in 1..(n - 1) |-> paid[j]]
        BY <1>1 DEF Front
    <2>2. \A j \in 1..(n - 1) : paid[j] \in APayment
        BY <1>1, ElementOfSeq
    <2>3. n - 1 \in Nat
        BY <1>1
    <2> HIDE DEF n, before
    <2>4. before \in [1..(n - 1) -> APayment]
        BY <2>1, <2>2
    <2> QED BY <2>1, <2>3, <2>4, ASequence
<1>3. OneMore(before, paid, n)
    <2> HIDE DEF n, before
    <2>1. DOMAIN paid = DOMAIN before \cup {n} /\ n \notin DOMAIN before
        BY <1>1, <1>2
    <2> QED BY <1>2, <2>1 DEF OneMore
<1>4. ALedger(debts, before) /\ ALedger(debts, paid)
    <2>1. Payments(before)
        BY <1>2, SequenceOfPayments
    <2> QED BY <2>1 DEF LedgerInv, ALedger
<1> HIDE DEF n, before
<1>5. Outstanding(debts, paid)[e] <= Outstanding(debts, before)[e]
    BY <1>3, <1>4, PaymentReopensNothing
<1> QED BY <1>5 DEF before

LEMMA InvAgrees == LedgerInv => TransfersAgree
<1> SUFFICES ASSUME LedgerInv PROVE TransfersAgree
    OBVIOUS
<1>1. ALedger(debts, paid)
    BY DEF LedgerInv
<1> DEFINE F(q) == OwedOver(Outstanding(debts, paid), debts, q[1], q[2])
           H(q) == Positive(Gross(debts, q[1], q[2]) - AmountOf(paid, PairPayments(paid, q)))
<1>2. \A q \in Everyone \X Everyone : F(q) = H(q)
    <2> SUFFICES ASSUME NEW q \in Everyone \X Everyone PROVE F(q) = H(q)
        OBVIOUS
    <2>1. q[1] \in Everyone /\ q[2] \in Everyone /\ q = <<q[1], q[2]>>
        OBVIOUS
    <2>2. F(q) = Positive(Gross(debts, q[1], q[2])
                            - AmountOf(paid, PairPayments(paid, <<q[1], q[2]>>)))
        BY <1>1, <2>1, PairIsSettled
    <2> QED BY <2>1, <2>2
<1> HIDE DEF F, H
<1>3. [q \in Everyone \X Everyone |-> F(q)] = [q \in Everyone \X Everyone |-> H(q)]
    BY <1>2
<1> QED BY <1>3 DEF TransfersAgree, NetTransfers, PerPayerTransfers, F, H

(* For any ledger: a payment settles the thing it names and then the oldest debts of   *)
(* its pair, none reopens a debt, and the settlement by edges is the one by totals     *)
(* (apply_payments_fifo, net_transfers, per_payer_transfers).                          *)
THEOREM PaymentsAlwaysGoWhereTheyShould == LedgerSpec => []PaymentsGoWhereTheyShould
<1>1. LedgerInv => PaymentsGoWhereTheyShould
    BY InvIsFair, InvReopensNothing, InvAgrees DEF PaymentsGoWhereTheyShould
<1> QED BY <1>1, LedgerInitHolds, LedgerStepKeeps, PTL DEF LedgerSpec

-----------------------------------------------------------------------------
(* Dividing a bill. *)

(* An amount for each. *)
LEMMA SumOfEqual ==
    ASSUME NEW S, IsFiniteSet(S), NEW f, NEW c \in Int, \A x \in S : f[x] = c
    PROVE  SumFunctionOnSet(f, S) = c * Cardinality(S)
<1> DEFINE Is(T) == SumFunctionOnSet(f, T) = c * Cardinality(T)
           G == {T \in SUBSET S : Is(T)}
<1>1. {} \in G
    BY SumOfNone, FS_EmptySet
<1>2. ASSUME NEW T \in SUBSET S, T # {}, \A x \in T : T \ {x} \in G
      PROVE  T \in G
    <2>1. PICK x \in T : TRUE
        BY <1>2
    <2>2. IsFiniteSet(T) /\ IsFiniteSet(T \ {x})
        BY FS_Subset
    <2>3. SumFunctionOnSet(f, T) = c + SumFunctionOnSet(f, T \ {x})
        BY <2>1, <2>2, SumTakesOut
    <2> DEFINE n == Cardinality(T \ {x})
    <2>4. n \in Nat /\ Cardinality(T) = n + 1
        BY <2>1, <2>2, FS_RemoveElement, FS_CardinalityType
    <2>5. SumFunctionOnSet(f, T \ {x}) = c * n
        BY <1>2, <2>1
    <2> HIDE DEF n
    <2>6. c + c * n = c * (n + 1)
        BY <2>4
    <2> QED BY <2>3, <2>4, <2>5, <2>6
<1> HIDE DEF G
<1>3. \A T \in SUBSET S : T \in G
    BY <1>1, <1>2, EverySubset
<1> QED BY <1>3 DEF G

(* Every term so many times over. *)
LEMMA SumOfMultiples ==
    ASSUME NEW S, IsFiniteSet(S), NEW f, NEW g, NEW c \in Int,
           \A x \in S : f[x] \in Int /\ g[x] = f[x] * c
    PROVE  SumFunctionOnSet(g, S) = SumFunctionOnSet(f, S) * c
<1> DEFINE Is(T) == SumFunctionOnSet(g, T) = SumFunctionOnSet(f, T) * c
           G == {T \in SUBSET S : Is(T)}
<1>1. {} \in G
    BY SumOfNone
<1>2. ASSUME NEW T \in SUBSET S, T # {}, \A x \in T : T \ {x} \in G
      PROVE  T \in G
    <2>1. PICK x \in T : TRUE
        BY <1>2
    <2>2. IsFiniteSet(T) /\ IsFiniteSet(T \ {x}) /\ (\A y \in T : f[y] \in Int /\ g[y] \in Int)
        BY FS_Subset
    <2> DEFINE restF == SumFunctionOnSet(f, T \ {x})
               restG == SumFunctionOnSet(g, T \ {x})
               a == f[x]
    <2>3. SumFunctionOnSet(f, T) = a + restF
        BY <2>1, <2>2, SumTakesOut
    <2>4. SumFunctionOnSet(g, T) = g[x] + restG
        BY <2>1, <2>2, SumTakesOut
    <2>5. a \in Int /\ restF \in Int /\ g[x] = a * c
        BY <2>1, <2>2, SumIsWhole
    <2>6. restG = restF * c
        BY <1>2, <2>1
    <2> HIDE DEF a, restF, restG
    <2>7. (a + restF) * c = a * c + restF * c
        BY <2>5
    <2> QED BY <2>3, <2>4, <2>5, <2>6, <2>7
<1> HIDE DEF G
<1>3. \A T \in SUBSET S : T \in G
    BY <1>1, <1>2, EverySubset
<1> QED BY <1>3 DEF G

(* Along a line, one each to the first until they are gone: they are gone. *)
LEMMA OneEachIsAll ==
    ASSUME NEW E, IsFiniteSet(E), NEW before, Line(E, before), NEW count \in 0..Cardinality(E)
    PROVE  SumFunctionOnSet(OneEach(E, before, count), E) = count
<1> DEFINE Is(T) == \A d \in 0..Cardinality(T) : SumFunctionOnSet(OneEach(T, before, d), T) = d
           G == {T \in SUBSET E : Is(T)}
<1>1. {} \in G
    BY SumOfNone, FS_EmptySet
<1>2. ASSUME NEW T \in SUBSET E, T # {}, \A x \in T : T \ {x} \in G
      PROVE  T \in G
    <2>1. PICK z \in T : \A x \in T \ {z} : <<x, z>> \in before
        BY <1>2, LineHasAnEnd
    <2> DEFINE U == T \ {z}
               n == Cardinality(U)
               Ahead_(S, m) == {k \in S : <<k, m>> \in before}
    <2>2. IsFiniteSet(T) /\ IsFiniteSet(U)
        BY FS_Subset
    <2>3. n \in Nat /\ Cardinality(T) = n + 1
        BY <2>1, <2>2, FS_RemoveElement, FS_CardinalityType
    <2>4. Ahead_(T, z) = U
        BY <2>1 DEF Line
    <2>5. ASSUME NEW m \in U
          PROVE  Ahead_(T, m) = Ahead_(U, m) /\ Cardinality(Ahead_(U, m)) \in Nat /\ Cardinality(Ahead_(U, m)) < n
        <3>1. <<m, z>> \in before /\ <<z, z>> \notin before /\ <<m, m>> \notin before
            BY <2>1 DEF Line
        <3>2. <<z, m>> \notin before
            BY <2>1, <3>1 DEF Line
        <3>3. Ahead_(T, m) = Ahead_(U, m)
            BY <3>2
        <3>4. Ahead_(U, m) \in SUBSET (U \ {m})
            BY <3>1
        <3>5. IsFiniteSet(U \ {m}) /\ Cardinality(U \ {m}) = n - 1
            BY <2>2, FS_RemoveElement
        <3> DEFINE ahead == Ahead_(U, m)
                   rest == U \ {m}
        <3>6. IsFiniteSet(rest) /\ ahead \in SUBSET rest /\ Cardinality(rest) = n - 1
            BY <3>4, <3>5
        <3> HIDE DEF ahead, rest, n, U
        <3>7. IsFiniteSet(ahead) /\ Cardinality(ahead) <= Cardinality(rest)
            BY <3>6, FS_Subset
        <3>8. Cardinality(ahead) \in Nat
            BY <3>7, FS_CardinalityType
        <3>9. Cardinality(ahead) < n
            BY <2>3, <3>6, <3>7, <3>8
        <3> QED BY <3>3, <3>8, <3>9 DEF ahead
    <2> DEFINE Given_(S, d, m) == IF Cardinality(Ahead_(S, m)) < d THEN 1 ELSE 0
    <2>6. \A S \in {T, U} : \A d : \A m \in S : OneEach(S, before, d)[m] = Given_(S, d, m)
        BY DEF OneEach
    <2> HIDE DEF U, n, Ahead_
    <2>7. ASSUME NEW d \in 0..(n + 1)
          PROVE  SumFunctionOnSet(OneEach(T, before, d), T) = d
        <3> DEFINE f == OneEach(T, before, d)
        <3>1. \A m \in T : f[m] \in Int
            BY <2>6
        <3>2. SumFunctionOnSet(f, T) = f[z] + SumFunctionOnSet(f, U)
            <4> HIDE DEF f
            <4> QED BY <2>1, <2>2, <3>1, SumTakesOut DEF U
        <3>3. f[z] = IF n < d THEN 1 ELSE 0
            BY <2>1, <2>4, <2>6 DEF n
        <3> DEFINE e == IF n < d THEN n ELSE d
                   g == OneEach(U, before, e)
        <3>4. e \in 0..n
            BY <2>3, <2>7
        <3>5. \A m \in U : f[m] \in Int /\ f[m] = g[m]
            <4> TAKE m \in U
            <4>1. m \in T
                BY DEF U
            <4>2. f[m] = Given_(T, d, m) /\ g[m] = Given_(U, e, m)
                BY <2>6, <4>1
            <4>3. Cardinality(Ahead_(T, m)) = Cardinality(Ahead_(U, m)) /\ Cardinality(Ahead_(U, m)) \in Nat
                  /\ Cardinality(Ahead_(U, m)) < n
                BY <2>5
            <4> HIDE DEF f, g
            <4> QED BY <2>3, <2>7, <4>2, <4>3
        <3> HIDE DEF f, g
        <3>6. SumFunctionOnSet(f, U) = SumFunctionOnSet(g, U)
            BY <2>2, <3>5, SumOfSame
        <3>7. SumFunctionOnSet(g, U) = e
            <4>1. U \in G
                BY <1>2, <2>1 DEF U
            <4> QED BY <3>4, <4>1 DEF g, n
        <3> QED BY <2>3, <2>7, <3>2, <3>3, <3>6, <3>7 DEF f
    <2> QED BY <2>3, <2>7
<1> HIDE DEF G
<1>3. \A T \in SUBSET E : T \in G
    BY <1>1, <1>2, EverySubset
<1> QED BY <1>3 DEF G

-----------------------------------------------------------------------------
(* The orders in which the leftover is handed out. *)

LEMMA IdsAreALine ==
    ASSUME NEW ids, ids \subseteq Int
    PROVE  Line(ids, ById(ids))
<1>1. \A a, b \in ids : <<a, b>> \in ById(ids) <=> a < b
    BY DEF ById
<1>2. \A a \in ids : a \in Int
    OBVIOUS
<1> QED BY <1>1, <1>2 DEF Line

LEMMA FractionsAreALine ==
    ASSUME NEW total, NEW items, DOMAIN items \subseteq Int,
           \A m \in DOMAIN items : Fractions(total, items)[m] \in Int
    PROVE  Line(DOMAIN items, ByFraction(total, items))
<1> DEFINE ids == DOMAIN items
           share == Fractions(total, items)
<1>1. \A a, b \in ids : <<a, b>> \in ByFraction(total, items) <=>
                          share[a] > share[b] \/ (share[a] = share[b] /\ a < b)
    BY DEF ByFraction
<1>2. \A a \in ids : a \in Int /\ share[a] \in Int
    OBVIOUS
<1> HIDE DEF share
<1> QED BY <1>1, <1>2 DEF Line

LEMMA PlacesDiffer ==
    ASSUME NEW S, NEW people \in Seq(S), IsInjective(people)
    PROVE  \A a, b \in ToSet(people) :
             PlaceOf(people, a) \in Int /\ (PlaceOf(people, a) = PlaceOf(people, b) => a = b)
<1>1. DOMAIN people = 1..Len(people) /\ Len(people) \in Nat
    OBVIOUS
<1>2. \A a \in ToSet(people) : PlaceOf(people, a) \in DOMAIN people /\ people[PlaceOf(people, a)] = a
    BY DEF ToSet, PlaceOf
<1> QED BY <1>1, <1>2

LEMMA PayerFirstIsALine ==
    ASSUME NEW S, NEW people \in Seq(S), IsInjective(people), NEW ids \in SUBSET ToSet(people), NEW payer
    PROVE  Line(ids, PayerFirst(people, ids, payer))
<1> DEFINE at(a) == PlaceOf(people, a)
<1>1. \A a, b \in ids : <<a, b>> \in PayerFirst(people, ids, payer) <=>
                          b # payer /\ (a = payer \/ at(a) < at(b))
    BY DEF PayerFirst, ByList
<1>2. \A a, b \in ids : at(a) \in Int /\ (at(a) = at(b) => a = b)
    BY PlacesDiffer
<1> HIDE DEF at
<1> QED BY <1>1, <1>2 DEF Line

LEMMA Division ==
    ASSUME NEW a \in Int, NEW n \in Nat \ {0}
    PROVE  /\ a \div n \in Int /\ a % n \in 0..(n - 1)
           /\ a = n * (a \div n) + (a % n)
           /\ a >= 0 => a \div n >= 0
    OBVIOUS

LEMMA OneEachIs ==
    ASSUME NEW ids, NEW before, NEW count
    PROVE  \A m \in ids : OneEach(ids, before, count)[m] \in 0..1
    BY DEF OneEach

(* Every price has a whole number of dong, and the parts of a dong left over. *)
LEMMA ScaledPrices ==
    ASSUME NEW total \in Int, NEW items, IsFiniteSet(DOMAIN items), DOMAIN items \subseteq Int,
           \A m \in DOMAIN items : items[m] \in Int,
           ItemsAllowed(total, items)
    PROVE  /\ Total(items) \in Nat \ {0}
           /\ \A m \in DOMAIN items :
                LET q == Scaled(total, items)[m]
                    r == Fractions(total, items)[m]
                IN  q \in Nat /\ r \in 0..(Total(items) - 1) /\ items[m] * total = Total(items) * q + r
<1> DEFINE gross == Total(items)
<1>1. gross \in Int
    BY SumIsWhole DEF Total, SumFunction
<1>2. gross \in Nat \ {0} /\ total \in Nat
    BY <1>1 DEF ItemsAllowed
<1> HIDE DEF gross
<1>3. ASSUME NEW m \in DOMAIN items
      PROVE  LET q == Scaled(total, items)[m]
                 r == Fractions(total, items)[m]
             IN  q \in Nat /\ r \in 0..(gross - 1) /\ items[m] * total = gross * q + r
    <2> DEFINE a == items[m] * total
    <2>1. items[m] \in Nat
        BY <1>3 DEF ItemsAllowed
    <2>2. a \in Nat
        BY <1>2, <2>1
    <2>3. Scaled(total, items)[m] = a \div gross /\ Fractions(total, items)[m] = a % gross
        BY DEF Scaled, Fractions, gross
    <2> HIDE DEF a
    <2>4. a \div gross \in Nat /\ a % gross \in 0..(gross - 1) /\ a = gross * (a \div gross) + (a % gross)
        <3>1. a \in Int /\ a >= 0 /\ gross \in Nat \ {0}
            BY <1>2, <2>2
        <3>2. /\ a \div gross \in Int /\ a % gross \in 0..(gross - 1)
              /\ a = gross * (a \div gross) + (a % gross)
              /\ a >= 0 => a \div gross >= 0
            BY <3>1, Division, Zenon
        <3> QED BY <3>1, <3>2
    <2> QED BY <2>3, <2>4 DEF a
<1> QED BY <1>2, <1>3 DEF gross

LEMMA Cancel ==
    ASSUME NEW a \in Int, NEW b \in Int, NEW g \in Nat \ {0}, a * g < b * g
    PROVE  a < b
<1> SUFFICES ASSUME a >= b PROVE FALSE
    OBVIOUS
<1> DEFINE d == a - b
<1>1. d \in Nat /\ a = b + d
    OBVIOUS
<1> HIDE DEF d
<1>2. (b + d) * g = b * g + d * g
    BY <1>1
<1>3. d * g >= 0
    BY <1>1
<1> QED BY <1>1, <1>2, <1>3

(* What is left over is at most a dong for each whose part was rounded down. *)
LEMMA LeftoverIsSmall ==
    ASSUME NEW total \in Int, NEW items, IsFiniteSet(DOMAIN items), DOMAIN items \subseteq Int,
           \A m \in DOMAIN items : items[m] \in Int,
           ItemsAllowed(total, items)
    PROVE  /\ total - Total(Scaled(total, items)) \in 0..Cardinality(DOMAIN items)
           /\ \A P \in SUBSET DOMAIN items :
                (\A m \in DOMAIN items \ P : Fractions(total, items)[m] = 0)
                  => total - Total(Scaled(total, items)) <= Cardinality(P)
<1> DEFINE S == DOMAIN items
           n == Cardinality(S)
           gross == Total(items)
           q == Scaled(total, items)
           r == Fractions(total, items)
           whole == [m \in S |-> items[m] * total]
           exact == [m \in S |-> q[m] * gross]
<1>1. DOMAIN q = S /\ DOMAIN r = S
    BY DEF Scaled, Fractions
<1>2. gross \in Nat \ {0}
    BY ScaledPrices
<1>3. \A m \in S : q[m] \in Nat /\ r[m] \in 0..(gross - 1) /\ items[m] * total = gross * q[m] + r[m]
    BY ScaledPrices
<1>4. n \in Nat \ {0}
    BY FS_CardinalityType, FS_EmptySet DEF ItemsAllowed
<1>5. Total(items) = SumFunctionOnSet(items, S) /\ Total(q) = SumFunctionOnSet(q, S)
    BY <1>1 DEF Total, SumFunction
<1> HIDE DEF gross, q, r
<1>6. SumFunctionOnSet(whole, S) = gross * total
    <2>1. \A m \in S : whole[m] = items[m] * total
        OBVIOUS
    <2> HIDE DEF whole, S
    <2>2. SumFunctionOnSet(whole, S) = SumFunctionOnSet(items, S) * total
        BY <2>1, SumOfMultiples DEF S
    <2> QED BY <1>5, <2>2 DEF gross
<1>7. SumFunctionOnSet(exact, S) = SumFunctionOnSet(q, S) * gross
    <2>1. \A m \in S : q[m] \in Int /\ exact[m] = q[m] * gross
        BY <1>3
    <2>2. IsFiniteSet(S) /\ gross \in Int
        BY <1>2
    <2> HIDE DEF exact, S
    <2> QED BY <2>1, <2>2, SumOfMultiples
<1>8. SumFunctionOnSet(whole, S) = SumFunctionOnSet(exact, S) + SumFunctionOnSet(r, S)
    <2>1. ASSUME NEW m \in S
          PROVE  exact[m] \in Int /\ r[m] \in Int /\ whole[m] = exact[m] + r[m]
        <3>1. q[m] \in Nat /\ r[m] \in Int /\ items[m] * total = gross * q[m] + r[m] /\ gross \in Int
            BY <1>2, <1>3
        <3> DEFINE x == q[m]
                   y == r[m]
        <3>2. exact[m] = x * gross /\ whole[m] = gross * x + y
            BY <3>1
        <3> HIDE DEF x, y, exact, whole
        <3>3. x * gross = gross * x /\ x * gross \in Int
            BY <3>1 DEF x
        <3> QED BY <3>1, <3>2, <3>3 DEF y
    <2>2. IsFiniteSet(S)
        OBVIOUS
    <2> HIDE DEF exact, whole, S
    <2> QED BY <2>1, <2>2, SumOfTwo
<1>9. SumFunctionOnSet(r, S) \in Nat
    <2>1. IsFiniteSet(S) /\ \A m \in S : r[m] \in Nat
        BY <1>2, <1>3
    <2> HIDE DEF S
    <2> QED BY <2>1, SumIsNatural
<1>10. ASSUME NEW P \in SUBSET S, \A m \in S \ P : r[m] = 0
       PROVE  SumFunctionOnSet(r, S) <= (gross - 1) * Cardinality(P)
    <2> DEFINE most == [m \in P |-> gross - 1]
               others == S \ P
    <2>1. IsFiniteSet(P) /\ IsFiniteSet(others) /\ IsFiniteSet(S)
        BY FS_Subset
    <2>2. \A m \in S : r[m] \in Int
        BY <1>2, <1>3
    <2>3. (\A m \in P : r[m] \in Int /\ most[m] \in Int /\ r[m] <= most[m])
          /\ (\A m \in P : most[m] = gross - 1) /\ gross - 1 \in Int
        BY <1>2, <1>3
    <2>4. SumFunctionOnSet(r, S) = SumFunctionOnSet(r, P) + SumFunctionOnSet(r, others)
        <3> HIDE DEF S
        <3> QED BY <2>1, <2>2, SumOfParts
    <2>5. \A m \in others : r[m] = 0
        BY <1>10
    <2> HIDE DEF most, others, S
    <2>6. SumFunctionOnSet(r, P) <= SumFunctionOnSet(most, P)
        BY <2>1, <2>3, SumIsMonotone
    <2>7. SumFunctionOnSet(most, P) = (gross - 1) * Cardinality(P)
        BY <2>1, <2>3, SumOfEqual
    <2>8. SumFunctionOnSet(r, others) = 0 * Cardinality(others)
        BY <2>1, <2>5, SumOfEqual
    <2>9. 0 * Cardinality(others) = 0
        BY <2>1, FS_CardinalityType
    <2>10. SumFunctionOnSet(r, P) \in Int
        BY <2>1, <2>3, SumIsWhole
    <2> QED BY <2>4, <2>6, <2>7, <2>8, <2>9, <2>10
<1> DEFINE Q == SumFunctionOnSet(q, S)
           R == SumFunctionOnSet(r, S)
<1>11. Q \in Int
    <2>1. IsFiniteSet(S) /\ \A m \in S : q[m] \in Int
        BY <1>3
    <2> HIDE DEF S
    <2> QED BY <2>1, SumIsWhole
<1>12. gross * total = Q * gross + R
    BY <1>6, <1>7, <1>8
<1>13. R \in Nat
    BY <1>9
<1> HIDE DEF Q, R, n
<1> DEFINE left == total - Q
<1>14. left \in Int /\ left * gross = R
    BY <1>2, <1>11, <1>12, <1>13
<1> HIDE DEF left
<1>15. left >= 0
    <2>1. (0 - 1) * gross < left * gross
        BY <1>2, <1>13, <1>14
    <2>2. 0 - 1 < left
        BY <1>2, <1>14, <2>1, Cancel
    <2> QED BY <1>14, <2>2
<1>16. ASSUME NEW P \in SUBSET S, \A m \in S \ P : r[m] = 0
       PROVE  left <= Cardinality(P)
    <2> DEFINE p == Cardinality(P)
    <2>1. p \in Nat
        <3>1. IsFiniteSet(P)
            BY FS_Subset
        <3> QED BY <3>1, FS_CardinalityType
    <2>2. R <= (gross - 1) * p
        BY <1>10, <1>16 DEF R
    <2> HIDE DEF p, S
    <2>3. (gross - 1) * p = p * gross - p /\ (p + 1) * gross = p * gross + gross
        BY <1>2, <2>1
    <2> DEFINE pg == p * gross
    <2>4. pg \in Int
        BY <1>2, <2>1
    <2>5. R <= pg - p /\ (p + 1) * gross = pg + gross
        BY <2>2, <2>3
    <2> HIDE DEF pg
    <2>6. R < (p + 1) * gross
        BY <1>2, <1>13, <2>1, <2>4, <2>5
    <2>7. left * gross < (p + 1) * gross
        BY <1>14, <2>6
    <2>8. left < p + 1
        BY <1>2, <1>14, <2>1, <2>7, Cancel
    <2>9. left <= p
        BY <1>14, <2>1, <2>8
    <2> QED BY <2>9 DEF p
<1>17. left <= n
    BY <1>16 DEF n
<1>18. \A P \in SUBSET S : (\A m \in S \ P : r[m] = 0) => left <= Cardinality(P)
    BY <1>16
<1>19. left = total - Total(q)
    BY <1>5 DEF left, Q
<1>20. left \in 0..n
    BY <1>4, <1>14, <1>15, <1>17
<1> HIDE DEF S
<1> QED BY <1>18, <1>19, <1>20 DEF q, r, n, S

LEMMA ProportionalIsWhole ==
    ASSUME NEW total \in Int, NEW items, IsFiniteSet(DOMAIN items), DOMAIN items \subseteq Int,
           \A m \in DOMAIN items : items[m] \in Int,
           ItemsAllowed(total, items)
    PROVE  LET shares == ProportionalShares(total, items) IN
           /\ DOMAIN shares = DOMAIN items
           /\ \A m \in DOMAIN items : shares[m] \in Nat
           /\ Total(shares) = total
<1> DEFINE S == DOMAIN items
           q == Scaled(total, items)
           left == total - Total(q)
           extra == OneEach(S, ByFraction(total, items), left)
           shares == ProportionalShares(total, items)
<1>1. DOMAIN q = S /\ DOMAIN shares = S
    BY DEF Scaled, ProportionalShares
<1>2. \A m \in S : q[m] \in Nat /\ extra[m] \in Nat /\ shares[m] = q[m] + extra[m]
    BY ScaledPrices, OneEachIs DEF ProportionalShares
<1>3. Line(S, ByFraction(total, items))
    <2>1. \A m \in S : Fractions(total, items)[m] \in Int
        BY ScaledPrices
    <2> QED BY <2>1, FractionsAreALine
<1>4. left \in 0..Cardinality(S)
    BY LeftoverIsSmall
<1>5. IsFiniteSet(S)
    OBVIOUS
<1>6. Total(shares) = SumFunctionOnSet(shares, S) /\ Total(q) = SumFunctionOnSet(q, S)
    BY <1>1 DEF Total, SumFunction
<1> HIDE DEF left, S
<1>7. SumFunctionOnSet(extra, S) = left
    BY <1>3, <1>4, <1>5, OneEachIsAll
<1> HIDE DEF extra, shares, q
<1>8. SumFunctionOnSet(shares, S) = SumFunctionOnSet(q, S) + SumFunctionOnSet(extra, S)
    <2>1. \A m \in S : q[m] \in Int /\ extra[m] \in Int
        BY <1>2
    <2> QED BY <1>2, <1>5, <2>1, SumOfTwo
<1>9. SumFunctionOnSet(q, S) \in Int
    <2>1. \A m \in S : q[m] \in Int
        BY <1>2
    <2> QED BY <1>5, <2>1, SumIsWhole
<1>10. Total(shares) = total
    BY <1>6, <1>7, <1>8, <1>9 DEF left
<1>11. \A m \in S : shares[m] \in Nat
    BY <1>2
<1> QED BY <1>1, <1>10, <1>11 DEF shares, S

(* Of two dishes the dearer is in front when the last dong are handed out. *)
LEMMA ProportionalIsFair ==
    ASSUME NEW total \in Int, NEW items, IsFiniteSet(DOMAIN items), DOMAIN items \subseteq Int,
           \A m \in DOMAIN items : items[m] \in Int,
           ItemsAllowed(total, items)
    PROVE  LET shares == ProportionalShares(total, items)
               gross  == Total(items)
           IN  \A m, k \in DOMAIN items :
                 /\ shares[m] * gross - items[m] * total < gross
                 /\ items[m] * total - shares[m] * gross < gross
                 /\ items[m] > items[k] => shares[m] >= shares[k]
<1> DEFINE S == DOMAIN items
           gross == Total(items)
           q == Scaled(total, items)
           r == Fractions(total, items)
           before == ByFraction(total, items)
           count == total - Total(q)
           extra == OneEach(S, before, count)
           shares == ProportionalShares(total, items)
<1>1. gross \in Nat \ {0} /\ total \in Nat \ {0}
    <2>1. gross \in Nat \ {0}
        BY ScaledPrices
    <2>2. total \in Nat \ {0}
        BY DEF ItemsAllowed
    <2> QED BY <2>1, <2>2
<1>2. \A m \in S : q[m] \in Nat /\ r[m] \in 0..(gross - 1) /\ items[m] * total = gross * q[m] + r[m]
    BY ScaledPrices
<1>3. \A m \in S : extra[m] \in 0..1 /\ shares[m] = q[m] + extra[m]
    BY OneEachIs DEF ProportionalShares
<1>4. count \in 0..Cardinality(S)
    BY LeftoverIsSmall
<1>5. Line(S, before)
    <2>1. \A m \in S : r[m] \in Int
        BY <1>2
    <2> QED BY <2>1, FractionsAreALine
<1>6. \A m, k \in S : r[m] > r[k] => <<m, k>> \in before
    BY DEF ByFraction
<1>7. \A m, k \in S : <<m, k>> \in before => extra[m] >= extra[k]
    <2> SUFFICES ASSUME NEW m \in S, NEW k \in S, <<m, k>> \in before
                 PROVE  extra[m] >= extra[k]
        OBVIOUS
    <2> DEFINE A == {x \in S : <<x, m>> \in before}
               B == {x \in S : <<x, k>> \in before}
    <2>1. A \in SUBSET B
        BY <1>5 DEF Line
    <2>2. IsFiniteSet(B)
        BY FS_Subset
    <2>3. extra[m] = (IF Cardinality(A) < count THEN 1 ELSE 0) /\ extra[k] = (IF Cardinality(B) < count THEN 1 ELSE 0)
        BY DEF OneEach
    <2> HIDE DEF A, B, count, extra
    <2>4. Cardinality(A) <= Cardinality(B) /\ Cardinality(A) \in Nat /\ Cardinality(B) \in Nat
        BY <2>1, <2>2, FS_Subset, FS_CardinalityType
    <2>5. count \in Int
        <3>1. Cardinality(S) \in Nat
            BY FS_CardinalityType
        <3> QED BY <1>4, <3>1
    <2> QED BY <2>3, <2>4, <2>5
<1>8. \A m \in S : items[m] \in Int
    OBVIOUS
<1>12. ASSUME NEW m \in S, r[m] = 0
       PROVE  extra[m] = 0
    <2> DEFINE P == {x \in S : r[x] # 0}
               A == {x \in S : <<x, m>> \in before}
    <2>1. count <= Cardinality(P)
        <3>1. P \in SUBSET DOMAIN items /\ \A x \in DOMAIN items \ P : Fractions(total, items)[x] = 0
            OBVIOUS
        <3> HIDE DEF P
        <3> QED BY <3>1, LeftoverIsSmall
    <2>2. P \in SUBSET A
        <3>1. \A x \in S : r[x] \in Int /\ r[x] >= 0
            BY <1>1, <1>2
        <3>2. \A x \in P : <<x, m>> \in before
            BY <1>6, <1>12, <3>1
        <3> QED BY <3>2
    <2>3. IsFiniteSet(A)
        BY FS_Subset
    <2>4. extra[m] = IF Cardinality(A) < count THEN 1 ELSE 0
        BY DEF OneEach
    <2> HIDE DEF A, P, count, extra
    <2>5. Cardinality(P) <= Cardinality(A) /\ Cardinality(A) \in Nat /\ Cardinality(P) \in Nat
        BY <2>2, <2>3, FS_Subset, FS_CardinalityType
    <2>6. count \in Int
        <3>1. Cardinality(S) \in Nat
            BY FS_CardinalityType
        <3> QED BY <1>4, <3>1
    <2> QED BY <2>1, <2>4, <2>5, <2>6
<1> HIDE DEF S, gross, q, r, before, extra, shares, count
<1>9. ASSUME NEW m \in S
      PROVE  shares[m] * gross - items[m] * total < gross /\ items[m] * total - shares[m] * gross < gross
    <2> DEFINE a == q[m]
               b == r[m]
               e == extra[m]
               i == items[m] * total
    <2>1. a \in Nat /\ b \in 0..(gross - 1) /\ e \in 0..1 /\ shares[m] = a + e /\ i = gross * a + b
        BY <1>2, <1>3
    <2> HIDE DEF a, b, e, i
    <2>2. (a + e) * gross = gross * a + e * gross /\ gross * a \in Int
        BY <1>1, <2>1
    <2>3. e * gross = IF e = 0 THEN 0 ELSE gross
        BY <1>1, <2>1
    <2> DEFINE g == gross * a
    <2>4. shares[m] * gross = g + (IF e = 0 THEN 0 ELSE gross) /\ i = g + b /\ g \in Int
        BY <2>1, <2>2, <2>3
    <2> DEFINE s == shares[m] * gross
    <2> HIDE DEF g, s
    <2>5. s = g \/ (s = g + gross /\ b # 0)
        <3>1. b = 0 => e = 0
            BY <1>12 DEF b, e
        <3> QED BY <1>1, <2>4, <3>1 DEF s
    <2>6. s - i < gross /\ i - s < gross
        <3>1. i = g + b /\ g \in Int
            BY <2>4
        <3>2. b \in Int /\ 0 <= b /\ b < gross /\ gross \in Int
            BY <1>1, <2>1
        <3> QED BY <2>5, <3>1, <3>2
    <2> QED BY <2>6 DEF i, s
<1>10. ASSUME NEW m \in S, NEW k \in S, items[m] > items[k]
       PROVE  shares[m] >= shares[k]
    <2> DEFINE a == q[m]
               b == r[m]
               c == q[k]
               d == r[k]
    <2>1. a \in Nat /\ b \in 0..(gross - 1) /\ c \in Nat /\ d \in 0..(gross - 1)
          /\ items[m] * total = gross * a + b /\ items[k] * total = gross * c + d
        BY <1>2
    <2>2. items[m] * total > items[k] * total
        <3> DEFINE x == items[m]
                   y == items[k]
        <3>1. x \in Int /\ y \in Int /\ x > y /\ total \in Nat \ {0}
            BY <1>1, <1>8, <1>10
        <3> HIDE DEF x, y
        <3> DEFINE z == x - y
        <3>2. z \in Nat \ {0} /\ x = y + z
            BY <3>1
        <3> HIDE DEF z
        <3>3. (y + z) * total = y * total + z * total /\ z * total > 0 /\ y * total \in Int
            BY <3>1, <3>2
        <3>4. x * total > y * total
            BY <3>2, <3>3
        <3> QED BY <3>4 DEF x, y
    <2>3. gross * a + b > gross * c + d
        BY <2>1, <2>2
    <2> HIDE DEF a, b, c, d
    <2>4. a >= c
        <3> SUFFICES ASSUME c > a PROVE FALSE
            BY <2>1
        <3> DEFINE z == c - a
        <3>1. z \in Nat \ {0} /\ c = a + z
            BY <2>1
        <3> HIDE DEF z
        <3>2. gross * (a + z) = gross * a + gross * z /\ gross * a \in Int
            BY <1>1, <2>1, <3>1
        <3>3. gross * z >= gross
            BY <1>1, <3>1
        <3> QED BY <1>1, <2>1, <2>3, <3>1, <3>2, <3>3
    <2>5. CASE a > c
        BY <1>3, <2>1, <2>5 DEF a, c
    <2>6. CASE a = c
        <3>1. b > d
            <4> DEFINE g == gross * a
            <4>1. g \in Int /\ g + b > g + d
                BY <1>1, <2>1, <2>3, <2>6
            <4> HIDE DEF g
            <4> QED BY <2>1, <4>1
        <3>2. extra[m] >= extra[k]
            BY <1>6, <1>7, <3>1 DEF b, d
        <3> QED BY <1>3, <2>1, <2>6, <3>2 DEF a, c
    <2> QED BY <2>1, <2>4, <2>5, <2>6
<1>11. \A m, k \in S :
         /\ shares[m] * gross - items[m] * total < gross
         /\ items[m] * total - shares[m] * gross < gross
         /\ items[m] > items[k] => shares[m] >= shares[k]
    BY <1>9, <1>10
<1> QED BY <1>11 DEF shares, gross, S

LEMMA EqualDeltaIsWhole ==
    ASSUME NEW total \in Int, NEW items, IsFiniteSet(DOMAIN items), DOMAIN items \subseteq Int,
           \A m \in DOMAIN items : items[m] \in Int,
           ItemsAllowed(total, items), EqualDeltaAllowed(total, items)
    PROVE  LET shares == EqualDeltaShares(total, items) IN
           /\ DOMAIN shares = DOMAIN items
           /\ \A m \in DOMAIN items : shares[m] \in Nat
           /\ Total(shares) = total
<1> DEFINE S == DOMAIN items
           n == Cardinality(S)
           delta == Total(items) - total
           base == delta \div n
           more == OneEach(S, ById(S), delta % n)
           shares == EqualDeltaShares(total, items)
           off == [m \in S |-> base + more[m]]
           each == [m \in S |-> base]
<1>1. DOMAIN shares = S /\ \A m \in S : shares[m] = items[m] - base - more[m]
    BY DEF EqualDeltaShares
<1>2. n \in Nat \ {0}
    BY FS_CardinalityType, FS_EmptySet DEF ItemsAllowed
<1>3. Total(items) = SumFunctionOnSet(items, S) /\ Total(shares) = SumFunctionOnSet(shares, S)
    BY <1>1 DEF Total, SumFunction
<1>4. SumFunctionOnSet(items, S) \in Int
    BY SumIsWhole
<1>5. delta \in Int
    BY <1>3, <1>4
<1>6. base \in Int /\ delta % n \in 0..(n - 1) /\ delta = n * base + (delta % n)
    <2> HIDE DEF delta, n
    <2> QED BY <1>2, <1>5, Division, Zenon DEF base
<1>7. \A m \in S : more[m] \in 0..1
    BY OneEachIs
<1>8. \A m \in S : shares[m] \in Nat
    <2>1. \A m \in S : shares[m] \in Int /\ shares[m] >= 0
        BY <1>1, <1>6, <1>7 DEF EqualDeltaAllowed
    <2> QED BY <2>1
<1>9. Line(S, ById(S)) /\ IsFiniteSet(S) /\ delta % n \in 0..n
    BY <1>2, <1>6, IdsAreALine
<1> HIDE DEF base, delta, n, shares, S
<1>10. SumFunctionOnSet(more, S) = delta % n
    BY <1>9, OneEachIsAll DEF n
<1> HIDE DEF more
<1>11. SumFunctionOnSet(each, S) = base * n
    <2>1. \A m \in S : each[m] = base
        OBVIOUS
    <2> HIDE DEF each
    <2> QED BY <1>6, <1>9, <2>1, SumOfEqual DEF n
<1>12. SumFunctionOnSet(off, S) = SumFunctionOnSet(each, S) + SumFunctionOnSet(more, S)
    <2>1. \A m \in S : each[m] \in Int /\ more[m] \in Int /\ off[m] = each[m] + more[m]
        BY <1>6, <1>7
    <2> HIDE DEF each, off
    <2> QED BY <1>9, <2>1, SumOfTwo
<1>13. SumFunctionOnSet(items, S) = SumFunctionOnSet(shares, S) + SumFunctionOnSet(off, S)
    <2>1. \A m \in S : shares[m] \in Int /\ off[m] \in Int /\ items[m] = shares[m] + off[m]
        <3> TAKE m \in S
        <3>1. items[m] \in Int
            BY DEF S
        <3> QED BY <1>1, <1>6, <1>7, <3>1
    <2> HIDE DEF off
    <2> QED BY <1>9, <2>1, SumOfTwo
<1>14. SumFunctionOnSet(shares, S) \in Int
    <2>1. \A m \in S : shares[m] \in Int
        BY <1>8
    <2> QED BY <1>9, <2>1, SumIsWhole
<1>15. SumFunctionOnSet(off, S) = delta
    <2> DEFINE nb == n * base
    <2>1. base * n = nb /\ nb \in Int
        BY <1>2, <1>6
    <2> HIDE DEF nb
    <2>2. SumFunctionOnSet(each, S) = nb /\ delta = nb + (delta % n)
        BY <1>6, <1>11, <2>1 DEF nb
    <2> QED BY <1>10, <1>12, <2>2
<1>16. Total(shares) = total
    BY <1>3, <1>4, <1>13, <1>14, <1>15 DEF delta
<1> QED BY <1>1, <1>8, <1>16 DEF shares, S

(* Who is on a list. *)
LEMMA ElementsAreFinite ==
    ASSUME NEW S, NEW q \in Seq(S)
    PROVE  IsFiniteSet(ToSet(q))
<1>1. DOMAIN q = 1..Len(q) /\ Len(q) \in Nat
    OBVIOUS
<1>2. IsFiniteSet(1..Len(q))
    BY <1>1, FS_Interval
<1>3. IsFiniteSet({q[i] : i \in 1..Len(q)})
    BY <1>2, ImageIsFinite
<1> QED BY <1>1, <1>3 DEF ToSet

(* The people without a fixed amount. *)
LEMMA FixedIsWhole ==
    ASSUME NEW total \in Int, NEW S, NEW people \in Seq(S), IsInjective(people), NEW fixed, NEW payer,
           \A m \in DOMAIN fixed : fixed[m] \in Int,
           FixedAllowed(total, people, fixed)
    PROVE  LET shares == FixedThenEven(total, people, fixed, payer)
               others == Others(people, fixed)
           IN  /\ DOMAIN shares = ToSet(people)
               /\ \A m \in ToSet(people) : shares[m] \in Nat
               /\ Total(shares) = total
               /\ \A m, k \in others :
                    /\ shares[m] - shares[k] <= 1
                    /\ payer \in others => shares[m] <= shares[payer]
<1> DEFINE P == ToSet(people)
           F == DOMAIN fixed
           O == Others(people, fixed)
           n == Cardinality(O)
           rest == total - Total(fixed)
           base == rest \div n
           before == PayerFirst(people, O, payer)
           extra == OneEach(O, before, rest % n)
           shares == FixedThenEven(total, people, fixed, payer)
           each == [m \in O |-> base]
<1>1. /\ DOMAIN shares = P
      /\ \A m \in P : shares[m] = IF m \in F THEN fixed[m] ELSE base + extra[m]
    BY DEF FixedThenEven
<1>2. IsFiniteSet(P)
    BY ElementsAreFinite
<1>3. F \in SUBSET P /\ O = P \ F /\ O # {}
    BY DEF FixedAllowed, Others
<1>4. IsFiniteSet(F) /\ IsFiniteSet(O)
    BY <1>2, <1>3, FS_Subset
<1>5. n \in Nat \ {0}
    BY <1>3, <1>4, FS_CardinalityType, FS_EmptySet
<1>6. Total(fixed) = SumFunctionOnSet(fixed, F) /\ Total(shares) = SumFunctionOnSet(shares, P)
    BY <1>1 DEF Total, SumFunction
<1>7. SumFunctionOnSet(fixed, F) \in Int
    BY <1>4, SumIsWhole
<1>8. rest \in Nat
    BY <1>6, <1>7 DEF FixedAllowed
<1>9. base \in Nat /\ rest % n \in 0..(n - 1) /\ rest = n * base + (rest % n)
    <2> HIDE DEF rest, n
    <2>1. rest \in Int /\ rest >= 0
        BY <1>8
    <2>2. /\ rest \div n \in Int /\ rest % n \in 0..(n - 1)
          /\ rest = n * (rest \div n) + (rest % n)
          /\ rest >= 0 => rest \div n >= 0
        BY <1>5, <2>1, Division, Zenon
    <2> QED BY <2>1, <2>2
<1>10. \A m \in O : extra[m] \in 0..1 /\ shares[m] = base + extra[m]
    BY <1>1, <1>3, OneEachIs
<1>11. \A m \in P : shares[m] \in Nat
    <2>1. \A m \in F : fixed[m] \in Nat
        BY DEF FixedAllowed
    <2>2. \A m \in O : shares[m] \in Nat
        BY <1>9, <1>10
    <2> QED BY <1>1, <1>3, <2>1, <2>2
<1>12. Line(O, before)
    BY <1>3, PayerFirstIsALine
<1>13. payer \in O => \A m \in O : extra[payer] >= extra[m]
    <2> SUFFICES ASSUME payer \in O, NEW m \in O, m # payer
                 PROVE  extra[payer] >= extra[m]
        BY <1>10
    <2> DEFINE A == {k \in O : <<k, payer>> \in before}
               B == {k \in O : <<k, m>> \in before}
    <2>1. A = {} /\ IsFiniteSet(B)
        BY <1>4, FS_Subset DEF PayerFirst
    <2>2. extra[payer] = (IF Cardinality(A) < rest % n THEN 1 ELSE 0)
          /\ extra[m] = (IF Cardinality(B) < rest % n THEN 1 ELSE 0)
        BY DEF OneEach
    <2> HIDE DEF A, B, rest, n, extra
    <2>3. Cardinality(A) = 0 /\ Cardinality(B) \in Nat
        BY <2>1, FS_EmptySet, FS_CardinalityType
    <2>4. rest % n \in Int
        BY <1>5, <1>9
    <2> QED BY <2>2, <2>3, <2>4
<1>14. \A m, k \in O :
         /\ shares[m] - shares[k] <= 1
         /\ payer \in O => shares[m] <= shares[payer]
    BY <1>9, <1>10, <1>13
<1>15. SumFunctionOnSet(shares, P) = SumFunctionOnSet(shares, F) + SumFunctionOnSet(shares, O)
    <2>1. \A m \in P : shares[m] \in Int
        BY <1>11
    <2> HIDE DEF P, F, O, shares
    <2> QED BY <1>2, <1>3, <2>1, SumOfParts
<1>16. SumFunctionOnSet(fixed, F) = SumFunctionOnSet(shares, F)
    <2>1. \A m \in F : fixed[m] \in Int /\ fixed[m] = shares[m]
        BY <1>1, <1>3
    <2> HIDE DEF F, shares
    <2> QED BY <1>4, <2>1, SumOfSame
<1>17. rest % n \in 0..n
    BY <1>5, <1>9
<1> HIDE DEF rest, base
<1>18. SumFunctionOnSet(extra, O) = rest % n
    <2> HIDE DEF O, before
    <2> QED BY <1>4, <1>12, <1>17, OneEachIsAll
<1> HIDE DEF extra, n, O, shares
<1>19. SumFunctionOnSet(each, O) = base * n
    <2>1. \A m \in O : each[m] = base
        OBVIOUS
    <2>2. base \in Int
        BY <1>9
    <2> HIDE DEF each
    <2> QED BY <1>4, <2>1, <2>2, SumOfEqual DEF n
<1>20. SumFunctionOnSet(shares, O) = SumFunctionOnSet(each, O) + SumFunctionOnSet(extra, O)
    <2>1. \A m \in O : each[m] \in Int /\ extra[m] \in Int /\ shares[m] = each[m] + extra[m]
        BY <1>9, <1>10
    <2> HIDE DEF each
    <2> QED BY <1>4, <2>1, SumOfTwo
<1>21. SumFunctionOnSet(shares, O) = rest
    <2> DEFINE nb == n * base
    <2>1. base * n = nb /\ nb \in Int
        BY <1>5, <1>9
    <2> HIDE DEF nb
    <2>2. SumFunctionOnSet(each, O) = nb /\ rest = nb + (rest % n)
        BY <1>9, <1>19, <2>1 DEF nb
    <2> QED BY <1>18, <1>20, <2>2
<1>22. Total(shares) = total
    BY <1>6, <1>7, <1>15, <1>16, <1>21 DEF rest
<1> QED BY <1>1, <1>11, <1>14, <1>22 DEF shares, O

-----------------------------------------------------------------------------
(* A bill shared by a general split. *)

LEMMA AsManyAsListed ==
    ASSUME NEW S, NEW people \in Seq(S), IsInjective(people)
    PROVE  Cardinality(ToSet(people)) = Len(people)
<1> DEFINE P == ToSet(people)
           n == Len(people)
<1>1. n \in Nat /\ DOMAIN people = 1..n /\ people = [i \in 1..n |-> people[i]]
    BY SeqDef, LenProperties
<1>2. \A i \in 1..n : people[i] \in P
    BY <1>1 DEF ToSet
<1>3. \A m \in P : \E i \in 1..n : people[i] = m
    BY <1>1 DEF ToSet
<1> HIDE DEF P, n
<1>4. people \in [1..n -> P]
    BY <1>1, <1>2
<1>5. people \in Bijection(1..n, P)
    BY <1>3, <1>4 DEF Bijection, Injection, Surjection
<1>6. ExistsBijection(1..n, P)
    BY <1>5 DEF ExistsBijection
<1> QED BY <1>1, <1>6, FS_CountingElements DEF P, n

(* A number of whole divisors. *)
LEMMA DivisionOfMultiple ==
    ASSUME NEW b \in Int, NEW n \in Nat \ {0}
    PROVE  (n * b) \div n = b /\ (n * b) % n = 0
<1> DEFINE a == n * b
           q == a \div n
           r == a % n
<1>1. a \in Int
    OBVIOUS
<1> HIDE DEF a
<1>2. q \in Int /\ r \in 0..(n - 1) /\ a = n * q + r
    BY <1>1, Division
<1> HIDE DEF q, r
<1>3. ~(q < b)
    <2> SUFFICES ASSUME q < b PROVE FALSE
        OBVIOUS
    <2> DEFINE d == b - q - 1
    <2>1. d \in Nat /\ b = q + 1 + d
        BY <1>2
    <2> HIDE DEF d
    <2>2. n * (q + 1 + d) = n * q + n + n * d
        BY <1>2, <2>1
    <2>3. n * d >= 0 /\ n * d \in Int /\ n * q \in Int
        BY <1>2, <2>1
    <2> QED BY <1>2, <2>1, <2>2, <2>3 DEF a
<1>4. ~(b < q)
    <2> SUFFICES ASSUME b < q PROVE FALSE
        OBVIOUS
    <2> DEFINE d == q - b - 1
    <2>1. d \in Nat /\ q = b + 1 + d
        BY <1>2
    <2> HIDE DEF d
    <2>2. n * (b + 1 + d) = n * b + n + n * d
        BY <1>2, <2>1
    <2>3. n * d >= 0 /\ n * d \in Int /\ n * b \in Int
        BY <1>2, <2>1
    <2> QED BY <1>2, <2>1, <2>2, <2>3 DEF a
<1>5. q = b
    BY <1>2, <1>3, <1>4
<1> QED BY <1>1, <1>2, <1>5 DEF a, q, r

(* An equal base, everyone's own adjustment, and the remainder on the keeper. *)
BaseAndOwn(shares, total, members, heads, adj, payer) ==
  LET base == PerHead(total, heads, adj)
      left == (total - Total(adj)) % Len(heads)
  IN  /\ shares = [m \in ToSet(members) |->
                      base + AdjustmentOf(adj, m) + (IF m = Keeper(members, payer) THEN left ELSE 0)]
      /\ base \in Int /\ left \in Int

(* split_shares: what everyone owes, and that it is the bill. *)
LEMMA GeneralSplit ==
    ASSUME NEW total \in Int, NEW S, NEW people \in Seq(S), NEW adj, NEW payer,
           \A m \in DOMAIN adj : adj[m] \in Int,
           SplitAllowed(total, people, adj)
    PROVE  LET shares == SplitShares(total, people, adj, payer) IN
           /\ BaseAndOwn(shares, total, people, people, adj, payer)
           /\ \A m \in ToSet(people) : shares[m] \in Nat
           /\ Total(shares) = total
<1> DEFINE P == ToSet(people)
           D == DOMAIN adj
           n == Len(people)
           rest == total - Total(adj)
           base == PerHead(total, people, adj)
           left == rest % n
           keeper == Keeper(people, payer)
           mine == [m \in P |-> AdjustmentOf(adj, m)]
           each == [m \in P |-> base]
           raw == [m \in P |-> base + AdjustmentOf(adj, m)]
           shares == SplitShares(total, people, adj, payer)
<1>1. shares = [raw EXCEPT ![keeper] = @ + total - Total(raw)]
    BY DEF SplitShares
<1>2. n \in Nat \ {0} /\ DOMAIN people = 1..n
    BY LenProperties DEF SplitAllowed
<1>3. keeper \in P
    BY <1>2 DEF Keeper, ToSet
<1>4. IsFiniteSet(P) /\ Cardinality(P) = n
    BY ElementsAreFinite, AsManyAsListed DEF SplitAllowed
<1>5. D \in SUBSET P /\ IsFiniteSet(D)
    BY <1>4, FS_Subset DEF SplitAllowed
<1>6. Total(adj) = SumFunctionOnSet(adj, D) /\ Total(adj) \in Int
    <2>1. Total(adj) = SumFunctionOnSet(adj, D)
        BY DEF Total, SumFunction
    <2>2. SumFunctionOnSet(adj, D) \in Int
        BY <1>5, SumIsWhole
    <2> QED BY <2>1, <2>2
<1>7. base \in Int /\ left \in 0..(n - 1) /\ rest = n * base + left
    <2>1. base = rest \div n
        BY DEF PerHead
    <2>2. rest \in Int
        BY <1>6
    <2> HIDE DEF rest, n, base
    <2> QED BY <1>2, <2>1, <2>2, Division
<1>8. \A m \in P : mine[m] \in Int /\ (m \in D => mine[m] = adj[m]) /\ (m \notin D => mine[m] = 0)
    BY DEF AdjustmentOf
<1>9. \A m \in P : raw[m] = each[m] + mine[m] /\ each[m] = base
    OBVIOUS
<1>10. \A m \in P : raw[m] >= 0
    BY DEF SplitAllowed
<1> HIDE DEF base, left, keeper, rest, P, D, n, mine, each
<1>11. SumFunctionOnSet(mine, P) = Total(adj)
    <2>1. SumFunctionOnSet(mine, P) = SumFunctionOnSet(mine, D) + SumFunctionOnSet(mine, P \ D)
        BY <1>4, <1>5, <1>8, SumOfParts
    <2>2. SumFunctionOnSet(mine, D) = SumFunctionOnSet(adj, D)
        <3>1. \A m \in D : mine[m] \in Int /\ mine[m] = adj[m]
            BY <1>5, <1>8
        <3> QED BY <1>5, <3>1, SumOfSame
    <2>3. SumFunctionOnSet(mine, P \ D) = 0 * Cardinality(P \ D)
        <3>1. \A m \in P \ D : mine[m] = 0
            BY <1>8
        <3>2. IsFiniteSet(P \ D)
            BY <1>4, FS_Subset
        <3> DEFINE others == P \ D
        <3> HIDE DEF others
        <3>3. \A m \in others : mine[m] = 0
            BY <3>1 DEF others
        <3>4. IsFiniteSet(others)
            BY <3>2 DEF others
        <3>5. SumFunctionOnSet(mine, others) = 0 * Cardinality(others)
            BY <3>3, <3>4, SumOfEqual
        <3> QED BY <3>5 DEF others
    <2>4. 0 * Cardinality(P \ D) = 0
        BY <1>4, FS_Subset, FS_CardinalityType
    <2> QED BY <1>6, <2>1, <2>2, <2>3, <2>4
<1>12. SumFunctionOnSet(each, P) = base * n
    BY <1>4, <1>7, <1>9, SumOfEqual
<1>13. SumFunctionOnSet(raw, P) = SumFunctionOnSet(each, P) + SumFunctionOnSet(mine, P)
    <2>1. \A m \in P : each[m] \in Int /\ mine[m] \in Int /\ raw[m] = each[m] + mine[m]
        BY <1>7, <1>8, <1>9
    <2> HIDE DEF raw
    <2> QED BY <1>4, <2>1, SumOfTwo
<1>14. Total(raw) = SumFunctionOnSet(raw, P)
    BY DEF Total, SumFunction
<1>15. total - Total(raw) = left
    <2> DEFINE nb == n * base
    <2>1. base * n = nb /\ nb \in Int
        BY <1>2, <1>7
    <2> HIDE DEF nb
    <2>2. rest = nb + left /\ SumFunctionOnSet(each, P) = nb
        BY <1>7, <1>12, <2>1 DEF nb
    <2> HIDE DEF raw
    <2> QED BY <1>6, <1>7, <1>11, <1>13, <1>14, <2>1, <2>2 DEF rest
<1>16. \A m \in P : raw[m] \in Int /\ raw[m] = base + AdjustmentOf(adj, m)
    BY <1>7, <1>8, <1>9
<1>17. DOMAIN raw = P
    OBVIOUS
<1> DEFINE full == [m \in P |-> base + AdjustmentOf(adj, m) + (IF m = keeper THEN left ELSE 0)]
<1>18. shares = full
    <2>1. shares = [m \in P |-> IF m = keeper THEN raw[m] + total - Total(raw) ELSE raw[m]]
        <3> HIDE DEF raw, shares
        <3> QED BY <1>1, <1>3, <1>17
    <2> HIDE DEF shares
    <2>2. \A m \in P : (IF m = keeper THEN raw[m] + total - Total(raw) ELSE raw[m]) = full[m]
        <3> TAKE m \in P
        <3>0. Total(raw) \in Int
            <4>1. SumFunctionOnSet(raw, P) \in Int
                <5> HIDE DEF raw
                <5> QED BY <1>4, <1>16, SumIsWhole
            <4> QED BY <1>14, <4>1
        <3>1. full[m] = base + AdjustmentOf(adj, m) + (IF m = keeper THEN left ELSE 0)
            OBVIOUS
        <3>2. raw[m] \in Int /\ raw[m] = base + AdjustmentOf(adj, m)
            BY <1>16
        <3> HIDE DEF raw, full
        <3> QED BY <1>7, <1>15, <3>0, <3>1, <3>2
    <2> HIDE DEF raw
    <2> QED BY <2>1, <2>2
<1>19. \A m \in P : full[m] = raw[m] + (IF m = keeper THEN left ELSE 0)
    BY <1>7
<1> HIDE DEF raw, shares
<1>20. \A m \in P : shares[m] \in Nat
    BY <1>7, <1>10, <1>16, <1>18, <1>19
<1>21. SumFunctionOnSet(shares, P) = total
    <2>1. SumFunctionOnSet(shares, P) = shares[keeper] + SumFunctionOnSet(shares, P \ {keeper})
        <3>1. \A m \in P : shares[m] \in Int
            BY <1>20
        <3> QED BY <1>3, <1>4, <3>1, SumTakesOut
    <2>2. SumFunctionOnSet(raw, P) = raw[keeper] + SumFunctionOnSet(raw, P \ {keeper})
        BY <1>3, <1>4, <1>16, SumTakesOut
    <2> DEFINE others == P \ {keeper}
    <2>3. \A m \in others : shares[m] \in Int /\ shares[m] = raw[m]
        BY <1>16, <1>18, <1>19
    <2>4. IsFiniteSet(others)
        BY <1>4, FS_Subset
    <2>5. shares[keeper] = raw[keeper] + left
        BY <1>3, <1>18, <1>19
    <2> HIDE DEF others
    <2>6. SumFunctionOnSet(shares, others) = SumFunctionOnSet(raw, others)
        BY <2>3, <2>4, SumOfSame
    <2>7. SumFunctionOnSet(shares, others) \in Int
        BY <2>3, <2>4, SumIsWhole
    <2>8. raw[keeper] \in Int /\ left \in Int
        BY <1>3, <1>7, <1>16
    <2>9. SumFunctionOnSet(shares, P) = SumFunctionOnSet(raw, P) + left
        BY <2>1, <2>2, <2>5, <2>6, <2>7, <2>8 DEF others
    <2>10. SumFunctionOnSet(raw, P) \in Int
        BY <1>4, <1>16, SumIsWhole
    <2> QED BY <1>14, <1>15, <2>8, <2>9, <2>10
<1>22. Total(shares) = total
    BY <1>18, <1>21 DEF Total, SumFunction
<1>23. left \in Int
    BY <1>2, <1>7
<1>24. BaseAndOwn(shares, total, people, people, adj, payer)
    BY <1>7, <1>18, <1>23 DEF BaseAndOwn, base, left, keeper, rest, P, n
<1> QED BY <1>20, <1>22, <1>24 DEF shares, P

(* itemized_adjustments, then split_shares: the same shares. *)
LEMMA ItemsComeBack ==
    ASSUME NEW total \in Nat \ {0}, NEW S, NEW people \in Seq(S), IsInjective(people),
           NEW shares, DOMAIN shares = ToSet(people), ToSet(people) # {},
           shares = [m \in DOMAIN shares |-> shares[m]],
           \A m \in DOMAIN shares : shares[m] \in Nat,
           Total(shares) = total
    PROVE  LET adj == ItemizedAdjustments(total, shares) IN
           /\ SplitAllowed(total, people, adj)
           /\ \A payer : SplitShares(total, people, adj, payer) = shares
<1> DEFINE P == ToSet(people)
           n == Len(people)
           base == total \div n
           adj == ItemizedAdjustments(total, shares)
           D == DOMAIN adj
           nb == n * base
           each == [m \in P |-> base]
           diff == [m \in P |-> shares[m] - base]
<1>1. IsFiniteSet(P) /\ Cardinality(P) = n
    BY ElementsAreFinite, AsManyAsListed
<1>2. n \in Nat \ {0}
    BY <1>1, FS_CardinalityType, FS_EmptySet
<1>3. base \in Nat /\ nb \in Nat
    <2>1. base \in Int /\ base >= 0
        <3> HIDE DEF n
        <3> QED BY <1>2, Division
    <2> HIDE DEF n, base
    <2> QED BY <1>2, <2>1
<1>4. adj = [m \in {k \in P : shares[k] # base} |-> shares[m] - base]
    BY <1>1 DEF ItemizedAdjustments
<1>5. D = {k \in P : shares[k] # base}
    BY <1>4
<1>6. D \in SUBSET P /\ IsFiniteSet(D)
    BY <1>1, <1>5, FS_Subset
<1>7. \A m \in D : adj[m] = shares[m] - base
    BY <1>4
<1>8. \A m \in P : AdjustmentOf(adj, m) = shares[m] - base
    <2> TAKE m \in P
    <2>1. CASE m \in D
        BY <1>7, <2>1 DEF AdjustmentOf
    <2>2. CASE m \notin D
        <3>1. shares[m] = base
            BY <1>5, <2>2
        <3> HIDE DEF base, D, adj
        <3>2. AdjustmentOf(adj, m) = 0
            BY <2>2 DEF AdjustmentOf, D
        <3> QED BY <1>3, <3>1, <3>2
    <2> QED BY <2>1, <2>2
<1> HIDE DEF adj, base, nb
<1>9. \A m \in P : shares[m] \in Nat /\ each[m] = base /\ each[m] \in Int /\ diff[m] \in Int /\ shares[m] = each[m] + diff[m]
    BY <1>3
<1>10. SumFunctionOnSet(shares, P) = total
    BY DEF Total, SumFunction
<1>11. \A m \in D : adj[m] \in Int /\ diff[m] = adj[m]
    BY <1>3, <1>6, <1>7
<1>12. \A m \in P \ D : diff[m] = 0
    BY <1>3, <1>5
<1>13. Total(adj) = SumFunctionOnSet(adj, D) /\ SumFunctionOnSet(adj, D) \in Int
    <2>1. Total(adj) = SumFunctionOnSet(adj, D)
        BY DEF Total, SumFunction
    <2> HIDE DEF D
    <2>2. SumFunctionOnSet(adj, D) \in Int
        BY <1>6, <1>11, SumIsWhole
    <2> QED BY <2>1, <2>2
<1> HIDE DEF P, n, each, diff
<1>14. SumFunctionOnSet(shares, P) = SumFunctionOnSet(each, P) + SumFunctionOnSet(diff, P)
    BY <1>1, <1>9, SumOfTwo
<1>15. SumFunctionOnSet(each, P) = nb
    <2>1. SumFunctionOnSet(each, P) = base * Cardinality(P)
        <3>1. base \in Int /\ \A m \in P : each[m] = base
            BY <1>3, <1>9
        <3> QED BY <1>1, <3>1, SumOfEqual, ZenonT(40)
    <2>2. base * n = nb
        BY <1>2, <1>3 DEF nb
    <2> QED BY <1>1, <2>1, <2>2
<1>16. SumFunctionOnSet(diff, P) = Total(adj)
    <2> DEFINE others == P \ D
    <2>1. IsFiniteSet(others)
        BY <1>1, FS_Subset
    <2>6. \A m \in others : diff[m] = 0
        BY <1>12
    <2> HIDE DEF D
    <2>2. SumFunctionOnSet(diff, P) = SumFunctionOnSet(diff, D) + SumFunctionOnSet(diff, others)
        BY <1>1, <1>6, <1>9, SumOfParts
    <2>3. SumFunctionOnSet(diff, D) = SumFunctionOnSet(adj, D)
        <3>1. \A m \in D : diff[m] \in Int /\ diff[m] = adj[m]
            BY <1>11
        <3> QED BY <1>6, <3>1, SumOfSame
    <2> HIDE DEF others
    <2>4. SumFunctionOnSet(diff, others) = 0 * Cardinality(others)
        <3>1. 0 \in Int
            OBVIOUS
        <3> QED BY <2>1, <2>6, <3>1, SumOfEqual, Zenon
    <2>5. 0 * Cardinality(others) = 0
        BY <2>1, FS_CardinalityType
    <2> QED BY <1>13, <2>2, <2>3, <2>4, <2>5
<1>17. Total(adj) \in Int /\ total - Total(adj) = nb /\ Total(adj) <= total
    BY <1>3, <1>10, <1>13, <1>14, <1>15, <1>16
<1>18. nb \div n = base /\ nb % n = 0
    BY <1>2, <1>3, DivisionOfMultiple DEF nb
<1>19. PerHead(total, people, adj) = base
    BY <1>17, <1>18 DEF PerHead, n
<1>20. \A m \in P : base + AdjustmentOf(adj, m) = shares[m]
    BY <1>3, <1>8, <1>9
<1>21. SplitAllowed(total, people, adj)
    <2>1. \A m \in P : base + AdjustmentOf(adj, m) >= 0
        BY <1>9, <1>20
    <2> QED BY <1>2, <1>6, <1>17, <1>19, <2>1 DEF SplitAllowed, P, n
<1>22. ASSUME NEW payer
       PROVE  SplitShares(total, people, adj, payer) = shares
    <2> DEFINE keeper == Keeper(people, payer)
               all == SplitShares(total, people, adj, payer)
    <2>1. all = [m \in P |-> base + AdjustmentOf(adj, m) + (IF m = keeper THEN nb % n ELSE 0)]
        <3>1. total \in Int /\ \A m \in DOMAIN adj : adj[m] \in Int
            BY <1>11
        <3>2. BaseAndOwn(SplitShares(total, people, adj, payer), total, people, people, adj, payer)
            BY <1>21, <3>1, GeneralSplit, ZenonT(40)
        <3>3. all = [m \in ToSet(people) |->
                              PerHead(total, people, adj) + AdjustmentOf(adj, m)
                                + (IF m = Keeper(people, payer) THEN (total - Total(adj)) % Len(people) ELSE 0)]
            BY <3>2, Zenon DEF BaseAndOwn
        <3> QED BY <1>17, <1>19, <3>3 DEF P, n
    <2> HIDE DEF keeper, all
    <2>2. all = [m \in P |-> base + AdjustmentOf(adj, m) + (IF m = keeper THEN 0 ELSE 0)]
        BY <1>18, <2>1
    <2>3. \A m \in P : base + AdjustmentOf(adj, m) + (IF m = keeper THEN 0 ELSE 0) = shares[m]
        BY <1>9, <1>20
    <2>4. all = [m \in P |-> shares[m]]
        BY <2>2, <2>3
    <2> QED BY <2>4 DEF P, all
<1> QED BY <1>21, <1>22 DEF adj

(* A person's own fraction of the bill, the guests' heads under negative ids. *)
LEMMA AllHeads ==
    ASSUME NEW members \in Seq(Nat), NEW guests \in Nat
    PROVE  LET heads == members \o GuestHeads(guests) IN
           /\ heads \in Seq(Int)
           /\ Len(heads) = Len(members) + guests
           /\ \A m \in ToSet(heads) : m \in Int /\ (m \in ToSet(members) <=> m >= 0)
           /\ ToSet(members) \subseteq ToSet(heads)
           /\ IsInjective(members) <=> IsInjective(heads)
           /\ \A payer \in Nat : members # <<>> => Keeper(heads, payer) = Keeper(members, payer)
<1> DEFINE g == GuestHeads(guests)
           heads == members \o g
           n == Len(members)
<1>1. g \in [1..guests -> Int] /\ \A i \in 1..guests : g[i] = -i
    BY DEF GuestHeads
<1>2. g \in Seq(Int) /\ Len(g) = guests
    <2> HIDE DEF g
    <2> QED BY <1>1, ASequence
<1>3. n \in Nat /\ DOMAIN members = 1..n /\ members \in Seq(Int) /\ \A i \in 1..n : members[i] \in Nat
    <2>1. n \in Nat /\ DOMAIN members = 1..n /\ \A i \in 1..n : members[i] \in Nat
        BY LenProperties, SeqDef
    <2>2. members \in Seq(Int)
        BY <2>1, SequenceOf
    <2> QED BY <2>1, <2>2
<1> HIDE DEF g
<1>4. /\ heads \in Seq(Int) /\ Len(heads) = n + guests
      /\ \A i \in 1 .. n + guests : heads[i] = IF i <= n THEN members[i] ELSE g[i - n]
    BY <1>2, <1>3, ConcatProperties
<1>5. DOMAIN heads = 1 .. n + guests
    BY <1>4, LenProperties
<1> HIDE DEF heads, n
<1>6. \A i \in 1 .. n : i \in DOMAIN heads /\ heads[i] = members[i]
    BY <1>3, <1>4, <1>5
<1>7. \A i \in DOMAIN heads : i \notin 1..n => heads[i] = n - i /\ heads[i] < 0
    BY <1>1, <1>2, <1>3, <1>4, <1>5
<1>8. ToSet(members) \subseteq ToSet(heads)
    BY <1>3, <1>6 DEF ToSet
<1>9. \A m \in ToSet(members) : m \in Nat
    BY <1>3 DEF ToSet
<1>10. \A m \in ToSet(heads) : m \in Int /\ (m \in ToSet(members) <=> m >= 0)
    <2> TAKE m \in ToSet(heads)
    <2>1. PICK i \in DOMAIN heads : m = heads[i]
        BY DEF ToSet
    <2>2. CASE i \in 1..n
        BY <1>3, <1>6, <2>1, <2>2 DEF ToSet
    <2>3. CASE i \notin 1..n
        BY <1>3, <1>5, <1>7, <1>9, <2>1, <2>3
    <2> QED BY <2>2, <2>3
<1>11. IsInjective(members) <=> IsInjective(heads)
    <2>1. IsInjective(heads) => IsInjective(members)
        BY <1>3, <1>6 DEF IsInjective
    <2>2. ASSUME IsInjective(members), NEW i \in DOMAIN heads, NEW j \in DOMAIN heads, heads[i] = heads[j]
          PROVE  i = j
        <3>1. CASE i \in 1..n /\ j \in 1..n
            BY <1>3, <1>6, <2>2, <3>1 DEF IsInjective
        <3>2. CASE i \notin 1..n /\ j \notin 1..n
            BY <1>3, <1>5, <1>7, <2>2, <3>2
        <3>3. CASE i \in 1..n /\ j \notin 1..n
            BY <1>3, <1>6, <1>7, <2>2, <3>3
        <3>4. CASE i \notin 1..n /\ j \in 1..n
            BY <1>3, <1>6, <1>7, <2>2, <3>4
        <3> QED BY <3>1, <3>2, <3>3, <3>4
    <2> QED BY <2>1, <2>2 DEF IsInjective
<1>12. ASSUME NEW payer \in Nat, members # <<>>
       PROVE  Keeper(heads, payer) = Keeper(members, payer)
    <2>1. n # 0
        BY <1>12, EmptySeq DEF n
    <2>2. heads[1] = members[1]
        BY <1>3, <1>6, <2>1
    <2>3. payer \in ToSet(heads) <=> payer \in ToSet(members)
        BY <1>8, <1>10
    <2> QED BY <2>2, <2>3 DEF Keeper
<1> QED BY <1>4, <1>8, <1>10, <1>11, <1>12 DEF heads, g, n

GuestsPayTheRest(shares, guests, base, total) == Total(shares) + guests * base = total

(* split_with_guests: the members' shares and the guests' cash are the bill. *)
LEMMA PlainIsWhole ==
    ASSUME NEW total \in Int, NEW members \in Seq(Nat), NEW guests \in Nat, NEW adj, NEW payer \in Nat,
           DOMAIN adj \subseteq Nat, \A m \in DOMAIN adj : adj[m] \in Int,
           GuestSplitAllowed(total, members, guests, adj)
    PROVE  LET heads  == members \o GuestHeads(guests)
               shares == SplitWithGuests(total, members, guests, adj, payer)
               base   == PerHead(total, heads, adj)
           IN  /\ BaseAndOwn(shares, total, members, heads, adj, payer)
               /\ base \in Int
               /\ \A m \in ToSet(members) : shares[m] \in Nat
               /\ GuestsPayTheRest(shares, guests, base, total)
<1> DEFINE heads == members \o GuestHeads(guests)
           M == ToSet(members)
           A == ToSet(heads)
           all == SplitShares(total, heads, adj, payer)
           shares == SplitWithGuests(total, members, guests, adj, payer)
           base == PerHead(total, heads, adj)
           left == (total - Total(adj)) % Len(heads)
           keeper == Keeper(members, payer)
<1>1. /\ heads \in Seq(Int) /\ Len(heads) = Len(members) + guests
      /\ \A m \in A : m \in Int /\ (m \in M <=> m >= 0)
      /\ M \subseteq A
      /\ IsInjective(members) <=> IsInjective(heads)
      /\ members # <<>> => Keeper(heads, payer) = keeper
    BY AllHeads
<1>2. SplitAllowed(total, heads, adj) /\ Len(members) >= 1
    BY DEF GuestSplitAllowed
<1>3. members # <<>>
    BY <1>2
<1>4. shares = [m \in M |-> all[m]]
    BY DEF SplitWithGuests, Restrict
<1> HIDE DEF heads, M, A
<1>5. /\ base \in Int /\ left \in Int
      /\ all = [m \in A |-> base + AdjustmentOf(adj, m) + (IF m = keeper THEN left ELSE 0)]
      /\ \A m \in A : all[m] \in Nat
      /\ Total(all) = total
    <2>1. Keeper(heads, payer) = keeper
        BY <1>1, <1>3
    <2> HIDE DEF all, base, left, keeper
    <2>2. \A m \in DOMAIN adj : adj[m] \in Int
        OBVIOUS
    <2>3. BaseAndOwn(all, total, heads, heads, adj, payer)
        BY <1>1, <1>2, <2>2, GeneralSplit, ZenonT(40) DEF all
    <2>4. (\A m \in ToSet(heads) : all[m] \in Nat) /\ Total(all) = total
        BY <1>1, <1>2, <2>2, GeneralSplit, ZenonT(40) DEF all
    <2>5. /\ base \in Int /\ left \in Int
          /\ all = [m \in ToSet(heads) |->
                      base + AdjustmentOf(adj, m) + (IF m = Keeper(heads, payer) THEN left ELSE 0)]
        BY <2>3, Zenon DEF BaseAndOwn, base, left
    <2> QED BY <2>1, <2>4, <2>5 DEF A
<1>6. keeper \in M
    BY <1>2 DEF Keeper, ToSet, M
<1> HIDE DEF all, base, left, keeper, shares
<1>7. IsFiniteSet(A) /\ Cardinality(A) = Len(members) + guests /\ Len(members) \in Nat
    <2>1. IsInjective(heads)
        BY <1>2 DEF SplitAllowed
    <2>2. Len(members) \in Nat
        BY LenProperties
    <2> QED BY <1>1, <2>1, <2>2, ElementsAreFinite, AsManyAsListed DEF A
<1>8. IsFiniteSet(M) /\ Cardinality(M) = Len(members)
    <2>1. IsInjective(members)
        BY <1>1, <1>2 DEF SplitAllowed
    <2> QED BY <2>1, ElementsAreFinite, AsManyAsListed DEF M
<1> DEFINE others == A \ M
<1>9. IsFiniteSet(others) /\ Cardinality(others) = guests
    <2>1. A \cap M = M
        BY <1>1
    <2>2. Cardinality(A \ M) = Cardinality(A) - Cardinality(M)
        <3>1. Cardinality(A \ M) = Cardinality(A) - Cardinality(A \cap M)
            BY <1>7, FS_Difference, Zenon
        <3> QED BY <2>1, <3>1
    <2>3. IsFiniteSet(A \ M)
        BY <1>7, FS_Difference
    <2> QED BY <1>7, <1>8, <2>2, <2>3
<1>10. \A m \in others : all[m] = base
    <2> TAKE m \in others
    <2>1. m \in A /\ m \notin DOMAIN adj /\ m # keeper
        BY <1>1, <1>6
    <2>2. AdjustmentOf(adj, m) = 0
        BY <2>1 DEF AdjustmentOf
    <2> QED BY <1>5, <2>1, <2>2
<1> HIDE DEF others
<1>11. SumFunctionOnSet(all, A) = SumFunctionOnSet(all, M) + SumFunctionOnSet(all, others)
    <2>1. \A m \in A : all[m] \in Int
        BY <1>5
    <2> QED BY <1>1, <1>7, <2>1, SumOfParts DEF others
<1>12. SumFunctionOnSet(all, others) = base * guests
    BY <1>5, <1>9, <1>10, SumOfEqual
<1>13. \A m \in M : all[m] \in Nat /\ shares[m] = all[m]
    BY <1>1, <1>4, <1>5
<1>14. SumFunctionOnSet(shares, M) = SumFunctionOnSet(all, M) /\ SumFunctionOnSet(all, M) \in Int
    <2>1. \A m \in M : all[m] \in Int /\ shares[m] \in Int /\ shares[m] = all[m]
        BY <1>13
    <2> QED BY <1>8, <2>1, SumOfSame, SumIsWhole
<1>15. Total(shares) = SumFunctionOnSet(shares, M) /\ Total(all) = SumFunctionOnSet(all, A)
    BY <1>4, <1>5 DEF Total, SumFunction
<1>16. Total(shares) + guests * base = total
    <2> DEFINE gb == guests * base
    <2>1. base * guests = gb /\ gb \in Int
        BY <1>5
    <2> HIDE DEF gb
    <2>2. SumFunctionOnSet(all, others) = gb
        BY <1>12, <2>1
    <2>3. Total(shares) + gb = total
        BY <1>5, <1>11, <1>14, <1>15, <2>1, <2>2
    <2> QED BY <2>3 DEF gb
<1>17. \A m \in M : all[m] = base + AdjustmentOf(adj, m) + (IF m = keeper THEN left ELSE 0)
    BY <1>1, <1>5
<1>18. shares = [m \in M |-> base + AdjustmentOf(adj, m) + (IF m = keeper THEN left ELSE 0)]
    BY <1>4, <1>17
<1>19. left \in Int
    BY <1>5
<1>20. BaseAndOwn(shares, total, members, heads, adj, payer)
    BY <1>5, <1>18, <1>19 DEF BaseAndOwn, base, left, keeper, M
<1>21. GuestsPayTheRest(shares, guests, base, total)
    BY <1>16 DEF GuestsPayTheRest
<1> QED BY <1>5, <1>13, <1>20, <1>21 DEF shares, base, heads, M

(* Without adjustments it is the equal split that cards carry. *)
LEMMA EqualIsGeneral ==
    ASSUME NEW total \in Int, NEW members \in Seq(Nat), NEW guests \in Nat, NEW payer \in Nat
    PROVE  /\ GuestSplitAllowed(total, members, guests, <<>>) <=> EqualSplitAllowed(total, members)
           /\ GuestSplitAllowed(total, members, guests, <<>>) =>
                SplitWithGuests(total, members, guests, <<>>, payer) = EqualShares(total, members, guests, payer)
<1> DEFINE heads == members \o GuestHeads(guests)
           M == ToSet(members)
           none == <<>>
           base == PerHead(total, heads, none)
           n == Len(members)
<1>1. /\ heads \in Seq(Int) /\ Len(heads) = n + guests
      /\ \A m \in ToSet(heads) : m \in Int /\ (m \in M <=> m >= 0)
      /\ M \subseteq ToSet(heads)
      /\ IsInjective(members) <=> IsInjective(heads)
    BY AllHeads
<1>2. DOMAIN none = {}
    OBVIOUS
<1>3. n \in Nat /\ (members # <<>> <=> n >= 1)
    BY LenProperties, EmptySeq
<1>4. \A m \in M : m >= 0
    <2>1. \A i \in DOMAIN members : members[i] \in Nat
        BY LenProperties, SeqDef
    <2> QED BY <2>1 DEF ToSet
<1> HIDE DEF heads, none, M
<1>5. Total(none) = 0
    BY <1>2, SumOfNone DEF Total, SumFunction
<1>6. \A m : AdjustmentOf(none, m) = 0
    BY <1>2 DEF AdjustmentOf
<1>7. base = total \div (n + guests) /\ (total - Total(none)) % Len(heads) = total % (n + guests)
    BY <1>1, <1>5 DEF PerHead
<1> HIDE DEF base, n
<1>8. n >= 1 /\ total > 0 => base \in Nat
    <2> SUFFICES ASSUME n >= 1, total > 0 PROVE base \in Nat
        OBVIOUS
    <2> DEFINE k == n + guests
    <2>1. k \in Nat \ {0}
        BY <1>3
    <2> HIDE DEF k
    <2>2. total \div k \in Int /\ total \div k >= 0
        BY <2>1, Division
    <2> QED BY <1>7, <2>2 DEF k
<1>9. GuestSplitAllowed(total, members, guests, none) <=> EqualSplitAllowed(total, members)
    <2>1. ASSUME EqualSplitAllowed(total, members)
          PROVE  GuestSplitAllowed(total, members, guests, none)
        <3>1. total > 0 /\ n >= 1 /\ IsInjective(heads) /\ base \in Nat
            BY <1>1, <1>3, <1>8, <2>1 DEF EqualSplitAllowed
        <3>2. \A m \in ToSet(heads) : base + AdjustmentOf(none, m) >= 0
            BY <1>6, <3>1
        <3>3. SplitAllowed(total, heads, none)
            BY <1>1, <1>2, <1>3, <1>5, <3>1, <3>2 DEF SplitAllowed, base
        <3> QED BY <1>4, <3>1, <3>3 DEF GuestSplitAllowed, heads, M, n
    <2>2. ASSUME GuestSplitAllowed(total, members, guests, none)
          PROVE  EqualSplitAllowed(total, members)
        <3>1. SplitAllowed(total, heads, none) /\ n >= 1
            BY <2>2 DEF GuestSplitAllowed, heads, n
        <3>2. total > 0 /\ IsInjective(heads)
            BY <3>1 DEF SplitAllowed
        <3> QED BY <1>1, <1>3, <3>1, <3>2 DEF EqualSplitAllowed
    <2> QED BY <2>1, <2>2
<1>10. ASSUME GuestSplitAllowed(total, members, guests, none)
       PROVE  SplitWithGuests(total, members, guests, none, payer) = EqualShares(total, members, guests, payer)
    <2> DEFINE keeper == Keeper(members, payer)
               shares == SplitWithGuests(total, members, guests, none, payer)
               left == total % (n + guests)
    <2>1. /\ shares = [m \in M |-> base + AdjustmentOf(none, m) + (IF m = keeper THEN left ELSE 0)]
          /\ base \in Int /\ left \in Int
        <3>1. DOMAIN none \subseteq Nat /\ \A m \in DOMAIN none : none[m] \in Int
            BY <1>2
        <3> HIDE DEF shares, left, keeper
        <3>2. BaseAndOwn(SplitWithGuests(total, members, guests, none, payer), total, members,
                         members \o GuestHeads(guests), none, payer)
            BY <1>10, <3>1, PlainIsWhole, Zenon
        <3>3. /\ shares = [m \in M |-> base + AdjustmentOf(none, m)
                                     + (IF m = keeper THEN (total - Total(none)) % Len(heads) ELSE 0)]
              /\ base \in Int /\ (total - Total(none)) % Len(heads) \in Int
            BY <3>2, Zenon DEF BaseAndOwn, base, heads, M, shares, keeper
        <3> QED BY <1>7, <3>3 DEF left
    <2> HIDE DEF keeper, left, shares
    <2>2. shares = [m \in M |-> IF m = keeper THEN base + left ELSE base]
        <3>1. \A m \in M : base + AdjustmentOf(none, m) + (IF m = keeper THEN left ELSE 0)
                             = IF m = keeper THEN base + left ELSE base
            BY <1>6, <2>1
        <3> QED BY <2>1, <3>1
    <2>3. EqualShares(total, members, guests, payer) = [m \in M |-> IF m = keeper THEN base + left ELSE base]
        BY <1>7 DEF EqualShares, keeper, left, M, n
    <2> QED BY <2>2, <2>3 DEF shares
<1> QED BY <1>9, <1>10 DEF none

-----------------------------------------------------------------------------
(* Every bill that can be asked for. *)

LEMMA ListsAreSequences ==
    ASSUME NEW people \in Lists
    PROVE  people \in Seq(Eaters) /\ people \in Seq(Nat) /\ IsInjective(people)
<1>1. PICK n \in 0..Cardinality(Eaters) : people \in [1..n -> Eaters]
    BY DEF Lists
<1>2. n \in Nat
    OBVIOUS
<1>3. people \in Seq(Eaters)
    BY <1>1, <1>2, ASequence
<1>4. people \in [1..n -> Nat]
    BY <1>1, EatersAssumption
<1>5. people \in Seq(Nat)
    BY <1>2, <1>4, ASequence
<1> QED BY <1>3, <1>5 DEF Lists

LEMMA MapsArePartial ==
    ASSUME NEW values, values \subseteq Int, NEW f \in PartialMaps(values)
    PROVE  /\ DOMAIN f \in SUBSET Eaters /\ DOMAIN f \subseteq Nat /\ DOMAIN f \subseteq Int
           /\ IsFiniteSet(DOMAIN f) /\ \A m \in DOMAIN f : f[m] \in Int
<1>1. PICK S \in SUBSET Eaters : f \in [S -> values]
    BY DEF PartialMaps
<1>2. IsFiniteSet(S) /\ S \subseteq Nat
    BY EatersAssumption, FS_Subset
<1>3. DOMAIN f = S /\ \A m \in S : f[m] \in values
    BY <1>1
<1>4. S \subseteq Int
    BY <1>2
<1> QED BY <1>2, <1>3, <1>4

(* The bill is one that can be asked for, and the answer is the one that   *)
(* it calls for.                                                           *)
AnswerFits ==
  \/ answer = Refused
  \/ /\ bill.mode = "plain"
     /\ GuestSplitAllowed(bill.total, bill.people, bill.guests, bill.adj)
     /\ answer = Shares(SplitWithGuests(bill.total, bill.people, bill.guests, bill.adj, bill.payer))
  \/ /\ bill.mode = "proportional"
     /\ ItemsAllowed(bill.total, bill.items)
     /\ answer = Shares(ProportionalShares(bill.total, bill.items))
  \/ /\ bill.mode = "equal"
     /\ ItemsAllowed(bill.total, bill.items)
     /\ EqualDeltaAllowed(bill.total, bill.items)
     /\ answer = Shares(EqualDeltaShares(bill.total, bill.items))
  \/ /\ bill.mode = "fixed"
     /\ FixedAllowed(bill.total, bill.people, bill.fixed)
     /\ answer = Shares(FixedThenEven(bill.total, bill.people, bill.fixed, bill.payer))

BillInv == bill \in PlainBills \cup ItemBills \cup FixedBills /\ AnswerFits

LEMMA BillsStep == BillInv /\ [BillsNext]_billVars => BillInv'
<1> SUFFICES ASSUME BillInv, [BillsNext]_billVars
             PROVE  BillInv'
    OBVIOUS
<1>1. CASE UNCHANGED billVars
    BY <1>1 DEF BillInv, AnswerFits, billVars
<1>2. CASE BillsNext
    <2>1. bill' = bill
        BY <1>2 DEF BillsNext
    <2>2. CASE Plain
        BY <2>1, <2>2 DEF BillInv, AnswerFits, Plain
    <2>3. CASE Proportional
        BY <2>1, <2>3 DEF BillInv, AnswerFits, Proportional
    <2>4. CASE EqualDelta
        BY <2>1, <2>4 DEF BillInv, AnswerFits, EqualDelta
    <2>5. CASE Fixed
        BY <2>1, <2>5 DEF BillInv, AnswerFits, Fixed
    <2> QED BY <1>2, <2>2, <2>3, <2>4, <2>5 DEF BillsNext
<1> QED BY <1>1, <1>2

LEMMA PlainBill ==
    ASSUME bill \in PlainBills \cup ItemBills \cup FixedBills, bill.mode = "plain"
    PROVE  /\ bill.total \in Int /\ bill.people \in Seq(Nat) /\ bill.payer \in Nat /\ bill.guests \in Nat
           /\ DOMAIN bill.adj \subseteq Nat /\ \A m \in DOMAIN bill.adj : bill.adj[m] \in Int
<1>1. bill \in PlainBills
    BY DEF ItemBills, FixedBills
<1>2. /\ bill.total \in BillTotals /\ bill.people \in Lists /\ bill.payer \in Eaters
      /\ bill.guests \in GuestCounts /\ bill.adj \in PartialMaps(Differences)
    BY <1>1 DEF PlainBills
<1>3. bill.total \in Int /\ bill.payer \in Nat /\ bill.guests \in Nat /\ Differences \subseteq Int
    BY <1>2, EatersAssumption, BillsAssumption
<1> QED BY <1>2, <1>3, ListsAreSequences, MapsArePartial

LEMMA ItemBill ==
    ASSUME bill \in PlainBills \cup ItemBills \cup FixedBills, bill.mode \in {"proportional", "equal"}
    PROVE  /\ bill.total \in Int /\ IsFiniteSet(DOMAIN bill.items) /\ DOMAIN bill.items \subseteq Int
           /\ \A m \in DOMAIN bill.items : bill.items[m] \in Int
<1>1. bill \in ItemBills
    BY DEF PlainBills, FixedBills
<1>2. bill.total \in BillTotals /\ bill.items \in PartialMaps(Prices)
    BY <1>1 DEF ItemBills
<1>3. bill.total \in Int /\ Prices \subseteq Int
    BY <1>2, BillsAssumption
<1> QED BY <1>2, <1>3, MapsArePartial

LEMMA FixedBill ==
    ASSUME bill \in PlainBills \cup ItemBills \cup FixedBills, bill.mode = "fixed"
    PROVE  /\ bill.total \in Int /\ bill.people \in Seq(Nat) /\ IsInjective(bill.people)
           /\ \A m \in DOMAIN bill.fixed : bill.fixed[m] \in Int
<1>1. bill \in FixedBills
    BY DEF PlainBills, ItemBills
<1>2. bill.total \in BillTotals /\ bill.people \in Lists /\ bill.fixed \in PartialMaps(Prices)
    BY <1>1 DEF FixedBills
<1>3. bill.total \in Int /\ Prices \subseteq Int
    BY <1>2, BillsAssumption
<1> QED BY <1>2, <1>3, ListsAreSequences, MapsArePartial

(* What an answer by price is: whole amounts that make up the bill. *)
LEMMA PricesAreWhole ==
    ASSUME BillInv, Answered, ByPrice
    PROVE  /\ bill.total \in Nat \ {0}
           /\ DOMAIN answer.shares # {}
           /\ answer.shares = [m \in DOMAIN answer.shares |-> answer.shares[m]]
           /\ \A m \in DOMAIN answer.shares : answer.shares[m] \in Nat
           /\ Total(answer.shares) = bill.total
<1> DEFINE total == bill.total
           shares == answer.shares
           items == bill.items
           fixed == bill.fixed
           people == bill.people
           payer == bill.payer
           Fits == /\ total \in Nat \ {0}
                   /\ DOMAIN shares # {}
                   /\ shares = [m \in DOMAIN shares |-> shares[m]]
                   /\ \A m \in DOMAIN shares : shares[m] \in Nat
                   /\ Total(shares) = total
<1>1. bill \in PlainBills \cup ItemBills \cup FixedBills
    BY DEF BillInv
<1>2. answer # Refused
    BY DEF Answered, Refused
<1>3. CASE bill.mode = "proportional"
    <2>1. ItemsAllowed(total, items) /\ shares = ProportionalShares(total, items)
        BY <1>2, <1>3 DEF BillInv, AnswerFits, Shares
    <2>2. /\ total \in Int /\ IsFiniteSet(DOMAIN items) /\ DOMAIN items \subseteq Int
          /\ \A m \in DOMAIN items : items[m] \in Int
        BY <1>1, <1>3, ItemBill
    <2>3. shares = [m \in DOMAIN shares |-> shares[m]]
        BY <2>1 DEF ProportionalShares
    <2> HIDE DEF total, items, shares
    <2>4. DOMAIN shares = DOMAIN items /\ (\A m \in DOMAIN items : shares[m] \in Nat) /\ Total(shares) = total
        BY <2>1, <2>2, ProportionalIsWhole
    <2>5. total > 0 /\ DOMAIN items # {}
        BY <2>1 DEF ItemsAllowed
    <2> QED BY <2>2, <2>3, <2>4, <2>5 DEF total, shares
<1>4. CASE bill.mode = "equal"
    <2>1. ItemsAllowed(total, items) /\ EqualDeltaAllowed(total, items) /\ shares = EqualDeltaShares(total, items)
        BY <1>2, <1>4 DEF BillInv, AnswerFits, Shares
    <2>2. /\ total \in Int /\ IsFiniteSet(DOMAIN items) /\ DOMAIN items \subseteq Int
          /\ \A m \in DOMAIN items : items[m] \in Int
        BY <1>1, <1>4, ItemBill
    <2>3. shares = [m \in DOMAIN shares |-> shares[m]]
        BY <2>1 DEF EqualDeltaShares
    <2> HIDE DEF total, items, shares
    <2>4. DOMAIN shares = DOMAIN items /\ (\A m \in DOMAIN items : shares[m] \in Nat) /\ Total(shares) = total
        BY <2>1, <2>2, EqualDeltaIsWhole
    <2>5. total > 0 /\ DOMAIN items # {}
        BY <2>1 DEF ItemsAllowed
    <2> QED BY <2>2, <2>3, <2>4, <2>5 DEF total, shares
<1>5. CASE bill.mode = "fixed"
    <2>1. FixedAllowed(total, people, fixed) /\ shares = FixedThenEven(total, people, fixed, payer)
        BY <1>2, <1>5 DEF BillInv, AnswerFits, Shares
    <2>2. /\ total \in Int /\ people \in Seq(Nat) /\ IsInjective(people)
          /\ \A m \in DOMAIN fixed : fixed[m] \in Int
        BY <1>1, <1>5, FixedBill
    <2>3. shares = [m \in DOMAIN shares |-> shares[m]]
        BY <2>1 DEF FixedThenEven
    <2> HIDE DEF total, people, fixed, payer, shares
    <2>4. DOMAIN shares = ToSet(people) /\ (\A m \in ToSet(people) : shares[m] \in Nat) /\ Total(shares) = total
        BY <2>1, <2>2, FixedIsWhole
    <2>5. total > 0 /\ ToSet(people) # {}
        BY <2>1 DEF FixedAllowed
    <2> QED BY <2>2, <2>3, <2>4, <2>5 DEF total, shares
<1> QED BY <1>3, <1>4, <1>5 DEF ByPrice

LEMMA BillInvShares == BillInv => BillIsShared
<1> SUFFICES ASSUME BillInv PROVE BillIsShared
    OBVIOUS
<1> DEFINE total == bill.total
           shares == answer.shares
           items == bill.items
           fixed == bill.fixed
           people == bill.people
           payer == bill.payer
           guests == bill.guests
           adj == bill.adj
<1>1. bill \in PlainBills \cup ItemBills \cup FixedBills
    BY DEF BillInv
<1>2. Answered => answer # Refused
    BY DEF Answered, Refused
<1>3. ASSUME Answered, bill.mode = "plain"
      PROVE  GuestSplitAllowed(total, people, guests, adj)
             /\ shares = SplitWithGuests(total, people, guests, adj, payer)
    BY <1>2, <1>3 DEF BillInv, AnswerFits, Shares
<1>4. BillIsWhole
    <2>1. ASSUME Answered, bill.mode = "plain"
          PROVE  /\ \A m \in DOMAIN shares : shares[m] >= 0
                 /\ Total(shares) + guests * PerHead(total, people \o GuestHeads(guests), adj) = total
        <3>1. GuestSplitAllowed(total, people, guests, adj)
              /\ shares = SplitWithGuests(total, people, guests, adj, payer)
            BY <1>3, <2>1
        <3>2. /\ total \in Int /\ people \in Seq(Nat) /\ payer \in Nat /\ guests \in Nat
              /\ DOMAIN adj \subseteq Nat /\ \A m \in DOMAIN adj : adj[m] \in Int
            BY <1>1, <2>1, PlainBill
        <3>3. DOMAIN shares = ToSet(people)
            BY <3>1 DEF SplitWithGuests, Restrict
        <3> HIDE DEF total, people, payer, guests, adj, shares
        <3>4. GuestsPayTheRest(SplitWithGuests(total, people, guests, adj, payer), guests,
                               PerHead(total, people \o GuestHeads(guests), adj), total)
            BY <3>1, <3>2, PlainIsWhole, Zenon
        <3>5. \A m \in ToSet(people) : SplitWithGuests(total, people, guests, adj, payer)[m] \in Nat
            BY <3>1, <3>2, PlainIsWhole, Zenon
        <3> QED BY <3>1, <3>3, <3>4, <3>5 DEF GuestsPayTheRest
    <2>2. ASSUME Answered, ByPrice
          PROVE  (\A m \in DOMAIN shares : shares[m] >= 0) /\ Total(shares) = total
        <3>1. (\A m \in DOMAIN shares : shares[m] \in Nat) /\ Total(shares) = total
            BY <2>2, PricesAreWhole
        <3> QED BY <3>1
    <2>3. bill.mode = "plain" \/ ByPrice
        BY <1>1 DEF PlainBills, ItemBills, FixedBills, ByPrice
    <2> QED BY <2>1, <2>2, <2>3 DEF BillIsWhole, ByPrice
<1>5. EqualSplitIsTheGeneralOne
    <2> SUFFICES ASSUME bill.mode = "plain", adj = <<>>
                 PROVE  /\ GuestSplitAllowed(total, people, guests, adj) <=> EqualSplitAllowed(total, people)
                        /\ Answered => shares = EqualShares(total, people, guests, payer)
        BY DEF EqualSplitIsTheGeneralOne
    <2>1. total \in Int /\ people \in Seq(Nat) /\ payer \in Nat /\ guests \in Nat
        BY <1>1, PlainBill
    <2>2. Answered => GuestSplitAllowed(total, people, guests, adj)
                      /\ shares = SplitWithGuests(total, people, guests, adj, payer)
        BY <1>3
    <2> HIDE DEF total, people, payer, guests, adj, shares
    <2>3. /\ GuestSplitAllowed(total, people, guests, <<>>) <=> EqualSplitAllowed(total, people)
          /\ GuestSplitAllowed(total, people, guests, <<>>) =>
               SplitWithGuests(total, people, guests, <<>>, payer) = EqualShares(total, people, guests, payer)
        BY <2>1, EqualIsGeneral, Zenon
    <2> QED BY <2>2, <2>3
<1>6. ProportionIsFair
    <2> SUFFICES ASSUME Answered, bill.mode = "proportional"
                 PROVE  LET gross == Total(items) IN
                        \A m, k \in DOMAIN items :
                          /\ shares[m] * gross - items[m] * total < gross
                          /\ items[m] * total - shares[m] * gross < gross
                          /\ items[m] > items[k] => shares[m] >= shares[k]
        BY DEF ProportionIsFair
    <2>1. ItemsAllowed(total, items) /\ shares = ProportionalShares(total, items)
        BY <1>2 DEF BillInv, AnswerFits, Shares
    <2>2. /\ total \in Int /\ IsFiniteSet(DOMAIN items) /\ DOMAIN items \subseteq Int
          /\ \A m \in DOMAIN items : items[m] \in Int
        BY <1>1, ItemBill
    <2> HIDE DEF total, items, shares
    <2> QED BY <2>1, <2>2, ProportionalIsFair
<1>7. RestIsEven
    <2> SUFFICES ASSUME Answered, bill.mode = "fixed"
                 PROVE  LET rest == DOMAIN shares \ DOMAIN fixed IN
                        \A m, k \in rest :
                          /\ shares[m] - shares[k] <= 1
                          /\ payer \in rest => shares[m] <= shares[payer]
        BY DEF RestIsEven
    <2>1. FixedAllowed(total, people, fixed) /\ shares = FixedThenEven(total, people, fixed, payer)
        BY <1>2 DEF BillInv, AnswerFits, Shares
    <2>2. /\ total \in Int /\ people \in Seq(Nat) /\ IsInjective(people)
          /\ \A m \in DOMAIN fixed : fixed[m] \in Int
        BY <1>1, FixedBill
    <2> HIDE DEF total, people, fixed, payer, shares
    <2>3. DOMAIN shares = ToSet(people)
          /\ \A m, k \in Others(people, fixed) :
               /\ shares[m] - shares[k] <= 1
               /\ payer \in Others(people, fixed) => shares[m] <= shares[payer]
        BY <2>1, <2>2, FixedIsWhole
    <2>4. Others(people, fixed) = DOMAIN shares \ DOMAIN fixed
        BY <2>3 DEF Others
    <2> QED BY <2>3, <2>4
<1> QED BY <1>4, <1>5, <1>6, <1>7 DEF BillIsShared

LEMMA BillInvSurvives == BillInv => ItemsSurviveTheLedger
<1> SUFFICES ASSUME BillInv, Answered, ByPrice, NEW people \in Lists, ToSet(people) = DOMAIN answer.shares
             PROVE  LET adj == ItemizedAdjustments(bill.total, answer.shares) IN
                    /\ SplitAllowed(bill.total, people, adj)
                    /\ \A payer \in Eaters : SplitShares(bill.total, people, adj, payer) = answer.shares
    BY DEF ItemsSurviveTheLedger
<1> DEFINE total == bill.total
           shares == answer.shares
<1>1. /\ total \in Nat \ {0}
      /\ DOMAIN shares # {}
      /\ shares = [m \in DOMAIN shares |-> shares[m]]
      /\ \A m \in DOMAIN shares : shares[m] \in Nat
      /\ Total(shares) = total
    BY PricesAreWhole
<1>2. people \in Seq(Nat) /\ IsInjective(people)
    BY ListsAreSequences
<1>3. ToSet(people) = DOMAIN shares /\ ToSet(people) # {}
    BY <1>1
<1> HIDE DEF total, shares
<1>4. LET adj == ItemizedAdjustments(total, shares) IN
      /\ SplitAllowed(total, people, adj)
      /\ \A payer : SplitShares(total, people, adj, payer) = shares
    BY <1>1, <1>2, <1>3, ItemsComeBack
<1> QED BY <1>4 DEF total, shares

LEMMA BillsHold == BillsSpec => []BillInv
<1>1. BillsInit => BillInv
    BY DEF BillsInit, BillInv, AnswerFits
<1> QED BY <1>1, BillsStep, PTL DEF BillsSpec

(* Whatever bill is answered, in whatever way it is divided and however    *)
(* many eat: no dong is lost, the guests' cash is the rest of the bill,    *)
(* nobody owes less than nothing, and what rounding leaves over goes where *)
(* money.py says.                                                          *)
THEOREM BillsAreAlwaysShared == BillsSpec => []BillIsShared
BY BillsHold, BillInvShares, PTL

(* Shares by price, written to the ledger as adjustments on an equal       *)
(* split, are accepted and come back as they were: itemized_adjustments    *)
(* undoes split_shares for every list of people and whoever paid.          *)
THEOREM ItemsAlwaysSurviveTheLedger == BillsSpec => []ItemsSurviveTheLedger
BY BillsHold, BillInvSurvives, PTL
-----------------------------------------------------------------------------
(* A share of an amount is a whole number of dong, the shares make up the  *)
(* amount, and nobody is given more than his weight when the weights       *)
(* suffice.                                                                *)
Shared(amount, weights, give) ==
    /\ give \in [DOMAIN weights -> Nat]
    /\ Total(give) = amount
    /\ amount <= Total(weights) => \A w \in DOMAIN weights : give[w] <= weights[w]

LEMMA NoneLeftOver ==
    ASSUME NEW a \in Nat, NEW q \in Nat, NEW g \in Nat \ {0}, NEW amount \in Nat \ {0}, NEW r \in 0..(g - 1),
           a * amount = g * q + r
    PROVE  /\ a = 0 => q = 0 /\ r = 0
           /\ amount < g /\ a > 0 => q < a
           /\ amount = g => q = a
<1>1. a = 0 => q = 0 /\ r = 0
    <2> SUFFICES ASSUME a = 0
                 PROVE  q = 0 /\ r = 0
        OBVIOUS
    <2>1. g * q + r = 0
        OBVIOUS
    <2>2. g * q >= q
        <3>1. g * q = q + (g - 1) * q
            OBVIOUS
        <3>2. (g - 1) * q >= 0
            OBVIOUS
        <3>3. (g - 1) * q \in Int
            OBVIOUS
        <3> QED BY <3>1, <3>2, <3>3
    <2> QED BY <2>1, <2>2
<1>2. amount < g /\ a > 0 => q < a
    <2> SUFFICES ASSUME amount < g, a > 0
                 PROVE  q < a
        OBVIOUS
    <2>1. g * q <= a * amount
        OBVIOUS
    <2>2. a * amount < a * g
        <3>1. a * g = a * amount + a * (g - amount)
            OBVIOUS
        <3>2. a * (g - amount) > 0
            OBVIOUS
        <3> DEFINE x == a * g
                   y == a * amount
                   z == a * (g - amount)
        <3>3. x \in Int /\ y \in Int /\ z \in Int
            OBVIOUS
        <3> HIDE DEF x, y, z
        <3>4. y < x
            BY <3>1, <3>2, <3>3 DEF x, y, z
        <3> QED BY <3>4 DEF x, y
    <2>3. q * g < a * g
        <3> DEFINE x == a * g
                   y == a * amount
                   z == g * q
        <3>1. x \in Int /\ y \in Int /\ z \in Int /\ q * g = z
            OBVIOUS
        <3>2. z <= y /\ y < x
            BY <2>1, <2>2
        <3> HIDE DEF x, y, z
        <3>3. z < x
            BY <3>1, <3>2
        <3> QED BY <3>1, <3>3 DEF x
    <2> QED BY <2>3, Cancel
<1>3. amount = g => q = a
    <2> SUFFICES ASSUME amount = g
                 PROVE  q = a
        OBVIOUS
    <2>1. (q - a) * g = - r /\ (q - a) * g = q * g - a * g
        OBVIOUS
    <2>2. (q - a) * g < 1 * g /\ (-1) * g < (q - a) * g
        BY <2>1
    <2>3. q - a < 1 /\ -1 < q - a
        BY <2>2, Cancel
    <2> QED BY <2>3
<1> QED BY <1>1, <1>2, <1>3

LEMMA AllocateIs ==
    ASSUME NEW amount \in Nat \ {0}, NEW weights, IsFiniteSet(DOMAIN weights), DOMAIN weights \subseteq Int,
           \A w \in DOMAIN weights : weights[w] \in Nat, Total(weights) > 0
    PROVE  Shared(amount, weights, Allocate(amount, weights))
<1> DEFINE S == DOMAIN weights
           q == Scaled(amount, weights)
           r == Fractions(amount, weights)
           g == Total(weights)
           some == {w \in S : weights[w] > 0}
           before == ByFraction(amount, weights)
           left == amount - Total(q)
           extra == OneEach(some, before, left)
           more == [w \in S |-> IF w \in some THEN extra[w] ELSE 0]
           give == Allocate(amount, weights)
<1>1. S # {}
    <2>1. CASE S = {}
        <3>1. Total(weights) = 0
            BY <2>1, SumOfNone DEF Total, SumFunction
        <3> QED BY <3>1
    <2> QED BY <2>1
<1>2. ItemsAllowed(amount, weights)
    BY <1>1 DEF ItemsAllowed
<1>3. g \in Nat \ {0} /\ \A w \in S : q[w] \in Nat /\ r[w] \in 0..(g - 1) /\ weights[w] * amount = g * q[w] + r[w]
    BY <1>2, ScaledPrices
<1>4. \A w \in S : /\ weights[w] = 0 => q[w] = 0 /\ r[w] = 0
                   /\ amount < g /\ weights[w] > 0 => q[w] < weights[w]
                   /\ amount = g => q[w] = weights[w]
    <2> HIDE DEF q, r, g
    <2> QED BY <1>3, NoneLeftOver
<1>5. some \in SUBSET S /\ IsFiniteSet(some) /\ IsFiniteSet(S)
    BY FS_Subset
<1>6. left \in 0..Cardinality(some)
    <2>1. left \in 0..Cardinality(S)
        BY <1>2, LeftoverIsSmall
    <2>2. left <= Cardinality(some)
        <3>1. \A w \in S \ some : Fractions(amount, weights)[w] = 0
            BY <1>4
        <3> HIDE DEF some
        <3> QED BY <1>2, <1>5, <3>1, LeftoverIsSmall
    <2>3. Cardinality(some) \in Nat /\ Cardinality(S) \in Nat
        BY <1>5, FS_CardinalityType
    <2> HIDE DEF left, some
    <2> QED BY <2>1, <2>2, <2>3
<1>7. Line(some, before)
    <2>1. \A w \in S : r[w] \in Int
        BY <1>3
    <2>2. Line(S, before)
        BY <2>1, FractionsAreALine
    <2> QED BY <1>5, <2>2 DEF Line
<1>8. SumFunctionOnSet(extra, some) = left
    <2> HIDE DEF some, before, left
    <2> QED BY <1>5, <1>6, <1>7, OneEachIsAll
<1>9. \A w \in some : extra[w] \in 0..1
    BY OneEachIs
<1>10. /\ DOMAIN q = S /\ give = [w \in S |-> q[w] + more[w]]
       /\ \A w \in S : q[w] \in Int /\ more[w] \in 0..1 /\ give[w] = q[w] + more[w]
    <2>1. DOMAIN q = S
        BY DEF Scaled
    <2>2. give = [w \in S |-> q[w] + more[w]]
        BY DEF Allocate
    <2>3. \A w \in S : q[w] \in Int /\ more[w] \in 0..1
        BY <1>3, <1>9
    <2> HIDE DEF give, q, more
    <2> QED BY <2>1, <2>2, <2>3
<1>11. SumFunctionOnSet(more, S) = left
    <2>1. \A w \in S : more[w] \in Int
        BY <1>10
    <2>2. SumFunctionOnSet(more, S) = SumFunctionOnSet(more, some) + SumFunctionOnSet(more, S \ some)
        <3> HIDE DEF more, some
        <3> QED BY <1>5, <2>1, SumOfParts
    <2>3. SumFunctionOnSet(more, some) = SumFunctionOnSet(extra, some)
        <3>1. \A w \in some : more[w] \in Int /\ more[w] = extra[w]
            BY <2>1
        <3> HIDE DEF more, some, extra
        <3> QED BY <1>5, <3>1, SumOfSame
    <2>4. SumFunctionOnSet(more, S \ some) = 0 * Cardinality(S \ some)
        <3>1. \A w \in S \ some : more[w] = 0
            OBVIOUS
        <3>2. IsFiniteSet(S \ some)
            BY FS_Subset
        <3> HIDE DEF more, some
        <3> QED BY <3>1, <3>2, SumOfEqual
    <2>5. Cardinality(S \ some) \in Nat
        BY FS_Subset, FS_CardinalityType
    <2>6. left \in Int
        <3>1. Cardinality(some) \in Nat
            BY <1>5, FS_CardinalityType
        <3> HIDE DEF left, some
        <3> QED BY <1>6, <3>1
    <2> HIDE DEF more, some, extra, left
    <2> QED BY <1>8, <2>2, <2>3, <2>4, <2>5, <2>6
<1>12. Total(give) = amount
    <2>1. DOMAIN give = S
        BY <1>10
    <2>2. Total(give) = SumFunctionOnSet(give, S) /\ Total(q) = SumFunctionOnSet(q, S)
        BY <1>10, <2>1 DEF Total, SumFunction
    <2>3. \A w \in S : q[w] \in Int /\ more[w] \in Int /\ give[w] = q[w] + more[w]
        BY <1>10
    <2>4. left = amount - Total(q)
        OBVIOUS
    <2> HIDE DEF give, q, more, left
    <2>5. SumFunctionOnSet(give, S) = SumFunctionOnSet(q, S) + SumFunctionOnSet(more, S)
        BY <1>5, <2>3, SumOfTwo
    <2>6. SumFunctionOnSet(q, S) \in Int
        BY <1>5, <2>3, SumIsWhole
    <2> QED BY <1>11, <2>2, <2>4, <2>5, <2>6
<1>13. ASSUME amount <= g, NEW w \in S
       PROVE  give[w] <= weights[w]
    <2>1. CASE weights[w] = 0
        <3>1. w \notin some
            BY <2>1
        <3>2. give[w] = 0
            BY <1>4, <1>10, <2>1, <3>1
        <3> QED BY <2>1, <3>2
    <2>2. CASE amount < g /\ weights[w] > 0
        <3>1. q[w] < weights[w] /\ give[w] = q[w] + more[w] /\ more[w] \in 0..1 /\ q[w] \in Int /\ weights[w] \in Nat
            BY <1>4, <1>10, <2>2
        <3> HIDE DEF q, give, more
        <3> QED BY <3>1
    <2>3. CASE amount = g
        <3>1. \A x \in S : weights[x] \in Int /\ q[x] = weights[x]
            BY <1>4, <2>3
        <3>2. Total(q) = Total(weights)
            <4>1. Total(q) = SumFunctionOnSet(q, S) /\ Total(weights) = SumFunctionOnSet(weights, S)
                BY <1>10 DEF Total, SumFunction
            <4> HIDE DEF q
            <4> QED BY <1>5, <3>1, <4>1, SumOfSame
        <3>3. left = 0
            BY <2>3, <3>2
        <3>4. more[w] = 0
            <4>1. CASE w \in some
                <5>1. extra[w] = IF Cardinality({k \in some : <<k, w>> \in before}) < left THEN 1 ELSE 0
                    BY <4>1 DEF OneEach
                <5>2. Cardinality({k \in some : <<k, w>> \in before}) \in Nat
                    BY <1>5, FS_Subset, FS_CardinalityType
                <5> HIDE DEF extra, left, some, before
                <5>3. extra[w] = 0
                    BY <3>3, <5>1, <5>2
                <5> QED BY <4>1, <5>3
            <4> QED BY <4>1
        <3>5. give[w] = q[w] + more[w] /\ q[w] \in Int /\ weights[w] \in Nat
            BY <1>10
        <3> HIDE DEF give, q, more
        <3> QED BY <3>1, <3>4, <3>5
    <2>4. weights[w] \in Nat
        OBVIOUS
    <2> HIDE DEF g
    <2> QED BY <1>3, <1>13, <2>1, <2>2, <2>3, <2>4
<1>14. give \in [S -> Nat]
    <2>1. \A w \in S : q[w] + more[w] \in Nat
        <3>1. \A w \in S : q[w] \in Nat /\ more[w] \in 0..1
            BY <1>3, <1>10
        <3> HIDE DEF q, more
        <3> QED BY <3>1
    <2> HIDE DEF give, q, more
    <2> QED BY <1>10, <2>1
<1> HIDE DEF give
<1> QED BY <1>12, <1>13, <1>14 DEF Shared, give

LEMMA SumOfSupport ==
    ASSUME NEW S, IsFiniteSet(S), NEW f, \A x \in S : f[x] \in Int,
           NEW A \in SUBSET S, \A x \in S \ A : f[x] = 0
    PROVE  SumFunctionOnSet(f, S) = SumFunctionOnSet(f, A)
<1>1. SumFunctionOnSet(f, S) = SumFunctionOnSet(f, A) + SumFunctionOnSet(f, S \ A)
    BY SumOfParts
<1>2. IsFiniteSet(A) /\ IsFiniteSet(S \ A)
    BY FS_Subset
<1>3. SumFunctionOnSet(f, S \ A) = 0 * Cardinality(S \ A)
    BY <1>2, SumOfEqual
<1>4. Cardinality(S \ A) \in Nat
    BY <1>2, FS_CardinalityType
<1>5. SumFunctionOnSet(f, A) \in Int
    <2>1. \A x \in A : f[x] \in Int
        OBVIOUS
    <2> QED BY <1>2, <2>1, SumIsWhole
<1> QED BY <1>1, <1>3, <1>4, <1>5

LEMMA NoLessThanFull ==
    ASSUME NEW S, IsFiniteSet(S), NEW f, NEW g, \A x \in S : f[x] \in Int /\ g[x] \in Int /\ f[x] <= g[x],
           SumFunctionOnSet(f, S) = SumFunctionOnSet(g, S)
    PROVE  \A x \in S : f[x] = g[x]
<1> SUFFICES ASSUME NEW x \in S
             PROVE  f[x] = g[x]
    OBVIOUS
<1>1. /\ SumFunctionOnSet(f, S) = f[x] + SumFunctionOnSet(f, S \ {x})
      /\ SumFunctionOnSet(g, S) = g[x] + SumFunctionOnSet(g, S \ {x})
    BY SumTakesOut
<1>2. IsFiniteSet(S \ {x})
    BY FS_Subset
<1>3. SumFunctionOnSet(f, S \ {x}) \in Int /\ SumFunctionOnSet(g, S \ {x}) \in Int
    BY <1>2, SumIsWhole
<1>4. SumFunctionOnSet(f, S \ {x}) <= SumFunctionOnSet(g, S \ {x})
    BY <1>2, SumIsMonotone
<1> DEFINE a == SumFunctionOnSet(f, S \ {x})
           b == SumFunctionOnSet(g, S \ {x})
           y == f[x]
           z == g[x]
<1>5. y + a = z + b
    BY <1>1
<1>6. a \in Int /\ b \in Int /\ a <= b /\ y \in Int /\ z \in Int /\ y <= z
    BY <1>3, <1>4
<1> HIDE DEF a, b, y, z
<1>7. y = z
    BY <1>5, <1>6
<1> QED BY <1>7 DEF y, z

(* Renaming the terms of a sum changes nothing, as long as they stay       *)
(* apart.                                                                  *)
LEMMA SumOfImage ==
    ASSUME NEW S, IsFiniteSet(S), NEW h, \A x, y \in S : h[x] = h[y] => x = y,
           NEW f, NEW g, \A x \in S : f[x] \in Int /\ g[h[x]] = f[x]
    PROVE  SumFunctionOnSet(g, {h[x] : x \in S}) = SumFunctionOnSet(f, S)
<1> DEFINE Im(T) == {h[x] : x \in T}
           G == {T \in SUBSET S : SumFunctionOnSet(g, Im(T)) = SumFunctionOnSet(f, T)}
<1>1. {} \in G
    <2>1. Im({}) = {}
        OBVIOUS
    <2> QED BY <2>1, SumOfNone
<1>2. ASSUME NEW T \in SUBSET S, T # {}, \A x \in T : T \ {x} \in G
      PROVE  T \in G
    <2>1. PICK x \in T : TRUE
        BY <1>2
    <2>2. SumFunctionOnSet(g, Im(T \ {x})) = SumFunctionOnSet(f, T \ {x})
        BY <1>2, <2>1
    <2>3. Im(T \ {x}) = Im(T) \ {h[x]} /\ h[x] \in Im(T)
        BY <2>1
    <2>4. IsFiniteSet(T) /\ IsFiniteSet(Im(T))
        BY FS_Subset, ImageIsFinite
    <2>5. \A y \in Im(T) : g[y] \in Int
        OBVIOUS
    <2>6. SumFunctionOnSet(g, Im(T)) = g[h[x]] + SumFunctionOnSet(g, Im(T) \ {h[x]})
        <3> HIDE DEF Im
        <3> QED BY <2>3, <2>4, <2>5, SumTakesOut
    <2>7. SumFunctionOnSet(f, T) = f[x] + SumFunctionOnSet(f, T \ {x})
        BY <2>1, <2>4, SumTakesOut
    <2>8. g[h[x]] = f[x]
        BY <2>1
    <2> QED BY <2>2, <2>3, <2>6, <2>7, <2>8
<1>3. \A T \in SUBSET S : T \in G
    <2> HIDE DEF G
    <2> QED BY <1>1, <1>2, EverySubset
<1> QED BY <1>3

(* The losers in turn: what each of the losers in T has given is out of    *)
(* the way of the next.                                                    *)
Open(won, given, T) == [w \in DOMAIN won |-> won[w] - SumFunction([k \in T |-> given[k][w]])]
InTurn(owing, won, losers, given) ==
    given = [m \in losers |-> Allocate(owing[m], Open(won, given, {l \in losers : l < m}))]

LEMMA LastOfAll ==
    ASSUME NEW ids, IsFiniteSet(ids), ids \subseteq Int, NEW T \in SUBSET ids, T # {}
    PROVE  \E x \in T : \A y \in T \ {x} : y < x
<1>1. Line(ids, ById(ids))
    BY IdsAreALine
<1>2. \A E, B : IsFiniteSet(E) /\ Line(E, B) =>
         \A U \in SUBSET E : U # {} => \E m \in U : \A y \in U \ {m} : <<y, m>> \in B
    BY LineHasAnEnd, Zenon
<1>3. \A U \in SUBSET ids : U # {} => \E m \in U : \A y \in U \ {m} : <<y, m>> \in ById(ids)
    BY <1>1, <1>2, Zenon
<1>4. PICK x \in T : \A y \in T \ {x} : <<y, x>> \in ById(ids)
    BY <1>3, Zenon
<1> QED BY <1>4 DEF ById

LEMMA TurnsAreTaken ==
    ASSUME NEW losers, IsFiniteSet(losers), losers \subseteq Int, NEW owing, NEW won
    PROVE  \E given : InTurn(owing, won, losers, given)
<1> DEFINE G == {T \in SUBSET losers : \E given : InTurn(owing, won, T, given)}
<1>1. {} \in G
    <2>1. InTurn(owing, won, {}, [m \in {} |-> 0])
        BY DEF InTurn
    <2> QED BY <2>1
<1>2. ASSUME NEW T \in SUBSET losers, T # {}, \A x \in T : T \ {x} \in G
      PROVE  T \in G
    <2>1. PICK x \in T : \A y \in T \ {x} : y < x
        <3> HIDE DEF G
        <3> QED BY <1>2, LastOfAll
    <2>2. \A y \in T \ {x} : y < x /\ y \in Int /\ x \in Int
        BY <2>1
    <2>3. PICK given : InTurn(owing, won, T \ {x}, given)
        BY <1>2, <2>1
    <2> DEFINE Sooner(m) == {l \in T : l < m}
               last == Allocate(owing[x], Open(won, given, Sooner(x)))
               all == [m \in T |-> IF m = x THEN last ELSE given[m]]
    <2>4. \A m \in T : x \notin Sooner(m)
        BY <2>1, <2>2
    <2>5. ASSUME NEW m \in T
          PROVE  Open(won, all, Sooner(m)) = Open(won, given, Sooner(m))
        <3>1. \A k \in Sooner(m) : all[k] = given[k]
            BY <2>4
        <3>2. \A w : [k \in Sooner(m) |-> all[k][w]] = [k \in Sooner(m) |-> given[k][w]]
            BY <3>1
        <3> HIDE DEF all
        <3> QED BY <3>2 DEF Open
    <2>6. ASSUME NEW m \in T \ {x}
          PROVE  Sooner(m) = {l \in T \ {x} : l < m}
        BY <2>4
    <2>7. \A m \in T : all[m] = Allocate(owing[m], Open(won, all, Sooner(m)))
        <3> SUFFICES ASSUME NEW m \in T
                     PROVE  all[m] = Allocate(owing[m], Open(won, all, Sooner(m)))
            OBVIOUS
        <3>1. CASE m = x
            BY <2>5, <3>1
        <3>2. CASE m # x
            <4>1. given[m] = Allocate(owing[m], Open(won, given, {l \in T \ {x} : l < m}))
                BY <2>3, <3>2 DEF InTurn
            <4> QED BY <2>5, <2>6, <3>2, <4>1
        <3> QED BY <3>1, <3>2
    <2>8. InTurn(owing, won, T, all)
        <3>1. all = [m \in T |-> all[m]]
            OBVIOUS
        <3> HIDE DEF all
        <3>2. all = [m \in T |-> Allocate(owing[m], Open(won, all, Sooner(m)))]
            BY <2>7, <3>1
        <3> QED BY <3>2 DEF InTurn
    <2> QED BY <2>8
<1>3. losers \in G
    <2> HIDE DEF G
    <2> QED BY <1>1, <1>2, EverySubset
<1> QED BY <1>3

(* What those in T give to w. *)
Received(given, T, w) == SumFunction([k \in T |-> given[k][w]])

(* Everyone gives what he owes and everyone receives what he won, when the *)
(* two are the same money.                                                 *)
Balanced(losers, owing, won) ==
    /\ IsFiniteSet(losers) /\ losers \subseteq Int /\ \A m \in losers : owing[m] \in Nat \ {0}
    /\ IsFiniteSet(DOMAIN won) /\ DOMAIN won \subseteq Int /\ \A w \in DOMAIN won : won[w] \in Nat
    /\ SumFunctionOnSet(owing, losers) = SumFunctionOnSet(won, DOMAIN won)
HandedOut(losers, owing, won, given) ==
    /\ \A m \in losers : given[m] \in [DOMAIN won -> Nat] /\ Total(given[m]) = owing[m]
    /\ \A w \in DOMAIN won : Received(given, losers, w) = won[w]

LEMMA AllIsHandedOut ==
    ASSUME NEW losers, NEW owing, NEW won, Balanced(losers, owing, won),
           NEW given, InTurn(owing, won, losers, given)
    PROVE  HandedOut(losers, owing, won, given)
<1> IsFiniteSet(losers) /\ losers \subseteq Int /\ (\A m \in losers : owing[m] \in Nat \ {0})
    BY DEF Balanced
<1> IsFiniteSet(DOMAIN won) /\ DOMAIN won \subseteq Int /\ (\A w \in DOMAIN won : won[w] \in Nat)
    BY DEF Balanced
<1> SumFunctionOnSet(owing, losers) = SumFunctionOnSet(won, DOMAIN won)
    BY DEF Balanced
<1> DEFINE D == DOMAIN won
           Got(T) == [w \in D |-> Received(given, T, w)]
           Closed(T) == \A x \in T, y \in losers : y < x => y \in T
           Fits(T) == /\ \A m \in T : given[m] \in [D -> Nat] /\ Total(given[m]) = owing[m]
                      /\ \A w \in D : Got(T)[w] \in Nat /\ Got(T)[w] <= won[w]
                      /\ SumFunctionOnSet(Got(T), D) = SumFunctionOnSet(owing, T)
           G == {T \in SUBSET losers : Closed(T) => Fits(T)}
<1>1. \A m \in losers : owing[m] \in Int
    OBVIOUS
<1>2. \A w \in D : won[w] \in Int
    OBVIOUS
<1>3. {} \in G
    <2>1. \A w \in D : Got({})[w] = 0
        <3> SUFFICES ASSUME NEW w \in D
                     PROVE  Got({})[w] = 0
            OBVIOUS
        <3>1. DOMAIN [k \in {} |-> given[k][w]] = {}
            OBVIOUS
        <3>2. SumFunction([k \in {} |-> given[k][w]]) = 0
            BY <3>1, SumOfNone DEF SumFunction
        <3> QED BY <3>2 DEF Received
    <2>2. SumFunctionOnSet(Got({}), D) = 0 * Cardinality(D)
        <3> DEFINE h == Got({})
        <3>1. \A w \in D : h[w] = 0
            BY <2>1
        <3> HIDE DEF h
        <3>2. SumFunctionOnSet(h, D) = 0 * Cardinality(D)
            BY <3>1, SumOfEqual
        <3> QED BY <3>2 DEF h
    <2>3. Cardinality(D) \in Nat
        BY FS_CardinalityType
    <2>4. SumFunctionOnSet(Got({}), D) = 0
        <3> HIDE DEF Got, D
        <3> QED BY <2>2, <2>3
    <2>5. SumFunctionOnSet(owing, {}) = 0
        BY SumOfNone
    <2> HIDE DEF Got
    <2> QED BY <2>1, <2>4, <2>5
<1>4. ASSUME NEW T \in SUBSET losers, T # {}, \A x \in T : T \ {x} \in G
      PROVE  T \in G
    <2> SUFFICES ASSUME Closed(T) PROVE Fits(T)
        OBVIOUS
    <2>1. PICK x \in T : \A y \in T \ {x} : y < x
        <3> HIDE DEF G
        <3> QED BY <1>4, LastOfAll
    <2> DEFINE R == T \ {x}
               open == Open(won, given, R)
    <2>2. R = {l \in losers : l < x}
        <3>1. x \in Int /\ \A l \in R : l \in losers /\ l < x
            BY <2>1
        <3>2. ASSUME NEW l \in losers, l < x
              PROVE  l \in R
            <4>1. l \in T
                BY <2>1, <3>2
            <4>2. l # x
                BY <3>1, <3>2
            <4> QED BY <4>1, <4>2
        <3> HIDE DEF R
        <3> QED BY <3>1, <3>2
    <2>3. Fits(R)
        <3>1. Closed(R)
            <4> SUFFICES ASSUME NEW a \in R, NEW b \in losers, b < a
                         PROVE  b \in R
                OBVIOUS
            <4>1. a < x /\ a \in Int /\ b \in Int /\ x \in Int
                BY <2>1
            <4>2. b < x
                BY <4>1
            <4> QED BY <2>2, <4>2
        <3>2. R \in G
            BY <1>4, <2>1
        <3> HIDE DEF R, Fits, Closed
        <3> QED BY <3>1, <3>2
    <2>4. given[x] = Allocate(owing[x], open)
        BY <2>1, <2>2 DEF InTurn
    <2>5. /\ DOMAIN open = D
          /\ \A w \in D : open[w] = won[w] - Got(R)[w] /\ open[w] \in Nat
        <3>1. DOMAIN open = D /\ \A w \in D : open[w] = won[w] - Got(R)[w]
            BY DEF Open, Received
        <3>2. \A w \in D : Got(R)[w] \in Nat /\ Got(R)[w] <= won[w]
            BY <2>3
        <3>3. ASSUME NEW w \in D
              PROVE  open[w] \in Nat
            <4> DEFINE b == Got(R)[w]
            <4>1. open[w] = won[w] - b /\ b \in Nat /\ b <= won[w] /\ won[w] \in Nat
                BY <3>1, <3>2
            <4> HIDE DEF b, open
            <4> QED BY <4>1
        <3> QED BY <3>1, <3>3
    <2>6. IsFiniteSet(T) /\ IsFiniteSet(R)
        BY FS_Subset
    <2>7. SumFunctionOnSet(owing, T) = owing[x] + SumFunctionOnSet(owing, R) /\ SumFunctionOnSet(owing, R) \in Int
        <3>1. \A m \in T : owing[m] \in Int
            OBVIOUS
        <3>2. SumFunctionOnSet(owing, T) = owing[x] + SumFunctionOnSet(owing, R)
            BY <2>1, <2>6, <3>1, SumTakesOut
        <3>3. \A m \in R : owing[m] \in Int
            OBVIOUS
        <3> HIDE DEF R
        <3>4. SumFunctionOnSet(owing, R) \in Int
            BY <2>6, <3>3, SumIsWhole
        <3> QED BY <3>2, <3>4 DEF R
    <2>8. SumFunctionOnSet(owing, losers) >= SumFunctionOnSet(owing, T)
        <3>1. SumFunctionOnSet(owing, losers) = SumFunctionOnSet(owing, T) + SumFunctionOnSet(owing, losers \ T)
            BY <1>1, SumOfParts
        <3>2. IsFiniteSet(losers \ T)
            BY FS_Subset
        <3>3. SumFunctionOnSet(owing, losers \ T) \in Nat
            BY <3>2, SumIsNatural
        <3>4. SumFunctionOnSet(owing, T) \in Int
            <4>1. \A m \in T : owing[m] \in Int
                OBVIOUS
            <4> QED BY <2>6, <4>1, SumIsWhole
        <3> QED BY <3>1, <3>3, <3>4
    <2>9. Total(open) = SumFunctionOnSet(won, D) - SumFunctionOnSet(owing, R)
        <3> DEFINE got == Got(R)
        <3>1. \A w \in D : open[w] \in Int /\ got[w] \in Int /\ won[w] = open[w] + got[w]
            <4>1. \A w \in D : got[w] \in Nat /\ open[w] \in Nat /\ open[w] = won[w] - got[w]
                BY <2>3, <2>5
            <4> HIDE DEF got, open
            <4> QED BY <1>2, <4>1
        <3>2. Total(open) = SumFunctionOnSet(open, D)
            BY <2>5 DEF Total, SumFunction
        <3>3. SumFunctionOnSet(got, D) = SumFunctionOnSet(owing, R)
            BY <2>3
        <3> HIDE DEF got, open, R
        <3>4. SumFunctionOnSet(won, D) = SumFunctionOnSet(open, D) + SumFunctionOnSet(got, D)
            BY <3>1, SumOfTwo
        <3>5. SumFunctionOnSet(open, D) \in Int /\ SumFunctionOnSet(got, D) \in Int
            BY <3>1, SumIsWhole
        <3> QED BY <3>2, <3>3, <3>4, <3>5
    <2>10. owing[x] \in Nat \ {0} /\ Total(open) > 0 /\ owing[x] <= Total(open)
        <3> DEFINE t1 == SumFunctionOnSet(owing, T)
                   r1 == SumFunctionOnSet(owing, R)
                   l1 == SumFunctionOnSet(owing, losers)
                   o1 == Total(open)
        <3>1. t1 = owing[x] + r1 /\ r1 \in Int /\ l1 >= t1 /\ o1 = l1 - r1
            BY <2>7, <2>8, <2>9
        <3>2. l1 \in Int
            BY <1>1, SumIsWhole
        <3>3. owing[x] \in Nat \ {0}
            BY <2>1
        <3> HIDE DEF t1, r1, l1, o1
        <3>4. o1 > 0 /\ owing[x] <= o1
            BY <3>1, <3>2, <3>3
        <3> QED BY <3>3, <3>4 DEF o1
    <2>11. Shared(owing[x], open, given[x])
        <3>1. DOMAIN open \subseteq Int /\ IsFiniteSet(DOMAIN open) /\ \A w \in DOMAIN open : open[w] \in Nat
            BY <2>5
        <3> HIDE DEF open
        <3> QED BY <2>4, <2>10, <3>1, AllocateIs
    <2>12. /\ given[x] \in [D -> Nat] /\ Total(given[x]) = owing[x]
           /\ \A w \in D : given[x][w] <= open[w]
        BY <2>5, <2>10, <2>11 DEF Shared
    <2>13. \A m \in T : given[m] \in [D -> Nat] /\ Total(given[m]) = owing[m]
        BY <2>3, <2>12
    <2>14. \A w \in D : Got(T)[w] = given[x][w] + Got(R)[w]
        <3> SUFFICES ASSUME NEW w \in D
                     PROVE  Got(T)[w] = given[x][w] + Got(R)[w]
            OBVIOUS
        <3> DEFINE f == [k \in T |-> given[k][w]]
                   g == [k \in R |-> given[k][w]]
        <3>1. Got(T)[w] = SumFunctionOnSet(f, T) /\ Got(R)[w] = SumFunctionOnSet(g, R)
            BY DEF Received, SumFunction
        <3>2. \A k \in T : f[k] \in Int
            BY <2>13
        <3>3. \A k \in R : g[k] \in Int /\ g[k] = f[k]
            BY <3>2
        <3>4. f[x] = given[x][w]
            BY <2>1
        <3> HIDE DEF f, g
        <3>5. SumFunctionOnSet(f, T) = f[x] + SumFunctionOnSet(f, R)
            BY <2>1, <2>6, <3>2, SumTakesOut
        <3> HIDE DEF R
        <3>6. SumFunctionOnSet(g, R) = SumFunctionOnSet(f, R)
            BY <2>6, <3>3, SumOfSame
        <3> HIDE DEF Got
        <3> QED BY <3>1, <3>4, <3>5, <3>6
    <2>15. \A w \in D : Got(T)[w] \in Nat /\ Got(T)[w] <= won[w]
        <3> SUFFICES ASSUME NEW w \in D
                     PROVE  Got(T)[w] \in Nat /\ Got(T)[w] <= won[w]
            OBVIOUS
        <3> DEFINE a == Got(T)[w]
                   b == Got(R)[w]
                   c == given[x][w]
        <3>1. a = c + b /\ c <= open[w] /\ open[w] = won[w] - b
            BY <2>5, <2>12, <2>14
        <3>2. b \in Nat /\ c \in Nat /\ won[w] \in Nat
            BY <2>3, <2>12
        <3> HIDE DEF a, b, c, open
        <3>3. a \in Nat /\ a <= won[w]
            BY <3>1, <3>2
        <3> QED BY <3>3 DEF a
    <2>16. SumFunctionOnSet(Got(T), D) = SumFunctionOnSet(owing, T)
        <3> DEFINE a == Got(T)
                   b == Got(R)
                   c == given[x]
        <3>1. \A w \in D : a[w] = c[w] + b[w]
            BY <2>14
        <3>2. \A w \in D : c[w] \in Int /\ b[w] \in Int
            <4>1. \A w \in D : b[w] \in Nat
                BY <2>3
            <4>2. \A w \in D : c[w] \in Nat
                BY <2>12
            <4> HIDE DEF b, c
            <4> QED BY <4>1, <4>2
        <3>3. SumFunctionOnSet(c, D) = owing[x] /\ SumFunctionOnSet(b, D) = SumFunctionOnSet(owing, R)
            <4>1. DOMAIN c = D
                BY <2>12
            <4> QED BY <2>3, <2>12, <4>1 DEF Total, SumFunction
        <3> HIDE DEF a, b, c, R
        <3>4. SumFunctionOnSet(a, D) = SumFunctionOnSet(c, D) + SumFunctionOnSet(b, D)
            BY <3>1, <3>2, SumOfTwo
        <3> QED BY <2>7, <3>3, <3>4 DEF a
    <2> HIDE DEF Got
    <2> QED BY <2>13, <2>15, <2>16
<1>5. losers \in G
    <2> HIDE DEF G
    <2> QED BY <1>3, <1>4, EverySubset
<1>6. Fits(losers)
    <2>1. Closed(losers)
        OBVIOUS
    <2> HIDE DEF Fits, Closed
    <2> QED BY <1>5, <2>1
<1>7. \A w \in D : Got(losers)[w] = won[w]
    <2> DEFINE got == Got(losers)
    <2>1. \A w \in D : got[w] \in Nat /\ got[w] <= won[w]
        BY <1>6
    <2>2. SumFunctionOnSet(got, D) = SumFunctionOnSet(won, D)
        BY <1>6
    <2> HIDE DEF got
    <2>3. \A w \in D : got[w] \in Int /\ won[w] \in Int /\ got[w] <= won[w]
        BY <1>2, <2>1
    <2>4. \A w \in D : got[w] = won[w]
        <3> HIDE DEF D
        <3>1. IsFiniteSet(D)
            BY DEF D
        <3> QED BY <2>2, <2>3, <3>1, NoLessThanFull
    <2> QED BY <2>4 DEF got
<1>8. \A w \in D : Received(given, losers, w) = won[w]
    BY <1>7
<1> QED BY <1>6, <1>8 DEF HandedOut

(* What the players leave a night with: the house has the rest.            *)
Result(nets, house) ==
    /\ IsFiniteSet(DOMAIN nets) /\ DOMAIN nets \subseteq Int /\ \A m \in DOMAIN nets : nets[m] \in Int
    /\ house \in Nat /\ Total(nets) = -house

LEMMA LossesAndWins ==
    ASSUME NEW nets, NEW house, Result(nets, house)
    PROVE  /\ DOMAIN Losses(nets) \in SUBSET DOMAIN nets /\ DOMAIN Wins(nets) \in SUBSET DOMAIN nets
           /\ IsFiniteSet(DOMAIN Losses(nets)) /\ IsFiniteSet(DOMAIN Wins(nets))
           /\ \A m \in DOMAIN Losses(nets) : nets[m] < 0 /\ Losses(nets)[m] = -nets[m] /\ Losses(nets)[m] \in Nat \ {0}
           /\ \A m \in DOMAIN Wins(nets) : nets[m] > 0 /\ Wins(nets)[m] = nets[m] /\ Wins(nets)[m] \in Nat \ {0}
           /\ Total(Losses(nets)) = Total(Wins(nets)) + house /\ Total(Wins(nets)) \in Nat
<1> DEFINE S == DOMAIN nets
           L == DOMAIN Losses(nets)
           W == DOMAIN Wins(nets)
           lost == [m \in S |-> IF nets[m] < 0 THEN -nets[m] ELSE 0]
           won == [m \in S |-> IF nets[m] > 0 THEN nets[m] ELSE 0]
<1>1. IsFiniteSet(S) /\ \A m \in S : nets[m] \in Int
    BY DEF Result
<1>2. /\ L = {m \in S : nets[m] < 0} /\ W = {m \in S : nets[m] > 0}
      /\ \A m \in L : Losses(nets)[m] = -nets[m]
      /\ \A m \in W : Wins(nets)[m] = nets[m]
    BY DEF Losses, Wins
<1>3. /\ \A m \in L : nets[m] < 0 /\ Losses(nets)[m] \in Nat \ {0}
      /\ \A m \in W : nets[m] > 0 /\ Wins(nets)[m] \in Nat \ {0}
    <2> HIDE DEF L, W
    <2> QED BY <1>1, <1>2
<1>4. L \in SUBSET S /\ W \in SUBSET S /\ IsFiniteSet(L) /\ IsFiniteSet(W)
    <2>1. L \in SUBSET S /\ W \in SUBSET S
        BY <1>2
    <2> HIDE DEF L, W
    <2> QED BY <1>1, <2>1, FS_Subset
<1>5. \A m \in S : lost[m] \in Int /\ won[m] \in Int /\ won[m] = nets[m] + lost[m]
    BY <1>1
<1>6. SumFunctionOnSet(won, S) = SumFunctionOnSet(nets, S) + SumFunctionOnSet(lost, S)
    <2> HIDE DEF won, lost
    <2> QED BY <1>1, <1>5, SumOfTwo
<1>7. SumFunctionOnSet(lost, S) = Total(Losses(nets))
    <2>1. \A m \in S \ L : lost[m] = 0
        BY <1>2
    <2>2. ASSUME NEW m \in L
          PROVE  lost[m] \in Int /\ lost[m] = Losses(nets)[m]
        <3>1. m \in S /\ Losses(nets)[m] = -nets[m] /\ nets[m] < 0
            BY <1>2, <1>4
        <3>2. lost[m] = -nets[m]
            BY <3>1
        <3> HIDE DEF lost
        <3> QED BY <1>5, <3>1, <3>2
    <2>3. Total(Losses(nets)) = SumFunctionOnSet(Losses(nets), L)
        BY DEF Total, SumFunction
    <2> HIDE DEF lost, L
    <2>4. SumFunctionOnSet(lost, S) = SumFunctionOnSet(lost, L)
        BY <1>1, <1>4, <1>5, <2>1, SumOfSupport
    <2>5. SumFunctionOnSet(lost, L) = SumFunctionOnSet(Losses(nets), L)
        BY <1>4, <2>2, SumOfSame
    <2> QED BY <2>3, <2>4, <2>5
<1>8. SumFunctionOnSet(won, S) = Total(Wins(nets))
    <2>1. \A m \in S \ W : won[m] = 0
        BY <1>2
    <2>2. ASSUME NEW m \in W
          PROVE  won[m] \in Int /\ won[m] = Wins(nets)[m]
        <3>1. m \in S /\ Wins(nets)[m] = nets[m] /\ nets[m] > 0
            BY <1>2, <1>4
        <3>2. won[m] = nets[m]
            BY <3>1
        <3> HIDE DEF won
        <3> QED BY <1>5, <3>1, <3>2
    <2>3. Total(Wins(nets)) = SumFunctionOnSet(Wins(nets), W)
        BY DEF Total, SumFunction
    <2> HIDE DEF won, W
    <2>4. SumFunctionOnSet(won, S) = SumFunctionOnSet(won, W)
        BY <1>1, <1>4, <1>5, <2>1, SumOfSupport
    <2>5. SumFunctionOnSet(won, W) = SumFunctionOnSet(Wins(nets), W)
        BY <1>4, <2>2, SumOfSame
    <2> QED BY <2>3, <2>4, <2>5
<1>9. Total(Wins(nets)) \in Nat
    <2>1. \A m \in W : Wins(nets)[m] \in Nat
        BY <1>3
    <2> QED BY <1>4, <2>1, SumIsNatural DEF Total, SumFunction
<1>10. SumFunctionOnSet(lost, S) \in Int
    <2> HIDE DEF lost
    <2> QED BY <1>1, <1>5, SumIsWhole
<1>11. SumFunctionOnSet(nets, S) = -house /\ house \in Nat
    BY DEF Result, Total, SumFunction
<1>12. Total(Losses(nets)) = Total(Wins(nets)) + house
    <2> HIDE DEF lost, won, S
    <2> QED BY <1>6, <1>7, <1>8, <1>9, <1>10, <1>11
<1> HIDE DEF L, W
<1> QED BY <1>2, <1>3, <1>4, <1>9, <1>12 DEF L, W

(* The losers bear the whole cut, nobody more than he has lost.            *)
LEMMA HouseIsPaid ==
    ASSUME NEW nets, NEW house, Result(nets, house)
    PROVE  /\ DOMAIN HouseShares(nets, house) = DOMAIN Losses(nets)
           /\ \A m \in DOMAIN Losses(nets) :
                HouseShares(nets, house)[m] \in Nat /\ HouseShares(nets, house)[m] <= Losses(nets)[m]
           /\ Total(HouseShares(nets, house)) = house
<1> DEFINE L == DOMAIN Losses(nets)
           shares == HouseShares(nets, house)
           free == [m \in L |-> 0]
<1>1. house \in Nat /\ L \subseteq Int
    BY LossesAndWins DEF Result
<1>2. /\ IsFiniteSet(L) /\ \A m \in L : Losses(nets)[m] \in Nat
      /\ Total(Losses(nets)) = Total(Wins(nets)) + house /\ Total(Wins(nets)) \in Nat
    BY LossesAndWins
<1>3. CASE house = 0
    <2>1. shares = free
        BY <1>3 DEF HouseShares
    <2>2. SumFunctionOnSet(free, L) = 0 * Cardinality(L)
        <3>1. \A m \in L : free[m] = 0
            OBVIOUS
        <3>2. IsFiniteSet(L) /\ 0 \in Int
            BY <1>2
        <3> HIDE DEF free, L
        <3> QED BY <3>1, <3>2, SumOfEqual
    <2>3. Cardinality(L) \in Nat
        BY <1>2, FS_CardinalityType
    <2>4. Total(free) = SumFunctionOnSet(free, L)
        BY DEF Total, SumFunction
    <2>5. Total(free) = 0
        <3> HIDE DEF free, L
        <3> QED BY <2>2, <2>3, <2>4
    <2>6. DOMAIN free = L /\ \A m \in L : free[m] \in Nat /\ free[m] <= Losses(nets)[m]
        BY <1>2
    <2> QED BY <1>3, <2>1, <2>5, <2>6
<1>4. CASE house # 0
    <2>1. Losses(nets) # <<>>
        <3> SUFFICES ASSUME Losses(nets) = <<>>
                     PROVE  FALSE
            OBVIOUS
        <3>1. L = {}
            OBVIOUS
        <3>2. Total(Losses(nets)) = 0
            BY <3>1, SumOfNone DEF Total, SumFunction
        <3> QED BY <1>1, <1>2, <1>4, <3>2
    <2>2. shares = Allocate(house, Losses(nets))
        BY <1>4, <2>1 DEF HouseShares
    <2>3. house \in Nat \ {0} /\ Total(Losses(nets)) > 0 /\ house <= Total(Losses(nets))
        BY <1>1, <1>2, <1>4
    <2>4. Shared(house, Losses(nets), Allocate(house, Losses(nets)))
        <3> DEFINE weights == Losses(nets)
        <3>1. IsFiniteSet(DOMAIN weights) /\ DOMAIN weights \subseteq Int /\ \A m \in DOMAIN weights : weights[m] \in Nat
            BY <1>1, <1>2
        <3>2. Total(weights) > 0
            BY <2>3
        <3> HIDE DEF weights
        <3>3. Shared(house, weights, Allocate(house, weights))
            BY <2>3, <3>1, <3>2, AllocateIs
        <3> QED BY <3>3 DEF weights
    <2> HIDE DEF shares, L
    <2> QED BY <2>2, <2>3, <2>4 DEF Shared, shares, L
<1> QED BY <1>3, <1>4

(* The edges of a night, once it is known what each loser gives each winner. *)
GameRow(given, ref, day, p) ==
    [debtor |-> p[1], creditor |-> p[2], kind |-> "game", ref |-> ref, day |-> day, amount |-> given[p[1]][p[2]]]
Handed(losers, winners, given) == {q \in losers \X winners : given[q[1]][q[2]] > 0}
GameRows(losers, winners, given, ref, day) ==
    {GameRow(given, ref, day, p) : p \in Handed(losers, winners, given)}

Dealt(nets, house, losers, given) ==
    /\ losers \in SUBSET DOMAIN Losses(nets)
    /\ \A m \in DOMAIN Losses(nets) \ losers : Losses(nets)[m] = HouseShares(nets, house)[m]
    /\ \A m \in losers : /\ given[m] \in [DOMAIN Wins(nets) -> Nat]
                          /\ Total(given[m]) = Losses(nets)[m] - HouseShares(nets, house)[m]
    /\ \A w \in DOMAIN Wins(nets) : Received(given, losers, w) = Wins(nets)[w]

LEMMA GameIsDealt ==
    ASSUME NEW nets, NEW house, Result(nets, house), NEW ref, NEW day
    PROVE  \E losers, given : /\ Dealt(nets, house, losers, given)
                              /\ GameEdges(ref, day, nets, house) = GameRows(losers, DOMAIN Wins(nets), given, ref, day)
<1> DEFINE toHouse == HouseShares(nets, house)
           owes(m) == -nets[m] - toHouse[m]
           L == DOMAIN Losses(nets)
           losers == {m \in L : owes(m) > 0}
           owing == [m \in L |-> owes(m)]
           won == Wins(nets)
           W == DOMAIN won
           given == CHOOSE f : f = [m \in losers |-> Allocate(owes(m), [w \in DOMAIN Wins(nets) |->
                               Wins(nets)[w] - SumFunction([k \in {l \in losers : l < m} |-> f[k][w]])])]
<1>1. GameEdges(ref, day, nets, house)
        = {[debtor |-> p[1], creditor |-> p[2], kind |-> "game", ref |-> ref, day |-> day,
            amount |-> given[p[1]][p[2]]] :
             p \in {q \in losers \X DOMAIN Wins(nets) : given[q[1]][q[2]] > 0}}
    BY DEF GameEdges
<1>2. GameEdges(ref, day, nets, house) = GameRows(losers, W, given, ref, day)
    <2> HIDE DEF given, losers
    <2> QED BY <1>1, Zenon DEF GameRows, GameRow, Handed
<1>3. losers \in SUBSET L /\ IsFiniteSet(losers) /\ losers \subseteq Int /\ IsFiniteSet(L)
    <2>1. IsFiniteSet(L) /\ L \subseteq Int
        BY LossesAndWins DEF Result
    <2> QED BY <2>1, FS_Subset
<1>4. \A m \in L : owing[m] = Losses(nets)[m] - toHouse[m] /\ owing[m] \in Nat
    <2> SUFFICES ASSUME NEW m \in L
                 PROVE  owing[m] = Losses(nets)[m] - toHouse[m] /\ owing[m] \in Nat
        OBVIOUS
    <2>1. Losses(nets)[m] = -nets[m] /\ Losses(nets)[m] \in Nat
        BY LossesAndWins
    <2>2. toHouse[m] \in Nat /\ toHouse[m] <= Losses(nets)[m]
        BY HouseIsPaid
    <2>3. owing[m] = Losses(nets)[m] - toHouse[m]
        BY <2>1
    <2> HIDE DEF owing, toHouse
    <2> QED BY <2>1, <2>2, <2>3
<1>5. \A m \in losers : owing[m] \in Nat \ {0} /\ owing[m] \in Int
    <2> SUFFICES ASSUME NEW m \in losers
                 PROVE  owing[m] \in Nat \ {0} /\ owing[m] \in Int
        OBVIOUS
    <2>1. m \in L /\ owing[m] > 0
        OBVIOUS
    <2> HIDE DEF owing, losers
    <2> QED BY <1>4, <2>1
<1>6. \A m \in L \ losers : owing[m] = 0
    <2> SUFFICES ASSUME NEW m \in L \ losers
                 PROVE  owing[m] = 0
        OBVIOUS
    <2>1. m \in L /\ ~ (owing[m] > 0)
        OBVIOUS
    <2> HIDE DEF owing, losers
    <2> QED BY <1>4, <2>1
<1>7. SumFunctionOnSet(owing, losers) = SumFunctionOnSet(won, W)
    <2>1. \A m \in L : owing[m] \in Int /\ toHouse[m] \in Int /\ Losses(nets)[m] = owing[m] + toHouse[m]
        <3> SUFFICES ASSUME NEW m \in L
                     PROVE  owing[m] \in Int /\ toHouse[m] \in Int /\ Losses(nets)[m] = owing[m] + toHouse[m]
            OBVIOUS
        <3>1. toHouse[m] \in Nat
            BY HouseIsPaid
        <3>2. owing[m] = Losses(nets)[m] - toHouse[m] /\ owing[m] \in Nat
            BY <1>4
        <3>3. Losses(nets)[m] \in Nat
            BY LossesAndWins
        <3> HIDE DEF owing, toHouse
        <3> QED BY <3>1, <3>2, <3>3
    <2>2. SumFunctionOnSet(toHouse, L) = house
        BY HouseIsPaid DEF Total, SumFunction
    <2>3. SumFunctionOnSet(Losses(nets), L) = SumFunctionOnSet(won, W) + house /\ SumFunctionOnSet(won, W) \in Nat
        BY LossesAndWins DEF Total, SumFunction
    <2>4. house \in Nat
        BY DEF Result
    <2> HIDE DEF owing, toHouse, L, won, losers, W
    <2>5. SumFunctionOnSet(owing, L) = SumFunctionOnSet(owing, losers)
        BY <1>3, <1>6, <2>1, SumOfSupport
    <2>6. SumFunctionOnSet(Losses(nets), L) = SumFunctionOnSet(owing, L) + SumFunctionOnSet(toHouse, L)
        BY <1>3, <2>1, SumOfTwo
    <2>7. SumFunctionOnSet(owing, L) \in Int
        BY <1>3, <2>1, SumIsWhole
    <2> QED BY <2>2, <2>3, <2>4, <2>5, <2>6, <2>7
<1>8. InTurn(owing, won, losers, given)
    <2> DEFINE Is(f) == f = [m \in losers |-> Allocate(owes(m), [w \in DOMAIN Wins(nets) |->
                               Wins(nets)[w] - SumFunction([k \in {l \in losers : l < m} |-> f[k][w]])])]
    <2>1. \A f : Is(f) <=> InTurn(owing, won, losers, f)
        <3> SUFFICES ASSUME NEW f
                     PROVE  Is(f) <=> InTurn(owing, won, losers, f)
            OBVIOUS
        <3>1. \A m \in losers : owes(m) = owing[m]
            OBVIOUS
        <3>2. [m \in losers |-> Allocate(owes(m), Open(won, f, {l \in losers : l < m}))]
                = [m \in losers |-> Allocate(owing[m], Open(won, f, {l \in losers : l < m}))]
            <4> HIDE DEF owing, owes, losers
            <4> QED BY <3>1
        <3>3. Is(f) <=> f = [m \in losers |-> Allocate(owes(m), Open(won, f, {l \in losers : l < m}))]
            <4> HIDE DEF owing, owes, losers
            <4> QED BY Zenon DEF Open
        <3> HIDE DEF Is, owing, owes, losers, won
        <3> QED BY <3>2, <3>3 DEF InTurn
    <2>2. \E f : InTurn(owing, won, losers, f)
        <3> HIDE DEF owing, won, losers
        <3> QED BY <1>3, TurnsAreTaken
    <2>3. given = CHOOSE f : Is(f)
        OBVIOUS
    <2> HIDE DEF Is, given, owing, won, losers
    <2> QED BY <2>1, <2>2, <2>3
<1>9. /\ \A m \in losers : given[m] \in [W -> Nat] /\ Total(given[m]) = owing[m]
      /\ \A w \in W : Received(given, losers, w) = won[w]
    <2>1. IsFiniteSet(W) /\ W \subseteq Int /\ \A w \in W : won[w] \in Nat
        BY LossesAndWins DEF Result
    <2>2. IsFiniteSet(losers) /\ losers \subseteq Int
        BY <1>3
    <2>3. \A m \in losers : owing[m] \in Nat \ {0}
        BY <1>5
    <2> HIDE DEF owing, losers, won, given
    <2>4. Balanced(losers, owing, won)
        BY <1>7, <2>1, <2>2, <2>3, Zenon DEF Balanced
    <2>5. HandedOut(losers, owing, won, given)
        BY <1>8, <2>4, AllIsHandedOut
    <2> QED BY <2>5, Zenon DEF HandedOut
<1>10. Dealt(nets, house, losers, given)
    <2>1. \A m \in losers : Total(given[m]) = Losses(nets)[m] - toHouse[m]
        BY <1>3, <1>4, <1>9
    <2>2. \A m \in L \ losers : Losses(nets)[m] = toHouse[m]
        <3> SUFFICES ASSUME NEW m \in L \ losers
                     PROVE  Losses(nets)[m] = toHouse[m]
            OBVIOUS
        <3>1. owing[m] = 0 /\ owing[m] = Losses(nets)[m] - toHouse[m]
            BY <1>4, <1>6
        <3>2. Losses(nets)[m] \in Nat /\ toHouse[m] \in Nat
            BY LossesAndWins, HouseIsPaid
        <3> HIDE DEF owing, toHouse, L, losers
        <3> QED BY <3>1, <3>2
    <2> HIDE DEF given, owing, losers
    <2> QED BY <1>3, <1>9, <2>1, <2>2 DEF Dealt
<1> HIDE DEF given, losers
<1> QED BY <1>2, <1>10

LEMMA GameRowsAddUp ==
    ASSUME NEW losers, IsFiniteSet(losers), NEW winners, IsFiniteSet(winners),
           NEW given, \A m \in losers : given[m] \in [winners -> Nat], NEW ref, NEW day
    PROVE  LET es == GameRows(losers, winners, given, ref, day) IN
           /\ \A m \in losers : SumOf({e \in es : e.debtor = m}) = Total(given[m])
           /\ \A m : m \notin losers => {e \in es : e.debtor = m} = {}
           /\ \A w \in winners : SumOf({e \in es : e.creditor = w}) = Received(given, losers, w)
           /\ \A e \in es : e.debtor \in losers /\ e.creditor \in winners /\ e.amount > 0
<1> DEFINE es == GameRows(losers, winners, given, ref, day)
           Row(p) == GameRow(given, ref, day, p)
           P == Handed(losers, winners, given)
<1>1. \A p \in P : /\ p = <<p[1], p[2]>> /\ p[1] \in losers /\ p[2] \in winners /\ given[p[1]][p[2]] > 0
                   /\ Row(p).debtor = p[1] /\ Row(p).creditor = p[2] /\ Row(p).amount = given[p[1]][p[2]]
    BY DEF Handed, GameRow
<1>2. es = {Row(p) : p \in P}
    BY DEF GameRows
<1>3. \A m \in losers, w \in winners : given[m][w] \in Nat /\ (given[m][w] > 0 <=> <<m, w>> \in P)
    BY DEF Handed
<1>4. ASSUME NEW m \in losers
      PROVE  SumOf({e \in es : e.debtor = m}) = Total(given[m])
    <2> DEFINE T == {w \in winners : given[m][w] > 0}
               h == [w \in T |-> Row(<<m, w>>)]
               rows == {e \in es : e.debtor = m}
               g == [e \in rows |-> e.amount]
               f == given[m]
    <2>1. rows = {h[w] : w \in T}
        <3>1. ASSUME NEW e \in rows
              PROVE  \E w \in T : e = h[w]
            <4>1. PICK p \in P : e = Row(p)
                BY <1>2
            <4>2. p[1] = m /\ p = <<m, p[2]>> /\ p[2] \in T
                BY <1>1, <4>1
            <4>3. e = h[p[2]]
                BY <4>1, <4>2
            <4> QED BY <4>2, <4>3
        <3>2. ASSUME NEW w \in T
              PROVE  h[w] \in rows
            <4>1. <<m, w>> \in P
                BY <1>3
            <4>2. h[w] = Row(<<m, w>>)
                OBVIOUS
            <4>3. Row(<<m, w>>) \in es /\ Row(<<m, w>>).debtor = m
                BY <1>1, <1>2, <4>1
            <4> HIDE DEF h, es, Row
            <4> QED BY <4>2, <4>3
        <3> HIDE DEF rows, h, T
        <3> QED BY <3>1, <3>2
    <2>2. \A w \in T : h[w].creditor = w /\ h[w].amount = f[w]
        BY DEF GameRow
    <2>3. \A w \in T : f[w] \in Int /\ g[h[w]] = f[w]
        <3> SUFFICES ASSUME NEW w \in T
                     PROVE  f[w] \in Int /\ g[h[w]] = f[w]
            OBVIOUS
        <3>1. h[w] \in rows
            BY <2>1
        <3>2. g[h[w]] = h[w].amount
            <4> HIDE DEF h, rows
            <4> QED BY <3>1
        <3> QED BY <1>3, <2>2, <3>2
    <2>4. T \in SUBSET winners /\ IsFiniteSet(T)
        BY FS_Subset
    <2>5. SumFunctionOnSet(g, rows) = SumFunctionOnSet(f, T)
        <3> HIDE DEF g, rows, h, f, T
        <3> QED BY <2>1, <2>2, <2>3, <2>4, SumOfImage
    <2>6. SumFunctionOnSet(f, winners) = SumFunctionOnSet(f, T)
        <3>1. \A w \in winners : f[w] \in Int
            BY <1>3
        <3>2. \A w \in winners \ T : f[w] = 0
            BY <1>3
        <3> HIDE DEF f, T
        <3> QED BY <2>4, <3>1, <3>2, SumOfSupport
    <2>7. DOMAIN f = winners /\ DOMAIN g = rows
        BY <1>4
    <2> HIDE DEF f, g, rows
    <2>8. Total(f) = SumFunctionOnSet(f, winners)
        BY <2>7 DEF Total, SumFunction
    <2>9. SumOf(rows) = SumFunctionOnSet(g, rows)
        BY <2>7 DEF SumOf, SumFunction, g
    <2> QED BY <2>5, <2>6, <2>8, <2>9 DEF rows, f
<1>5. ASSUME NEW w \in winners
      PROVE  SumOf({e \in es : e.creditor = w}) = Received(given, losers, w)
    <2> DEFINE T == {m \in losers : given[m][w] > 0}
               h == [m \in T |-> Row(<<m, w>>)]
               rows == {e \in es : e.creditor = w}
               g == [e \in rows |-> e.amount]
               f == [m \in losers |-> given[m][w]]
    <2>1. rows = {h[m] : m \in T}
        <3>1. ASSUME NEW e \in rows
              PROVE  \E m \in T : e = h[m]
            <4>1. PICK p \in P : e = Row(p)
                BY <1>2
            <4>2. p[2] = w /\ p = <<p[1], w>> /\ p[1] \in T
                BY <1>1, <4>1
            <4>3. e = h[p[1]]
                BY <4>1, <4>2
            <4> QED BY <4>2, <4>3
        <3>2. ASSUME NEW m \in T
              PROVE  h[m] \in rows
            <4>1. <<m, w>> \in P
                BY <1>3
            <4>2. h[m] = Row(<<m, w>>)
                OBVIOUS
            <4>3. Row(<<m, w>>) \in es /\ Row(<<m, w>>).creditor = w
                BY <1>1, <1>2, <4>1
            <4> HIDE DEF h, es, Row
            <4> QED BY <4>2, <4>3
        <3> HIDE DEF rows, h, T
        <3> QED BY <3>1, <3>2
    <2>2. \A m \in T : h[m].debtor = m /\ h[m].amount = f[m]
        BY DEF GameRow
    <2>3. \A m \in T : f[m] \in Int /\ g[h[m]] = f[m]
        <3> SUFFICES ASSUME NEW m \in T
                     PROVE  f[m] \in Int /\ g[h[m]] = f[m]
            OBVIOUS
        <3>1. h[m] \in rows
            BY <2>1
        <3>2. g[h[m]] = h[m].amount
            <4> HIDE DEF h, rows
            <4> QED BY <3>1
        <3>3. f[m] \in Int
            BY <1>3
        <3> HIDE DEF f, g, h
        <3> QED BY <2>2, <3>2, <3>3
    <2>4. T \in SUBSET losers /\ IsFiniteSet(T)
        BY FS_Subset
    <2>5. SumFunctionOnSet(g, rows) = SumFunctionOnSet(f, T)
        <3>1. \A x, y \in T : h[x] = h[y] => x = y
            <4> HIDE DEF h, T
            <4> QED BY <2>2
        <3> HIDE DEF g, rows, h, f, T
        <3> QED BY <2>1, <2>3, <2>4, <3>1, SumOfImage
    <2>6. SumFunctionOnSet(f, losers) = SumFunctionOnSet(f, T)
        <3>1. \A m \in losers : f[m] \in Int
            BY <1>3
        <3>2. \A m \in losers \ T : f[m] = 0
            BY <1>3
        <3> HIDE DEF f, T
        <3> QED BY <2>4, <3>1, <3>2, SumOfSupport
    <2>7. DOMAIN f = losers /\ DOMAIN g = rows
        OBVIOUS
    <2>8. Received(given, losers, w) = SumFunctionOnSet(f, losers)
        BY DEF Received, SumFunction
    <2> HIDE DEF g, rows
    <2>9. SumOf(rows) = SumFunctionOnSet(g, rows)
        BY <2>7 DEF SumOf, SumFunction, g
    <2> HIDE DEF f
    <2> QED BY <2>5, <2>6, <2>8, <2>9 DEF rows
<1>6. \A e \in es : e.debtor \in losers /\ e.creditor \in winners /\ e.amount > 0
    BY <1>1, <1>2
<1>7. \A m : m \notin losers => {e \in es : e.debtor = m} = {}
    BY <1>6
<1> QED BY <1>4, <1>5, <1>6, <1>7

LEMMA NightsAreResults ==
    ASSUME call \in Nights
    PROVE  Result(Nets(call.buyIn, call.cashOut), call.house)
<1> DEFINE buyIn == call.buyIn
           cashOut == call.cashOut
           nets == Nets(buyIn, cashOut)
<1>1. /\ buyIn \in [People -> Chips] /\ cashOut \in [People -> Chips] /\ call.house \in Cuts
      /\ GameAllowed(buyIn, cashOut, call.house)
    BY DEF Nights
<1> HIDE DEF buyIn, cashOut
<1>2. IsFiniteSet(People) /\ People \subseteq Int /\ call.house \in Nat
    BY <1>1, PeopleAssumption, AmountsAssumption
<1>3. \A m \in People : buyIn[m] \in Int /\ cashOut[m] \in Int /\ nets[m] = cashOut[m] - buyIn[m] /\ nets[m] \in Int
    BY <1>1, AmountsAssumption DEF Nets
<1>4. DOMAIN nets = People /\ DOMAIN buyIn = People /\ DOMAIN cashOut = People
    BY <1>1 DEF Nets
<1> HIDE DEF nets
<1>5. \A m \in People : cashOut[m] = nets[m] + buyIn[m]
    BY <1>3
<1>6. SumFunctionOnSet(cashOut, People) = SumFunctionOnSet(nets, People) + SumFunctionOnSet(buyIn, People)
    BY <1>2, <1>3, <1>5, SumOfTwo
<1>7. SumFunctionOnSet(nets, People) \in Int /\ SumFunctionOnSet(buyIn, People) \in Int
    BY <1>2, <1>3, SumIsWhole
<1>8. SumFunctionOnSet(buyIn, People) = SumFunctionOnSet(cashOut, People) + call.house
    BY <1>1, <1>4 DEF GameAllowed, Total, SumFunction
<1>9. SumFunctionOnSet(nets, People) = -call.house
    BY <1>2, <1>6, <1>7, <1>8
<1>10. Total(nets) = -call.house
    BY <1>4, <1>9 DEF Total, SumFunction
<1>11. Result(nets, call.house)
    BY <1>2, <1>3, <1>4, <1>10 DEF Result
<1> QED BY <1>11 DEF nets, buyIn, cashOut

LEMMA NightsAreExact ==
    ASSUME call \in Nights
    PROVE  NightIsExact
<1> DEFINE nets == Nets(call.buyIn, call.cashOut)
           house == HouseShares(nets, call.house)
           es == GameEdges(1, Today, nets, call.house)
<1>1. Result(nets, call.house)
    BY NightsAreResults
<1> HIDE DEF nets
<1>2. PICK losers, given : /\ Dealt(nets, call.house, losers, given)
                           /\ es = GameRows(losers, DOMAIN Wins(nets), given, 1, Today)
    BY <1>1, GameIsDealt
<1>3. IsFiniteSet(losers) /\ losers \in SUBSET DOMAIN Losses(nets) /\ IsFiniteSet(DOMAIN Wins(nets))
    <2>1. IsFiniteSet(DOMAIN Losses(nets)) /\ IsFiniteSet(DOMAIN Wins(nets))
        BY <1>1, LossesAndWins
    <2>2. losers \in SUBSET DOMAIN Losses(nets)
        BY <1>2 DEF Dealt
    <2> QED BY <2>1, <2>2, FS_Subset
<1> HIDE DEF es
<1>4. /\ \A m \in losers : SumOf({e \in es : e.debtor = m}) = Total(given[m])
      /\ \A m : m \notin losers => {e \in es : e.debtor = m} = {}
      /\ \A w \in DOMAIN Wins(nets) : SumOf({e \in es : e.creditor = w}) = Received(given, losers, w)
      /\ \A e \in es : e.debtor \in losers /\ e.creditor \in DOMAIN Wins(nets) /\ e.amount > 0
    <2>1. \A m \in losers : given[m] \in [DOMAIN Wins(nets) -> Nat]
        BY <1>2 DEF Dealt
    <2> QED BY <1>2, <1>3, <2>1, GameRowsAddUp
<1>5. SumOf({}) = 0
    <2>1. DOMAIN [r \in {} |-> r.amount] = {}
        OBVIOUS
    <2> QED BY <2>1, SumOfNone DEF SumOf, SumFunction
<1>6. ASSUME NEW m \in DOMAIN Losses(nets)
      PROVE  SumOf({e \in es : e.debtor = m}) = Losses(nets)[m] - house[m]
    <2>1. CASE m \in losers
        BY <1>2, <1>4, <2>1 DEF Dealt
    <2>2. CASE m \notin losers
        <3>1. Losses(nets)[m] = house[m]
            BY <1>2, <2>2 DEF Dealt
        <3>2. Losses(nets)[m] \in Nat
            BY <1>1, LossesAndWins
        <3>3. {e \in es : e.debtor = m} = {}
            BY <1>4, <2>2
        <3>4. SumOf({e \in es : e.debtor = m}) = 0
            BY <1>5, <3>3, Zenon
        <3> HIDE DEF house
        <3> QED BY <3>1, <3>2, <3>4
    <2> QED BY <2>1, <2>2
<1>7. ASSUME NEW m \in DOMAIN Wins(nets)
      PROVE  SumOf({e \in es : e.creditor = m}) = Wins(nets)[m]
    BY <1>2, <1>4 DEF Dealt
<1>8. Total(house) = call.house
    BY <1>1, HouseIsPaid
<1>9. \A e \in es : e.amount > 0 /\ nets[e.debtor] < 0 /\ nets[e.creditor] > 0
    <2>1. /\ \A m \in DOMAIN Losses(nets) : nets[m] < 0
          /\ \A m \in DOMAIN Wins(nets) : nets[m] > 0
        BY <1>1, LossesAndWins
    <2> QED BY <1>3, <1>4, <2>1
<1> HIDE DEF house
<1> QED BY <1>6, <1>7, <1>8, <1>9 DEF NightIsExact, nets, house, es

LEMMA NotesFit ==
    ASSUME call \in Notes
    PROVE  NoteFits
<1> DEFINE name == call.name
           chunks == call.chunks
           budget == call.budget
           Length(k) == NoteLength(name, chunks, k)
           fitting == {0} \cup {k \in 0..Len(chunks) : Length(k) <= budget}
           kept == Kept(name, chunks, budget)
<1>1. name \in Int /\ budget \in Int
    BY AmountsAssumption DEF Notes
<1>2. chunks \in Seq(Nat) /\ Len(chunks) \in Nat \ {0}
    <2>1. PICK n \in 1..MaxChunks : chunks \in [1..n -> ChunkLengths]
        BY DEF Notes
    <2>2. n \in Nat \ {0} /\ chunks \in [1..n -> Nat]
        BY <2>1, AmountsAssumption
    <2> HIDE DEF chunks
    <2> QED BY <2>2, ASequence
<1> HIDE DEF name, chunks, budget
<1>3. \A k \in 0..Len(chunks) : Length(k) \in Int
    <2> SUFFICES ASSUME NEW k \in 0..Len(chunks)
                 PROVE  Length(k) \in Int
        OBVIOUS
    <2> DEFINE taken == SubSeq(chunks, 1, k)
               more == IF k < Len(chunks) THEN <<2>> ELSE <<>>
               parts == taken \o more
    <2>1. taken \in Seq(Nat) /\ more \in Seq(Nat)
        BY <1>2
    <2>2. parts \in Seq(Nat)
        <3> HIDE DEF taken, more
        <3> QED BY <2>1
    <2>3. Length(k) = name + Total(parts) + 2 * (Len(parts) - 1)
        BY DEF NoteLength
    <2> HIDE DEF parts, Length
    <2>4. Len(parts) \in Nat /\ DOMAIN parts = 1..Len(parts) /\ \A i \in 1..Len(parts) : parts[i] \in Int
        BY <2>2, LenProperties, ElementOfSeq
    <2>5. Total(parts) \in Int
        <3>1. IsFiniteSet(1..Len(parts))
            BY <2>4, FS_Interval
        <3>2. Total(parts) = SumFunctionOnSet(parts, 1..Len(parts))
            BY <2>4 DEF Total, SumFunction
        <3>3. SumFunctionOnSet(parts, 1..Len(parts)) \in Int
            BY <2>4, <3>1, SumIsWhole
        <3> QED BY <3>2, <3>3
    <2> QED BY <1>1, <2>3, <2>4, <2>5
<1>4. Length(0) = name + 2
    <2> DEFINE parts == <<2>>
    <2>1. SubSeq(chunks, 1, 0) = <<>>
        BY <1>2
    <2>2. Length(0) = name + Total(parts) + 2 * (Len(parts) - 1)
        <3>1. <<>> \o <<2>> = <<2>>
            OBVIOUS
        <3>2. 0 < Len(chunks)
            BY <1>2
        <3> QED BY <2>1, <3>1, <3>2 DEF NoteLength
    <2>3. Len(parts) = 1 /\ DOMAIN parts = {1} /\ parts[1] = 2
        OBVIOUS
    <2>4. Total(parts) = 2
        <3>1. Total(parts) = SumFunctionOnSet(parts, {1})
            BY <2>3 DEF Total, SumFunction
        <3>2. IsFiniteSet({1}) /\ 2 \in Int /\ Cardinality({1}) = 1
            BY FS_Singleton
        <3>3. \A i \in {1} : parts[i] = 2
            BY <2>3
        <3> HIDE DEF parts
        <3>4. SumFunctionOnSet(parts, {1}) = 2 * Cardinality({1})
            BY <3>2, <3>3, SumOfEqual
        <3> QED BY <3>1, <3>2, <3>4
    <2> HIDE DEF parts, Length
    <2> QED BY <1>1, <2>2, <2>3, <2>4
<1>5. kept = Max(fitting)
    BY DEF Kept
<1>6. kept \in fitting /\ \A k \in fitting : k <= kept
    <2>1. fitting \in SUBSET (0..Len(chunks)) /\ fitting # {} /\ Len(chunks) \in Nat
        BY <1>2
    <2> HIDE DEF fitting, kept
    <2> QED BY <1>5, <2>1, GreatestIsThere
<1> HIDE DEF kept, Length
<1>7. Length(kept) > budget => kept = 0 /\ name + 2 > budget
    BY <1>1, <1>2, <1>3, <1>4, <1>6
<1>8. ASSUME NEW more \in (kept + 1)..Len(chunks)
      PROVE  Length(more) > budget
    <2>1. kept \in 0..Len(chunks)
        BY <1>2, <1>6
    <2>2. more \in 0..Len(chunks) /\ ~ (more <= kept)
        BY <1>2, <2>1
    <2>3. ~ (Length(more) <= budget)
        BY <1>6, <2>2
    <2> QED BY <1>1, <1>3, <2>2, <2>3
<1> QED BY <1>7, <1>8 DEF NoteFits, kept, Length, name, chunks, budget

(* The inductive invariant of the calls: a ledger, a night that adds up or a note. *)
SettlingCalls == part = "settling" => call \in {TheLedger} \cup Nights \cup Notes

(* For any players, buy-ins, cash-outs and house cuts: a poker night loses no dong     *)
(* (game_edges, house_shares, allocate), and for any name, meals and budget a note     *)
(* says as much as the bank allows (build_qr_note).                                    *)
THEOREM NothingIsEverRoundedAway == Spec => []NothingIsRoundedAway
<1>1. Init => SettlingCalls
    BY DEF Init, SettlingCalls, SettlingInit
<1>2. SettlingCalls /\ [Next]_vars => SettlingCalls'
    <2> SUFFICES ASSUME SettlingCalls, [Next]_vars
                 PROVE  SettlingCalls'
        OBVIOUS
    <2>1. part' = part /\ call' = call
        BY DEF Next, vars, SettlingNext, settlementVars, AddMeal, AddGame, RecordPayment, Paying, PostCard
    <2>2. Nights' = Nights /\ Notes' = Notes /\ TheLedger' = TheLedger
        BY DEF Nights, Notes, TheLedger
    <2> QED BY <2>1, <2>2 DEF SettlingCalls
<1>3. SettlingCalls => NothingIsRoundedAway
    <2> SUFFICES ASSUME SettlingCalls, part = "settling"
                 PROVE  NightIsExact /\ NoteFits
        BY DEF NothingIsRoundedAway
    <2>1. CASE call = TheLedger
        BY <2>1 DEF TheLedger, NightIsExact, NoteFits
    <2>2. CASE call \in Nights
        <3>1. call.is = "night"
            BY <2>2 DEF Nights
        <3> QED BY <2>2, <3>1, NightsAreExact DEF NoteFits
    <2>3. CASE call \in Notes
        <3>1. call.is = "note"
            BY <2>3 DEF Notes
        <3> QED BY <2>3, <3>1, NotesFit DEF NightIsExact
    <2> QED BY <2>1, <2>2, <2>3 DEF SettlingCalls
<1> QED BY <1>1, <1>2, <1>3, PTL DEF Spec
-----------------------------------------------------------------------------
(* A sum taken in groups.                                                  *)
LEMMA SumOfFibres ==
    ASSUME NEW S, IsFiniteSet(S), NEW f, \A x \in S : f[x] \in Int,
           NEW K, IsFiniteSet(K), NEW key, \A x \in S : key[x] \in K
    PROVE  SumFunctionOnSet(f, S) = SumFunctionOnSet([q \in K |-> SumFunctionOnSet(f, {x \in S : key[x] = q})], K)
<1> DEFINE Fibre(T, q) == {x \in T : key[x] = q}
           Grouped(T) == [q \in K |-> SumFunctionOnSet(f, Fibre(T, q))]
           G == {T \in SUBSET S : SumFunctionOnSet(f, T) = SumFunctionOnSet(Grouped(T), K)}
<1>1. {} \in G
    <2> DEFINE none == Grouped({})
    <2>1. \A q \in K : none[q] = 0
        <3>1. \A q \in K : Fibre({}, q) = {}
            OBVIOUS
        <3> HIDE DEF Fibre
        <3> QED BY <3>1, SumOfNone
    <2>2. 0 \in Int /\ Cardinality(K) \in Nat
        BY FS_CardinalityType
    <2>3. SumFunctionOnSet(none, K) = 0
        <3> HIDE DEF none
        <3>1. SumFunctionOnSet(none, K) = 0 * Cardinality(K)
            BY <2>1, <2>2, SumOfEqual
        <3> QED BY <2>2, <3>1
    <2>4. SumFunctionOnSet(f, {}) = 0
        BY SumOfNone
    <2> QED BY <2>3, <2>4
<1>2. ASSUME NEW T \in SUBSET S, T # {}, \A x \in T : T \ {x} \in G
      PROVE  T \in G
    <2>1. PICK s \in T : TRUE
        BY <1>2
    <2> DEFINE R == T \ {s}
               all == Grouped(T)
               rest == Grouped(R)
    <2>2. SumFunctionOnSet(f, R) = SumFunctionOnSet(rest, K)
        BY <1>2, <2>1
    <2>3. IsFiniteSet(T) /\ IsFiniteSet(R) /\ R \in SUBSET S
        BY FS_Subset
    <2>4. \A q \in K : IsFiniteSet(Fibre(T, q)) /\ IsFiniteSet(Fibre(R, q))
        BY <2>3, FS_Subset
    <2>5. \A q \in K : all[q] \in Int /\ rest[q] \in Int
        <3> SUFFICES ASSUME NEW q \in K
                     PROVE  all[q] \in Int /\ rest[q] \in Int
            OBVIOUS
        <3>1. (\A x \in Fibre(T, q) : f[x] \in Int) /\ (\A x \in Fibre(R, q) : f[x] \in Int)
            OBVIOUS
        <3>2. all[q] = SumFunctionOnSet(f, Fibre(T, q)) /\ rest[q] = SumFunctionOnSet(f, Fibre(R, q))
            OBVIOUS
        <3> HIDE DEF Fibre, all, rest
        <3> QED BY <2>4, <3>1, <3>2, SumIsWhole
    <2>6. \A q \in K : q # key[s] => rest[q] = all[q]
        <3>1. \A q \in K : q # key[s] => Fibre(R, q) = Fibre(T, q)
            OBVIOUS
        <3> HIDE DEF Fibre
        <3> QED BY <3>1
    <2>7. all[key[s]] = f[s] + rest[key[s]] /\ key[s] \in K
        <3> DEFINE q == key[s]
        <3>1. q \in K /\ s \in Fibre(T, q) /\ Fibre(R, q) = Fibre(T, q) \ {s}
            BY <2>1
        <3>2. \A x \in Fibre(T, q) : f[x] \in Int
            OBVIOUS
        <3>3. all[q] = SumFunctionOnSet(f, Fibre(T, q)) /\ rest[q] = SumFunctionOnSet(f, Fibre(R, q))
            BY <3>1
        <3> HIDE DEF Fibre, all, rest, q
        <3>4. SumFunctionOnSet(f, Fibre(T, q)) = f[s] + SumFunctionOnSet(f, Fibre(T, q) \ {s})
            BY <2>4, <3>1, <3>2, SumTakesOut
        <3>5. all[q] = f[s] + rest[q]
            BY <3>1, <3>3, <3>4
        <3> QED BY <3>1, <3>5 DEF q
    <2>8. SumFunctionOnSet(f, T) = f[s] + SumFunctionOnSet(f, R)
        BY <2>1, <2>3, SumTakesOut
    <2>9. SumFunctionOnSet(all, K) = SumFunctionOnSet(rest, K) + (IF key[s] \in K THEN all[key[s]] - rest[key[s]] ELSE 0)
        <3>1. \A q \in K : rest[q] \in Int /\ all[q] \in Int /\ (q # key[s] => all[q] = rest[q])
            BY <2>5, <2>6
        <3> HIDE DEF all, rest
        <3> QED BY <3>1, SumWithOneChanged
    <2>10. SumFunctionOnSet(rest, K) \in Int
        <3> HIDE DEF rest
        <3> QED BY <2>5, SumIsWhole
    <2>11. f[s] \in Int /\ rest[key[s]] \in Int /\ all[key[s]] \in Int
        BY <2>1, <2>5, <2>7
    <2>12. SumFunctionOnSet(f, T) = SumFunctionOnSet(all, K)
        <3> HIDE DEF all, rest, R
        <3> QED BY <2>2, <2>7, <2>8, <2>9, <2>10, <2>11
    <2> QED BY <2>12
<1>3. S \in G
    <2> HIDE DEF G
    <2> QED BY <1>1, <1>2, EverySubset
<1> QED BY <1>3

-----------------------------------------------------------------------------
(* What is open of the edges of a window.                                  *)
Told(window, open) ==
    /\ IsFiniteSet(window)
    /\ \A e \in window : open[e] \in Nat /\ e.debtor \in People /\ e.creditor \in People
OpenOf(open, window, from, to) == SumFunctionOnSet(open, PairEdges(window, <<from, to>>))
Lent(open, window, m) == SumFunctionOnSet(open, {e \in window : e.creditor = m})
Borrowed(open, window, m) == SumFunctionOnSet(open, {e \in window : e.debtor = m})

ToldAmong(people, window, open) ==
    /\ IsFiniteSet(people) /\ IsFiniteSet(window)
    /\ \A e \in window : open[e] \in Nat /\ e.debtor \in people /\ e.creditor \in people
PairsAddUp(people, open, window, m) ==
    /\ \A q : OpenOf(open, window, q, m) \in Nat /\ OpenOf(open, window, m, q) \in Nat
    /\ Lent(open, window, m) = SumFunctionOnSet([q \in people |-> OpenOf(open, window, q, m)], people)
    /\ Borrowed(open, window, m) = SumFunctionOnSet([q \in people |-> OpenOf(open, window, m, q)], people)
    /\ Lent(open, window, m) \in Nat /\ Borrowed(open, window, m) \in Nat

LEMMA OfEveryPair ==
    ASSUME NEW people, NEW window, NEW open, ToldAmong(people, window, open), NEW m
    PROVE  PairsAddUp(people, open, window, m)
<1> DEFINE lent == {e \in window : e.creditor = m}
           borrowed == {e \in window : e.debtor = m}
           debtor == [e \in window |-> e.debtor]
           creditor == [e \in window |-> e.creditor]
<1>1. /\ IsFiniteSet(window) /\ IsFiniteSet(lent) /\ IsFiniteSet(borrowed) /\ IsFiniteSet(people)
      /\ \A a, b : IsFiniteSet(PairEdges(window, <<a, b>>))
    <2>2. \A a, b : PairEdges(window, <<a, b>>) \in SUBSET window
        BY DEF PairEdges
    <2> QED BY <2>2, FS_Subset DEF ToldAmong
<1>2. \A e \in window : open[e] \in Nat /\ open[e] \in Int
    BY DEF ToldAmong
<1>3. \A a, b : OpenOf(open, window, a, b) \in Nat
    <2> SUFFICES ASSUME NEW a, NEW b
                 PROVE  OpenOf(open, window, a, b) \in Nat
        OBVIOUS
    <2> DEFINE here == PairEdges(window, <<a, b>>)
    <2>1. \A e \in here : open[e] \in Nat
        BY <1>2 DEF PairEdges
    <2>2. IsFiniteSet(here)
        BY <1>1
    <2> HIDE DEF here
    <2>3. SumFunctionOnSet(open, here) \in Nat
        BY <2>1, <2>2, SumIsNatural
    <2> QED BY <2>3 DEF OpenOf, here
<1>4. Lent(open, window, m) = SumFunctionOnSet([q \in people |-> OpenOf(open, window, q, m)], people)
    <2> DEFINE groups == [q \in people |-> SumFunctionOnSet(open, {e \in lent : debtor[e] = q})]
    <2>1. (\A e \in lent : open[e] \in Int) /\ (\A e \in lent : debtor[e] \in people)
        BY <1>2 DEF ToldAmong
    <2>2. SumFunctionOnSet(open, lent) = SumFunctionOnSet(groups, people)
        <3> HIDE DEF lent, debtor
        <3> QED BY <1>1, <2>1, SumOfFibres
    <2>3. \A q \in people : {e \in lent : debtor[e] = q} = PairEdges(window, <<q, m>>)
        BY DEF PairEdges
    <2>4. groups = [q \in people |-> OpenOf(open, window, q, m)]
        <3> HIDE DEF lent, debtor
        <3> QED BY <2>3 DEF OpenOf
    <2> QED BY <2>2, <2>4 DEF Lent
<1>5. Borrowed(open, window, m) = SumFunctionOnSet([q \in people |-> OpenOf(open, window, m, q)], people)
    <2> DEFINE groups == [q \in people |-> SumFunctionOnSet(open, {e \in borrowed : creditor[e] = q})]
    <2>1. (\A e \in borrowed : open[e] \in Int) /\ (\A e \in borrowed : creditor[e] \in people)
        BY <1>2 DEF ToldAmong
    <2>2. SumFunctionOnSet(open, borrowed) = SumFunctionOnSet(groups, people)
        <3> HIDE DEF borrowed, creditor
        <3> QED BY <1>1, <2>1, SumOfFibres
    <2>3. \A q \in people : {e \in borrowed : creditor[e] = q} = PairEdges(window, <<m, q>>)
        BY DEF PairEdges
    <2>4. groups = [q \in people |-> OpenOf(open, window, m, q)]
        <3> HIDE DEF borrowed, creditor
        <3> QED BY <2>3 DEF OpenOf
    <2> QED BY <2>2, <2>4 DEF Borrowed
<1>6. Lent(open, window, m) \in Nat /\ Borrowed(open, window, m) \in Nat
    <2>1. (\A e \in lent : open[e] \in Nat) /\ (\A e \in borrowed : open[e] \in Nat)
        BY <1>2
    <2> HIDE DEF lent, borrowed
    <2>2. SumFunctionOnSet(open, lent) \in Nat /\ SumFunctionOnSet(open, borrowed) \in Nat
        BY <1>1, <2>1, SumIsNatural
    <2> QED BY <2>2 DEF Lent, Borrowed, lent, borrowed
<1> HIDE DEF lent, borrowed
<1> QED BY <1>3, <1>4, <1>5, <1>6 DEF PairsAddUp

LEMMA PairByPair ==
    ASSUME NEW window, NEW open, Told(window, open), NEW m
    PROVE  /\ \A q : OpenOf(open, window, q, m) \in Nat /\ OpenOf(open, window, m, q) \in Nat
           /\ Lent(open, window, m) = SumFunctionOnSet([q \in People |-> OpenOf(open, window, q, m)], People)
           /\ Borrowed(open, window, m) = SumFunctionOnSet([q \in People |-> OpenOf(open, window, m, q)], People)
           /\ Lent(open, window, m) \in Nat /\ Borrowed(open, window, m) \in Nat
<1>1. PairsAddUp(People, open, window, m)
    BY PeopleAssumption, OfEveryPair DEF Told, ToldAmong
<1> QED BY <1>1, Zenon DEF PairsAddUp

(* The rows of a table with one entry per member.                          *)
LEMMA OneRowEach ==
    ASSUME NEW T, IsFiniteSet(T), NEW rows, NEW h, rows = {h[q] : q \in T},
           \A p, q \in T : h[p] = h[q] => p = q,
           NEW f, \A q \in T : f[q] \in Int /\ h[q].amount = f[q]
    PROVE  SumOf(rows) = SumFunctionOnSet(f, T)
<1> DEFINE g == [r \in rows |-> r.amount]
<1>1. \A q \in T : f[q] \in Int /\ g[h[q]] = f[q]
    OBVIOUS
<1>2. DOMAIN g = rows
    OBVIOUS
<1> HIDE DEF g
<1>3. SumFunctionOnSet(g, rows) = SumFunctionOnSet(f, T)
    BY <1>1, SumOfImage
<1> QED BY <1>2, <1>3 DEF SumOf, SumFunction, g

(* What every member owes every other, and the sums of its rows and columns. *)
Table(owed) == \A p \in People \X People : owed[p] \in Nat
OwedTo(owed, m) == SumFunctionOnSet([q \in People |-> owed[<<q, m>>]], People)
OwedBy(owed, m) == SumFunctionOnSet([q \in People |-> owed[<<m, q>>]], People)

LEMMA TransfersTell ==
    ASSUME NEW owed, Table(owed), NEW m \in People
    PROVE  InTo(NetPairs(owed, People), m) - OutOf(NetPairs(owed, People), m) = OwedTo(owed, m) - OwedBy(owed, m)
<1> DEFINE rows == NetPairs(owed, People)
           to == [q \in People |-> owed[<<q, m>>]]
           by == [q \in People |-> owed[<<m, q>>]]
           T == {q \in People : to[q] > by[q]}
           U == {q \in People : by[q] > to[q]}
           plus == [q \in People |-> IF to[q] > by[q] THEN to[q] - by[q] ELSE 0]
           minus == [q \in People |-> IF by[q] > to[q] THEN by[q] - to[q] ELSE 0]
           into == [q \in T |-> [frm |-> q, to |-> m, amount |-> to[q] - by[q]]]
           outof == [q \in U |-> [frm |-> m, to |-> q, amount |-> by[q] - to[q]]]
<1>1. \A q \in People : to[q] \in Nat /\ by[q] \in Nat
    BY DEF Table
<1>2. IsFiniteSet(People) /\ T \in SUBSET People /\ U \in SUBSET People /\ IsFiniteSet(T) /\ IsFiniteSet(U)
    BY PeopleAssumption, FS_Subset
<1>3. \A q \in People : plus[q] \in Int /\ minus[q] \in Int /\ plus[q] + by[q] = minus[q] + to[q]
    <2> SUFFICES ASSUME NEW q \in People
                 PROVE  plus[q] \in Int /\ minus[q] \in Int /\ plus[q] + by[q] = minus[q] + to[q]
        OBVIOUS
    <2>1. plus[q] = (IF to[q] > by[q] THEN to[q] - by[q] ELSE 0) /\ minus[q] = (IF by[q] > to[q] THEN by[q] - to[q] ELSE 0)
        OBVIOUS
    <2>2. to[q] \in Nat /\ by[q] \in Nat
        BY <1>1
    <2> HIDE DEF to, by, plus, minus
    <2> QED BY <2>1, <2>2
<1>4. {r \in rows : r.to = m} = {into[q] : q \in T}
    <2>1. ASSUME NEW r \in rows, r.to = m
          PROVE  \E q \in T : r = into[q]
        <3>1. PICK p \in People \X People : /\ owed[p] > owed[<<p[2], p[1]>>]
                                           /\ r = [frm |-> p[1], to |-> p[2], amount |-> owed[p] - owed[<<p[2], p[1]>>]]
            BY DEF NetPairs
        <3>2. p = <<p[1], m>> /\ p[2] = m /\ p[1] \in People
            BY <2>1, <3>1
        <3>3. to[p[1]] = owed[p] /\ by[p[1]] = owed[<<p[2], p[1]>>]
            BY <3>2
        <3>4. p[1] \in T
            BY <3>1, <3>2, <3>3
        <3>5. into[p[1]] = r
            BY <3>1, <3>2, <3>3, <3>4
        <3> QED BY <3>4, <3>5
    <2>2. ASSUME NEW q \in T
          PROVE  into[q] \in rows /\ into[q].to = m
        <3> DEFINE p == <<q, m>>
        <3>1. p \in People \X People /\ p[1] = q /\ p[2] = m
            OBVIOUS
        <3>2. owed[p] > owed[<<p[2], p[1]>>]
            BY <3>1
        <3>3. into[q] = [frm |-> p[1], to |-> p[2], amount |-> owed[p] - owed[<<p[2], p[1]>>]]
            BY <3>1
        <3>4. into[q].to = m
            OBVIOUS
        <3> HIDE DEF into, p
        <3> QED BY <3>1, <3>2, <3>3, <3>4 DEF NetPairs
    <2> HIDE DEF rows, T, into
    <2> QED BY <2>1, <2>2
<1>5. {r \in rows : r.frm = m} = {outof[q] : q \in U}
    <2>1. ASSUME NEW r \in rows, r.frm = m
          PROVE  \E q \in U : r = outof[q]
        <3>1. PICK p \in People \X People : /\ owed[p] > owed[<<p[2], p[1]>>]
                                           /\ r = [frm |-> p[1], to |-> p[2], amount |-> owed[p] - owed[<<p[2], p[1]>>]]
            BY DEF NetPairs
        <3>2. p = <<m, p[2]>> /\ p[1] = m /\ p[2] \in People
            BY <2>1, <3>1
        <3>3. by[p[2]] = owed[p] /\ to[p[2]] = owed[<<p[2], p[1]>>]
            BY <3>2
        <3>4. p[2] \in U
            BY <3>1, <3>2, <3>3
        <3>5. outof[p[2]] = r
            BY <3>1, <3>2, <3>3, <3>4
        <3> QED BY <3>4, <3>5
    <2>2. ASSUME NEW q \in U
          PROVE  outof[q] \in rows /\ outof[q].frm = m
        <3> DEFINE p == <<m, q>>
        <3>1. p \in People \X People /\ p[1] = m /\ p[2] = q
            OBVIOUS
        <3>2. owed[p] > owed[<<p[2], p[1]>>]
            BY <3>1
        <3>3. outof[q] = [frm |-> p[1], to |-> p[2], amount |-> owed[p] - owed[<<p[2], p[1]>>]]
            BY <3>1
        <3>4. outof[q].frm = m
            OBVIOUS
        <3> HIDE DEF outof, p
        <3> QED BY <3>1, <3>2, <3>3, <3>4 DEF NetPairs
    <2> HIDE DEF rows, U, outof
    <2> QED BY <2>1, <2>2
<1>6. InTo(rows, m) = SumFunctionOnSet(plus, People)
    <2>1. \A q \in T : plus[q] \in Int /\ into[q].amount = plus[q]
        BY <1>3
    <2>2. \A p, q \in T : into[p] = into[q] => p = q
        <3>1. \A p \in T : into[p].frm = p
            OBVIOUS
        <3> HIDE DEF into, T
        <3> QED BY <3>1
    <2>3. \A q \in People \ T : plus[q] = 0
        OBVIOUS
    <2>4. \A q \in People : plus[q] \in Int
        BY <1>3
    <2> HIDE DEF into, T, plus, rows
    <2>5. SumOf({r \in rows : r.to = m}) = SumFunctionOnSet(plus, T)
        BY <1>2, <1>4, <2>1, <2>2, OneRowEach
    <2>6. SumFunctionOnSet(plus, People) = SumFunctionOnSet(plus, T)
        BY <1>2, <2>3, <2>4, SumOfSupport
    <2> QED BY <2>5, <2>6 DEF InTo
<1>7. OutOf(rows, m) = SumFunctionOnSet(minus, People)
    <2>1. \A q \in U : minus[q] \in Int /\ outof[q].amount = minus[q]
        BY <1>3
    <2>2. \A p, q \in U : outof[p] = outof[q] => p = q
        <3>1. \A p \in U : outof[p].to = p
            OBVIOUS
        <3> HIDE DEF outof, U
        <3> QED BY <3>1
    <2>3. \A q \in People \ U : minus[q] = 0
        OBVIOUS
    <2>4. \A q \in People : minus[q] \in Int
        BY <1>3
    <2> HIDE DEF outof, U, minus, rows
    <2>5. SumOf({r \in rows : r.frm = m}) = SumFunctionOnSet(minus, U)
        BY <1>2, <1>5, <2>1, <2>2, OneRowEach
    <2>6. SumFunctionOnSet(minus, People) = SumFunctionOnSet(minus, U)
        BY <1>2, <2>3, <2>4, SumOfSupport
    <2> QED BY <2>5, <2>6 DEF OutOf
<1>8. SumFunctionOnSet(plus, People) + SumFunctionOnSet(by, People) = SumFunctionOnSet(minus, People) + SumFunctionOnSet(to, People)
    <2> DEFINE both == [q \in People |-> plus[q] + by[q]]
    <2>1. \A q \in People : by[q] \in Int /\ to[q] \in Int /\ plus[q] \in Int /\ minus[q] \in Int
        BY <1>1, <1>3
    <2>2. \A q \in People : both[q] = plus[q] + by[q] /\ both[q] = minus[q] + to[q]
        BY <1>3
    <2> HIDE DEF both, plus, minus, to, by
    <2>3. SumFunctionOnSet(both, People) = SumFunctionOnSet(plus, People) + SumFunctionOnSet(by, People)
        BY <1>2, <2>1, <2>2, SumOfTwo
    <2>4. SumFunctionOnSet(both, People) = SumFunctionOnSet(minus, People) + SumFunctionOnSet(to, People)
        BY <1>2, <2>1, <2>2, SumOfTwo
    <2> QED BY <2>3, <2>4
<1>9. /\ SumFunctionOnSet(plus, People) \in Int /\ SumFunctionOnSet(minus, People) \in Int
      /\ SumFunctionOnSet(by, People) \in Int /\ SumFunctionOnSet(to, People) \in Int
    <2>1. \A q \in People : by[q] \in Int /\ to[q] \in Int /\ plus[q] \in Int /\ minus[q] \in Int
        BY <1>1, <1>3
    <2> HIDE DEF plus, minus, to, by
    <2> QED BY <1>2, <2>1, SumIsWhole
<1>10. OwedTo(owed, m) = SumFunctionOnSet(to, People) /\ OwedBy(owed, m) = SumFunctionOnSet(by, People)
    BY DEF OwedTo, OwedBy
<1> HIDE DEF plus, minus, to, by, rows
<1>11. InTo(rows, m) - OutOf(rows, m) = OwedTo(owed, m) - OwedBy(owed, m)
    BY <1>6, <1>7, <1>8, <1>9, <1>10
<1> QED BY <1>11 DEF rows

(* outstanding_pairs, of such a table. *)
OpenPairs(owed) ==
    {[debtor |-> p[1], creditor |-> p[2], amount |-> owed[p]] : p \in {q \in People \X People : owed[q] > 0}}

LEMMA PairsTell ==
    ASSUME NEW owed, Table(owed), NEW m \in People
    PROVE  InTo(AsRows(OpenPairs(owed)), m) = OwedTo(owed, m) /\ OutOf(AsRows(OpenPairs(owed)), m) = OwedBy(owed, m)
<1> DEFINE rows == AsRows(OpenPairs(owed))
           to == [q \in People |-> owed[<<q, m>>]]
           by == [q \in People |-> owed[<<m, q>>]]
           T == {q \in People : to[q] > 0}
           U == {q \in People : by[q] > 0}
           Row(p) == [frm |-> p[1], to |-> p[2], amount |-> owed[p]]
           into == [q \in T |-> Row(<<q, m>>)]
           outof == [q \in U |-> Row(<<m, q>>)]
<1>1. \A q \in People : to[q] \in Nat /\ by[q] \in Nat /\ to[q] \in Int /\ by[q] \in Int
    <2>1. \A q \in People : to[q] \in Nat /\ by[q] \in Nat
        BY DEF Table
    <2> HIDE DEF to, by
    <2> QED BY <2>1
<1>2. IsFiniteSet(People) /\ T \in SUBSET People /\ U \in SUBSET People /\ IsFiniteSet(T) /\ IsFiniteSet(U)
    BY PeopleAssumption, FS_Subset
<1>3. rows = {Row(p) : p \in {q \in People \X People : owed[q] > 0}}
    <2>1. ASSUME NEW r \in rows
          PROVE  \E p \in {q \in People \X People : owed[q] > 0} : r = Row(p)
        <3>1. PICK x \in OpenPairs(owed) : r = [frm |-> x.debtor, to |-> x.creditor, amount |-> x.amount]
            BY DEF AsRows
        <3>2. PICK p \in {q \in People \X People : owed[q] > 0} : x = [debtor |-> p[1], creditor |-> p[2], amount |-> owed[p]]
            BY DEF OpenPairs
        <3>3. r = Row(p)
            BY <3>1, <3>2
        <3> QED BY <3>2, <3>3
    <2>2. ASSUME NEW p \in {q \in People \X People : owed[q] > 0}
          PROVE  Row(p) \in rows
        <3> DEFINE x == [debtor |-> p[1], creditor |-> p[2], amount |-> owed[p]]
        <3>1. x \in OpenPairs(owed)
            BY DEF OpenPairs
        <3>2. Row(p) = [frm |-> x.debtor, to |-> x.creditor, amount |-> x.amount]
            OBVIOUS
        <3> HIDE DEF x, Row
        <3> QED BY <3>1, <3>2 DEF AsRows
    <2> HIDE DEF rows, Row
    <2> QED BY <2>1, <2>2
<1>4. {r \in rows : r.to = m} = {into[q] : q \in T}
    <2>1. ASSUME NEW r \in rows, r.to = m
          PROVE  \E q \in T : r = into[q]
        <3>1. PICK p \in {q \in People \X People : owed[q] > 0} : r = Row(p)
            BY <1>3
        <3>2. p = <<p[1], m>> /\ p[1] \in T
            BY <2>1, <3>1
        <3> QED BY <3>1, <3>2
    <2>2. ASSUME NEW q \in T
          PROVE  into[q] \in rows /\ into[q].to = m
        <3>1. <<q, m>> \in {p \in People \X People : owed[p] > 0}
            OBVIOUS
        <3>2. into[q] = Row(<<q, m>>) /\ into[q].to = m
            OBVIOUS
        <3> HIDE DEF into, rows, Row
        <3> QED BY <1>3, <3>1, <3>2
    <2> HIDE DEF rows, T, into
    <2> QED BY <2>1, <2>2
<1>5. {r \in rows : r.frm = m} = {outof[q] : q \in U}
    <2>1. ASSUME NEW r \in rows, r.frm = m
          PROVE  \E q \in U : r = outof[q]
        <3>1. PICK p \in {q \in People \X People : owed[q] > 0} : r = Row(p)
            BY <1>3
        <3>2. p = <<m, p[2]>> /\ p[2] \in U
            BY <2>1, <3>1
        <3> QED BY <3>1, <3>2
    <2>2. ASSUME NEW q \in U
          PROVE  outof[q] \in rows /\ outof[q].frm = m
        <3>1. <<m, q>> \in {p \in People \X People : owed[p] > 0}
            OBVIOUS
        <3>2. outof[q] = Row(<<m, q>>) /\ outof[q].frm = m
            OBVIOUS
        <3> HIDE DEF outof, rows, Row
        <3> QED BY <1>3, <3>1, <3>2
    <2> HIDE DEF rows, U, outof
    <2> QED BY <2>1, <2>2
<1>6. InTo(rows, m) = SumFunctionOnSet(to, People)
    <2>1. \A q \in T : to[q] \in Int /\ into[q].amount = to[q]
        <3>1. \A q \in T : into[q].amount = to[q]
            OBVIOUS
        <3> HIDE DEF to, into
        <3> QED BY <1>1, <1>2, <3>1
    <2>2. \A p, q \in T : into[p] = into[q] => p = q
        <3>1. \A p \in T : into[p].frm = p
            OBVIOUS
        <3> HIDE DEF into, T
        <3> QED BY <3>1
    <2>3. ASSUME NEW q \in People \ T
          PROVE  to[q] = 0
        <3>1. to[q] \in Nat /\ ~ (to[q] > 0)
            BY <1>1
        <3> HIDE DEF to, T
        <3> QED BY <3>1
    <2>4. \A q \in People : to[q] \in Int
        BY <1>1, Zenon
    <2> HIDE DEF into, T, to, rows
    <2>5. SumOf({r \in rows : r.to = m}) = SumFunctionOnSet(to, T)
        BY <1>2, <1>4, <2>1, <2>2, OneRowEach
    <2>6. SumFunctionOnSet(to, People) = SumFunctionOnSet(to, T)
        BY <1>2, <2>3, <2>4, SumOfSupport
    <2> QED BY <2>5, <2>6 DEF InTo
<1>7. OutOf(rows, m) = SumFunctionOnSet(by, People)
    <2>1. \A q \in U : by[q] \in Int /\ outof[q].amount = by[q]
        <3>1. \A q \in U : outof[q].amount = by[q]
            OBVIOUS
        <3> HIDE DEF by, outof
        <3> QED BY <1>1, <1>2, <3>1
    <2>2. \A p, q \in U : outof[p] = outof[q] => p = q
        <3>1. \A p \in U : outof[p].to = p
            OBVIOUS
        <3> HIDE DEF outof, U
        <3> QED BY <3>1
    <2>3. ASSUME NEW q \in People \ U
          PROVE  by[q] = 0
        <3>1. by[q] \in Nat /\ ~ (by[q] > 0)
            BY <1>1
        <3> HIDE DEF by, U
        <3> QED BY <3>1
    <2>4. \A q \in People : by[q] \in Int
        BY <1>1, Zenon
    <2> HIDE DEF outof, U, by, rows
    <2>5. SumOf({r \in rows : r.frm = m}) = SumFunctionOnSet(by, U)
        BY <1>2, <1>5, <2>1, <2>2, OneRowEach
    <2>6. SumFunctionOnSet(by, People) = SumFunctionOnSet(by, U)
        BY <1>2, <2>3, <2>4, SumOfSupport
    <2> QED BY <2>5, <2>6 DEF OutOf
<1> HIDE DEF rows
<1> QED BY <1>6, <1>7 DEF OwedTo, OwedBy, rows
-----------------------------------------------------------------------------
LEMMA PaymentsInASequence ==
    ASSUME NEW S, \A p \in S : p.amount \in Nat, NEW made \in Seq(S)
    PROVE  Payments(made)
<1>1. Len(made) \in Nat /\ DOMAIN made = 1..Len(made) /\ \A i \in DOMAIN made : made[i] \in S
    BY LenProperties, ElementOfSeq
<1>2. IsFiniteSet(1..Len(made))
    BY <1>1, FS_Interval
<1>3. \A i \in DOMAIN made : made[i].amount \in Nat
    BY <1>1
<1> QED BY <1>1, <1>2, <1>3 DEF Payments

(* The edges of a room's ledger are debts between its people, made on one  *)
(* of the days.                                                            *)
OfTheRoom(lent) ==
    \A e \in lent : e.debtor \in People /\ e.creditor \in People /\ e.debtor # e.creditor /\ e.day \in Dates

LEMMA DatesEnd == Today \in Dates /\ \A d \in Dates : d \in Int /\ d <= Today
<1>1. \E x \in Dates : \A y \in Dates \ {x} : y < x
    <2>1. \A ids : IsFiniteSet(ids) /\ ids \subseteq Int =>
             \A T \in SUBSET ids : T # {} => \E x \in T : \A y \in T \ {x} : y < x
        BY LastOfAll, Zenon
    <2>2. IsFiniteSet(Dates) /\ Dates \subseteq Int /\ Dates # {} /\ Dates \in SUBSET Dates
        BY DatesAssumption
    <2> QED BY <2>1, <2>2, Zenon
<1>2. \E x \in Dates : \A y \in Dates : x >= y
    BY <1>1, DatesAssumption
<1>3. Today \in Dates /\ \A y \in Dates : Today >= y
    BY <1>2 DEF Today, Max
<1> QED BY <1>3, DatesAssumption

LEMMA BreakdownIs ==
    ASSUME NEW lent, NEW made, ALedger(lent, made), OfTheRoom(lent), NEW period
    PROVE  LET window == Window(lent, period)
               out    == Outstanding(lent, made)
               open   == Breakdown(lent, made, period)
           IN  /\ window \in SUBSET lent /\ Told(window, out)
               /\ DOMAIN open = window /\ \A e \in window : open[e] = out[e]
               /\ \A a, b : Owes(open, a, b) = OpenOf(out, window, a, b)
               /\ \A m : Balance(lent, made, period, m) = Lent(out, window, m) - Borrowed(out, window, m)
<1> DEFINE window == Window(lent, period)
           out    == Outstanding(lent, made)
           open   == Breakdown(lent, made, period)
<1>1. window \in SUBSET lent /\ DOMAIN open = window /\ \A e \in window : open[e] = out[e]
    BY DEF Window, Breakdown
<1>2. IsFiniteSet(window)
    BY <1>1, FS_Subset DEF ALedger
<1>3. \A e \in lent : out[e] \in Nat
    <2> SUFFICES ASSUME NEW e \in lent
                 PROVE  out[e] \in Nat
        OBVIOUS
    <2>1. out[e] \in 0..e.amount /\ e.amount \in Nat
        BY PaidIs DEF ALedger, AnEdge
    <2> HIDE DEF out
    <2> QED BY <2>1
<1>4. Told(window, out)
    BY <1>1, <1>2, <1>3 DEF Told, OfTheRoom
<1> HIDE DEF window, out, open
<1>5. \A e \in window : open[e] \in Int /\ open[e] = out[e]
    BY <1>1, <1>3
<1>6. ASSUME NEW T \in SUBSET window
      PROVE  SumFunctionOnSet(open, T) = SumFunctionOnSet(out, T)
    <2>1. IsFiniteSet(T) /\ \A e \in T : open[e] \in Int /\ open[e] = out[e]
        BY <1>2, <1>5, FS_Subset
    <2> QED BY <2>1, SumOfSame
<1>7. ASSUME NEW a, NEW b
      PROVE  Owes(open, a, b) = OpenOf(out, window, a, b)
    <2> DEFINE here == PairEdges(window, <<a, b>>)
               f == [e \in here |-> open[e]]
    <2>1. here \in SUBSET window /\ IsFiniteSet(here)
        BY <1>2, FS_Subset DEF PairEdges
    <2>2. Owes(open, a, b) = SumFunctionOnSet(f, here)
        BY <1>1 DEF Owes, OwedOver, SumFunction
    <2>3. \A e \in here : f[e] \in Int /\ f[e] = open[e]
        BY <1>5, <2>1
    <2> HIDE DEF f, here
    <2>4. SumFunctionOnSet(f, here) = SumFunctionOnSet(open, here)
        BY <2>1, <2>3, SumOfSame
    <2> QED BY <1>6, <2>1, <2>2, <2>4 DEF OpenOf, here
<1>8. ASSUME NEW m
      PROVE  Balance(lent, made, period, m) = Lent(out, window, m) - Borrowed(out, window, m)
    <2> DEFINE in == {e \in window : e.creditor = m}
               from == {e \in window : e.debtor = m}
    <2>1. in \in SUBSET window /\ from \in SUBSET window
        OBVIOUS
    <2>2. Balance(lent, made, period, m) = SumFunctionOnSet(open, in) - SumFunctionOnSet(open, from)
        BY <1>1 DEF Balance, open
    <2>3. Lent(out, window, m) = SumFunctionOnSet(out, in) /\ Borrowed(out, window, m) = SumFunctionOnSet(out, from)
        BY DEF Lent, Borrowed
    <2> HIDE DEF in, from
    <2> QED BY <1>6, <2>1, <2>2, <2>3
<1> QED BY <1>1, <1>4, <1>7, <1>8 DEF window, out, open

(* The rows of a member's statement: no two debts of a pair look alike.    *)
LEMMA StatementTells ==
    ASSUME NEW lent, NEW made, ALedger(lent, made), OfTheRoom(lent), NEW period, NEW m
    PROVE  LET window == Window(lent, period)
               out    == Outstanding(lent, made)
               mine   == Statement(lent, made, period, m)
           IN  SumOf(mine.owed) = Lent(out, window, m) /\ SumOf(mine.owe) = Borrowed(out, window, m)
<1> DEFINE window == Window(lent, period)
           out    == Outstanding(lent, made)
           open   == Breakdown(lent, made, period)
           mine   == Statement(lent, made, period, m)
           A == {e \in window : e.creditor = m}
           B == {e \in window : e.debtor = m}
           T == {e \in A : open[e] > 0}
           U == {e \in B : open[e] > 0}
           owed == [e \in T |-> [other |-> e.debtor, kind |-> e.kind, ref |-> e.ref, amount |-> open[e]]]
           owe  == [e \in U |-> [other |-> e.creditor, kind |-> e.kind, ref |-> e.ref, amount |-> open[e]]]
<1>1. /\ window \in SUBSET lent /\ Told(window, out)
      /\ DOMAIN open = window /\ \A e \in window : open[e] = out[e]
    BY BreakdownIs
<1>2. mine.owed = {owed[e] : e \in T} /\ mine.owe = {owe[e] : e \in U}
    <2>1. {f \in DOMAIN open : f.creditor = m /\ open[f] > 0} = T /\ {f \in DOMAIN open : f.debtor = m /\ open[f] > 0} = U
        <3> HIDE DEF open, window
        <3> QED BY <1>1
    <2>2. /\ mine.owed = {[other |-> e.debtor, kind |-> e.kind, ref |-> e.ref, amount |-> open[e]] : e \in T}
          /\ mine.owe = {[other |-> e.creditor, kind |-> e.kind, ref |-> e.ref, amount |-> open[e]] : e \in U}
        <3> HIDE DEF T, U
        <3> QED BY <2>1 DEF Statement
    <2> HIDE DEF T, U, mine, open
    <2> QED BY <2>2
<1> HIDE DEF window, out, open, mine
<1>3. /\ A \in SUBSET window /\ B \in SUBSET window /\ T \in SUBSET A /\ U \in SUBSET B
      /\ IsFiniteSet(A) /\ IsFiniteSet(B) /\ IsFiniteSet(T) /\ IsFiniteSet(U)
    <2>1. A \in SUBSET window /\ B \in SUBSET window /\ T \in SUBSET A /\ U \in SUBSET B
        OBVIOUS
    <2>2. IsFiniteSet(window)
        BY <1>1 DEF Told
    <2> HIDE DEF A, B, T, U
    <2>3. IsFiniteSet(A) /\ IsFiniteSet(B)
        BY <2>1, <2>2, FS_Subset
    <2> QED BY <2>1, <2>3, FS_Subset
<1>4. \A e \in window : out[e] \in Nat /\ open[e] = out[e]
    BY <1>1 DEF Told
<1>5. SumOf(mine.owed) = SumFunctionOnSet(out, A)
    <2>1. \A e \in T : out[e] \in Int /\ owed[e].amount = out[e]
        BY <1>3, <1>4
    <2>2. \A e, f \in T : owed[e] = owed[f] => e = f
        <3> SUFFICES ASSUME NEW e \in T, NEW f \in T, owed[e] = owed[f]
                     PROVE  e = f
            OBVIOUS
        <3>1. /\ owed[e].other = e.debtor /\ owed[e].kind = e.kind /\ owed[e].ref = e.ref
              /\ owed[f].other = f.debtor /\ owed[f].kind = f.kind /\ owed[f].ref = f.ref
            OBVIOUS
        <3>2. e \in lent /\ f \in lent /\ e.creditor = f.creditor
            BY <1>1, <1>3
        <3> HIDE DEF owed, T
        <3> QED BY <3>1, <3>2 DEF ALedger, Distinct
    <2>3. \A e \in A : out[e] \in Int
        BY <1>3, <1>4
    <2>4. \A e \in A \ T : out[e] = 0
        <3> SUFFICES ASSUME NEW e \in A \ T
                     PROVE  out[e] = 0
            OBVIOUS
        <3>1. out[e] \in Nat /\ ~ (out[e] > 0)
            BY <1>3, <1>4
        <3> QED BY <3>1
    <2> HIDE DEF owed, T, A
    <2>5. SumOf(mine.owed) = SumFunctionOnSet(out, T)
        <3> DEFINE rows == mine.owed
        <3>1. IsFiniteSet(T) /\ rows = {owed[e] : e \in T}
            BY <1>2, <1>3
        <3> HIDE DEF rows
        <3>2. SumOf(rows) = SumFunctionOnSet(out, T)
            BY <2>1, <2>2, <3>1, OneRowEach
        <3> QED BY <3>2 DEF rows
    <2>6. SumFunctionOnSet(out, A) = SumFunctionOnSet(out, T)
        BY <1>3, <2>3, <2>4, SumOfSupport
    <2> QED BY <2>5, <2>6
<1>6. SumOf(mine.owe) = SumFunctionOnSet(out, B)
    <2>1. \A e \in U : out[e] \in Int /\ owe[e].amount = out[e]
        BY <1>3, <1>4
    <2>2. \A e, f \in U : owe[e] = owe[f] => e = f
        <3> SUFFICES ASSUME NEW e \in U, NEW f \in U, owe[e] = owe[f]
                     PROVE  e = f
            OBVIOUS
        <3>1. /\ owe[e].other = e.creditor /\ owe[e].kind = e.kind /\ owe[e].ref = e.ref
              /\ owe[f].other = f.creditor /\ owe[f].kind = f.kind /\ owe[f].ref = f.ref
            OBVIOUS
        <3>2. e \in lent /\ f \in lent /\ e.debtor = f.debtor
            BY <1>1, <1>3
        <3> HIDE DEF owe, U
        <3> QED BY <3>1, <3>2 DEF ALedger, Distinct
    <2>3. \A e \in B : out[e] \in Int
        BY <1>3, <1>4
    <2>4. \A e \in B \ U : out[e] = 0
        <3> SUFFICES ASSUME NEW e \in B \ U
                     PROVE  out[e] = 0
            OBVIOUS
        <3>1. out[e] \in Nat /\ ~ (out[e] > 0)
            BY <1>3, <1>4
        <3> QED BY <3>1
    <2> HIDE DEF owe, U, B
    <2>5. SumOf(mine.owe) = SumFunctionOnSet(out, U)
        <3> DEFINE rows == mine.owe
        <3>1. IsFiniteSet(U) /\ rows = {owe[e] : e \in U}
            BY <1>2, <1>3
        <3> HIDE DEF rows
        <3>2. SumOf(rows) = SumFunctionOnSet(out, U)
            BY <2>1, <2>2, <3>1, OneRowEach
        <3> QED BY <3>2 DEF rows
    <2>6. SumFunctionOnSet(out, B) = SumFunctionOnSet(out, U)
        BY <1>3, <2>3, <2>4, SumOfSupport
    <2> QED BY <2>5, <2>6
<1> QED BY <1>5, <1>6 DEF Lent, Borrowed, window, out, mine

LEMMA ViewOfAPeriod ==
    ASSUME NEW lent, NEW made, ALedger(lent, made), OfTheRoom(lent), NEW period, NEW m \in People
    PROVE  LET balance == Balance(lent, made, period, m)
               rows    == Transfers(lent, made, period, People)
               pairs   == AsRows(OutstandingPairs(lent, made, period, People))
               mine    == Statement(lent, made, period, m)
           IN  /\ balance = InTo(rows, m) - OutOf(rows, m)
               /\ balance = InTo(pairs, m) - OutOf(pairs, m)
               /\ balance = SumOf(mine.owed) - SumOf(mine.owe)
<1> DEFINE window == Window(lent, period)
           out    == Outstanding(lent, made)
           open   == Breakdown(lent, made, period)
           owed   == [q \in People \X People |-> Owes(open, q[1], q[2])]
           balance == Balance(lent, made, period, m)
           rows    == Transfers(lent, made, period, People)
           pairs   == AsRows(OutstandingPairs(lent, made, period, People))
           mine    == Statement(lent, made, period, m)
<1>1. Told(window, out) /\ \A a, b : Owes(open, a, b) = OpenOf(out, window, a, b)
    BY BreakdownIs
<1>2. balance = Lent(out, window, m) - Borrowed(out, window, m)
    BY BreakdownIs
<1>3. SumOf(mine.owed) = Lent(out, window, m) /\ SumOf(mine.owe) = Borrowed(out, window, m)
    BY StatementTells
<1>4. rows = NetPairs(owed, People)
    BY DEF Transfers
<1>5. pairs = AsRows(OpenPairs(owed))
    <2>1. OutstandingPairs(lent, made, period, People) = OpenPairs(owed)
        <3>1. \A q \in People \X People : owed[q] = Owes(open, q[1], q[2])
            OBVIOUS
        <3>2. OutstandingPairs(lent, made, period, People)
                = {[debtor |-> p[1], creditor |-> p[2], amount |-> Owes(open, p[1], p[2])] :
                     p \in {q \in People \X People : Owes(open, q[1], q[2]) > 0}}
            BY Zenon DEF OutstandingPairs
        <3> HIDE DEF owed, open
        <3>3. {q \in People \X People : Owes(open, q[1], q[2]) > 0} = {q \in People \X People : owed[q] > 0}
            BY <3>1
        <3> DEFINE P == {q \in People \X People : owed[q] > 0}
        <3>4. OutstandingPairs(lent, made, period, People)
                = {[debtor |-> p[1], creditor |-> p[2], amount |-> Owes(open, p[1], p[2])] : p \in P}
            BY <3>2, <3>3
        <3>5. \A p \in P : owed[p] = Owes(open, p[1], p[2])
            BY <3>1
        <3>6. OpenPairs(owed) = {[debtor |-> p[1], creditor |-> p[2], amount |-> owed[p]] : p \in P}
            BY DEF OpenPairs
        <3> HIDE DEF P
        <3> QED BY <3>4, <3>5, <3>6
    <2> QED BY <2>1
<1> HIDE DEF window, out, open, rows, pairs, mine, balance
<1>6. \A a, b \in People : owed[<<a, b>>] = OpenOf(out, window, a, b)
    BY <1>1
<1>7. Table(owed)
    <2>1. \A a, b \in People : OpenOf(out, window, a, b) \in Nat
        BY <1>1, PairByPair
    <2>2. \A p \in People \X People : p = <<p[1], p[2]>> /\ p[1] \in People /\ p[2] \in People
        OBVIOUS
    <2> HIDE DEF owed
    <2>3. ASSUME NEW p \in People \X People
          PROVE  owed[p] \in Nat
        <3> DEFINE a == p[1]
                   b == p[2]
        <3>1. p = <<a, b>> /\ a \in People /\ b \in People
            BY <2>2
        <3> HIDE DEF a, b
        <3>2. owed[<<a, b>>] \in Nat
            BY <1>6, <2>1, <3>1
        <3> QED BY <3>1, <3>2
    <2> QED BY <2>3 DEF Table
<1>8. OwedTo(owed, m) = Lent(out, window, m) /\ OwedBy(owed, m) = Borrowed(out, window, m)
    <2>1. /\ [q \in People |-> owed[<<q, m>>]] = [q \in People |-> OpenOf(out, window, q, m)]
          /\ [q \in People |-> owed[<<m, q>>]] = [q \in People |-> OpenOf(out, window, m, q)]
        <3> HIDE DEF owed
        <3> QED BY <1>6
    <2>2. /\ Lent(out, window, m) = SumFunctionOnSet([q \in People |-> OpenOf(out, window, q, m)], People)
          /\ Borrowed(out, window, m) = SumFunctionOnSet([q \in People |-> OpenOf(out, window, m, q)], People)
        BY <1>1, PairByPair
    <2> HIDE DEF owed
    <2> QED BY <2>1, <2>2 DEF OwedTo, OwedBy
<1> HIDE DEF owed
<1>9. InTo(rows, m) - OutOf(rows, m) = OwedTo(owed, m) - OwedBy(owed, m)
    BY <1>4, <1>7, TransfersTell
<1>10. InTo(pairs, m) = OwedTo(owed, m) /\ OutOf(pairs, m) = OwedBy(owed, m)
    BY <1>5, <1>7, PairsTell
<1>11. /\ balance = InTo(rows, m) - OutOf(rows, m)
       /\ balance = InTo(pairs, m) - OutOf(pairs, m)
       /\ balance = SumOf(mine.owed) - SumOf(mine.owe)
    BY <1>2, <1>3, <1>8, <1>9, <1>10
<1> QED BY <1>11 DEF balance, rows, pairs, mine

(* Up to a day and since it, nothing is forgotten and nothing comes twice. *)
LEMMA DaysAddUp ==
    ASSUME NEW lent, NEW made, ALedger(lent, made), OfTheRoom(lent), NEW day \in Dates, NEW m
    PROVE  Balance(lent, made, Whole, m)
             = Balance(lent, made, [from |-> Beginning, to |-> day], m)
                 + Balance(lent, made, SinceLast(Today, day), m)
<1> DEFINE out  == Outstanding(lent, made)
           first == [from |-> Beginning, to |-> day]
           last == SinceLast(Today, day)
           A == Window(lent, first)
           B == Window(lent, last)
           Ins(T) == {e \in T : e.creditor = m}
           Outs(T) == {e \in T : e.debtor = m}
<1>1. day \in Int /\ day # Beginning /\ Today \in Int /\ Beginning \notin Int
    BY DatesAssumption, DatesEnd
<1>2. \A e \in lent : e.day \in Int /\ e.day <= Today
    BY DatesEnd DEF OfTheRoom
<1>3. Window(lent, Whole) = lent
    BY <1>2 DEF Window, In, Whole
<1>4. \A e \in lent : e \in A <=> e.day <= day
    BY DEF Window, In
<1>5. \A e \in lent : e \in B <=> e.day > day
    <2>1. last = [from |-> day + 1, to |-> Today] /\ day + 1 # Beginning /\ day + 1 \in Int
        BY <1>1 DEF SinceLast
    <2> SUFFICES ASSUME NEW e \in lent
                 PROVE  e \in B <=> e.day > day
        OBVIOUS
    <2>2. e \in B <=> In(e.day, last)
        BY DEF Window
    <2>3. In(e.day, last) <=> e.day <= Today /\ (day + 1 = Beginning \/ e.day >= day + 1)
        BY <2>1 DEF In
    <2>4. e.day \in Int /\ e.day <= Today
        BY <1>2
    <2> HIDE DEF B, last
    <2> QED BY <1>1, <2>1, <2>2, <2>3, <2>4
<1>6. A \in SUBSET lent /\ B = lent \ A
    <2>1. A \in SUBSET lent /\ B \in SUBSET lent
        BY DEF Window
    <2> HIDE DEF A, B
    <2> QED BY <1>1, <1>2, <1>4, <1>5, <2>1
<1> HIDE DEF A, B, first, last
<1>7. /\ Balance(lent, made, Whole, m) = Lent(out, lent, m) - Borrowed(out, lent, m)
      /\ Balance(lent, made, first, m) = Lent(out, A, m) - Borrowed(out, A, m)
      /\ Balance(lent, made, last, m) = Lent(out, B, m) - Borrowed(out, B, m)
    BY <1>3, BreakdownIs DEF A, B
<1>8. Told(lent, out) /\ Told(A, out) /\ Told(B, out)
    BY <1>3, BreakdownIs DEF A, B
<1>9. /\ Lent(out, A, m) \in Int /\ Borrowed(out, A, m) \in Int
      /\ Lent(out, B, m) \in Int /\ Borrowed(out, B, m) \in Int
    <2> HIDE DEF out
    <2>1. /\ Lent(out, A, m) \in Nat /\ Borrowed(out, A, m) \in Nat
          /\ Lent(out, B, m) \in Nat /\ Borrowed(out, B, m) \in Nat
        BY <1>8, PairByPair
    <2> QED BY <2>1
<1> HIDE DEF out
<1>10. IsFiniteSet(Ins(lent)) /\ IsFiniteSet(Outs(lent)) /\ \A e \in lent : out[e] \in Int
    <2>1. IsFiniteSet(lent) /\ \A e \in lent : out[e] \in Nat
        BY <1>8 DEF Told
    <2> QED BY <2>1, FS_Subset
<1>11. Lent(out, lent, m) = Lent(out, A, m) + Lent(out, B, m)
    <2>1. Ins(A) \in SUBSET Ins(lent) /\ Ins(B) = Ins(lent) \ Ins(A) /\ \A e \in Ins(lent) : out[e] \in Int
        BY <1>6, <1>10
    <2>2. /\ Lent(out, lent, m) = SumFunctionOnSet(out, Ins(lent)) /\ Lent(out, A, m) = SumFunctionOnSet(out, Ins(A))
          /\ Lent(out, B, m) = SumFunctionOnSet(out, Ins(B))
        BY DEF Lent
    <2> HIDE DEF Ins
    <2> QED BY <1>10, <2>1, <2>2, SumOfParts
<1>12. Borrowed(out, lent, m) = Borrowed(out, A, m) + Borrowed(out, B, m)
    <2>1. Outs(A) \in SUBSET Outs(lent) /\ Outs(B) = Outs(lent) \ Outs(A) /\ \A e \in Outs(lent) : out[e] \in Int
        BY <1>6, <1>10
    <2>2. /\ Borrowed(out, lent, m) = SumFunctionOnSet(out, Outs(lent)) /\ Borrowed(out, A, m) = SumFunctionOnSet(out, Outs(A))
          /\ Borrowed(out, B, m) = SumFunctionOnSet(out, Outs(B))
        BY DEF Borrowed
    <2> HIDE DEF Outs
    <2> QED BY <1>10, <2>1, <2>2, SumOfParts
<1>13. Balance(lent, made, Whole, m) = Balance(lent, made, first, m) + Balance(lent, made, last, m)
    BY <1>7, <1>9, <1>11, <1>12
<1> QED BY <1>13 DEF first, last

LEMMA ARoomsPeriodsAgree ==
    ASSUME ALedger(edges, pays), OfTheRoom(edges)
    PROVE  PeriodsAgree
<1>1. ASSUME NEW keyword \in Keywords, NEW m \in People
      PROVE  LET period  == ResolvePeriod(keyword, Today, Beginning)
                 rows    == Transfers(edges, pays, period, People)
                 balance == Balance(edges, pays, period, m)
                 summary == PeriodSummary(edges, pays, keyword, Today, Beginning, People)
                 mine    == MemberStatement(edges, pays, keyword, Today, Beginning, m)
                 pairs   == AsRows(summary)
             IN  /\ balance = InTo(rows, m) - OutOf(rows, m)
                 /\ balance = InTo(pairs, m) - OutOf(pairs, m)
                 /\ balance = SumOf(mine.owed) - SumOf(mine.owe)
                 /\ Panel(edges, pays, period, m, People) = [outstanding |-> summary, me |-> mine]
    <2> DEFINE period == ResolvePeriod(keyword, Today, Beginning)
    <2>1. /\ PeriodSummary(edges, pays, keyword, Today, Beginning, People) = OutstandingPairs(edges, pays, period, People)
          /\ MemberStatement(edges, pays, keyword, Today, Beginning, m) = Statement(edges, pays, period, m)
        BY DEF PeriodSummary, MemberStatement
    <2>2. Panel(edges, pays, period, m, People)
            = [outstanding |-> OutstandingPairs(edges, pays, period, People), me |-> Statement(edges, pays, period, m)]
        BY DEF Panel
    <2> HIDE DEF period
    <2>3. LET balance == Balance(edges, pays, period, m)
              rows    == Transfers(edges, pays, period, People)
              pairs   == AsRows(OutstandingPairs(edges, pays, period, People))
              mine    == Statement(edges, pays, period, m)
          IN  /\ balance = InTo(rows, m) - OutOf(rows, m)
              /\ balance = InTo(pairs, m) - OutOf(pairs, m)
              /\ balance = SumOf(mine.owed) - SumOf(mine.owe)
        BY ViewOfAPeriod
    <2> QED BY <2>1, <2>2, <2>3, Zenon DEF period
<1>2. \A day \in Dates, m \in People :
        Balance(edges, pays, Whole, m)
          = Balance(edges, pays, [from |-> Beginning, to |-> day], m)
              + Balance(edges, pays, SinceLast(Today, day), m)
    BY DaysAddUp
<1> QED BY <1>1, <1>2, Zenon DEF PeriodsAgree
-----------------------------------------------------------------------------
LEMMA SetToSeqIs ==
    ASSUME NEW S, IsFiniteSet(S)
    PROVE  LET s == SetToSeq(S) IN
           /\ s \in Seq(S) /\ Len(s) \in Nat /\ IsFiniteSet(1..Len(s))
           /\ \A i \in 1..Len(s) : s[i] \in S
           /\ \A x \in S : \E i \in 1..Len(s) : s[i] = x
           /\ \A i, j \in 1..Len(s) : s[i] = s[j] => i = j
<1> DEFINE n == Cardinality(S)
           s == SetToSeq(S)
<1>1. n \in Nat /\ ExistsBijection(1..n, S)
    BY FS_CardinalityType
<1>2. \E f \in [1..n -> S] : IsInjective(f)
    BY <1>1 DEF ExistsBijection, Bijection, Injection
<1>3. s \in [1..n -> S] /\ IsInjective(s)
    BY <1>2 DEF SetToSeq
<1>4. s \in Seq(S) /\ \A x \in S : \E i \in 1..Len(s) : s[i] = x
    BY SetToSeqCovers
<1> HIDE DEF n, s
<1>5. Len(s) = n /\ DOMAIN s = 1..n
    BY <1>1, <1>3, ASequence
<1>6. \A i, j \in 1..Len(s) : s[i] = s[j] => i = j
    BY <1>3, <1>5 DEF IsInjective
<1>7. IsFiniteSet(1..Len(s))
    BY <1>1, <1>5, FS_Interval
<1>8. \A i \in 1..Len(s) : s[i] \in S
    BY <1>3, <1>5
<1> QED BY <1>1, <1>4, <1>5, <1>6, <1>7, <1>8 DEF s

LEMMA SumOfOneRow ==
    ASSUME NEW r, r.amount \in Int
    PROVE  SumOf({r}) = r.amount
<1> DEFINE h == [x \in {r} |-> x]
           f == [x \in {r} |-> x.amount]
<1>1. IsFiniteSet({r})
    BY FS_Singleton
<1>2. {r} = {h[x] : x \in {r}}
    OBVIOUS
<1>3. (\A x \in {r} : f[x] \in Int /\ h[x].amount = f[x]) /\ (\A x, y \in {r} : h[x] = h[y] => x = y)
    OBVIOUS
<1>4. f[r] = r.amount /\ {r} \ {r} = {}
    OBVIOUS
<1> HIDE DEF h, f
<1>5. SumOf({r}) = SumFunctionOnSet(f, {r})
    BY <1>1, <1>2, <1>3, OneRowEach
<1>6. SumFunctionOnSet(f, {r}) = f[r] + SumFunctionOnSet(f, {})
    BY <1>1, <1>3, <1>4, SumTakesOut
<1>7. SumFunctionOnSet(f, {}) = 0
    BY SumOfNone
<1> QED BY <1>4, <1>5, <1>6, <1>7

LEMMA SumOfNoRows == SumOf({}) = 0
<1>1. DOMAIN [r \in {} |-> r.amount] = {}
    OBVIOUS
<1> QED BY <1>1, SumOfNone DEF SumOf, SumFunction

(* What rows pay from a to b, and the payments that are made on top of others. *)
Between(rows, a, b) == SumOf({r \in rows : r.frm = a /\ r.to = b})
PaidOnTop(made, all, more, a, b) ==
    /\ AmountOf(made, PairPayments(made, <<a, b>>)) \in Nat
    /\ AmountOf(all, PairPayments(all, <<a, b>>)) = AmountOf(made, PairPayments(made, <<a, b>>)) + Between(more, a, b)

(* What the debtor of a pair has paid, once more payments were made.       *)
LEMMA PaidWithMore ==
    ASSUME NEW S, \A p \in S : p.amount \in Nat, NEW made \in Seq(S),
           NEW more \in SUBSET S, IsFiniteSet(more), NEW a, NEW b
    PROVE  made \o SetToSeq(more) \in Seq(S) /\ PaidOnTop(made, made \o SetToSeq(more), more, a, b)
<1> DEFINE s == SetToSeq(more)
           all == made \o s
           n == Len(made)
           k == Len(s)
           rows == {p \in more : p.frm = a /\ p.to = b}
           Old == PairPayments(made, <<a, b>>)
           New == PairPayments(all, <<a, b>>)
           Idx == {i \in 1..k : s[i].frm = a /\ s[i].to = b}
           shift == [i \in Idx |-> n + i]
           amounts == [i \in Idx |-> s[i].amount]
<1>1. /\ s \in Seq(more) /\ k \in Nat /\ IsFiniteSet(1..k)
      /\ \A i \in 1..k : s[i] \in more
      /\ \A x \in more : \E i \in 1..k : s[i] = x
      /\ \A i, j \in 1..k : s[i] = s[j] => i = j
    BY SetToSeqIs
<1>2. s \in Seq(S)
    <2> HIDE DEF s
    <2> QED BY <1>1
<1> HIDE DEF s
<1>3. all \in Seq(S)
    BY <1>2
<1>4. n \in Nat /\ DOMAIN made = 1..n /\ DOMAIN all = 1..(n + k) /\ DOMAIN s = 1..k
    BY <1>1, <1>2
<1>5. (\A i \in 1..n : all[i] = made[i]) /\ (\A i \in 1..k : all[n + i] = s[i])
    BY <1>1, <1>2
<1>6. Payments(made) /\ Payments(all)
    <2> HIDE DEF all
    <2> QED BY <1>3, PaymentsInASequence
<1> HIDE DEF all, n, k
<1>7. New = Old \cup {shift[i] : i \in Idx}
    <2>1. ASSUME NEW j \in New
          PROVE  j \in Old \/ \E i \in Idx : j = shift[i]
        <3>1. j \in 1..(n + k) /\ all[j].frm = a /\ all[j].to = b
            BY <1>4 DEF PairPayments
        <3>2. CASE j <= n
            <4>1. j \in 1..n
                BY <1>1, <1>4, <3>1, <3>2
            <4> QED BY <1>4, <1>5, <3>1, <4>1 DEF PairPayments
        <3>3. CASE ~ (j <= n)
            <4> DEFINE i == j - n
            <4>1. i \in 1..k /\ j = n + i
                BY <1>1, <1>4, <3>1, <3>3
            <4> HIDE DEF i
            <4>2. i \in Idx
                BY <1>5, <3>1, <4>1
            <4> QED BY <4>1, <4>2
        <3> QED BY <3>2, <3>3
    <2>2. ASSUME NEW j \in Old
          PROVE  j \in New
        <3>1. j \in 1..n /\ made[j].frm = a /\ made[j].to = b
            BY <1>4 DEF PairPayments
        <3>2. j \in 1..(n + k)
            BY <1>1, <1>4, <3>1
        <3> QED BY <1>4, <1>5, <3>1, <3>2 DEF PairPayments
    <2>3. ASSUME NEW i \in Idx
          PROVE  shift[i] \in New
        <3>1. i \in 1..k /\ shift[i] = n + i /\ s[i].frm = a /\ s[i].to = b
            OBVIOUS
        <3>2. n + i \in 1..(n + k)
            BY <1>1, <1>4, <3>1
        <3>3. all[n + i] = s[i]
            BY <1>5, <3>1
        <3> QED BY <1>4, <3>1, <3>2, <3>3 DEF PairPayments
    <2> HIDE DEF New, Old, Idx, shift
    <2> QED BY <2>1, <2>2, <2>3
<1>8. Old \cap {shift[i] : i \in Idx} = {}
    <2>1. \A j \in Old : j \in 1..n
        BY <1>4 DEF PairPayments
    <2>2. \A i \in Idx : shift[i] = n + i /\ i \in 1..k
        OBVIOUS
    <2>3. \A i \in Idx : shift[i] \notin 1..n
        <3> HIDE DEF Idx, shift
        <3> QED BY <1>1, <1>4, <2>2
    <2> HIDE DEF Old, Idx, shift
    <2> QED BY <2>1, <2>3
<1>9. IsFiniteSet(Idx) /\ New \in SUBSET DOMAIN all /\ Old \in SUBSET DOMAIN made /\ IsFiniteSet(New) /\ Old \in SUBSET New
    <2>1. New \in SUBSET DOMAIN all /\ Old \in SUBSET DOMAIN made /\ Idx \in SUBSET (1..k)
        BY DEF PairPayments
    <2>2. IsFiniteSet(DOMAIN all)
        BY <1>6 DEF Payments
    <2> HIDE DEF New, Old, Idx, shift
    <2> QED BY <1>1, <1>7, <2>1, <2>2, FS_Subset
<1>10. AmountOf(all, New) = SumFunctionOnSet(AmountsOf(all), New) /\ AmountOf(made, Old) = SumFunctionOnSet(AmountsOf(made), Old)
       /\ AmountOf(made, Old) \in Nat
    <2> HIDE DEF New, Old
    <2> QED BY <1>6, <1>9, AmountIs
<1>11. \A i \in DOMAIN all : AmountsOf(all)[i] \in Int
    <2>1. \A i \in DOMAIN all : AmountsOf(all)[i] \in Nat
        BY <1>6 DEF Payments, AmountsOf
    <2> QED BY <2>1
<1>12. SumFunctionOnSet(AmountsOf(all), New)
         = SumFunctionOnSet(AmountsOf(all), Old) + SumFunctionOnSet(AmountsOf(all), {shift[i] : i \in Idx})
    <2> DEFINE late == {shift[i] : i \in Idx}
    <2>1. late = New \ Old /\ \A j \in New : AmountsOf(all)[j] \in Int
        <3> HIDE DEF New, Old, shift, Idx
        <3> QED BY <1>7, <1>8, <1>9, <1>11
    <2> HIDE DEF late, New, Old, shift, Idx
    <2>2. SumFunctionOnSet(AmountsOf(all), New) = SumFunctionOnSet(AmountsOf(all), Old) + SumFunctionOnSet(AmountsOf(all), New \ Old)
        BY <1>9, <2>1, SumOfParts
    <2> QED BY <2>1, <2>2 DEF late
<1>13. SumFunctionOnSet(AmountsOf(all), Old) = SumFunctionOnSet(AmountsOf(made), Old)
    <2>1. \A j \in Old : AmountsOf(all)[j] \in Int /\ AmountsOf(all)[j] = AmountsOf(made)[j]
        <3> SUFFICES ASSUME NEW j \in Old
                     PROVE  AmountsOf(all)[j] \in Int /\ AmountsOf(all)[j] = AmountsOf(made)[j]
            OBVIOUS
        <3>1. j \in DOMAIN all /\ j \in DOMAIN made /\ all[j] = made[j]
            <4>1. j \in DOMAIN all /\ j \in DOMAIN made
                <5> HIDE DEF Old, New
                <5> QED BY <1>9
            <4> QED BY <1>4, <1>5, <4>1
        <3>2. AmountsOf(all)[j] \in Int
            BY <1>11, <3>1
        <3> QED BY <3>1, <3>2 DEF AmountsOf
    <2>2. IsFiniteSet(Old)
        <3> HIDE DEF Old, New
        <3> QED BY <1>9, FS_Subset
    <2> HIDE DEF Old
    <2> QED BY <2>1, <2>2, SumOfSame
<1>14. \A i \in Idx : amounts[i] = s[i].amount /\ amounts[i] \in Int /\ AmountsOf(all)[shift[i]] = amounts[i]
    <2> SUFFICES ASSUME NEW i \in Idx
                 PROVE  amounts[i] = s[i].amount /\ amounts[i] \in Int /\ AmountsOf(all)[shift[i]] = amounts[i]
        OBVIOUS
    <2>1. i \in 1..k /\ shift[i] = n + i /\ amounts[i] = s[i].amount
        OBVIOUS
    <2>2. n + i \in 1..(n + k)
        BY <1>1, <1>4, <2>1
    <2>3. all[n + i] = s[i] /\ n + i \in DOMAIN all
        BY <1>4, <1>5, <2>1, <2>2
    <2>4. AmountsOf(all)[n + i] = s[i].amount
        BY <2>3 DEF AmountsOf
    <2>5. s[i].amount \in Nat
        BY <1>1, <2>1
    <2> HIDE DEF shift, amounts, Idx
    <2> QED BY <2>1, <2>4, <2>5
<1>15. SumFunctionOnSet(AmountsOf(all), {shift[i] : i \in Idx}) = SumFunctionOnSet(amounts, Idx)
    <2>1. \A i, j \in Idx : shift[i] = shift[j] => i = j
        <3>1. \A i \in Idx : shift[i] = n + i /\ i \in 1..k
            OBVIOUS
        <3> HIDE DEF shift, Idx
        <3> QED BY <1>1, <1>4, <3>1
    <2> DEFINE g == AmountsOf(all)
    <2>2. \A i \in Idx : amounts[i] \in Int /\ g[shift[i]] = amounts[i]
        <3> HIDE DEF shift, Idx, amounts
        <3> QED BY <1>14
    <2>3. IsFiniteSet(Idx)
        BY <1>9
    <2> HIDE DEF shift, Idx, amounts, g
    <2>4. SumFunctionOnSet(g, {shift[i] : i \in Idx}) = SumFunctionOnSet(amounts, Idx)
        BY <2>1, <2>2, <2>3, SumOfImage
    <2> QED BY <2>4 DEF g
<1>16. SumOf(rows) = SumFunctionOnSet(amounts, Idx)
    <2> DEFINE h == [i \in Idx |-> s[i]]
    <2>1. rows = {h[i] : i \in Idx}
        <3>1. ASSUME NEW r \in rows
              PROVE  \E i \in Idx : r = h[i]
            <4>1. PICK i \in 1..k : s[i] = r
                BY <1>1
            <4>2. i \in Idx /\ h[i] = r
                BY <4>1
            <4> QED BY <4>2
        <3>2. ASSUME NEW i \in Idx
              PROVE  h[i] \in rows
            BY <1>1
        <3> HIDE DEF rows, h, Idx
        <3> QED BY <3>1, <3>2
    <2>2. \A i, j \in Idx : h[i] = h[j] => i = j
        BY <1>1
    <2>3. \A i \in Idx : amounts[i] \in Int /\ h[i].amount = amounts[i]
        BY <1>14
    <2> HIDE DEF rows, h, Idx, amounts
    <2> QED BY <1>9, <2>1, <2>2, <2>3, OneRowEach
<1> HIDE DEF Old, New, rows, amounts, Idx, shift
<1>17. AmountOf(all, New) = AmountOf(made, Old) + SumOf(rows)
    BY <1>10, <1>12, <1>13, <1>15, <1>16
<1> QED BY <1>3, <1>10, <1>17 DEF PaidOnTop, Between, all, s, Old, New, rows
-----------------------------------------------------------------------------
(* A room's ledger, and what one member owes another over the whole of it: what was    *)
(* lent less what was paid, and no less than nothing.                                  *)
APaidRow == [frm : People, to : People, amount : Nat, kind : {"meal", "game"}, ref : Nat]
ARoom == IsFiniteSet(edges) /\ (\A e \in edges : AnEdge(e)) /\ Distinct(edges) /\ OfTheRoom(edges)
Owed(made, a, b) == Owes(Breakdown(edges, made, Whole), a, b)
Debt(made, a, b) == Gross(edges, a, b) - AmountOf(made, PairPayments(made, <<a, b>>))

LEMMA ARoomsLedger ==
    ASSUME ARoom, NEW made \in Seq(APaidRow)
    PROVE  ALedger(edges, made)
<1>1. \A p \in APaidRow : p.amount \in Nat
    BY DEF APaidRow
<1>2. Payments(made)
    BY <1>1, PaymentsInASequence
<1> QED BY <1>2 DEF ARoom, ALedger

(* Over the whole ledger a pair owes what was lent less what was paid.     *)
LEMMA OwedIs ==
    ASSUME ARoom, NEW made \in Seq(APaidRow), NEW a, NEW b
    PROVE  Debt(made, a, b) \in Int /\ Owed(made, a, b) = Positive(Debt(made, a, b)) /\ Owed(made, a, b) \in Nat
<1> DEFINE out == Outstanding(edges, made)
           here == PairEdges(edges, <<a, b>>)
           f == [e \in here |-> out[e]]
           lent == [e \in here |-> e.amount]
<1>1. ALedger(edges, made) /\ OfTheRoom(edges)
    BY ARoomsLedger DEF ARoom
<1>2. Window(edges, Whole) = edges
    <2>1. \A e \in edges : e.day <= Today
        BY <1>1, DatesEnd DEF OfTheRoom
    <2> QED BY <2>1 DEF Window, In, Whole
<1>3. Told(edges, out) /\ Owed(made, a, b) = OpenOf(out, edges, a, b)
    BY <1>1, <1>2, BreakdownIs DEF Owed
<1>4. here \in SUBSET edges /\ IsFiniteSet(here)
    BY <1>1, FS_Subset DEF PairEdges, ALedger
<1>5. OwedOver(out, edges, a, b) = OpenOf(out, edges, a, b)
    <2>1. OwedOver(out, edges, a, b) = SumFunctionOnSet(f, here)
        BY DEF OwedOver, SumFunction
    <2>2. \A e \in here : f[e] \in Int /\ f[e] = out[e]
        <3>1. \A e \in here : out[e] \in Nat
            BY <1>3, <1>4 DEF Told
        <3>2. \A e \in here : f[e] = out[e]
            OBVIOUS
        <3> HIDE DEF out, f, here
        <3> QED BY <3>1, <3>2
    <2> HIDE DEF f, here, out
    <2>3. SumFunctionOnSet(f, here) = SumFunctionOnSet(out, here)
        BY <1>4, <2>2, SumOfSame
    <2> QED BY <2>1, <2>3 DEF OpenOf, here
<1>6. OwedOver(out, edges, a, b) = Positive(Debt(made, a, b))
    BY <1>1, PairIsSettled DEF Debt
<1>7. OpenOf(out, edges, a, b) \in Nat
    <2> HIDE DEF out
    <2> QED BY <1>3, PairByPair
<1>8. AmountOf(made, PairPayments(made, <<a, b>>)) \in Nat
    <2>1. PairPayments(made, <<a, b>>) \in SUBSET DOMAIN made
        BY DEF PairPayments
    <2> QED BY <1>1, <2>1, AmountIs DEF ALedger
<1>9. Gross(edges, a, b) \in Int
    <2>1. Gross(edges, a, b) = SumFunctionOnSet(lent, here)
        BY DEF Gross, SumFunction
    <2>2. \A e \in here : lent[e] \in Int
        <3>1. \A e \in here : e.amount \in Nat
            BY <1>4 DEF ARoom, AnEdge
        <3> QED BY <3>1
    <2> HIDE DEF lent, here
    <2> QED BY <1>4, <2>1, <2>2, SumIsWhole
<1>10. Debt(made, a, b) \in Int
    BY <1>8, <1>9 DEF Debt
<1> QED BY <1>3, <1>5, <1>6, <1>7, <1>10

LEMMA OwedAfter ==
    ASSUME ARoom, pays \in Seq(APaidRow), NEW more \in SUBSET APaidRow, IsFiniteSet(more), NEW a, NEW b
    PROVE  LET all == pays \o SetToSeq(more) IN
           /\ all \in Seq(APaidRow)
           /\ Owed(all, a, b) = Positive(Debt(pays, a, b) - Between(more, a, b))
<1> DEFINE all == pays \o SetToSeq(more)
           new == AmountOf(all, PairPayments(all, <<a, b>>))
           old == AmountOf(pays, PairPayments(pays, <<a, b>>))
           gross == Gross(edges, a, b)
           between == Between(more, a, b)
<1>1. \A p \in APaidRow : p.amount \in Nat
    BY DEF APaidRow
<1>2. all \in Seq(APaidRow) /\ PaidOnTop(pays, all, more, a, b)
    <2> HIDE DEF ARoom, APaidRow
    <2> QED BY <1>1, PaidWithMore
<1>3. new = old + between /\ old \in Nat
    BY <1>2 DEF PaidOnTop
<1> HIDE DEF all
<1>4. Owed(all, a, b) = Positive(Debt(all, a, b)) /\ Debt(all, a, b) \in Int
    BY <1>2, OwedIs
<1>5. Debt(pays, a, b) \in Int
    BY OwedIs
<1>6. Debt(all, a, b) = gross - new /\ Debt(pays, a, b) = gross - old
    BY DEF Debt
<1>7. between \in Int /\ gross \in Int
    <2>1. gross \in Int
        <3> DEFINE here == PairEdges(edges, <<a, b>>)
                   lent == [e \in here |-> e.amount]
        <3>1. gross = SumFunctionOnSet(lent, here)
            BY DEF Gross, SumFunction
        <3>2. \A e \in here : lent[e] \in Int
            <4>1. \A e \in here : e.amount \in Nat
                BY DEF ARoom, AnEdge, PairEdges
            <4> QED BY <4>1
        <3>3. IsFiniteSet(here)
            BY FS_Subset DEF ARoom, PairEdges
        <3> HIDE DEF lent, here
        <3> QED BY <3>1, <3>2, <3>3, SumIsWhole
    <2>2. between \in Int
        <3> DEFINE rows == {r \in more : r.frm = a /\ r.to = b}
                   g == [r \in rows |-> r.amount]
        <3>1. between = SumFunctionOnSet(g, rows)
            BY DEF Between, SumOf, SumFunction
        <3>2. \A r \in rows : g[r] \in Int
            <4>1. \A r \in rows : r.amount \in Nat
                BY <1>1
            <4> QED BY <4>1
        <3>3. IsFiniteSet(rows)
            BY FS_Subset
        <3> HIDE DEF g, rows, between
        <3> QED BY <3>1, <3>2, <3>3, SumIsWhole
    <2> QED BY <2>1, <2>2
<1> HIDE DEF new, old, gross, between
<1>8. Debt(all, a, b) = Debt(pays, a, b) - between
    BY <1>2, <1>3, <1>6, <1>7
<1> QED BY <1>2, <1>4, <1>8 DEF all, between

LEMMA TransfersAre ==
    ASSUME NEW made
    PROVE  /\ \A t \in Transfers(edges, made, Whole, People) :
                /\ t.frm \in People /\ t.to \in People /\ Owed(made, t.frm, t.to) > Owed(made, t.to, t.frm)
                /\ t = [frm |-> t.frm, to |-> t.to, amount |-> Owed(made, t.frm, t.to) - Owed(made, t.to, t.frm)]
           /\ \A a, b \in People : Owed(made, a, b) > Owed(made, b, a) =>
                [frm |-> a, to |-> b, amount |-> Owed(made, a, b) - Owed(made, b, a)] \in Transfers(edges, made, Whole, People)
           /\ IsFiniteSet(Transfers(edges, made, Whole, People))
<1> DEFINE owed == [q \in People \X People |-> Owed(made, q[1], q[2])]
           rows == Transfers(edges, made, Whole, People)
           P == {r \in People \X People : owed[r] > owed[<<r[2], r[1]>>]}
           row == [q \in P |-> [frm |-> q[1], to |-> q[2], amount |-> owed[q] - owed[<<q[2], q[1]>>]]]
<1>1. rows = NetPairs(owed, People)
    BY DEF Transfers, Owed
<1>2. rows = {row[q] : q \in P}
    <2> HIDE DEF owed, rows
    <2>1. rows = {[frm |-> q[1], to |-> q[2], amount |-> owed[q] - owed[<<q[2], q[1]>>]] : q \in P}
        BY <1>1 DEF NetPairs
    <2> QED BY <2>1
<1>3. \A q \in People \X People : owed[q] = Owed(made, q[1], q[2]) /\ owed[<<q[2], q[1]>>] = Owed(made, q[2], q[1])
    OBVIOUS
<1>4. ASSUME NEW t \in rows
      PROVE  /\ t.frm \in People /\ t.to \in People /\ Owed(made, t.frm, t.to) > Owed(made, t.to, t.frm)
             /\ t = [frm |-> t.frm, to |-> t.to, amount |-> Owed(made, t.frm, t.to) - Owed(made, t.to, t.frm)]
    <2>1. PICK q \in P : t = row[q]
        BY <1>2
    <2>2. q \in People \X People /\ owed[q] > owed[<<q[2], q[1]>>]
        OBVIOUS
    <2>3. t = [frm |-> q[1], to |-> q[2], amount |-> owed[q] - owed[<<q[2], q[1]>>]]
        BY <2>1
    <2> HIDE DEF owed, row, P, rows
    <2>4. t.frm = q[1] /\ t.to = q[2] /\ q[1] \in People /\ q[2] \in People
        BY <2>2, <2>3
    <2> QED BY <1>3, <2>2, <2>3, <2>4
<1>5. ASSUME NEW a \in People, NEW b \in People, Owed(made, a, b) > Owed(made, b, a)
      PROVE  [frm |-> a, to |-> b, amount |-> Owed(made, a, b) - Owed(made, b, a)] \in rows
    <2> DEFINE q == <<a, b>>
    <2>1. q \in People \X People /\ q[1] = a /\ q[2] = b
        OBVIOUS
    <2>2. owed[q] = Owed(made, a, b) /\ owed[<<q[2], q[1]>>] = Owed(made, b, a)
        BY <1>3, <2>1
    <2>3. q \in P
        BY <1>5, <2>1, <2>2
    <2>4. row[q] = [frm |-> a, to |-> b, amount |-> Owed(made, a, b) - Owed(made, b, a)]
        BY <2>1, <2>2, <2>3
    <2> HIDE DEF owed, row, P, rows, q
    <2> QED BY <1>2, <2>3, <2>4
<1>6. IsFiniteSet(rows)
    <2>1. IsFiniteSet(People \X People)
        BY PeopleAssumption, FS_Product
    <2>2. IsFiniteSet(P)
        BY <2>1, FS_Subset
    <2> HIDE DEF P, row, rows
    <2> QED BY <1>2, <2>2, ImageIsFinite
<1> QED BY <1>4, <1>5, <1>6
-----------------------------------------------------------------------------
(* A card of a room: rows between two different members, which are the transfers of    *)
(* the room as long as nothing else was recorded.                                      *)
ARow == [frm : People, to : People, amount : Nat \ {0}]
Rows(rows) == rows \in SUBSET ARow /\ IsFiniteSet(rows)
CardInv ==
    /\ card \in [rows : SUBSET ARow, fresh : BOOLEAN]
    /\ Rows(card.rows) /\ \A r \in card.rows : r.frm # r.to
    /\ card.fresh => card.rows = Transfers(edges, pays, Whole, People)
PaysInv == pays \in Seq(APaidRow)

LEMMA BetweenNone ==
    ASSUME NEW rows, NEW a, NEW b, \A r \in rows : ~ (r.frm = a /\ r.to = b)
    PROVE  Between(rows, a, b) = 0
<1>1. {r \in rows : r.frm = a /\ r.to = b} = {}
    OBVIOUS
<1> QED BY <1>1, SumOfNoRows, Zenon DEF Between

LEMMA BetweenOne ==
    ASSUME NEW rows, NEW r \in rows, r.amount \in Int,
           \A s \in rows : s.frm = r.frm /\ s.to = r.to => s = r
    PROVE  Between(rows, r.frm, r.to) = r.amount
<1>1. {s \in rows : s.frm = r.frm /\ s.to = r.to} = {r}
    OBVIOUS
<1>2. SumOf({r}) = r.amount
    BY SumOfOneRow
<1> QED BY <1>1, <1>2, Zenon DEF Between

Payment(r) == [frm |-> r.frm, to |-> r.to, amount |-> r.amount, kind |-> "meal", ref |-> NoRef]

(* Rows of a card paid on top.                                             *)
LEMMA OwedAfterRows ==
    ASSUME ARoom, PaysInv, NEW rows, Rows(rows), NEW a, NEW b
    PROVE  /\ WithRows(rows) \in Seq(APaidRow)
           /\ Owed(WithRows(rows), a, b) = Positive(Debt(pays, a, b) - Between(rows, a, b))
<1> DEFINE more == {Payment(r) : r \in rows}
           T == {r \in rows : r.frm = a /\ r.to = b}
           U == {p \in more : p.frm = a /\ p.to = b}
           h == [r \in T |-> Payment(r)]
           k == [r \in T |-> r]
           f == [r \in T |-> r.amount]
<1>1. more \in SUBSET APaidRow
    BY DEF Payment, APaidRow, Rows, ARow, NoRef
<1>2. IsFiniteSet(more)
    <2> DEFINE g == [r \in rows |-> Payment(r)]
    <2>1. more = {g[r] : r \in rows}
        OBVIOUS
    <2> HIDE DEF g, more
    <2> QED BY <2>1, ImageIsFinite DEF Rows
<1>3. WithRows(rows) = pays \o SetToSeq(more)
    BY DEF WithRows, Payment
<1>4. Between(more, a, b) = Between(rows, a, b)
    <2>1. U = {h[r] : r \in T}
        <3>1. ASSUME NEW p \in U
              PROVE  \E r \in T : p = h[r]
            <4>1. PICK r \in rows : p = Payment(r)
                OBVIOUS
            <4>2. r \in T
                BY <4>1 DEF Payment
            <4> QED BY <4>1, <4>2
        <3>2. ASSUME NEW r \in T
              PROVE  h[r] \in U
            BY DEF Payment
        <3> HIDE DEF U, T, h
        <3> QED BY <3>1, <3>2
    <2>2. T = {k[r] : r \in T}
        OBVIOUS
    <2>3. \A r \in T : f[r] \in Int /\ h[r].amount = f[r] /\ k[r].amount = f[r]
        <3>1. \A r \in T : r.amount \in Nat
            BY DEF Rows, ARow
        <3> QED BY <3>1 DEF Payment
    <2>4. \A r, s \in T : h[r] = h[s] => r = s
        <3> SUFFICES ASSUME NEW r \in T, NEW s \in T, h[r] = h[s]
                     PROVE  r = s
            OBVIOUS
        <3>1. r.amount = s.amount /\ r.frm = s.frm /\ r.to = s.to
            <4>1. h[r].amount = r.amount /\ h[s].amount = s.amount
                BY DEF Payment
            <4> QED BY <4>1
        <3>2. r \in ARow /\ s \in ARow
            BY DEF Rows
        <3> HIDE DEF h, T
        <3> QED BY <3>1, <3>2 DEF ARow
    <2>5. \A r, s \in T : k[r] = k[s] => r = s
        OBVIOUS
    <2>6. IsFiniteSet(T)
        BY FS_Subset DEF Rows
    <2> HIDE DEF T, U, h, k, f
    <2>7. SumOf(U) = SumFunctionOnSet(f, T)
        BY <2>1, <2>3, <2>4, <2>6, OneRowEach
    <2>8. SumOf(T) = SumFunctionOnSet(f, T)
        BY <2>2, <2>3, <2>5, <2>6, OneRowEach
    <2> QED BY <2>7, <2>8 DEF Between, T, U
<1> HIDE DEF more
<1>5. pays \in Seq(APaidRow)
    BY DEF PaysInv
<1>6. /\ pays \o SetToSeq(more) \in Seq(APaidRow)
      /\ Owed(pays \o SetToSeq(more), a, b) = Positive(Debt(pays, a, b) - Between(more, a, b))
    <2> HIDE DEF ARoom, APaidRow
    <2> QED BY <1>1, <1>2, <1>5, OwedAfter
<1> QED BY <1>3, <1>4, <1>6

LEMMA NetIs ==
    ASSUME NEW made, NEW a, NEW b
    PROVE  Net(made, a, b) = Owed(made, a, b) - Owed(made, b, a)
BY DEF Net, Owed

LEMMA SettledIs ==
    ASSUME NEW row, NEW made
    PROVE  Settled(row, edges, made, Today, People) <=>
             \A t \in Transfers(edges, made, Whole, People) : t.frm = row.frm /\ t.to = row.to => row.amount > t.amount
<1> DEFINE all == Transfers(edges, made, Whole, People)
           now == {t \in all : t.frm = row.frm /\ t.to = row.to}
<1>1. Settled(row, edges, made, Today, People) <=> \A t \in now : row.amount > t.amount
    BY DEF Settled, Whole
<1> HIDE DEF all
<1>2. (\A t \in now : row.amount > t.amount) <=> \A t \in all : t.frm = row.frm /\ t.to = row.to => row.amount > t.amount
    BY Zenon
<1> QED BY <1>1, <1>2, Zenon DEF all

LEMMA LateRowsAreOwed ==
    ASSUME ARoom, PaysInv, CardInv, NEW r \in card.rows \ Marked(pays)
    PROVE  /\ Net(WithRows({r}), r.frm, r.to) = Net(pays, r.frm, r.to) - r.amount
           /\ Net(WithRows({r}), r.frm, r.to) >= 0
<1> DEFINE a == r.frm
           b == r.to
           d == Debt(pays, a, b)
           e == Debt(pays, b, a)
<1>1. r \in ARow /\ a # b /\ Rows({r})
    BY FS_Singleton DEF CardInv, Rows
<1>2. r.amount \in Nat \ {0} /\ a \in People /\ b \in People
    BY <1>1 DEF ARow
<1>3. PICK t \in Transfers(edges, pays, Whole, People) : t.frm = a /\ t.to = b /\ ~ (r.amount > t.amount)
    BY SettledIs DEF Marked
<1>4. pays \in Seq(APaidRow)
    BY DEF PaysInv
<1>5. /\ d \in Int /\ Owed(pays, a, b) = Positive(d) /\ Owed(pays, a, b) \in Nat
      /\ e \in Int /\ Owed(pays, b, a) = Positive(e) /\ Owed(pays, b, a) \in Nat
    BY <1>4, OwedIs
<1>6. Owed(pays, a, b) > Owed(pays, b, a) /\ t.amount = Owed(pays, a, b) - Owed(pays, b, a)
    <2>1. /\ Owed(pays, t.frm, t.to) > Owed(pays, t.to, t.frm)
          /\ t = [frm |-> t.frm, to |-> t.to, amount |-> Owed(pays, t.frm, t.to) - Owed(pays, t.to, t.frm)]
        BY TransfersAre
    <2>2. t.amount = Owed(pays, t.frm, t.to) - Owed(pays, t.to, t.frm)
        BY <2>1
    <2> QED BY <1>3, <2>1, <2>2
<1>7. Between({r}, a, b) = r.amount /\ Between({r}, b, a) = 0
    <2>1. r.amount \in Int
        BY <1>2
    <2>2. Between({r}, r.frm, r.to) = r.amount
        BY <2>1, BetweenOne
    <2>3. \A s \in {r} : ~ (s.frm = b /\ s.to = a)
        BY <1>1
    <2>4. Between({r}, b, a) = 0
        <3> HIDE DEF a, b
        <3> QED BY <2>3, BetweenNone
    <2> QED BY <2>2, <2>4
<1>8. /\ Owed(WithRows({r}), a, b) = Positive(d - Between({r}, a, b))
      /\ Owed(WithRows({r}), b, a) = Positive(e - Between({r}, b, a))
    BY <1>1, OwedAfterRows
<1>9. /\ Net(pays, a, b) = Owed(pays, a, b) - Owed(pays, b, a)
      /\ Net(WithRows({r}), a, b) = Owed(WithRows({r}), a, b) - Owed(WithRows({r}), b, a)
    BY NetIs
<1> DEFINE x == r.amount
           o == Owed(pays, a, b)
           p == Owed(pays, b, a)
<1>10. x \in Nat \ {0} /\ ~ (x > o - p) /\ o > p
    BY <1>2, <1>3, <1>6
<1> HIDE DEF a, b, d, e, x, o, p
<1>11. o = d /\ p = Positive(e) /\ d \in Int /\ e \in Int /\ p \in Nat /\ o \in Nat
    BY <1>5, <1>10 DEF Positive, o, p
<1>12. Owed(WithRows({r}), a, b) = o - x /\ Owed(WithRows({r}), b, a) = p
    <2>1. Owed(WithRows({r}), a, b) = Positive(o - x)
        BY <1>7, <1>8, <1>11 DEF x
    <2>2. Owed(WithRows({r}), b, a) = Positive(e)
        <3>1. e - 0 = e
            BY <1>11
        <3> QED BY <1>7, <1>8, <3>1
    <2>3. Positive(o - x) = o - x
        BY <1>10, <1>11 DEF Positive
    <2> QED BY <1>11, <2>1, <2>2, <2>3
<1>13. Net(pays, a, b) = o - p /\ Net(WithRows({r}), a, b) = (o - x) - p
    BY <1>9, <1>12 DEF o, p
<1>14. Net(WithRows({r}), a, b) = Net(pays, a, b) - x /\ Net(WithRows({r}), a, b) >= 0
    BY <1>10, <1>11, <1>13
<1> QED BY <1>14 DEF a, b, x
-----------------------------------------------------------------------------
(* A direction nobody paid in stands as it was.                            *)
LEMMA NothingPaidThatWay ==
    ASSUME ARoom, PaysInv, NEW rows, Rows(rows), NEW a, NEW b, \A r \in rows : ~ (r.frm = a /\ r.to = b)
    PROVE  Owed(WithRows(rows), a, b) = Owed(pays, a, b)
<1> DEFINE d == Debt(pays, a, b)
<1>1. Between(rows, a, b) = 0
    BY BetweenNone
<1>2. Owed(WithRows(rows), a, b) = Positive(d - Between(rows, a, b))
    BY OwedAfterRows
<1>3. d \in Int /\ Owed(pays, a, b) = Positive(d)
    BY OwedIs DEF PaysInv
<1> HIDE DEF d
<1>4. d - 0 = d
    BY <1>3
<1> QED BY <1>1, <1>2, <1>3, <1>4

(* A payment of what is owed, and of no more, is taken off.                *)
LEMMA PaidThatWay ==
    ASSUME ARoom, PaysInv, NEW rows, Rows(rows), NEW a, NEW b,
           Between(rows, a, b) \in Nat, Between(rows, a, b) <= Owed(pays, a, b)
    PROVE  Owed(WithRows(rows), a, b) = Owed(pays, a, b) - Between(rows, a, b)
<1> DEFINE d == Debt(pays, a, b)
           o == Owed(pays, a, b)
           x == Between(rows, a, b)
<1>1. Owed(WithRows(rows), a, b) = Positive(d - x)
    BY OwedAfterRows
<1>2. d \in Int /\ o = Positive(d)
    BY OwedIs DEF PaysInv
<1>3. x \in Nat /\ x <= o
    OBVIOUS
<1> HIDE DEF d, o, x
<1>4. Positive(d - x) = o - x
    BY <1>2, <1>3 DEF Positive
<1> QED BY <1>1, <1>4 DEF o, x

(* Some of the rows of a card after which nothing was recorded. *)
Fresh(rows) == card.fresh /\ rows \in SUBSET card.rows

(* The rows of a fresh card: at most one for a pair, and for what it owes. *)
LEMMA FreshRows ==
    ASSUME CardInv, NEW rows, Fresh(rows)
    PROVE  /\ Rows(rows)
           /\ \A r \in rows : /\ Owed(pays, r.frm, r.to) > Owed(pays, r.to, r.frm)
                              /\ r.amount = Owed(pays, r.frm, r.to) - Owed(pays, r.to, r.frm)
                              /\ r.frm \in People /\ r.to \in People
           /\ \A r, s \in rows : r.frm = s.frm /\ r.to = s.to => r = s
<1>1. card.rows = Transfers(edges, pays, Whole, People) /\ rows \in SUBSET card.rows /\ Rows(card.rows)
    BY DEF CardInv, Fresh
<1>2. Rows(rows)
    BY <1>1, FS_Subset DEF Rows
<1>3. \A r \in rows : /\ r.frm \in People /\ r.to \in People /\ Owed(pays, r.frm, r.to) > Owed(pays, r.to, r.frm)
                      /\ r = [frm |-> r.frm, to |-> r.to, amount |-> Owed(pays, r.frm, r.to) - Owed(pays, r.to, r.frm)]
    BY <1>1, TransfersAre
<1>4. \A r \in rows : r.amount = Owed(pays, r.frm, r.to) - Owed(pays, r.to, r.frm)
    BY <1>3
<1>5. ASSUME NEW r \in rows, NEW s \in rows, r.frm = s.frm, r.to = s.to
      PROVE  r = s
    BY <1>3, <1>5
<1> QED BY <1>2, <1>3, <1>4, <1>5

LEMMA FreshRowPaid ==
    ASSUME ARoom, PaysInv, CardInv, NEW rows, Fresh(rows), NEW r \in rows
    PROVE  /\ Owed(WithRows(rows), r.frm, r.to) = Owed(pays, r.to, r.frm)
           /\ Owed(WithRows(rows), r.to, r.frm) = Owed(pays, r.to, r.frm)
<1> DEFINE a == r.frm
           b == r.to
           o == Owed(pays, a, b)
           p == Owed(pays, b, a)
           x == Between(rows, a, b)
<1>1. /\ Rows(rows) /\ o > p /\ r.amount = o - p /\ a \in People /\ b \in People
      /\ \A s \in rows : Owed(pays, s.frm, s.to) > Owed(pays, s.to, s.frm)
      /\ \A s \in rows : s.frm = r.frm /\ s.to = r.to => s = r
    BY FreshRows
<1>2. o \in Nat /\ p \in Nat
    BY OwedIs DEF PaysInv
<1>3. x = o - p
    <2>1. r.amount \in Int
        <3> HIDE DEF o, p
        <3> QED BY <1>1, <1>2
    <2>2. Between(rows, r.frm, r.to) = r.amount
        BY <1>1, <2>1, BetweenOne
    <2> QED BY <1>1, <2>2
<1>4. \A s \in rows : ~ (s.frm = b /\ s.to = a)
    <2> SUFFICES ASSUME NEW s \in rows, s.frm = b, s.to = a
                 PROVE  FALSE
        OBVIOUS
    <2>1. p > o
        BY <1>1
    <2> HIDE DEF o, p
    <2> QED BY <1>1, <1>2, <2>1
<1>5. x \in Nat /\ x <= o
    <2> HIDE DEF o, p, x
    <2> QED BY <1>1, <1>2, <1>3
<1>6. Owed(WithRows(rows), a, b) = o - x
    <2>1. Between(rows, a, b) \in Nat /\ Between(rows, a, b) <= Owed(pays, a, b)
        BY <1>5
    <2> HIDE DEF a, b
    <2> QED BY <1>1, <2>1, PaidThatWay DEF o, x
<1>7. Owed(WithRows(rows), b, a) = p
    <2> HIDE DEF a, b
    <2> QED BY <1>1, <1>4, NothingPaidThatWay DEF p
<1> HIDE DEF o, p, x
<1>8. o - x = p
    BY <1>1, <1>2, <1>3
<1> QED BY <1>6, <1>7, <1>8 DEF a, b, p

LEMMA FreshRowNotPaid ==
    ASSUME ARoom, PaysInv, CardInv, NEW rows, Fresh(rows), NEW r \in card.rows \ rows
    PROVE  /\ Owed(WithRows(rows), r.frm, r.to) = Owed(pays, r.frm, r.to)
           /\ Owed(WithRows(rows), r.to, r.frm) = Owed(pays, r.to, r.frm)
<1> DEFINE a == r.frm
           b == r.to
           o == Owed(pays, a, b)
           p == Owed(pays, b, a)
<1>1. Fresh(card.rows)
    BY DEF Fresh
<1>2. Rows(rows) /\ rows \in SUBSET card.rows
    BY FreshRows DEF Fresh
<1>3. /\ \A s \in card.rows : Owed(pays, s.frm, s.to) > Owed(pays, s.to, s.frm)
      /\ \A s \in card.rows : s.frm = r.frm /\ s.to = r.to => s = r
    BY <1>1, FreshRows
<1>4. o \in Nat /\ p \in Nat
    BY OwedIs DEF PaysInv
<1>5. \A s \in rows : ~ (s.frm = a /\ s.to = b)
    BY <1>2, <1>3
<1>6. \A s \in rows : ~ (s.frm = b /\ s.to = a)
    <2> SUFFICES ASSUME NEW s \in rows, s.frm = b, s.to = a
                 PROVE  FALSE
        OBVIOUS
    <2>1. p > o /\ o > p
        BY <1>2, <1>3
    <2> HIDE DEF o, p
    <2> QED BY <1>4, <2>1
<1> HIDE DEF a, b
<1>7. Owed(WithRows(rows), a, b) = Owed(pays, a, b) /\ Owed(WithRows(rows), b, a) = Owed(pays, b, a)
    BY <1>2, <1>5, <1>6, NothingPaidThatWay
<1> QED BY <1>7 DEF a, b

LEMMA FreshRowsAreMarked ==
    ASSUME ARoom, PaysInv, CardInv, NEW rows, Fresh(rows)
    PROVE  Marked(WithRows(rows)) = rows
<1> DEFINE after == WithRows(rows)
           late == Transfers(edges, after, Whole, People)
<1>1. rows \in SUBSET card.rows /\ Fresh(card.rows)
    BY DEF Fresh
<1>2. \A t \in late : /\ t.frm \in People /\ t.to \in People /\ Owed(after, t.frm, t.to) > Owed(after, t.to, t.frm)
                      /\ t = [frm |-> t.frm, to |-> t.to, amount |-> Owed(after, t.frm, t.to) - Owed(after, t.to, t.frm)]
    BY TransfersAre
<1>3. ASSUME NEW r \in rows
      PROVE  Settled(r, edges, after, Today, People)
    <2>1. Owed(after, r.frm, r.to) = Owed(pays, r.to, r.frm) /\ Owed(after, r.to, r.frm) = Owed(pays, r.to, r.frm)
        BY <1>3, FreshRowPaid
    <2>2. Owed(pays, r.to, r.frm) \in Nat
        BY OwedIs DEF PaysInv
    <2>3. ASSUME NEW t \in late, t.frm = r.frm, t.to = r.to
          PROVE  FALSE
        <3>1. Owed(after, r.frm, r.to) > Owed(after, r.to, r.frm)
            BY <1>2, <2>3
        <3> HIDE DEF after
        <3> QED BY <2>1, <2>2, <3>1
    <2> QED BY <2>3, SettledIs
<1>4. ASSUME NEW r \in card.rows, r \notin rows
      PROVE  ~ Settled(r, edges, after, Today, People)
    <2> DEFINE o == Owed(pays, r.frm, r.to)
               p == Owed(pays, r.to, r.frm)
    <2>1. Owed(after, r.frm, r.to) = o /\ Owed(after, r.to, r.frm) = p
        BY <1>4, FreshRowNotPaid
    <2>2. o > p /\ r.amount = o - p /\ r.frm \in People /\ r.to \in People
        BY <1>1, FreshRows
    <2>3. [frm |-> r.frm, to |-> r.to, amount |-> o - p] \in late
        BY <2>1, <2>2, TransfersAre
    <2>4. PICK t \in late : t.frm = r.frm /\ t.to = r.to /\ t.amount = o - p
        BY <2>3
    <2>5. o \in Nat /\ p \in Nat
        BY OwedIs DEF PaysInv
    <2>6. ~ (r.amount > t.amount)
        <3> HIDE DEF o, p
        <3> QED BY <2>2, <2>4, <2>5
    <2> QED BY <2>4, <2>6, SettledIs
<1>5. Marked(after) = {r \in card.rows : Settled(r, edges, after, Today, People)}
    BY DEF Marked
<1> HIDE DEF after
<1> QED BY <1>1, <1>3, <1>4, <1>5 DEF after

LEMMA FreshCardClears ==
    ASSUME ARoom, PaysInv, CardInv, card.fresh
    PROVE  Transfers(edges, WithRows(card.rows), Whole, People) = {}
<1> DEFINE rows == card.rows
           after == WithRows(rows)
<1>1. Fresh(rows) /\ Rows(rows) /\ rows = Transfers(edges, pays, Whole, People)
    BY DEF Fresh, CardInv
<1> SUFFICES ASSUME NEW t \in Transfers(edges, after, Whole, People)
             PROVE  FALSE
    OBVIOUS
<1> DEFINE a == t.frm
           b == t.to
           o == Owed(pays, a, b)
           p == Owed(pays, b, a)
<1>2. a \in People /\ b \in People /\ Owed(after, a, b) > Owed(after, b, a)
    BY TransfersAre
<1>3. o \in Nat /\ p \in Nat
    BY OwedIs DEF PaysInv
<1>4. CASE o > p
    <2> DEFINE r == [frm |-> a, to |-> b, amount |-> o - p]
    <2>1. r \in rows
        BY <1>1, <1>2, <1>4, TransfersAre
    <2>2. r.frm = a /\ r.to = b
        OBVIOUS
    <2> HIDE DEF r, rows, after, a, b
    <2>3. Owed(WithRows(rows), a, b) = Owed(pays, b, a) /\ Owed(WithRows(rows), b, a) = Owed(pays, b, a)
        BY <1>1, <2>1, <2>2, FreshRowPaid
    <2> HIDE DEF o, p
    <2> QED BY <1>2, <1>3, <2>3 DEF after, p
<1>5. CASE p > o
    <2> DEFINE r == [frm |-> b, to |-> a, amount |-> p - o]
    <2>1. r \in rows
        BY <1>1, <1>2, <1>5, TransfersAre
    <2>2. r.frm = b /\ r.to = a
        OBVIOUS
    <2> HIDE DEF r, rows, after, a, b
    <2>3. Owed(WithRows(rows), b, a) = Owed(pays, a, b) /\ Owed(WithRows(rows), a, b) = Owed(pays, a, b)
        BY <1>1, <2>1, <2>2, FreshRowPaid
    <2> HIDE DEF o, p
    <2> QED BY <1>2, <1>3, <2>3 DEF after, o
<1>6. CASE ~ (o > p) /\ ~ (p > o)
    <2>1. \A s \in rows : Owed(pays, s.frm, s.to) > Owed(pays, s.to, s.frm)
        BY <1>1, FreshRows
    <2>2. \A s \in rows : ~ (s.frm = a /\ s.to = b) /\ ~ (s.frm = b /\ s.to = a)
        BY <1>6, <2>1
    <2> HIDE DEF rows, after, a, b
    <2>3. Owed(WithRows(rows), a, b) = o /\ Owed(WithRows(rows), b, a) = p
        BY <1>1, <2>2, NothingPaidThatWay
    <2> HIDE DEF o, p
    <2> QED BY <1>2, <1>3, <1>6, <2>3 DEF after
<1> QED BY <1>4, <1>5, <1>6

LEMMA CardsAreOwed ==
    ASSUME ARoom, PaysInv, CardInv
    PROVE  UnmarkedRowsAreOwed
<1>1. \A r \in card.rows \ Marked(pays) :
         /\ Net(WithRows({r}), r.frm, r.to) = Net(pays, r.frm, r.to) - r.amount
         /\ Net(WithRows({r}), r.frm, r.to) >= 0
    BY LateRowsAreOwed
<1>2. card.fresh =>
         /\ \A rows \in SUBSET card.rows : Marked(WithRows(rows)) = rows
         /\ Transfers(edges, WithRows(card.rows), Whole, People) = {}
    BY FreshRowsAreMarked, FreshCardClears DEF Fresh
<1> QED BY <1>1, <1>2 DEF UnmarkedRowsAreOwed
-----------------------------------------------------------------------------
(* A member may always pay a part of what it owes another.                 *)
LEMMA PartIsPaid ==
    ASSUME ARoom, PaysInv, NEW a \in People, NEW b \in People, a # b,
           NEW x \in Nat \ {0}, x <= Owed(pays, a, b)
    PROVE  /\ Owed(WithRows(Pay(a, b, x)), a, b) = Owed(pays, a, b) - x
           /\ Owed(WithRows(Pay(a, b, x)), b, a) = Owed(pays, b, a)
<1> DEFINE r == [frm |-> a, to |-> b, amount |-> x]
           rows == Pay(a, b, x)
<1>1. rows = {r} /\ r.frm = a /\ r.to = b /\ r.amount = x /\ r \in ARow
    BY DEF Pay, ARow
<1> HIDE DEF r, rows
<1>2. Rows(rows)
    BY <1>1, FS_Singleton DEF Rows
<1>3. Between(rows, r.frm, r.to) = r.amount
    <2>1. r \in rows /\ r.amount \in Int /\ \A s \in rows : s.frm = r.frm /\ s.to = r.to => s = r
        BY <1>1
    <2> QED BY <2>1, BetweenOne
<1>4. \A s \in rows : ~ (s.frm = b /\ s.to = a)
    BY <1>1
<1>5. Between(rows, a, b) = x
    BY <1>1, <1>3
<1>6. Between(rows, a, b) \in Nat /\ Between(rows, a, b) <= Owed(pays, a, b)
    BY <1>5
<1>7. Owed(WithRows(rows), a, b) = Owed(pays, a, b) - Between(rows, a, b)
    BY <1>2, <1>6, PaidThatWay
<1>8. Owed(WithRows(rows), b, a) = Owed(pays, b, a)
    BY <1>2, <1>4, NothingPaidThatWay
<1> QED BY <1>5, <1>7, <1>8 DEF rows

LEMMA NothingIsPaid ==
    ASSUME ARoom, PaysInv, NEW a, NEW b
    PROVE  Owed(WithRows({}), a, b) = Owed(pays, a, b)
<1>1. Rows({})
    BY FS_EmptySet DEF Rows
<1>2. \A r \in {} : ~ (r.frm = a /\ r.to = b)
    OBVIOUS
<1> QED BY <1>1, <1>2, NothingPaidThatWay, Zenon

(* The room after what "I paid" offers is recorded. *)
Offered(mine, theirs, frm, to, mode) == WithRows(PayOff(mine, theirs, frm, to, mode))

(* What "I paid" offers, paid.                                             *)
LEMMA OffersClear ==
    ASSUME ARoom, PaysInv, NEW a \in People, NEW b \in People, a # b, NEW mode \in {"gross", "offset"}
    PROVE  LET mine == Owed(pays, a, b)
               theirs == Owed(pays, b, a)
               after == Offered(mine, theirs, a, b, mode)
           IN  /\ mode = "gross" => Owed(after, a, b) = 0 /\ Owed(after, b, a) = theirs
               /\ mode = "offset" /\ mine > 0 => Owed(after, a, b) = Owed(after, b, a)
               /\ mine = 0 => PayOff(mine, theirs, a, b, mode) = {}
<1> DEFINE mine == Owed(pays, a, b)
           theirs == Owed(pays, b, a)
           after == Offered(mine, theirs, a, b, mode)
<1>1. mine \in Nat /\ theirs \in Nat
    BY OwedIs DEF PaysInv
<1>2. \A x \in Nat \ {0} : x <= mine =>
         Owed(WithRows(Pay(a, b, x)), a, b) = mine - x /\ Owed(WithRows(Pay(a, b, x)), b, a) = theirs
    BY PartIsPaid
<1>3. \A x \in Nat \ {0} : x <= theirs =>
         Owed(WithRows(Pay(b, a, x)), b, a) = theirs - x /\ Owed(WithRows(Pay(b, a, x)), a, b) = mine
    BY PartIsPaid
<1>4. Owed(WithRows({}), a, b) = mine /\ Owed(WithRows({}), b, a) = theirs
    BY NothingIsPaid
<1> HIDE DEF mine, theirs
<1>5. mine = 0 => PayOff(mine, theirs, a, b, mode) = {}
    BY DEF PayOff
<1>6. CASE mine = 0
    <2>1. after = WithRows({})
        BY <1>5, <1>6, Zenon DEF Offered
    <2> HIDE DEF after
    <2> QED BY <1>1, <1>4, <1>5, <1>6, <2>1 DEF mine, theirs, after
<1>7. CASE mine > 0 /\ (theirs = 0 \/ mode = "gross")
    <2>1. PayOff(mine, theirs, a, b, mode) = Pay(a, b, mine)
        BY <1>1, <1>7 DEF PayOff
    <2>2. after = WithRows(Pay(a, b, mine))
        BY <2>1, Zenon DEF Offered
    <2>3. mine \in Nat \ {0} /\ mine <= mine /\ mine - mine = 0 /\ mine # 0
        BY <1>1, <1>7
    <2> HIDE DEF after
    <2>4. Owed(after, a, b) = mine - mine /\ Owed(after, b, a) = theirs
        BY <1>2, <2>2, <2>3
    <2> QED BY <1>7, <2>3, <2>4 DEF mine, theirs, after
<1>8. CASE mine > 0 /\ theirs > 0 /\ mode = "offset"
    <2>1. CASE mine = theirs
        <3>1. PayOff(mine, theirs, a, b, mode) = {}
            BY <1>1, <1>8, <2>1 DEF PayOff
        <3>2. after = WithRows({})
            BY <3>1, Zenon DEF Offered
        <3> HIDE DEF after
        <3>3. Owed(after, a, b) = Owed(after, b, a) /\ mode # "gross" /\ ~ (mine = 0)
            BY <1>1, <1>4, <1>8, <2>1, <3>2
        <3> QED BY <3>3 DEF mine, theirs, after
    <2>2. CASE mine > theirs
        <3>1. PayOff(mine, theirs, a, b, mode) = Pay(a, b, mine - theirs)
            BY <1>1, <1>8, <2>2 DEF PayOff
        <3>2. after = WithRows(Pay(a, b, mine - theirs))
            BY <3>1, Zenon DEF Offered
        <3>3. mine - theirs \in Nat \ {0} /\ mine - theirs <= mine /\ mine - (mine - theirs) = theirs
            BY <1>1, <2>2
        <3> HIDE DEF after
        <3>4. Owed(after, a, b) = mine - (mine - theirs) /\ Owed(after, b, a) = theirs
            BY <1>2, <3>2, <3>3
        <3>5. Owed(after, a, b) = Owed(after, b, a) /\ mode # "gross" /\ ~ (mine = 0)
            BY <1>1, <1>8, <3>3, <3>4
        <3> QED BY <3>5 DEF mine, theirs, after
    <2>3. CASE theirs > mine
        <3>1. PayOff(mine, theirs, a, b, mode) = Pay(b, a, theirs - mine)
            BY <1>1, <1>8, <2>3 DEF PayOff
        <3>2. after = WithRows(Pay(b, a, theirs - mine))
            BY <3>1, Zenon DEF Offered
        <3>3. theirs - mine \in Nat \ {0} /\ theirs - mine <= theirs /\ theirs - (theirs - mine) = mine
            BY <1>1, <2>3
        <3> HIDE DEF after
        <3>4. Owed(after, b, a) = theirs - (theirs - mine) /\ Owed(after, a, b) = mine
            BY <1>3, <3>2, <3>3
        <3>5. Owed(after, a, b) = Owed(after, b, a) /\ mode # "gross" /\ ~ (mine = 0)
            BY <1>1, <1>8, <3>3, <3>4
        <3> QED BY <3>5 DEF mine, theirs, after
    <2> QED BY <1>1, <2>1, <2>2, <2>3
<1> QED BY <1>1, <1>6, <1>7, <1>8

(* The payments a code stands for, when its debts are after one by one. *)
Parts(a, b, c) == {[frm |-> a, to |-> b, amount |-> p.amount, kind |-> p.kind, ref |-> p.ref] : p \in c.of}
CodeFits(a, b, c) ==
    /\ c.amount = Owed(pays, a, b) /\ c.amount > 0
    /\ Parts(a, b, c) \in SUBSET APaidRow /\ IsFiniteSet(Parts(a, b, c))
    /\ Between(Parts(a, b, c), a, b) = c.amount

(* The code a member can ask for.                                          *)
LEMMA CodeIs ==
    ASSUME ARoom, PaysInv, NEW a \in People, NEW b \in People
    PROVE  LET code == QrRequest(edges, pays, Today, Beginning, a, b)
           IN  /\ {c.amount : c \in code} = {Owed(pays, a, b)} \ {0}
               /\ \A c \in code : CodeFits(a, b, c)
<1> DEFINE code == QrRequest(edges, pays, Today, Beginning, a, b)
           open == Breakdown(edges, pays, SinceLast(Today, Beginning))
           asked == {e \in DOMAIN open : e.debtor = a /\ e.creditor = b /\ open[e] > 0}
           here == PairEdges(Window(edges, Whole), <<a, b>>)
           mine == Owed(pays, a, b)
           of == {[kind |-> e.kind, ref |-> e.ref, amount |-> open[e]] : e \in asked}
           c == [amount |-> SumFunctionOnSet(open, asked), of |-> of]
           out == Outstanding(edges, pays)
<1>1. ALedger(edges, pays) /\ OfTheRoom(edges)
    BY ARoomsLedger DEF ARoom, PaysInv
<1>2. SinceLast(Today, Beginning) = Whole
    BY DEF SinceLast, Whole
<1>3. code = IF asked = {} THEN {} ELSE {c}
    <2>1. code = {[amount |-> SumFunctionOnSet(open, es),
                   of |-> {[kind |-> e.kind, ref |-> e.ref, amount |-> open[e]] : e \in es}] : es \in {asked} \ {{}}}
        BY DEF QrRequest
    <2> HIDE DEF code, open, asked
    <2>2. CASE asked = {}
        <3>1. {asked} \ {{}} = {}
            BY <2>2
        <3> HIDE DEF asked
        <3> QED BY <2>1, <2>2, <3>1
    <2>3. CASE asked # {}
        <3>1. {asked} \ {{}} = {asked}
            BY <2>3
        <3> HIDE DEF asked
        <3> QED BY <2>1, <2>3, <3>1 DEF asked
    <2> QED BY <2>2, <2>3
<1>4. /\ Window(edges, Whole) \in SUBSET edges /\ Told(Window(edges, Whole), out)
      /\ DOMAIN open = Window(edges, Whole) /\ \A e \in Window(edges, Whole) : open[e] = out[e]
      /\ mine = OpenOf(out, Window(edges, Whole), a, b)
    <2>1. open = Breakdown(edges, pays, Whole)
        BY <1>2
    <2> HIDE DEF open
    <2> QED BY <1>1, <2>1, BreakdownIs DEF Owed
<1> HIDE DEF open, out, code
<1>5. here \in SUBSET Window(edges, Whole) /\ IsFiniteSet(here)
    <2>1. here \in SUBSET Window(edges, Whole)
        BY DEF PairEdges
    <2> QED BY <1>4, <2>1, FS_Subset DEF Told
<1>6. asked \in SUBSET here /\ \A e \in here \ asked : ~ (open[e] > 0)
    BY <1>4 DEF PairEdges
<1>7. \A e \in here : open[e] \in Nat /\ open[e] = out[e]
    BY <1>4, <1>5 DEF Told
<1>8. \A e \in asked : /\ e \in edges /\ e.debtor = a /\ e.creditor = b
                       /\ e.kind \in {"meal", "game"} /\ e.ref \in Nat /\ open[e] \in Nat /\ open[e] > 0
    <2>1. \A e \in asked : e \in edges /\ e.debtor = a /\ e.creditor = b /\ open[e] > 0
        BY <1>4
    <2>2. \A e \in asked : e \in here
        BY <1>6
    <2> HIDE DEF asked, here
    <2> QED BY <1>7, <2>1, <2>2 DEF ARoom, AnEdge
<1>9. IsFiniteSet(asked)
    BY <1>5, <1>6, FS_Subset
<1> DEFINE sum == SumFunctionOnSet(open, asked)
<1> HIDE DEF here, asked
<1>10. mine = sum
    <2>1. mine = SumFunctionOnSet(out, here)
        BY <1>4 DEF OpenOf, here
    <2>2. \A e \in here : open[e] \in Int
        BY <1>7
    <2>3. \A e \in here : out[e] \in Int /\ out[e] = open[e]
        BY <1>7, <2>2
    <2>4. SumFunctionOnSet(out, here) = SumFunctionOnSet(open, here)
        BY <1>5, <2>3, SumOfSame
    <2>5. \A e \in here \ asked : open[e] = 0
        BY <1>6, <1>7
    <2>6. SumFunctionOnSet(open, here) = sum
        BY <1>5, <1>6, <2>2, <2>5, SumOfSupport
    <2> QED BY <2>1, <2>4, <2>6
<1>11. \A e \in asked : open[e] \in Int
    BY <1>8
<1>12. asked # {} => sum > 0
    <2> SUFFICES ASSUME NEW e \in asked
                 PROVE  sum > 0
        OBVIOUS
    <2> DEFINE rest == SumFunctionOnSet(open, asked \ {e})
               x == open[e]
    <2>1. sum = x + rest
        BY <1>9, <1>11, SumTakesOut
    <2>2. IsFiniteSet(asked \ {e}) /\ \A f \in asked \ {e} : open[f] \in Nat
        BY <1>8, <1>9, FS_Subset
    <2>3. rest \in Nat
        BY <2>2, SumIsNatural
    <2>4. x \in Nat /\ x > 0
        BY <1>8
    <2> HIDE DEF sum, rest, x
    <2> QED BY <2>1, <2>3, <2>4
<1>13. asked = {} => mine = 0
    <2>1. asked = {} => sum = 0
        BY SumOfNone
    <2> HIDE DEF sum
    <2> QED BY <1>10, <2>1
<1>14. mine \in Nat
    BY OwedIs DEF PaysInv
<1> HIDE DEF mine
<1>15. {d.amount : d \in code} = {mine} \ {0}
    <2>1. CASE asked = {}
        <3>1. code = {} /\ mine = 0
            BY <1>3, <1>13, <2>1
        <3> QED BY <3>1
    <2>2. CASE asked # {}
        <3>1. code = {c} /\ c.amount = mine /\ mine # 0
            BY <1>3, <1>10, <1>12, <1>14, <2>2
        <3> HIDE DEF c
        <3>2. {d.amount : d \in code} = {c.amount}
            BY <3>1
        <3> QED BY <3>1, <3>2
    <2> QED BY <2>1, <2>2
<1>16. asked # {} => CodeFits(a, b, c)
    <2> SUFFICES ASSUME asked # {}
                 PROVE  CodeFits(a, b, c)
        OBVIOUS
    <2> DEFINE h == [e \in asked |-> [frm |-> a, to |-> b, amount |-> open[e], kind |-> e.kind, ref |-> e.ref]]
               f == [e \in asked |-> open[e]]
               parts == Parts(a, b, c)
               those == {r \in parts : r.frm = a /\ r.to = b}
    <2>1. c.amount = mine /\ mine > 0
        BY <1>10, <1>12
    <2>2. parts = {h[e] : e \in asked}
        <3>1. parts = {[frm |-> a, to |-> b, amount |-> p.amount, kind |-> p.kind, ref |-> p.ref] : p \in of}
            BY DEF Parts
        <3>2. \A x : x \in parts <=> \E p \in of : x = [frm |-> a, to |-> b, amount |-> p.amount, kind |-> p.kind, ref |-> p.ref]
            <4> HIDE DEF parts, of
            <4> QED BY <3>1
        <3>3. \A p : p \in of <=> \E e \in asked : p = [kind |-> e.kind, ref |-> e.ref, amount |-> open[e]]
            OBVIOUS
        <3>4. ASSUME NEW x \in parts
              PROVE  \E e \in asked : x = h[e]
            <4>1. PICK p \in of : x = [frm |-> a, to |-> b, amount |-> p.amount, kind |-> p.kind, ref |-> p.ref]
                BY <3>2
            <4>2. PICK e \in asked : p = [kind |-> e.kind, ref |-> e.ref, amount |-> open[e]]
                BY <3>3
            <4>3. p.kind = e.kind /\ p.ref = e.ref /\ p.amount = open[e]
                BY <4>2
            <4> HIDE DEF parts, of
            <4> QED BY <4>1, <4>3
        <3>5. ASSUME NEW e \in asked
              PROVE  h[e] \in parts
            <4> DEFINE p == [kind |-> e.kind, ref |-> e.ref, amount |-> open[e]]
            <4>1. p \in of
                BY <3>3
            <4>2. p.kind = e.kind /\ p.ref = e.ref /\ p.amount = open[e]
                OBVIOUS
            <4>3. h[e] = [frm |-> a, to |-> b, amount |-> p.amount, kind |-> p.kind, ref |-> p.ref]
                OBVIOUS
            <4> HIDE DEF parts, of, p, h
            <4> QED BY <3>2, <4>1, <4>3
        <3> HIDE DEF parts, h
        <3> QED BY <3>4, <3>5
    <2>3. \A e \in asked : h[e] = [frm |-> a, to |-> b, amount |-> open[e], kind |-> e.kind, ref |-> e.ref] /\ f[e] = open[e]
        OBVIOUS
    <2> HIDE DEF parts, h, f, c
    <2>4. \A e \in asked : h[e] \in APaidRow /\ h[e].amount = f[e] /\ f[e] \in Int
                           /\ h[e].frm = a /\ h[e].to = b /\ h[e].kind = e.kind /\ h[e].ref = e.ref
        <3> SUFFICES ASSUME NEW e \in asked
                     PROVE  h[e] \in APaidRow /\ h[e].amount = f[e] /\ f[e] \in Int
                            /\ h[e].frm = a /\ h[e].to = b /\ h[e].kind = e.kind /\ h[e].ref = e.ref
            OBVIOUS
        <3> DEFINE x == open[e]
        <3>1. h[e] = [frm |-> a, to |-> b, amount |-> x, kind |-> e.kind, ref |-> e.ref] /\ f[e] = x
            BY <2>3
        <3>2. x \in Nat /\ e.kind \in {"meal", "game"} /\ e.ref \in Nat
            BY <1>8
        <3> HIDE DEF x
        <3>3. h[e].amount = x /\ h[e].frm = a /\ h[e].to = b /\ h[e].kind = e.kind /\ h[e].ref = e.ref
            BY <3>1
        <3>4. [frm |-> a, to |-> b, amount |-> x, kind |-> e.kind, ref |-> e.ref] \in APaidRow
            BY <3>2 DEF APaidRow
        <3> QED BY <3>1, <3>2, <3>3, <3>4
    <2>5. parts \in SUBSET APaidRow /\ IsFiniteSet(parts) /\ those = parts
        <3>1. parts \in SUBSET APaidRow /\ \A r \in parts : r.frm = a /\ r.to = b
            BY <2>2, <2>4
        <3>2. IsFiniteSet(parts)
            BY <1>9, <2>2, ImageIsFinite
        <3> QED BY <3>1, <3>2
    <2>6. ASSUME NEW e \in asked, NEW d \in asked, h[e] = h[d]
          PROVE  e = d
        <3>1. e.kind = d.kind /\ e.ref = d.ref
            <4>1. h[e].kind = e.kind /\ h[e].ref = e.ref /\ h[d].kind = d.kind /\ h[d].ref = d.ref
                BY <2>4
            <4> QED BY <2>6, <4>1
        <3>2. e \in edges /\ d \in edges /\ e.debtor = d.debtor /\ e.creditor = d.creditor
            BY <1>8
        <3> QED BY <3>1, <3>2 DEF ARoom, Distinct
    <2>7. SumOf(parts) = SumFunctionOnSet(f, asked)
        BY <1>9, <2>2, <2>4, <2>6, OneRowEach
    <2>8. SumFunctionOnSet(f, asked) = sum
        <3>1. \A e \in asked : f[e] \in Int /\ f[e] = open[e]
            BY <2>3, <2>4
        <3> QED BY <1>9, <3>1, SumOfSame
    <2>9. Between(parts, a, b) = SumOf(parts)
        BY <2>5, Zenon DEF Between
    <2>10. Between(parts, a, b) = c.amount
        BY <1>10, <2>1, <2>7, <2>8, <2>9
    <2> QED BY <2>1, <2>5, <2>10 DEF CodeFits, parts, mine
<1>17. \A d \in code : CodeFits(a, b, d)
    <2> HIDE DEF c
    <2> QED BY <1>3, <1>16
<1> QED BY <1>15, <1>17 DEF code, mine
-----------------------------------------------------------------------------
(* What a code asks for, paid at once or debt by debt.                     *)
LEMMA CodesClear ==
    ASSUME ARoom, PaysInv, NEW a \in People, NEW b \in People, a # b,
           NEW c \in QrRequest(edges, pays, Today, Beginning, a, b),
           NEW ps \in {WithRows(Pay(a, b, c.amount)), WithParts(a, b, c.of)}
    PROVE  Owed(ps, a, b) = 0 /\ Owed(ps, b, a) = Owed(pays, b, a)
<1> DEFINE mine == Owed(pays, a, b)
           theirs == Owed(pays, b, a)
           d == Debt(pays, a, b)
           e == Debt(pays, b, a)
           parts == Parts(a, b, c)
<1>1. c.amount = mine /\ c.amount > 0 /\ parts \in SUBSET APaidRow /\ IsFiniteSet(parts) /\ Between(parts, a, b) = c.amount
    BY CodeIs DEF CodeFits
<1>2. d \in Int /\ mine = Positive(d) /\ mine \in Nat /\ e \in Int /\ theirs = Positive(e) /\ theirs \in Nat
    BY OwedIs DEF PaysInv
<1>3. CASE ps = WithRows(Pay(a, b, c.amount))
    <2>1. c.amount \in Nat \ {0} /\ c.amount <= mine
        <3> HIDE DEF mine
        <3> QED BY <1>1, <1>2
    <2>2. Owed(ps, a, b) = mine - c.amount /\ Owed(ps, b, a) = theirs
        BY <1>3, <2>1, PartIsPaid
    <2>3. mine - c.amount = 0
        <3> HIDE DEF mine
        <3> QED BY <1>1, <1>2
    <2> QED BY <2>2, <2>3
<1>4. CASE ps = WithParts(a, b, c.of)
    <2>1. ps = pays \o SetToSeq(parts)
        BY <1>4 DEF WithParts, Parts
    <2>2. Between(parts, b, a) = 0
        <3>1. \A p \in parts : p.frm = a /\ p.to = b
            BY DEF Parts
        <3> HIDE DEF parts
        <3>2. \A p \in parts : ~ (p.frm = b /\ p.to = a)
            BY <3>1
        <3> QED BY <3>2, BetweenNone
    <2> HIDE DEF parts
    <2>3. /\ Owed(pays \o SetToSeq(parts), a, b) = Positive(d - Between(parts, a, b))
          /\ Owed(pays \o SetToSeq(parts), b, a) = Positive(e - Between(parts, b, a))
        <3> HIDE DEF ARoom, APaidRow
        <3> QED BY <1>1, OwedAfter DEF PaysInv
    <2> HIDE DEF d, e, mine, theirs
    <2>4. Positive(d - mine) = 0 /\ e - 0 = e
        BY <1>1, <1>2 DEF Positive
    <2>5. Owed(ps, a, b) = 0 /\ Owed(ps, b, a) = theirs
        BY <1>1, <1>2, <2>1, <2>2, <2>3, <2>4
    <2> QED BY <2>5 DEF theirs
<1> QED BY <1>3, <1>4

LEMMA PayingOffClears ==
    ASSUME ARoom, PaysInv
    PROVE  PayOffClears
<1> SUFFICES ASSUME NEW a \in People, NEW b \in People, NEW mode \in {"gross", "offset"}, a # b
             PROVE  LET mine == Owed(pays, a, b)
                        theirs == Owed(pays, b, a)
                        offer == PayOff(mine, theirs, a, b, mode)
                        after == WithRows(offer)
                        code == QrRequest(edges, pays, Today, Beginning, a, b)
                    IN  /\ mode = "gross" => Owed(after, a, b) = 0 /\ Owed(after, b, a) = theirs
                        /\ mode = "offset" /\ mine > 0 => Owed(after, a, b) = Owed(after, b, a)
                        /\ mine = 0 => offer = {}
                        /\ {c.amount : c \in code} = {mine} \ {0}
                        /\ \A c \in code : \A ps \in {WithRows(Pay(a, b, c.amount)), WithParts(a, b, c.of)} :
                             Owed(ps, a, b) = 0 /\ Owed(ps, b, a) = theirs
    BY DEF PayOffClears, Owed
<1>1. LET mine == Owed(pays, a, b)
          theirs == Owed(pays, b, a)
          after == WithRows(PayOff(mine, theirs, a, b, mode))
      IN  /\ mode = "gross" => Owed(after, a, b) = 0 /\ Owed(after, b, a) = theirs
          /\ mode = "offset" /\ mine > 0 => Owed(after, a, b) = Owed(after, b, a)
          /\ mine = 0 => PayOff(mine, theirs, a, b, mode) = {}
    BY OffersClear DEF Offered
<1>2. {c.amount : c \in QrRequest(edges, pays, Today, Beginning, a, b)} = {Owed(pays, a, b)} \ {0}
    BY CodeIs
<1>3. \A c \in QrRequest(edges, pays, Today, Beginning, a, b) :
         \A ps \in {WithRows(Pay(a, b, c.amount)), WithParts(a, b, c.of)} :
           Owed(ps, a, b) = 0 /\ Owed(ps, b, a) = Owed(pays, b, a)
    BY CodesClear
<1> QED BY <1>1, <1>2, <1>3
-----------------------------------------------------------------------------
(* Meals and nights get the next number, so nothing in the ledger has it yet. *)
ThingsOf(lent) == {<<e.kind, e.ref>> : e \in lent}
Numbered == \A e \in edges : e.ref < Ref

NewThing(new, kind) ==
    /\ IsFiniteSet(new) /\ OfTheRoom(new)
    /\ \A e \in new : AnEdge(e) /\ e.kind = kind /\ e.ref = Ref
    /\ \A e, f \in new : e.debtor = f.debtor /\ e.creditor = f.creditor => e = f

LEMMA RefIs == ARoom => IsFiniteSet(ThingsOf(edges)) /\ Ref = 1 + Cardinality(ThingsOf(edges)) /\ Ref \in Nat \ {0}
<1> SUFFICES ASSUME ARoom
             PROVE  IsFiniteSet(ThingsOf(edges)) /\ Ref = 1 + Cardinality(ThingsOf(edges)) /\ Ref \in Nat \ {0}
    OBVIOUS
<1> DEFINE key == [e \in edges |-> <<e.kind, e.ref>>]
<1>1. ThingsOf(edges) = {key[e] : e \in edges}
    BY DEF ThingsOf
<1> HIDE DEF key
<1>2. IsFiniteSet(ThingsOf(edges))
    BY <1>1, ImageIsFinite DEF ARoom
<1>3. Ref = 1 + Cardinality(ThingsOf(edges))
    BY DEF Ref, ThingsOf
<1>4. Cardinality(ThingsOf(edges)) \in Nat
    BY <1>2, FS_CardinalityType
<1> QED BY <1>2, <1>3, <1>4

(* A meal or a night recorded with the next number keeps the ledger one of a room. *)
LEMMA ThingIsAdded ==
    ASSUME ARoom, Numbered, NEW kind, NEW new, NewThing(new, kind), edges' = edges \cup new
    PROVE  ARoom' /\ Numbered'
<1>1. IsFiniteSet(edges')
    BY FS_Union DEF ARoom, NewThing
<1>2. \A e \in edges' : AnEdge(e)
    BY DEF ARoom, NewThing
<1>3. OfTheRoom(edges)'
    BY DEF ARoom, NewThing, OfTheRoom
<1>4. \A e \in edges : e.ref < Ref /\ AnEdge(e)
    BY DEF Numbered, ARoom
<1>5. Ref = 1 + Cardinality(ThingsOf(edges)) /\ Ref \in Nat \ {0} /\ IsFiniteSet(ThingsOf(edges))
    BY RefIs
<1>6. \A e \in edges : \A f \in new : e.ref # f.ref
    <2> SUFFICES ASSUME NEW e \in edges, NEW f \in new, e.ref = f.ref
                 PROVE  FALSE
        OBVIOUS
    <2>1. e.ref < Ref /\ f.ref = Ref
        BY <1>4 DEF NewThing
    <2> QED BY <1>5, <2>1
<1>7. Distinct(edges')
    BY <1>6 DEF ARoom, Distinct, NewThing
<1>8. ARoom'
    BY <1>1, <1>2, <1>3, <1>7 DEF ARoom
<1>9. Ref' = 1 + Cardinality(ThingsOf(edges'))
    BY <1>8, RefIs DEF Ref, ThingsOf
<1>10. CASE new = {}
    <2>1. edges' = edges
        BY <1>10
    <2>2. Ref' = Ref
        BY <1>5, <1>9, <2>1
    <2> QED BY <1>8, <2>1, <2>2 DEF Numbered
<1>11. CASE new # {}
    <2> DEFINE key == <<kind, Ref>>
               old == ThingsOf(edges)
    <2>1. ThingsOf(edges') = old \cup {key}
        <3>1. ThingsOf(new) = {key}
            BY <1>11 DEF NewThing, ThingsOf
        <3>2. ThingsOf(edges') = ThingsOf(edges) \cup ThingsOf(new)
            BY DEF ThingsOf
        <3> QED BY <3>1, <3>2
    <2>2. key \notin old
        <3> SUFFICES ASSUME NEW e \in edges, <<e.kind, e.ref>> = key
                     PROVE  FALSE
            BY DEF ThingsOf
        <3>1. e.ref = Ref
            OBVIOUS
        <3> QED BY <1>4, <1>5, <3>1
    <2> HIDE DEF key, old
    <2>3. Cardinality(old \cup {key}) = Cardinality(old) + 1
        BY <1>5, <2>2, FS_AddElement DEF old
    <2>4. Cardinality(old) \in Nat
        BY <1>5, FS_CardinalityType DEF old
    <2>5. Ref' = Ref + 1
        BY <1>5, <1>9, <2>1, <2>3, <2>4 DEF old
    <2>6. \A e \in edges' : e.ref < Ref'
        <3> SUFFICES ASSUME NEW e \in edges'
                     PROVE  e.ref < Ref'
            OBVIOUS
        <3>1. CASE e \in edges
            <4>1. e.ref < Ref /\ e.ref \in Nat
                BY <1>4, <3>1 DEF AnEdge
            <4> QED BY <1>5, <2>5, <4>1
        <3>2. CASE e \in new
            <4>1. e.ref = Ref
                BY <3>2 DEF NewThing
            <4> QED BY <1>5, <2>5, <4>1
        <3> QED BY <3>1, <3>2
    <2> QED BY <1>8, <2>6 DEF Numbered
<1> QED BY <1>10, <1>11

LEMMA MealIsAThing ==
    ASSUME ARoom, NEW payer \in People, NEW day \in Dates, NEW eaters \in SUBSET People, payer \notin eaters,
           NEW shares \in [eaters -> Amounts]
    PROVE  NewThing(EdgesOf("meal", Ref, payer, shares, day), "meal")
<1> DEFINE new == EdgesOf("meal", Ref, payer, shares, day)
<1>1. Ref \in Nat \ {NoRef} /\ day \in Int
    BY RefIs, DatesAssumption DEF NoRef
<1>2. IsFiniteSet(DOMAIN shares) /\ DOMAIN shares = eaters /\ \A m \in DOMAIN shares : shares[m] \in Nat
    <2>1. IsFiniteSet(eaters)
        BY PeopleAssumption, FS_Subset
    <2> QED BY <2>1, AmountsAssumption
<1> HIDE DEF NoRef
<1> DEFINE ref == Ref
<1> HIDE DEF ref
<1>3. ref \in Nat \ {NoRef}
    BY <1>1 DEF ref
<1>4. LET some == EdgesOf("meal", ref, payer, shares, day) IN
      /\ IsFiniteSet(some)
      /\ \A e \in some : /\ AnEdge(e) /\ e.kind = "meal" /\ e.ref = ref /\ e.creditor = payer
                         /\ e.debtor \in (DOMAIN shares) \ {payer} /\ e.amount = shares[e.debtor] /\ e.day = day
      /\ \A e, f \in some : e.debtor = f.debtor => e = f
    BY <1>1, <1>2, <1>3, EdgesAre
<1>5. new = EdgesOf("meal", ref, payer, shares, day)
    BY DEF ref
<1> HIDE DEF new
<1>6. /\ IsFiniteSet(new)
      /\ \A e \in new : /\ AnEdge(e) /\ e.kind = "meal" /\ e.ref = ref /\ e.creditor = payer
                        /\ e.debtor \in (DOMAIN shares) \ {payer} /\ e.day = day
      /\ \A e, f \in new : e.debtor = f.debtor => e = f
    BY <1>4, <1>5
<1> QED BY <1>2, <1>6 DEF NewThing, OfTheRoom, new, ref

LEMMA GameIsAThing ==
    ASSUME ARoom, NEW nets \in Outcomes
    PROVE  NewThing(GameEdges(Ref, Today, nets, -Total(nets)), "game")
<1> DEFINE house == -Total(nets)
           ref == Ref
           total == Total(nets)
<1>1. nets \in [People -> Int] /\ total <= 0
    BY OutcomesAssumption
<1>2. IsFiniteSet(People) /\ People \subseteq Int
    BY PeopleAssumption
<1>3. total \in Int
    <2>1. total = SumFunctionOnSet(nets, People)
        BY <1>1 DEF Total, SumFunction
    <2>2. \A m \in People : nets[m] \in Int
        BY <1>1
    <2> HIDE DEF total
    <2> QED BY <1>2, <2>1, <2>2, SumIsWhole
<1>4. house \in Nat /\ total = -house
    <2> HIDE DEF total
    <2>1. -total \in Nat /\ total = -(-total)
        BY <1>1, <1>3
    <2> QED BY <2>1 DEF total
<1>5. Result(nets, house)
    <2> HIDE DEF house
    <2> QED BY <1>1, <1>2, <1>4 DEF Result
<1>6. PICK losers, given : /\ Dealt(nets, house, losers, given)
                           /\ GameEdges(ref, Today, nets, house) = GameRows(losers, DOMAIN Wins(nets), given, ref, Today)
    <2> HIDE DEF house, ref
    <2> QED BY <1>5, GameIsDealt
<1> DEFINE L == DOMAIN Losses(nets)
           W == DOMAIN Wins(nets)
           new == GameRows(losers, W, given, ref, Today)
           P == Handed(losers, W, given)
<1> HIDE DEF house, total
<1>7. /\ L \in SUBSET People /\ W \in SUBSET People /\ IsFiniteSet(L) /\ IsFiniteSet(W)
      /\ (\A m \in L : nets[m] < 0) /\ \A m \in W : nets[m] > 0
    <2>1. DOMAIN nets = People
        BY <1>1
    <2> QED BY <1>5, <2>1, LossesAndWins
<1>8. losers \in SUBSET L /\ \A m \in losers : given[m] \in [W -> Nat]
    BY <1>6 DEF Dealt
<1>9. ref \in Nat \ {NoRef} /\ Today \in Dates /\ Today \in Int
    BY RefIs, DatesEnd DEF NoRef
<1> HIDE DEF L, W, ref
<1>10. \A p \in P : /\ p[1] \in losers /\ p[2] \in W /\ p = <<p[1], p[2]>>
                    /\ given[p[1]][p[2]] \in Nat
    BY <1>8 DEF Handed
<1>11. \A p : /\ GameRow(given, ref, Today, p).debtor = p[1] /\ GameRow(given, ref, Today, p).creditor = p[2]
              /\ GameRow(given, ref, Today, p).kind = "game" /\ GameRow(given, ref, Today, p).ref = ref
              /\ GameRow(given, ref, Today, p).day = Today
              /\ GameRow(given, ref, Today, p).amount = given[p[1]][p[2]]
    BY DEF GameRow
<1>12. IsFiniteSet(new)
    <2> DEFINE row == [p \in P |-> GameRow(given, ref, Today, p)]
    <2>1. new = {row[p] : p \in P}
        BY DEF GameRows
    <2>2. IsFiniteSet(P)
        <3>1. IsFiniteSet(losers) /\ IsFiniteSet(losers \X W)
            BY <1>7, <1>8, FS_Subset, FS_Product
        <3> QED BY <3>1, FS_Subset DEF Handed
    <2> HIDE DEF row, new, P
    <2> QED BY <2>1, <2>2, ImageIsFinite
<1>13. \A e : e \in new <=> \E p \in P : e = GameRow(given, ref, Today, p)
    BY DEF GameRows
<1> HIDE DEF new, P
<1>14. ASSUME NEW e \in new
       PROVE  /\ AnEdge(e) /\ e.kind = "game" /\ e.ref = ref
              /\ e.debtor \in People /\ e.creditor \in People /\ e.debtor # e.creditor /\ e.day \in Dates
    <2>1. PICK p \in P : e = GameRow(given, ref, Today, p)
        BY <1>13
    <2>2. /\ e.debtor = p[1] /\ e.creditor = p[2] /\ e.kind = "game" /\ e.ref = ref /\ e.day = Today
          /\ e.amount = given[p[1]][p[2]]
        BY <1>11, <2>1
    <2>3. p[1] \in losers /\ p[2] \in W /\ given[p[1]][p[2]] \in Nat
        BY <1>10
    <2>4. AnEdge(e)
        BY <1>9, <2>2, <2>3 DEF AnEdge
    <2>5. p[1] # p[2]
        <3>1. nets[p[1]] < 0 /\ nets[p[2]] > 0 /\ p[1] \in People /\ p[2] \in People
            BY <1>7, <1>8, <2>3
        <3> QED BY <1>1, <3>1
    <2> QED BY <1>7, <1>8, <1>9, <2>2, <2>3, <2>4, <2>5
<1>15. ASSUME NEW e \in new, NEW f \in new, e.debtor = f.debtor, e.creditor = f.creditor
       PROVE  e = f
    <2>1. PICK p \in P : e = GameRow(given, ref, Today, p)
        BY <1>13
    <2>2. PICK q \in P : f = GameRow(given, ref, Today, q)
        BY <1>13
    <2>3. p[1] = q[1] /\ p[2] = q[2]
        BY <1>11, <1>15, <2>1, <2>2
    <2>4. p = <<p[1], p[2]>> /\ q = <<q[1], q[2]>>
        BY <1>10
    <2>5. p = q
        BY <2>3, <2>4
    <2> QED BY <2>1, <2>2, <2>5
<1>16. NewThing(new, "game")
    BY <1>12, <1>14, <1>15 DEF NewThing, OfTheRoom, ref
<1>17. GameEdges(Ref, Today, nets, -Total(nets)) = new
    BY <1>6 DEF ref, house, new, W, total
<1> QED BY <1>16, <1>17, Zenon
-----------------------------------------------------------------------------
(* The inductive invariant of a room's money. *)
RoomInv == ARoom /\ Numbered /\ PaysInv /\ CardInv
MoneyInv == part = "settling" => RoomInv

LEMMA TransfersAreRows ==
    ASSUME ARoom, PaysInv
    PROVE  Rows(Transfers(edges, pays, Whole, People)) /\ \A r \in Transfers(edges, pays, Whole, People) : r.frm # r.to
<1> DEFINE rows == Transfers(edges, pays, Whole, People)
<1>1. IsFiniteSet(rows)
    BY TransfersAre
<1>2. ASSUME NEW r \in rows
      PROVE  r \in ARow /\ r.frm # r.to
    <2> DEFINE o == Owed(pays, r.frm, r.to)
               p == Owed(pays, r.to, r.frm)
    <2>1. r.frm \in People /\ r.to \in People /\ o > p /\ r = [frm |-> r.frm, to |-> r.to, amount |-> o - p]
        BY <1>2, TransfersAre
    <2>2. o \in Nat /\ p \in Nat
        BY OwedIs DEF PaysInv
    <2>3. r.frm # r.to
        <3> SUFFICES ASSUME r.frm = r.to
                     PROVE  FALSE
            OBVIOUS
        <3>1. o = p
            OBVIOUS
        <3> HIDE DEF o, p
        <3> QED BY <2>1, <2>2, <3>1
    <2> HIDE DEF o, p
    <2>4. o - p \in Nat \ {0}
        BY <2>1, <2>2
    <2> DEFINE x == o - p
    <2> HIDE DEF x
    <2>5. r = [frm |-> r.frm, to |-> r.to, amount |-> x] /\ x \in Nat \ {0}
        BY <2>1, <2>4 DEF x
    <2>6. r \in ARow
        BY <2>1, <2>5 DEF ARow
    <2> QED BY <2>3, <2>6
<1> HIDE DEF rows
<1> QED BY <1>1, <1>2 DEF Rows, rows

LEMMA RoomStarts ==
    ASSUME SettlingInit
    PROVE  RoomInv
<1>1. edges = {} /\ pays = <<>> /\ card = NoCard
    BY DEF SettlingInit
<1>2. ARoom /\ Numbered
    BY <1>1, FS_EmptySet DEF ARoom, Numbered, Distinct, OfTheRoom
<1>3. PaysInv
    BY <1>1, EmptySeq DEF PaysInv
<1>4. CardInv
    <2>1. card = [rows |-> {}, fresh |-> FALSE] /\ {} \in SUBSET ARow
        BY <1>1 DEF NoCard
    <2> HIDE DEF ARow
    <2>2. card \in [rows : SUBSET ARow, fresh : BOOLEAN] /\ card.rows = {} /\ ~ card.fresh
        BY <2>1
    <2> QED BY <2>1, <2>2, FS_EmptySet DEF CardInv, Rows
<1> QED BY <1>2, <1>3, <1>4 DEF RoomInv

LEMMA CardGoesStale ==
    ASSUME CardInv, card' = [card EXCEPT !.fresh = FALSE]
    PROVE  CardInv'
<1>1. card \in [rows : SUBSET ARow, fresh : BOOLEAN] /\ Rows(card.rows) /\ \A r \in card.rows : r.frm # r.to
    BY DEF CardInv
<1>2. card' \in [rows : SUBSET ARow, fresh : BOOLEAN] /\ card'.rows = card.rows /\ card'.fresh = FALSE
    BY <1>1
<1>3. ARow' = ARow
    BY DEF ARow
<1> HIDE DEF ARow
<1> QED BY <1>1, <1>2, <1>3 DEF CardInv, Rows

LEMMA LedgerStands ==
    ASSUME ARoom, Numbered, edges' = edges
    PROVE  ARoom' /\ Numbered'
<1>1. Ref' = Ref
    BY DEF Ref
<1> HIDE DEF Ref
<1> QED BY <1>1 DEF ARoom, Numbered, OfTheRoom

LEMMA PaymentsStand ==
    ASSUME PaysInv, pays' = pays
    PROVE  PaysInv'
<1>1. APaidRow' = APaidRow
    BY DEF APaidRow
<1> HIDE DEF APaidRow
<1> QED BY <1>1 DEF PaysInv

(* Every operation on a room's money keeps it a room's ledger, with its card.          *)
LEMMA RoomStepKeeps ==
    ASSUME RoomInv, [SettlingNext]_settlementVars
    PROVE  RoomInv'
<1>0. ARoom /\ Numbered /\ PaysInv /\ CardInv
    BY DEF RoomInv
<1>1. CASE AddMeal
    <2>1. PICK payer \in People, day \in Dates, eaters \in SUBSET People :
            /\ payer \notin eaters
            /\ \E shares \in [eaters -> Amounts] :
                 edges' = edges \cup EdgesOf("meal", Ref, payer, shares, day)
        <3>1. (IF edges = {} THEN Openers ELSE People) \subseteq People
            BY PeopleAssumption
        <3> QED BY <1>1, <3>1 DEF AddMeal
    <2>2. PICK shares \in [eaters -> Amounts] : edges' = edges \cup EdgesOf("meal", Ref, payer, shares, day)
        BY <2>1
    <2>3. NewThing(EdgesOf("meal", Ref, payer, shares, day), "meal")
        BY <1>0, <2>1, MealIsAThing
    <2>4. ARoom' /\ Numbered'
        BY <1>0, <2>2, <2>3, ThingIsAdded
    <2>5. card' = [card EXCEPT !.fresh = FALSE] /\ pays' = pays
        BY <1>1 DEF AddMeal
    <2> QED BY <1>0, <2>4, <2>5, CardGoesStale, PaymentsStand DEF RoomInv
<1>2. CASE AddGame
    <2>1. PICK nets \in Outcomes : edges' = edges \cup GameEdges(Ref, Today, nets, -Total(nets))
        BY <1>2 DEF AddGame
    <2>2. NewThing(GameEdges(Ref, Today, nets, -Total(nets)), "game")
        BY <1>0, GameIsAThing
    <2>3. ARoom' /\ Numbered'
        BY <1>0, <2>1, <2>2, ThingIsAdded
    <2>4. card' = [card EXCEPT !.fresh = FALSE] /\ pays' = pays
        BY <1>2 DEF AddGame
    <2> QED BY <1>0, <2>3, <2>4, CardGoesStale, PaymentsStand DEF RoomInv
<1>3. CASE RecordPayment
    <2>1. PICK frm \in People, to \in People, amount \in Amounts :
            \E e \in {[kind |-> "meal", ref |-> NoRef]}
                       \cup {f \in edges : f.debtor = frm /\ f.creditor = to} : Paying(frm, to, amount, e)
        BY <1>3 DEF RecordPayment
    <2>2. PICK e \in {[kind |-> "meal", ref |-> NoRef]} \cup {f \in edges : f.debtor = frm /\ f.creditor = to} :
            Paying(frm, to, amount, e)
        BY <2>1
    <2>3. e.kind \in {"meal", "game"} /\ e.ref \in Nat
        <3>1. CASE e = [kind |-> "meal", ref |-> NoRef]
            BY <3>1 DEF NoRef
        <3>2. CASE e \in edges
            BY <1>0, <3>2 DEF ARoom, AnEdge
        <3> QED BY <3>1, <3>2
    <2> DEFINE p == [frm |-> frm, to |-> to, amount |-> amount, kind |-> e.kind, ref |-> e.ref]
    <2>4. p \in APaidRow
        BY <2>3, AmountsAssumption DEF APaidRow
    <2>5. pays' = Append(pays, p) /\ edges' = edges
        BY <2>2 DEF Paying
    <2>6. APaidRow' = APaidRow
        BY DEF APaidRow
    <2> HIDE DEF p, APaidRow
    <2>7. PaysInv'
        BY <1>0, <2>4, <2>5, <2>6, AppendProperties DEF PaysInv
    <2>8. card' = [card EXCEPT !.fresh = FALSE]
        BY <1>3 DEF RecordPayment
    <2> QED BY <1>0, <2>5, <2>7, <2>8, LedgerStands, CardGoesStale DEF RoomInv
<1>4. CASE PostCard
    <2> DEFINE rows == Transfers(edges, pays, Whole, People)
    <2>1. card' = [rows |-> rows, fresh |-> TRUE] /\ edges' = edges /\ pays' = pays
        BY <1>4 DEF PostCard
    <2>2. Rows(rows) /\ \A r \in rows : r.frm # r.to
        BY <1>0, TransfersAreRows
    <2>3. Transfers(edges, pays, Whole, People)' = rows
        <3>1. Whole' = Whole
            BY DEF Whole, Today
        <3> QED BY <2>1, <3>1
    <2>4. ARow' = ARow
        BY DEF ARow
    <2> HIDE DEF rows, ARow
    <2>5. card'.rows = rows /\ card' \in [rows : SUBSET ARow, fresh : BOOLEAN]
        BY <2>1, <2>2 DEF Rows
    <2>6. CardInv'
        BY <2>2, <2>3, <2>4, <2>5 DEF CardInv, Rows
    <2> QED BY <1>0, <2>1, <2>6, LedgerStands, PaymentsStand DEF RoomInv
<1>5. CASE UNCHANGED settlementVars
    <2>1. edges' = edges /\ pays' = pays /\ card' = card
        BY <1>5 DEF settlementVars
    <2>2. CardInv'
        <3>1. Whole' = Whole /\ ARow' = ARow
            BY DEF Whole, Today, ARow
        <3>2. Transfers(edges, pays, Whole, People)' = Transfers(edges, pays, Whole, People)
            BY <2>1, <3>1
        <3> HIDE DEF ARow
        <3> QED BY <1>0, <2>1, <3>1, <3>2 DEF CardInv, Rows
    <2> QED BY <1>0, <2>1, <2>2, LedgerStands, PaymentsStand DEF RoomInv
<1> QED BY <1>1, <1>2, <1>3, <1>4, <1>5 DEF SettlingNext

LEMMA MoneyStarts == Init => MoneyInv
BY RoomStarts DEF Init, MoneyInv

LEMMA MoneyStepKeeps == MoneyInv /\ [Next]_vars => MoneyInv'
<1> SUFFICES ASSUME MoneyInv, [Next]_vars, part' = "settling"
             PROVE  RoomInv'
    BY DEF MoneyInv
<1>1. part = "settling" /\ RoomInv
    BY DEF Next, vars, MoneyInv
<1>2. [SettlingNext]_settlementVars
    BY <1>1 DEF Next, vars
<1> QED BY <1>1, <1>2, RoomStepKeeps

LEMMA MoneyStands == Spec => []MoneyInv
BY MoneyStarts, MoneyStepKeeps, PTL DEF Spec

(* For any members, meals, nights and payments, in whatever order they are recorded,   *)
(* and any period: a member's balance, the transfers, the bot's summary, its statement *)
(* and the panel say the same, and a window never brings back a debt paid after it     *)
(* (debt_breakdown, settle_period, outstanding_pairs, statement_for).                  *)
THEOREM ViewsAlwaysAgree == Spec => []ViewsAgree
<1>1. MoneyInv => ViewsAgree
    <2> SUFFICES ASSUME RoomInv
                 PROVE  PeriodsAgree
        BY DEF MoneyInv, ViewsAgree, NoCardYet
    <2>1. ALedger(edges, pays) /\ OfTheRoom(edges)
        BY ARoomsLedger DEF RoomInv, PaysInv, ARoom
    <2> QED BY <2>1, ARoomsPeriodsAgree
<1> QED BY <1>1, MoneyStands, PTL

(* A row of a card that is not marked as settled is owed in full, however late it is   *)
(* paid, and a fresh card squares the room (annotate_settled_transfers); "I paid" and  *)
(* the code a member asks for clear what was meant and no more (propose_payment,       *)
(* qr_request).                                                                        *)
THEOREM CardsAlwaysAskForWhatIsOwed == Spec => []CardsAskForWhatIsOwed
<1>1. MoneyInv => CardsAskForWhatIsOwed
    <2> SUFFICES ASSUME RoomInv
                 PROVE  UnmarkedRowsAreOwed /\ PayOffClears
        BY DEF MoneyInv, CardsAskForWhatIsOwed, NoCardYet
    <2> QED BY CardsAreOwed, PayingOffClears DEF RoomInv
<1> QED BY <1>1, MoneyStands, PTL
-----------------------------------------------------------------------------
(***************************************************************************)
(* What a graded turn passes with is the money that was expected (module   *)
(* Grading).                                                               *)
(***************************************************************************)

(* None is nothing else, and what an argument set may say.                 *)
LEMMA NoneIsNothing ==
    /\ IsFiniteSet(Members) /\ Members \subseteq Nat /\ Sender \in Members
    /\ None \notin Int /\ None \notin Members /\ None \notin Nat
    /\ \A f : DOMAIN f \in SUBSET Members /\ f \in [DOMAIN f -> Int] => f # None
BY GradingAssumption

OfMembers(adj) == DOMAIN adj \in SUBSET Members /\ \A m \in DOMAIN adj : adj[m] \in Int

LEMMA AmountsAre ==
    ASSUME NEW x, IsAmounts(x)
    PROVE  OfMembers(EmptyOr(x))
<1>1. CASE x = None
    <2>1. EmptyOr(x) = <<>>
        BY <1>1 DEF EmptyOr, Given
    <2>2. DOMAIN EmptyOr(x) = {}
        <3>1. Len(<<>>) = 0 /\ DOMAIN <<>> = 1..Len(<<>>)
            OBVIOUS
        <3> QED BY <2>1, <3>1
    <2> QED BY <2>2 DEF OfMembers
<1>2. CASE x # None
    <2>1. EmptyOr(x) = x
        BY <1>2 DEF EmptyOr, Given
    <2>2. DOMAIN x \in SUBSET Members /\ x \in [DOMAIN x -> Int]
        BY <1>2 DEF IsAmounts
    <2> QED BY <2>1, <2>2 DEF OfMembers
<1> QED BY <1>1, <1>2

LEMMA MealIs ==
    ASSUME NEW a, IsMeal(a)
    PROVE  /\ DOMAIN a = {"total", "participants", "payer", "guests", "adjustments", "items", "discount"}
           /\ a.total \in Int \/ a.total = None
           /\ a.participants \in Seq(Members) \/ a.participants = None
           /\ a.payer \in Members \/ a.payer = None
           /\ a.guests \in Nat \/ a.guests = None
           /\ PayerOf(a) \in Members /\ Heads(a) \in Nat
           /\ OfMembers(EmptyOr(a.adjustments)) /\ OfMembers(EmptyOr(a.items))
           /\ EmptyOr(a.items) # <<>> => EmptyOr(a.items) = a.items
<1> DEFINE AllMeals(adj, items) ==
      [total : Int \cup {None}, participants : Seq(Members) \cup {None}, payer : Members \cup {None},
       guests : Nat \cup {None}, adjustments : {adj}, items : {items}, discount : {"proportional", "equal"}]
<1>1. a \in AllMeals(a.adjustments, a.items)
    BY DEF IsMeal
<1>2. DOMAIN a = {"total", "participants", "payer", "guests", "adjustments", "items", "discount"}
    BY <1>1
<1>3. /\ a.total \in Int \cup {None} /\ a.participants \in Seq(Members) \cup {None}
      /\ a.payer \in Members \cup {None} /\ a.guests \in Nat \cup {None}
    BY <1>1
<1>4. PayerOf(a) \in Members /\ Heads(a) \in Nat
    BY <1>3, NoneIsNothing DEF PayerOf, Heads, Given
<1>5. OfMembers(EmptyOr(a.adjustments)) /\ OfMembers(EmptyOr(a.items))
    BY AmountsAre DEF IsMeal
<1> QED BY <1>2, <1>3, <1>4, <1>5 DEF EmptyOr

(* Without guests the tool's split is the plain one. *)
LEMMA WithoutGuests ==
    ASSUME NEW people \in Seq(Nat)
    PROVE  /\ people \o GuestHeads(0) = people
           /\ \A total, adj, payer : DOMAIN SplitShares(total, people, adj, payer) = ToSet(people)
           /\ \A total, adj, payer : SplitWithGuests(total, people, 0, adj, payer) = SplitShares(total, people, adj, payer)
<1>1. people \o GuestHeads(0) = people
    <2>1. GuestHeads(0) = <<>>
        BY DEF GuestHeads
    <2> QED BY <2>1
<1>2. \A total, adj, payer : DOMAIN SplitShares(total, people, adj, payer) = ToSet(people)
    BY DEF SplitShares
<1>3. \A total, adj, payer :
        SplitShares(total, people, adj, payer)
          = [m \in ToSet(people) |-> SplitShares(total, people, adj, payer)[m]]
    BY DEF SplitShares
<1> QED BY <1>1, <1>2, <1>3 DEF SplitWithGuests, Restrict

(* A split without a remainder, whoever would keep it. *)
Evenly(shares, a) ==
    LET adj == EmptyOr(a.adjustments) IN
    shares = [m \in ToSet(a.participants) |->
                (a.total - Total(adj)) \div (Len(a.participants) + Heads(a)) + AdjustmentOf(adj, m)]

(* What a proposal that is accepted says. *)
IsDraft(r, a) ==
    /\ r.type = "expense_draft" /\ r.payer = PayerOf(a) /\ r.guests = Heads(a) /\ r.items = EmptyOr(a.items)
    /\ r.adjustments = Adjustments(a)
    /\ r.shares = SplitWithGuests(a.total, a.participants, Heads(a), Adjustments(a), PayerOf(a))

(* What a proposal that the tool accepts has in it. *)
LEMMA ProposedMeal ==
    ASSUME NEW a, IsMeal(a), ProposeMeal(a).ok
    PROVE  /\ IsDraft(ProposeMeal(a), a)
           /\ MealAllowed(a) /\ GuestSplitAllowed(a.total, a.participants, Heads(a), Adjustments(a))
           /\ EmptyOr(a.items) # <<>> /\ a.discount = "equal" => EqualDeltaAllowed(a.total, a.items)
           /\ a.total \in Nat \ {0} /\ a.participants \in Seq(Members) /\ IsInjective(a.participants)
           /\ ToSet(a.participants) # {} /\ ToSet(a.participants) \subseteq Members
           /\ Len(a.participants) \in Nat \ {0}
<1> DEFINE Allowed == /\ MealAllowed(a)
                      /\ EmptyOr(a.items) # <<>> /\ a.discount = "equal" => EqualDeltaAllowed(a.total, a.items)
                      /\ GuestSplitAllowed(a.total, a.participants, Heads(a), Adjustments(a))
           draft == [ok |-> TRUE, type |-> "expense_draft", payer |-> PayerOf(a),
                     shares |-> SplitWithGuests(a.total, a.participants, Heads(a), Adjustments(a), PayerOf(a)),
                     adjustments |-> Adjustments(a), items |-> EmptyOr(a.items), guests |-> Heads(a)]
<1>1. ProposeMeal(a) = IF Allowed THEN draft ELSE Refusal
    BY DEF ProposeMeal
<1>2. Allowed /\ ProposeMeal(a) = draft
    <2>1. ~Refusal.ok
        BY DEF Refusal
    <2> HIDE DEF Allowed, draft
    <2> QED BY <1>1, <2>1
<1>3. IsDraft(ProposeMeal(a), a)
    BY <1>2 DEF IsDraft
<1>4. a.total \in Int /\ a.participants \in Seq(Members) /\ Heads(a) \in Nat
    BY <1>2, MealIs DEF MealAllowed, Given
<1> DEFINE people == a.participants
           heads == people \o GuestHeads(Heads(a))
<1>5. Len(people) >= 1 /\ SplitAllowed(a.total, heads, Adjustments(a))
    BY <1>2 DEF GuestSplitAllowed
<1>6. a.total > 0 /\ IsInjective(heads)
    BY <1>5 DEF SplitAllowed
<1>7. IsInjective(people)
    <2>1. people \in Seq(Nat)
        BY <1>4, NoneIsNothing
    <2> HIDE DEF people
    <2>2. IsInjective(people) <=> IsInjective(heads)
        BY <1>4, <2>1, AllHeads
    <2> QED BY <1>6, <2>2
<1>8. ToSet(people) # {} /\ ToSet(people) \subseteq Members
    <2>1. Len(people) \in Nat /\ DOMAIN people = 1..Len(people) /\ \A i \in 1..Len(people) : people[i] \in Members
        BY <1>4, SeqDef, LenProperties
    <2>2. 1 \in DOMAIN people
        BY <1>5, <2>1
    <2> QED BY <2>1, <2>2 DEF ToSet
<1>9. Len(people) \in Nat \ {0} /\ a.total \in Nat \ {0}
    BY <1>4, <1>5, <1>6, LenProperties
<1> QED BY <1>2, <1>3, <1>4, <1>7, <1>8, <1>9

-----------------------------------------------------------------------------
(* An even split without prices leaves nothing over, and its adjustments are its own. *)
LEMMA EvenRemainder ==
    ASSUME NEW a, IsMeal(a), ProposeMeal(a).ok, EmptyOr(a.items) = <<>>, Even(a)
    PROVE  /\ (a.total - Total(EmptyOr(a.adjustments))) % (Len(a.participants) + Heads(a)) = 0
           /\ Adjustments(a) = EmptyOr(a.adjustments)
BY DEF Even, Adjustments

(* Without prices and without a remainder, everyone has the base and what is his own. *)
LEMMA PlainMealIsEven ==
    ASSUME NEW a, IsMeal(a), ProposeMeal(a).ok, EmptyOr(a.items) = <<>>, Even(a)
    PROVE  /\ Evenly(ProposeMeal(a).shares, a)
           /\ Heads(a) = 0 => ShareMap(a) = ProposeMeal(a).shares
<1> DEFINE adj == EmptyOr(a.adjustments)
           people == a.participants
           guests == Heads(a)
           total == a.total
           payer == PayerOf(a)
           heads == people \o GuestHeads(guests)
           left == (total - Total(adj)) % (Len(people) + guests)
           base == (total - Total(adj)) \div (Len(people) + guests)
<1>1. /\ total \in Nat \ {0} /\ total \in Int /\ people \in Seq(Nat) /\ people \in Seq(Members) /\ guests \in Nat /\ payer \in Nat
      /\ IsInjective(people) /\ ToSet(people) # {} /\ Len(people) \in Nat \ {0}
    BY ProposedMeal, MealIs, NoneIsNothing
<1>2. DOMAIN adj \subseteq Nat /\ \A m \in DOMAIN adj : adj[m] \in Int
    BY MealIs, NoneIsNothing DEF OfMembers
<1>3. left = 0 /\ Adjustments(a) = adj
    BY EvenRemainder
<1>4. GuestSplitAllowed(total, people, guests, adj)
    BY <1>3, ProposedMeal
<1>5. ProposeMeal(a).shares = SplitWithGuests(total, people, guests, adj, payer)
    BY <1>3, ProposedMeal DEF IsDraft
<1>6. Len(heads) = Len(people) + guests
    <2> HIDE DEF people, guests
    <2> QED BY <1>1, AllHeads
<1>7. BaseAndOwn(SplitWithGuests(total, people, guests, adj, payer), total, people, heads, adj, payer)
    <2> HIDE DEF total, people, guests, adj, payer
    <2> QED BY <1>1, <1>2, <1>4, PlainIsWhole
<1>8. Evenly(ProposeMeal(a).shares, a)
    <2>1. PerHead(total, heads, adj) = base
        BY <1>6 DEF PerHead
    <2>2. (total - Total(adj)) % Len(heads) = 0
        BY <1>3, <1>6
    <2>3. PerHead(total, heads, adj) \in Int
        BY <1>7 DEF BaseAndOwn
    <2>4. \A m : AdjustmentOf(adj, m) \in Int
        BY <1>2 DEF AdjustmentOf
    <2>5. \A m : PerHead(total, heads, adj) + AdjustmentOf(adj, m) + (IF m = Keeper(people, payer) THEN 0 ELSE 0)
                   = base + AdjustmentOf(adj, m)
        <3> HIDE DEF adj, base
        <3> QED BY <2>1, <2>3, <2>4
    <2>6. SplitWithGuests(total, people, guests, adj, payer)
            = [m \in ToSet(people) |-> PerHead(total, heads, adj) + AdjustmentOf(adj, m) + (IF m = Keeper(people, payer) THEN 0 ELSE 0)]
        <3> HIDE DEF adj, base, heads, people, guests, total, payer
        <3> QED BY <1>7, <2>2 DEF BaseAndOwn
    <2>7. SplitWithGuests(total, people, guests, adj, payer) = [m \in ToSet(people) |-> base + AdjustmentOf(adj, m)]
        <3> HIDE DEF adj, base, heads, people, guests, total, payer
        <3> QED BY <2>5, <2>6
    <2> QED BY <1>5, <2>7 DEF Evenly
<1>9. ASSUME guests = 0 PROVE ShareMap(a) = ProposeMeal(a).shares
    <2>1. people \o GuestHeads(0) = people /\ heads = people
        <3> HIDE DEF people
        <3> QED BY <1>1, <1>9, WithoutGuests
    <2>2. SplitAllowed(total, people, adj)
        BY <1>4, <2>1 DEF GuestSplitAllowed
    <2>3. people # <<>>
        BY <1>1
    <2>4. Given(total)
        BY <1>1, NoneIsNothing DEF Given
    <2>5. Given(people)
        BY ProposedMeal DEF MealAllowed
    <2>6. ShareMap(a) = SplitShares(total, people, adj, None)
        BY <1>1, <1>9, <2>2, <2>3, <2>4, <2>5 DEF ShareMap, EmptyOr
    <2>7. BaseAndOwn(SplitShares(total, people, adj, None), total, people, people, adj, None)
        <3> HIDE DEF total, people, adj
        <3> QED BY <1>1, <1>2, <2>2, GeneralSplit
    <2>8. ProposeMeal(a).shares = SplitShares(total, people, adj, payer)
        <3> HIDE DEF total, people, adj, payer
        <3> QED BY <1>1, <1>5, <1>9, WithoutGuests
    <2>9. BaseAndOwn(SplitShares(total, people, adj, payer), total, people, people, adj, payer)
        <3> HIDE DEF total, people, adj
        <3> QED BY <1>1, <1>2, <2>2, GeneralSplit
    <2>10. (total - Total(adj)) % Len(people) = 0
        BY <1>1, <1>3, <1>9
    <2> HIDE DEF total, people, adj, payer
    <2>11. SplitShares(total, people, adj, None)
             = [m \in ToSet(people) |-> PerHead(total, people, adj) + AdjustmentOf(adj, m) + (IF m = Keeper(people, None) THEN 0 ELSE 0)]
        BY <2>7, <2>10 DEF BaseAndOwn
    <2>12. SplitShares(total, people, adj, payer)
             = [m \in ToSet(people) |-> PerHead(total, people, adj) + AdjustmentOf(adj, m) + (IF m = Keeper(people, payer) THEN 0 ELSE 0)]
        BY <2>9, <2>10 DEF BaseAndOwn
    <2> QED BY <2>6, <2>8, <2>11, <2>12
<1> QED BY <1>8, <1>9

(* With prices, everyone has what the prices come to, in the tool as in the grader. *)
LEMMA PricedMealIs ==
    ASSUME NEW a, IsMeal(a), ProposeMeal(a).ok, EmptyOr(a.items) # <<>>
    PROVE  /\ Heads(a) = 0 /\ ShareMap(a) = ProposeMeal(a).shares
           /\ \A m \in ToSet(a.participants) : ProposeMeal(a).shares[m] \in Nat
<1> DEFINE total == a.total
           people == a.participants
           items == a.items
           shares == IF a.discount = "equal" THEN EqualDeltaShares(total, items) ELSE ProportionalShares(total, items)
           payer == PayerOf(a)
<1>1. /\ total \in Nat \ {0} /\ people \in Seq(Nat) /\ people \in Seq(Members)
      /\ IsInjective(people) /\ ToSet(people) # {} /\ Len(people) \in Nat \ {0} /\ ToSet(people) \subseteq Members
    BY ProposedMeal, NoneIsNothing
<1>2. a.guests \in {None, 0} /\ DOMAIN items = ToSet(people) /\ ItemsAllowed(total, items)
    BY ProposedMeal DEF MealAllowed
<1>3. Heads(a) = 0
    BY <1>2 DEF Heads, Given
<1>4. a.discount = "equal" => EqualDeltaAllowed(total, items)
    BY ProposedMeal
<1>5. IsFiniteSet(DOMAIN items) /\ DOMAIN items \subseteq Int /\ \A m \in DOMAIN items : items[m] \in Int
    <2>1. OfMembers(items)
        BY MealIs
    <2>2. IsFiniteSet(DOMAIN items)
        BY <2>1, NoneIsNothing, FS_Subset DEF OfMembers
    <2> QED BY <2>1, <2>2, NoneIsNothing DEF OfMembers
<1>6. DOMAIN shares = DOMAIN items /\ (\A m \in DOMAIN items : shares[m] \in Nat) /\ Total(shares) = total
    <2> HIDE DEF total, items
    <2>1. CASE a.discount = "equal"
        BY <1>1, <1>2, <1>4, <1>5, <2>1, EqualDeltaIsWhole
    <2>2. CASE a.discount # "equal"
        BY <1>1, <1>2, <1>5, <2>2, ProportionalIsWhole
    <2> QED BY <2>1, <2>2
<1>7. shares = [m \in DOMAIN shares |-> shares[m]]
    <2>1. EqualDeltaShares(total, items) = [m \in DOMAIN EqualDeltaShares(total, items) |-> EqualDeltaShares(total, items)[m]]
        BY DEF EqualDeltaShares
    <2>2. ProportionalShares(total, items) = [m \in DOMAIN ProportionalShares(total, items) |-> ProportionalShares(total, items)[m]]
        BY DEF ProportionalShares
    <2>3. CASE a.discount = "equal"
        BY <2>1, <2>3
    <2>4. CASE a.discount # "equal"
        BY <2>2, <2>4
    <2> QED BY <2>3, <2>4
<1>8. Adjustments(a) = ItemizedAdjustments(total, shares)
    BY DEF Adjustments
<1>9. ShareMap(a) = shares
    <2>1. Given(total) /\ Given(people)
        BY <1>1, NoneIsNothing, ProposedMeal DEF Given, MealAllowed
    <2>2. people # <<>>
        BY <1>1
    <2> QED BY <1>1, <1>2, <1>3, <1>4, <2>1, <2>2 DEF ShareMap, EmptyOr
<1>10. ProposeMeal(a).shares = SplitWithGuests(total, people, 0, Adjustments(a), payer)
    BY <1>3, ProposedMeal DEF IsDraft
<1> HIDE DEF shares, total, people, payer, items
<1>11. SplitShares(total, people, ItemizedAdjustments(total, shares), payer) = shares
    BY <1>1, <1>2, <1>6, <1>7, ItemsComeBack
<1>12. SplitWithGuests(total, people, 0, Adjustments(a), payer) = SplitShares(total, people, Adjustments(a), payer)
    BY <1>1, WithoutGuests
<1>13. ProposeMeal(a).shares = shares
    BY <1>8, <1>10, <1>11, <1>12
<1>14. \A m \in ToSet(people) : shares[m] \in Nat
    BY <1>2, <1>6
<1> QED BY <1>3, <1>9, <1>13, <1>14 DEF people

(* Two lists of the same people are of one length. *)
LEMMA SamePeople ==
    ASSUME NEW p \in Seq(Members), NEW q \in Seq(Members), IsInjective(p), IsInjective(q), ToSet(p) = ToSet(q)
    PROVE  Len(p) = Len(q)
<1>1. Cardinality(ToSet(p)) = Len(p) /\ Cardinality(ToSet(q)) = Len(q)
    BY AsManyAsListed
<1> QED BY <1>1

(* Shares are a map of amounts, and so not None. *)
LEMMA SharesAre ==
    ASSUME NEW a, IsMeal(a), ProposeMeal(a).ok
    PROVE  LET shares == ProposeMeal(a).shares IN
           /\ DOMAIN shares = ToSet(a.participants) /\ \A m \in DOMAIN shares : shares[m] \in Nat
           /\ Given(shares)
<1> DEFINE shares == ProposeMeal(a).shares
           people == a.participants
           total == a.total
           guests == Heads(a)
           payer == PayerOf(a)
           adj == Adjustments(a)
<1>1. shares = SplitWithGuests(total, people, guests, adj, payer)
    BY ProposedMeal DEF IsDraft
<1>2. /\ total \in Nat \ {0} /\ people \in Seq(Nat) /\ guests \in Nat /\ payer \in Nat /\ ToSet(people) \subseteq Members
      /\ GuestSplitAllowed(total, people, guests, adj)
    BY ProposedMeal, MealIs, NoneIsNothing
<1>3. shares = [m \in ToSet(people) |-> shares[m]]
    BY <1>1 DEF SplitWithGuests, Restrict
<1>4. CASE EmptyOr(a.items) = <<>>
    <2>1. adj = EmptyOr(a.adjustments)
        BY <1>4 DEF Adjustments
    <2>2. DOMAIN adj \subseteq Nat /\ \A m \in DOMAIN adj : adj[m] \in Int
        BY <2>1, MealIs, NoneIsNothing DEF OfMembers
    <2>3. \A m \in ToSet(people) : shares[m] \in Nat
        <3> HIDE DEF shares, total, people, guests, payer, adj
        <3> QED BY <1>1, <1>2, <2>2, PlainIsWhole
    <2>4. shares \in [ToSet(people) -> Int] /\ DOMAIN shares = ToSet(people)
        BY <1>3, <2>3
    <2> QED BY <1>2, <2>3, <2>4, NoneIsNothing DEF Given
<1>5. CASE EmptyOr(a.items) # <<>>
    <2>2. \A m \in ToSet(people) : shares[m] \in Nat
        BY <1>5, PricedMealIs
    <2>3. shares \in [ToSet(people) -> Int] /\ DOMAIN shares = ToSet(people)
        BY <1>3, <2>2
    <2> QED BY <1>2, <2>2, <2>3, NoneIsNothing DEF Given
<1> QED BY <1>4, <1>5

-----------------------------------------------------------------------------
MealCall(a) == [tool |-> "propose_meal", args |-> a, result |-> ProposeMeal(a)]
PaymentCall(a, book) == [tool |-> "propose_payment", args |-> a, result |-> ProposePayment(a, book)]

(* What is asked of one argument. *)
Agree(judged, want, key) ==
    CASE Equivalent(judged, key, want) -> ShareMap(want) = ShareMap(judged.args)
      [] ~Equivalent(judged, key, want) /\ ~Given(judged.args[key]) -> Absent(judged, key, want[key])
      [] OTHER -> Matches(key, want[key], judged.args[key])

LEMMA AgreesIs ==
    ASSUME NEW judged, NEW want, Agrees(judged, want)
    PROVE  \A key \in DOMAIN want : Given(want[key]) /\ key # "discount" => Agree(judged, want, key)
BY DEF Agrees, Agree, Given

(* Money that was asked for and is not among the arguments is not in an accepted draft   *)
(* either: there is none.                                                                *)
LEMMA NotRecorded ==
    ASSUME NEW a, IsMeal(a), ProposeMeal(a).ok
    PROVE  /\ ~Given(a.guests) => Recorded(MealCall(a), "guests") = None
           /\ ~Given(a.adjustments) /\ EmptyOr(a.items) = <<>> => Recorded(MealCall(a), "adjustments") = None
<1>1. IsDraft(ProposeMeal(a), a)
    BY ProposedMeal
<1>2. ASSUME ~Given(a.guests) PROVE Recorded(MealCall(a), "guests") = None
    <2>1. ProposeMeal(a)["guests"] = 0
        BY <1>1, <1>2 DEF IsDraft, Heads
    <2> QED BY <2>1 DEF Recorded, MealCall
<1>3. ASSUME ~Given(a.adjustments), EmptyOr(a.items) = <<>>
      PROVE  Recorded(MealCall(a), "adjustments") = None
    <2>1. ProposeMeal(a)["adjustments"] = <<>>
        BY <1>1, <1>3 DEF IsDraft, Adjustments, EmptyOr
    <2> QED BY <2>1 DEF Recorded, MealCall
<1> QED BY <1>2, <1>3

(* What a call that agrees has in common with the expectation. *)
LEMMA MealInCommon ==
    ASSUME NEW want, NEW a, IsMeal(want), IsMeal(a), ProposeMeal(want).ok, ProposeMeal(a).ok,
           Agrees(MealCall(a), want), Given(want.payer), Given(want.guests)
    PROVE  /\ a.total = want.total /\ ToSet(a.participants) = ToSet(want.participants)
           /\ PayerOf(a) = want.payer /\ Heads(a) = Heads(want)
<1> DEFINE judged == MealCall(a)
<1>1. /\ DOMAIN want = {"total", "participants", "payer", "guests", "adjustments", "items", "discount"}
      /\ \A key \in DOMAIN want : Given(want[key]) /\ key # "discount" => Agree(judged, want, key)
    BY MealIs, AgreesIs
<1>2. Given(want.total) /\ Given(want.participants) /\ Given(a.total) /\ Given(a.participants)
    BY ProposedMeal DEF MealAllowed
<1>3. judged.args = a /\ \A key \in {"total", "participants", "payer", "guests"} : ~Equivalent(judged, key, want)
    BY DEF MealCall, Equivalent
<1>4. \A key \in {"total", "participants", "payer", "guests"} :
         Given(want[key]) => IF Given(a[key]) THEN Matches(key, want[key], a[key]) ELSE Absent(judged, key, want[key])
    BY <1>1, <1>3 DEF Agree
<1>5. a.total = want.total
    BY <1>2, <1>4 DEF Matches
<1>6. ToSet(a.participants) = ToSet(want.participants)
    BY <1>2, <1>4 DEF Matches
<1>7. PayerOf(a) = want.payer
    <2>1. CASE Given(a.payer)
        BY <1>4, <2>1 DEF Matches, PayerOf
    <2>2. CASE ~Given(a.payer)
        <3>1. Absent(judged, "payer", want.payer)
            BY <1>4, <2>2
        <3>2. want.payer = Sender
            BY <3>1 DEF Absent
        <3> QED BY <2>2, <3>2 DEF PayerOf
    <2> QED BY <2>1, <2>2
<1>8. Heads(a) = Heads(want)
    <2>1. CASE Given(a.guests)
        BY <1>4, <2>1 DEF Matches, Heads
    <2>2. CASE ~Given(a.guests)
        <3>1. Absent(judged, "guests", want.guests)
            BY <1>4, <2>2
        <3>2. Recorded(judged, "guests") = want.guests
            BY <3>1 DEF Absent
        <3>3. Recorded(judged, "guests") = None
            BY <2>2, NotRecorded
        <3> QED BY <3>2, <3>3 DEF Given
    <2> QED BY <2>1, <2>2
<1> QED BY <1>5, <1>6, <1>7, <1>8

(* Accepted without guests, an argument set has a share map: the tool's shares. *)
LEMMA ShareMapIs ==
    ASSUME NEW a, IsMeal(a), ProposeMeal(a).ok, Even(a)
    PROVE  IF Heads(a) = 0 THEN ShareMap(a) = ProposeMeal(a).shares /\ Given(ShareMap(a))
           ELSE ~Given(ShareMap(a)) /\ EmptyOr(a.items) = <<>> /\ Evenly(ProposeMeal(a).shares, a)
<1>1. CASE Heads(a) = 0
    <2>1. ShareMap(a) = ProposeMeal(a).shares
        BY <1>1, PlainMealIsEven, PricedMealIs
    <2> QED BY <1>1, <2>1, SharesAre
<1>2. CASE Heads(a) # 0
    <2>1. Heads(a) > 0
        BY <1>2, MealIs
    <2>2. ShareMap(a) = None
        BY <2>1 DEF ShareMap
    <2>3. EmptyOr(a.items) = <<>>
        BY <1>2, PricedMealIs
    <2> QED BY <1>2, <2>2, <2>3, PlainMealIsEven DEF Given
<1> QED BY <1>1, <1>2

(* A call that agrees with an expectation that leaves nothing unsaid is its money. *)
LEMMA MealIsTheMoney ==
    ASSUME NEW want, NEW a, IsMeal(want), IsMeal(a), ProposeMeal(want).ok, ProposeMeal(a).ok,
           Agrees(MealCall(a), want), Given(want.payer), Complete(want), Even(want), Even(a)
    PROVE  ProposeMeal(a).shares = ProposeMeal(want).shares /\ ProposeMeal(a).payer = want.payer
<1> DEFINE judged == MealCall(a)
<1>1. /\ a.total = want.total /\ ToSet(a.participants) = ToSet(want.participants)
      /\ PayerOf(a) = want.payer /\ Heads(a) = Heads(want)
    BY MealInCommon DEF Complete
<1>2. ProposeMeal(a).payer = want.payer
    BY <1>1, ProposedMeal DEF IsDraft
<1>3. /\ DOMAIN want = {"total", "participants", "payer", "guests", "adjustments", "items", "discount"}
      /\ \A key \in DOMAIN want : Given(want[key]) /\ key # "discount" => Agree(judged, want, key)
    BY MealIs, AgreesIs
<1>4. judged.args = a /\ judged.tool = "propose_meal"
    BY DEF MealCall
<1>5. CASE Heads(a) = 0
    <2>1. Given(ShareMap(want)) /\ Given(ShareMap(a))
        BY <1>1, <1>5, ShareMapIs
    <2>2. \A key \in {"adjustments", "items"} : Equivalent(judged, key, want)
        BY <1>4, <2>1 DEF Equivalent
    <2>3. Given(want.adjustments) \/ Given(want.items)
        BY DEF Complete, EmptyOr
    <2>4. ShareMap(want) = ShareMap(a)
        BY <1>3, <1>4, <2>2, <2>3 DEF Agree
    <2> QED BY <1>1, <1>2, <1>5, <2>4, ShareMapIs
<1>6. CASE Heads(a) # 0
    <2>1. /\ EmptyOr(a.items) = <<>> /\ EmptyOr(want.items) = <<>>
          /\ Evenly(ProposeMeal(a).shares, a) /\ Evenly(ProposeMeal(want).shares, want)
          /\ ~Given(ShareMap(a))
        BY <1>1, <1>6, ShareMapIs
    <2>2. Given(want.adjustments)
        BY <2>1 DEF Complete
    <2>3. Agree(judged, want, "adjustments") /\ ~Equivalent(judged, "adjustments", want)
        BY <1>3, <1>4, <2>1, <2>2 DEF Equivalent
    <2>4. a.adjustments = want.adjustments
        <3>1. CASE Given(a.adjustments)
            BY <1>4, <2>3, <3>1 DEF Agree, Matches
        <3>2. CASE ~Given(a.adjustments)
            <4>1. Absent(judged, "adjustments", want.adjustments)
                BY <1>4, <2>3, <3>2 DEF Agree
            <4>2. Recorded(judged, "adjustments") = want.adjustments
                BY <4>1 DEF Absent
            <4>3. Recorded(judged, "adjustments") = None
                BY <2>1, <3>2, NotRecorded
            <4> QED BY <2>2, <4>2, <4>3 DEF Given
        <3> QED BY <3>1, <3>2
    <2>5. Len(a.participants) = Len(want.participants)
        BY <1>1, ProposedMeal, SamePeople
    <2> QED BY <1>1, <1>2, <2>1, <2>4, <2>5 DEF Evenly
<1> QED BY <1>5, <1>6

(* The same of a payment. *)
LEMMA PaymentIsTheMoney ==
    ASSUME NEW book, NEW want, NEW a, IsPayment(want), IsPayment(a), ProposePayment(want, book).ok,
           Given(want.from), Given(want.to), Given(want.amount), Agrees(PaymentCall(a, book), want)
    PROVE  LET r == ProposePayment(a, book) IN
           r.ok /\ r.type = "payment_draft" /\ r.from = want.from /\ r.to = want.to /\ r.amount = want.amount
<1> DEFINE judged == PaymentCall(a, book)
           r == ProposePayment(a, book)
           from == IF Given(a.from) THEN a.from ELSE Sender
           amount == IF Given(a.amount) THEN a.amount ELSE OwesNow(book, from, a.to)
           draft == [ok |-> TRUE, type |-> "payment_draft", from |-> from, to |-> a.to, amount |-> amount]
<1>1. DOMAIN want = {"from", "to", "amount"}
    BY DEF IsPayment
<1>2. judged.args = a /\ judged.tool = "propose_payment" /\ judged.result = r
    BY DEF PaymentCall
<1>3. \A key \in {"from", "to", "amount"} :
         IF Given(a[key]) THEN want[key] = a[key] ELSE Absent(judged, key, want[key])
    <2>1. \A key \in DOMAIN want : Agree(judged, want, key) /\ ~Equivalent(judged, key, want)
        BY <1>1, <1>2, AgreesIs DEF Equivalent
    <2> HIDE DEF judged
    <2> QED BY <1>1, <1>2, <2>1 DEF Agree, Matches
<1>4. from = want.from
    BY <1>3 DEF Absent
<1>5. a.to = want.to /\ Given(a.to)
    BY <1>3 DEF Absent
<1>6. want.from # want.to
    <2>1. want.from = want.to => ProposePayment(want, book) = Refusal
        BY DEF ProposePayment
    <2> QED BY <2>1 DEF Refusal
<1>7. amount = want.amount /\ r = draft
    <2>1. CASE Given(a.amount)
        <3>1. r = draft
            BY <1>4, <1>5, <1>6, <2>1 DEF ProposePayment
        <3> QED BY <1>3, <2>1, <3>1
    <2>2. CASE ~Given(a.amount)
        <3>1. Recorded(judged, "amount") = want.amount
            BY <1>3, <2>2 DEF Absent
        <3>2. r.ok /\ "amount" \in DOMAIN r /\ r.amount = want.amount
            <4> HIDE DEF r, judged
            <4> QED BY <1>2, <3>1 DEF Recorded, Given
        <3>3. r = draft \/ r = [ok |-> TRUE, type |-> "unsettled"]
            BY <1>4, <1>5, <1>6 DEF ProposePayment
        <3>4. r = draft
            BY <3>2, <3>3
        <3> QED BY <3>2, <3>4
    <2> QED BY <2>1, <2>2
<1> QED BY <1>4, <1>5, <1>7

-----------------------------------------------------------------------------
(* A ledger between members, and what one has lent another and not got back. *)
ABook(book) ==
    ALedger(book.edges, book.pays) /\ \A e \in book.edges : e.debtor \in Members /\ e.creditor \in Members
PaidBack(book, k, m) == AmountOf(book.pays, PairPayments(book.pays, <<k, m>>))
Owing(book, k, m) == Gross(book.edges, k, m) - PaidBack(book, k, m)

(* The ledger of a turn is one, and has no debt of the meal that is proposed. *)
LEMMA BooksAre ==
    ASSUME NEW book, IsBook(book)
    PROVE  /\ ABook(book)
           /\ book.pays \in Seq([frm : Members, to : Members, amount : Nat, kind : {"meal", "game"}, ref : Nat])
           /\ \A e \in book.edges : e.ref # NextMeal
<1> DEFINE Row == [frm : Members, to : Members, amount : Nat, kind : {"meal", "game"}, ref : Nat]
<1>1. book.pays \in Seq(Row)
    BY DEF IsBook
<1>2. \A p \in Row : p.amount \in Nat
    OBVIOUS
<1>3. Payments(book.pays)
    <2> HIDE DEF Row
    <2> QED BY <1>1, <1>2, PaymentsInASequence
<1>4. \A e \in book.edges : AnEdge(e) /\ e.debtor \in Members /\ e.creditor \in Members /\ e.ref # NextMeal
    BY DEF IsBook, AnEdge
<1>5. IsFiniteSet(book.edges) /\ Distinct(book.edges)
    BY DEF IsBook, Distinct
<1> QED BY <1>1, <1>3, <1>4, <1>5 DEF ABook, ALedger

LEMMA GrossIs ==
    ASSUME NEW all, NEW some \in SUBSET all, IsFiniteSet(all), \A e \in all : e.amount \in Nat, NEW a, NEW b
    PROVE  /\ Gross(some, a, b) = SumFunctionOnSet([e \in all |-> e.amount], PairEdges(some, <<a, b>>))
           /\ Gross(some, a, b) \in Nat
<1> DEFINE amount == [e \in all |-> e.amount]
           here == PairEdges(some, <<a, b>>)
           lent == [e \in here |-> e.amount]
<1>1. here \in SUBSET some /\ here \in SUBSET all /\ IsFiniteSet(here)
    BY FS_Subset DEF PairEdges
<1>2. Gross(some, a, b) = SumFunctionOnSet(lent, here)
    BY DEF Gross, SumFunction
<1>3. \A e \in here : lent[e] \in Nat /\ lent[e] \in Int /\ lent[e] = amount[e]
    BY <1>1
<1> HIDE DEF lent, here, amount
<1>4. SumFunctionOnSet(lent, here) = SumFunctionOnSet(amount, here)
    BY <1>1, <1>3, SumOfSame
<1>5. SumFunctionOnSet(lent, here) \in Nat
    BY <1>1, <1>3, SumIsNatural
<1> QED BY <1>2, <1>4, <1>5 DEF amount, here

(* Lent, paid back and owed are whole. *)
LEMMA OwingIs ==
    ASSUME NEW book, ABook(book), NEW k, NEW m
    PROVE  Gross(book.edges, k, m) \in Nat /\ PaidBack(book, k, m) \in Nat /\ Owing(book, k, m) \in Int
<1>1. IsFiniteSet(book.edges) /\ \A e \in book.edges : e.amount \in Nat
    BY DEF ABook, ALedger, AnEdge
<1>2. Gross(book.edges, k, m) \in Nat
    <2> DEFINE E == book.edges
    <2>1. E \in SUBSET E
        OBVIOUS
    <2> HIDE DEF E
    <2>2. IsFiniteSet(E) /\ \A e \in E : e.amount \in Nat
        BY <1>1 DEF E
    <2>3. Gross(E, k, m) \in Nat
        BY <2>1, <2>2, GrossIs
    <2> QED BY <2>3 DEF E
<1>3. PaidBack(book, k, m) \in Nat
    <2>1. PairPayments(book.pays, <<k, m>>) \in SUBSET DOMAIN book.pays
        BY DEF PairPayments
    <2> QED BY <2>1, AmountIs DEF PaidBack, ABook, ALedger
<1> QED BY <1>2, <1>3 DEF Owing

(* What a pair still owes, when it has paid nothing in advance. *)
LEMMA OpenIsOwing ==
    ASSUME NEW book, ABook(book), NoAdvance(book), NEW k \in Members, NEW m \in Members
    PROVE  /\ OwesNow(book, k, m) = Owing(book, k, m)
           /\ OpenOf(Outstanding(book.edges, book.pays), book.edges, k, m) = Owing(book, k, m)
<1> DEFINE out == Outstanding(book.edges, book.pays)
           here == PairEdges(book.edges, <<k, m>>)
           f == [e \in here |-> out[e]]
<1>1. ALedger(book.edges, book.pays)
    BY DEF ABook
<1>2. OwesNow(book, k, m) = Positive(Owing(book, k, m))
    BY <1>1, PairIsSettled DEF OwesNow, Owing, PaidBack
<1>3. Owing(book, k, m) >= 0 /\ Owing(book, k, m) \in Int
    BY OwingIs DEF NoAdvance, Owing, PaidBack
<1>4. OwesNow(book, k, m) = Owing(book, k, m)
    BY <1>2, <1>3 DEF Positive
<1>5. OwesNow(book, k, m) = SumFunctionOnSet(f, here)
    BY DEF OwesNow, OwedOver, SumFunction
<1>6. IsFiniteSet(here) /\ here \in SUBSET book.edges
    BY <1>1, FS_Subset DEF PairEdges, ALedger
<1>7. \A e \in here : f[e] \in Int /\ f[e] = out[e]
    <2>1. \A e \in here : out[e] \in Int
        <3>1. \A e \in here : e.amount \in Nat
            BY <1>1, <1>6 DEF ALedger, AnEdge
        <3>2. \A e \in here : out[e] \in 0..e.amount
            BY <1>1, <1>6, PaidIs
        <3> QED BY <3>1, <3>2
    <2>2. \A e \in here : f[e] = out[e]
        OBVIOUS
    <2> HIDE DEF f, here, out
    <2> QED BY <2>1, <2>2
<1>8. SumFunctionOnSet(f, here) = SumFunctionOnSet(out, here)
    <2> HIDE DEF f, here, out
    <2> QED BY <1>6, <1>7, SumOfSame
<1> QED BY <1>4, <1>5, <1>8 DEF OpenOf

(* A balance, pair by pair. *)
NetWith(book, m) == [k \in Members |-> Owing(book, k, m) - Owing(book, m, k)]
LEMMA BalanceByPairs ==
    ASSUME NEW book, ABook(book), NoAdvance(book), NEW m \in Members
    PROVE  /\ BalanceOf(book, m) = SumFunctionOnSet(NetWith(book, m), Members)
           /\ \A k \in Members : NetWith(book, m)[k] \in Int
<1> DEFINE out == Outstanding(book.edges, book.pays)
           to == [k \in Members |-> OpenOf(out, book.edges, k, m)]
           by == [k \in Members |-> OpenOf(out, book.edges, m, k)]
           net == NetWith(book, m)
<1>1. IsFiniteSet(Members) /\ IsFiniteSet(book.edges) /\ ALedger(book.edges, book.pays)
    BY NoneIsNothing DEF ABook, ALedger
<1>2. \A e \in book.edges : out[e] \in Nat /\ e.debtor \in Members /\ e.creditor \in Members
    <2>1. \A e \in book.edges : e.amount \in Nat
        BY <1>1 DEF ALedger, AnEdge
    <2>2. \A e \in book.edges : out[e] \in 0..e.amount
        BY <1>1, PaidIs
    <2> QED BY <2>1, <2>2 DEF ABook
<1>3. /\ \A q : OpenOf(out, book.edges, q, m) \in Nat /\ OpenOf(out, book.edges, m, q) \in Nat
      /\ Lent(out, book.edges, m) = SumFunctionOnSet(to, Members)
      /\ Borrowed(out, book.edges, m) = SumFunctionOnSet(by, Members)
    <2>1. PairsAddUp(Members, out, book.edges, m)
        <3> HIDE DEF out
        <3> QED BY <1>1, <1>2, OfEveryPair DEF ToldAmong
    <2> HIDE DEF out
    <2> QED BY <2>1, Zenon DEF PairsAddUp
<1>4. BalanceOf(book, m) = Lent(out, book.edges, m) - Borrowed(out, book.edges, m)
    BY DEF BalanceOf, Lent, Borrowed
<1>5. \A k \in Members : net[k] \in Int /\ by[k] \in Int /\ to[k] \in Int /\ to[k] = net[k] + by[k]
    <2> SUFFICES ASSUME NEW k \in Members
                 PROVE  net[k] \in Int /\ by[k] \in Int /\ to[k] \in Int /\ to[k] = net[k] + by[k]
        OBVIOUS
    <2>1. to[k] = Owing(book, k, m) /\ by[k] = Owing(book, m, k)
        BY OpenIsOwing
    <2>2. net[k] = Owing(book, k, m) - Owing(book, m, k)
        BY DEF NetWith
    <2>3. Owing(book, k, m) \in Int /\ Owing(book, m, k) \in Int
        BY OwingIs
    <2> HIDE DEF net, to, by
    <2> QED BY <2>1, <2>2, <2>3
<1> HIDE DEF net, to, by, out
<1>6. SumFunctionOnSet(to, Members) = SumFunctionOnSet(net, Members) + SumFunctionOnSet(by, Members)
    BY <1>1, <1>5, SumOfTwo
<1>7. SumFunctionOnSet(net, Members) \in Int /\ SumFunctionOnSet(by, Members) \in Int
    BY <1>1, <1>5, SumIsWhole
<1>8. BalanceOf(book, m) = SumFunctionOnSet(net, Members)
    BY <1>3, <1>4, <1>6, <1>7
<1> QED BY <1>5, <1>8 DEF net

(* A balance moves by what moves with everyone. *)
LEMMA BalanceMoves ==
    ASSUME NEW book, NEW after, ABook(book), ABook(after), NoAdvance(book), NoAdvance(after), NEW m \in Members,
           NEW d, \A k \in Members : d[k] \in Int /\ NetWith(after, m)[k] = NetWith(book, m)[k] + d[k]
    PROVE  /\ BalanceOf(after, m) = BalanceOf(book, m) + SumFunctionOnSet(d, Members)
           /\ BalanceOf(book, m) \in Int
<1>1. IsFiniteSet(Members)
    BY NoneIsNothing
<1>2. /\ BalanceOf(book, m) = SumFunctionOnSet(NetWith(book, m), Members)
      /\ BalanceOf(after, m) = SumFunctionOnSet(NetWith(after, m), Members)
      /\ \A k \in Members : NetWith(book, m)[k] \in Int
    BY BalanceByPairs
<1>3. SumFunctionOnSet(NetWith(after, m), Members) = SumFunctionOnSet(NetWith(book, m), Members) + SumFunctionOnSet(d, Members)
    <2> DEFINE f == NetWith(book, m)
               h == NetWith(after, m)
    <2> HIDE DEF f, h
    <2>1. \A k \in Members : f[k] \in Int /\ d[k] \in Int /\ h[k] = f[k] + d[k]
        BY <1>2 DEF f, h
    <2>2. SumFunctionOnSet(h, Members) = SumFunctionOnSet(f, Members) + SumFunctionOnSet(d, Members)
        BY <1>1, <2>1, SumOfTwo
    <2> QED BY <2>2 DEF f, h
<1>4. BalanceOf(book, m) \in Int
    BY <1>1, <1>2, SumIsWhole
<1> QED BY <1>2, <1>3, <1>4

-----------------------------------------------------------------------------
(* A meal between members: who pays, and the shares. *)
AMeal(payer, shares) ==
    payer \in Members /\ DOMAIN shares \in SUBSET Members /\ \A k \in DOMAIN shares : shares[k] \in Nat
ShareOf(shares, k) == IF k \in DOMAIN shares THEN shares[k] ELSE 0
MealEdges(payer, shares) == EdgesOf("meal", NextMeal, payer, shares, Tonight)
WithMeal(book, payer, shares) == [book EXCEPT !.edges = @ \cup MealEdges(payer, shares)]

(* The debts of the meal. *)
LEMMA MealEdgesAre ==
    ASSUME NEW payer, NEW shares, AMeal(payer, shares)
    PROVE  /\ IsFiniteSet(MealEdges(payer, shares))
           /\ \A e \in MealEdges(payer, shares) :
                /\ AnEdge(e) /\ e.kind = "meal" /\ e.ref = NextMeal /\ e.creditor = payer
                /\ e.debtor \in (DOMAIN shares) \ {payer} /\ e.amount = shares[e.debtor]
                /\ e.debtor \in Members /\ e.creditor \in Members
           /\ \A e, f \in MealEdges(payer, shares) : e.debtor = f.debtor => e = f
<1> DEFINE new == EdgesOf("meal", NextMeal, payer, shares, Tonight)
<1>1. NextMeal \in Nat \ {NoRef} /\ Tonight \in Int /\ "meal" \in {"meal", "game"}
    BY GradingAssumption
<1>2. IsFiniteSet(DOMAIN shares) /\ \A m \in DOMAIN shares : shares[m] \in Nat
    BY NoneIsNothing, FS_Subset DEF AMeal
<1>3. /\ IsFiniteSet(new)
      /\ \A e \in new :
           /\ AnEdge(e) /\ e.kind = "meal" /\ e.ref = NextMeal /\ e.creditor = payer
           /\ e.debtor \in (DOMAIN shares) \ {payer} /\ e.amount = shares[e.debtor] /\ e.day = Tonight
      /\ \A e, f \in new : e.debtor = f.debtor => e = f
    BY <1>1, <1>2, EdgesAre
<1>4. MealEdges(payer, shares) = new
    BY DEF MealEdges
<1> HIDE DEF new
<1> QED BY <1>3, <1>4 DEF AMeal

(* The ledger with the meal is a ledger again. *)
LEMMA BookWithMeal ==
    ASSUME NEW book, IsBook(book), NEW payer, NEW shares, AMeal(payer, shares)
    PROVE  LET after == WithMeal(book, payer, shares) IN
           ABook(after) /\ after.edges = book.edges \cup MealEdges(payer, shares) /\ after.pays = book.pays
<1> DEFINE after == WithMeal(book, payer, shares)
           new == MealEdges(payer, shares)
<1>1. after.edges = book.edges \cup new /\ after.pays = book.pays
    <2>1. book = [edges |-> book.edges, pays |-> book.pays]
        BY DEF IsBook
    <2> QED BY <2>1 DEF WithMeal
<1>2. ABook(book) /\ \A e \in book.edges : e.ref # NextMeal
    BY BooksAre
<1>3. IsFiniteSet(book.edges \cup new)
    BY <1>2, MealEdgesAre, FS_Union DEF ABook, ALedger
<1>4. \A e \in book.edges \cup new : AnEdge(e) /\ e.debtor \in Members /\ e.creditor \in Members
    BY <1>2, MealEdgesAre DEF ABook, ALedger
<1>5. Distinct(book.edges \cup new)
    <2>1. \A e, f \in book.edges :
            e.debtor = f.debtor /\ e.creditor = f.creditor /\ e.kind = f.kind /\ e.ref = f.ref => e = f
        BY <1>2 DEF ABook, ALedger, Distinct
    <2> HIDE DEF new
    <2>2. (\A e \in new : e.ref = NextMeal) /\ \A e, f \in new : e.debtor = f.debtor => e = f
        BY MealEdgesAre DEF new
    <2> QED BY <1>2, <2>1, <2>2 DEF Distinct
<1> HIDE DEF after, new
<1>6. ABook(after)
    BY <1>1, <1>2, <1>3, <1>4, <1>5 DEF ABook, ALedger
<1> QED BY <1>1, <1>6 DEF after, new

(* Everyone but the payer owes the payer a share more. *)
LEMMA OwingAfterMeal ==
    ASSUME NEW book, IsBook(book), NEW payer, NEW shares, AMeal(payer, shares), NEW k, NEW m
    PROVE  Owing(WithMeal(book, payer, shares), k, m) =
             Owing(book, k, m) + IF m = payer /\ k # payer THEN ShareOf(shares, k) ELSE 0
<1> DEFINE after == WithMeal(book, payer, shares)
           new == MealEdges(payer, shares)
           old == book.edges
           all == old \cup new
           amount == [e \in all |-> e.amount]
           here == PairEdges(all, <<k, m>>)
           before == PairEdges(old, <<k, m>>)
           added == PairEdges(new, <<k, m>>)
<1>1. ABook(after) /\ after.edges = all /\ after.pays = book.pays /\ ABook(book) /\ \A e \in old : e.ref # NextMeal
    BY BookWithMeal, BooksAre
<1>2. IsFiniteSet(all) /\ \A e \in all : e.amount \in Nat
    BY <1>1 DEF ABook, ALedger, AnEdge
<1>3. /\ Gross(all, k, m) = SumFunctionOnSet(amount, here)
      /\ Gross(old, k, m) = SumFunctionOnSet(amount, before) /\ Gross(old, k, m) \in Nat
    <2>1. all \in SUBSET all /\ old \in SUBSET all
        OBVIOUS
    <2> HIDE DEF all, old
    <2> QED BY <1>2, <2>1, GrossIs DEF here, before
<1>4. before \in SUBSET here /\ here \ before = added /\ here \in SUBSET all
    <2>1. \A e \in new : e.ref = NextMeal
        BY MealEdgesAre
    <2> HIDE DEF new
    <2> QED BY <1>1, <2>1 DEF PairEdges
<1>5. SumFunctionOnSet(amount, here) = SumFunctionOnSet(amount, before) + SumFunctionOnSet(amount, added)
    <2>1. IsFiniteSet(here)
        BY <1>2, <1>4, FS_Subset
    <2>2. \A e \in here : amount[e] \in Int
        <3>1. \A e \in all : amount[e] = e.amount
            OBVIOUS
        <3> HIDE DEF amount, here, all
        <3> QED BY <1>2, <1>4, <3>1
    <2> HIDE DEF here, before, added, amount
    <2> QED BY <1>4, <2>1, <2>2, SumOfParts
<1>6. SumFunctionOnSet(amount, added) = IF m = payer /\ k # payer THEN ShareOf(shares, k) ELSE 0
    <2>1. CASE added = {}
        <3>1. SumFunctionOnSet(amount, added) = 0
            <4> HIDE DEF amount, added
            <4> QED BY <2>1, SumOfNone
        <3>2. m = payer /\ k # payer /\ k \in DOMAIN shares => shares[k] = 0
            <4> SUFFICES ASSUME m = payer, k # payer, k \in DOMAIN shares, shares[k] # 0
                         PROVE  FALSE
                OBVIOUS
            <4> DEFINE e == [debtor |-> k, creditor |-> payer, kind |-> "meal", ref |-> NextMeal,
                             day |-> Tonight, amount |-> shares[k]]
            <4>1. e \in new
                BY DEF MealEdges, EdgesOf
            <4>2. e \in added
                BY <4>1 DEF PairEdges
            <4> QED BY <2>1, <4>2
        <3> QED BY <3>1, <3>2 DEF ShareOf
    <2>2. CASE added # {}
        <3>1. PICK e \in added : TRUE
            BY <2>2
        <3>2. e \in new /\ e.debtor = k /\ e.creditor = m
            BY <3>1 DEF PairEdges
        <3>3. m = payer /\ k # payer /\ k \in DOMAIN shares /\ e.amount = shares[k]
            BY <3>2, MealEdgesAre
        <3>4. added = {e}
            <4>1. \A f \in added : f \in new /\ f.debtor = k
                BY DEF PairEdges
            <4>2. \A f \in added : f = e
                BY <3>2, <4>1, MealEdgesAre
            <4> QED BY <3>1, <4>2
        <3>5. amount[e] = e.amount /\ e.amount \in Nat
            BY <1>2, <3>2
        <3>6. SumFunctionOnSet(amount, {e}) = amount[e] + SumFunctionOnSet(amount, {})
            <4>1. IsFiniteSet({e}) /\ {e} \ {e} = {}
                BY FS_Singleton
            <4>2. \A x \in {e} : amount[x] \in Int
                BY <3>5
            <4> HIDE DEF amount
            <4>3. SumFunctionOnSet(amount, {e}) = amount[e] + SumFunctionOnSet(amount, {e} \ {e})
                BY <4>1, <4>2, SumTakesOut
            <4> QED BY <4>1, <4>3
        <3>7. SumFunctionOnSet(amount, added) = e.amount
            <4> HIDE DEF amount, added
            <4> QED BY <3>4, <3>5, <3>6, SumOfNone
        <3> QED BY <3>3, <3>7 DEF ShareOf
    <2> QED BY <2>1, <2>2
<1>7. PaidBack(after, k, m) = PaidBack(book, k, m) /\ PaidBack(book, k, m) \in Nat
    BY <1>1, OwingIs DEF PaidBack
<1>8. ShareOf(shares, k) \in Nat
    BY DEF ShareOf, AMeal
<1> HIDE DEF after, new, all, old, amount, here, before, added
<1>9. Owing(after, k, m) = Gross(all, k, m) - PaidBack(book, k, m)
    BY <1>1, <1>7 DEF Owing
<1>10. Owing(book, k, m) = Gross(old, k, m) - PaidBack(book, k, m)
    BY DEF Owing, old
<1>11. Gross(all, k, m) = Gross(old, k, m) + SumFunctionOnSet(amount, added)
    BY <1>3, <1>5
<1> QED BY <1>3, <1>6, <1>7, <1>8, <1>9, <1>10, <1>11 DEF after

(* A payment between members, and the ledger with it. *)
APaymentOf(from, to, amount) == from \in Members /\ to \in Members /\ from # to /\ amount \in Nat
RowOf(from, to, amount) == [frm |-> from, to |-> to, amount |-> amount, kind |-> "meal", ref |-> NoRef]
WithPayment(book, from, to, amount) == [book EXCEPT !.pays = Append(@, RowOf(from, to, amount))]

(* So is the ledger with a payment. *)
LEMMA BookWithPayment ==
    ASSUME NEW book, IsBook(book), NEW from, NEW to, NEW amount, APaymentOf(from, to, amount)
    PROVE  LET after == WithPayment(book, from, to, amount) IN
           /\ ABook(after) /\ after.edges = book.edges
           /\ OneMore(book.pays, after.pays, Len(book.pays) + 1)
           /\ after.pays[Len(book.pays) + 1] = RowOf(from, to, amount)
<1> DEFINE after == WithPayment(book, from, to, amount)
           Row == [frm : Members, to : Members, amount : Nat, kind : {"meal", "game"}, ref : Nat]
           n == Len(book.pays)
           row == RowOf(from, to, amount)
           S == Members
<1>1. after.edges = book.edges /\ after.pays = Append(book.pays, row)
    <2>1. book = [edges |-> book.edges, pays |-> book.pays]
        BY DEF IsBook
    <2> QED BY <2>1 DEF WithPayment
<1>2. ABook(book) /\ book.pays \in Seq(Row) /\ row \in Row
    BY BooksAre DEF APaymentOf, RowOf, NoRef
<1>3. \A p \in Row : p.amount \in Nat
    OBVIOUS
<1> HIDE DEF after, Row, row
<1>4. Append(book.pays, row) \in Seq(Row)
    BY <1>2, AppendProperties
<1>5. Payments(Append(book.pays, row))
    BY <1>3, <1>4, PaymentsInASequence
<1>6. n \in Nat /\ DOMAIN book.pays = 1..n /\ DOMAIN Append(book.pays, row) = 1..(n + 1)
      /\ (\A i \in 1..n : Append(book.pays, row)[i] = book.pays[i]) /\ Append(book.pays, row)[n + 1] = row
    <2>1. n \in Nat /\ DOMAIN book.pays = 1..n
        BY <1>2, LenProperties
    <2>2. /\ Len(Append(book.pays, row)) = n + 1
          /\ \A i \in 1..n : Append(book.pays, row)[i] = book.pays[i]
          /\ Append(book.pays, row)[n + 1] = row
        BY <1>2, AppendProperties
    <2>3. DOMAIN Append(book.pays, row) = 1..(n + 1)
        BY <1>4, <2>2, LenProperties
    <2> QED BY <2>1, <2>2, <2>3
<1>7. OneMore(book.pays, Append(book.pays, row), n + 1)
    <2> HIDE DEF n
    <2> QED BY <1>6 DEF OneMore
<1>8. ABook(after)
    BY <1>1, <1>2, <1>5 DEF ABook, ALedger
<1> QED BY <1>1, <1>6, <1>7, <1>8 DEF after, row

(* One pair owes the amount less. *)
LEMMA OwingAfterPayment ==
    ASSUME NEW book, IsBook(book), NEW from, NEW to, NEW amount, APaymentOf(from, to, amount), NEW k, NEW m
    PROVE  Owing(WithPayment(book, from, to, amount), k, m) =
             Owing(book, k, m) - IF k = from /\ m = to THEN amount ELSE 0
<1> DEFINE after == WithPayment(book, from, to, amount)
           old == book.pays
           more == after.pays
           i == Len(old) + 1
           ids == PairPayments(old, <<k, m>>)
           row == RowOf(from, to, amount)
<1>1. /\ ABook(after) /\ ABook(book) /\ after.edges = book.edges /\ OneMore(old, more, i) /\ more[i] = row
    BY BookWithPayment, BooksAre
<1>2. Payments(old) /\ Payments(more) /\ ids \in SUBSET DOMAIN old
    BY <1>1 DEF ABook, ALedger, PairPayments
<1>3. row.frm = from /\ row.to = to /\ row.amount = amount /\ amount \in Nat
    BY DEF RowOf, APaymentOf
<1>4. PairPayments(more, <<k, m>>) = IF k = from /\ m = to THEN ids \cup {i} ELSE ids
    <2> HIDE DEF more, old, row, i
    <2> QED BY <1>1, <1>3 DEF OneMore, PairPayments, ids
<1>5. AmountOf(more, ids) = AmountOf(old, ids) /\ AmountOf(more, ids \cup {i}) = AmountOf(old, ids) + amount
    <2> HIDE DEF more, old, row, i, ids
    <2>1. AmountOf(more, ids) = AmountOf(old, ids) /\ AmountOf(more, ids \cup {i}) = AmountOf(old, ids) + more[i].amount
        BY <1>1, <1>2, AmountWithOneMore
    <2> QED BY <1>1, <1>3, <2>1
<1>6. /\ PaidBack(after, k, m) = AmountOf(more, PairPayments(more, <<k, m>>))
      /\ PaidBack(book, k, m) = AmountOf(old, ids)
    BY DEF PaidBack
<1>7. PaidBack(after, k, m) = PaidBack(book, k, m) + IF k = from /\ m = to THEN amount ELSE 0
    <2> HIDE DEF more, old, row, i, ids, after
    <2>1. CASE k = from /\ m = to
        BY <1>4, <1>5, <1>6, <2>1
    <2>2. CASE ~ (k = from /\ m = to)
        <3>1. PaidBack(after, k, m) = PaidBack(book, k, m)
            BY <1>4, <1>5, <1>6, <2>2
        <3>2. PaidBack(book, k, m) \in Nat
            BY <1>1, OwingIs
        <3> QED BY <2>2, <3>1, <3>2
    <2> QED BY <2>1, <2>2
<1>8. PaidBack(book, k, m) \in Nat /\ Gross(book.edges, k, m) \in Nat
    BY <1>1, OwingIs
<1> HIDE DEF after, row
<1>9. Owing(after, k, m) = Gross(book.edges, k, m) - PaidBack(after, k, m)
    BY <1>1 DEF Owing
<1>10. Owing(book, k, m) = Gross(book.edges, k, m) - PaidBack(book, k, m)
    BY DEF Owing
<1> QED BY <1>3, <1>7, <1>8, <1>9, <1>10 DEF after

-----------------------------------------------------------------------------
LEMMA SumOfOneEntry ==
    ASSUME NEW S, IsFiniteSet(S), NEW f, NEW s, f[s] \in Int, \A x \in S : f[x] \in Int /\ (x # s => f[x] = 0)
    PROVE  SumFunctionOnSet(f, S) = IF s \in S THEN f[s] ELSE 0
<1>1. CASE s \in S
    <2>1. {s} \in SUBSET S /\ \A x \in S \ {s} : f[x] = 0
        BY <1>1
    <2>2. SumFunctionOnSet(f, S) = SumFunctionOnSet(f, {s})
        BY <2>1, SumOfSupport
    <2>3. IsFiniteSet({s}) /\ (\A x \in {s} : f[x] \in Int) /\ s \in {s} /\ {s} \ {s} = {}
        BY FS_Singleton
    <2>4. SumFunctionOnSet(f, {s}) = f[s] + SumFunctionOnSet(f, {s} \ {s})
        BY <2>3, SumTakesOut
    <2> QED BY <1>1, <2>2, <2>3, <2>4, SumOfNone
<1>2. CASE s \notin S
    <2>1. {} \in SUBSET S /\ \A x \in S \ {} : f[x] = 0
        BY <1>2
    <2>2. SumFunctionOnSet(f, S) = SumFunctionOnSet(f, {})
        BY <2>1, SumOfSupport
    <2> QED BY <1>2, <2>2, SumOfNone
<1> QED BY <1>1, <1>2

(* The shares of everyone, those who were not there included. *)
LEMMA SharesInAll ==
    ASSUME NEW payer, NEW shares, AMeal(payer, shares)
    PROVE  /\ SumFunctionOnSet([k \in Members |-> ShareOf(shares, k)], Members) = Total(shares)
           /\ Total(shares) \in Nat
<1> DEFINE s == [k \in Members |-> ShareOf(shares, k)]
           D == DOMAIN shares
<1>1. IsFiniteSet(Members) /\ IsFiniteSet(D) /\ D \in SUBSET Members
    BY NoneIsNothing, FS_Subset DEF AMeal
<1>2. (\A k \in Members : s[k] \in Int) /\ (\A k \in Members \ D : s[k] = 0)
      /\ (\A k \in D : s[k] = shares[k] /\ s[k] \in Int /\ shares[k] \in Nat)
    BY <1>1 DEF ShareOf, AMeal
<1>3. Total(shares) = SumFunctionOnSet(shares, D)
    BY DEF Total, SumFunction
<1> HIDE DEF s, D
<1>4. SumFunctionOnSet(s, Members) = SumFunctionOnSet(s, D)
    BY <1>1, <1>2, SumOfSupport
<1>5. SumFunctionOnSet(s, D) = SumFunctionOnSet(shares, D)
    BY <1>1, <1>2, SumOfSame
<1>6. SumFunctionOnSet(shares, D) \in Nat
    BY <1>1, <1>2, SumIsNatural
<1> QED BY <1>3, <1>4, <1>5, <1>6 DEF s

(* A meal moves the balances by its shares: to the payer from everyone else. *)
LEMMA MealMovesBalances ==
    ASSUME NEW book, IsBook(book), NEW payer, NEW shares, AMeal(payer, shares),
           NoAdvance(book), NoAdvance(WithMeal(book, payer, shares)), NEW m \in Members
    PROVE  /\ BalanceOf(book, m) \in Int
           /\ BalanceOf(WithMeal(book, payer, shares), m) =
                BalanceOf(book, m) - ShareOf(shares, m) + IF m = payer THEN Total(shares) ELSE 0
<1> DEFINE after == WithMeal(book, payer, shares)
           in(k) == IF m = payer /\ k # payer THEN ShareOf(shares, k) ELSE 0
           out(k) == IF k = payer /\ m # payer THEN ShareOf(shares, m) ELSE 0
           d == [k \in Members |-> in(k) - out(k)]
           s == [k \in Members |-> ShareOf(shares, k)]
<1>1. ABook(book) /\ ABook(after) /\ payer \in Members /\ IsFiniteSet(Members)
    BY BooksAre, BookWithMeal, NoneIsNothing DEF AMeal
<1>2. \A k : ShareOf(shares, k) \in Nat
    BY DEF ShareOf, AMeal
<1>3. \A k \in Members : d[k] \in Int /\ d[k] = in(k) - out(k)
    BY <1>2
<1>4. \A k \in Members : NetWith(after, m)[k] = NetWith(book, m)[k] + d[k]
    <2> SUFFICES ASSUME NEW k \in Members
                 PROVE  NetWith(after, m)[k] = NetWith(book, m)[k] + d[k]
        OBVIOUS
    <2>1. Owing(after, k, m) = Owing(book, k, m) + in(k)
        BY OwingAfterMeal
    <2>2. Owing(after, m, k) = Owing(book, m, k) + out(k)
        BY OwingAfterMeal
    <2>3. Owing(book, k, m) \in Int /\ Owing(book, m, k) \in Int /\ in(k) \in Int /\ out(k) \in Int
        BY <1>1, <1>2, OwingIs
    <2>4. /\ NetWith(after, m)[k] = Owing(after, k, m) - Owing(after, m, k)
          /\ NetWith(book, m)[k] = Owing(book, k, m) - Owing(book, m, k)
        BY DEF NetWith
    <2> HIDE DEF after, in, out, d
    <2> QED BY <1>3, <2>1, <2>2, <2>3, <2>4
<1>5. BalanceOf(after, m) = BalanceOf(book, m) + SumFunctionOnSet(d, Members) /\ BalanceOf(book, m) \in Int
    <2> HIDE DEF d, after
    <2>1. NoAdvance(after)
        BY DEF after
    <2> QED BY <1>1, <1>3, <1>4, <2>1, BalanceMoves
<1>6. SumFunctionOnSet(d, Members) = (IF m = payer THEN Total(shares) ELSE 0) - ShareOf(shares, m)
    <2>1. CASE m = payer
        <3>1. \A k \in Members : s[k] \in Int /\ d[k] \in Int /\ (k # payer => d[k] = s[k])
            BY <1>2, <2>1
        <3>2. d[payer] = 0 /\ s[payer] = ShareOf(shares, m) /\ s[payer] \in Nat
            BY <1>1, <1>2, <2>1
        <3>3. SumFunctionOnSet(s, Members) = Total(shares) /\ Total(shares) \in Nat
            BY SharesInAll
        <3> HIDE DEF d, s
        <3>4. SumFunctionOnSet(d, Members) = SumFunctionOnSet(s, Members) + (IF payer \in Members THEN d[payer] - s[payer] ELSE 0)
            BY <1>1, <3>1, SumWithOneChanged
        <3> QED BY <1>1, <2>1, <3>2, <3>3, <3>4
    <2>2. CASE m # payer
        <3>1. \A k \in Members : d[k] \in Int /\ (k # payer => d[k] = 0)
            BY <1>2, <2>2
        <3>2. d[payer] = 0 - ShareOf(shares, m) /\ d[payer] \in Int
            BY <1>1, <1>2, <2>2
        <3> HIDE DEF d
        <3>3. SumFunctionOnSet(d, Members) = IF payer \in Members THEN d[payer] ELSE 0
            BY <1>1, <3>1, <3>2, SumOfOneEntry
        <3>4. ShareOf(shares, m) \in Nat
            BY <1>2
        <3> QED BY <1>1, <2>2, <3>2, <3>3, <3>4
    <2> QED BY <2>1, <2>2
<1>7. Total(shares) \in Nat /\ ShareOf(shares, m) \in Nat
    BY <1>2, SharesInAll
<1> HIDE DEF after, d
<1>8. BalanceOf(after, m) = BalanceOf(book, m) - ShareOf(shares, m) + IF m = payer THEN Total(shares) ELSE 0
    BY <1>5, <1>6, <1>7
<1> QED BY <1>5, <1>8 DEF after

(* A payment moves the balances of the two by its amount. *)
LEMMA PaymentMovesBalances ==
    ASSUME NEW book, IsBook(book), NEW from, NEW to, NEW amount, APaymentOf(from, to, amount),
           NoAdvance(book), NoAdvance(WithPayment(book, from, to, amount)), NEW m \in Members
    PROVE  /\ BalanceOf(book, m) \in Int
           /\ BalanceOf(WithPayment(book, from, to, amount), m) =
                BalanceOf(book, m) + IF m = from THEN amount ELSE IF m = to THEN -amount ELSE 0
<1> DEFINE after == WithPayment(book, from, to, amount)
           in(k) == IF k = from /\ m = to THEN amount ELSE 0
           out(k) == IF m = from /\ k = to THEN amount ELSE 0
           d == [k \in Members |-> out(k) - in(k)]
           other == IF m = from THEN to ELSE from
<1>1. ABook(book) /\ ABook(after) /\ from \in Members /\ to \in Members /\ from # to /\ amount \in Nat /\ IsFiniteSet(Members)
    BY BooksAre, BookWithPayment, NoneIsNothing DEF APaymentOf
<1>2. \A k \in Members : d[k] \in Int /\ d[k] = out(k) - in(k) /\ in(k) \in Int /\ out(k) \in Int
    BY <1>1
<1>3. \A k \in Members : NetWith(after, m)[k] = NetWith(book, m)[k] + d[k]
    <2> SUFFICES ASSUME NEW k \in Members
                 PROVE  NetWith(after, m)[k] = NetWith(book, m)[k] + d[k]
        OBVIOUS
    <2>1. Owing(after, k, m) = Owing(book, k, m) - in(k)
        BY OwingAfterPayment
    <2>2. Owing(after, m, k) = Owing(book, m, k) - out(k)
        BY OwingAfterPayment
    <2>3. Owing(book, k, m) \in Int /\ Owing(book, m, k) \in Int
        BY <1>1, OwingIs
    <2>4. /\ NetWith(after, m)[k] = Owing(after, k, m) - Owing(after, m, k)
          /\ NetWith(book, m)[k] = Owing(book, k, m) - Owing(book, m, k)
        BY DEF NetWith
    <2> HIDE DEF after, in, out, d
    <2> QED BY <1>2, <2>1, <2>2, <2>3, <2>4
<1>4. BalanceOf(after, m) = BalanceOf(book, m) + SumFunctionOnSet(d, Members) /\ BalanceOf(book, m) \in Int
    <2> HIDE DEF d, after
    <2>1. NoAdvance(after)
        BY DEF after
    <2> QED BY <1>1, <1>2, <1>3, <2>1, BalanceMoves
<1>5. SumFunctionOnSet(d, Members) = IF m = from THEN amount ELSE IF m = to THEN -amount ELSE 0
    <2>1. \A k \in Members : d[k] \in Int /\ (k # other => d[k] = 0)
        BY <1>1
    <2>2. d[other] = (IF m = from THEN amount ELSE IF m = to THEN -amount ELSE 0) /\ d[other] \in Int /\ other \in Members
        BY <1>1
    <2> HIDE DEF d, other
    <2>3. SumFunctionOnSet(d, Members) = IF other \in Members THEN d[other] ELSE 0
        BY <1>1, <2>1, <2>2, SumOfOneEntry
    <2> QED BY <2>2, <2>3
<1> HIDE DEF after, d
<1>6. BalanceOf(after, m) = BalanceOf(book, m) + IF m = from THEN amount ELSE IF m = to THEN -amount ELSE 0
    BY <1>4, <1>5
<1> QED BY <1>4, <1>6 DEF after
-----------------------------------------------------------------------------
(* What the tools answer to a proposal on a ledger. *)
LEMMA AnsweredMeal ==
    ASSUME NEW a, IsMeal(a), ProposeMeal(a).ok
    PROVE  LET r == ProposeMeal(a) IN
           r.type = "expense_draft" /\ AMeal(r.payer, r.shares)
             /\ \A book : Confirmed(r, book) = WithMeal(book, r.payer, r.shares)
<1> DEFINE r == ProposeMeal(a)
<1>1. r.type = "expense_draft" /\ r.payer \in Members
    BY ProposedMeal, MealIs DEF IsDraft
<1>2. DOMAIN r.shares \in SUBSET Members /\ \A k \in DOMAIN r.shares : r.shares[k] \in Nat
    BY ProposedMeal, SharesAre
<1> HIDE DEF r
<1>3. \A book : Confirmed(r, book) = WithMeal(book, r.payer, r.shares)
    BY <1>1 DEF Confirmed, WithMeal, MealEdges
<1> QED BY <1>1, <1>2, <1>3 DEF AMeal, r

LEMMA AnsweredPayment ==
    ASSUME NEW a, IsPayment(a), NEW book, IsBook(book), ProposePayment(a, book).ok,
           ProposePayment(a, book).type # "unsettled"
    PROVE  LET r == ProposePayment(a, book) IN
           r.type = "payment_draft" /\ APaymentOf(r.from, r.to, r.amount)
             /\ Confirmed(r, book) = WithPayment(book, r.from, r.to, r.amount)
<1> DEFINE r == ProposePayment(a, book)
           from == IF Given(a.from) THEN a.from ELSE Sender
           amount == IF Given(a.amount) THEN a.amount ELSE OwesNow(book, from, a.to)
           draft == [ok |-> TRUE, type |-> "payment_draft", from |-> from, to |-> a.to, amount |-> amount]
<1>1. from \in Members /\ (Given(a.to) => a.to \in Members) /\ (Given(a.amount) => a.amount \in Nat)
    BY NoneIsNothing DEF IsPayment, Given
<1>2. Given(a.to) /\ from # a.to
    <2>1. ~ (Given(a.to) /\ from # a.to) => r = Refusal
        BY DEF ProposePayment
    <2> QED BY <2>1 DEF Refusal
<1>3. r = draft
    <2>1. r = draft \/ r = [ok |-> TRUE, type |-> "unsettled"]
        BY <1>2 DEF ProposePayment
    <2> HIDE DEF r, draft
    <2> QED BY <2>1 DEF r
<1>4. amount \in Nat
    <2>1. OwesNow(book, from, a.to) = Positive(Owing(book, from, a.to)) /\ Owing(book, from, a.to) \in Int
        <3>1. ABook(book)
            BY BooksAre
        <3> HIDE DEF from
        <3>2. ALedger(book.edges, book.pays)
            BY <3>1 DEF ABook
        <3>3. OwesNow(book, from, a.to) = Positive(Owing(book, from, a.to))
            BY <3>2, PairIsSettled DEF OwesNow, Owing, PaidBack
        <3> QED BY <3>1, <3>3, OwingIs
    <2> HIDE DEF from
    <2>2. OwesNow(book, from, a.to) \in Nat
        BY <2>1 DEF Positive
    <2> QED BY <1>1, <2>2
<1> HIDE DEF from, amount
<1>5. r.type = "payment_draft" /\ r.from = from /\ r.to = a.to /\ r.amount = amount
    BY <1>3
<1> HIDE DEF r, draft
<1>6. APaymentOf(r.from, r.to, r.amount)
    BY <1>1, <1>2, <1>4, <1>5 DEF APaymentOf
<1>7. Confirmed(r, book) = WithPayment(book, r.from, r.to, r.amount)
    BY <1>5 DEF Confirmed, WithPayment, RowOf
<1> QED BY <1>5, <1>6, <1>7 DEF r

(* Confirming a draft moves every balance by what the grader expects of it. *)
LEMMA DraftMovesBalances ==
    ASSUME NEW p, IsProposal(p.tool, p.args), NEW book, IsBook(book),
           Answer(p, book).ok, Answer(p, book).type # "unsettled",
           NoAdvance(book), NoAdvance(Confirmed(Answer(p, book), book)), NEW m \in Members
    PROVE  BalanceOf(Confirmed(Answer(p, book), book), m) = BalanceOf(book, m) + Delta(Answer(p, book), m)
<1> DEFINE r == Answer(p, book)
           after == Confirmed(r, book)
<1>1. CASE p.tool = "propose_meal"
    <2>1. IsMeal(p.args) /\ r = ProposeMeal(p.args)
        BY <1>1 DEF IsProposal, Answer
    <2>2. r.type = "expense_draft" /\ AMeal(r.payer, r.shares) /\ after = WithMeal(book, r.payer, r.shares)
        BY <2>1, AnsweredMeal
    <2>3. NoAdvance(after)
        OBVIOUS
    <2> HIDE DEF r, after
    <2>4. /\ BalanceOf(book, m) \in Int
          /\ BalanceOf(after, m) = BalanceOf(book, m) - ShareOf(r.shares, m) + IF m = r.payer THEN Total(r.shares) ELSE 0
        BY <2>2, <2>3, MealMovesBalances
    <2>5. ShareOf(r.shares, m) \in Nat /\ Total(r.shares) \in Nat
        BY <2>2, SharesInAll DEF ShareOf, AMeal
    <2>6. Delta(r, m) = (IF m \in DOMAIN r.shares THEN -r.shares[m] ELSE 0) + (IF m = r.payer THEN Total(r.shares) ELSE 0)
        BY <2>2 DEF Delta
    <2>7. (IF m \in DOMAIN r.shares THEN -r.shares[m] ELSE 0) = 0 - ShareOf(r.shares, m)
        BY <2>5 DEF ShareOf
    <2>8. BalanceOf(after, m) = BalanceOf(book, m) + Delta(r, m)
        BY <2>4, <2>5, <2>6, <2>7
    <2> QED BY <2>8 DEF r, after
<1>2. CASE p.tool # "propose_meal"
    <2>1. IsPayment(p.args) /\ r = ProposePayment(p.args, book)
        BY <1>2 DEF IsProposal, Answer
    <2>2. r.type = "payment_draft" /\ APaymentOf(r.from, r.to, r.amount) /\ after = WithPayment(book, r.from, r.to, r.amount)
        BY <2>1, AnsweredPayment
    <2>3. NoAdvance(after)
        OBVIOUS
    <2> HIDE DEF r, after
    <2>4. BalanceOf(after, m) = BalanceOf(book, m) + IF m = r.from THEN r.amount ELSE IF m = r.to THEN -r.amount ELSE 0
        BY <2>2, <2>3, PaymentMovesBalances
    <2>5. Delta(r, m) = IF m = r.from THEN r.amount ELSE IF m = r.to THEN -r.amount ELSE 0
        BY <2>2 DEF Delta
    <2> QED BY <2>4, <2>5 DEF r, after
<1> QED BY <1>1, <1>2

-----------------------------------------------------------------------------
(* The turns that are graded. *)
Turned(t) ==
    /\ IsProposal(t.tool, t.want) /\ IsBook(t.book) /\ Stated(t)
    /\ t.made \in Seq(ToSet(t.made)) /\ t.made # <<>>
    /\ \A i \in DOMAIN t.made : IsProposal(t.made[i].tool, t.made[i].args)

(* The calls of a turn are its proposals, each with its answer. *)
LEMMA CallsAre ==
    ASSUME NEW t, Turned(t)
    PROVE  /\ Len(t.made) \in Nat \ {0} /\ DOMAIN CallsOfTurn(t) = 1..Len(t.made)
           /\ Len(CallsOfTurn(t)) = Len(t.made)
           /\ \A i \in 1..Len(t.made) :
                /\ IsProposal(t.made[i].tool, t.made[i].args)
                /\ CallsOfTurn(t)[i] = [tool |-> t.made[i].tool, args |-> t.made[i].args, result |-> Answer(t.made[i], t.book)]
<1>1. Len(t.made) \in Nat /\ DOMAIN t.made = 1..Len(t.made)
    BY LenProperties DEF Turned
<1>2. Len(t.made) # 0
    BY EmptySeq DEF Turned
<1> DEFINE OneCall(i) == [tool |-> t.made[i].tool, args |-> t.made[i].args, result |-> Answer(t.made[i], t.book)]
           all == {OneCall(i) : i \in 1..Len(t.made)}
           made == [i \in 1..Len(t.made) |-> OneCall(i)]
<1>3. CallsOfTurn(t) = made
    BY <1>1 DEF CallsOfTurn
<1>4. Len(made) = Len(t.made)
    <2>1. made \in [1..Len(t.made) -> all]
        OBVIOUS
    <2> HIDE DEF made, all
    <2> QED BY <1>1, <2>1, ASequence
<1>5. \A i \in 1..Len(t.made) : IsProposal(t.made[i].tool, t.made[i].args)
    BY <1>1 DEF Turned
<1> QED BY <1>1, <1>2, <1>3, <1>4, <1>5

(* The last call of some tools is a call of one of them. *)
LEMMA LastOfIs ==
    ASSUME NEW made, NEW n \in Nat, DOMAIN made = 1..n, NEW tools, CallsOf(made, tools) # {}
    PROVE  \E i \in 1..n : /\ LastOf(made, tools) = made[i] /\ made[i].tool \in tools
                           /\ \A j \in 1..n : made[j].tool \in tools => j <= i
<1> DEFINE S == CallsOf(made, tools)
<1>1. S \in SUBSET (0..n) /\ \A i \in S : i \in 1..n /\ made[i].tool \in tools
    BY DEF CallsOf
<1>2. \A j \in 1..n : made[j].tool \in tools => j \in S
    BY DEF CallsOf
<1> HIDE DEF S
<1>3. Max(S) \in S /\ \A k \in S : k <= Max(S)
    BY <1>1, GreatestIsThere DEF S
<1>4. LastOf(made, tools) = made[Max(S)]
    BY DEF LastOf, S
<1> QED BY <1>1, <1>2, <1>3, <1>4

(* What a graded turn is, before and after. *)
Graded(t) ==
    /\ case = CaseOf(t) /\ calls = CallsOfTurn(t) /\ error = t.error
    /\ grades.done \/ grades.tools \/ grades.ledger =>
         grades = [done |-> TRUE, tools |-> ToolSelection(case, calls, error), ledger |-> LedgerState(case, calls, error)]
JudgingInv == part = "judging" => \E t : Turned(t) /\ Graded(t)

LEMMA CaseIs ==
    ASSUME NEW t, Graded(t)
    PROVE  /\ case.tool = t.tool /\ case.forbidden = t.forbidden /\ case.want = t.want /\ case.ledger = t.book
           /\ case.shares = (IF t.tool = "propose_meal" THEN Wanted(t).shares ELSE None)
BY DEF Graded, CaseOf

(* A pass on the arguments is the money expected. *)
LEMMA ArgumentsPass ==
    ASSUME NEW t, Turned(t), Graded(t)
    PROVE  ArgumentsAreTheMoney
<1> DEFINE judged == LastOf(calls, {case.tool})
           draft == judged.result
<1> SUFFICES ASSUME grades.tools
             PROVE  /\ case.forbidden => \A i \in DOMAIN calls : calls[i].tool = case.tool => ~calls[i].result.ok
                    /\ ~case.forbidden /\ case.tool = "propose_payment" =>
                         draft.ok /\ draft.type = "payment_draft" /\ draft.from = case.want.from
                           /\ draft.to = case.want.to /\ draft.amount = case.want.amount
                    /\ ~case.forbidden /\ case.tool = "propose_meal" =>
                         (Complete(case.want) /\ draft.ok /\ Even(case.want) /\ Even(judged.args) =>
                            draft.shares = case.shares /\ draft.payer = case.want.payer)
    BY DEF ArgumentsAreTheMoney
<1>1. ToolSelection(case, calls, error)
    BY DEF Graded
<1>2. /\ case.tool = t.tool /\ case.forbidden = t.forbidden /\ case.want = t.want /\ case.ledger = t.book
      /\ case.shares = (IF t.tool = "propose_meal" THEN Wanted(t).shares ELSE None)
    BY CaseIs
<1>3. CASE case.forbidden
    BY <1>1, <1>3 DEF ToolSelection, Acted
<1>4. CASE ~case.forbidden
    <2>1. CallsOf(calls, {case.tool}) # {} /\ Agrees(judged, case.want)
        BY <1>1, <1>4 DEF ToolSelection
    <2>2. /\ DOMAIN calls = 1..Len(t.made) /\ Len(t.made) \in Nat
          /\ \A i \in 1..Len(t.made) :
               /\ IsProposal(t.made[i].tool, t.made[i].args)
               /\ calls[i] = [tool |-> t.made[i].tool, args |-> t.made[i].args, result |-> Answer(t.made[i], t.book)]
        BY CallsAre DEF Graded
    <2>3. PICK i \in 1..Len(t.made) : judged = calls[i] /\ calls[i].tool \in {case.tool}
        BY <2>1, <2>2, LastOfIs
    <2> DEFINE p == t.made[i]
    <2>4. /\ judged = [tool |-> t.tool, args |-> p.args, result |-> Answer(p, t.book)]
          /\ p.tool = t.tool /\ IsProposal(t.tool, p.args)
        <3> HIDE DEF judged
        <3>1. calls[i] = [tool |-> p.tool, args |-> p.args, result |-> Answer(p, t.book)] /\ IsProposal(p.tool, p.args)
            BY <2>2
        <3> HIDE DEF p
        <3>2. p.tool = t.tool
            BY <1>2, <2>3, <3>1
        <3> QED BY <2>3, <3>1, <3>2
    <2>5. CASE t.tool = "propose_payment"
        <3>1. IsPayment(t.want) /\ IsPayment(p.args)
            BY <2>4, <2>5 DEF IsProposal, Turned
        <3>2. judged = PaymentCall(p.args, t.book)
            BY <2>4, <2>5 DEF PaymentCall, Answer
        <3>3. ProposePayment(t.want, t.book).ok /\ Given(t.want.from) /\ Given(t.want.to) /\ Given(t.want.amount)
            BY <2>5 DEF Turned, Stated, Wanted, Answer
        <3> HIDE DEF p
        <3>4. LET r == ProposePayment(p.args, t.book) IN
              r.ok /\ r.type = "payment_draft" /\ r.from = t.want.from /\ r.to = t.want.to /\ r.amount = t.want.amount
            BY <1>2, <2>1, <3>1, <3>2, <3>3, PaymentIsTheMoney
        <3>5. draft = ProposePayment(p.args, t.book)
            BY <3>2 DEF PaymentCall
        <3> HIDE DEF judged, draft
        <3> QED BY <1>2, <1>4, <2>5, <3>4, <3>5
    <2>6. CASE t.tool # "propose_payment"
        <3>1. t.tool = "propose_meal" /\ IsMeal(t.want) /\ IsMeal(p.args)
            BY <2>4, <2>6 DEF IsProposal, Turned
        <3>2. judged = MealCall(p.args)
            BY <2>4, <3>1 DEF MealCall, Answer
        <3>3. ProposeMeal(t.want).ok /\ Given(t.want.payer) /\ Wanted(t) = ProposeMeal(t.want)
            BY <3>1 DEF Turned, Stated, Wanted, Answer
        <3> HIDE DEF p
        <3>4. draft = ProposeMeal(p.args) /\ judged.args = p.args
            BY <3>2 DEF MealCall
        <3>5. Complete(t.want) /\ draft.ok /\ Even(t.want) /\ Even(p.args) =>
                draft.shares = ProposeMeal(t.want).shares /\ draft.payer = t.want.payer
            BY <1>2, <2>1, <3>1, <3>2, <3>3, <3>4, MealIsTheMoney
        <3> HIDE DEF judged, draft
        <3> QED BY <1>2, <1>4, <3>1, <3>3, <3>4, <3>5
    <2> QED BY <2>5, <2>6
<1> QED BY <1>3, <1>4

(* A pass on the ledger is the balances expected. *)
LEMMA TheLedgerPasses ==
    ASSUME NEW t, Turned(t), Graded(t)
    PROVE  ProjectionIsTheLedger
<1> DEFINE n == Len(t.made)
           p == t.made[n]
           draft == Answer(p, t.book)
           after == Confirmed(draft, t.book)
           mine == Given(case.shares) => draft.type = "expense_draft" /\ draft.shares = case.shares
<1>1. case.ledger = t.book
    BY CaseIs
<1>2. /\ DOMAIN calls = 1..n /\ n \in Nat \ {0} /\ Len(calls) = n /\ IsProposal(p.tool, p.args) /\ n \in 1..n
      /\ calls[n] = [tool |-> p.tool, args |-> p.args, result |-> draft]
      /\ \A i \in 1..n : calls[i].tool \in Drafts
    <2>1. /\ n \in Nat \ {0} /\ DOMAIN calls = 1..n /\ Len(calls) = n
          /\ \A i \in 1..n :
                /\ IsProposal(t.made[i].tool, t.made[i].args)
                /\ calls[i] = [tool |-> t.made[i].tool, args |-> t.made[i].args, result |-> Answer(t.made[i], t.book)]
        BY CallsAre DEF Graded
    <2>2. n \in 1..n
        <3> HIDE DEF n
        <3> QED BY <2>1
    <2>3. \A i \in 1..n : calls[i].tool \in Drafts
        <3> SUFFICES ASSUME NEW i \in 1..n
                     PROVE  calls[i].tool \in Drafts
            OBVIOUS
        <3>1. IsProposal(t.made[i].tool, t.made[i].args)
            BY <2>1
        <3>2. calls[i] = [tool |-> t.made[i].tool, args |-> t.made[i].args, result |-> Answer(t.made[i], t.book)]
            BY <2>1
        <3>3. calls[i].tool = t.made[i].tool
            BY <3>2
        <3> QED BY <3>1, <3>3 DEF IsProposal, Drafts
    <2> QED BY <2>1, <2>2, <2>3
<1>3. Last(calls) = calls[n]
    BY <1>2 DEF Last
<1>4. CallsOf(calls, Drafts) # {} /\ LastOf(calls, Drafts) = calls[n]
    <2>1. CallsOf(calls, Drafts) # {}
        BY <1>2 DEF CallsOf
    <2> HIDE DEF n
    <2>2. PICK i \in 1..n : LastOf(calls, Drafts) = calls[i] /\ \A j \in 1..n : calls[j].tool \in Drafts => j <= i
        BY <1>2, <2>1, LastOfIs
    <2>3. i = n
        BY <1>2, <2>2
    <2> QED BY <2>1, <2>2, <2>3
<1>5. Last(calls).result = draft /\ LastOf(calls, Drafts).result = draft
    BY <1>2, <1>3, <1>4
<1> SUFFICES ASSUME grades.done, ~error, draft.ok, draft.type # "unsettled", NoAdvance(t.book), NoAdvance(after)
             PROVE  grades.ledger <=> (\A m \in Members : BalanceOf(after, m) = case.balances[m]) /\ mine
    <2> HIDE DEF draft
    <2> QED BY <1>1, <1>5 DEF ProjectionIsTheLedger
<1>6. grades.ledger <=> LedgerState(case, calls, error)
    <2>1. grades = [done |-> TRUE, tools |-> ToolSelection(case, calls, error), ledger |-> LedgerState(case, calls, error)]
        BY DEF Graded
    <2>2. LedgerState(case, calls, error) \in BOOLEAN
        BY DEF LedgerState
    <2> QED BY <2>1, <2>2
<1>7. draft.type \in {"expense_draft", "payment_draft"}
    <2>1. CASE p.tool = "propose_meal"
        BY <1>2, <2>1, AnsweredMeal DEF Answer, IsProposal
    <2>2. CASE p.tool # "propose_meal"
        BY <1>2, <2>2, AnsweredPayment DEF Answer, IsProposal, Turned
    <2> QED BY <2>1, <2>2
<1>8. \A m \in Members : BalanceOf(after, m) = BalanceOf(t.book, m) + Delta(draft, m)
    <2> SUFFICES ASSUME NEW m \in Members
                 PROVE  BalanceOf(after, m) = BalanceOf(t.book, m) + Delta(draft, m)
        OBVIOUS
    <2>1. IsBook(t.book) /\ IsProposal(p.tool, p.args)
        BY <1>2 DEF Turned
    <2> HIDE DEF p
    <2> QED BY <2>1, DraftMovesBalances
<1> HIDE DEF draft, after
<1>9. LedgerState(case, calls, error) <=> (\A m \in Members : BalanceOf(t.book, m) + Delta(draft, m) = case.balances[m]) /\ mine
    BY <1>1, <1>4, <1>5, <1>7 DEF LedgerState
<1> QED BY <1>6, <1>8, <1>9

LEMMA JudgingStarts == Init => JudgingInv
<1> SUFFICES ASSUME Init, part = "judging"
             PROVE  \E t : Turned(t) /\ Graded(t)
    BY DEF JudgingInv
<1>1. GradingInit
    BY DEF Init
<1>2. PICK t \in Turns : Stated(t) /\ case = CaseOf(t) /\ calls = CallsOfTurn(t) /\ error = t.error
    BY <1>1 DEF GradingInit
<1>3. grades = Ungraded /\ ~grades.done /\ ~grades.tools /\ ~grades.ledger
    BY <1>1 DEF GradingInit, Ungraded
<1>4. Turned(t)
    BY <1>2, GradingAssumption DEF Turned
<1> QED BY <1>2, <1>3, <1>4 DEF Graded

LEMMA JudgingStepKeeps == JudgingInv /\ [Next]_vars => JudgingInv'
<1> SUFFICES ASSUME JudgingInv, [Next]_vars, part' = "judging"
             PROVE  (\E t : Turned(t) /\ Graded(t))'
    BY DEF JudgingInv
<1>1. part = "judging"
    BY DEF Next, vars
<1>2. PICK t : Turned(t) /\ Graded(t)
    BY <1>1 DEF JudgingInv
<1>3. UNCHANGED gradingVars \/ Grade
    BY <1>1 DEF Next, vars
<1>4. Graded(t)'
    <2>1. CASE UNCHANGED gradingVars
        BY <1>2, <2>1 DEF gradingVars, Graded, ToolSelection, LedgerState
    <2>2. CASE Grade
        BY <1>2, <2>2 DEF Grade, Graded, ToolSelection, LedgerState
    <2> QED BY <1>3, <2>1, <2>2
<1> QED BY <1>2, <1>4

(* For every expectation, turn, ledger and set of members: a turn that passes on its   *)
(* arguments is the money that was expected, and it passes on the ledger just when     *)
(* confirming its draft leaves every balance where the case says (ToolSelection of     *)
(* graders.py, LedgerState of the lunch ledger's eval.py).                             *)
THEOREM PassesAreAlwaysTheRightMoney == Spec => []APassIsTheRightMoney
<1>1. JudgingInv => APassIsTheRightMoney
    BY ArgumentsPass, TheLedgerPasses DEF JudgingInv, APassIsTheRightMoney, APassIsRight
<1> QED BY <1>1, JudgingStarts, JudgingStepKeeps, PTL DEF Spec
=============================================================================
