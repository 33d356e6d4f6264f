------------------------------ MODULE DebtProofs ------------------------------
(***************************************************************************)
(* What is true of the attribution of payments (module Debts) for every    *)
(* set of edges and every set of payments: the pool of a pair is never     *)
(* overdrawn, the money is poured oldest debt first, and where the money   *)
(* of one payment more goes.  The proofs of the ledgers built on it        *)
(* (MoneyProofs, CardsProofs) rest on this.                                *)
(***************************************************************************)
EXTENDS Debts, Lemmas

(* What the attribution needs of a ledger: one edge per pair and thing.    *)
AnEdge(e) ==
    /\ e.amount \in Nat /\ e.day \in Int /\ e.ref \in Nat \ {NoRef}
    /\ e.kind \in {"meal", "game"}
Distinct(edges) ==
    \A e, f \in edges :
        e.debtor = f.debtor /\ e.creditor = f.creditor /\ e.kind = f.kind /\ e.ref = f.ref => e = f
Payments(pays) == IsFiniteSet(DOMAIN pays) /\ \A i \in DOMAIN pays : pays[i].amount \in Nat
ALedger(edges, pays) ==
    IsFiniteSet(edges) /\ (\A e \in edges : AnEdge(e)) /\ Distinct(edges) /\ Payments(pays)

(* The edges of a pair are visited one after the other. *)
Line(E, before) ==
    /\ \A e \in E : <<e, e>> \notin before
    /\ \A e, f \in E : e # f => <<e, f>> \in before \/ <<f, e>> \in before
    /\ \A e, f, g \in E : <<e, f>> \in before /\ <<f, g>> \in before => <<e, g>> \in before

LEMMA LineHasAnEnd ==
    ASSUME NEW E, IsFiniteSet(E), NEW before, Line(E, before), NEW T \in SUBSET E, T # {}
    PROVE  \E m \in T : \A x \in T \ {m} : <<x, m>> \in before
<1> DEFINE Ends(U) == \E m \in U : \A x \in U \ {m} : <<x, m>> \in before
           G == {U \in SUBSET E : U # {} => Ends(U)}
<1>1. {} \in G
    OBVIOUS
<1>2. ASSUME NEW U \in SUBSET E, U # {}, \A x \in U : U \ {x} \in G
      PROVE  U \in G
    <2>1. PICK x \in U : TRUE
        BY <1>2
    <2>2. CASE U \ {x} = {}
        BY <2>1, <2>2
    <2>3. CASE U \ {x} # {}
        <3>1. PICK m \in U \ {x} : \A y \in (U \ {x}) \ {m} : <<y, m>> \in before
            BY <1>2, <2>1, <2>3
        <3>2. CASE <<x, m>> \in before
            BY <3>1, <3>2
        <3>3. CASE <<m, x>> \in before
            <4>1. \A y \in U \ {x} : <<y, x>> \in before
                BY <2>1, <3>1, <3>3 DEF Line
            <4> QED BY <2>1, <4>1
        <3> QED BY <2>1, <3>1, <3>2, <3>3 DEF Line
    <2> QED BY <2>2, <2>3
<1>3. \A U \in SUBSET E : U \in G
    <2> HIDE DEF G
    <2> QED BY <1>1, <1>2, EverySubset
<1> QED BY <1>3

(* A pool that fills one thing after the other gives all it has, or all that is asked. *)
LEMMA PoolIsPoured ==
    ASSUME NEW E, IsFiniteSet(E), NEW before, Line(E, before),
           NEW pool \in Nat, NEW rest, \A e \in E : rest[e] \in Nat,
           NEW taken,
           \A e \in E : taken[e] =
             Smaller(Positive(pool - SumFunctionOnSet(rest, {f \in E : <<f, e>> \in before})), rest[e])
    PROVE  SumFunctionOnSet(taken, E) = Smaller(pool, SumFunctionOnSet(rest, E))
<1> DEFINE Closed(T) == \A e \in T : \A f \in E : <<f, e>> \in before => f \in T
           Poured(T) == SumFunctionOnSet(taken, T) = Smaller(pool, SumFunctionOnSet(rest, T))
           G == {T \in SUBSET E : Closed(T) => Poured(T)}
<1>1. \A T \in SUBSET E : IsFiniteSet(T) /\ SumFunctionOnSet(rest, T) \in Nat
    <2> TAKE T \in SUBSET E
    <2>1. IsFiniteSet(T) /\ \A e \in T : rest[e] \in Nat
        BY FS_Subset
    <2> QED BY <2>1, SumIsNatural
<1>2. \A e \in E : taken[e] \in Nat
    <2> TAKE e \in E
    <2> DEFINE ahead == SumFunctionOnSet(rest, {f \in E : <<f, e>> \in before})
    <2>1. ahead \in Nat /\ rest[e] \in Nat /\ taken[e] = Smaller(Positive(pool - ahead), rest[e])
        BY <1>1
    <2> HIDE DEF ahead
    <2> QED BY <2>1 DEF Smaller, Positive
<1>3. {} \in G
    <2>1. Poured({})
        BY SumOfNone DEF Smaller
    <2> QED BY <2>1
<1>4. ASSUME NEW T \in SUBSET E, T # {}, \A x \in T : T \ {x} \in G
      PROVE  T \in G
    <2> SUFFICES ASSUME Closed(T) PROVE Poured(T)
        OBVIOUS
    <2>1. PICK m \in T : \A x \in T \ {m} : <<x, m>> \in before
        BY <1>4, LineHasAnEnd
    <2> DEFINE R == T \ {m}
    <2>2. R = {f \in E : <<f, m>> \in before}
        BY <2>1 DEF Line
    <2>3. Closed(R)
        BY <2>1 DEF Line
    <2>4. Poured(R)
        BY <1>4, <2>3
    <2>5. SumFunctionOnSet(rest, T) = rest[m] + SumFunctionOnSet(rest, R)
        BY <1>1, SumTakesOut
    <2>6. SumFunctionOnSet(taken, T) = taken[m] + SumFunctionOnSet(taken, R)
        BY SMTT(20), <1>1, <1>2, SumTakesOut
    <2>7. taken[m] = Smaller(Positive(pool - SumFunctionOnSet(rest, R)), rest[m])
        BY <2>2
    <2>8. SumFunctionOnSet(rest, R) \in Nat /\ rest[m] \in Nat
        BY <1>1
    <2> HIDE DEF R
    <2> QED BY <2>4, <2>5, <2>6, <2>7, <2>8 DEF Smaller, Positive
<1>5. \A T \in SUBSET E : T \in G
    <2> HIDE DEF G
    <2> QED BY <1>3, <1>4, EverySubset
<1> QED BY <1>5
-----------------------------------------------------------------------------
(* The amounts of payments, as one function. *)
AmountsOf(pays) == [i \in DOMAIN pays |-> pays[i].amount]

LEMMA AmountIs ==
    ASSUME NEW pays, Payments(pays), NEW ids \in SUBSET DOMAIN pays
    PROVE  AmountOf(pays, ids) = SumFunctionOnSet(AmountsOf(pays), ids) /\ AmountOf(pays, ids) \in Nat
<1> DEFINE here == [i \in ids |-> pays[i].amount]
<1>1. IsFiniteSet(ids)
    BY FS_Subset DEF Payments
<1>2. \A i \in ids : here[i] \in Nat /\ here[i] \in Int /\ here[i] = AmountsOf(pays)[i]
    BY DEF Payments, AmountsOf
<1>3. AmountOf(pays, ids) = SumFunctionOnSet(here, ids)
    BY DEF AmountOf, SumFunction
<1> HIDE DEF here
<1> QED BY <1>1, <1>2, <1>3, SumOfSame, SumIsNatural

LEMMA MoreIdsMore ==
    ASSUME NEW pays, Payments(pays), NEW more \in SUBSET DOMAIN pays, NEW ids \in SUBSET more
    PROVE  AmountOf(pays, ids) <= AmountOf(pays, more)
<1>1. IsFiniteSet(more) /\ \A i \in more : AmountsOf(pays)[i] \in Int
    BY FS_Subset DEF Payments, AmountsOf
<1>2. SumFunctionOnSet(AmountsOf(pays), more)
        = SumFunctionOnSet(AmountsOf(pays), ids) + SumFunctionOnSet(AmountsOf(pays), more \ ids)
    BY <1>1, SumOfParts
<1>3. AmountOf(pays, more) = SumFunctionOnSet(AmountsOf(pays), more) /\ AmountOf(pays, more) \in Nat
    BY AmountIs
<1>4. AmountOf(pays, ids) = SumFunctionOnSet(AmountsOf(pays), ids) /\ AmountOf(pays, ids) \in Nat
    <2>1. ids \in SUBSET DOMAIN pays
        OBVIOUS
    <2> QED BY <2>1, AmountIs
<1>5. AmountOf(pays, more \ ids) = SumFunctionOnSet(AmountsOf(pays), more \ ids) /\ AmountOf(pays, more \ ids) \in Nat
    <2>1. more \ ids \in SUBSET DOMAIN pays
        OBVIOUS
    <2> QED BY <2>1, AmountIs
<1> QED BY <1>2, <1>3, <1>4, <1>5

(* The payments that name an edge. *)
Naming(pays, e) == {i \in DOMAIN pays : Names(pays[i], e)}

LEMMA StampedIs ==
    ASSUME NEW pays, Payments(pays), NEW e, AnEdge(e)
    PROVE  /\ Stamped(pays, e) \in Nat /\ Stamped(pays, e) = AmountOf(pays, Naming(pays, e))
           /\ Direct(pays, e) \in 0..e.amount /\ Direct(pays, e) <= Stamped(pays, e)
           /\ Rest(pays, e) \in 0..e.amount /\ Rest(pays, e) = e.amount - Direct(pays, e)
<1>1. Stamped(pays, e) \in Nat /\ Stamped(pays, e) = AmountOf(pays, Naming(pays, e))
    BY AmountIs DEF Stamped, Naming
<1> QED BY <1>1 DEF Direct, Rest, Smaller, AnEdge

(* What the edges of a pair take by name, the pair has paid. *)
LEMMA DirectFits ==
    ASSUME NEW edges, NEW pays, ALedger(edges, pays), NEW pair
    PROVE  LET here == PairEdges(edges, pair)
               direct == [e \in here |-> Direct(pays, e)]
           IN  /\ IsFiniteSet(here) /\ SumFunctionOnSet(direct, here) \in Nat
               /\ SumFunctionOnSet(direct, here) <= AmountOf(pays, PairPayments(pays, pair))
               /\ AmountOf(pays, PairPayments(pays, pair)) \in Nat
<1> DEFINE here == PairEdges(edges, pair)
           direct == [e \in here |-> Direct(pays, e)]
           named(T) == UNION {Naming(pays, e) : e \in T}
           Fits(T) == SumFunctionOnSet(direct, T) <= AmountOf(pays, named(T))
           G == {T \in SUBSET here : Fits(T)}
<1>1. IsFiniteSet(here) /\ Payments(pays) /\ here \subseteq edges
    BY FS_Subset DEF ALedger, PairEdges
<1>2. \A e \in here : direct[e] \in Nat /\ direct[e] \in Int /\ direct[e] <= Stamped(pays, e)
                      /\ Stamped(pays, e) = AmountOf(pays, Naming(pays, e)) /\ Stamped(pays, e) \in Nat
    BY <1>1, StampedIs DEF ALedger
<1>3. \A T \in SUBSET here : IsFiniteSet(T) /\ SumFunctionOnSet(direct, T) \in Nat
    <2> HIDE DEF direct, here
    <2> TAKE T \in SUBSET here
    <2>1. IsFiniteSet(T) /\ \A e \in T : direct[e] \in Nat
        BY <1>1, <1>2, FS_Subset
    <2> QED BY <2>1, SumIsNatural
<1>4. \A T : named(T) \in SUBSET DOMAIN pays
    BY DEF Naming
<1>5. {} \in G
    <2>1. SumFunctionOnSet(direct, {}) = 0
        BY SumOfNone
    <2>2. AmountOf(pays, named({})) \in Nat
        BY <1>1, <1>4, AmountIs
    <2> HIDE DEF direct, named
    <2> QED BY <2>1, <2>2
<1>6. ASSUME NEW T \in SUBSET here, T # {}, \A e \in T : T \ {e} \in G
      PROVE  T \in G
    <2>1. PICK e \in T : TRUE
        BY <1>6
    <2> DEFINE others == T \ {e}
    <2>2. SumFunctionOnSet(direct, T) = direct[e] + SumFunctionOnSet(direct, others)
        <3> HIDE DEF direct
        <3> QED BY <1>2, <1>3, <2>1, SumTakesOut
    <2>3. Naming(pays, e) \cap named(others) = {} /\ named(T) = Naming(pays, e) \cup named(others)
        <3>1. \A f \in others : Naming(pays, e) \cap Naming(pays, f) = {}
            <4> SUFFICES ASSUME NEW f \in others, NEW i \in DOMAIN pays, Names(pays[i], e), Names(pays[i], f)
                         PROVE  FALSE
                BY DEF Naming
            <4>1. e \in edges /\ f \in edges /\ e # f
                BY <1>1, <2>1
            <4> QED BY <4>1 DEF Names, SamePair, ALedger, Distinct
        <3> QED BY <2>1, <3>1
    <2> DEFINE both == AmountOf(pays, named(T))
               mine == AmountOf(pays, Naming(pays, e))
               theirs == AmountOf(pays, named(others))
    <2>4. both = mine + theirs /\ both \in Nat /\ mine \in Nat /\ theirs \in Nat
        <3> HIDE DEF named
        <3>1. named(T) \ Naming(pays, e) = named(others) /\ Naming(pays, e) \in SUBSET named(T)
            BY <2>3
        <3>2. /\ both = SumFunctionOnSet(AmountsOf(pays), named(T)) /\ both \in Nat
              /\ mine = SumFunctionOnSet(AmountsOf(pays), Naming(pays, e)) /\ mine \in Nat
              /\ theirs = SumFunctionOnSet(AmountsOf(pays), named(others)) /\ theirs \in Nat
            <4>1. Naming(pays, e) \in SUBSET DOMAIN pays
                BY DEF Naming
            <4> QED BY <1>1, <1>4, <4>1, AmountIs
        <3>3. IsFiniteSet(named(T)) /\ \A i \in named(T) : AmountsOf(pays)[i] \in Int
            BY <1>1, <1>4, FS_Subset DEF Payments, AmountsOf
        <3>4. SumFunctionOnSet(AmountsOf(pays), named(T))
                = SumFunctionOnSet(AmountsOf(pays), Naming(pays, e)) + SumFunctionOnSet(AmountsOf(pays), named(others))
            <4>1. SumFunctionOnSet(AmountsOf(pays), named(T))
                    = SumFunctionOnSet(AmountsOf(pays), Naming(pays, e))
                        + SumFunctionOnSet(AmountsOf(pays), named(T) \ Naming(pays, e))
                BY <3>1, <3>3, SumOfParts
            <4> QED BY <3>1, <4>1
        <3> HIDE DEF both, mine, theirs
        <3> QED BY <3>2, <3>4
    <2>5. SumFunctionOnSet(direct, others) <= theirs
        BY <1>6, <2>1
    <2>6. direct[e] \in Nat /\ direct[e] <= mine /\ SumFunctionOnSet(direct, others) \in Nat
        BY <1>2, <1>3, <2>1
    <2> HIDE DEF direct, others, both, mine, theirs
    <2>7. SumFunctionOnSet(direct, T) <= both
        BY <2>2, <2>4, <2>5, <2>6
    <2> QED BY <2>7 DEF both
<1>7. here \in G
    <2> HIDE DEF G, here
    <2>1. \A T \in SUBSET here : T \in G
        BY <1>1, <1>5, <1>6, EverySubset
    <2> QED BY <2>1
<1>8. named(here) \subseteq PairPayments(pays, pair)
    BY DEF Naming, Names, SamePair, PairEdges, PairPayments
<1>9. PairPayments(pays, pair) \in SUBSET DOMAIN pays
    BY DEF PairPayments
<1>10. /\ AmountOf(pays, named(here)) <= AmountOf(pays, PairPayments(pays, pair))
       /\ AmountOf(pays, PairPayments(pays, pair)) \in Nat /\ AmountOf(pays, named(here)) \in Nat
    <2> HIDE DEF named, here
    <2> QED BY <1>1, <1>4, <1>8, <1>9, MoreIdsMore, AmountIs
<1>11. SumFunctionOnSet(direct, here) \in Nat /\ Fits(here)
    BY <1>3, <1>7
<1> HIDE DEF named
<1>12. SumFunctionOnSet(direct, here) <= AmountOf(pays, PairPayments(pays, pair))
    <2> DEFINE a == SumFunctionOnSet(direct, here)
               b == AmountOf(pays, named(here))
    <2> HIDE DEF direct, here
    <2>1. a \in Nat /\ a <= b /\ b \in Nat
        BY <1>10, <1>11
    <2> HIDE DEF a, b
    <2> QED BY <1>10, <2>1 DEF a, b
<1> QED BY <1>1, <1>10, <1>11, <1>12
-----------------------------------------------------------------------------
(* The order of a pair's edges, and what each of them asks the pool for. *)
Order(edges, pair) == {p \in PairEdges(edges, pair) \X PairEdges(edges, pair) : Before(p[1], p[2])}
Asked(edges, pays, pair) == [f \in PairEdges(edges, pair) |-> Rest(pays, f)]

LEMMA EdgesAreALine ==
    ASSUME NEW edges, NEW pays, ALedger(edges, pays), NEW pair
    PROVE  Line(PairEdges(edges, pair), Order(edges, pair))
<1>1. \A e \in edges : AnEdge(e)
    BY DEF ALedger
<1>2. \A e \in edges : ~Before(e, e)
    BY <1>1 DEF AnEdge, Before
<1>3. \A e, f \in PairEdges(edges, pair) : e # f => Before(e, f) \/ Before(f, e)
    BY <1>1 DEF AnEdge, Before, PairEdges, ALedger, Distinct
<1>4. \A e, f, g \in edges : Before(e, f) /\ Before(f, g) => Before(e, g)
    BY <1>1 DEF AnEdge, Before
<1>5. \A e, f : <<e, f>> \in Order(edges, pair) <=>
                  e \in PairEdges(edges, pair) /\ f \in PairEdges(edges, pair) /\ Before(e, f)
    BY DEF Order
<1>6. \A e \in PairEdges(edges, pair) : e \in edges
    BY DEF PairEdges
<1> QED BY <1>2, <1>3, <1>4, <1>5, <1>6 DEF Line

LEMMA PoolIs ==
    ASSUME NEW edges, NEW pays, ALedger(edges, pays), NEW pair
    PROVE  LET here == PairEdges(edges, pair)
               direct == [e \in here |-> Direct(pays, e)]
           IN  /\ PairPool(edges, pays, pair) \in Nat
               /\ PairPool(edges, pays, pair) = AmountOf(pays, PairPayments(pays, pair)) - SumFunctionOnSet(direct, here)
<1> DEFINE here == PairEdges(edges, pair)
           direct == [e \in here |-> Direct(pays, e)]
<1>1. PairPool(edges, pays, pair) = AmountOf(pays, PairPayments(pays, pair)) - SumFunctionOnSet(direct, here)
    BY DEF PairPool, SumFunction
<1>2. /\ SumFunctionOnSet(direct, here) \in Nat
      /\ SumFunctionOnSet(direct, here) <= AmountOf(pays, PairPayments(pays, pair))
      /\ AmountOf(pays, PairPayments(pays, pair)) \in Nat
    BY DirectFits
<1> HIDE DEF direct, here
<1>3. PairPool(edges, pays, pair) \in Nat
    BY <1>1, <1>2
<1> QED BY <1>1, <1>3 DEF direct, here

(* apply_payments_fifo, edge by edge. *)
Poured(edges, pays, pair, e) ==
    Smaller(Positive(PairPool(edges, pays, pair)
                       - SumFunctionOnSet(Asked(edges, pays, pair),
                                          {f \in PairEdges(edges, pair) : <<f, e>> \in Order(edges, pair)})),
            Rest(pays, e))

LEMMA PaidIs ==
    ASSUME NEW edges, NEW pays, ALedger(edges, pays), NEW e \in edges
    PROVE  LET pair == <<e.debtor, e.creditor>> IN
           /\ e \in PairEdges(edges, pair)
           /\ Paid(edges, pays, e) = Direct(pays, e) + Poured(edges, pays, pair, e)
           /\ Poured(edges, pays, pair, e) \in 0..Rest(pays, e)
           /\ Outstanding(edges, pays)[e] = Rest(pays, e) - Poured(edges, pays, pair, e)
           /\ Outstanding(edges, pays)[e] \in 0..e.amount
<1> DEFINE pair == <<e.debtor, e.creditor>>
           here == PairEdges(edges, pair)
           asked == Asked(edges, pays, pair)
           ahead == Ahead(edges, e)
           asks == [f \in ahead |-> Rest(pays, f)]
<1>1. e \in here
    BY DEF PairEdges
<1>2. ahead = {f \in here : <<f, e>> \in Order(edges, pair)}
    BY <1>1 DEF Ahead, Order
<1>3. IsFiniteSet(ahead) /\ ahead \subseteq edges /\ ahead \subseteq here
    <2>1. ahead \subseteq here /\ here \subseteq edges
        BY DEF Ahead, PairEdges
    <2> QED BY <2>1, FS_Subset DEF ALedger
<1>4. \A f \in edges : Rest(pays, f) \in 0..f.amount /\ Rest(pays, f) = f.amount - Direct(pays, f)
                       /\ f.amount \in Nat /\ Direct(pays, f) \in 0..f.amount
    BY StampedIs DEF ALedger, AnEdge
<1>5. \A f \in ahead : asks[f] \in Int /\ asks[f] = asked[f] /\ asks[f] \in Nat
    BY <1>3, <1>4 DEF Asked
<1>6. SumFunctionOnSet(asks, ahead) = SumFunctionOnSet(asked, ahead) /\ SumFunctionOnSet(asks, ahead) \in Nat
    <2> HIDE DEF asks, asked, ahead
    <2> QED BY <1>3, <1>5, SumOfSame, SumIsNatural
<1>7. SumFunction(asks) = SumFunctionOnSet(asks, ahead)
    BY DEF SumFunction
<1> DEFINE left == PairPool(edges, pays, pair) - SumFunctionOnSet(asked, ahead)
<1>8. left \in Int
    <2>1. PairPool(edges, pays, pair) \in Nat
        BY PoolIs
    <2> HIDE DEF asked, ahead, asks, pair
    <2> QED BY <1>6, <2>1
<1>9. Paid(edges, pays, e) = Direct(pays, e) + Smaller(Positive(left), Rest(pays, e))
    BY <1>6, <1>7 DEF Paid
<1>10. Poured(edges, pays, pair, e) = Smaller(Positive(left), Rest(pays, e))
    BY <1>2 DEF Poured
<1> HIDE DEF left
<1>11. Poured(edges, pays, pair, e) \in 0..Rest(pays, e)
    BY <1>4, <1>8, <1>10 DEF Smaller, Positive
<1>12. Outstanding(edges, pays)[e] = e.amount - Paid(edges, pays, e)
    BY DEF Outstanding
<1>13. Paid(edges, pays, e) = Direct(pays, e) + Poured(edges, pays, pair, e)
    BY <1>9, <1>10
<1> DEFINE p == Poured(edges, pays, pair, e)
<1> HIDE DEF p
<1>14. p \in 0..Rest(pays, e) /\ Paid(edges, pays, e) = Direct(pays, e) + p
    BY <1>11, <1>13 DEF p
<1>15. Outstanding(edges, pays)[e] = Rest(pays, e) - p /\ Outstanding(edges, pays)[e] \in 0..e.amount
    BY <1>4, <1>12, <1>14
<1> QED BY <1>1, <1>11, <1>13, <1>15 DEF p

(* Of a pair, what is owed is what was lent less what was paid. *)
LEMMA PairIsSettled ==
    ASSUME NEW edges, NEW pays, ALedger(edges, pays), NEW debtor, NEW creditor
    PROVE  OwedOver(Outstanding(edges, pays), edges, debtor, creditor)
             = Positive(Gross(edges, debtor, creditor) - AmountOf(pays, PairPayments(pays, <<debtor, creditor>>)))
<1> DEFINE pair == <<debtor, creditor>>
           here == PairEdges(edges, pair)
           direct == [e \in here |-> Direct(pays, e)]
           lent == [e \in here |-> e.amount]
           asked == Asked(edges, pays, pair)
           taken == [e \in here |-> Poured(edges, pays, pair, e)]
           open == [e \in here |-> Outstanding(edges, pays)[e]]
           pool == PairPool(edges, pays, pair)
<1>1. here \subseteq edges /\ \A e \in here : pair = <<e.debtor, e.creditor>>
    BY DEF PairEdges
<1>2. \A e \in here :
        /\ direct[e] \in Nat /\ asked[e] \in Nat /\ lent[e] = direct[e] + asked[e]
        /\ taken[e] \in Nat /\ open[e] \in Int /\ asked[e] = taken[e] + open[e]
    <2> TAKE e \in here
    <2>1. AnEdge(e) /\ e \in edges /\ pair = <<e.debtor, e.creditor>>
        BY <1>1 DEF ALedger
    <2>2. /\ Direct(pays, e) \in 0..e.amount /\ Rest(pays, e) \in 0..e.amount
          /\ Rest(pays, e) = e.amount - Direct(pays, e) /\ e.amount \in Nat
        BY <2>1, StampedIs DEF ALedger, AnEdge
    <2>3. /\ Poured(edges, pays, pair, e) \in 0..Rest(pays, e)
          /\ Outstanding(edges, pays)[e] = Rest(pays, e) - Poured(edges, pays, pair, e)
        BY <2>1, PaidIs
    <2>4. /\ direct[e] = Direct(pays, e) /\ asked[e] = Rest(pays, e) /\ lent[e] = e.amount
          /\ taken[e] = Poured(edges, pays, pair, e) /\ open[e] = Outstanding(edges, pays)[e]
        BY DEF Asked
    <2> HIDE DEF direct, asked, lent, taken, open
    <2> QED BY <2>2, <2>3, <2>4
<1>3. IsFiniteSet(here)
    BY <1>1, FS_Subset DEF ALedger
<1>4. pool \in Nat /\ pool = AmountOf(pays, PairPayments(pays, pair)) - SumFunctionOnSet(direct, here)
    BY PoolIs
<1>5. SumFunctionOnSet(taken, here) = Smaller(pool, SumFunctionOnSet(asked, here))
    <2>1. \A e \in here : taken[e] =
            Smaller(Positive(pool - SumFunctionOnSet(asked, {f \in here : <<f, e>> \in Order(edges, pair)})), asked[e])
        BY DEF Poured, Asked
    <2>2. Line(here, Order(edges, pair))
        BY EdgesAreALine
    <2>3. \A e \in here : asked[e] \in Nat
        BY <1>2
    <2> HIDE DEF here, taken, asked, pool
    <2> QED BY <1>3, <1>4, <2>1, <2>2, <2>3, PoolIsPoured
<1>6. /\ OwedOver(Outstanding(edges, pays), edges, debtor, creditor) = SumFunctionOnSet(open, here)
      /\ Gross(edges, debtor, creditor) = SumFunctionOnSet(lent, here)
    BY DEF OwedOver, Gross, SumFunction
<1> HIDE DEF here, direct, lent, asked, taken, open
<1>7. SumFunctionOnSet(lent, here) = SumFunctionOnSet(direct, here) + SumFunctionOnSet(asked, here)
    BY <1>2, <1>3, SumOfTwo
<1>8. SumFunctionOnSet(asked, here) = SumFunctionOnSet(taken, here) + SumFunctionOnSet(open, here)
    BY <1>2, <1>3, SumOfTwo
<1>9. /\ SumFunctionOnSet(direct, here) \in Nat /\ SumFunctionOnSet(asked, here) \in Nat
      /\ SumFunctionOnSet(open, here) \in Int
    BY <1>2, <1>3, SumIsNatural, SumIsWhole
<1>10. AmountOf(pays, PairPayments(pays, pair)) \in Nat
    BY AmountIs DEF ALedger, PairPayments
<1> HIDE DEF pool
<1>11. SumFunctionOnSet(open, here) = Positive(SumFunctionOnSet(lent, here) - AmountOf(pays, PairPayments(pays, pair)))
    BY <1>4, <1>5, <1>7, <1>8, <1>9, <1>10 DEF Smaller, Positive
<1> QED BY <1>6, <1>11
-----------------------------------------------------------------------------
(* What the pool of its pair still holds when the loop comes to an edge. *)
PairOf(e) == <<e.debtor, e.creditor>>
AheadOf(edges, e) == {f \in PairEdges(edges, PairOf(e)) : <<f, e>> \in Order(edges, PairOf(e))}
Left(edges, pays, e) ==
    PairPool(edges, pays, PairOf(e)) - SumFunctionOnSet(Asked(edges, pays, PairOf(e)), AheadOf(edges, e))

(* The edges of a pair, as the sums see them. *)
LEMMA PairIs ==
    ASSUME NEW edges, NEW pays, ALedger(edges, pays), NEW e \in edges
    PROVE  /\ PairEdges(edges, PairOf(e)) \subseteq edges /\ AheadOf(edges, e) \subseteq PairEdges(edges, PairOf(e))
           /\ IsFiniteSet(PairEdges(edges, PairOf(e))) /\ IsFiniteSet(AheadOf(edges, e))
           /\ e \in PairEdges(edges, PairOf(e)) /\ e \notin AheadOf(edges, e)
           /\ \A f \in PairEdges(edges, PairOf(e)) :
                 /\ PairOf(f) = PairOf(e) /\ AnEdge(f) /\ f.amount \in Nat
                 /\ Asked(edges, pays, PairOf(e))[f] = Rest(pays, f) /\ Rest(pays, f) \in 0..f.amount
                 /\ Rest(pays, f) = f.amount - Direct(pays, f) /\ Direct(pays, f) \in 0..f.amount
<1> DEFINE here == PairEdges(edges, PairOf(e))
           ahead == AheadOf(edges, e)
<1>1. here \subseteq edges /\ e \in here /\ ahead \subseteq here
    BY DEF PairEdges, PairOf, AheadOf
<1>2. IsFiniteSet(here) /\ IsFiniteSet(ahead)
    <2> HIDE DEF here, ahead
    <2> QED BY <1>1, FS_Subset DEF ALedger
<1>3. e \notin ahead
    <2>1. Line(here, Order(edges, PairOf(e)))
        BY EdgesAreALine
    <2> QED BY <1>1, <2>1 DEF Line, AheadOf
<1>4. ASSUME NEW f \in here
      PROVE  /\ PairOf(f) = PairOf(e) /\ AnEdge(f) /\ f.amount \in Nat
             /\ Asked(edges, pays, PairOf(e))[f] = Rest(pays, f) /\ Rest(pays, f) \in 0..f.amount
             /\ Rest(pays, f) = f.amount - Direct(pays, f) /\ Direct(pays, f) \in 0..f.amount
    <2>1. PairOf(f) = PairOf(e)
        BY DEF PairEdges, PairOf
    <2>2. AnEdge(f) /\ f.amount \in Nat
        BY <1>1 DEF ALedger, AnEdge
    <2>3. Asked(edges, pays, PairOf(e))[f] = Rest(pays, f)
        BY DEF Asked
    <2>4. /\ Rest(pays, f) \in 0..f.amount /\ Rest(pays, f) = f.amount - Direct(pays, f)
          /\ Direct(pays, f) \in 0..f.amount
        BY <2>2, StampedIs DEF ALedger
    <2> QED BY <2>1, <2>2, <2>3, <2>4
<1> QED BY <1>1, <1>2, <1>3, <1>4

(* An edge takes what is left, as far as it goes. *)
LEMMA OutstandingIs ==
    ASSUME NEW edges, NEW pays, ALedger(edges, pays), NEW e \in edges
    PROVE  /\ Left(edges, pays, e) \in Int /\ Rest(pays, e) \in Nat
           /\ Outstanding(edges, pays)[e] = Rest(pays, e) - Smaller(Positive(Left(edges, pays, e)), Rest(pays, e))
<1> DEFINE pool == PairPool(edges, pays, PairOf(e))
           asked == Asked(edges, pays, PairOf(e))
           ahead == AheadOf(edges, e)
           asks == SumFunctionOnSet(asked, ahead)
<1>1. pool \in Nat
    BY PoolIs
<1>2. asks \in Nat
    <2>1. IsFiniteSet(ahead) /\ \A f \in ahead : asked[f] \in Nat
        BY PairIs
    <2> HIDE DEF asked, ahead
    <2> QED BY <2>1, SumIsNatural
<1>3. Left(edges, pays, e) = pool - asks
    BY DEF Left
<1>4. Left(edges, pays, e) \in Int
    <2> HIDE DEF pool, asks
    <2> QED BY <1>1, <1>2, <1>3
<1>5. Rest(pays, e) \in Nat
    BY PairIs
<1>6. Outstanding(edges, pays)[e] = Rest(pays, e) - Poured(edges, pays, PairOf(e), e)
    BY PaidIs DEF PairOf
<1>7. Poured(edges, pays, PairOf(e), e) = Smaller(Positive(Left(edges, pays, e)), Rest(pays, e))
    BY DEF Poured, Left, AheadOf
<1> QED BY <1>4, <1>5, <1>6, <1>7

(* What comes to an edge has passed by those before it. *)
LEMMA FilledInTurn ==
    ASSUME NEW edges, NEW pays, ALedger(edges, pays), NEW e \in edges,
           NEW f \in PairEdges(edges, PairOf(e)), e \in AheadOf(edges, f)
    PROVE  Left(edges, pays, f) <= Left(edges, pays, e) - Rest(pays, e)
<1> DEFINE here == PairEdges(edges, PairOf(e))
           asked == Asked(edges, pays, PairOf(e))
           pool == PairPool(edges, pays, PairOf(e))
           sooner == AheadOf(edges, e)
           later == AheadOf(edges, f)
           upto == sooner \cup {e}
           more == later \ upto
           first == SumFunctionOnSet(asked, sooner)
           behind == SumFunctionOnSet(asked, later)
<1>1. f \in edges /\ PairOf(f) = PairOf(e)
    BY PairIs
<1>2. /\ e \in here /\ e \notin sooner /\ sooner \subseteq here /\ later \subseteq here /\ IsFiniteSet(here)
      /\ \A g \in here : asked[g] \in Nat /\ asked[g] = Rest(pays, g)
    <2>1. later \subseteq PairEdges(edges, PairOf(f))
        BY DEF AheadOf
    <2>2. later \subseteq here
        BY <1>1, <2>1
    <2> QED BY <2>2, PairIs
<1>3. upto \subseteq later
    <2>1. Line(here, Order(edges, PairOf(e)))
        BY EdgesAreALine
    <2>2. /\ sooner = {g \in here : <<g, e>> \in Order(edges, PairOf(e))}
          /\ later = {g \in here : <<g, f>> \in Order(edges, PairOf(e))}
        BY <1>1 DEF AheadOf
    <2>3. e \in later /\ <<e, f>> \in Order(edges, PairOf(e))
        BY <1>1 DEF AheadOf
    <2> HIDE DEF sooner, later, here
    <2>4. ASSUME NEW g \in sooner
          PROVE  g \in later
        <3>1. g \in here /\ e \in here /\ f \in here /\ <<g, e>> \in Order(edges, PairOf(e))
            BY <1>2, <2>2 DEF here
        <3>2. <<g, f>> \in Order(edges, PairOf(e))
            BY <2>1, <2>3, <3>1 DEF Line
        <3> QED BY <2>2, <3>1, <3>2
    <2> QED BY <2>3, <2>4
<1>4. /\ IsFiniteSet(upto) /\ IsFiniteSet(sooner) /\ IsFiniteSet(later) /\ IsFiniteSet(more)
      /\ \A g \in later : asked[g] \in Nat /\ asked[g] \in Int
      /\ upto \ {e} = sooner /\ e \in upto /\ sooner \subseteq later
    <2>1. upto \subseteq here /\ more \subseteq here /\ upto \ {e} = sooner
        BY <1>2
    <2> HIDE DEF here, sooner, later, more, asked
    <2> QED BY <1>2, <1>3, <2>1, FS_Subset
<1> HIDE DEF asked, sooner, later, here
<1>5. behind = SumFunctionOnSet(asked, upto) + SumFunctionOnSet(asked, more)
    BY <1>3, <1>4, SumOfParts
<1>6. SumFunctionOnSet(asked, upto) = asked[e] + first
    BY <1>3, <1>4, SumTakesOut
<1>7. first \in Nat /\ behind \in Nat /\ SumFunctionOnSet(asked, more) \in Nat /\ asked[e] \in Nat
    BY <1>3, <1>4, SumIsNatural
<1>8. pool \in Nat
    BY PoolIs
<1>9. Left(edges, pays, f) = pool - behind /\ Left(edges, pays, e) = pool - first /\ asked[e] = Rest(pays, e)
    BY <1>1, <1>2 DEF Left, asked, sooner, later
<1> DEFINE others == SumFunctionOnSet(asked, more)
<1>10. behind = asked[e] + first + others /\ others \in Nat
    BY <1>5, <1>6, <1>7
<1> HIDE DEF pool, first, behind, more, upto, others
<1> QED BY <1>7, <1>8, <1>9, <1>10

(* Nothing is poured into a debt while an earlier one of the pair is open. *)
LEMMA EarlierFirst ==
    ASSUME NEW edges, NEW pays, ALedger(edges, pays), NEW e \in edges,
           NEW f \in PairEdges(edges, <<e.debtor, e.creditor>>), Before(e, f),
           Outstanding(edges, pays)[e] > 0
    PROVE  Outstanding(edges, pays)[f] = f.amount - Direct(pays, f)
<1>1. f \in PairEdges(edges, PairOf(e)) /\ f \in edges /\ PairOf(f) = PairOf(e)
    BY PairIs DEF PairOf
<1>2. e \in AheadOf(edges, f)
    <2>1. e \in PairEdges(edges, PairOf(e))
        BY PairIs
    <2> QED BY <1>1, <2>1 DEF AheadOf, Order
<1> DEFINE out == Outstanding(edges, pays)[e]
           outF == Outstanding(edges, pays)[f]
           left == Left(edges, pays, e)
           leftF == Left(edges, pays, f)
<1>3. leftF <= left - Rest(pays, e)
    BY <1>1, <1>2, FilledInTurn
<1>4. /\ left \in Int /\ Rest(pays, e) \in Nat /\ out = Rest(pays, e) - Smaller(Positive(left), Rest(pays, e))
      /\ leftF \in Int /\ Rest(pays, f) \in Nat /\ outF = Rest(pays, f) - Smaller(Positive(leftF), Rest(pays, f))
    BY <1>1, OutstandingIs
<1>5. Rest(pays, f) = f.amount - Direct(pays, f) /\ out > 0
    BY <1>1, PairIs
<1> HIDE DEF out, outF, left, leftF
<1>6. outF = Rest(pays, f)
    BY <1>3, <1>4, <1>5 DEF Smaller, Positive
<1> QED BY <1>5, <1>6 DEF outF

(* Only one term of the sum has changed. *)
LEMMA SumWithOneChanged ==
    ASSUME NEW S, IsFiniteSet(S), NEW f, NEW g, NEW s,
           \A x \in S : f[x] \in Int /\ g[x] \in Int /\ (x # s => g[x] = f[x])
    PROVE  SumFunctionOnSet(g, S) = SumFunctionOnSet(f, S) + (IF s \in S THEN g[s] - f[s] ELSE 0)
<1>1. CASE s \in S
    <2> DEFINE others == S \ {s}
    <2>1. IsFiniteSet(others) /\ \A x \in others : f[x] \in Int /\ f[x] = g[x]
        BY FS_Subset
    <2>2. SumFunctionOnSet(f, others) = SumFunctionOnSet(g, others) /\ SumFunctionOnSet(f, others) \in Int
        BY <2>1, SumOfSame, SumIsWhole
    <2>3. SumFunctionOnSet(f, S) = f[s] + SumFunctionOnSet(f, others)
        BY <1>1, SumTakesOut
    <2>4. SumFunctionOnSet(g, S) = g[s] + SumFunctionOnSet(g, others)
        BY <1>1, SumTakesOut
    <2>5. f[s] \in Int /\ g[s] \in Int
        BY <1>1
    <2> HIDE DEF others
    <2> QED BY <1>1, <2>2, <2>3, <2>4, <2>5
<1>2. CASE s \notin S
    <2>1. \A x \in S : f[x] = g[x]
        BY <1>2
    <2>2. SumFunctionOnSet(f, S) = SumFunctionOnSet(g, S) /\ SumFunctionOnSet(f, S) \in Int
        BY <2>1, SumOfSame, SumIsWhole
    <2> QED BY <1>2, <2>2
<1> QED BY <1>1, <1>2

(* more is pays with one payment more, number i. *)
OneMore(pays, more, i) ==
    /\ i \notin DOMAIN pays /\ DOMAIN more = DOMAIN pays \cup {i}
    /\ \A j \in DOMAIN pays : more[j] = pays[j]

LEMMA AmountWithOneMore ==
    ASSUME NEW pays, NEW more, Payments(pays), Payments(more), NEW i, OneMore(pays, more, i),
           NEW ids \in SUBSET DOMAIN pays
    PROVE  /\ AmountOf(more, ids) = AmountOf(pays, ids)
           /\ AmountOf(more, ids \cup {i}) = AmountOf(pays, ids) + more[i].amount
<1>1. /\ ids \in SUBSET DOMAIN more /\ ids \cup {i} \in SUBSET DOMAIN more /\ i \notin ids
      /\ IsFiniteSet(ids) /\ IsFiniteSet(ids \cup {i})
    BY FS_Subset DEF OneMore, Payments
<1>2. AmountOf(pays, ids) = SumFunctionOnSet(AmountsOf(pays), ids) /\ AmountOf(pays, ids) \in Nat
    BY AmountIs
<1>3. AmountOf(more, ids) = SumFunctionOnSet(AmountsOf(more), ids)
    BY <1>1, AmountIs
<1>4. AmountOf(more, ids \cup {i}) = SumFunctionOnSet(AmountsOf(more), ids \cup {i})
    BY <1>1, AmountIs
<1>5. \A j \in ids : AmountsOf(pays)[j] \in Int /\ AmountsOf(pays)[j] = AmountsOf(more)[j]
    BY <1>1 DEF OneMore, Payments, AmountsOf
<1>6. \A j \in ids \cup {i} : AmountsOf(more)[j] \in Int
    BY <1>1 DEF Payments, AmountsOf
<1>7. SumFunctionOnSet(AmountsOf(more), ids) = SumFunctionOnSet(AmountsOf(pays), ids)
    BY <1>1, <1>5, SumOfSame
<1>8. SumFunctionOnSet(AmountsOf(more), ids \cup {i}) = AmountsOf(more)[i] + SumFunctionOnSet(AmountsOf(more), ids)
    <2>1. (ids \cup {i}) \ {i} = ids
        BY <1>1
    <2>2. SumFunctionOnSet(AmountsOf(more), ids \cup {i})
            = AmountsOf(more)[i] + SumFunctionOnSet(AmountsOf(more), (ids \cup {i}) \ {i})
        BY <1>1, <1>6, SumTakesOut
    <2> QED BY <2>1, <2>2
<1>9. AmountsOf(more)[i] = more[i].amount /\ more[i].amount \in Nat
    BY <1>1 DEF AmountsOf, Payments
<1> QED BY <1>2, <1>3, <1>4, <1>7, <1>8, <1>9

(* The money of one more payment: s is the one edge of the pair of e it may name, and  *)
(* delta what s takes of it by name.  The rest goes to the pool, and s asks less of it. *)
Gain(p, e) == IF SamePair(p, e) THEN p.amount ELSE 0
Goes(edges, pays, more, i, e, s, delta) ==
    /\ \A f \in PairEdges(edges, PairOf(e)) : Names(more[i], f) => f = s /\ Stamped(more, s) = Stamped(pays, s) + more[i].amount
    /\ Gain(more[i], e) \in Nat /\ delta \in 0..Gain(more[i], e)
    /\ \A f \in PairEdges(edges, PairOf(e)) : Direct(more, f) = Direct(pays, f) + (IF f = s THEN delta ELSE 0)
    /\ Rest(more, e) = Rest(pays, e) - (IF e = s THEN delta ELSE 0)
    /\ Left(edges, more, e) = Left(edges, pays, e) + Gain(more[i], e) - delta
                                 + (IF s \in AheadOf(edges, e) THEN delta ELSE 0)

LEMMA WhereMoneyGoes ==
    ASSUME NEW edges, NEW pays, NEW more, ALedger(edges, pays), ALedger(edges, more),
           NEW i, OneMore(pays, more, i), NEW e \in edges
    PROVE  \E s, delta : Goes(edges, pays, more, i, e, s, delta)
<1> DEFINE pair == <<e.debtor, e.creditor>>
           here == PairEdges(edges, pair)
           ahead == {f \in here : <<f, e>> \in Order(edges, pair)}
           ours == more[i].frm = pair[1] /\ more[i].to = pair[2]
           gain == IF ours THEN more[i].amount ELSE 0
           stamp(f) == IF Names(more[i], f) THEN more[i].amount ELSE 0
           given == AmountOf(pays, PairPayments(pays, pair))
           direct(ps) == [f \in here |-> Direct(ps, f)]
<1>1. /\ Payments(pays) /\ Payments(more) /\ more[i].amount \in Nat
      /\ here \subseteq edges /\ e \in here /\ IsFiniteSet(here) /\ IsFiniteSet(ahead)
      /\ \A f \in here : AnEdge(f) /\ f.amount \in Nat
    <2>1. here \subseteq edges /\ e \in here
        BY DEF PairEdges
    <2>2. ahead \subseteq here
        OBVIOUS
    <2>3. IsFiniteSet(here) /\ IsFiniteSet(ahead)
        BY <2>1, <2>2, FS_Subset DEF ALedger
    <2> HIDE DEF here, ahead
    <2> QED BY <2>1, <2>3 DEF ALedger, Payments, OneMore, AnEdge
<1>2. AmountOf(more, PairPayments(more, pair)) = given + gain /\ given \in Nat
    <2>1. PairPayments(pays, pair) \in SUBSET DOMAIN pays
        BY DEF PairPayments
    <2>2. PairPayments(more, pair) = IF ours THEN PairPayments(pays, pair) \cup {i} ELSE PairPayments(pays, pair)
        BY DEF PairPayments, OneMore
    <2>3. given \in Nat
        BY <1>1, <2>1, AmountIs
    <2>4. /\ AmountOf(more, PairPayments(pays, pair)) = given
          /\ AmountOf(more, PairPayments(pays, pair) \cup {i}) = given + more[i].amount
        BY <1>1, <2>1, AmountWithOneMore
    <2> HIDE DEF pair, given
    <2>5. CASE ours
        BY <2>2, <2>3, <2>4, <2>5
    <2>6. CASE ~ours
        BY <2>2, <2>3, <2>4, <2>6
    <2> QED BY <2>5, <2>6
<1>3. \A f \in here : Stamped(more, f) = Stamped(pays, f) + stamp(f) /\ stamp(f) \in 0..gain
    <2> TAKE f \in here
    <2>1. Naming(pays, f) \in SUBSET DOMAIN pays
        BY DEF Naming
    <2>2. Naming(more, f) = IF Names(more[i], f) THEN Naming(pays, f) \cup {i} ELSE Naming(pays, f)
        BY DEF Naming, OneMore
    <2>3. /\ Stamped(more, f) = AmountOf(more, Naming(more, f))
          /\ Stamped(pays, f) = AmountOf(pays, Naming(pays, f)) /\ Stamped(pays, f) \in Nat
        BY <1>1, StampedIs
    <2>4. AmountOf(more, Naming(more, f)) = AmountOf(pays, Naming(pays, f)) + stamp(f)
        <3>1. /\ AmountOf(more, Naming(pays, f)) = AmountOf(pays, Naming(pays, f))
              /\ AmountOf(more, Naming(pays, f) \cup {i}) = AmountOf(pays, Naming(pays, f)) + more[i].amount
            BY <1>1, <2>1, AmountWithOneMore
        <3>2. CASE Names(more[i], f)
            BY <2>2, <3>1, <3>2
        <3>3. CASE ~Names(more[i], f)
            BY <2>2, <2>3, <3>1, <3>3
        <3> QED BY <3>2, <3>3
    <2>5. Names(more[i], f) => ours
        BY DEF Names, SamePair, PairEdges
    <2> QED BY <1>1, <2>3, <2>4, <2>5
<1>4. \E s : \A f \in here : Names(more[i], f) => f = s
    <2>1. \A f, g \in here : Names(more[i], f) /\ Names(more[i], g) => f = g
        <3> TAKE f, g \in here
        <3> HAVE Names(more[i], f) /\ Names(more[i], g)
        <3>1. f.debtor = g.debtor /\ f.creditor = g.creditor /\ f.kind = g.kind /\ f.ref = g.ref
            BY DEF Names, SamePair
        <3>2. f \in edges /\ g \in edges
            BY DEF PairEdges
        <3>3. Distinct(edges)
            BY DEF ALedger
        <3> HIDE DEF here
        <3> QED BY <3>1, <3>2, <3>3 DEF Distinct
    <2> QED BY <2>1
<1>5. PICK s : \A f \in here : Names(more[i], f) => f = s
    BY <1>4
<1> DEFINE delta == IF s \in here THEN Direct(more, s) - Direct(pays, s) ELSE 0
<1>6. /\ \A f \in here : Direct(pays, f) \in 0..f.amount /\ Direct(more, f) \in 0..f.amount
      /\ \A f \in here : f # s => Direct(more, f) = Direct(pays, f)
      /\ delta \in 0..gain /\ gain \in Nat
    <2>1. \A f \in here : Direct(pays, f) \in 0..f.amount /\ Direct(more, f) \in 0..f.amount /\ Stamped(pays, f) \in Nat
        BY <1>1, StampedIs
    <2>2. gain \in Nat
        BY <1>1
    <2> HIDE DEF gain, here
    <2>3. ASSUME NEW f \in here, f # s PROVE Direct(more, f) = Direct(pays, f)
        <3>1. stamp(f) = 0
            BY <1>5, <2>3
        <3>2. Stamped(more, f) = Stamped(pays, f)
            BY <1>3, <2>1, <3>1
        <3> QED BY <3>2 DEF Direct
    <2>4. delta \in 0..gain
        <3>1. CASE s \in here
            <4> DEFINE st == stamp(s)
            <4>1. st \in 0..gain /\ Stamped(more, s) = Stamped(pays, s) + st /\ Stamped(pays, s) \in Nat /\ s.amount \in Nat
                BY <1>1, <1>3, <2>1, <3>1
            <4> HIDE DEF st
            <4> QED BY <2>2, <3>1, <4>1 DEF Direct, Smaller
        <3> QED BY <2>2, <3>1
    <2> QED BY <2>1, <2>2, <2>3, <2>4
<1> HIDE DEF gain, stamp
<1> DEFINE pool(ps) == PairPool(edges, ps, pair)
<1>7. pool(more) = pool(pays) + gain - delta /\ pool(pays) \in Nat /\ pool(more) \in Nat
    <2>1. \A f \in here : /\ direct(pays)[f] \in Int /\ direct(more)[f] \in Int
                          /\ (f # s => direct(more)[f] = direct(pays)[f])
        BY <1>1, <1>6
    <2>2. s \in here => direct(more)[s] - direct(pays)[s] = delta
        OBVIOUS
    <2>3. pool(pays) \in Nat /\ pool(pays) = given - SumFunctionOnSet(direct(pays), here)
        BY PoolIs
    <2>10. /\ pool(more) \in Nat
           /\ pool(more) = AmountOf(more, PairPayments(more, pair)) - SumFunctionOnSet(direct(more), here)
        BY PoolIs
    <2>11. pool(more) = (given + gain) - SumFunctionOnSet(direct(more), here)
        BY <1>2, <2>10, Zenon
    <2> DEFINE before == direct(pays)
               after == direct(more)
    <2>4. /\ \A f \in here : before[f] \in Int /\ after[f] \in Int /\ (f # s => after[f] = before[f])
          /\ s \in here => after[s] - before[s] = delta
        BY <2>1, <2>2
    <2>5. /\ pool(pays) = given - SumFunctionOnSet(before, here)
          /\ pool(more) = (given + gain) - SumFunctionOnSet(after, here)
        BY <2>3, <2>11
    <2>6. s \notin here => delta = 0
        OBVIOUS
    <2> HIDE DEF before, after, here, pool, given, delta
    <2>7. SumFunctionOnSet(after, here) = SumFunctionOnSet(before, here) + (IF s \in here THEN after[s] - before[s] ELSE 0)
        BY <1>1, <2>4, SumWithOneChanged
    <2>8. SumFunctionOnSet(after, here) = SumFunctionOnSet(before, here) + delta
        BY <2>4, <2>6, <2>7
    <2>9. SumFunctionOnSet(before, here) \in Int
        BY <1>1, <2>4, SumIsWhole
    <2> QED BY <1>2, <1>6, <2>3, <2>10, <2>5, <2>8, <2>9
<1> DEFINE asked(ps) == Asked(edges, ps, pair)
           left(ps) == pool(ps) - SumFunctionOnSet(asked(ps), ahead)
           rest(ps) == Rest(ps, e)
<1>8. \A f \in here :
        /\ asked(pays)[f] = f.amount - Direct(pays, f) /\ asked(more)[f] = f.amount - Direct(more, f)
        /\ asked(pays)[f] \in Nat /\ asked(more)[f] \in Nat
    <2> TAKE f \in here
    <2>1. asked(pays)[f] = f.amount - Direct(pays, f) /\ asked(more)[f] = f.amount - Direct(more, f)
        BY DEF Asked, Rest
    <2>2. f.amount \in Nat /\ Direct(pays, f) \in 0..f.amount /\ Direct(more, f) \in 0..f.amount
        BY <1>1, <1>6
    <2> QED BY <2>1, <2>2
<1>9. /\ SumFunctionOnSet(asked(more), ahead)
           = SumFunctionOnSet(asked(pays), ahead) - (IF s \in ahead THEN delta ELSE 0)
      /\ SumFunctionOnSet(asked(pays), ahead) \in Nat
    <2> DEFINE before == asked(pays)
               after == asked(more)
    <2>1. ahead \subseteq here
        OBVIOUS
    <2>2. \A f \in ahead : before[f] \in Int /\ after[f] \in Int /\ (f # s => after[f] = before[f]) /\ before[f] \in Nat
        BY <1>6, <1>8
    <2>3. s \in ahead => after[s] - before[s] = 0 - delta
        <3> SUFFICES ASSUME s \in ahead PROVE after[s] - before[s] = 0 - delta
            OBVIOUS
        <3>1. s \in here /\ s.amount \in Nat
            BY <1>1
        <3>2. before[s] = s.amount - Direct(pays, s) /\ after[s] = s.amount - Direct(more, s)
            BY <1>8, <3>1
        <3>3. Direct(pays, s) \in Int /\ Direct(more, s) \in Int
            BY <1>6, <3>1
        <3> HIDE DEF before, after
        <3> QED BY <3>1, <3>2, <3>3
    <2> HIDE DEF before, after, ahead, delta
    <2>4. SumFunctionOnSet(after, ahead) = SumFunctionOnSet(before, ahead) + (IF s \in ahead THEN after[s] - before[s] ELSE 0)
        BY <1>1, <2>2, SumWithOneChanged
    <2>5. SumFunctionOnSet(before, ahead) \in Nat
        BY <1>1, <2>2, SumIsNatural
    <2>6. SumFunctionOnSet(after, ahead) = SumFunctionOnSet(before, ahead) - (IF s \in ahead THEN delta ELSE 0)
        BY <1>6, <2>3, <2>4, <2>5
    <2> QED BY <2>5, <2>6 DEF before, after
<1>10. left(pays) \in Int /\ left(more) = left(pays) + gain - delta + (IF s \in ahead THEN delta ELSE 0)
    <2> DEFINE a == SumFunctionOnSet(asked(pays), ahead)
               b == SumFunctionOnSet(asked(more), ahead)
    <2>1. b = a - (IF s \in ahead THEN delta ELSE 0) /\ a \in Nat
        BY <1>9
    <2> HIDE DEF a, b, delta, ahead, pool
    <2>2. left(pays) = pool(pays) - a /\ left(more) = pool(more) - b
        BY DEF a, b
    <2> HIDE DEF left
    <2> QED BY <1>6, <1>7, <2>1, <2>2
<1>11. Rest(more, e) = Rest(pays, e) - (IF e = s THEN delta ELSE 0)
    <2>1. /\ Rest(pays, e) = e.amount - Direct(pays, e) /\ Rest(more, e) = e.amount - Direct(more, e)
          /\ e.amount \in Nat /\ Direct(pays, e) \in 0..e.amount /\ Direct(more, e) \in 0..e.amount
        BY <1>1, <1>6 DEF Rest
    <2>2. e # s => Direct(more, e) = Direct(pays, e)
        BY <1>1, <1>6
    <2>3. e = s => delta = Direct(more, e) - Direct(pays, e)
        BY <1>1
    <2> HIDE DEF delta
    <2> QED BY <2>1, <2>2, <2>3
<1>12. \A f \in here : Direct(more, f) = Direct(pays, f) + (IF f = s THEN delta ELSE 0)
    <2> TAKE f \in here
    <2>1. f = s => delta = Direct(more, f) - Direct(pays, f)
        OBVIOUS
    <2>2. /\ Direct(pays, f) \in Int /\ Direct(more, f) \in Int
          /\ f # s => Direct(more, f) = Direct(pays, f)
        BY <1>6
    <2> HIDE DEF delta, here
    <2> QED BY <2>1, <2>2
<1>13. \A f \in here : Names(more[i], f) => f = s /\ Stamped(more, s) = Stamped(pays, s) + more[i].amount
    <2> TAKE f \in here
    <2>1. Names(more[i], f) => f = s
        BY <1>5
    <2>2. Names(more[i], f) => Stamped(more, f) = Stamped(pays, f) + more[i].amount
        BY <1>3 DEF stamp
    <2> QED BY <2>1, <2>2
<1>14. Left(edges, more, e) = Left(edges, pays, e) + gain - delta + (IF s \in ahead THEN delta ELSE 0)
    BY <1>10 DEF Left, PairOf, AheadOf
<1>15. here = PairEdges(edges, PairOf(e)) /\ ahead = AheadOf(edges, e) /\ gain = Gain(more[i], e)
    BY DEF PairOf, AheadOf, Gain, SamePair, gain
<1> HIDE DEF delta, gain, ahead, here
<1>16. Goes(edges, pays, more, i, e, s, delta)
    BY <1>6, <1>11, <1>12, <1>13, <1>14, <1>15 DEF Goes
<1> QED BY <1>16

(* Wherever the money of one more payment goes, no debt grows. *)
LEMMA PaymentReopensNothing ==
    ASSUME NEW edges, NEW pays, NEW more, ALedger(edges, pays), ALedger(edges, more),
           NEW i, OneMore(pays, more, i), NEW e \in edges
    PROVE  Outstanding(edges, more)[e] <= Outstanding(edges, pays)[e]
<1> DEFINE left(ps) == Left(edges, ps, e)
           rest(ps) == Rest(ps, e)
           gain == Gain(more[i], e)
<1>1. PICK s, delta : Goes(edges, pays, more, i, e, s, delta)
    BY WhereMoneyGoes
<1>2. /\ left(pays) \in Int /\ rest(pays) \in Nat /\ rest(more) \in Nat
      /\ Outstanding(edges, pays)[e] = rest(pays) - Smaller(Positive(left(pays)), rest(pays))
      /\ Outstanding(edges, more)[e] = rest(more) - Smaller(Positive(left(more)), rest(more))
    BY OutstandingIs
<1>3. /\ gain \in Nat /\ delta \in 0..gain
      /\ rest(more) = rest(pays) - (IF e = s THEN delta ELSE 0)
      /\ left(more) = left(pays) + gain - delta + (IF s \in AheadOf(edges, e) THEN delta ELSE 0)
    BY <1>1 DEF Goes
<1>4. e = s => s \notin AheadOf(edges, e)
    BY PairIs
<1> HIDE DEF left, rest, gain
<1> QED BY <1>2, <1>3, <1>4 DEF Smaller, Positive

(* A payment of what is open on an edge, stamped with it, closes that edge and leaves  *)
(* what is open on every other as it was.                                              *)
LEMMA NamedPaymentCloses ==
    ASSUME NEW edges, NEW pays, NEW more, ALedger(edges, pays), ALedger(edges, more),
           NEW i, OneMore(pays, more, i), NEW t \in edges, Names(more[i], t),
           more[i].amount = Outstanding(edges, pays)[t], Outstanding(edges, pays)[t] > 0,
           NEW e \in edges
    PROVE  Outstanding(edges, more)[e] = IF e = t THEN 0 ELSE Outstanding(edges, pays)[e]
<1> DEFINE owed == Outstanding(edges, pays)[t]
           left(ps) == Left(edges, ps, e)
           rest(ps) == Rest(ps, e)
           out(ps) == Outstanding(edges, ps)[e]
<1>1. PICK s, delta : Goes(edges, pays, more, i, e, s, delta)
    BY WhereMoneyGoes
<1>2. /\ left(pays) \in Int /\ rest(pays) \in Nat /\ rest(more) \in Nat
      /\ out(pays) = rest(pays) - Smaller(Positive(left(pays)), rest(pays))
      /\ out(more) = rest(more) - Smaller(Positive(left(more)), rest(more))
    BY OutstandingIs
<1>3. /\ Gain(more[i], e) \in Nat /\ delta \in 0..Gain(more[i], e)
      /\ rest(more) = rest(pays) - (IF e = s THEN delta ELSE 0)
      /\ left(more) = left(pays) + Gain(more[i], e) - delta + (IF s \in AheadOf(edges, e) THEN delta ELSE 0)
    BY <1>1 DEF Goes
<1>4. CASE PairOf(e) # PairOf(t)
    <2>1. Gain(more[i], e) = 0 /\ e # t
        BY <1>4 DEF Gain, SamePair, Names, PairOf
    <2>2. delta = 0
        BY <1>3, <2>1
    <2> HIDE DEF left, rest, out
    <2>3. rest(more) = rest(pays) /\ left(more) = left(pays)
        BY <1>2, <1>3, <2>1, <2>2
    <2>4. out(more) = out(pays)
        BY <1>2, <2>3
    <2> QED BY <2>1, <2>4 DEF out
<1>5. CASE PairOf(e) = PairOf(t)
    <2>1. t \in PairEdges(edges, PairOf(e)) /\ e \in PairEdges(edges, PairOf(t)) /\ Gain(more[i], e) = owed
        BY <1>5 DEF PairEdges, PairOf, Gain, SamePair, Names
    <2>2. s = t /\ Stamped(more, t) = Stamped(pays, t) + owed
        BY <1>1, <2>1 DEF Goes
    <2>3. Direct(more, t) = Direct(pays, t) + delta
        BY <1>1, <2>1, <2>2 DEF Goes
    <2>4. delta = owed
        <3> DEFINE poured == Poured(edges, pays, PairOf(t), t)
        <3>1. poured \in 0..Rest(pays, t) /\ owed = Rest(pays, t) - poured
            BY PaidIs DEF PairOf
        <3>2. /\ t.amount \in Nat /\ Rest(pays, t) = t.amount - Direct(pays, t) /\ Direct(pays, t) \in 0..t.amount
              /\ Stamped(pays, t) \in Nat
            BY StampedIs DEF ALedger, AnEdge
        <3>3. owed > 0
            OBVIOUS
        <3> HIDE DEF poured, owed
        <3>4. Direct(pays, t) = Stamped(pays, t) /\ Stamped(pays, t) + owed <= t.amount
            BY <3>1, <3>2, <3>3 DEF Direct, Smaller
        <3>5. Direct(more, t) = Stamped(pays, t) + owed
            BY <2>2, <3>1, <3>2, <3>4 DEF Direct, Smaller
        <3> QED BY <1>3, <2>3, <3>1, <3>2, <3>4, <3>5
    <2>5. owed > 0 /\ owed \in Nat
        BY <1>3, <2>1
    <2>6. /\ rest(more) = rest(pays) - (IF e = t THEN owed ELSE 0)
          /\ left(more) = left(pays) + (IF t \in AheadOf(edges, e) THEN owed ELSE 0)
        <3> HIDE DEF owed, left, rest
        <3> QED BY <1>2, <1>3, <2>1, <2>2, <2>4, <2>5
    <2>7. CASE e = t
        <3>1. t \notin AheadOf(edges, e)
            BY <2>7, PairIs
        <3>2. out(pays) = owed
            BY <2>7
        <3> HIDE DEF owed, left, rest, out
        <3>3. out(more) = 0
            BY <1>2, <2>5, <2>6, <2>7, <3>1, <3>2 DEF Smaller, Positive
        <3> QED BY <2>7, <3>3 DEF out
    <2>8. CASE e # t /\ t \notin AheadOf(edges, e)
        <3> HIDE DEF owed, left, rest, out
        <3>1. rest(more) = rest(pays) /\ left(more) = left(pays)
            BY <1>2, <2>6, <2>8
        <3>2. out(more) = out(pays)
            BY <1>2, <3>1
        <3> QED BY <2>8, <3>2 DEF out
    <2>9. CASE e # t /\ t \in AheadOf(edges, e)
        <3> DEFINE leftT == Left(edges, pays, t)
        <3>1. left(pays) <= leftT - Rest(pays, t)
            BY <2>1, <2>9, FilledInTurn
        <3>2. /\ leftT \in Int /\ Rest(pays, t) \in Nat
              /\ owed = Rest(pays, t) - Smaller(Positive(leftT), Rest(pays, t))
            BY OutstandingIs
        <3> HIDE DEF owed, left, rest, out, leftT
        <3>3. left(more) <= 0 /\ left(pays) <= 0 /\ left(more) \in Int /\ rest(more) = rest(pays)
            BY <1>2, <2>5, <2>6, <2>9, <3>1, <3>2 DEF Smaller, Positive
        <3>4. out(more) = out(pays)
            BY <1>2, <3>3 DEF Smaller, Positive
        <3> QED BY <2>9, <3>4 DEF out
    <2> QED BY <2>7, <2>8, <2>9
<1> QED BY <1>4, <1>5
(* The debts of one meal or game: one of everybody who had a share but whoever paid.   *)
LEMMA EdgesAre ==
    ASSUME NEW kind \in {"meal", "game"}, NEW ref \in Nat \ {NoRef}, NEW creditor, NEW day \in Int,
           NEW shares, IsFiniteSet(DOMAIN shares), \A m \in DOMAIN shares : shares[m] \in Nat
    PROVE  LET new == EdgesOf(kind, ref, creditor, shares, day) IN
           /\ IsFiniteSet(new)
           /\ \A e \in new : /\ AnEdge(e) /\ e.kind = kind /\ e.ref = ref /\ e.creditor = creditor
                             /\ e.debtor \in (DOMAIN shares) \ {creditor} /\ e.amount = shares[e.debtor] /\ e.day = day
           /\ \A e, f \in new : e.debtor = f.debtor => e = f
<1> DEFINE who == {k \in DOMAIN shares : k # creditor /\ shares[k] # 0}
           edge(m) == [debtor |-> m, creditor |-> creditor, kind |-> kind, ref |-> ref,
                       day |-> day, amount |-> shares[m]]
           new == {edge(m) : m \in who}
<1>1. EdgesOf(kind, ref, creditor, shares, day) = new
    BY DEF EdgesOf
<1>2. IsFiniteSet(who) /\ who \subseteq DOMAIN shares
    BY FS_Subset
<1>3. IsFiniteSet(new)
    <2> DEFINE map == [m \in who |-> edge(m)]
    <2>1. new = {map[m] : m \in who} /\ DOMAIN map = who
        OBVIOUS
    <2> HIDE DEF who, map
    <2> QED BY <1>2, <2>1, ImageIsFinite
<1>4. \A e \in new : \E m \in who : e = edge(m)
    OBVIOUS
<1>5. \A e \in new : /\ AnEdge(e) /\ e.kind = kind /\ e.ref = ref /\ e.creditor = creditor
                     /\ e.debtor \in (DOMAIN shares) \ {creditor} /\ e.amount = shares[e.debtor] /\ e.day = day
    BY <1>2 DEF AnEdge
<1>6. \A e, f \in new : e.debtor = f.debtor => e = f
    <2> SUFFICES ASSUME NEW e \in new, NEW f \in new, e.debtor = f.debtor PROVE e = f
        OBVIOUS
    <2>1. PICK m \in who : e = edge(m)
        BY <1>4
    <2>2. PICK k \in who : f = edge(k)
        BY <1>4
    <2>3. e.debtor = m /\ f.debtor = k
        BY <2>1, <2>2
    <2> QED BY <2>1, <2>2, <2>3
<1> HIDE DEF new
<1> QED BY <1>1, <1>3, <1>5, <1>6
=============================================================================
