-------------------------- MODULE StockLedgerProofs --------------------------
(***************************************************************************)
(* What StockService keeps of its balances and of the ledger, for any      *)
(* warehouses, products, batches and quantities.                           *)
(***************************************************************************)
EXTENDS StockFefo, TablesProofs

\* What one request of StockService may do to an item.
Posted(i) ==
    \/ balance'[i] = balance[i] /\ posted'[i] = posted[i]
    \/ \E q \in Nat : /\ balance'[i] = Increased(balance[i], q)
                      /\ posted'[i] = posted[i] + q
    \/ \E q \in Nat : /\ q <= balance[i].available
                      /\ balance'[i] = Decreased(balance[i], q)
                      /\ posted'[i] = posted[i] - q

LEMMA RowsStayRows ==
  ASSUME NEW row \in BalanceRow, NEW q \in Int
  PROVE  Increased(row, q) \in BalanceRow /\ Decreased(row, q) \in BalanceRow
  BY DEF BalanceRow, Increased, Decreased

LEMMA BatchRowsStayRows ==
  ASSUME NEW r \in BatchRow, NEW q \in Int
  PROVE  [r EXCEPT !.onHand = @ + q] \in BatchRow
  BY DEF BatchRow

LEMMA BatchMovedTyped ==
  ASSUME StockTypeOK, NEW b \in Batch \cup {None}, NEW x, BatchMatches(b, x),
         NEW w \in Warehouse, NEW q \in Int
  PROVE  BatchMoved(b, w, q) \in [Batch -> BatchRow \cup {None}]
<1>1. CASE b = None
  BY <1>1 DEF BatchMoved, StockTypeOK
<1>2. CASE b # None
  <2>1. b \in Batch /\ batch[b] \in BatchRow
    BY <1>2 DEF BatchMatches, StockTypeOK
  <2>2. [batch[b] EXCEPT !.warehouse = w] \in BatchRow
    BY <2>1 DEF BatchRow
  <2>3. [[batch[b] EXCEPT !.warehouse = w] EXCEPT !.onHand = @ + q] \in BatchRow
    BY <2>2, BatchRowsStayRows
  <2>4. [batch[b] EXCEPT !.warehouse = w, !.onHand = @ + q] \in BatchRow
    BY <2>1, <2>3 DEF BatchRow
  <2>5. BatchMoved(b, w, q) =
           [batch EXCEPT ![b] = [batch[b] EXCEPT !.warehouse = w, !.onHand = @ + q]]
    BY <1>2, <2>1 DEF BatchMoved, StockTypeOK
  <2> QED
    BY <2>1, <2>4, <2>5 DEF StockTypeOK
<1> QED
  BY <1>1, <1>2

\* Every request of StockService keeps the types and posts on every item
\* what it does to its balance.
LEMMA StockStep ==
  ASSUME StockTypeOK, StockNext
  PROVE  StockTypeOK' /\ \A i \in Item : Posted(i)
<1>1. ASSUME NEW b \in Batch, NEW x \in Product, NEW w \in Warehouse \cup {None},
             NEW q \in -MaxQty .. MaxQty, NEW blocked \in BOOLEAN, CreateBatch(b, x, w, q, blocked)
      PROVE  StockTypeOK' /\ \A i \in Item : Posted(i)
  <2>1. [product |-> x, warehouse |-> w, onHand |-> q, blocked |-> blocked] \in BatchRow
    BY BoundsAreNaturals DEF BatchRow
  <2> QED
    BY <1>1, <2>1 DEF CreateBatch, StockTypeOK, Posted
<1>2. ASSUME NEW i \in Item, NEW q \in Quantity, NEW b \in Batch \cup {None},
             PostInbound(i, q, b)
      PROVE  StockTypeOK' /\ \A j \in Item : Posted(j)
  <2>1. q \in Nat
    BY BoundsAreNaturals DEF Quantity
  <2>2. i[1] \in Warehouse
    BY DEF Item
  <2>3. batch' \in [Batch -> BatchRow \cup {None}]
    <3>1. BatchMatches(b, i[2]) /\ batch' = BatchMoved(b, i[1], q)
      BY <1>2 DEF PostInbound
    <3> QED
      BY <2>1, <2>2, <3>1, BatchMovedTyped
  <2>4. /\ balance' \in [Item -> BalanceRow]
        /\ posted' \in [Item -> Int]
    BY <1>2, <2>1, RowsStayRows DEF PostInbound, StockTypeOK
  <2>5. \A j \in Item : Posted(j)
    BY <1>2, <2>1 DEF PostInbound, StockTypeOK, Posted
  <2> QED
    BY <2>3, <2>4, <2>5 DEF StockTypeOK
<1>3. ASSUME NEW i \in Item, NEW q \in Quantity, NEW b \in Batch \cup {None},
             PostOutbound(i, q, b)
      PROVE  StockTypeOK' /\ \A j \in Item : Posted(j)
  <2>1. q \in Nat
    BY BoundsAreNaturals DEF Quantity
  <2>2. /\ balance' = [balance EXCEPT ![i] = Decreased(@, q)]
        /\ posted' = [posted EXCEPT ![i] = @ - q]
        /\ q <= balance[i].available
    BY <1>3, <2>1 DEF PostOutbound, StockTypeOK, BalanceRow
  <2>3. /\ balance' \in [Item -> BalanceRow]
        /\ posted' \in [Item -> Int]
    BY <2>1, <2>2, RowsStayRows DEF StockTypeOK
  <2>4. \A j \in Item : Posted(j)
    BY <2>1, <2>2 DEF StockTypeOK, Posted
  <2>5. batch' \in [Batch -> BatchRow \cup {None}]
    <3>1. CASE b = None
      BY <1>3, <3>1 DEF PostOutbound, StockTypeOK
    <3>2. CASE b # None
      <4>1. b \in Batch /\ batch[b] \in BatchRow
        BY <1>3, <3>2 DEF PostOutbound, BatchServes, BatchMatches, StockTypeOK
      <4>2. [batch[b] EXCEPT !.onHand = @ - q] \in BatchRow
        BY <2>1, <4>1 DEF BatchRow
      <4>3. batch' = [batch EXCEPT ![b] = [batch[b] EXCEPT !.onHand = @ - q]]
        BY <1>3, <3>2, <4>1 DEF PostOutbound, StockTypeOK
      <4> QED
        BY <4>1, <4>2, <4>3 DEF StockTypeOK
    <3> QED
      BY <3>1, <3>2
  <2> QED
    BY <2>3, <2>4, <2>5 DEF StockTypeOK
<1>4. ASSUME NEW w \in Warehouse, NEW v \in Warehouse, NEW x \in Product, NEW q \in Quantity,
             NEW b \in Batch \cup {None}, PostTransfer(w, v, x, q, b)
      PROVE  StockTypeOK' /\ \A j \in Item : Posted(j)
  <2>1. q \in Nat
    BY BoundsAreNaturals DEF Quantity
  <2>2. <<w, x>> \in Item /\ <<v, x>> \in Item /\ <<w, x>> # <<v, x>>
    BY <1>4 DEF Item, PostTransfer
  <2>3. batch' \in [Batch -> BatchRow \cup {None}]
    BY <1>4, BatchMovedTyped DEF PostTransfer
  <2>4. /\ balance' = [balance EXCEPT ![<<w, x>>] = Decreased(@, q),
                                      ![<<v, x>>] = Increased(@, q)]
        /\ posted' = [posted EXCEPT ![<<w, x>>] = @ - q, ![<<v, x>>] = @ + q]
        /\ q <= balance[<<w, x>>].available
    BY <1>4, <2>1, <2>2 DEF PostTransfer, StockTypeOK, BalanceRow
  <2>5. /\ balance' \in [Item -> BalanceRow]
        /\ posted' \in [Item -> Int]
    <3>1. /\ Decreased(balance[<<w, x>>], q) \in BalanceRow
          /\ Increased(balance[<<v, x>>], q) \in BalanceRow
      BY <2>1, <2>2, RowsStayRows DEF StockTypeOK
    <3>2. balance' = [balance EXCEPT ![<<w, x>>] = Decreased(balance[<<w, x>>], q),
                                     ![<<v, x>>] = Increased(balance[<<v, x>>], q)]
      BY <2>2, <2>4
    <3>3. balance' \in [Item -> BalanceRow]
      BY <3>1, <3>2 DEF StockTypeOK
    <3>4. posted' \in [Item -> Int]
      BY <2>1, <2>2, <2>4 DEF StockTypeOK
    <3> QED
      BY <3>3, <3>4
  <2>6. \A j \in Item : Posted(j)
    BY <2>1, <2>2, <2>4 DEF StockTypeOK, Posted
  <2> QED
    BY <2>3, <2>5, <2>6 DEF StockTypeOK
<1> QED
  BY <1>1, <1>2, <1>3, <1>4 DEF StockNext

\* A posting leaves the promises alone and moves a row that covers itself by
\* as much as the ledger, never below zero.
LEMMA PostedFigures ==
  ASSUME NEW i \in Item, balance[i] \in BalanceRow, posted[i] \in Int, Posted(i),
         balance[i].available = balance[i].onHand - balance[i].reserved,
         balance[i].available >= 0
  PROVE  /\ balance'[i].reserved = balance[i].reserved
         /\ balance'[i].onHand - posted'[i] = balance[i].onHand - posted[i]
         /\ balance'[i].available = balance'[i].onHand - balance'[i].reserved
         /\ balance'[i].available >= 0
<1>1. CASE balance'[i] = balance[i] /\ posted'[i] = posted[i]
  BY <1>1
<1>2. ASSUME NEW q \in Nat, balance'[i] = Increased(balance[i], q),
             posted'[i] = posted[i] + q
      PROVE  /\ balance'[i].reserved = balance[i].reserved
             /\ balance'[i].onHand - posted'[i] = balance[i].onHand - posted[i]
             /\ balance'[i].available = balance'[i].onHand - balance'[i].reserved
             /\ balance'[i].available >= 0
  BY <1>2 DEF Increased, BalanceRow
<1>3. ASSUME NEW q \in Nat, q <= balance[i].available,
             balance'[i] = Decreased(balance[i], q), posted'[i] = posted[i] - q
      PROVE  /\ balance'[i].reserved = balance[i].reserved
             /\ balance'[i].onHand - posted'[i] = balance[i].onHand - posted[i]
             /\ balance'[i].available = balance'[i].onHand - balance'[i].reserved
             /\ balance'[i].available >= 0
  BY <1>3 DEF Decreased, BalanceRow
<1> QED
  BY <1>1, <1>2, <1>3 DEF Posted

LEMMA StockInitTyped == StockInit => StockTypeOK
  BY DEF StockInit, StockTypeOK, BalanceRow

(***************************************************************************)
(* Balances, ledger and batches keep their types.                          *)
(***************************************************************************)
THEOREM StockTypes == StockSpec => []StockTypeOK
<1>1. StockTypeOK /\ UNCHANGED stockVars => StockTypeOK'
  BY DEF StockTypeOK, stockVars
<1> QED
  BY <1>1, StockInitTyped, StockStep, PTL DEF StockSpec

\* Nothing in StockService writes quantity_reserved.
ReconciledInv ==
    /\ BalanceIsLedger
    /\ \A i \in Item : balance[i].reserved = 0

\* Whatever posts like this keeps balance and ledger together.
LEMMA PostingsReconcile ==
  ASSUME StockTypeOK, StockTypeOK', ReconciledInv, \A i \in Item : Posted(i)
  PROVE  ReconciledInv'
<1> SUFFICES ASSUME NEW i \in Item
             PROVE  /\ balance'[i].onHand = posted'[i]
                    /\ balance'[i].available = posted'[i]
                    /\ posted'[i] >= 0
                    /\ balance'[i].reserved = 0
  BY DEF ReconciledInv, BalanceIsLedger
<1>1. balance[i] \in BalanceRow /\ posted[i] \in Int
  BY DEF StockTypeOK
<1>2. balance'[i] \in BalanceRow /\ posted'[i] \in Int
  BY DEF StockTypeOK
<1>3. /\ balance[i].onHand = posted[i] /\ balance[i].available = posted[i]
      /\ posted[i] >= 0 /\ balance[i].reserved = 0
  BY DEF ReconciledInv, BalanceIsLedger
<1>4. /\ balance[i].available = balance[i].onHand - balance[i].reserved
      /\ balance[i].available >= 0
  BY <1>1, <1>3 DEF BalanceRow
<1>5. /\ balance'[i].reserved = balance[i].reserved
      /\ balance'[i].onHand - posted'[i] = balance[i].onHand - posted[i]
      /\ balance'[i].available = balance'[i].onHand - balance'[i].reserved
      /\ balance'[i].available >= 0
  BY <1>1, <1>4, PostedFigures
<1> QED
  BY <1>1, <1>2, <1>3, <1>5 DEF BalanceRow

LEMMA ReconciledAtFirst == StockInit => ReconciledInv
  BY DEF StockInit, ReconciledInv, BalanceIsLedger

(***************************************************************************)
(* Served alone, the requests of StockService keep every balance equal to  *)
(* the ledger and neither ever below zero.                                 *)
(***************************************************************************)
THEOREM StockReconciles == StockSpec => []BalanceIsLedger
<1>1. StockTypeOK /\ ReconciledInv /\ [StockNext]_stockVars => StockTypeOK' /\ ReconciledInv'
  <2>1. StockTypeOK /\ ReconciledInv /\ StockNext => StockTypeOK' /\ ReconciledInv'
    BY StockStep, PostingsReconcile
  <2>2. StockTypeOK /\ ReconciledInv /\ UNCHANGED stockVars => StockTypeOK' /\ ReconciledInv'
    BY DEF stockVars, StockTypeOK, ReconciledInv, BalanceIsLedger
  <2> QED
    BY <2>1, <2>2
<1>2. ReconciledInv => BalanceIsLedger
  BY DEF ReconciledInv
<1> QED
  BY <1>1, <1>2, StockInitTyped, ReconciledAtFirst, PTL DEF StockSpec

-----------------------------------------------------------------------------
(* The preview of StockFefo.                                               *)

Known == {b \in Batch : batch[b] # None}

\* There are finitely many batches: every request creates one at most.
BatchInv ==
    /\ StockTypeOK
    /\ IsFiniteSet(Known)

LEMMA BatchesKept ==
  ASSUME BatchInv, StockNext
  PROVE  BatchInv'
<1> DEFINE Kept == \E b : Known' \subseteq Known \cup {b}
<1>1. ASSUME NEW b \in Batch, NEW x \in Product, NEW w \in Warehouse \cup {None},
             NEW q \in -MaxQty .. MaxQty, NEW blocked \in BOOLEAN,
             CreateBatch(b, x, w, q, blocked)
      PROVE  Kept
  BY <1>1 DEF CreateBatch, BatchInv, StockTypeOK, Known
<1>2. ASSUME NEW b \in Batch \cup {None}, NEW x, BatchMatches(b, x), NEW w, NEW q,
             batch' = BatchMoved(b, w, q)
      PROVE  Kept
  BY <1>2 DEF BatchMatches, BatchMoved, BatchInv, StockTypeOK, Known
<1>3. ASSUME NEW i \in Item, NEW q \in Quantity, NEW b \in Batch \cup {None},
             PostInbound(i, q, b) \/ PostOutbound(i, q, b)
      PROVE  Kept
  <2>1. CASE PostInbound(i, q, b)
    BY <1>2, <2>1 DEF PostInbound
  <2>2. CASE PostOutbound(i, q, b)
    BY <2>2 DEF PostOutbound, BatchServes, BatchMatches, BatchInv, StockTypeOK, Known
  <2> QED
    BY <1>3, <2>1, <2>2
<1>4. ASSUME NEW w \in Warehouse, NEW v \in Warehouse, NEW x \in Product, NEW q \in Quantity,
             NEW b \in Batch \cup {None}, PostTransfer(w, v, x, q, b)
      PROVE  Kept
  BY <1>2, <1>4 DEF PostTransfer
<1>5. Kept
  <2> HIDE DEF Kept
  <2> QED
    BY <1>1, <1>3, <1>4 DEF StockNext
<1>6. IsFiniteSet(Known')
  <2>1. PICK b : Known' \in SUBSET (Known \cup {b})
    BY <1>5
  <2>2. IsFiniteSet(Known \cup {b})
    BY FS_AddElement DEF BatchInv
  <2> QED
    BY <2>1, <2>2, FS_Subset
<1>7. StockTypeOK'
  BY StockStep DEF BatchInv
<1> QED
  BY <1>6, <1>7 DEF BatchInv

LEMMA BatchInvariant == StockSpec => []BatchInv
<1>1. StockInit => BatchInv
  <2>1. StockInit => Known = {}
    BY DEF StockInit, Known
  <2> QED
    BY <2>1, StockInitTyped, FS_EmptySet DEF BatchInv
<1>2. BatchInv /\ UNCHANGED stockVars => BatchInv'
  BY DEF BatchInv, StockTypeOK, Known, stockVars
<1> QED
  BY <1>1, <1>2, BatchesKept, PTL DEF StockSpec

\* Batches in the order of their expiry.
Ascending(list) ==
    \A n, m \in DOMAIN list : n < m => Expiry[list[n]] < Expiry[list[m]]

LEMMA FirstToExpire ==
  ASSUME NEW S \in SUBSET Batch, S # {}
  PROVE  \E b \in S : \A c \in S \ {b} : Expiry[b] < Expiry[c]
<1> DEFINE N == {Expiry[b] : b \in S}
<1>1. \A b \in Batch : Expiry[b] \in Nat
  BY ExpiryIsAnOrder
<1>2. N \in SUBSET Nat /\ N # {}
  BY <1>1
<1>3. PICK n \in N : \A m \in N : n <= m
  <2> HIDE DEF N
  <2> QED
    BY <1>2, SmallestNumber
<1>4. PICK b \in S : n = Expiry[b]
  OBVIOUS
<1>5. ASSUME NEW c \in S \ {b}
      PROVE  Expiry[b] < Expiry[c]
  <2>1. Expiry[b] # Expiry[c]
    BY ExpiryIsAnOrder
  <2>2. Expiry[b] <= Expiry[c]
    BY <1>3, <1>4
  <2> QED
    BY <1>1, <2>1, <2>2
<1> QED
  BY <1>5

LEMMA SomeListAscends ==
  ASSUME NEW S \in SUBSET Batch, IsFiniteSet(S)
  PROVE  \E list \in [1 .. Cardinality(S) -> S] : Ascending(list)
<1> DEFINE F == {T \in SUBSET S : ~\E list \in [1 .. Cardinality(T) -> T] : Ascending(list)}
<1> SUFFICES ASSUME F # {}
             PROVE  FALSE
  OBVIOUS
<1>1. F \in SUBSET SUBSET S
  OBVIOUS
<1>2. PICK T \in F : \A x \in T : T \ {x} \notin F
  <2> HIDE DEF F
  <2> QED
    BY <1>1, SmallestSet
<1>3. T \in SUBSET S /\ ~\E list \in [1 .. Cardinality(T) -> T] : Ascending(list)
  BY <1>2
<1>4. \A x \in T : \E list \in [1 .. Cardinality(T \ {x}) -> T \ {x}] : Ascending(list)
  BY <1>2
<1> HIDE DEF F
<1>5. IsFiniteSet(T) /\ Cardinality(T) \in Nat
  BY <1>3, FS_Subset, FS_CardinalityType
<1>6. T # {}
  <2> SUFFICES ASSUME T = {}
               PROVE  FALSE
    OBVIOUS
  <2>1. Cardinality(T) = 0
    BY FS_EmptySet
  <2>2. [n \in 1 .. 0 |-> 0] \in [1 .. 0 -> T] /\ Ascending([n \in 1 .. 0 |-> 0])
    BY DEF Ascending
  <2> QED
    BY <1>3, <2>1, <2>2
<1>7. PICK x \in T : \A y \in T \ {x} : Expiry[x] < Expiry[y]
  <2>1. T \in SUBSET Batch
    BY <1>3
  <2> QED
    BY <1>6, <2>1, FirstToExpire
<1>8. PICK k \in Nat : k = Cardinality(T \ {x}) /\ Cardinality(T) = k + 1
  <2>1. IsFiniteSet(T \ {x}) /\ Cardinality(T \ {x}) = Cardinality(T) - 1
    BY <1>5, FS_RemoveElement
  <2>2. Cardinality(T \ {x}) \in Nat
    BY <2>1, FS_CardinalityType
  <2> QED
    BY <1>5, <2>1, <2>2
<1>9. PICK later \in [1 .. k -> T \ {x}] : Ascending(later)
  BY <1>4, <1>8
<1> DEFINE list == [n \in 1 .. k + 1 |-> IF n = 1 THEN x ELSE later[n - 1]]
<1>10. /\ list[1] = x /\ DOMAIN list = 1 .. k + 1
       /\ \A n \in 2 .. k + 1 : list[n] = later[n - 1] /\ n - 1 \in 1 .. k
  OBVIOUS
<1>11. list \in [1 .. k + 1 -> T]
  BY <1>9
<1> HIDE DEF list
<1>12. Ascending(list)
  <2> SUFFICES ASSUME NEW n \in 1 .. k + 1, NEW m \in 1 .. k + 1, n < m
               PROVE  Expiry[list[n]] < Expiry[list[m]]
    BY <1>10 DEF Ascending
  <2>1. list[m] = later[m - 1] /\ m - 1 \in 1 .. k
    BY <1>10
  <2>2. CASE n = 1
    BY <1>7, <1>9, <1>10, <2>1, <2>2
  <2>3. CASE n # 1
    <3>1. list[n] = later[n - 1] /\ n - 1 \in 1 .. k /\ n - 1 < m - 1
      BY <1>10, <2>3
    <3> QED
      BY <1>9, <2>1, <3>1 DEF Ascending
  <2> QED
    BY <2>2, <2>3
<1> QED
  BY <1>3, <1>8, <1>11, <1>12

\* The list of candidates has every candidate once.
LEMMA ListIsOrdered ==
  ASSUME BatchInv, NEW x, NEW w
  PROVE  /\ IsFiniteSet(Candidates(x, w)) /\ Cardinality(Candidates(x, w)) \in Nat
         /\ CandidateList(x, w) \in [1 .. Cardinality(Candidates(x, w)) -> Candidates(x, w)]
         /\ Ascending(CandidateList(x, w))
         /\ \A b \in Candidates(x, w) :
               \E n \in DOMAIN CandidateList(x, w) : CandidateList(x, w)[n] = b
<1> DEFINE S == Candidates(x, w)
           list == CandidateList(x, w)
<1>1. S \in SUBSET Known /\ S \in SUBSET Batch
  BY DEF Candidates, Known
<1>2. IsFiniteSet(S) /\ Cardinality(S) \in Nat
  BY <1>1, FS_Subset, FS_CardinalityType DEF BatchInv
<1>3. \E l \in [1 .. Cardinality(S) -> S] : Ascending(l)
  <2> HIDE DEF S
  <2> QED
    BY <1>1, <1>2, SomeListAscends
<1>4. list \in [1 .. Cardinality(S) -> S] /\ Ascending(list)
  BY <1>3 DEF CandidateList, Ascending
<1> HIDE DEF S, list
<1>5. ASSUME NEW n \in 1 .. Cardinality(S), NEW m \in 1 .. Cardinality(S), n # m
      PROVE  list[n] # list[m]
  <2>1. n < m \/ m < n
    BY <1>2, <1>5
  <2>2. Expiry[list[n]] \in Nat /\ Expiry[list[m]] \in Nat
    BY <1>1, <1>4, ExpiryIsAnOrder
  <2>3. Expiry[list[n]] < Expiry[list[m]] \/ Expiry[list[m]] < Expiry[list[n]]
    BY <1>4, <2>1 DEF Ascending
  <2> QED
    BY <2>2, <2>3
<1>6. list \in Injection(1 .. Cardinality(S), S)
  BY <1>4, <1>5 DEF Injection, IsInjective
<1>7. Cardinality(1 .. Cardinality(S)) = Cardinality(S)
  BY <1>2, FS_Interval
<1>8. list \in Surjection(1 .. Cardinality(S), S)
  BY <1>2, <1>6, <1>7, FS_Injection
<1>9. \A b \in S : \E n \in 1 .. Cardinality(S) : list[n] = b
  BY <1>8 DEF Surjection
<1> QED
  BY <1>2, <1>4, <1>9 DEF S, list

\* What is still required is a function that its recursion determines.
Runs(g, list, required, last) ==
    g = [n \in 0 .. last |->
            IF n = 0 THEN required
            ELSE g[n - 1] - Lesser(batch[list[n]].onHand, g[n - 1])]

LEMMA SomethingRuns ==
  ASSUME NEW list, NEW required, NEW last \in Nat
  PROVE  \E g : Runs(g, list, required, last)
<1> DEFINE N == {m \in Nat : ~\E g : Runs(g, list, required, m)}
           Next(g, n) == g[n - 1] - Lesser(batch[list[n]].onHand, g[n - 1])
<1> SUFFICES ASSUME N # {}
             PROVE  FALSE
  OBVIOUS
<1>1. PICK m \in N : \A k \in N : m <= k
  <2>1. N \in SUBSET Nat
    OBVIOUS
  <2> HIDE DEF N
  <2> QED
    BY <2>1, SmallestNumber
<1>2. CASE m = 0
  <2> DEFINE g == [n \in 0 .. 0 |-> required]
  <2>1. Runs(g, list, required, 0)
    BY DEF Runs
  <2> QED
    BY <1>1, <1>2, <2>1
<1>3. CASE m # 0
  <2>1. m - 1 \in Nat /\ m - 1 \notin N
    BY <1>1, <1>3
  <2>2. PICK g : Runs(g, list, required, m - 1)
    BY <2>1
  <2> DEFINE h == [n \in 0 .. m |-> IF n = m THEN Next(g, m) ELSE g[n]]
  <2>3. \A n \in 0 .. m - 1 : g[n] = IF n = 0 THEN required ELSE Next(g, n)
    BY <2>2 DEF Runs
  <2>4. \A n \in 0 .. m : h[n] = IF n = 0 THEN required ELSE Next(h, n)
    <3> SUFFICES ASSUME NEW n \in 0 .. m
                 PROVE  h[n] = IF n = 0 THEN required ELSE Next(h, n)
      OBVIOUS
    <3>1. n # 0 => h[n - 1] = g[n - 1]
      OBVIOUS
    <3>2. n = m => h[n] = Next(g, n)
      OBVIOUS
    <3>3. n # m => h[n] = g[n] /\ n \in 0 .. m - 1
      OBVIOUS
    <3> HIDE DEF h
    <3> QED
      BY <1>3, <2>3, <3>1, <3>2, <3>3
  <2>5. h = [n \in 0 .. m |-> h[n]]
    OBVIOUS
  <2> HIDE DEF h
  <2>6. Runs(h, list, required, m)
    BY <2>4, <2>5 DEF Runs
  <2> QED
    BY <1>1, <2>6
<1> QED
  BY <1>2, <1>3

\* Each batch takes what it has from what is required, but no more than that.
Taken(h, r, last, required) ==
    /\ r[0] = required
    /\ \A n \in 1 .. last : r[n] = r[n - 1] - Lesser(h[n], r[n - 1])

LEMMA RemainingTaken ==
  ASSUME NEW last \in Nat, NEW list, Len(list) = last, NEW required, NEW h,
         \A n \in 1 .. last : h[n] = batch[list[n]].onHand
  PROVE  Taken(h, Remaining(list, required), last, required)
<1> DEFINE r == Remaining(list, required)
<1>1. Runs(r, list, required, last)
  <2>1. r = CHOOSE g : Runs(g, list, required, last)
    BY DEF Remaining, Runs
  <2>2. \E g : Runs(g, list, required, last)
    BY SomethingRuns
  <2> HIDE DEF r
  <2> QED
    BY <2>1, <2>2
<1> HIDE DEF r
<1>2. \A n \in 0 .. last : r[n] = IF n = 0 THEN required
                                 ELSE r[n - 1] - Lesser(batch[list[n]].onHand, r[n - 1])
  BY <1>1 DEF Runs
<1>3. r[0] = required
  BY <1>2
<1>4. \A n \in 1 .. last : r[n] = r[n - 1] - Lesser(h[n], r[n - 1])
  BY <1>2
<1> QED
  BY <1>3, <1>4 DEF Taken, r

\* What is required never grows, and never becomes less than nothing.
LEMMA RemainingFalls ==
  ASSUME NEW last \in Nat, NEW required \in Nat, NEW h \in [1 .. last -> Nat], NEW r,
         Taken(h, r, last, required)
  PROVE  /\ \A n \in 0 .. last : r[n] \in Nat
         /\ \A n, m \in 0 .. last : n <= m => r[m] <= r[n]
<1> DEFINE N == {m \in 0 .. last : ~(r[m] \in Nat)}
<1>1. N = {}
  <2> SUFFICES ASSUME N # {}
               PROVE  FALSE
    OBVIOUS
  <2>1. PICK m \in N : \A k \in N : m <= k
    <3>1. N \in SUBSET Nat
      OBVIOUS
    <3> HIDE DEF N
    <3> QED
      BY <3>1, SmallestNumber
  <2>2. m \in 1 .. last /\ m - 1 \in 0 .. last /\ m - 1 \notin N
    BY <2>1 DEF Taken
  <2>3. r[m - 1] \in Nat /\ h[m] \in Nat
    BY <2>2
  <2>4. r[m] = r[m - 1] - Lesser(h[m], r[m - 1])
    BY <2>2 DEF Taken
  <2>5. r[m] \in Nat
    BY <2>3, <2>4 DEF Lesser
  <2> QED
    BY <2>5
<1>2. \A n \in 0 .. last : r[n] \in Nat
  BY <1>1
<1>3. ASSUME NEW n \in 1 .. last
      PROVE  r[n] <= r[n - 1]
  <2>1. r[n - 1] \in Nat /\ h[n] \in Nat /\ r[n] = r[n - 1] - Lesser(h[n], r[n - 1])
    BY <1>2 DEF Taken
  <2> QED
    BY <2>1 DEF Lesser
<1> DEFINE M == {m \in 0 .. last : \E n \in 0 .. m : ~(r[m] <= r[n])}
<1>4. M = {}
  <2> SUFFICES ASSUME M # {}
               PROVE  FALSE
    OBVIOUS
  <2>1. PICK m \in M : \A k \in M : m <= k
    <3>1. M \in SUBSET Nat
      OBVIOUS
    <3> HIDE DEF M
    <3> QED
      BY <3>1, SmallestNumber
  <2>2. PICK n \in 0 .. m : ~(r[m] <= r[n])
    BY <2>1
  <2>3. m \in 0 .. last /\ n # m
    BY <1>2, <2>1, <2>2
  <2>4. m \in 1 .. last /\ m - 1 \in 0 .. last /\ n \in 0 .. m - 1 /\ m - 1 \notin M
    BY <2>1, <2>2, <2>3
  <2>5. r[m - 1] <= r[n]
    BY <2>4
  <2>6. r[m] \in Nat /\ r[m - 1] \in Nat /\ r[n] \in Nat /\ r[m] <= r[m - 1]
    BY <1>2, <1>3, <2>3, <2>4
  <2> QED
    BY <2>2, <2>5, <2>6
<1>5. \A n, m \in 0 .. last : n <= m => r[m] <= r[n]
  BY <1>4
<1> QED
  BY <1>2, <1>5

\* A set of numbers that a count cannot leave.
LEMMA CountedUp ==
  ASSUME NEW last \in Nat, NEW G, 0 \in G, \A m \in 1 .. last : m - 1 \in G => m \in G
  PROVE  last \in G
<1> DEFINE N == {m \in 0 .. last : m \notin G}
<1> SUFFICES ASSUME last \notin G
             PROVE  FALSE
  OBVIOUS
<1>1. last \in N
  OBVIOUS
<1>2. PICK m \in N : \A k \in N : m <= k
  <2>1. N \in SUBSET Nat
    OBVIOUS
  <2> HIDE DEF N
  <2> QED
    BY <1>1, <2>1, SmallestNumber
<1>3. m \in 0 .. last /\ m \notin G
  BY <1>2
<1>4. m \in 1 .. last
  BY <1>3
<1>5. m - 1 \in 0 .. last /\ ~(m <= m - 1)
  BY <1>4
<1>6. m - 1 \notin N
  BY <1>2, <1>5
<1>7. m - 1 \in G
  BY <1>5, <1>6
<1> QED
  BY <1>3, <1>4, <1>7

\* The lines add up to what is no longer required.
LEMMA LinesAddUp ==
  ASSUME NEW last \in Nat, NEW required \in Nat, NEW h \in [1 .. last -> Nat], NEW r,
         Taken(h, r, last, required), NEW issue,
         \A n \in 1 .. last : r[n - 1] > 0 => issue[n] = Lesser(h[n], r[n - 1])
  PROVE  Total(issue, {n \in 1 .. last : r[n - 1] > 0}) = required - r[last]
<1> DEFINE V(m) == {n \in 1 .. m : r[n - 1] > 0}
           G == {m \in 0 .. last : Total(issue, V(m)) = required - r[m]}
<1>1. 0 \in G
  <2>1. V(0) = {}
    OBVIOUS
  <2>2. Total(issue, V(0)) = required - r[0]
    BY <2>1, TotalOfNone DEF Taken
  <2> QED
    BY <2>2
<1>2. ASSUME NEW m \in 1 .. last, m - 1 \in G
      PROVE  m \in G
  <2>1. m \in 0 .. last /\ m - 1 \in 0 .. last
    OBVIOUS
  <2>2. Total(issue, V(m - 1)) = required - r[m - 1]
    BY <1>2
  <2>3. r[m - 1] \in Nat /\ h[m] \in Nat /\ r[m] = r[m - 1] - Lesser(h[m], r[m - 1])
    BY <2>1, RemainingFalls DEF Taken
  <2>4. PICK W : W = V(m)
    OBVIOUS
  <2>5. PICK U : U = V(m - 1) /\ Total(issue, U) = required - r[m - 1]
    BY <2>2
  <2>6. Total(issue, W) = required - r[m]
    <3>1. CASE r[m - 1] > 0
      <4>1. m \in W /\ W \ {m} = U
        BY <2>4, <2>5, <3>1
      <4>2. IsFiniteSet(W)
        <5>1. IsFiniteSet(1 .. m) /\ W \in SUBSET (1 .. m)
          BY <2>1, <2>4, FS_Interval
        <5> QED
          BY <5>1, FS_Subset
      <4>3. \A n \in W : issue[n] \in Int
        <5> SUFFICES ASSUME NEW n \in W
                     PROVE  issue[n] \in Int
          OBVIOUS
        <5>1. n \in 1 .. last /\ n - 1 \in 0 .. last /\ r[n - 1] > 0
          BY <2>1, <2>4
        <5>2. r[n - 1] \in Nat /\ h[n] \in Nat
          BY <5>1, RemainingFalls
        <5> QED
          <6>1. issue[n] = Lesser(h[n], r[n - 1])
            BY <5>1
          <6> HIDE DEF V, G
          <6> QED
            BY <5>2, <6>1 DEF Lesser
      <4>4. issue[m] = Lesser(h[m], r[m - 1])
        BY <3>1
      <4> HIDE DEF V, G
      <4>5. Total(issue, W) = issue[m] + Total(issue, W \ {m})
        BY ZenonT(40), <4>1, <4>2, <4>3, TotalSplit
      <4>6. Total(issue, W) = Lesser(h[m], r[m - 1]) + (required - r[m - 1])
        BY <2>5, <4>1, <4>4, <4>5
      <4>7. Lesser(h[m], r[m - 1]) \in Nat
        BY <2>3 DEF Lesser
      <4> QED
        BY <2>3, <4>6, <4>7
    <3>2. CASE ~(r[m - 1] > 0)
      <4>1. m \notin W /\ W \ {m} = U
        BY <2>4, <2>5, <3>2
      <4>2. r[m] = r[m - 1]
        BY <2>3, <3>2 DEF Lesser
      <4> HIDE DEF V, G
      <4> QED
        BY <2>5, <4>1, <4>2
    <3> QED
      BY <3>1, <3>2
  <2> QED
    BY <2>1, <2>4, <2>6
<1>3. last \in G
  <2> HIDE DEF G
  <2> QED
    BY <1>1, <1>2, CountedUp
<1> QED
  BY <1>3

\* The batches of B in the order of a list, with what each has in h and in f.
Lists(list, last, h, f, B) ==
    /\ \A n \in 1 .. last : f[list[n]] = h[n]
    /\ \A n, m \in 1 .. last : n # m => list[n] # list[m]
    /\ \A n \in 1 .. last : list[n] \in B
    /\ \A b \in B : \E n \in 1 .. last : list[n] = b

\* What is still required after a list is what its batches do not have.
LEMMA ListAddsUp ==
  ASSUME NEW last \in Nat, NEW required \in Nat, NEW h \in [1 .. last -> Nat], NEW r,
         Taken(h, r, last, required), NEW list, NEW f, NEW B, Lists(list, last, h, f, B)
  PROVE  required - r[last] = Lesser(required, Total(f, B))
<1> DEFINE L(m) == {list[n] : n \in 1 .. m}
           Fits(m, S) == /\ IsFiniteSet(S) /\ Total(f, S) \in Nat
                         /\ required - r[m] = Lesser(required, Total(f, S))
           G == {m \in 0 .. last : Fits(m, L(m))}
<1>1. 0 \in G
  <2>1. L(0) = {}
    OBVIOUS
  <2>2. Total(f, {}) = 0 /\ IsFiniteSet({})
    BY TotalOfNone, FS_EmptySet
  <2>3. Fits(0, {})
    BY <2>2 DEF Taken, Lesser
  <2> HIDE DEF L, Fits
  <2>4. Fits(0, L(0))
    BY <2>1, <2>3
  <2> QED
    BY <2>4
<1>2. ASSUME NEW m \in 1 .. last, m - 1 \in G
      PROVE  m \in G
  <2>1. m \in 0 .. last /\ m - 1 \in 0 .. last
    OBVIOUS
  <2>2. r[m - 1] \in Nat /\ h[m] \in Nat /\ r[m] = r[m - 1] - Lesser(h[m], r[m - 1])
    <3>1. r[m] = r[m - 1] - Lesser(h[m], r[m - 1])
      BY DEF Taken
    <3>2. \A n \in 0 .. last : r[n] \in Nat
      BY RemainingFalls
    <3> HIDE DEF L, Fits, G
    <3> QED
      BY <2>1, <3>1, <3>2
  <2>3. PICK S : S = L(m - 1)
    OBVIOUS
  <2>4. Fits(m - 1, S)
    BY <1>2, <2>3
  <2>5. L(m) = S \cup {list[m]}
    BY <2>3
  <2>6. list[m] \notin S
    BY <2>1, <2>3 DEF Lists
  <2>7. /\ \A b \in S : f[b] \in Int
        /\ f[list[m]] = h[m]
    BY <2>1, <2>3 DEF Lists
  <2> HIDE DEF L, G
  <2>8. PICK T \in Nat : T = Total(f, S) /\ required - r[m - 1] = Lesser(required, T)
    BY <2>4
  <2>9. Total(f, S \cup {list[m]}) = f[list[m]] + Total(f, S)
    <3>1. IsFiniteSet(S) /\ f[list[m]] \in Int /\ \A b \in S : f[b] \in Int /\ f[b] = f[b]
      BY <2>2, <2>4, <2>7
    <3> HIDE DEF Fits
    <3> QED
      BY SMTT(20), <2>6, <3>1, TotalGrows
  <2>10. IsFiniteSet(S \cup {list[m]})
    BY <2>4, FS_AddElement
  <2>11. required - r[m] = Lesser(required, h[m] + T) /\ h[m] + T \in Nat
    BY SMTT(20), <2>2, <2>8 DEF Lesser
  <2>12. Fits(m, S \cup {list[m]})
    BY <2>7, <2>8, <2>9, <2>10, <2>11
  <2> QED
    BY <2>1, <2>5, <2>12 DEF G
<1>3. last \in G
  <2> HIDE DEF G
  <2> QED
    BY <1>1, <1>2, CountedUp
<1>4. L(last) = B
  BY DEF Lists
<1>5. Fits(last, L(last))
  BY <1>3
<1> HIDE DEF L
<1> QED
  BY <1>4, <1>5

\* A preview, line by line: h is what the batches of the list have, r what is
\* required before and after each of them.
Follows(list, last, h, r, lines, x, w, required) ==
    /\ last \in Nat
    /\ list \in [1 .. last -> Candidates(x, w)]
    /\ h \in [1 .. last -> Nat]
    /\ \A n \in 1 .. last : h[n] > 0 /\ h[n] = batch[list[n]].onHand
    /\ Taken(h, r, last, required)
    /\ DOMAIN lines = {n \in 1 .. last : r[n - 1] > 0}
    /\ \A n \in DOMAIN lines : /\ lines[n].batch = list[n]
                               /\ lines[n].issue = Lesser(h[n], r[n - 1])

LEMMA PreviewFollows ==
  ASSUME BatchInv, NEW x, NEW w, NEW required \in Nat
  PROVE  \E last, h, r :
            Follows(CandidateList(x, w), last, h, r, Preview(x, w, required), x, w, required)
<1> DEFINE last == Cardinality(Candidates(x, w))
           list == CandidateList(x, w)
           h == [n \in 1 .. last |-> batch[list[n]].onHand]
           r == Remaining(list, required)
           lines == Preview(x, w, required)
<1>1. last \in Nat /\ list \in [1 .. last -> Candidates(x, w)]
  BY ListIsOrdered
<1>2. lines = [n \in {m \in DOMAIN list : r[m - 1] > 0} |->
                  [batch |-> list[n], issue |-> Lesser(batch[list[n]].onHand, r[n - 1])]]
  BY DEF Preview
<1>3. \A b \in Candidates(x, w) : batch[b].onHand \in Int /\ batch[b].onHand > 0
  BY DEF Candidates, BatchInv, StockTypeOK, BatchRow
<1> HIDE DEF last, list, r, lines
<1>4. /\ h \in [1 .. last -> Nat]
      /\ \A n \in 1 .. last : h[n] > 0 /\ h[n] = batch[list[n]].onHand
  BY <1>1, <1>3
<1> HIDE DEF h
<1>5. Len(list) = last
  BY <1>1
<1>6. Taken(h, r, last, required)
  BY <1>1, <1>4, <1>5, RemainingTaken DEF r
<1>7. DOMAIN lines = {n \in 1 .. last : r[n - 1] > 0}
  BY <1>1, <1>2
<1>8. \A n \in DOMAIN lines : /\ lines[n].batch = list[n]
                              /\ lines[n].issue = Lesser(h[n], r[n - 1])
  BY <1>1, <1>2, <1>4
<1>9. Follows(list, last, h, r, lines, x, w, required)
  BY <1>1, <1>4, <1>6, <1>7, <1>8 DEF Follows
<1> QED
  BY <1>9 DEF list, lines

LEMMA CandidatesAreStocked ==
  ASSUME NEW x, NEW w
  PROVE  Candidates(x, w) = Stocked(x, w)
  BY DEF Candidates, Stocked, Unblocked

LEMMA PreviewIsIssuable == BatchInv => PreviewCanBeIssued
<1> SUFFICES ASSUME BatchInv, NEW x \in Product, NEW w \in Warehouse \cup {None},
                    NEW required \in Quantity
             PROVE  LET lines == Preview(x, w, required)
                        held == Total([b \in Stocked(x, w) |-> batch[b].onHand], Stocked(x, w))
                    IN
                    /\ \A n \in DOMAIN lines :
                          lines[n].issue > 0 /\ BatchServes(lines[n].batch, x, lines[n].issue)
                    /\ \A n, m \in DOMAIN lines : lines[n].batch = lines[m].batch => n = m
                    /\ Total([n \in DOMAIN lines |-> lines[n].issue], DOMAIN lines) =
                          Lesser(required, held)
  BY DEF PreviewCanBeIssued
<1> DEFINE lines == Preview(x, w, required)
           list == CandidateList(x, w)
           held == [b \in Stocked(x, w) |-> batch[b].onHand]
           issue == [n \in DOMAIN lines |-> lines[n].issue]
<1>1. required \in Nat
  BY BoundsAreNaturals DEF Quantity
<1>2. PICK last, h, r : Follows(list, last, h, r, lines, x, w, required)
  BY <1>1, PreviewFollows
<1> HIDE DEF lines, list
<1>3. \A n \in 0 .. last : r[n] \in Nat
  BY <1>1, <1>2, RemainingFalls DEF Follows
<1>4. ASSUME NEW n \in DOMAIN lines
      PROVE  lines[n].issue > 0 /\ BatchServes(lines[n].batch, x, lines[n].issue)
  <2>1. n \in 1 .. last /\ r[n - 1] > 0
    BY <1>2 DEF Follows
  <2>2. h[n] \in Nat /\ r[n - 1] \in Nat
    BY <1>2, <1>3, <2>1 DEF Follows
  <2>3. /\ list[n] \in Candidates(x, w) /\ h[n] > 0 /\ h[n] = batch[list[n]].onHand
        /\ lines[n].batch = list[n] /\ lines[n].issue = Lesser(h[n], r[n - 1])
    BY <1>2, <2>1 DEF Follows
  <2>4. lines[n].issue > 0 /\ batch[list[n]].onHand >= lines[n].issue
    BY <2>1, <2>2, <2>3 DEF Lesser
  <2>5. BatchServes(list[n], x, lines[n].issue)
    BY <2>3, <2>4 DEF BatchServes, BatchMatches, Candidates
  <2> QED
    BY <2>3, <2>4, <2>5
<1>5. Total(issue, DOMAIN lines) = required - r[last]
  <2>1. DOMAIN lines = {n \in 1 .. last : r[n - 1] > 0}
    BY <1>2 DEF Follows
  <2>2. \A n \in 1 .. last : r[n - 1] > 0 => issue[n] = Lesser(h[n], r[n - 1])
    BY <1>2, <2>1 DEF Follows
  <2> HIDE DEF issue
  <2>3. Total(issue, {n \in 1 .. last : r[n - 1] > 0}) = required - r[last]
    <3>1. last \in Nat /\ h \in [1 .. last -> Nat] /\ Taken(h, r, last, required)
      BY <1>2 DEF Follows
    <3> QED
      BY <1>1, <2>2, <3>1, LinesAddUp
  <2> QED
    BY <2>1, <2>3
<1>6. /\ {list[n] : n \in 1 .. last} = Candidates(x, w)
      /\ \A n, m \in 1 .. last : n # m => list[n] # list[m]
  <2>1. /\ DOMAIN list = 1 .. last /\ Ascending(list)
        /\ \A b \in Candidates(x, w) : \E n \in DOMAIN list : list[n] = b
    <3>1. DOMAIN list = 1 .. last
      BY <1>2 DEF Follows
    <3>2. /\ Ascending(list)
          /\ \A b \in Candidates(x, w) : \E n \in DOMAIN list : list[n] = b
      BY ListIsOrdered DEF list
    <3> QED
      BY <3>1, <3>2
  <2>2. {list[n] : n \in 1 .. last} = Candidates(x, w)
    BY <1>2, <2>1 DEF Follows
  <2>3. \A n, m \in 1 .. last : n # m => list[n] # list[m]
    <3> SUFFICES ASSUME NEW n \in 1 .. last, NEW m \in 1 .. last, n < m
                 PROVE  list[n] # list[m]
      BY <1>2 DEF Follows
    <3>1. list[n] \in Batch /\ Expiry[list[n]] < Expiry[list[m]]
      BY <1>2, <2>1 DEF Follows, Ascending, Candidates
    <3> QED
      BY <3>1, ExpiryIsAnOrder
  <2> QED
    BY <2>2, <2>3
<1>7. required - r[last] = Lesser(required, Total(held, Candidates(x, w)))
  <2>1. Candidates(x, w) = Stocked(x, w)
    BY CandidatesAreStocked
  <2>2. \A n \in 1 .. last : held[list[n]] = h[n]
    BY <1>2, <2>1 DEF Follows
  <2> HIDE DEF held
  <2>3. required - r[last] = Lesser(required, Total(held, Candidates(x, w)))
    <3>1. last \in Nat /\ h \in [1 .. last -> Nat] /\ Taken(h, r, last, required)
      BY <1>2 DEF Follows
    <3>2. \A n, m \in 1 .. last : n # m => list[n] # list[m]
      BY <1>6
    <3>3. PICK B : B = Candidates(x, w)
      OBVIOUS
    <3>4. /\ \A n \in 1 .. last : list[n] \in B
          /\ \A b \in B : \E n \in 1 .. last : list[n] = b
      BY <1>6, <3>3
    <3>5. Lists(list, last, h, held, B)
      BY <2>2, <3>2, <3>4 DEF Lists
    <3>6. required - r[last] = Lesser(required, Total(held, B))
      BY <1>1, <3>1, <3>5, ListAddsUp
    <3> QED
      BY <3>3, <3>6
  <2> QED
    BY <2>3
<1>8. \A n, m \in DOMAIN lines : lines[n].batch = lines[m].batch => n = m
  <2>1. \A n \in DOMAIN lines : n \in 1 .. last /\ lines[n].batch = list[n]
    BY <1>2 DEF Follows
  <2> QED
    BY <1>6, <2>1
<1>9. Total(issue, DOMAIN lines) = Lesser(required, Total(held, Stocked(x, w)))
  BY <1>5, <1>7, CandidatesAreStocked
<1> QED
  BY <1>4, <1>8, <1>9 DEF lines

LEMMA EarliestIsIssued == BatchInv => FirstExpiredFirstOut
<1> SUFFICES ASSUME BatchInv, NEW x \in Product, NEW w \in Warehouse \cup {None},
                    NEW required \in Quantity,
                    NEW n \in DOMAIN Preview(x, w, required), NEW b \in Unblocked(x, w),
                    Expiry[b] < Expiry[Preview(x, w, required)[n].batch],
                    batch[b].onHand > 0
             PROVE  \E m \in DOMAIN Preview(x, w, required) :
                       /\ Preview(x, w, required)[m].batch = b
                       /\ Preview(x, w, required)[m].issue = batch[b].onHand
  BY DEF FirstExpiredFirstOut
<1> DEFINE lines == Preview(x, w, required)
           list == CandidateList(x, w)
<1>1. required \in Nat
  BY BoundsAreNaturals DEF Quantity
<1>2. PICK last, h, r : Follows(list, last, h, r, lines, x, w, required)
  BY <1>1, PreviewFollows
<1>3. /\ Ascending(list)
      /\ \A c \in Candidates(x, w) : \E m \in DOMAIN list : list[m] = c
  BY ListIsOrdered
<1>4. n \in DOMAIN lines /\ Expiry[b] < Expiry[lines[n].batch]
  OBVIOUS
<1> HIDE DEF lines, list
<1>5. n \in 1 .. last /\ r[n - 1] > 0 /\ lines[n].batch = list[n]
  BY <1>2, <1>4 DEF Follows
<1>6. b \in Candidates(x, w)
  BY DEF Unblocked, Candidates
<1>7. PICK m \in 1 .. last : list[m] = b
  BY <1>2, <1>3, <1>6 DEF Follows
<1>8. m < n
  <2>1. Expiry[b] \in Nat /\ Expiry[list[n]] \in Nat
    BY <1>2, <1>5, <1>6, ExpiryIsAnOrder DEF Follows, Candidates
  <2>2. n \in DOMAIN list /\ m \in DOMAIN list /\ last \in Nat
    BY <1>2, <1>5 DEF Follows
  <2>3. Expiry[list[m]] < Expiry[list[n]]
    BY <1>4, <1>5, <1>7
  <2>4. n < m => Expiry[list[n]] < Expiry[list[m]]
    BY <1>3, <2>2 DEF Ascending
  <2>5. ~(n < m) /\ n # m
    BY <1>7, <2>1, <2>3, <2>4
  <2>6. n \in Int /\ m \in Int
    BY <1>5, <2>2
  <2> QED
    BY <2>5, <2>6
<1>9. m - 1 \in 0 .. last /\ n - 1 \in 0 .. last /\ m <= n - 1 /\ m - 1 <= n - 1
  BY <1>2, <1>5, <1>8 DEF Follows
<1>10. /\ r[m - 1] \in Nat /\ r[m] \in Nat /\ r[n - 1] \in Nat
       /\ r[n - 1] <= r[m] /\ r[n - 1] <= r[m - 1]
  BY <1>1, <1>2, <1>9, RemainingFalls DEF Follows
<1>11. m \in DOMAIN lines
  BY <1>2, <1>5, <1>10 DEF Follows
<1>12. /\ lines[m].batch = b /\ lines[m].issue = Lesser(h[m], r[m - 1])
       /\ h[m] = batch[b].onHand /\ h[m] \in Nat
       /\ r[m] = r[m - 1] - Lesser(h[m], r[m - 1])
  BY <1>2, <1>7, <1>11 DEF Follows, Taken
<1>13. lines[m].issue = batch[b].onHand
  BY <1>5, <1>10, <1>12 DEF Lesser
<1> QED
  BY <1>11, <1>12, <1>13 DEF lines

(***************************************************************************)
(* Whatever was created, received, issued, moved or blocked before, the    *)
(* lines of a FEFO preview are of different batches, pass the batch checks *)
(* of create_transaction and add up to the lesser of what is asked and     *)
(* what the unblocked batches with stock hold: the PreviewCanBeIssued of   *)
(* the runs.                                                               *)
(***************************************************************************)
THEOREM PreviewsAreIssuable == StockSpec => []PreviewCanBeIssued
  BY BatchInvariant, PreviewIsIssuable, PTL

(***************************************************************************)
(* A FEFO preview empties every unblocked batch that expires before one it *)
(* touches, for any order of expiry: the FirstExpiredFirstOut of the runs. *)
(***************************************************************************)
THEOREM EarliestGoFirst == StockSpec => []FirstExpiredFirstOut
  BY BatchInvariant, EarliestIsIssued, PTL
=============================================================================
