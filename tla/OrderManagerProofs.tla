------------------------- MODULE OrderManagerProofs -------------------------
(***************************************************************************)
(* Theorems about OrderManager, for every number of venues, slots and       *)
(* orders, every queue capacity and every order size: the position is what  *)
(* was executed, every live order has its slot, and the ledger's pending    *)
(* quantities follow the working orders.                                    *)
(*                                                                         *)
(* None of the three is inductive: each relates a counter to what the other *)
(* thread has already done and this one has not yet heard of.  The          *)
(* strengthening says what the fill queue may hold: for each order, a chain *)
(* of growing cumulative fills, closed by at most one last update.          *)
(*                                                                         *)
(* The last part is about ShadowConnector, the connector whose reports the   *)
(* manager receives in paper trading: what it reported adds up to its       *)
(* position, and its cash, profit and position balance.                     *)
(***************************************************************************)
EXTENDS OrderManager, ShadowConnector, FiniteSetTheorems, WellFoundedInduction, TLAPS

-----------------------------------------------------------------------------
(* Sums over finite sets.  SumFunctionOnSet is a recursive function on the    *)
(* subsets of its domain; a counterexample to a fact about it would have one  *)
(* on a smallest subset.                                                     *)

Pick(S) == CHOOSE x \in S : TRUE
IsSum(g, f, S) ==
  g = [s \in SUBSET S |-> IF s = {} THEN 0 ELSE f[Pick(s)] + g[s \ {Pick(s)}]]

LEMMA PickIn == ASSUME NEW S, S # {} PROVE Pick(S) \in S
BY DEF Pick

\* A set of subsets of a finite set has a minimal element.
LEMMA MinimalSubset ==
  ASSUME NEW S, IsFiniteSet(S), NEW T, T \subseteq SUBSET S, T # {}
  PROVE  \E m \in T : \A y \in T : y \subseteq m => y = m
<1>1. IsWellFoundedOn(StrictSubsetOrdering(S), SUBSET S)
  BY FS_StrictSubsetOrderingWellFounded, FS_FiniteSubsetsOfFinite
<1>2. PICK m \in T : \A y \in T : ~(<<y, m>> \in StrictSubsetOrdering(S))
  BY <1>1, WFMin
<1>3. ASSUME NEW y \in T, y \subseteq m, y # m PROVE FALSE
  <2>1. <<y, m>> \in (SUBSET S) \X (SUBSET S)
    OBVIOUS
  <2> QED
    BY <1>2, <1>3, <2>1 DEF StrictSubsetOrdering
<1> QED
  BY <1>3

LEMMA SumsAgree ==
  ASSUME NEW S, IsFiniteSet(S), NEW R, NEW T, NEW e, NEW f,
         \A x \in S : e[x] = f[x], S \subseteq R, S \subseteq T,
         NEW g, NEW h, IsSum(g, e, R), IsSum(h, f, T)
  PROVE  g[S] = h[S]
<1> DEFINE Bad == {s \in SUBSET S : g[s] # h[s]}
<1> SUFFICES ASSUME g[S] # h[S] PROVE FALSE
  OBVIOUS
<1>1. Bad # {} /\ Bad \subseteq SUBSET S
  OBVIOUS
<1> HIDE DEF Bad
<1>2. PICK m \in Bad : \A y \in Bad : y \subseteq m => y = m
  BY <1>1, MinimalSubset
<1>3. m \subseteq S /\ g[m] # h[m]
  BY DEF Bad
<1>4. /\ g[m] = IF m = {} THEN 0 ELSE e[Pick(m)] + g[m \ {Pick(m)}]
      /\ h[m] = IF m = {} THEN 0 ELSE f[Pick(m)] + h[m \ {Pick(m)}]
  <2>1. m \in SUBSET R /\ m \in SUBSET T
    BY <1>3
  <2> QED
    BY <2>1 DEF IsSum
<1>5. m # {}
  BY <1>3, <1>4
<1>6. Pick(m) \in m /\ e[Pick(m)] = f[Pick(m)]
  BY <1>3, <1>5, PickIn
<1>7. g[m \ {Pick(m)}] = h[m \ {Pick(m)}]
  BY <1>2, <1>3, <1>6 DEF Bad
<1> QED
  BY <1>3, <1>4, <1>5, <1>6, <1>7

LEMMA SumExists ==
  ASSUME NEW S, IsFiniteSet(S), NEW f
  PROVE  \E g : IsSum(g, f, S)
<1> DEFINE Bad == {s \in SUBSET S : ~ \E g : IsSum(g, f, s)}
<1> SUFFICES ASSUME ~ \E g : IsSum(g, f, S) PROVE FALSE
  OBVIOUS
<1>1. Bad # {} /\ Bad \subseteq SUBSET S
  OBVIOUS
<1> HIDE DEF Bad
<1>2. PICK m \in Bad : \A y \in Bad : y \subseteq m => y = m
  BY <1>1, MinimalSubset
<1>3. m \subseteq S /\ ~ \E g : IsSum(g, f, m)
  BY DEF Bad
<1> DEFINE G(s) == CHOOSE g : IsSum(g, f, s)
<1>4. ASSUME NEW s, s \subseteq m, s # m PROVE IsSum(G(s), f, s)
  <2>1. s \notin Bad /\ s \in SUBSET S
    BY <1>2, <1>3, <1>4
  <2>2. \E g : IsSum(g, f, s)
    BY <2>1 DEF Bad
  <2> QED
    BY <2>2
<1> HIDE DEF G
<1>5. ASSUME NEW s, s \subseteq m, s # m, NEW t, t \subseteq s PROVE G(s)[t] = G(t)[t]
  <2>1. IsSum(G(s), f, s) /\ IsSum(G(t), f, t)
    BY <1>4, <1>5
  <2>2. IsFiniteSet(t)
    BY <1>3, <1>5, FS_Subset
  <2> QED
    BY <1>5, <2>1, <2>2, SumsAgree
<1> DEFINE h == [s \in SUBSET m |-> IF s = {} THEN 0 ELSE f[Pick(s)] + G(s \ {Pick(s)})[s \ {Pick(s)}]]
<1>6. ASSUME NEW s, s \subseteq m, s # m PROVE h[s] = G(s)[s]
  <2>1. h[s] = IF s = {} THEN 0 ELSE f[Pick(s)] + G(s \ {Pick(s)})[s \ {Pick(s)}]
    BY <1>6
  <2>2. G(s)[s] = IF s = {} THEN 0 ELSE f[Pick(s)] + G(s)[s \ {Pick(s)}]
    BY <1>4, <1>6 DEF IsSum
  <2>3. G(s)[s \ {Pick(s)}] = G(s \ {Pick(s)})[s \ {Pick(s)}]
    BY <1>5, <1>6
  <2> QED
    BY <2>1, <2>2, <2>3
<1>7. ASSUME NEW s \in SUBSET m
      PROVE  h[s] = IF s = {} THEN 0 ELSE f[Pick(s)] + h[s \ {Pick(s)}]
  <2>1. CASE s = {}
    BY <2>1
  <2>2. CASE s # {}
    <3>1. s \ {Pick(s)} \subseteq m /\ s \ {Pick(s)} # m
      BY <2>2, PickIn
    <3>2. h[s \ {Pick(s)}] = G(s \ {Pick(s)})[s \ {Pick(s)}]
      BY <1>6, <3>1
    <3> QED
      BY <2>2, <3>2
  <2> QED
    BY <2>1, <2>2
<1>8. IsSum(h, f, m)
  <2>1. h = [s \in SUBSET m |-> h[s]]
    OBVIOUS
  <2> HIDE DEF h
  <2>2. [s \in SUBSET m |-> h[s]] = [s \in SUBSET m |-> IF s = {} THEN 0 ELSE f[Pick(s)] + h[s \ {Pick(s)}]]
    BY <1>7
  <2> QED
    BY <2>1, <2>2 DEF IsSum
<1> QED
  BY <1>3, <1>8

LEMMA SumIs ==
  ASSUME NEW S, IsFiniteSet(S), NEW f
  PROVE  \E g : IsSum(g, f, S) /\ SumFunctionOnSet(f, S) = g[S]
<1>1. PICK g : IsSum(g, f, S)
  BY SumExists
<1>2. g = [s \in SUBSET S |-> IF s = {} THEN 0 ELSE f[CHOOSE x \in s : TRUE] + g[s \ {CHOOSE x \in s : TRUE}]]
  BY <1>1 DEF IsSum, Pick
<1>3. \E h : /\ h = [s \in SUBSET S |-> IF s = {} THEN 0 ELSE f[CHOOSE x \in s : TRUE] + h[s \ {CHOOSE x \in s : TRUE}]]
             /\ SumFunctionOnSet(f, S) = h[S]
  BY <1>2 DEF SumFunctionOnSet, FoldFunctionOnSet, MapThenFoldSet
<1> QED
  BY <1>3 DEF IsSum, Pick

LEMMA SumOfNone == ASSUME NEW f PROVE SumFunctionOnSet(f, {}) = 0
<1>1. PICK g : IsSum(g, f, {}) /\ SumFunctionOnSet(f, {}) = g[{}]
  BY FS_EmptySet, SumIs
<1> QED
  BY <1>1 DEF IsSum

LEMMA SumSame ==
  ASSUME NEW S, IsFiniteSet(S), NEW e, NEW f, \A x \in S : e[x] = f[x]
  PROVE  SumFunctionOnSet(e, S) = SumFunctionOnSet(f, S)
<1>1. PICK g : IsSum(g, e, S) /\ SumFunctionOnSet(e, S) = g[S]
  BY SumIs
<1>2. PICK h : IsSum(h, f, S) /\ SumFunctionOnSet(f, S) = h[S]
  BY SumIs
<1> QED
  BY <1>1, <1>2, SumsAgree

LEMMA SumOfSome ==
  ASSUME NEW S, IsFiniteSet(S), S # {}, NEW f
  PROVE  /\ Pick(S) \in S
         /\ SumFunctionOnSet(f, S) = f[Pick(S)] + SumFunctionOnSet(f, S \ {Pick(S)})
<1> DEFINE R == S \ {Pick(S)}
<1>0. Pick(S) \in S /\ R \subseteq S /\ IsFiniteSet(R)
  BY PickIn, FS_Subset
<1>1. PICK g : IsSum(g, f, S) /\ SumFunctionOnSet(f, S) = g[S]
  BY SumIs
<1>2. PICK h : IsSum(h, f, R) /\ SumFunctionOnSet(f, R) = h[R]
  BY <1>0, SumIs
<1>3. g[R] = h[R]
  BY <1>0, <1>1, <1>2, SumsAgree
<1>4. g[S] = f[Pick(S)] + g[R]
  BY <1>1 DEF IsSum
<1> QED
  BY <1>0, <1>1, <1>2, <1>3, <1>4

LEMMA SumType ==
  ASSUME NEW S, IsFiniteSet(S), NEW f, \A x \in S : f[x] \in Int
  PROVE  SumFunctionOnSet(f, S) \in Int
<1> DEFINE Bad == {s \in SUBSET S : SumFunctionOnSet(f, s) \notin Int}
<1> SUFFICES ASSUME SumFunctionOnSet(f, S) \notin Int PROVE FALSE
  OBVIOUS
<1>1. Bad # {} /\ Bad \subseteq SUBSET S
  OBVIOUS
<1> HIDE DEF Bad
<1>2. PICK m \in Bad : \A y \in Bad : y \subseteq m => y = m
  BY <1>1, MinimalSubset
<1>3. m \subseteq S /\ SumFunctionOnSet(f, m) \notin Int
  BY DEF Bad
<1>4. m # {}
  BY <1>3, SumOfNone
<1>5. /\ Pick(m) \in m
      /\ SumFunctionOnSet(f, m) = f[Pick(m)] + SumFunctionOnSet(f, m \ {Pick(m)})
  BY <1>3, <1>4, FS_Subset, SumOfSome
<1>6. SumFunctionOnSet(f, m \ {Pick(m)}) \in Int
  BY <1>2, <1>3, <1>5 DEF Bad
<1> QED
  BY <1>3, <1>5, <1>6

\* Any element may be taken out first.
LEMMA SumWithout ==
  ASSUME NEW S, IsFiniteSet(S), NEW f, \A x \in S : f[x] \in Int, NEW x \in S
  PROVE  SumFunctionOnSet(f, S) = f[x] + SumFunctionOnSet(f, S \ {x})
<1> DEFINE Bad == {s \in SUBSET S : \E y \in s : SumFunctionOnSet(f, s) # f[y] + SumFunctionOnSet(f, s \ {y})}
<1> SUFFICES ASSUME SumFunctionOnSet(f, S) # f[x] + SumFunctionOnSet(f, S \ {x}) PROVE FALSE
  OBVIOUS
<1>1. Bad # {} /\ Bad \subseteq SUBSET S
  OBVIOUS
<1> HIDE DEF Bad
<1>2. PICK m \in Bad : \A y \in Bad : y \subseteq m => y = m
  BY <1>1, MinimalSubset
<1>3. m \subseteq S /\ IsFiniteSet(m) /\ \E y \in m : SumFunctionOnSet(f, m) # f[y] + SumFunctionOnSet(f, m \ {y})
  BY FS_Subset DEF Bad
<1>4. PICK y \in m : SumFunctionOnSet(f, m) # f[y] + SumFunctionOnSet(f, m \ {y})
  BY <1>3
<1> DEFINE p == Pick(m)
<1>5. p \in m /\ SumFunctionOnSet(f, m) = f[p] + SumFunctionOnSet(f, m \ {p})
  BY <1>3, SumOfSome
<1> HIDE DEF p
<1>6. p # y
  BY <1>4, <1>5
<1>7. m \ {p} \notin Bad /\ m \ {y} \notin Bad /\ m \ {p} \in SUBSET S /\ m \ {y} \in SUBSET S
  BY <1>2, <1>3, <1>4, <1>5
<1>8. /\ SumFunctionOnSet(f, m \ {p}) = f[y] + SumFunctionOnSet(f, (m \ {p}) \ {y})
      /\ SumFunctionOnSet(f, m \ {y}) = f[p] + SumFunctionOnSet(f, (m \ {y}) \ {p})
  BY <1>4, <1>5, <1>6, <1>7 DEF Bad
<1>9. (m \ {p}) \ {y} = (m \ {y}) \ {p} /\ IsFiniteSet((m \ {y}) \ {p}) /\ \A z \in (m \ {y}) \ {p} : f[z] \in Int
  BY <1>3, FS_Subset
<1>10. f[p] \in Int /\ f[y] \in Int /\ SumFunctionOnSet(f, (m \ {y}) \ {p}) \in Int
  BY <1>3, <1>4, <1>5, <1>9, SumType
<1>11. /\ SumFunctionOnSet(f, m) = f[p] + (f[y] + SumFunctionOnSet(f, (m \ {y}) \ {p}))
       /\ SumFunctionOnSet(f, m \ {y}) = f[p] + SumFunctionOnSet(f, (m \ {y}) \ {p})
  BY <1>5, <1>8, <1>9
<1>12. SumFunctionOnSet(f, m) = f[y] + SumFunctionOnSet(f, m \ {y})
  BY <1>10, <1>11
<1> QED
  BY <1>4, <1>12

\* What the other elements contribute does not change.
LEMMA SumChanged ==
  ASSUME NEW S, IsFiniteSet(S), NEW e, NEW f, NEW x \in S,
         \A y \in S : e[y] \in Int /\ f[y] \in Int,
         \A y \in S \ {x} : e[y] = f[y]
  PROVE  SumFunctionOnSet(f, S) = SumFunctionOnSet(e, S) - e[x] + f[x]
<1>0. IsFiniteSet(S \ {x})
  BY FS_Subset
<1>1. /\ SumFunctionOnSet(e, S) = e[x] + SumFunctionOnSet(e, S \ {x})
      /\ SumFunctionOnSet(f, S) = f[x] + SumFunctionOnSet(f, S \ {x})
  BY SumWithout
<1>2. SumFunctionOnSet(e, S \ {x}) = SumFunctionOnSet(f, S \ {x})
  BY <1>0, SumSame
<1>3. SumFunctionOnSet(e, S \ {x}) \in Int /\ e[x] \in Int /\ f[x] \in Int
  BY <1>0, SumType
<1> QED
  BY <1>1, <1>2, <1>3

\* A sum of what is not negative is not negative.
LEMMA SumNat ==
  ASSUME NEW S, IsFiniteSet(S), NEW f, \A x \in S : f[x] \in Nat
  PROVE  SumFunctionOnSet(f, S) \in Nat
<1> DEFINE Bad == {s \in SUBSET S : SumFunctionOnSet(f, s) \notin Nat}
<1> SUFFICES ASSUME SumFunctionOnSet(f, S) \notin Nat PROVE FALSE
  OBVIOUS
<1>1. Bad # {} /\ Bad \subseteq SUBSET S
  OBVIOUS
<1> HIDE DEF Bad
<1>2. PICK m \in Bad : \A y \in Bad : y \subseteq m => y = m
  BY <1>1, MinimalSubset
<1>3. m \subseteq S /\ SumFunctionOnSet(f, m) \notin Nat
  BY DEF Bad
<1>4. m # {}
  BY <1>3, SumOfNone
<1>5. /\ Pick(m) \in m
      /\ SumFunctionOnSet(f, m) = f[Pick(m)] + SumFunctionOnSet(f, m \ {Pick(m)})
  BY <1>3, <1>4, FS_Subset, SumOfSome
<1>6. SumFunctionOnSet(f, m \ {Pick(m)}) \in Nat
  BY <1>2, <1>3, <1>5 DEF Bad
<1> QED
  BY <1>3, <1>5, <1>6

\* The same for the sum of all values of a function.
LEMMA SumAdded ==
  ASSUME NEW S, IsFiniteSet(S), NEW e, NEW f, NEW x, x \notin S,
         DOMAIN e = S, DOMAIN f = S \cup {x},
         \A y \in S : e[y] \in Int /\ f[y] = e[y], f[x] \in Int
  PROVE  SumFunction(f) = SumFunction(e) + f[x]
<1>1. IsFiniteSet(S \cup {x}) /\ (S \cup {x}) \ {x} = S
  BY FS_AddElement
<1>2. \A y \in S \cup {x} : f[y] \in Int
  OBVIOUS
<1>3. SumFunctionOnSet(f, S \cup {x}) = f[x] + SumFunctionOnSet(f, (S \cup {x}) \ {x})
  BY <1>1, <1>2, SumWithout
<1>4. SumFunctionOnSet(f, S) = SumFunctionOnSet(e, S)
  BY SumSame
<1>5. SumFunctionOnSet(e, S) \in Int
  BY SumType
<1>6. SumFunction(f) = SumFunctionOnSet(f, S \cup {x}) /\ SumFunction(e) = SumFunctionOnSet(e, S)
  BY DEF SumFunction
<1>7. SumFunction(f) = f[x] + SumFunction(e)
  BY <1>1, <1>3, <1>4, <1>6
<1> QED
  BY <1>5, <1>6, <1>7

LEMMA SumMoved ==
  ASSUME NEW S, IsFiniteSet(S), NEW e, NEW f, NEW x \in S,
         DOMAIN e = S, DOMAIN f = S,
         \A y \in S : e[y] \in Int /\ f[y] \in Int,
         \A y \in S \ {x} : e[y] = f[y]
  PROVE  SumFunction(f) = SumFunction(e) - e[x] + f[x]
BY SumChanged DEF SumFunction

LEMMA SumEqual ==
  ASSUME NEW S, IsFiniteSet(S), NEW e, NEW f, DOMAIN e = S, DOMAIN f = S,
         \A y \in S : e[y] = f[y]
  PROVE  SumFunction(f) = SumFunction(e)
BY SumSame DEF SumFunction

LEMMA SumInt ==
  ASSUME NEW S, IsFiniteSet(S), NEW f, DOMAIN f = S, \A x \in S : f[x] \in Int
  PROVE  SumFunction(f) \in Int
BY SumType DEF SumFunction

LEMMA SumNatural ==
  ASSUME NEW S, IsFiniteSet(S), NEW f, DOMAIN f = S, \A x \in S : f[x] \in Nat
  PROVE  SumFunction(f) \in Nat
BY SumNat DEF SumFunction

LEMMA SumOfZeros ==
  ASSUME NEW S, IsFiniteSet(S), NEW f, DOMAIN f = S, \A x \in S : f[x] = 0
  PROVE  SumFunction(f) = 0
<1>1. SumFunction(f) = SumFunctionOnSet(f, S)
  BY DEF SumFunction
<1> DEFINE Bad == {s \in SUBSET S : SumFunctionOnSet(f, s) # 0}
<1> SUFFICES ASSUME SumFunctionOnSet(f, S) # 0 PROVE FALSE
  BY <1>1
<1>2. Bad # {} /\ Bad \subseteq SUBSET S
  OBVIOUS
<1> HIDE DEF Bad
<1>3. PICK m \in Bad : \A y \in Bad : y \subseteq m => y = m
  BY <1>2, MinimalSubset
<1>4. m \subseteq S /\ SumFunctionOnSet(f, m) # 0
  BY DEF Bad
<1>5. /\ Pick(m) \in m
      /\ SumFunctionOnSet(f, m) = f[Pick(m)] + SumFunctionOnSet(f, m \ {Pick(m)})
  BY <1>4, FS_Subset, SumOfSome, SumOfNone
<1>6. SumFunctionOnSet(f, m \ {Pick(m)}) = 0
  BY <1>3, <1>4, <1>5 DEF Bad
<1> QED
  BY <1>4, <1>5, <1>6

-----------------------------------------------------------------------------
(* The invariant *)

NoVenue == FreeSlot.v
Statuses == {"SENT", "LIVE", "CLOSED"}
Slot == [id : 0..MaxId, v : Venues \cup {NoVenue}, side : Sides, qty : Nat,
         filled : Nat, active : BOOLEAN]
Account == [active : BOOLEAN, pending : [Sides -> Nat], position : Int]
Order == [v : Venues, side : Sides, qty : Nat, filled : Nat, status : Statuses]

TypeOK ==
  /\ slots \in [1..MaxSlots -> Slot]
  /\ next_id = Len(orders) + 1 /\ Len(orders) <= MaxId
  /\ position \in Int
  /\ ledger \in [Venues -> Account]
  /\ q \in Seq(Update)
  /\ strat \in [pc : {"idle", "submit", "drain"}, slot : 0..MaxSlots]
  /\ orders \in Seq(Order)
  /\ dropped \subseteq Update /\ IsFiniteSet(dropped)
  /\ refused \subseteq 1..Len(orders)

\* What an order's fill says of its status.
OrdersSound ==
  \A id \in 1..Len(orders) :
    /\ orders[id].filled <= orders[id].qty /\ orders[id].qty > 0
    /\ orders[id].filled = orders[id].qty => orders[id].status = "CLOSED"
    /\ orders[id].status = "SENT" => orders[id].filled = 0

\* An active slot is the only one of an order that was not refused.
SlotsSound ==
  \A i \in 1..MaxSlots : slots[i].active =>
    /\ slots[i].id \in 1..Len(orders) /\ slots[i].id \notin refused
    /\ slots[i].v = orders[slots[i].id].v /\ slots[i].side = orders[slots[i].id].side
    /\ slots[i].qty = orders[slots[i].id].qty
    /\ slots[i].filled <= orders[slots[i].id].filled
    /\ \A j \in 1..MaxSlots : slots[j].active /\ slots[j].id = slots[i].id => j = i

\* The slot of the submit under way has heard of nothing yet.
SubmitSound ==
  /\ strat.pc = "submit" => /\ strat.slot \in 1..MaxSlots /\ slots[strat.slot].active
                           /\ slots[strat.slot].filled = 0
  /\ strat.pc # "submit" => strat.slot = 0

\* An order that is not over, and was not refused, has a slot.
OpenHasSlot ==
  \A id \in 1..Len(orders) :
    orders[id].status # "CLOSED" /\ id \notin refused => find_order(id) # {}

\* One update: what it says was true when it was queued.
UpdateSound(u) ==
  /\ u.id \in 1..Len(orders)
  /\ u.cum <= orders[u.id].filled /\ u.qty <= u.cum
  /\ u.done => orders[u.id].status = "CLOSED"
  /\ u.qty = 0 => u.done /\ u.cum = 0 /\ orders[u.id].filled < orders[u.id].qty
  /\ u.qty > 0 /\ u.done => u.cum = orders[u.id].qty

\* Two updates of one order, the first queued before the second.
InOrder(u, w) == ~u.done /\ (w.qty > 0 => u.cum + w.qty <= w.cum)

\* An update in the queue: it was not dropped, its order still has its slot
\* unless it was refused, and the slot has not heard of it.
QueuedSound(u) ==
  /\ UpdateSound(u)
  /\ u.qty > 0 => u \notin dropped
  /\ u.id \notin refused => find_order(u.id) # {}
  /\ u.qty > 0 => \A s \in find_order(u.id) : slots[s].filled + u.qty <= u.cum

QueueSound ==
  /\ \A i \in 1..Len(q) :
       /\ QueuedSound(q[i])
       /\ \A j \in 1..(i - 1) : q[j].id = q[i].id => InOrder(q[j], q[i])
  /\ \A u \in dropped : UpdateSound(u)

\* What is executed of an order and not applied yet.
Pending(id) == QtyOf(QueuedUpdates \cup dropped, id)
Applied(id) == Signed(orders[id].side, orders[id].filled - Pending(id))

\* Nothing of the order being submitted is applied before the submit returns.
NothingApplied == strat.pc = "submit" => Pending(slots[strat.slot].id) = orders[slots[strat.slot].id].filled

\* A slot whose order is over waits for the update that says so.
EndingComes ==
  \A i \in 1..MaxSlots :
    slots[i].active /\ orders[slots[i].id].status = "CLOSED"
      => Ending(QueuedUpdates \cup dropped, slots[i].id)

QueueInv == /\ TypeOK /\ OrdersSound /\ SlotsSound /\ SubmitSound /\ OpenHasSlot
            /\ QueueSound /\ EndingComes

\* While nothing was dropped the updates of an order are a chain without gaps:
\* the one at position j, or the next to come, goes on from fill n.
GoesOn(s, j, n) ==
  /\ (\A i \in 1..(j - 1) : q[i].id # slots[s].id) => slots[s].filled = n
  /\ \A i \in 1..(j - 1) :
       q[i].id = slots[s].id /\ (\A k \in (i + 1)..(j - 1) : q[k].id # slots[s].id)
         => q[i].cum = n

Chained ==
  dropped = {} =>
    \A s \in 1..MaxSlots : slots[s].active =>
      /\ \A j \in 1..Len(q) : q[j].id = slots[s].id /\ q[j].qty > 0 => GoesOn(s, j, q[j].cum - q[j].qty)
      /\ orders[slots[s].id].status # "CLOSED" => GoesOn(s, Len(q) + 1, orders[slots[s].id].filled)

\* A venue the ledger does not know holds nothing, and while the ledger has
\* room it knows the venue of every working order.
LedgerKnows ==
  /\ \A v \in Venues : ~ledger[v].active => ledger[v] = Untracked
  /\ Cardinality(Tracked(ledger)) < MaxVenues =>
       \A i \in 1..MaxSlots : slots[i].active /\ i # strat.slot => ledger[slots[i].v].active

\* An order closed half filled, other than the one being submitted.
HalfFilled(v, side) ==
  \E id \in (1..Len(orders)) \ refused :
    /\ strat.pc = "submit" => id # slots[strat.slot].id
    /\ orders[id].v = v /\ orders[id].side = side /\ orders[id].status = "CLOSED"
    /\ orders[id].filled > 0 /\ orders[id].filled < orders[id].qty

PendingSound ==
  \A v \in Venues, side \in Sides : ledger[v].active =>
    /\ dropped = {} => ledger[v].pending[side] <= OpenQty(v, side)
    /\ ~HalfFilled(v, side) => ledger[v].pending[side] >= OpenQty(v, side)

-----------------------------------------------------------------------------
(* What the helpers return *)

LEMMA FreeSlotFound ==
  ASSUME TypeOK, FreeSlots # {}
  PROVE  find_free_slot \in 1..MaxSlots /\ ~slots[find_free_slot].active
<1>1. FreeSlots \subseteq Nat
  BY ManagerAssumption DEF FreeSlots
<1>2. PICK m \in FreeSlots : \A j \in FreeSlots : ~(<<j, m>> \in OpToRel(<, Nat))
  BY <1>1, NatLessThanWellFounded, WFMin
<1>3. ASSUME NEW j \in FreeSlots PROVE m <= j
  <2>1. j \in Nat /\ m \in Nat
    BY <1>1
  <2>2. ~(j < m)
    BY <1>2, <2>1 DEF OpToRel
  <2> QED
    BY <2>1, <2>2
<1>4. find_free_slot \in FreeSlots
  BY <1>3 DEF find_free_slot
<1> QED
  BY <1>4 DEF FreeSlots

\* The ledger, when it looks a venue up.
LEMMA FindFacts ==
  ASSUME NEW l \in [Venues -> Account], NEW v \in Venues
  PROVE  LET m == find_or_create_venue(l, v)
         IN  /\ m \in [Venues -> Account]
             /\ \A w \in Venues : /\ m[w].pending = l[w].pending /\ m[w].position = l[w].position
                                  /\ l[w].active => m[w].active
                                  /\ w # v => m[w] = l[w]
             /\ Cardinality(Tracked(l)) < MaxVenues => m[v].active
             /\ ~(Cardinality(Tracked(l)) < MaxVenues) => m = l
BY DEF find_or_create_venue, Account

\* The ledgers l and m differ in one pending quantity, and in that venue's position.
OnlyPending(l, m, v, side, n) ==
  /\ m \in [Venues -> Account]
  /\ \A w \in Venues : m[w].active = l[w].active /\ (w # v => m[w] = l[w])
  /\ \A w \in Venues, d \in Sides :
       m[w].pending[d] = IF w = v /\ d = side THEN n ELSE l[w].pending[d]

LEMMA AccountSet ==
  ASSUME NEW l \in [Venues -> Account], NEW v \in Venues, NEW side \in Sides,
         NEW n \in Nat, NEW a \in Int, NEW m,
         \/ m = [l EXCEPT ![v].pending[side] = n]
         \/ m = [l EXCEPT ![v].pending[side] = n, ![v].position = a]
  PROVE  OnlyPending(l, m, v, side, n)
<1> DEFINE p == [l[v].pending EXCEPT ![side] = n]
           acc == [l[v] EXCEPT !.pending = p]
           acc2 == [l[v] EXCEPT !.pending = p, !.position = a]
<1>1. l[v] \in Account /\ l[v].pending \in [Sides -> Nat]
  BY DEF Account
<1>2. p \in [Sides -> Nat] /\ \A d \in Sides : p[d] = IF d = side THEN n ELSE l[v].pending[d]
  BY <1>1
<1>3. m = [l EXCEPT ![v] = acc] \/ m = [l EXCEPT ![v] = acc2]
  BY <1>1 DEF Account
<1> HIDE DEF p
<1>4. /\ acc \in Account /\ acc.active = l[v].active /\ acc.pending = p
      /\ acc2 \in Account /\ acc2.active = l[v].active /\ acc2.pending = p
  BY <1>1, <1>2 DEF Account
<1> HIDE DEF acc, acc2
<1>5. /\ m \in [Venues -> Account]
      /\ m[v] \in {acc, acc2} /\ \A w \in Venues : w # v => m[w] = l[w]
  BY <1>3, <1>4
<1>6. m[v].active = l[v].active /\ m[v].pending = p
  BY <1>4, <1>5
<1> QED
  BY <1>2, <1>5, <1>6 DEF OnlyPending

\* The ledger after it hears of an order, o being an order or a slot, ...
LEMMA SubmittedFacts ==
  ASSUME NEW l \in [Venues -> Account], NEW o, o.v \in Venues, o.side \in Sides, o.qty \in Nat
  PROVE  LET f == find_or_create_venue(l, o.v)
             m == on_order_submitted(l, o)
         IN  /\ f[o.v].active => OnlyPending(f, m, o.v, o.side, l[o.v].pending[o.side] + o.qty)
             /\ ~f[o.v].active => m = f
<1> DEFINE f == find_or_create_venue(l, o.v)
           m == on_order_submitted(l, o)
           p == f[o.v].pending[o.side] + o.qty
<1>1. f \in [Venues -> Account] /\ f[o.v].pending = l[o.v].pending
  BY FindFacts
<1>2. f[o.v].pending[o.side] \in Nat
  BY <1>1 DEF Account
<1>3. m = IF f[o.v].active THEN [f EXCEPT ![o.v].pending[o.side] = p] ELSE f
  BY DEF on_order_submitted
<1>4. p \in Nat
  BY <1>2
<1>5. p = l[o.v].pending[o.side] + o.qty
  BY <1>1
<1> HIDE DEF f, m, p
<1>6. f[o.v].active => OnlyPending(f, m, o.v, o.side, p)
  <2>1. 0 \in Int
    OBVIOUS
  <2> QED
    BY <1>1, <1>3, <1>4, <2>1, AccountSet
<1> QED
  BY <1>3, <1>5, <1>6 DEF f, m

\* ... of a fill ...
LEMMA FilledFacts ==
  ASSUME NEW l \in [Venues -> Account], NEW o, o.v \in Venues, o.side \in Sides, NEW n \in Nat
  PROVE  LET f == find_or_create_venue(l, o.v)
             m == ledger_on_fill(l, o, n)
         IN  /\ f[o.v].active => OnlyPending(f, m, o.v, o.side, MinusToZero(l[o.v].pending[o.side], n))
             /\ ~f[o.v].active => m = f
<1> DEFINE f == find_or_create_venue(l, o.v)
           m == ledger_on_fill(l, o, n)
           p == MinusToZero(f[o.v].pending[o.side], n)
           a == apply_inventory_fill(f[o.v].position, o.side, n)
<1>1. f \in [Venues -> Account] /\ f[o.v].pending = l[o.v].pending
  BY FindFacts
<1>2. f[o.v].pending[o.side] \in Nat /\ f[o.v].position \in Int
  BY <1>1 DEF Account
<1>3. m = IF f[o.v].active THEN [f EXCEPT ![o.v].pending[o.side] = p, ![o.v].position = a] ELSE f
  BY DEF ledger_on_fill
<1>4. p \in Nat /\ a \in Int
  BY <1>2 DEF MinusToZero, apply_inventory_fill, Signed
<1>5. p = MinusToZero(l[o.v].pending[o.side], n)
  BY <1>1
<1> HIDE DEF f, m, p, a
<1>6. f[o.v].active => OnlyPending(f, m, o.v, o.side, p)
  BY <1>1, <1>3, <1>4, AccountSet
<1> QED
  BY <1>3, <1>5, <1>6 DEF f, m

\* ... and of the end of an order.
LEMMA EndedFacts ==
  ASSUME NEW l \in [Venues -> Account], NEW o, o.v \in Venues, o.side \in Sides, NEW n \in Nat
  PROVE  LET m == on_order_closed(l, o, n)
         IN  /\ l[o.v].active => OnlyPending(l, m, o.v, o.side, MinusToZero(l[o.v].pending[o.side], n))
             /\ ~l[o.v].active => m = l
<1> DEFINE m == on_order_closed(l, o, n)
           p == MinusToZero(l[o.v].pending[o.side], n)
<1>1. l[o.v].pending[o.side] \in Nat
  BY DEF Account
<1>2. p \in Nat
  BY <1>1 DEF MinusToZero
<1>3. m = IF l[o.v].active THEN [l EXCEPT ![o.v].pending[o.side] = p] ELSE l
  BY DEF on_order_closed
<1> HIDE DEF m, p
<1>4. l[o.v].active => OnlyPending(l, m, o.v, o.side, p)
  <2>1. 0 \in Int
    OBVIOUS
  <2> QED
    BY <1>2, <1>3, <2>1, AccountSet
<1> QED
  BY <1>3, <1>4 DEF m, p

-----------------------------------------------------------------------------
(* The queue's invariant, action by action *)

LEMMA InitQueueInv == ASSUME Init PROVE QueueInv
<1>0. Len(orders) = 0 /\ Len(q) = 0 /\ QueuedUpdates = {} /\ 1..0 = {}
  BY DEF Init, QueuedUpdates
<1>1. FreeSlot \in Slot /\ ~FreeSlot.active
  BY ManagerAssumption DEF FreeSlot, Slot, NoVenue, Sides
<1>2. Untracked \in Account
  BY DEF Untracked, Account
<1>3. slots \in [1..MaxSlots -> Slot] /\ \A i \in 1..MaxSlots : ~slots[i].active
  BY <1>1 DEF Init
<1>4. TypeOK
  BY <1>0, <1>2, <1>3, ManagerAssumption, FS_EmptySet DEF TypeOK, Init
<1>5. OrdersSound /\ SlotsSound /\ SubmitSound /\ OpenHasSlot /\ EndingComes
  BY <1>0, <1>3 DEF OrdersSound, SlotsSound, SubmitSound, OpenHasSlot, EndingComes, Init
<1>6. QueueSound
  BY <1>0 DEF QueueSound, Init
<1> QED
  BY <1>4, <1>5, <1>6 DEF QueueInv

\* Steps that move no slot, no order and no update.
LEMMA QuietStep ==
  ASSUME QueueInv, UNCHANGED <<slots, next_id, q, orders, dropped, refused>>,
         position' \in Int, ledger' \in [Venues -> Account],
         strat' \in [pc : {"idle", "submit", "drain"}, slot : 0..MaxSlots], SubmitSound'
  PROVE  QueueInv'
<1>1. TypeOK' /\ OrdersSound' /\ SlotsSound' /\ OpenHasSlot'
  BY DEF QueueInv, TypeOK, OrdersSound, SlotsSound, OpenHasSlot, find_order
<1>2. QueueSound'
  BY DEF QueueInv, QueueSound, QueuedSound, UpdateSound, InOrder, find_order
<1>3. EndingComes'
  BY DEF QueueInv, EndingComes, Ending, QueuedUpdates
<1> QED
  BY <1>1, <1>2, <1>3 DEF QueueInv

LEMMA UpdateMidPriceInv ==
  ASSUME QueueInv, NEW v \in Venues, UpdateMidPrice(v)
  PROVE  QueueInv'
<1>1. ledger' \in [Venues -> Account]
  BY FindFacts DEF UpdateMidPrice, QueueInv, TypeOK
<1>2. position' \in Int /\ strat' \in [pc : {"idle", "submit", "drain"}, slot : 0..MaxSlots] /\ SubmitSound'
  BY DEF UpdateMidPrice, QueueInv, TypeOK, SubmitSound
<1> QED
  BY <1>1, <1>2, QuietStep DEF UpdateMidPrice

LEMMA DrainInv ==
  ASSUME QueueInv, DrainFills \/ DrainDone
  PROVE  QueueInv'
<1>1. strat \in [pc : {"idle", "submit", "drain"}, slot : 0..MaxSlots] /\ strat.pc # "submit"
  BY DEF QueueInv, TypeOK, DrainFills, DrainDone
<1>2. /\ strat' \in [pc : {"idle", "submit", "drain"}, slot : 0..MaxSlots]
      /\ strat'.pc # "submit" /\ strat'.slot = strat.slot
  BY <1>1 DEF DrainFills, DrainDone
<1>3. SubmitSound' /\ position' \in Int /\ ledger' \in [Venues -> Account]
  BY <1>1, <1>2 DEF QueueInv, TypeOK, SubmitSound, DrainFills, DrainDone
<1>4. UNCHANGED <<slots, next_id, q, orders, dropped, refused>>
  BY DEF DrainFills, DrainDone
<1> QED
  BY <1>2, <1>3, <1>4, QuietStep

\* The order behind a slot.
LEMMA SlotFacts ==
  ASSUME QueueInv, NEW i \in 1..MaxSlots, slots[i].active
  PROVE  /\ slots[i] \in Slot /\ slots[i].id \in 1..Len(orders) /\ slots[i].id \notin refused
         /\ orders[slots[i].id] \in Order /\ slots[i].v \in Venues /\ slots[i].side \in Sides
         /\ slots[i].qty \in Nat /\ slots[i].filled \in Nat
         /\ slots[i].filled <= orders[slots[i].id].filled
         /\ orders[slots[i].id].filled <= orders[slots[i].id].qty
         /\ slots[i].qty = orders[slots[i].id].qty
         /\ slots[i].v = orders[slots[i].id].v /\ slots[i].side = orders[slots[i].id].side
         /\ find_order(slots[i].id) = {i}
<1>1. slots[i] \in Slot /\ slots[i].id \in 1..Len(orders)
  BY DEF QueueInv, TypeOK, SlotsSound
<1>2. orders[slots[i].id] \in Order
  BY <1>1 DEF QueueInv, TypeOK
<1>3. find_order(slots[i].id) = {i}
  BY DEF QueueInv, SlotsSound, find_order
<1>4. orders[slots[i].id].filled <= orders[slots[i].id].qty
  BY <1>1 DEF QueueInv, OrdersSound
<1> QED
  BY <1>1, <1>2, <1>3, <1>4 DEF QueueInv, SlotsSound, Slot, Order

LEMMA SubmitOkInv ==
  ASSUME QueueInv, SubmitOk
  PROVE  QueueInv'
<1> DEFINE o == slots[strat.slot]
           f == find_or_create_venue(ledger, o.v)
<1>1. o.v \in Venues /\ o.side \in Sides /\ o.qty \in Nat
  BY SlotFacts DEF SubmitOk, QueueInv, SubmitSound
<1>2. f \in [Venues -> Account]
  BY <1>1, FindFacts DEF QueueInv, TypeOK
<1>3. ledger' = on_order_submitted(ledger, o)
  BY DEF SubmitOk
<1> HIDE DEF o
<1>4. ledger' \in [Venues -> Account]
  BY <1>1, <1>2, <1>3, SubmittedFacts DEF QueueInv, TypeOK, OnlyPending
<1>5. position' \in Int /\ strat' \in [pc : {"idle", "submit", "drain"}, slot : 0..MaxSlots] /\ SubmitSound'
  BY ManagerAssumption DEF SubmitOk, QueueInv, TypeOK, SubmitSound
<1> QED
  BY <1>4, <1>5, QuietStep DEF SubmitOk

\* One order changes.
LEMMA OrderSet ==
  ASSUME NEW s \in Seq(Order), NEW id \in 1..Len(s), NEW o \in Order
  PROVE  /\ [s EXCEPT ![id] = o] \in Seq(Order)
         /\ Len([s EXCEPT ![id] = o]) = Len(s)
         /\ \A i \in 1..Len(s) : [s EXCEPT ![id] = o][i] = IF i = id THEN o ELSE s[i]
OBVIOUS

LEMMA AcceptInv ==
  ASSUME QueueInv, NEW id \in 1..Len(orders), Accept(id)
  PROVE  QueueInv'
<1>0. TypeOK /\ orders[id] \in Order
  BY DEF QueueInv, TypeOK
<1>1. /\ orders' \in Seq(Order) /\ Len(orders') = Len(orders)
      /\ \A i \in 1..Len(orders) :
           /\ orders'[i].v = orders[i].v /\ orders'[i].side = orders[i].side
           /\ orders'[i].qty = orders[i].qty /\ orders'[i].filled = orders[i].filled
           /\ orders'[i].status = IF i = id THEN "LIVE" ELSE orders[i].status
  <2> DEFINE o == [orders[id] EXCEPT !.status = "LIVE"]
  <2>1. o \in Order /\ orders' = [orders EXCEPT ![id] = o]
    BY <1>0 DEF Accept, Order, Statuses
  <2>2. /\ o.v = orders[id].v /\ o.side = orders[id].side /\ o.qty = orders[id].qty
        /\ o.filled = orders[id].filled /\ o.status = "LIVE"
    BY <1>0 DEF Order
  <2> HIDE DEF o
  <2>3. /\ orders' \in Seq(Order) /\ Len(orders') = Len(orders)
        /\ \A i \in 1..Len(orders) : orders'[i] = IF i = id THEN o ELSE orders[i]
    BY <1>0, <2>1, OrderSet DEF TypeOK
  <2> QED
    BY <2>2, <2>3
<1>2. TypeOK'
  BY <1>0, <1>1 DEF TypeOK, Accept
<1>3. OrdersSound'
  BY <1>1 DEF QueueInv, OrdersSound, Accept
<1>4. SlotsSound' /\ SubmitSound'
  BY <1>1 DEF QueueInv, SlotsSound, SubmitSound, Accept
<1>5. OpenHasSlot'
  BY <1>1 DEF QueueInv, OpenHasSlot, Accept, find_order
<1>6. \A u : UpdateSound(u) => UpdateSound(u)'
  BY <1>1 DEF UpdateSound, Accept
<1>7. QueueSound'
  BY <1>6 DEF QueueInv, QueueSound, QueuedSound, InOrder, find_order, Accept
<1>8. EndingComes'
  BY <1>1 DEF QueueInv, EndingComes, Ending, QueuedUpdates, Accept, SlotsSound
<1> QED
  BY <1>2, <1>3, <1>4, <1>5, <1>7, <1>8 DEF QueueInv


\* The updates that were queued and are not applied.
Held == QueuedUpdates \cup dropped

LEMMA HeldFacts ==
  ASSUME TypeOK
  PROVE  IsFiniteSet(Held) /\ Held \subseteq Update /\ QueuedUpdates \subseteq Update
<1>1. IsFiniteSet(1..Len(q))
  BY FS_Interval DEF TypeOK
<1>2. IsFiniteSet({q[i] : i \in 1..Len(q)})
  <2> DEFINE T == {q[i] : i \in 1..Len(q)}
             f == [i \in 1..Len(q) |-> q[i]]
  <2>1. f \in Surjection(1..Len(q), T)
    BY DEF Surjection
  <2> QED
    BY <1>1, <2>1, FS_Surjection
<1>3. QueuedUpdates \subseteq Update
  BY DEF TypeOK, QueuedUpdates
<1> QED
  BY <1>2, <1>3, FS_Union DEF TypeOK, Held, QueuedUpdates

LEMMA PushFacts ==
  ASSUME q \in Seq(Update), NEW u \in Update, Push(u)
  PROVE  /\ q' \in Seq(Update) /\ Held' = Held \cup {u}
         /\ \/ /\ Len(q') = Len(q) + 1 /\ q'[Len(q) + 1] = u /\ dropped' = dropped
               /\ \A i \in 1..Len(q) : q'[i] = q[i]
            \/ q' = q /\ dropped' = dropped \cup {u}
<1>1. CASE Len(q) < QueueCap
  <2>1. q' = Append(q, u) /\ dropped' = dropped
    BY <1>1 DEF Push
  <2>2. /\ q' \in Seq(Update) /\ Len(q') = Len(q) + 1 /\ q'[Len(q) + 1] = u
        /\ \A i \in 1..Len(q) : q'[i] = q[i]
    BY <2>1
  <2>3. QueuedUpdates' = QueuedUpdates \cup {u}
    BY <2>2 DEF QueuedUpdates
  <2> QED
    BY <2>1, <2>2, <2>3 DEF Held
<1>2. CASE ~(Len(q) < QueueCap)
  BY <1>2 DEF Push, Held, QueuedUpdates
<1> QED
  BY <1>1, <1>2

\* The connector reports what happened to a live order: u is queued or dropped,
\* and the order goes from fill old to fill new.
Reported(id, u) ==
  /\ u \in Update /\ u.id = id /\ Push(u)
  /\ orders[id].status = "LIVE"
  /\ orders' \in Seq(Order) /\ Len(orders') = Len(orders)
  /\ \A i \in 1..Len(orders) :
       /\ orders'[i].v = orders[i].v /\ orders'[i].side = orders[i].side /\ orders'[i].qty = orders[i].qty
       /\ i # id => orders'[i] = orders[i]
  /\ orders'[id].filled = orders[id].filled + u.qty
  /\ orders'[id].status = IF u.done THEN "CLOSED" ELSE "LIVE"
  /\ u.qty > 0 => u.cum = orders'[id].filled /\ (u.done <=> orders'[id].filled = orders[id].qty)
  /\ u.qty = 0 => u.cum = 0 /\ u.done
  /\ orders'[id].filled <= orders[id].qty
  /\ UNCHANGED <<slots, next_id, position, ledger, strat, refused>>

LEMMA FillReports ==
  ASSUME QueueInv, NEW id \in 1..Len(orders), NEW n \in 1..orders[id].qty, Fill(id, n)
  PROVE  Reported(id, [id |-> id, qty |-> n, cum |-> orders[id].filled + n,
                       done |-> orders[id].filled + n = orders[id].qty])
<1> DEFINE cum == orders[id].filled + n
           o == [orders[id] EXCEPT !.filled = cum,
                                   !.status = IF cum = orders[id].qty THEN "CLOSED" ELSE "LIVE"]
           u == [id |-> id, qty |-> n, cum |-> cum, done |-> cum = orders[id].qty]
<1>1. orders[id] \in Order /\ orders \in Seq(Order) /\ id \in Ids
  BY ManagerAssumption DEF QueueInv, TypeOK, Ids
<1>2. n \in Nat /\ n > 0 /\ cum \in Nat /\ orders[id].qty \in Nat
  BY <1>1 DEF Order
<1>3. u \in Update
  BY <1>1, <1>2 DEF Update
<1>4. /\ u.id = id /\ u.qty = n /\ u.cum = cum /\ (u.done <=> cum = orders[id].qty)
  OBVIOUS
<1>5. /\ o \in Order /\ o.v = orders[id].v /\ o.side = orders[id].side /\ o.qty = orders[id].qty
      /\ o.filled = cum /\ o.status = IF cum = orders[id].qty THEN "CLOSED" ELSE "LIVE"
  BY <1>1, <1>2 DEF Order, Statuses
<1>6. /\ orders[id].status = "LIVE" /\ cum <= orders[id].qty /\ Push(u)
      /\ orders' = [orders EXCEPT ![id] = o]
      /\ UNCHANGED <<slots, next_id, position, ledger, strat, refused>>
  BY <1>1 DEF Fill, Order
<1> HIDE DEF o, u
<1>7. /\ orders' \in Seq(Order) /\ Len(orders') = Len(orders)
      /\ \A i \in 1..Len(orders) : orders'[i] = IF i = id THEN o ELSE orders[i]
  BY <1>1, <1>5, <1>6, OrderSet
<1>8. /\ orders'[id].filled = orders[id].filled + u.qty
      /\ orders'[id].status = IF u.done THEN "CLOSED" ELSE "LIVE"
  BY <1>4, <1>5, <1>7
<1>9. \A i \in 1..Len(orders) :
       /\ orders'[i].v = orders[i].v /\ orders'[i].side = orders[i].side /\ orders'[i].qty = orders[i].qty
       /\ i # id => orders'[i] = orders[i]
  BY <1>5, <1>7
<1>10. orders'[id].filled = cum
  BY <1>5, <1>7
<1>11. /\ u.qty > 0 => u.cum = orders'[id].filled /\ (u.done <=> orders'[id].filled = orders[id].qty)
       /\ u.qty = 0 => u.cum = 0 /\ u.done
  BY <1>2, <1>4, <1>10
<1>12. orders'[id].filled <= orders[id].qty
  BY <1>6, <1>10
<1>13. Reported(id, u)
  BY <1>3, <1>4, <1>6, <1>7, <1>8, <1>9, <1>11, <1>12 DEF Reported
<1> QED
  BY <1>13 DEF u

LEMMA CloseReports ==
  ASSUME QueueInv, NEW id \in 1..Len(orders), Close(id)
  PROVE  Reported(id, [id |-> id, qty |-> 0, cum |-> 0, done |-> TRUE])
<1> DEFINE o == [orders[id] EXCEPT !.status = "CLOSED"]
           u == [id |-> id, qty |-> 0, cum |-> 0, done |-> TRUE]
<1>1. orders[id] \in Order /\ orders \in Seq(Order) /\ id \in Ids /\ orders[id].filled <= orders[id].qty
  BY ManagerAssumption DEF QueueInv, TypeOK, Ids, OrdersSound
<1>2. u \in Update /\ u.id = id /\ u.qty = 0 /\ u.cum = 0 /\ u.done = TRUE
  BY <1>1 DEF Update
<1>3. /\ o \in Order /\ o.v = orders[id].v /\ o.side = orders[id].side /\ o.qty = orders[id].qty
      /\ o.filled = orders[id].filled /\ o.status = "CLOSED"
  BY <1>1 DEF Order, Statuses
<1>4. /\ orders[id].status = "LIVE" /\ Push(u)
      /\ orders' = [orders EXCEPT ![id] = o]
      /\ UNCHANGED <<slots, next_id, position, ledger, strat, refused>>
  BY <1>1 DEF Close, Order
<1> HIDE DEF o, u
<1>5. /\ orders' \in Seq(Order) /\ Len(orders') = Len(orders)
      /\ \A i \in 1..Len(orders) : orders'[i] = IF i = id THEN o ELSE orders[i]
  BY <1>1, <1>3, <1>4, OrderSet
<1>6. orders[id].filled \in Nat
  BY <1>1 DEF Order
<1>7. /\ orders'[id].filled = orders[id].filled + u.qty
      /\ orders'[id].status = IF u.done THEN "CLOSED" ELSE "LIVE"
  BY <1>2, <1>3, <1>5, <1>6
<1>8. \A i \in 1..Len(orders) :
       /\ orders'[i].v = orders[i].v /\ orders'[i].side = orders[i].side /\ orders'[i].qty = orders[i].qty
       /\ i # id => orders'[i] = orders[i]
  BY <1>3, <1>5
<1>9. /\ u.qty > 0 => u.cum = orders'[id].filled /\ (u.done <=> orders'[id].filled = orders[id].qty)
      /\ u.qty = 0 => u.cum = 0 /\ u.done
  BY <1>2
<1>10. orders'[id].filled <= orders[id].qty
  BY <1>1, <1>3, <1>5
<1>11. Reported(id, u)
  BY <1>2, <1>4, <1>5, <1>7, <1>8, <1>9, <1>10 DEF Reported
<1> QED
  BY <1>11 DEF u

LEMMA OrderTypes ==
  ASSUME TypeOK, NEW id \in 1..Len(orders)
  PROVE  /\ orders[id] \in Order /\ orders[id].v \in Venues /\ orders[id].side \in Sides
         /\ orders[id].filled \in Nat /\ orders[id].qty \in Nat /\ orders[id].status \in Statuses
<1>1. orders[id] \in Order
  BY DEF TypeOK
<1> QED
  BY <1>1 DEF Order

LEMMA UpdateTypes ==
  ASSUME NEW u \in Update
  PROVE  u.id \in Ids /\ u.qty \in Nat /\ u.cum \in Nat /\ u.done \in BOOLEAN
BY DEF Update

LEMMA QueuedFacts ==
  ASSUME QueueInv, NEW i \in 1..Len(q)
  PROVE  /\ q[i] \in Update /\ QueuedSound(q[i]) /\ UpdateSound(q[i])
         /\ q[i].id \in 1..Len(orders) /\ q[i].qty \in Nat /\ q[i].cum \in Nat
         /\ \A j \in 1..(i - 1) : q[j].id = q[i].id => InOrder(q[j], q[i])
<1>1. q[i] \in Update
  BY DEF QueueInv, TypeOK
<1>2. QueuedSound(q[i]) /\ UpdateSound(q[i])
  BY DEF QueueInv, QueueSound, QueuedSound
<1> QED
  BY <1>1, <1>2, UpdateTypes DEF QueueInv, QueueSound, UpdateSound

LEMMA FindSame ==
  ASSUME UNCHANGED slots, NEW id
  PROVE  find_order(id)' = find_order(id)
BY DEF find_order

LEMMA ReportedSound ==
  ASSUME QueueInv, NEW id \in 1..Len(orders), NEW u, Reported(id, u)
  PROVE  /\ \A w \in Update : UpdateSound(w) => UpdateSound(w)'
         /\ UpdateSound(u)'
         /\ \A w \in Update : UpdateSound(w) /\ w.id = id => ~w.done /\ w.cum <= orders[id].filled
<1>1. u \in Update /\ u.qty \in Nat /\ orders[id] \in Order /\ orders[id].filled \in Nat /\ orders[id].qty \in Nat
  BY OrderTypes, UpdateTypes DEF QueueInv, Reported
<1>2. orders[id].filled <= orders[id].qty /\ orders[id].filled # orders[id].qty
  BY DEF QueueInv, OrdersSound, Reported
<1>3. ASSUME NEW w \in Update, UpdateSound(w), w.id = id
      PROVE  ~w.done /\ w.cum <= orders[id].filled /\ UpdateSound(w)'
  <2>1. ~w.done /\ w.cum <= orders[id].filled /\ w.qty # 0
    BY <1>3 DEF UpdateSound, Reported, Update
  <2>2. w.cum \in Nat /\ w.qty \in Nat
    BY DEF Update
  <2> QED
    BY <1>1, <1>3, <2>1, <2>2 DEF UpdateSound, Reported
<1>4. ASSUME NEW w \in Update, UpdateSound(w), w.id # id
      PROVE  UpdateSound(w)'
  BY <1>4 DEF UpdateSound, Reported
<1>5. UpdateSound(u)'
  <2>1. u.id = id /\ id \in 1..Len(orders')
    BY DEF Reported
  <2>4. /\ orders'[id].filled = orders[id].filled + u.qty
        /\ orders'[id].status = IF u.done THEN "CLOSED" ELSE "LIVE"
        /\ orders'[id].qty = orders[id].qty
        /\ u.qty > 0 => u.cum = orders'[id].filled /\ (u.done <=> orders'[id].filled = orders[id].qty)
        /\ u.qty = 0 => u.cum = 0 /\ u.done
    BY DEF Reported
  <2>2. CASE u.qty > 0
    BY <1>1, <2>1, <2>2, <2>4 DEF UpdateSound
  <2>3. CASE u.qty = 0
    <3>1. u.cum = 0 /\ u.done /\ orders'[id].filled = orders[id].filled /\ orders'[id].status = "CLOSED"
      BY <1>1, <2>3, <2>4
    <3>2. orders'[id].filled < orders'[id].qty
      BY <1>1, <1>2, <2>4, <3>1
    <3> QED
      BY <1>1, <2>1, <2>3, <3>1, <3>2 DEF UpdateSound
  <2> QED
    BY <1>1, <2>2, <2>3
<1> QED
  BY <1>3, <1>4, <1>5

LEMMA ReportedInv ==
  ASSUME QueueInv, NEW id \in 1..Len(orders), NEW u, Reported(id, u)
  PROVE  QueueInv'
<1>1. /\ TypeOK /\ u \in Update /\ u.qty \in Nat /\ u.cum \in Nat /\ u.id = id
      /\ orders[id].filled \in Nat /\ orders[id].status = "LIVE"
      /\ \A i \in 1..Len(orders) : orders[i].filled \in Nat /\ orders[i].qty \in Nat
  BY OrderTypes, UpdateTypes DEF QueueInv, Reported
<1>2. /\ q' \in Seq(Update) /\ Held' = Held \cup {u}
      /\ \/ /\ Len(q') = Len(q) + 1 /\ q'[Len(q) + 1] = u /\ dropped' = dropped
            /\ \A i \in 1..Len(q) : q'[i] = q[i]
         \/ q' = q /\ dropped' = dropped \cup {u}
  BY <1>1, PushFacts DEF TypeOK, Reported
<1>3. /\ \A w \in Update : UpdateSound(w) => UpdateSound(w)'
      /\ UpdateSound(u)'
      /\ \A w \in Update : UpdateSound(w) /\ w.id = id => ~w.done /\ w.cum <= orders[id].filled
  BY ReportedSound
<1>4. /\ orders' \in Seq(Order) /\ Len(orders') = Len(orders)
      /\ \A i \in 1..Len(orders) :
           /\ orders'[i].v = orders[i].v /\ orders'[i].side = orders[i].side /\ orders'[i].qty = orders[i].qty
           /\ i # id => orders'[i] = orders[i]
      /\ orders'[id].filled = orders[id].filled + u.qty
      /\ orders'[id].status = IF u.done THEN "CLOSED" ELSE "LIVE"
      /\ orders'[id].filled <= orders[id].qty
      /\ u.qty > 0 => u.cum = orders'[id].filled /\ (u.done <=> orders'[id].filled = orders[id].qty)
      /\ u.qty = 0 => u.cum = 0 /\ u.done
      /\ UNCHANGED <<slots, next_id, position, ledger, strat, refused>>
  BY DEF Reported
<1>5. TypeOK'
  <2>1. dropped' \subseteq Update /\ IsFiniteSet(dropped')
    <3>1. dropped \subseteq Update /\ IsFiniteSet(dropped)
      BY <1>1 DEF TypeOK
    <3>2. dropped' = dropped \/ dropped' = dropped \cup {u}
      BY <1>2
    <3>3. IsFiniteSet(dropped \cup {u})
      BY <3>1, FS_AddElement
    <3> QED
      BY <1>1, <3>1, <3>2, <3>3
  <2> QED
    BY <1>1, <1>2, <1>4, <2>1 DEF TypeOK
<1>6. OrdersSound'
  <2>1. ASSUME NEW i \in 1..Len(orders) 
        PROVE  /\ orders'[i].filled <= orders'[i].qty /\ orders'[i].qty > 0
               /\ orders'[i].filled = orders'[i].qty => orders'[i].status = "CLOSED"
               /\ orders'[i].status = "SENT" => orders'[i].filled = 0
    <3>1. CASE i # id
      BY <1>4, <3>1 DEF QueueInv, OrdersSound
    <3>2. CASE i = id
      <4>1. orders[id].qty > 0 /\ orders'[id].status # "SENT"
        BY <1>4 DEF QueueInv, OrdersSound
      <4>2. orders'[id].filled = orders'[id].qty => u.done
        <5>1. orders'[id].filled = orders'[id].qty /\ u.qty > 0 => u.done
          BY <1>4
        <5> QED
          BY <1>1, <1>4, <5>1
      <4> QED
        BY <1>4, <3>2, <4>1, <4>2
    <3> QED
      BY <3>1, <3>2
  <2> QED
    BY <1>4, <2>1 DEF OrdersSound
<1>7. SlotsSound' /\ SubmitSound'
  <2>1. ASSUME NEW i \in 1..MaxSlots, slots[i].active PROVE slots[i].filled <= orders'[slots[i].id].filled
    <3>1. slots[i].id \in 1..Len(orders) /\ slots[i].filled <= orders[slots[i].id].filled /\ slots[i].filled \in Nat
      BY <2>1, SlotFacts
    <3>2. orders[slots[i].id].filled <= orders'[slots[i].id].filled
      <4>1. CASE slots[i].id = id
        BY <1>1, <1>4, <4>1
      <4>2. CASE slots[i].id # id
        <5>1. orders'[slots[i].id] = orders[slots[i].id]
          BY <1>4, <3>1, <4>2
        <5>2. orders[slots[i].id].filled \in Nat
          BY <1>1, <3>1
        <5> QED
          BY <5>1, <5>2
      <4> QED
        BY <4>1, <4>2
    <3>3. orders[slots[i].id].filled \in Nat /\ orders'[slots[i].id].filled \in Nat
      <4>1. orders'[slots[i].id] \in Order
        BY <1>4, <3>1
      <4> QED
        BY <1>1, <3>1, <4>1 DEF Order
    <3> QED
      BY <3>1, <3>2, <3>3
  <2>2. SlotsSound'
    BY <1>4, <2>1 DEF QueueInv, SlotsSound
  <2> QED
    BY <1>4, <2>2 DEF QueueInv, SubmitSound
<1>8. OpenHasSlot'
  <2>1. ASSUME NEW i \in 1..Len(orders), orders'[i].status # "CLOSED", i \notin refused
        PROVE  find_order(i)' # {}
    <3>1. orders[i].status # "CLOSED"
      BY <1>1, <1>4, <2>1
    <3>2. find_order(i)' = find_order(i)
      BY <1>4, FindSame
    <3> QED
      BY <2>1, <3>1, <3>2 DEF QueueInv, OpenHasSlot
  <2> QED
    BY <1>4, <2>1 DEF OpenHasSlot
<1>9. \A i \in 1..Len(q) : q[i] \in Update /\ UpdateSound(q[i]) /\ q[i].cum \in Nat /\ q[i].qty \in Nat
  BY QueuedFacts
<1>10. QueueSound'
  <2>1. \A w \in dropped' : UpdateSound(w)'
    BY <1>2, <1>3 DEF QueueInv, QueueSound, TypeOK
  <2>2. ASSUME NEW i \in 1..Len(q), q[i].qty > 0 PROVE q[i] # u
    BY <1>1, <1>3, <1>4, <1>9, <2>2
  <2>3. ASSUME NEW i \in 1..Len(q), NEW w, w = q[i] PROVE QueuedSound(w)'
    <3>1. UpdateSound(w)' /\ (w.qty > 0 => w \notin dropped')
      BY <1>2, <1>3, <1>9, <2>2, <2>3, QueuedFacts DEF QueuedSound
    <3>2. find_order(w.id)' = find_order(w.id)
      BY <1>4, FindSame
    <3> QED
      BY <1>4, <2>3, <3>1, <3>2, QueuedFacts DEF QueuedSound
  <2>4. CASE q' = q
    <3>1. \A i \in 1..Len(q') : QueuedSound(q[i])'
      BY <2>3, <2>4
    <3>2. \A i \in 1..Len(q) : \A j \in 1..(i - 1) : q[j].id = q[i].id => InOrder(q[j], q[i])
      BY QueuedFacts
    <3> QED
      BY <2>1, <2>4, <3>1, <3>2 DEF QueueSound, InOrder
  <2>5. CASE /\ Len(q') = Len(q) + 1 /\ q'[Len(q) + 1] = u /\ dropped' = dropped
             /\ \A i \in 1..Len(q) : q'[i] = q[i]
    <3>1. find_order(id)' = find_order(id)
      BY <1>4, FindSame
    <3>2. QueuedSound(u)'
      <4>1. ASSUME u.qty > 0, u \in dropped PROVE FALSE
        BY <1>1, <1>3, <1>4, <4>1 DEF QueueInv, QueueSound
      <4>2. id \notin refused => find_order(id) # {}
        BY <1>1 DEF QueueInv, OpenHasSlot
      <4>3. ASSUME NEW s \in find_order(id), u.qty > 0 PROVE slots[s].filled + u.qty <= u.cum
        <5>1. s \in 1..MaxSlots /\ slots[s].active /\ slots[s].id = id
          BY <4>3 DEF find_order
        <5>2. slots[s].filled \in Nat /\ slots[s].filled <= orders[id].filled
          BY <5>1, SlotFacts
        <5>3. u.cum = orders[id].filled + u.qty
          BY <1>4, <4>3
        <5> QED
          BY <1>1, <5>2, <5>3
      <4> QED
        BY <1>1, <1>3, <1>4, <2>5, <3>1, <4>1, <4>2, <4>3 DEF QueuedSound
    <3>3. ASSUME NEW j \in 1..Len(q), q[j].id = id PROVE InOrder(q[j], u)
      <4>1. ~q[j].done /\ q[j].cum <= orders[id].filled
        BY <1>3, <1>9, <3>3
      <4>2. u.qty > 0 => u.cum = orders[id].filled + u.qty
        BY <1>4
      <4>3. q[j].cum \in Nat /\ u.qty \in Nat /\ orders[id].filled \in Nat
        BY <1>1, <1>9
      <4> QED
        BY <4>1, <4>2, <4>3 DEF InOrder
    <3>4. \A i \in 1..Len(q') : (i \in 1..Len(q) /\ q'[i] = q[i]) \/ (i = Len(q) + 1 /\ q'[i] = u)
      BY <1>1, <2>5 DEF TypeOK
    <3>5. \A i \in 1..Len(q') : \A w : w = q'[i] => QueuedSound(w)'
      BY <2>3, <3>2, <3>4
    <3>6. ASSUME NEW i \in 1..Len(q'), NEW j \in 1..(i - 1), q'[j].id = q'[i].id
          PROVE  InOrder(q'[j], q'[i])
      <4>1. j \in 1..Len(q) /\ q'[j] = q[j] /\ Len(q) \in Nat
        BY <1>1, <2>5 DEF TypeOK
      <4>2. CASE i \in 1..Len(q)
        BY <2>5, <3>6, <4>1, <4>2, QueuedFacts
      <4>3. CASE i = Len(q) + 1
        BY <1>1, <2>5, <3>3, <3>6, <4>1, <4>3
      <4> QED
        BY <3>4, <4>2, <4>3
    <3>7. \A i \in 1..Len(q') : QueuedSound(q[i])'
      BY <3>5
    <3> QED
      BY <2>1, <3>6, <3>7 DEF QueueSound, InOrder
  <2> QED
    BY <1>2, <2>4, <2>5
<1>11. EndingComes'
  <2>1. ASSUME NEW i \in 1..MaxSlots, slots[i].active, orders'[slots[i].id].status = "CLOSED"
        PROVE  Ending(Held', slots[i].id)
    <3>1. CASE slots[i].id = id
      BY <1>1, <1>2, <1>4, <2>1, <3>1 DEF Ending
    <3>2. CASE slots[i].id # id
      <4>1. orders[slots[i].id].status = "CLOSED"
        BY <1>4, <2>1, <3>2, SlotFacts
      <4> QED
        BY <1>2, <2>1, <4>1 DEF QueueInv, EndingComes, Ending, Held
    <3> QED
      BY <3>1, <3>2
  <2> QED
    BY <1>4, <2>1 DEF EndingComes, Held
<1> QED
  BY <1>5, <1>6, <1>7, <1>8, <1>10, <1>11 DEF QueueInv

LEMMA SubmitEffect ==
  ASSUME QueueInv, NEW v \in Venues, NEW side \in Sides, NEW n \in Quantities, Submit(v, side, n)
  PROVE  LET f == find_free_slot
             o == [v |-> v, side |-> side, qty |-> n, filled |-> 0, status |-> "SENT"]
             new == [id |-> next_id, v |-> v, side |-> side, qty |-> n, filled |-> 0, active |-> TRUE]
         IN  /\ f \in 1..MaxSlots /\ ~slots[f].active /\ o \in Order /\ new \in Slot
             /\ n \in Nat /\ n > 0 /\ next_id = Len(orders) + 1 /\ next_id \in Ids
             /\ slots' \in [1..MaxSlots -> Slot]
             /\ \A i \in 1..MaxSlots : slots'[i] = IF i = f THEN new ELSE slots[i]
             /\ orders' \in Seq(Order) /\ Len(orders') = Len(orders) + 1
             /\ \A id \in 1..Len(orders) : orders'[id] = orders[id]
             /\ orders'[next_id] = o
             /\ next_id' = next_id + 1 /\ strat.pc = "idle" /\ strat' = [pc |-> "submit", slot |-> f]
             /\ UNCHANGED <<position, ledger, q, dropped, refused>>
<1> DEFINE f == find_free_slot
           o == [v |-> v, side |-> side, qty |-> n, filled |-> 0, status |-> "SENT"]
           new == [id |-> next_id, v |-> v, side |-> side, qty |-> n, filled |-> 0, active |-> TRUE]
<1>1. TypeOK /\ slots \in [1..MaxSlots -> Slot] /\ orders \in Seq(Order) /\ next_id = Len(orders) + 1 /\ Len(orders) \in Nat
  BY DEF QueueInv, TypeOK
<1>2. /\ strat.pc = "idle" /\ FreeSlots # {} /\ next_id <= MaxId
      /\ slots' = [slots EXCEPT ![f] = new] /\ strat' = [pc |-> "submit", slot |-> f]
      /\ orders' = Append(orders, o) /\ next_id' = next_id + 1
      /\ UNCHANGED <<position, ledger, q, dropped, refused>>
  BY DEF Submit
<1>3. f \in 1..MaxSlots /\ ~slots[f].active
  BY <1>1, <1>2, FreeSlotFound
<1>4. n \in Nat /\ n > 0 /\ next_id \in Ids /\ next_id \in 0..MaxId
  BY <1>1, <1>2, ManagerAssumption DEF Ids
<1>5. o \in Order /\ new \in Slot
  BY <1>4 DEF Order, Slot, Statuses
<1> HIDE DEF f, o, new
<1>6. slots' \in [1..MaxSlots -> Slot] /\ \A i \in 1..MaxSlots : slots'[i] = IF i = f THEN new ELSE slots[i]
  BY <1>1, <1>2, <1>3, <1>5
<1>7. /\ orders' \in Seq(Order) /\ Len(orders') = Len(orders) + 1
      /\ \A id \in 1..Len(orders) : orders'[id] = orders[id]
      /\ orders'[next_id] = o
  BY <1>1, <1>2, <1>5
<1> QED
  BY <1>1, <1>2, <1>3, <1>4, <1>5, <1>6, <1>7 DEF f, o, new

LEMMA SubmitInv ==
  ASSUME QueueInv, NEW v \in Venues, NEW side \in Sides, NEW n \in Quantities, Submit(v, side, n)
  PROVE  QueueInv'
<1> DEFINE f == find_free_slot
           o == [v |-> v, side |-> side, qty |-> n, filled |-> 0, status |-> "SENT"]
           new == [id |-> next_id, v |-> v, side |-> side, qty |-> n, filled |-> 0, active |-> TRUE]
<1>1. /\ f \in 1..MaxSlots /\ ~slots[f].active
      /\ n \in Nat /\ n > 0 /\ next_id = Len(orders) + 1 /\ next_id \in Ids
      /\ slots' \in [1..MaxSlots -> Slot]
      /\ \A i \in 1..MaxSlots : slots'[i] = IF i = f THEN new ELSE slots[i]
      /\ orders' \in Seq(Order) /\ Len(orders') = Len(orders) + 1
      /\ \A id \in 1..Len(orders) : orders'[id] = orders[id]
      /\ orders'[next_id] = o
      /\ next_id' = next_id + 1 /\ strat' = [pc |-> "submit", slot |-> f]
      /\ UNCHANGED <<position, ledger, q, dropped, refused>>
  BY SubmitEffect
<1>2. /\ new.id = next_id /\ new.v = v /\ new.side = side /\ new.qty = n /\ new.filled = 0 /\ new.active
      /\ o.v = v /\ o.side = side /\ o.qty = n /\ o.filled = 0 /\ o.status = "SENT"
  OBVIOUS
<1> HIDE DEF f, o, new
<1>3. TypeOK /\ Len(orders) \in Nat /\ refused \subseteq 1..Len(orders) /\ next_id \notin 1..Len(orders)
  BY <1>1 DEF QueueInv, TypeOK
<1>4. TypeOK'
  <2>1. Len(orders') <= MaxId /\ next_id' = Len(orders') + 1 /\ refused' \subseteq 1..Len(orders')
    BY <1>1, <1>3, ManagerAssumption DEF Ids
  <2>2. strat' \in [pc : {"idle", "submit", "drain"}, slot : 0..MaxSlots]
    BY <1>1, ManagerAssumption
  <2> QED
    BY <1>1, <1>3, <2>1, <2>2 DEF TypeOK
<1>5. \A id \in 1..Len(orders') : id \in 1..Len(orders) \/ id = next_id
  BY <1>1, <1>3
<1>6. OrdersSound'
  BY <1>1, <1>2, <1>5 DEF QueueInv, OrdersSound
<1>7. ASSUME NEW i \in 1..MaxSlots, i # f, slots[i].active
      PROVE  slots'[i] = slots[i] /\ slots[i].id \in 1..Len(orders) /\ slots[i].id # next_id
  BY <1>1, <1>3, <1>7, SlotFacts
<1>8. SlotsSound'
  <2>1. ASSUME NEW i \in 1..MaxSlots, slots'[i].active
        PROVE  /\ slots'[i].id \in 1..Len(orders') /\ slots'[i].id \notin refused
               /\ slots'[i].v = orders'[slots'[i].id].v /\ slots'[i].side = orders'[slots'[i].id].side
               /\ slots'[i].qty = orders'[slots'[i].id].qty
               /\ slots'[i].filled <= orders'[slots'[i].id].filled
               /\ \A j \in 1..MaxSlots : slots'[j].active /\ slots'[j].id = slots'[i].id => j = i
    <3>1. CASE i = f
      <4>1. slots'[i] = new /\ next_id \in 1..Len(orders') /\ next_id \notin refused
        BY <1>1, <1>3, <3>1
      <4>2. ASSUME NEW j \in 1..MaxSlots, slots'[j].active, slots'[j].id = next_id PROVE j = i
        BY <1>1, <1>7, <3>1, <4>2
      <4> QED
        BY <1>1, <1>2, <4>1, <4>2
    <3>2. CASE i # f
      <4>1. slots'[i] = slots[i] /\ slots[i].active /\ slots[i].id \in 1..Len(orders) /\ slots[i].id # next_id
        BY <1>1, <1>7, <2>1, <3>2
      <4>2. /\ slots[i].id \notin refused /\ slots[i].v = orders[slots[i].id].v /\ slots[i].side = orders[slots[i].id].side
            /\ slots[i].qty = orders[slots[i].id].qty /\ slots[i].filled <= orders[slots[i].id].filled
            /\ \A j \in 1..MaxSlots : slots[j].active /\ slots[j].id = slots[i].id => j = i
        BY <4>1 DEF QueueInv, SlotsSound
      <4>3. ASSUME NEW j \in 1..MaxSlots, slots'[j].active, slots'[j].id = slots'[i].id PROVE j = i
        BY <1>1, <1>2, <4>1, <4>2, <4>3
      <4> QED
        BY <1>1, <1>3, <4>1, <4>2, <4>3
    <3> QED
      BY <3>1, <3>2
  <2> QED
    BY <1>1, <2>1 DEF SlotsSound
<1>9. SubmitSound'
  BY <1>1, <1>2 DEF SubmitSound
<1>10. \A id \in 1..Len(orders) : find_order(id)' = find_order(id)
  <2>1. ASSUME NEW id \in 1..Len(orders), NEW i \in 1..MaxSlots
        PROVE  (slots'[i].active /\ slots'[i].id = id) <=> (slots[i].active /\ slots[i].id = id)
    <3>1. CASE i = f
      BY <1>1, <1>2, <1>3, <3>1
    <3>2. CASE i # f
      BY <1>1, <3>2
    <3> QED
      BY <3>1, <3>2
  <2> QED
    BY <2>1 DEF find_order
<1>11. ASSUME NEW id, id = next_id PROVE f \in find_order(id)'
  BY <1>1, <1>2, <1>11 DEF find_order
<1>12. OpenHasSlot'
  <2>1. ASSUME NEW id \in 1..Len(orders'), orders'[id].status # "CLOSED", id \notin refused
        PROVE  find_order(id)' # {}
    <3>1. CASE id = next_id
      BY <1>11, <3>1
    <3>2. CASE id \in 1..Len(orders)
      BY <1>1, <1>10, <2>1, <3>2 DEF QueueInv, OpenHasSlot
    <3> QED
      BY <1>5, <3>1, <3>2
  <2> QED
    BY <1>1, <2>1 DEF OpenHasSlot
<1>13. QueueSound'
  <2>1. ASSUME NEW w, UpdateSound(w) PROVE UpdateSound(w)'
    <3>1. w.id \in 1..Len(orders) /\ w.id \in 1..Len(orders') /\ orders'[w.id] = orders[w.id]
      BY <1>1, <1>3, <2>1 DEF UpdateSound
    <3> QED
      BY <2>1, <3>1 DEF UpdateSound
  <2>2. ASSUME NEW w, QueuedSound(w) PROVE QueuedSound(w)'
    <3>1. w.id \in 1..Len(orders)
      BY <2>2 DEF QueuedSound, UpdateSound
    <3>2. find_order(w.id)' = find_order(w.id) /\ \A s \in find_order(w.id) : slots'[s] = slots[s]
      BY <1>1, <1>10, <3>1 DEF find_order
    <3> QED
      BY <1>1, <2>1, <2>2, <3>2 DEF QueuedSound
  <2> QED
    BY <1>1, <2>1, <2>2 DEF QueueInv, QueueSound, InOrder
<1>14. EndingComes'
  <2>1. Held' = Held
    BY <1>1 DEF Held, QueuedUpdates
  <2>2. ASSUME NEW i \in 1..MaxSlots, slots'[i].active, orders'[slots'[i].id].status = "CLOSED"
        PROVE  Ending(Held, slots'[i].id)
    <3>1. i # f
      BY <1>1, <1>2, <2>2
    <3>2. slots'[i] = slots[i] /\ slots[i].active /\ orders'[slots[i].id] = orders[slots[i].id]
      BY <1>1, <1>7, <2>2, <3>1
    <3> QED
      BY <2>2, <3>2 DEF QueueInv, EndingComes, Held
  <2> QED
    BY <2>1, <2>2 DEF EndingComes, Held
<1> QED
  BY <1>4, <1>6, <1>8, <1>9, <1>12, <1>13, <1>14 DEF QueueInv

LEMMA SubmitFailedInv ==
  ASSUME QueueInv, SubmitFailed
  PROVE  QueueInv'
<1> DEFINE f == strat.slot
           r == slots[f].id
           gone == [slots[f] EXCEPT !.active = FALSE]
<1>1. f \in 1..MaxSlots /\ slots[f].active /\ TypeOK
  BY DEF SubmitFailed, QueueInv, SubmitSound
<1>2. slots[f] \in Slot /\ r \in 1..Len(orders) /\ find_order(r) = {f}
  BY <1>1, SlotFacts
<1>3. gone \in Slot /\ ~gone.active
  BY <1>2 DEF Slot
<1>4. /\ slots' = [slots EXCEPT ![f] = gone]
      /\ strat' = [pc |-> "idle", slot |-> 0] /\ refused' = refused \cup {r}
      /\ UNCHANGED <<next_id, position, ledger, q, orders, dropped>>
  BY <1>1, <1>2 DEF SubmitFailed, QueueInv, TypeOK
<1> HIDE DEF f, r, gone
<1>5. slots' \in [1..MaxSlots -> Slot] /\ \A i \in 1..MaxSlots : slots'[i] = IF i = f THEN gone ELSE slots[i]
  BY <1>1, <1>3, <1>4 DEF TypeOK
<1>6. TypeOK'
  <2>1. strat' \in [pc : {"idle", "submit", "drain"}, slot : 0..MaxSlots]
    BY <1>4, ManagerAssumption
  <2> QED
    BY <1>1, <1>2, <1>4, <1>5, <2>1 DEF TypeOK
<1>7. OrdersSound' /\ SubmitSound'
  BY <1>4 DEF QueueInv, OrdersSound, SubmitSound
<1>8. \A i \in 1..MaxSlots : slots'[i].active => slots'[i] = slots[i] /\ slots[i].active /\ i # f
  BY <1>3, <1>5
<1>9. \A i \in 1..MaxSlots : i # f => slots'[i] = slots[i]
  BY <1>5
<1>10. ASSUME NEW i \in 1..MaxSlots, slots[i].active, i # f PROVE slots[i].id # r
  BY <1>1, <1>2, <1>10 DEF find_order
<1>11. SlotsSound'
  BY <1>4, <1>8, <1>10 DEF QueueInv, SlotsSound
<1>12. ASSUME NEW id, id # r
       PROVE  find_order(id)' = find_order(id) /\ \A s \in find_order(id) : slots'[s] = slots[s]
  <2>1. ASSUME NEW i \in 1..MaxSlots
        PROVE  (slots'[i].active /\ slots'[i].id = id) <=> (slots[i].active /\ slots[i].id = id)
    <3>1. CASE i = f
      BY <1>3, <1>5, <1>12, <3>1 DEF r
    <3>2. CASE i # f
      BY <1>5, <3>2
    <3> QED
      BY <3>1, <3>2
  <2>2. f \notin find_order(id)
    BY <1>12 DEF find_order, r
  <2> QED
    BY <1>9, <2>1, <2>2 DEF find_order
<1>13. ASSUME NEW id, id = r PROVE find_order(id)' = {}
  <2>1. ASSUME NEW i \in 1..MaxSlots, slots'[i].active, slots'[i].id = id PROVE FALSE
    BY <1>8, <1>10, <1>13, <2>1
  <2> QED
    BY <2>1 DEF find_order
<1>14. OpenHasSlot'
  BY <1>4, <1>12 DEF QueueInv, OpenHasSlot
<1>15. QueueSound'
  <2>1. ASSUME NEW w, UpdateSound(w) PROVE UpdateSound(w)'
    BY <1>4, <2>1 DEF UpdateSound
  <2>2. ASSUME NEW w, QueuedSound(w) PROVE QueuedSound(w)'
    <3>1. CASE w.id = r
      BY <1>4, <1>13, <2>1, <2>2, <3>1 DEF QueuedSound
    <3>2. CASE w.id # r
      BY <1>4, <1>12, <2>1, <2>2, <3>2 DEF QueuedSound
    <3> QED
      BY <3>1, <3>2
  <2> QED
    BY <1>4, <2>1, <2>2 DEF QueueInv, QueueSound, InOrder
<1>16. EndingComes'
  BY <1>4, <1>8 DEF QueueInv, EndingComes, Ending, QueuedUpdates
<1> QED
  BY <1>6, <1>7, <1>11, <1>14, <1>15, <1>16 DEF QueueInv

\* The update drain_fills pops: no other update of its order is in the queue when
\* it ends the order, and what it says was not applied.
LEMMA HeadFacts ==
  ASSUME QueueInv, q # << >>
  PROVE  LET u == Head(q)
         IN  /\ u \in Update /\ QueuedSound(u) /\ UpdateSound(u) /\ u.id \in 1..Len(orders)
             /\ u.qty \in Nat /\ u.cum \in Nat /\ u.done \in BOOLEAN /\ u.id \in Ids
             /\ Tail(q) \in Seq(Update) /\ Len(Tail(q)) = Len(q) - 1 /\ Len(q) \in Nat /\ Len(q) > 0
             /\ u = q[1] /\ \A i \in 1..Len(Tail(q)) : Tail(q)[i] = q[i + 1] /\ i + 1 \in 1..Len(q)
             /\ \A i \in 2..Len(q) : q[i].id = u.id => InOrder(u, q[i])
             /\ QueuedUpdates = {u} \cup {Tail(q)[i] : i \in 1..Len(Tail(q))}
             /\ u.qty > 0 => u \notin {Tail(q)[i] : i \in 1..Len(Tail(q))} \cup dropped
<1> DEFINE u == Head(q)
           t == Tail(q)
<1>1. q \in Seq(Update) /\ Len(q) \in Nat /\ Len(q) > 0
  BY DEF QueueInv, TypeOK
<1>2. /\ t \in Seq(Update) /\ Len(t) = Len(q) - 1 /\ u = q[1]
      /\ \A i \in 1..Len(t) : t[i] = q[i + 1] /\ i + 1 \in 1..Len(q) /\ i + 1 \in 2..Len(q)
  BY <1>1
<1>3. 1 \in 1..Len(q) /\ \A i \in 2..Len(q) : i \in 1..Len(q) /\ 1 \in 1..(i - 1) /\ i - 1 \in 1..Len(t) /\ q[i] = t[i - 1]
  BY <1>1, <1>2
<1> HIDE DEF u, t
<1>4. /\ u \in Update /\ QueuedSound(u) /\ UpdateSound(u) /\ u.id \in 1..Len(orders)
      /\ u.qty \in Nat /\ u.cum \in Nat /\ u.done \in BOOLEAN /\ u.id \in Ids
  BY <1>2, <1>3, QueuedFacts, UpdateTypes
<1>5. \A i \in 2..Len(q) : q[i].id = u.id => InOrder(u, q[i])
  BY <1>2, <1>3, QueuedFacts
<1>6. QueuedUpdates = {u} \cup {t[i] : i \in 1..Len(t)}
  <2>1. ASSUME NEW w \in QueuedUpdates PROVE w \in {u} \cup {t[i] : i \in 1..Len(t)}
    <3>1. PICK i \in 1..Len(q) : w = q[i]
      BY DEF QueuedUpdates
    <3>2. CASE i = 1
      BY <1>2, <3>1, <3>2
    <3>3. CASE i # 1
      <4>1. i \in 2..Len(q)
        BY <1>1, <3>3
      <4> QED
        BY <1>3, <3>1, <4>1
    <3> QED
      BY <3>2, <3>3
  <2>2. ASSUME NEW w \in {u} \cup {t[i] : i \in 1..Len(t)} PROVE w \in QueuedUpdates
    BY <1>2, <1>3 DEF QueuedUpdates
  <2> QED
    BY <2>1, <2>2
<1>7. ASSUME u.qty > 0, NEW i \in 1..Len(t), t[i] = u PROVE FALSE
  <2>1. InOrder(u, u)
    BY <1>2, <1>5, <1>7
  <2> QED
    BY <1>4, <1>7, <2>1 DEF InOrder
<1>8. u.qty > 0 => u \notin dropped
  BY <1>4 DEF QueuedSound
<1> QED
  BY <1>1, <1>2, <1>4, <1>5, <1>6, <1>7, <1>8 DEF u, t

LEMMA HeldAfter ==
  ASSUME QueueInv, q # << >>, q' = Tail(q), dropped' = dropped
  PROVE  /\ QueuedUpdates = {Head(q)} \cup QueuedUpdates' /\ Held = {Head(q)} \cup Held'
         /\ Head(q).qty > 0 => Head(q) \notin Held'
<1>1. QueuedUpdates' = {Tail(q)[i] : i \in 1..Len(Tail(q))}
  BY DEF QueuedUpdates
<1>2. /\ QueuedUpdates = {Head(q)} \cup {Tail(q)[i] : i \in 1..Len(Tail(q))}
      /\ Head(q).qty > 0 => Head(q) \notin {Tail(q)[i] : i \in 1..Len(Tail(q))} \cup dropped
  BY HeadFacts
<1> QED
  BY <1>1, <1>2 DEF Held

\* ApplyFill takes the head off; either its order has no slot any more, or it is
\* applied to that slot.
AppliedTo(i, u) ==
  /\ i \in 1..MaxSlots /\ slots[i].active /\ slots[i].id = u.id /\ find_order(u.id) = {i}
  /\ slots' \in [1..MaxSlots -> Slot]
  /\ \A j \in 1..MaxSlots : j # i => slots'[j] = slots[j]
  /\ slots'[i].id = slots[i].id /\ slots'[i].v = slots[i].v /\ slots'[i].side = slots[i].side
  /\ slots'[i].qty = slots[i].qty /\ slots'[i].filled = u.cum /\ (slots'[i].active <=> ~u.done)
  /\ position' = PositionAfter(slots[i], u)
  /\ ledger' = LedgerAfter(slots[i], u)

LEMMA ApplyCases ==
  ASSUME QueueInv, ApplyFill
  PROVE  LET u == Head(q)
         IN  /\ q # << >> /\ q' = Tail(q) /\ strat.pc = "drain"
             /\ UNCHANGED <<next_id, strat, orders, dropped, refused>>
             /\ \/ find_order(u.id) = {} /\ UNCHANGED <<slots, position, ledger>>
                \/ \E i \in find_order(u.id) : AppliedTo(i, u)
<1> DEFINE u == Head(q)
<1>1. /\ q # << >> /\ q' = Tail(q) /\ strat.pc = "drain"
      /\ UNCHANGED <<next_id, strat, orders, dropped, refused>>
  BY DEF ApplyFill
<1>2. u \in Update /\ u.cum \in Nat /\ u.done \in BOOLEAN
  BY <1>1, HeadFacts
<1>3. \/ find_order(u.id) = {} /\ UNCHANGED <<slots, position, ledger>>
      \/ \E i \in find_order(u.id) :
           /\ slots' = [slots EXCEPT ![i] = SlotAfter(slots[i], u)]
           /\ position' = PositionAfter(slots[i], u)
           /\ ledger' = LedgerAfter(slots[i], u)
  BY DEF ApplyFill
<1> HIDE DEF u
<1>4. ASSUME NEW i \in find_order(u.id),
             slots' = [slots EXCEPT ![i] = SlotAfter(slots[i], u)],
             position' = PositionAfter(slots[i], u), ledger' = LedgerAfter(slots[i], u)
      PROVE  AppliedTo(i, u)
  <2>1. i \in 1..MaxSlots /\ slots[i].active /\ slots[i].id = u.id
    BY <1>4 DEF find_order
  <2>2. slots[i] \in Slot /\ find_order(u.id) = {i}
    BY <2>1, SlotFacts
  <2> DEFINE s == SlotAfter(slots[i], u)
  <2>3. /\ s \in Slot /\ s.id = slots[i].id /\ s.v = slots[i].v /\ s.side = slots[i].side
        /\ s.qty = slots[i].qty /\ s.filled = u.cum /\ (s.active <=> ~u.done)
    BY <1>2, <2>2 DEF SlotAfter, Slot
  <2>4. slots' = [slots EXCEPT ![i] = s] /\ slots \in [1..MaxSlots -> Slot]
    BY <1>4 DEF QueueInv, TypeOK
  <2> HIDE DEF s
  <2>5. slots' \in [1..MaxSlots -> Slot] /\ slots'[i] = s /\ \A j \in 1..MaxSlots : j # i => slots'[j] = slots[j]
    BY <2>1, <2>3, <2>4
  <2> QED
    BY <1>4, <2>1, <2>2, <2>3, <2>5 DEF AppliedTo
<1>5. \/ find_order(u.id) = {} /\ UNCHANGED <<slots, position, ledger>>
      \/ \E i \in find_order(u.id) : AppliedTo(i, u)
  BY <1>3, <1>4
<1> QED
  BY <1>1, <1>5 DEF u

\* The ledger after an update, in two steps: the fill, then the end.
LEMMA LedgerAfterType ==
  ASSUME ledger \in [Venues -> Account], NEW o, o.v \in Venues, o.side \in Sides, o.qty \in Nat,
         NEW u, u.qty \in Nat, u.cum \in Nat
  PROVE  LedgerAfter(o, u) \in [Venues -> Account]
<1> DEFINE l == IF u.qty > 0 THEN ledger_on_fill(ledger, o, u.qty) ELSE ledger
           r == MinusToZero(o.qty, u.cum)
<1>1. ledger_on_fill(ledger, o, u.qty) \in [Venues -> Account]
  BY FilledFacts, FindFacts DEF OnlyPending
<1>2. l \in [Venues -> Account] /\ r \in Nat
  BY <1>1 DEF MinusToZero
<1>3. LedgerAfter(o, u) = IF u.done THEN on_order_closed(l, o, r) ELSE l
  BY DEF LedgerAfter
<1> HIDE DEF l, r
<1>4. on_order_closed(l, o, r) \in [Venues -> Account]
  BY <1>2, EndedFacts DEF OnlyPending
<1> QED
  BY <1>2, <1>3, <1>4

LEMMA ApplyFillInv ==
  ASSUME QueueInv, ApplyFill
  PROVE  QueueInv'
<1> DEFINE u == Head(q)
<1>1. /\ q # << >> /\ q' = Tail(q) /\ strat.pc = "drain"
      /\ UNCHANGED <<next_id, strat, orders, dropped, refused>>
      /\ \/ find_order(u.id) = {} /\ UNCHANGED <<slots, position, ledger>>
         \/ \E i \in find_order(u.id) : AppliedTo(i, u)
  BY ApplyCases
<1>2. /\ u \in Update /\ UpdateSound(u) /\ u.id \in 1..Len(orders)
      /\ u.qty \in Nat /\ u.cum \in Nat /\ u.done \in BOOLEAN /\ u.id \in Ids
      /\ q' \in Seq(Update) /\ Len(q') = Len(q) - 1 /\ Len(q) \in Nat
      /\ \A i \in 1..Len(q') : q'[i] = q[i + 1] /\ i + 1 \in 1..Len(q)
      /\ \A i \in 2..Len(q) : q[i].id = u.id => InOrder(u, q[i])
      /\ QueuedUpdates = {u} \cup QueuedUpdates'
  BY <1>1, HeadFacts, HeldAfter
<1> HIDE DEF u
<1>3. TypeOK
  BY DEF QueueInv
<1>4. ASSUME NEW i \in find_order(u.id), AppliedTo(i, u)
      PROVE  position' \in Int /\ ledger' \in [Venues -> Account]
  <2>1. slots[i].v \in Venues /\ slots[i].side \in Sides /\ slots[i].qty \in Nat
    BY <1>4, SlotFacts DEF AppliedTo
  <2>2. LedgerAfter(slots[i], u) \in [Venues -> Account]
    BY <1>2, <1>3, <2>1, LedgerAfterType DEF TypeOK
  <2>3. PositionAfter(slots[i], u) \in Int
    BY <1>2, <1>3 DEF PositionAfter, Signed, TypeOK
  <2> QED
    BY <1>4, <2>2, <2>3 DEF AppliedTo
<1>5. TypeOK'
  <2>1. slots' \in [1..MaxSlots -> Slot] /\ position' \in Int /\ ledger' \in [Venues -> Account]
    BY <1>1, <1>3, <1>4 DEF TypeOK, AppliedTo
  <2> QED
    BY <1>1, <1>2, <1>3, <2>1 DEF TypeOK
<1>6. OrdersSound'
  BY <1>1 DEF QueueInv, OrdersSound
<1>7. SubmitSound'
  BY <1>1 DEF QueueInv, SubmitSound
<1>8. SlotsSound'
  <2>1. CASE UNCHANGED slots
    BY <1>1, <2>1 DEF QueueInv, SlotsSound
  <2>2. ASSUME NEW i \in find_order(u.id), AppliedTo(i, u) PROVE SlotsSound'
    <3>1. u.cum <= orders[slots[i].id].filled
      BY <1>2, <2>2 DEF UpdateSound, AppliedTo
    <3>2. ASSUME NEW j \in 1..MaxSlots, slots'[j].active
          PROVE  /\ slots[j].active /\ slots'[j].id = slots[j].id /\ slots'[j].v = slots[j].v
                 /\ slots'[j].side = slots[j].side /\ slots'[j].qty = slots[j].qty
                 /\ slots'[j].filled <= orders[slots[j].id].filled
      <4>1. CASE j = i
        BY <2>2, <3>1, <4>1 DEF AppliedTo
      <4>2. CASE j # i
        BY <2>2, <3>2, <4>2, SlotFacts DEF AppliedTo
      <4> QED
        BY <4>1, <4>2
    <3> QED
      BY <1>1, <3>2 DEF QueueInv, SlotsSound
  <2> QED
    BY <1>1, <2>1, <2>2
\* What the step leaves of an order's slots.
<1>9. ASSUME NEW id, id # u.id \/ ~u.done
      PROVE  find_order(id)' = find_order(id)
  <2>1. CASE UNCHANGED slots
    BY <2>1, FindSame
  <2>2. ASSUME NEW i \in find_order(u.id), AppliedTo(i, u) PROVE find_order(id)' = find_order(id)
    <3>1. ASSUME NEW j \in 1..MaxSlots
          PROVE  (slots'[j].active /\ slots'[j].id = id) <=> (slots[j].active /\ slots[j].id = id)
      <4>1. CASE j = i
        BY <1>9, <2>2, <4>1 DEF AppliedTo
      <4>2. CASE j # i
        BY <2>2, <4>2 DEF AppliedTo
      <4> QED
        BY <4>1, <4>2
    <3> QED
      BY <3>1 DEF find_order
  <2> QED
    BY <1>1, <2>1, <2>2
<1>10. ASSUME NEW id, NEW s \in find_order(id)
       PROVE  /\ id # u.id => slots'[s] = slots[s]
              /\ id = u.id => slots'[s].filled = u.cum
  <2>1. s \in 1..MaxSlots /\ slots[s].id = id
    BY <1>10 DEF find_order
  <2>2. CASE find_order(u.id) = {} /\ UNCHANGED slots
    BY <1>10, <2>2
  <2>3. ASSUME NEW i \in find_order(u.id), AppliedTo(i, u)
        PROVE  /\ id # u.id => slots'[s] = slots[s]
               /\ id = u.id => slots'[s].filled = u.cum
    BY <1>10, <2>1, <2>3 DEF AppliedTo
  <2> QED
    BY <1>1, <2>2, <2>3
<1>11. OpenHasSlot'
  <2>1. ASSUME NEW id \in 1..Len(orders), orders[id].status # "CLOSED", id \notin refused
        PROVE  find_order(id)' # {}
    <3>1. id # u.id \/ ~u.done
      BY <1>2, <2>1 DEF UpdateSound
    <3>2. find_order(id)' = find_order(id)
      BY <1>9, <3>1
    <3> QED
      BY <2>1, <3>2 DEF QueueInv, OpenHasSlot
  <2> QED
    BY <1>1, <2>1 DEF OpenHasSlot
<1>12. QueueSound'
  <2>1. ASSUME NEW w, UpdateSound(w) PROVE UpdateSound(w)'
    BY <1>1, <2>1 DEF UpdateSound
  <2>2. ASSUME NEW i \in 1..Len(q), i # 1, NEW w, w = q[i] PROVE QueuedSound(w)'
    <3>1. w \in Update /\ QueuedSound(w) /\ w.qty \in Nat /\ w.cum \in Nat
      BY <2>2, QueuedFacts
    <3>2. w.id = u.id => ~u.done /\ (w.qty > 0 => u.cum + w.qty <= w.cum)
      BY <1>2, <2>2 DEF InOrder
    <3>3. find_order(w.id)' = find_order(w.id)
      BY <1>9, <3>2
    <3>4. ASSUME w.qty > 0, NEW s \in find_order(w.id) PROVE slots'[s].filled + w.qty <= w.cum
      <4>1. CASE w.id = u.id
        BY <1>10, <3>2, <3>4, <4>1
      <4>2. CASE w.id # u.id
        BY <1>10, <3>1, <3>4, <4>2 DEF QueuedSound
      <4> QED
        BY <4>1, <4>2
    <3> QED
      BY <1>1, <2>1, <3>1, <3>3, <3>4 DEF QueuedSound
  <2>3. \A i \in 1..Len(q') : q'[i] = q[i + 1] /\ i + 1 \in 1..Len(q) /\ i + 1 # 1
    BY <1>2
  <2>4. ASSUME NEW i \in 1..Len(q'), NEW w, w = q'[i] PROVE QueuedSound(w)'
    BY <2>2, <2>3, <2>4
  <2>5. \A i \in 1..Len(q') : QueuedSound(q[i])'
    BY <2>4
  <2>6. ASSUME NEW i \in 1..Len(q'), NEW j \in 1..(i - 1), q'[j].id = q'[i].id
        PROVE  InOrder(q'[j], q'[i])
    <3>1. j \in 1..Len(q') /\ j + 1 \in 1..((i + 1) - 1)
      BY <1>2
    <3>2. q'[i] = q[i + 1] /\ q'[j] = q[j + 1] /\ i + 1 \in 1..Len(q)
      BY <1>2, <3>1
    <3> QED
      BY <2>6, <3>1, <3>2, QueuedFacts
  <2>7. \A w \in dropped' : UpdateSound(w)'
    BY <1>1, <2>1 DEF QueueInv, QueueSound
  <2> QED
    BY <2>5, <2>6, <2>7 DEF QueueSound, InOrder
<1>13. EndingComes'
  <2>1. ASSUME NEW k \in 1..MaxSlots, slots'[k].active, orders[slots'[k].id].status = "CLOSED"
        PROVE  Ending(QueuedUpdates' \cup dropped, slots'[k].id)
    <3>1. slots[k].active /\ slots'[k].id = slots[k].id /\ (slots[k].id = u.id => ~u.done)
      <4>1. CASE find_order(u.id) = {} /\ UNCHANGED slots
        BY <2>1, <4>1 DEF find_order
      <4>2. ASSUME NEW i \in find_order(u.id), AppliedTo(i, u)
            PROVE  slots[k].active /\ slots'[k].id = slots[k].id /\ (slots[k].id = u.id => ~u.done)
        <5>1. CASE k = i
          BY <2>1, <4>2, <5>1 DEF AppliedTo
        <5>2. CASE k # i
          <6>1. slots'[k] = slots[k]
            BY <4>2, <5>2 DEF AppliedTo
          <6>2. k \notin find_order(u.id)
            BY <4>2, <5>2 DEF AppliedTo
          <6> QED
            BY <2>1, <6>1, <6>2 DEF find_order
        <5> QED
          BY <5>1, <5>2
      <4> QED
        BY <1>1, <4>1, <4>2
    <3>2. PICK w \in QueuedUpdates \cup dropped : w.id = slots[k].id /\ w.done
      BY <2>1, <3>1 DEF QueueInv, EndingComes, Ending
    <3>3. w # u
      BY <3>1, <3>2
    <3> QED
      BY <1>2, <3>1, <3>2, <3>3 DEF Ending
  <2> QED
    BY <1>1, <2>1 DEF EndingComes
<1> QED
  BY <1>5, <1>6, <1>7, <1>8, <1>11, <1>12, <1>13 DEF QueueInv

\* The steps of Next one by one, for the proofs about a step.
LEMMA Steps ==
  ASSUME Next
  PROVE  \/ \E v \in Venues : UpdateMidPrice(v)
         \/ \E v \in Venues, side \in Sides, n \in Quantities : Submit(v, side, n)
         \/ SubmitOk \/ SubmitFailed \/ DrainFills \/ ApplyFill \/ DrainDone
         \/ \E id \in 1..Len(orders) : Accept(id)
         \/ \E id \in 1..Len(orders) : Close(id)
         \/ \E id \in 1..Len(orders) : \E n \in 1..orders[id].qty : Fill(id, n)
BY DEF Next, Strategy

LEMMA QueueStep == QueueInv /\ [Next]_vars => QueueInv'
<1> SUFFICES ASSUME QueueInv, [Next]_vars PROVE QueueInv'
  OBVIOUS
<1>1. CASE UNCHANGED vars
  <2>1. position' \in Int /\ ledger' \in [Venues -> Account] /\ SubmitSound'
        /\ strat' \in [pc : {"idle", "submit", "drain"}, slot : 0..MaxSlots]
    BY <1>1 DEF QueueInv, TypeOK, SubmitSound, vars
  <2> QED
    BY <1>1, <2>1, QuietStep DEF vars
<1>2. CASE \E v \in Venues : UpdateMidPrice(v)
  BY <1>2, UpdateMidPriceInv
<1>3. CASE \E v \in Venues, side \in Sides, n \in Quantities : Submit(v, side, n)
  BY <1>3, SubmitInv
<1>4. CASE SubmitOk
  BY <1>4, SubmitOkInv
<1>5. CASE SubmitFailed
  BY <1>5, SubmitFailedInv
<1>6. CASE DrainFills \/ DrainDone
  BY <1>6, DrainInv
<1>7. CASE ApplyFill
  BY <1>7, ApplyFillInv
<1>8. CASE \E id \in 1..Len(orders) : Accept(id)
  BY <1>8, AcceptInv
<1>9. CASE \E id \in 1..Len(orders) : Close(id)
  BY <1>9, CloseReports, ReportedInv
<1>10. CASE \E id \in 1..Len(orders) : \E n \in 1..orders[id].qty : Fill(id, n)
  BY <1>10, FillReports, ReportedInv
<1> QED
  BY <1>1, <1>2, <1>3, <1>4, <1>5, <1>6, <1>7, <1>8, <1>9, <1>10, Steps

\* ManagerConsistent: whatever the two threads interleave, every variable keeps its
\* type, a slot belongs to one order that was not refused, an order that is not
\* over has a slot, and for each order the fill queue holds growing cumulative
\* fills that its slot has not heard of, the last of which may end it
\* (order_manager.hpp:66, :101 and :127).
THEOREM ManagerConsistent == Spec => []QueueInv
<1>1. Init => QueueInv
  BY InitQueueInv
<1> QED
  BY <1>1, QueueStep, PTL DEF Spec

\* SlotsFollowOrders: SlotsTrackOrders holds in every reachable state: a live order
\* that was not refused has exactly one slot, and a slot whose order is over
\* waits for an update that says so, unless a full queue dropped it
\* (order_manager.hpp:66 and :156).
THEOREM SlotsFollowOrders == Spec => []SlotsTrackOrders
<1>1. QueueInv => SlotsTrackOrders
  <2> SUFFICES ASSUME QueueInv PROVE SlotsTrackOrders
    OBVIOUS
  <2>1. ASSUME NEW id \in 1..Len(orders), orders[id].status = "LIVE", id \notin refused
        PROVE  Cardinality(find_order(id)) = 1
    <3>1. PICK i \in find_order(id) : TRUE
      BY <2>1 DEF QueueInv, OpenHasSlot
    <3>2. i \in 1..MaxSlots /\ slots[i].active /\ slots[i].id = id
      BY DEF find_order
    <3>3. find_order(id) = {i}
      BY <3>2, SlotFacts
    <3> QED
      BY <3>3, FS_Singleton
  <2> QED
    BY <2>1 DEF SlotsTrackOrders, QueueInv, EndingComes
<1> QED
  BY <1>1, ManagerConsistent, PTL

-----------------------------------------------------------------------------
(* The position is what was executed *)

\* The orders the manager took on, and what each has put into the position.
TakenOn == (1..Len(orders)) \ refused
AppliedSum == SumFunction([id \in TakenOn |-> Applied(id)])

LEMMA QtyFacts ==
  ASSUME NEW U, IsFiniteSet(U), U \subseteq Update, NEW id
  PROVE  QtyOf(U, id) \in Nat
<1> DEFINE S == {u \in U : u.id = id}
           f == [u \in S |-> u.qty]
<1>1. IsFiniteSet(S) /\ DOMAIN f = S
  BY FS_Subset
<1>2. \A u \in S : f[u] \in Nat
  BY UpdateTypes
<1>3. SumFunction(f) \in Nat
  <2> HIDE DEF S, f
  <2> QED
    BY <1>1, <1>2, SumNatural
<1> QED
  BY <1>3 DEF QtyOf

\* An update counts for its own order; one that filled nothing counts for none.
LEMMA QtyAdded ==
  ASSUME NEW U, IsFiniteSet(U), U \subseteq Update, NEW w \in Update,
         w.qty > 0 => w \notin U, NEW id
  PROVE  QtyOf(U \cup {w}, id) = QtyOf(U, id) + (IF w.id = id THEN w.qty ELSE 0)
<1> DEFINE S == {u \in U : u.id = id}
           T == {u \in U \cup {w} : u.id = id}
           e == [u \in S |-> u.qty]
           f == [u \in T |-> u.qty]
<1>1. IsFiniteSet(S) /\ DOMAIN e = S /\ DOMAIN f = T /\ w.qty \in Nat
  BY FS_Subset, UpdateTypes
<1>2. \A u \in S : e[u] = u.qty /\ e[u] \in Int
  BY UpdateTypes
<1>3. \A u \in T : f[u] = u.qty
  OBVIOUS
<1>4. QtyOf(U, id) = SumFunction(e) /\ QtyOf(U \cup {w}, id) = SumFunction(f)
  BY DEF QtyOf
<1>5. SumFunction(e) \in Int
  <2> HIDE DEF S, e
  <2> QED
    BY <1>1, <1>2, SumInt
<1>6. CASE w \in S \/ w.id # id
  <2>1. T = S
    BY <1>6
  <2>2. e = f
    BY <2>1
  <2>3. (IF w.id = id THEN w.qty ELSE 0) = 0
    BY <1>1, <1>6
  <2> QED
    BY <1>4, <1>5, <2>2, <2>3
<1>7. CASE w \notin S /\ w.id = id
  <2>1. T = S \cup {w}
    BY <1>7
  <2>2. f[w] = w.qty /\ f[w] \in Int /\ \A u \in S : f[u] = e[u]
    BY <1>1, <1>2, <1>3, <2>1
  <2> HIDE DEF S, T, e, f
  <2>3. SumFunction(f) = SumFunction(e) + f[w]
    BY <1>1, <1>2, <1>7, <2>1, <2>2, SumAdded
  <2> QED
    BY <1>4, <1>7, <2>2, <2>3
<1> QED
  BY <1>6, <1>7

\* An order nothing is held of.
LEMMA QtyOfNone ==
  ASSUME NEW U, NEW id, \A u \in U : u.id # id
  PROVE  QtyOf(U, id) = 0
<1>1. {u \in U : u.id = id} = {}
  OBVIOUS
<1>2. QtyOf(U, id) = SumFunctionOnSet([u \in {u \in U : u.id = id} |-> u.qty], {})
  BY <1>1 DEF QtyOf, SumFunction
<1> QED
  BY <1>2, SumOfNone

LEMMA AppliedFacts ==
  ASSUME TypeOK
  PROVE  /\ IsFiniteSet(TakenOn)
         /\ \A id \in 1..Len(orders) : Pending(id) \in Nat /\ Applied(id) \in Int
<1>1. IsFiniteSet(1..Len(orders))
  BY FS_Interval DEF TypeOK
<1>2. IsFiniteSet(TakenOn)
  BY <1>1, FS_Subset DEF TakenOn
<1>3. ASSUME NEW id \in 1..Len(orders) PROVE Pending(id) \in Nat /\ Applied(id) \in Int
  <2>1. Pending(id) \in Nat
    BY HeldFacts, QtyFacts DEF Pending, Held
  <2> QED
    BY <2>1, OrderTypes DEF Applied, Signed
<1> QED
  BY <1>2, <1>3

\* The steps that put nothing into the position.
LEMMA SumKept ==
  ASSUME QueueInv, PositionConserved, position' = position, TakenOn' = TakenOn,
         \A id \in TakenOn : Applied(id)' = Applied(id)
  PROVE  PositionConserved'
<1> DEFINE e == [id \in TakenOn |-> Applied(id)]
           f == [id \in TakenOn' |-> Applied(id)']
<1>1. e = f
  OBVIOUS
<1>2. position = InitialPosition + SumFunction(e)
  BY DEF PositionConserved, TakenOn, Applied, Pending
<1>3. position' = InitialPosition + SumFunction(f)
  BY <1>1, <1>2
<1> QED
  BY <1>3 DEF PositionConserved, TakenOn, Applied, Pending

LEMMA QuietSum ==
  ASSUME QueueInv, PositionConserved,
         UNCHANGED <<position, q, dropped, refused>>, Len(orders') = Len(orders),
         \A id \in 1..Len(orders) : orders'[id].side = orders[id].side /\ orders'[id].filled = orders[id].filled
  PROVE  PositionConserved'
<1>1. TakenOn' = TakenOn
  BY DEF TakenOn
<1>2. ASSUME NEW id \in TakenOn PROVE Applied(id)' = Applied(id)
  <2>1. Pending(id)' = Pending(id)
    BY DEF Pending, QueuedUpdates
  <2>2. id \in 1..Len(orders)
    BY DEF TakenOn
  <2> QED
    BY <2>1, <2>2 DEF Applied
<1> QED
  BY <1>1, <1>2, SumKept

LEMMA ReportedSum ==
  ASSUME QueueInv, PositionConserved, NothingApplied, NEW id \in 1..Len(orders), NEW u, Reported(id, u)
  PROVE  PositionConserved' /\ NothingApplied'
<1>1. /\ TypeOK /\ u \in Update /\ u.qty \in Nat /\ u.id = id /\ q \in Seq(Update) /\ Push(u)
      /\ UNCHANGED <<slots, position, strat, refused>> /\ Len(orders') = Len(orders)
      /\ \A i \in 1..Len(orders) : orders'[i].side = orders[i].side /\ (i # id => orders'[i] = orders[i])
      /\ orders'[id].filled = orders[id].filled + u.qty
      /\ u.qty > 0 => u.cum = orders'[id].filled
  BY UpdateTypes DEF QueueInv, TypeOK, Reported
<1>2. Held' = Held \cup {u} /\ IsFiniteSet(Held) /\ Held \subseteq Update
  BY <1>1, PushFacts, HeldFacts
<1>3. \A w \in Held : UpdateSound(w)
  BY QueuedFacts DEF QueueInv, QueueSound, Held, QueuedUpdates
<1>4. ASSUME u.qty > 0, u \in Held PROVE FALSE
  <2>1. u.cum <= orders[id].filled
    BY <1>1, <1>3, <1>4 DEF UpdateSound
  <2> QED
    BY <1>1, <1>4, <2>1, OrderTypes
<1>5. ASSUME NEW i \in 1..Len(orders)
      PROVE  Pending(i)' = Pending(i) + (IF i = id THEN u.qty ELSE 0)
  <2>1. QtyOf(Held \cup {u}, i) = QtyOf(Held, i) + (IF u.id = i THEN u.qty ELSE 0)
    BY <1>1, <1>2, <1>4, QtyAdded
  <2>2. Pending(i) = QtyOf(Held, i) /\ Pending(i)' = QtyOf(Held', i)
    BY DEF Pending, Held, QtyOf
  <2> QED
    BY <1>1, <1>2, <2>1, <2>2
<1>6. ASSUME NEW i \in 1..Len(orders)
      PROVE  /\ orders'[i].filled = orders[i].filled + (IF i = id THEN u.qty ELSE 0)
             /\ orders'[i].filled - Pending(i)' = orders[i].filled - Pending(i)
             /\ orders[i].filled \in Nat /\ Pending(i) \in Nat
  <2>1. orders[i].filled \in Nat /\ Pending(i) \in Nat
    BY <1>1, OrderTypes, AppliedFacts
  <2>2. orders'[i].filled = orders[i].filled + (IF i = id THEN u.qty ELSE 0)
    BY <1>1, <2>1
  <2> QED
    BY <1>1, <1>5, <2>1, <2>2
<1>7. TakenOn' = TakenOn /\ \A i \in TakenOn : Applied(i)' = Applied(i)
  <2>1. ASSUME NEW i \in TakenOn PROVE Applied(i)' = Applied(i)
    <3>1. i \in 1..Len(orders)
      BY DEF TakenOn
    <3> QED
      BY <1>1, <1>6, <3>1 DEF Applied
  <2> QED
    BY <1>1, <2>1 DEF TakenOn
<1>8. NothingApplied'
  <2>1. ASSUME strat.pc = "submit", NEW i, i = slots[strat.slot].id PROVE Pending(i)' = orders'[i].filled
    <3>1. i \in 1..Len(orders) /\ Pending(i) = orders[i].filled
      BY <2>1, SlotFacts DEF NothingApplied, QueueInv, SubmitSound
    <3> QED
      BY <1>5, <1>6, <3>1
  <2> QED
    BY <1>1, <2>1 DEF NothingApplied
<1> QED
  BY <1>1, <1>7, <1>8, SumKept

LEMMA SubmitSum ==
  ASSUME QueueInv, PositionConserved, NEW v \in Venues, NEW side \in Sides, NEW n \in Quantities, Submit(v, side, n)
  PROVE  PositionConserved' /\ NothingApplied'
<1> DEFINE f == find_free_slot
           o == [v |-> v, side |-> side, qty |-> n, filled |-> 0, status |-> "SENT"]
           new == [id |-> next_id, v |-> v, side |-> side, qty |-> n, filled |-> 0, active |-> TRUE]
<1>1. /\ f \in 1..MaxSlots /\ slots'[f] = new /\ next_id = Len(orders) + 1
      /\ Len(orders') = Len(orders) + 1
      /\ \A id \in 1..Len(orders) : orders'[id] = orders[id]
      /\ orders'[next_id] = o
      /\ strat' = [pc |-> "submit", slot |-> f]
      /\ UNCHANGED <<position, ledger, q, dropped, refused>>
  BY SubmitEffect
<1>2. new.id = next_id /\ o.side = side /\ o.filled = 0
  OBVIOUS
<1> HIDE DEF f, o, new
<1>3. TypeOK /\ Len(orders) \in Nat /\ refused \subseteq 1..Len(orders) /\ next_id \notin 1..Len(orders)
  BY <1>1 DEF QueueInv, TypeOK
<1>4. \A i : Pending(i)' = Pending(i)
  BY <1>1 DEF Pending, QueuedUpdates
<1>5. ASSUME NEW i, i = next_id PROVE Pending(i) = 0 /\ Pending(i)' = 0 /\ Applied(i)' = 0
  <2>1. \A w \in QueuedUpdates \cup dropped : w.id # i
    <3>1. \A w \in QueuedUpdates \cup dropped : UpdateSound(w)
      BY QueuedFacts DEF QueueInv, QueueSound, QueuedUpdates
    <3> QED
      BY <1>3, <1>5, <3>1 DEF UpdateSound
  <2>2. Pending(i) = 0
    BY <2>1, QtyOfNone DEF Pending
  <2>3. Pending(i)' = 0
    BY <1>4, <2>2
  <2> QED
    BY <1>1, <1>2, <1>5, <2>2, <2>3 DEF Applied, Signed
<1>6. TakenOn' = TakenOn \cup {next_id} /\ next_id \notin TakenOn
  BY <1>1, <1>3 DEF TakenOn
<1>7. \A i \in TakenOn : Applied(i)' = Applied(i)
  BY <1>1, <1>4 DEF Applied, TakenOn
<1> DEFINE e == [i \in TakenOn |-> Applied(i)]
           g == [i \in TakenOn' |-> Applied(i)']
<1>8. /\ DOMAIN e = TakenOn /\ DOMAIN g = TakenOn \cup {next_id} /\ g[next_id] = 0
      /\ \A i \in TakenOn : e[i] \in Int /\ g[i] = e[i]
  <2>1. DOMAIN e = TakenOn /\ DOMAIN g = TakenOn \cup {next_id}
    BY <1>6
  <2>2. \A i \in TakenOn : e[i] = Applied(i) /\ g[i] = Applied(i)' /\ i \in 1..Len(orders)
    BY <1>6 DEF TakenOn
  <2>3. \A i : i = next_id => g[i] = 0
    BY <1>5, <1>6
  <2> QED
    BY <1>3, <1>7, <2>1, <2>2, <2>3, AppliedFacts
<1>9. position = InitialPosition + SumFunction(e)
  BY DEF PositionConserved, TakenOn, Applied, Pending
<1> HIDE DEF e, g
<1>10. IsFiniteSet(TakenOn) /\ SumFunction(e) \in Int
  BY <1>3, <1>8, AppliedFacts, SumInt
<1>11. SumFunction(g) = SumFunction(e) + g[next_id]
  BY <1>6, <1>8, <1>10, SumAdded
<1>12. position' = InitialPosition + SumFunction(g)
  BY <1>1, <1>8, <1>9, <1>10, <1>11
<1>13. PositionConserved'
  BY <1>12 DEF g, PositionConserved, TakenOn, Applied, Pending
<1>14. NothingApplied'
  <2>1. strat'.pc = "submit" /\ slots'[strat'.slot].id = next_id
    BY <1>1, <1>2
  <2>2. \A i : i = next_id => Pending(i)' = orders'[i].filled
    BY <1>1, <1>2, <1>5
  <2>3. ASSUME NEW i, i = slots'[strat'.slot].id PROVE Pending(i)' = orders'[i].filled
    BY <2>1, <2>2, <2>3
  <2> QED
    BY <2>3 DEF NothingApplied
<1> QED
  BY <1>13, <1>14

LEMMA SubmitFailedSum ==
  ASSUME QueueInv, PositionConserved, NothingApplied, SubmitFailed
  PROVE  PositionConserved' /\ NothingApplied'
<1> DEFINE r == slots[strat.slot].id
<1>1. /\ strat.pc = "submit" /\ strat' = [pc |-> "idle", slot |-> 0] /\ refused' = refused \cup {r}
      /\ UNCHANGED <<position, q, orders, dropped>>
  BY DEF SubmitFailed
<1>2. strat.slot \in 1..MaxSlots /\ slots[strat.slot].active
  BY <1>1 DEF QueueInv, SubmitSound
<1>3. r \in 1..Len(orders) /\ r \notin refused /\ TypeOK
  BY <1>2, SlotFacts DEF QueueInv
<1>4. Pending(r) = orders[r].filled
  BY <1>1 DEF NothingApplied
<1> HIDE DEF r
<1>5. Applied(r) = 0
  BY <1>3, <1>4, OrderTypes DEF Applied, Signed
<1>6. TakenOn = TakenOn' \cup {r} /\ r \notin TakenOn' /\ TakenOn' \subseteq TakenOn /\ r \in TakenOn
  BY <1>1, <1>3 DEF TakenOn
<1>7. \A i : Applied(i)' = Applied(i)
  BY <1>1 DEF Applied, Pending, QueuedUpdates
<1> DEFINE e == [i \in TakenOn |-> Applied(i)]
           g == [i \in TakenOn' |-> Applied(i)']
<1>8. /\ DOMAIN e = TakenOn' \cup {r} /\ DOMAIN g = TakenOn' /\ e[r] = 0
      /\ \A i \in TakenOn' : g[i] \in Int /\ e[i] = g[i]
  <2>1. DOMAIN e = TakenOn' \cup {r} /\ DOMAIN g = TakenOn' /\ e[r] = 0
    BY <1>5, <1>6
  <2>2. \A i \in TakenOn' : g[i] = Applied(i)' /\ e[i] = Applied(i) /\ i \in 1..Len(orders)
    BY <1>6 DEF TakenOn
  <2> QED
    BY <1>3, <1>7, <2>1, <2>2, AppliedFacts
<1>9. position = InitialPosition + SumFunction(e)
  BY DEF PositionConserved, TakenOn, Applied, Pending
<1> HIDE DEF e, g
<1>10. IsFiniteSet(TakenOn')
  BY <1>3, <1>6, AppliedFacts, FS_Subset
<1>11. SumFunction(g) \in Int
  BY <1>8, <1>10, SumInt
<1>12. SumFunction(e) = SumFunction(g) + e[r]
  <2>1. e[r] \in Int
    BY <1>8
  <2> QED
    BY <1>6, <1>8, <1>10, <2>1, SumAdded
<1>13. position' = InitialPosition + SumFunction(g)
  BY <1>1, <1>8, <1>9, <1>11, <1>12
<1>14. PositionConserved'
  BY <1>13 DEF g, PositionConserved, TakenOn, Applied, Pending
<1> QED
  BY <1>1, <1>14 DEF NothingApplied

LEMMA ApplyFillSum ==
  ASSUME QueueInv, PositionConserved, ApplyFill
  PROVE  PositionConserved' /\ NothingApplied'
<1> DEFINE u == Head(q)
<1>1. /\ q # << >> /\ q' = Tail(q) /\ strat.pc = "drain"
      /\ UNCHANGED <<next_id, strat, orders, dropped, refused>>
      /\ \/ find_order(u.id) = {} /\ UNCHANGED <<slots, position, ledger>>
         \/ \E i \in find_order(u.id) : AppliedTo(i, u)
  BY ApplyCases
<1>2. /\ u \in Update /\ QueuedSound(u) /\ u.id \in 1..Len(orders) /\ u.qty \in Nat
      /\ Held = {u} \cup Held' /\ (u.qty > 0 => u \notin Held')
  BY <1>1, HeadFacts, HeldAfter
<1> HIDE DEF u
<1>3. TypeOK /\ IsFiniteSet(Held) /\ Held \subseteq Update
  BY HeldFacts DEF QueueInv
<1>4. IsFiniteSet(Held') /\ Held' \subseteq Update
  BY <1>2, <1>3, FS_Subset
<1>5. NothingApplied'
  BY <1>1 DEF NothingApplied
<1>6. TakenOn' = TakenOn
  BY <1>1 DEF TakenOn
<1>7. ASSUME NEW i \in TakenOn
      PROVE  /\ i \in 1..Len(orders) /\ Pending(i) \in Nat /\ Applied(i) \in Int
             /\ Pending(i)' \in Nat /\ Pending(i) = Pending(i)' + (IF u.id = i THEN u.qty ELSE 0)
             /\ Applied(i)' = Signed(orders[i].side, orders[i].filled - Pending(i)')
             /\ orders[i].filled \in Nat
  <2>1. i \in 1..Len(orders) /\ Pending(i) \in Nat /\ Applied(i) \in Int /\ orders[i].filled \in Nat
    BY <1>3, AppliedFacts, OrderTypes DEF TakenOn
  <2>2. QtyOf(Held' \cup {u}, i) = QtyOf(Held', i) + (IF u.id = i THEN u.qty ELSE 0)
    BY <1>2, <1>4, QtyAdded
  <2>3. Pending(i) = QtyOf(Held, i) /\ Pending(i)' = QtyOf(Held', i) /\ Held = Held' \cup {u}
    BY <1>2 DEF Pending, Held, QtyOf
  <2>4. Pending(i)' \in Nat
    BY <1>4, <2>3, QtyFacts
  <2> QED
    BY <1>1, <2>1, <2>2, <2>3, <2>4 DEF Applied
<1>8. CASE find_order(u.id) = {} /\ UNCHANGED <<slots, position, ledger>>
  <2>1. u.id \notin TakenOn
    BY <1>2, <1>8 DEF QueuedSound, TakenOn
  <2>2. ASSUME NEW i \in TakenOn PROVE Applied(i)' = Applied(i)
    <3>1. Pending(i)' = Pending(i)
      BY <1>7, <2>1
    <3> QED
      BY <1>7, <3>1 DEF Applied
  <2> QED
    BY <1>5, <1>6, <1>8, <2>2, SumKept
<1>9. ASSUME NEW i \in find_order(u.id), AppliedTo(i, u), NEW k, k = u.id PROVE PositionConserved'
  <2> DEFINE d == Signed(orders[k].side, u.qty)
  <2>1. /\ i \in 1..MaxSlots /\ slots[i].active /\ slots[i].id = k
        /\ position' = PositionAfter(slots[i], u)
    BY <1>9 DEF AppliedTo
  <2>2. k \in TakenOn /\ slots[i].side = orders[k].side
    BY <2>1, SlotFacts DEF TakenOn
  <2>3. Applied(k)' = Applied(k) + d /\ d \in Int
    <3>1. /\ Pending(k) \in Nat /\ Pending(k)' \in Nat /\ orders[k].filled \in Nat
          /\ Pending(k) = Pending(k)' + u.qty
          /\ Applied(k)' = Signed(orders[k].side, orders[k].filled - Pending(k)')
          /\ Applied(k) = Signed(orders[k].side, orders[k].filled - Pending(k))
      BY <1>7, <1>9, <2>2 DEF Applied
    <3> DEFINE a == orders[k].filled - Pending(k)'
               b == orders[k].filled - Pending(k)
    <3>2. a \in Int /\ b \in Int /\ a = b + u.qty
      BY <1>2, <3>1
    <3> HIDE DEF a, b
    <3>3. Signed(orders[k].side, a) = Signed(orders[k].side, b) + d /\ d \in Int
      BY <1>2, <3>2 DEF Signed
    <3> QED
      BY <3>1, <3>3 DEF a, b
  <2>4. position' = position + d
    BY <2>1, <2>2 DEF PositionAfter
  <2>5. ASSUME NEW j \in TakenOn, j # k PROVE Applied(j)' = Applied(j)
    <3>1. Pending(j)' = Pending(j)
      BY <1>7, <1>9, <2>5
    <3> QED
      BY <1>7, <3>1 DEF Applied
  <2> DEFINE e == [j \in TakenOn |-> Applied(j)]
             g == [j \in TakenOn' |-> Applied(j)']
  <2>6. /\ DOMAIN e = TakenOn /\ DOMAIN g = TakenOn
        /\ \A j \in TakenOn : e[j] = Applied(j) /\ g[j] = Applied(j)'
    BY <1>6
  <2>7. position = InitialPosition + SumFunction(e)
    BY DEF PositionConserved, TakenOn, Applied, Pending
  <2> HIDE DEF d, e, g
  <2>8. /\ \A j \in TakenOn : e[j] \in Int /\ g[j] \in Int /\ (j # k => e[j] = g[j])
        /\ g[k] = e[k] + d
    <3>1. g[k] = e[k] + d
      BY <2>2, <2>3, <2>6
    <3>2. ASSUME NEW j \in TakenOn PROVE e[j] \in Int /\ g[j] \in Int /\ (j # k => e[j] = g[j])
      BY <1>7, <2>3, <2>5, <2>6, <3>1
    <3> QED
      BY <3>1, <3>2
  <2>9. IsFiniteSet(TakenOn) /\ SumFunction(e) \in Int
    BY <1>3, <2>6, <2>8, AppliedFacts, SumInt
  <2>10. SumFunction(g) = SumFunction(e) - e[k] + g[k]
    BY <2>2, <2>6, <2>8, <2>9, SumMoved
  <2>11. position' = InitialPosition + SumFunction(g)
    BY <2>2, <2>3, <2>4, <2>7, <2>8, <2>9, <2>10, ManagerAssumption
  <2> QED
    BY <2>11 DEF g, PositionConserved, TakenOn, Applied, Pending
<1> QED
  BY <1>1, <1>5, <1>8, <1>9

\* PositionIsExecuted: PositionConserved holds in every reachable state, for every
\* queue capacity and order size: a fill is applied once, to the order it is
\* for, or it is still queued, or a full queue dropped it
\* (order_manager.hpp:127 and :135).
THEOREM PositionIsExecuted == Spec => []PositionConserved
<1> DEFINE Inv == PositionConserved /\ NothingApplied
<1>1. Init => Inv
  <2> SUFFICES ASSUME Init PROVE Inv
    OBVIOUS
  <2>1. NothingApplied
    BY DEF Init, NothingApplied
  <2> DEFINE e == [id \in TakenOn |-> Applied(id)]
  <2>2. DOMAIN e = {}
    BY DEF Init, TakenOn
  <2> HIDE DEF e
  <2>3. SumFunction(e) = 0
    BY <2>2, SumOfNone DEF SumFunction
  <2>4. position = InitialPosition + SumFunction(e)
    BY <2>3, ManagerAssumption DEF Init
  <2> QED
    BY <2>1, <2>4 DEF e, PositionConserved, TakenOn, Applied, Pending
<1>2. QueueInv /\ Inv /\ [Next]_vars => Inv'
  <2> SUFFICES ASSUME QueueInv, Inv, [Next]_vars PROVE Inv'
    OBVIOUS
  <2>1. CASE UNCHANGED vars
    BY <2>1 DEF vars, PositionConserved, NothingApplied, Pending, QueuedUpdates
  <2>2. CASE (\E v \in Venues : UpdateMidPrice(v)) \/ SubmitOk \/ DrainFills \/ DrainDone
    <3>1. UNCHANGED <<position, q, dropped, refused, orders>> /\ strat'.pc # "submit"
      BY <2>2 DEF QueueInv, TypeOK, UpdateMidPrice, SubmitOk, DrainFills, DrainDone
    <3>2. PositionConserved'
      BY <3>1, QuietSum
    <3> QED
      BY <3>1, <3>2 DEF NothingApplied
  <2>3. CASE \E v \in Venues, side \in Sides, n \in Quantities : Submit(v, side, n)
    BY <2>3, SubmitSum
  <2>4. CASE SubmitFailed
    BY <2>4, SubmitFailedSum
  <2>5. CASE ApplyFill
    BY <2>5, ApplyFillSum
  <2>6. ASSUME NEW id \in 1..Len(orders), Accept(id) PROVE Inv'
    <3>1. orders[id] \in Order
      BY OrderTypes DEF QueueInv
    <3>2. /\ UNCHANGED <<position, q, dropped, refused, slots, strat>> /\ Len(orders') = Len(orders)
          /\ \A i \in 1..Len(orders) : orders'[i].side = orders[i].side /\ orders'[i].filled = orders[i].filled
      BY <2>6, <3>1 DEF QueueInv, TypeOK, Accept, Order
    <3>3. PositionConserved'
      BY <3>2, QuietSum
    <3>4. NothingApplied'
      <4>1. ASSUME strat.pc = "submit", NEW i, i = slots[strat.slot].id PROVE Pending(i)' = orders'[i].filled
        <5>1. i \in 1..Len(orders) /\ Pending(i) = orders[i].filled
          BY <4>1, SlotFacts DEF NothingApplied, QueueInv, SubmitSound
        <5>2. Pending(i)' = Pending(i)
          BY <3>2 DEF Pending, QueuedUpdates
        <5> QED
          BY <3>2, <5>1, <5>2
      <4> QED
        BY <3>2, <4>1 DEF NothingApplied
    <3> QED
      BY <3>3, <3>4
  <2>7. CASE \E id \in 1..Len(orders) : Close(id)
    BY <2>7, CloseReports, ReportedSum
  <2>8. CASE \E id \in 1..Len(orders) : \E n \in 1..orders[id].qty : Fill(id, n)
    BY <2>8, FillReports, ReportedSum
  <2> QED
    BY <2>1, <2>2, <2>3, <2>4, <2>5, <2>6, <2>7, <2>8, Steps
<1>3. Inv => PositionConserved
  OBVIOUS
<1> HIDE DEF Inv
<1> QED
  BY <1>1, <1>2, <1>3, ManagerConsistent, PTL DEF Spec

-----------------------------------------------------------------------------
(* The updates of a working order are a chain *)

\* Steps that queue nothing and apply nothing.
LEMMA ChainQuiet ==
  ASSUME QueueInv, Chained, UNCHANGED <<q, dropped>>,
         \A s \in 1..MaxSlots : slots'[s].active =>
            /\ slots'[s] = slots[s] /\ slots[s].active
            /\ orders'[slots[s].id].filled = orders[slots[s].id].filled
            /\ orders'[slots[s].id].status # "CLOSED" => orders[slots[s].id].status # "CLOSED"
  PROVE  Chained'
<1>1. ASSUME NEW s \in 1..MaxSlots, slots'[s].active, dropped = {}
      PROVE  /\ \A j \in 1..Len(q) : q[j].id = slots'[s].id /\ q[j].qty > 0
                   => GoesOn(s, j, q[j].cum - q[j].qty)'
             /\ orders'[slots'[s].id].status # "CLOSED" => GoesOn(s, Len(q) + 1, orders[slots[s].id].filled)'
  <2>1. slots'[s] = slots[s] /\ slots[s].active /\ q' = q
    BY <1>1
  <2>2. /\ \A j \in 1..Len(q) : q[j].id = slots[s].id /\ q[j].qty > 0
                => GoesOn(s, j, q[j].cum - q[j].qty)
        /\ orders[slots[s].id].status # "CLOSED" => GoesOn(s, Len(q) + 1, orders[slots[s].id].filled)
    BY <1>1, <2>1 DEF Chained
  <2>3. orders'[slots[s].id].status # "CLOSED" => orders[slots[s].id].status # "CLOSED"
    BY <1>1
  <2>4. \A j \in 1..Len(q) : q[j].id = slots'[s].id /\ q[j].qty > 0
           => GoesOn(s, j, q[j].cum - q[j].qty)'
    <3> TAKE j \in 1..Len(q)
    <3>1. GoesOn(s, j, q[j].cum - q[j].qty) => GoesOn(s, j, q[j].cum - q[j].qty)'
      BY <1>1, <2>1 DEF GoesOn
    <3> QED
      BY <2>1, <2>2, <3>1
  <2>5. GoesOn(s, Len(q) + 1, orders[slots[s].id].filled)
          => GoesOn(s, Len(q) + 1, orders[slots[s].id].filled)'
    BY <1>1, <2>1 DEF GoesOn
  <2> QED
    BY <2>1, <2>2, <2>3, <2>4, <2>5
<1> QED
  BY <1>1 DEF Chained

LEMMA ChainSubmit ==
  ASSUME QueueInv, Chained, NEW v \in Venues, NEW side \in Sides, NEW n \in Quantities, Submit(v, side, n)
  PROVE  Chained'
<1> DEFINE f == find_free_slot
           o == [v |-> v, side |-> side, qty |-> n, filled |-> 0, status |-> "SENT"]
           new == [id |-> next_id, v |-> v, side |-> side, qty |-> n, filled |-> 0, active |-> TRUE]
<1>1. /\ f \in 1..MaxSlots /\ next_id = Len(orders) + 1
      /\ \A i \in 1..MaxSlots : slots'[i] = IF i = f THEN new ELSE slots[i]
      /\ \A id \in 1..Len(orders) : orders'[id] = orders[id]
      /\ orders'[next_id] = o
      /\ UNCHANGED <<q, dropped>>
  BY SubmitEffect
<1>2. new.id = next_id /\ new.filled = 0 /\ o.filled = 0
  OBVIOUS
<1> HIDE DEF f, o, new
<1>3. Len(orders) \in Nat
  BY DEF QueueInv, TypeOK
<1>4. \A j \in 1..Len(q) : q[j].id # next_id
  BY <1>1, <1>3, QueuedFacts
<1>5. ASSUME NEW s \in 1..MaxSlots, slots'[s].active, dropped = {}
      PROVE  /\ \A j \in 1..Len(q) : q[j].id = slots'[s].id /\ q[j].qty > 0
                   => GoesOn(s, j, q[j].cum - q[j].qty)'
             /\ orders'[slots'[s].id].status # "CLOSED" => GoesOn(s, Len(q) + 1, orders[slots[s].id].filled)'
  <2>1. CASE s = f
    <3>1. slots'[s].id = next_id /\ slots'[s].filled = 0 /\ orders'[next_id].filled = 0
      BY <1>1, <1>2, <2>1
    <3>2. GoesOn(s, Len(q) + 1, orders[slots[s].id].filled)'
      BY <1>1, <1>4, <3>1 DEF GoesOn
    <3> QED
      BY <1>1, <1>4, <3>1, <3>2
  <2>2. CASE s # f
    <3>1. slots'[s] = slots[s] /\ orders'[slots[s].id] = orders[slots[s].id]
      BY <1>1, <1>5, <2>2, SlotFacts
    <3> QED
      BY <1>1, <1>5, <3>1 DEF Chained, GoesOn
  <2> QED
    BY <2>1, <2>2
<1> QED
  BY <1>1, <1>5 DEF Chained

LEMMA ChainReported ==
  ASSUME QueueInv, Chained, NEW id \in 1..Len(orders), NEW u, Reported(id, u)
  PROVE  Chained'
<1>1. /\ TypeOK /\ u.qty \in Nat /\ u.cum \in Nat /\ u.id = id /\ orders[id].status = "LIVE"
      /\ UNCHANGED slots /\ \A i \in 1..Len(orders) : i # id => orders'[i] = orders[i]
      /\ orders'[id].filled = orders[id].filled + u.qty
      /\ u.qty > 0 => u.cum = orders'[id].filled
      /\ u.qty = 0 => orders'[id].status = "CLOSED"
      /\ Push(u) /\ u \in Update
  BY UpdateTypes DEF QueueInv, Reported
<1>2. ASSUME dropped' = {}
      PROVE  /\ dropped = {} /\ Len(q') = Len(q) + 1 /\ q'[Len(q) + 1] = u /\ Len(q) \in Nat
             /\ \A i \in 1..Len(q) : q'[i] = q[i]
  BY <1>1, <1>2, PushFacts DEF TypeOK
\* What was in the queue goes on as before.
<1>3. ASSUME dropped' = {}, NEW s \in 1..MaxSlots, NEW j \in 1..(Len(q) + 1), NEW n, GoesOn(s, j, n)
      PROVE  GoesOn(s, j, n)'
  <2>1. \A i \in 1..(j - 1) : i \in 1..Len(q) /\ q'[i] = q[i]
    BY <1>2, <1>3
  <2>2. \A i \in 1..(j - 1) : \A k \in (i + 1)..(j - 1) : q'[k] = q[k]
    BY <1>2, <1>3
  <2> QED
    BY <1>1, <1>3, <2>1, <2>2 DEF GoesOn
\* An order the update is not for.
<1>4. ASSUME dropped' = {}, NEW s \in 1..MaxSlots, slots[s].active, slots[s].id # id
      PROVE  /\ \A j \in 1..Len(q') : q'[j].id = slots[s].id /\ q'[j].qty > 0
                   => GoesOn(s, j, q[j].cum - q[j].qty)'
             /\ orders'[slots[s].id].status # "CLOSED" => GoesOn(s, Len(q) + 1, orders[slots[s].id].filled)'
  <2>0. dropped = {} /\ Len(q') = Len(q) + 1 /\ q'[Len(q) + 1] = u /\ Len(q) \in Nat
        /\ \A i \in 1..Len(q) : q'[i] = q[i]
    BY <1>2, <1>4
  <2>2. ASSUME NEW n, GoesOn(s, Len(q) + 1, n) PROVE \A j : j = Len(q') + 1 => GoesOn(s, j, n)'
    <3> DEFINE L == Len(q)
    <3>1. SUFFICES ASSUME NEW j, j = L + 2 PROVE GoesOn(s, j, n)'
      BY <2>0
    <3>2. \A i \in 1..(j - 1) : (i \in 1..L /\ q'[i] = q[i]) \/ (i = L + 1 /\ q'[i].id # slots[s].id)
      BY <1>1, <1>4, <2>0, <3>1
    <3>3. \A i \in 1..L : i \in 1..(j - 1) /\ q'[i] = q[i]
      BY <2>0, <3>1
    <3>4. /\ (\A i \in 1..L : q[i].id # slots[s].id) => slots[s].filled = n
          /\ \A i \in 1..L :
               q[i].id = slots[s].id /\ (\A k \in (i + 1)..L : q[k].id # slots[s].id) => q[i].cum = n
      <4>1. (L + 1) - 1 = L
        BY <2>0
      <4>2. /\ (\A i \in 1..((L + 1) - 1) : q[i].id # slots[s].id) => slots[s].filled = n
            /\ \A i \in 1..((L + 1) - 1) :
                 q[i].id = slots[s].id /\ (\A k \in (i + 1)..((L + 1) - 1) : q[k].id # slots[s].id) => q[i].cum = n
        BY <2>2 DEF GoesOn
      <4> HIDE DEF L
      <4> QED
        BY <4>1, <4>2
    <3>5. (\A i \in 1..(j - 1) : q'[i].id # slots[s].id) => slots[s].filled = n
      BY <3>3, <3>4
    <3>6. ASSUME NEW i \in 1..(j - 1), q'[i].id = slots[s].id, \A k \in (i + 1)..(j - 1) : q'[k].id # slots[s].id
          PROVE  q'[i].cum = n
      <4>1. i \in 1..L /\ q'[i] = q[i]
        BY <3>2, <3>6
      <4>2. \A k \in (i + 1)..L : k \in (i + 1)..(j - 1) /\ q'[k] = q[k]
        BY <2>0, <3>1, <4>1
      <4> QED
        BY <3>4, <3>6, <4>1, <4>2
    <3> QED
      BY <1>1, <3>5, <3>6 DEF GoesOn
  <2>3. slots[s].id \in 1..Len(orders) /\ orders'[slots[s].id] = orders[slots[s].id]
    BY <1>1, <1>4, SlotFacts
  <2>4. ASSUME NEW j \in 1..Len(q'), q'[j].id = slots[s].id, q'[j].qty > 0
        PROVE  GoesOn(s, j, q[j].cum - q[j].qty)'
    <3>1. j \in 1..Len(q) /\ q'[j] = q[j]
      BY <1>1, <1>4, <2>0, <2>4
    <3>2. GoesOn(s, j, q[j].cum - q[j].qty)
      BY <1>4, <2>0, <2>4, <3>1 DEF Chained
    <3>3. \A n : n = q[j].cum - q[j].qty => GoesOn(s, j, n)'
      BY <1>3, <1>4, <2>0, <3>1, <3>2
    <3> QED
      BY <3>1, <3>3
  <2>5. ASSUME orders'[slots[s].id].status # "CLOSED" PROVE GoesOn(s, Len(q) + 1, orders[slots[s].id].filled)'
    <3>1. GoesOn(s, Len(q) + 1, orders[slots[s].id].filled)
      BY <1>4, <2>0, <2>3, <2>5 DEF Chained
    <3>2. \A n : n = orders[slots[s].id].filled => \A j : j = Len(q') + 1 => GoesOn(s, j, n)'
      BY <2>2, <3>1
    <3> QED
      BY <1>1, <2>3, <3>2
  <2> QED
    BY <2>4, <2>5
\* The order it is for.
<1>5. ASSUME dropped' = {}, NEW s \in 1..MaxSlots, slots[s].active, slots[s].id = id
      PROVE  /\ \A j \in 1..Len(q') : q'[j].id = slots[s].id /\ q'[j].qty > 0
                   => GoesOn(s, j, q[j].cum - q[j].qty)'
             /\ orders'[slots[s].id].status # "CLOSED" => GoesOn(s, Len(q) + 1, orders[slots[s].id].filled)'
  <2>1. dropped = {} /\ Len(q') = Len(q) + 1 /\ q'[Len(q) + 1] = u /\ Len(q) \in Nat
        /\ \A i \in 1..Len(q) : q'[i] = q[i]
    BY <1>2, <1>5
  <2>2. orders[id].filled \in Nat
    BY <1>1, OrderTypes
  <2>3. GoesOn(s, Len(q) + 1, orders[id].filled)
    BY <1>1, <1>5, <2>1 DEF Chained
  <2>4. ASSUME NEW j \in 1..Len(q'), q'[j].id = slots[s].id, q'[j].qty > 0
        PROVE  GoesOn(s, j, q[j].cum - q[j].qty)'
    <3>1. CASE j = Len(q) + 1
      <4>1. q'[j] = u /\ u.cum - u.qty = orders[id].filled
        BY <1>1, <2>1, <2>2, <2>4, <3>1
      <4>2. GoesOn(s, j, orders[id].filled)
        BY <2>3, <3>1
      <4>3. \A n : n = orders[id].filled => GoesOn(s, j, n)'
        BY <1>3, <1>5, <2>1, <3>1, <4>2
      <4> QED
        BY <4>1, <4>3
    <3>2. CASE j # Len(q) + 1
      <4>1. j \in 1..Len(q) /\ j \in 1..(Len(q) + 1) /\ q'[j] = q[j]
        BY <2>1, <2>4, <3>2
      <4>2. GoesOn(s, j, q[j].cum - q[j].qty)
        BY <1>5, <2>1, <2>4, <4>1 DEF Chained
      <4>3. \A n : n = q[j].cum - q[j].qty => GoesOn(s, j, n)'
        BY <1>3, <1>5, <4>1, <4>2
      <4> QED
        BY <4>1, <4>3
    <3> QED
      BY <3>1, <3>2
  <2>5. ASSUME orders'[id].status # "CLOSED", NEW n, n = orders'[id].filled, NEW j, j = Len(q') + 1
        PROVE  GoesOn(s, j, n)'
    <3>1. u.qty > 0 /\ u.cum = n
      BY <1>1, <2>5
    <3>2. Len(q) + 1 \in 1..(j - 1) /\ q'[Len(q) + 1].id = id
      BY <1>1, <2>1, <2>5
    <3>3. ASSUME NEW i \in 1..(j - 1), \A k \in (i + 1)..(j - 1) : q'[k].id # id PROVE q'[i].cum = n
      <4>1. i = Len(q) + 1
        <5>1. CASE i < Len(q) + 1
          <6>1. Len(q) + 1 \in (i + 1)..(j - 1)
            BY <2>1, <2>5, <5>1
          <6> QED
            BY <3>2, <3>3, <6>1
        <5> QED
          BY <2>1, <2>5, <5>1
      <4> QED
        BY <2>1, <3>1, <4>1
    <3> QED
      BY <1>1, <1>5, <3>2, <3>3 DEF GoesOn
  <2>6. orders'[id].status # "CLOSED" => GoesOn(s, Len(q) + 1, orders[slots[s].id].filled)'
    BY <1>1, <1>5, <2>5
  <2> QED
    BY <1>5, <2>4, <2>6
<1> QED
  BY <1>1, <1>4, <1>5 DEF Chained

LEMMA ChainApply ==
  ASSUME QueueInv, Chained, ApplyFill
  PROVE  Chained'
<1> DEFINE u == Head(q)
<1>1. /\ q # << >> /\ q' = Tail(q)
      /\ UNCHANGED <<next_id, strat, orders, dropped, refused>>
      /\ \/ find_order(u.id) = {} /\ UNCHANGED <<slots, position, ledger>>
         \/ \E i \in find_order(u.id) : AppliedTo(i, u)
  BY ApplyCases
<1>2. /\ u = q[1] /\ Len(q') = Len(q) - 1 /\ Len(q) \in Nat /\ Len(q) > 0
      /\ \A i \in 1..Len(q') : q'[i] = q[i + 1]
  BY <1>1, HeadFacts
<1> HIDE DEF u
\* A slot that is active afterwards is that of another order, or it is where u
\* left it.
<1>3. ASSUME NEW s \in 1..MaxSlots, slots'[s].active
      PROVE  /\ slots[s].active /\ slots'[s].id = slots[s].id
             /\ slots[s].id = u.id => slots'[s].filled = u.cum
             /\ slots[s].id # u.id => slots'[s].filled = slots[s].filled
  <2>1. CASE find_order(u.id) = {} /\ UNCHANGED slots
    BY <1>3, <2>1 DEF find_order
  <2>2. ASSUME NEW i \in find_order(u.id), AppliedTo(i, u)
        PROVE  /\ slots[s].active /\ slots'[s].id = slots[s].id
               /\ slots[s].id = u.id => slots'[s].filled = u.cum
               /\ slots[s].id # u.id => slots'[s].filled = slots[s].filled
    <3>1. CASE s = i
      BY <2>2, <3>1 DEF AppliedTo
    <3>2. CASE s # i
      <4>1. slots'[s] = slots[s] /\ s \notin find_order(u.id)
        BY <2>2, <3>2 DEF AppliedTo
      <4> QED
        BY <1>3, <4>1 DEF find_order
    <3> QED
      BY <3>1, <3>2
  <2> QED
    BY <1>1, <2>1, <2>2
<1>4. ASSUME NEW s \in 1..MaxSlots, slots'[s].active, NEW j \in 1..(Len(q') + 1), NEW n, GoesOn(s, j + 1, n)
      PROVE  GoesOn(s, j, n)'
  <2> DEFINE id == slots[s].id
  <2>1. slots'[s].id = id
    BY <1>3, <1>4
  <2>2. \A i \in 1..(j - 1) : i + 1 \in 1..((j + 1) - 1) /\ i + 1 # 1 /\ q'[i] = q[i + 1]
    BY <1>2, <1>4
  <2>3. \A i \in 1..((j + 1) - 1) : i = 1 \/ (i - 1 \in 1..(j - 1) /\ q'[i - 1] = q[i])
    BY <1>2, <1>4
  <2>4. 1 \in 1..((j + 1) - 1)
    BY <1>2, <1>4
  <2> HIDE DEF id
  <2>5. ASSUME \A i \in 1..(j - 1) : q'[i].id # id PROVE slots'[s].filled = n
    <3>1. CASE id = u.id
      <4>1. q[1].id = id /\ \A k \in (1 + 1)..((j + 1) - 1) : q[k].id # id
        <5>1. \A k \in (1 + 1)..((j + 1) - 1) : k \in 1..((j + 1) - 1) /\ k # 1
          OBVIOUS
        <5> QED
          BY <1>2, <2>3, <2>5, <3>1, <5>1
      <4>2. q[1].cum = n
        BY <1>4, <2>4, <4>1 DEF GoesOn, id
      <4> QED
        BY <1>2, <1>3, <1>4, <3>1, <4>2 DEF id
    <3>2. CASE id # u.id
      <4>1. \A i \in 1..((j + 1) - 1) : q[i].id # id
        BY <1>2, <2>3, <2>5, <3>2
      <4>2. slots[s].filled = n
        BY <1>4, <4>1 DEF GoesOn, id
      <4> QED
        BY <1>3, <1>4, <3>2, <4>2 DEF id
    <3> QED
      BY <3>1, <3>2
  <2>6. ASSUME NEW i \in 1..(j - 1), q'[i].id = id, \A k \in (i + 1)..(j - 1) : q'[k].id # id
        PROVE  q'[i].cum = n
    <3>1. \A k \in ((i + 1) + 1)..((j + 1) - 1) : q[k].id # id
      <4>1. ASSUME NEW k \in ((i + 1) + 1)..((j + 1) - 1) PROVE q[k].id # id
        <5>1. k - 1 \in (i + 1)..(j - 1) /\ k \in 1..((j + 1) - 1) /\ k # 1
          BY <1>2, <1>4
        <5>2. q'[k - 1] = q[k]
          BY <2>3, <5>1
        <5> QED
          BY <2>6, <5>1, <5>2
      <4> QED
        BY <4>1
    <3>2. i + 1 \in 1..((j + 1) - 1) /\ q[i + 1] = q'[i]
      BY <2>2
    <3> QED
      BY <1>4, <2>6, <3>1, <3>2 DEF GoesOn, id
  <2> QED
    BY <2>1, <2>5, <2>6 DEF GoesOn
<1>5. ASSUME dropped = {}, NEW s \in 1..MaxSlots, slots'[s].active
      PROVE  /\ \A j \in 1..Len(q') : q'[j].id = slots'[s].id /\ q'[j].qty > 0
                   => GoesOn(s, j, q[j].cum - q[j].qty)'
             /\ orders'[slots'[s].id].status # "CLOSED" => GoesOn(s, Len(q) + 1, orders[slots[s].id].filled)'
  <2>1. slots[s].active /\ slots'[s].id = slots[s].id
    BY <1>3, <1>5
  <2>2. ASSUME NEW j \in 1..Len(q'), q'[j].id = slots[s].id, q'[j].qty > 0
        PROVE  GoesOn(s, j, q[j].cum - q[j].qty)'
    <3>1. q'[j] = q[j + 1] /\ j + 1 \in 1..Len(q) /\ j \in 1..(Len(q') + 1)
      BY <1>2
    <3>2. GoesOn(s, j + 1, q[j + 1].cum - q[j + 1].qty)
      BY <1>5, <2>1, <2>2, <3>1 DEF Chained
    <3>3. \A n : n = q[j + 1].cum - q[j + 1].qty => GoesOn(s, j, n)'
      BY <1>4, <1>5, <3>1, <3>2
    <3> QED
      BY <3>1, <3>3
  <2>3. ASSUME orders[slots[s].id].status # "CLOSED", NEW j, j = Len(q') + 1, NEW n, n = orders[slots[s].id].filled
        PROVE  GoesOn(s, j, n)'
    <3>1. GoesOn(s, Len(q) + 1, n)
      BY <1>5, <2>1, <2>3 DEF Chained
    <3>2. j + 1 = Len(q) + 1 /\ j \in 1..(Len(q') + 1)
      BY <1>2, <2>3
    <3> QED
      BY <1>4, <1>5, <3>1, <3>2
  <2> QED
    BY <1>1, <2>1, <2>2, <2>3
<1> QED
  BY <1>1, <1>5 DEF Chained

LEMMA ChainStep == QueueInv /\ Chained /\ [Next]_vars => Chained'
<1> SUFFICES ASSUME QueueInv, Chained, [Next]_vars PROVE Chained'
  OBVIOUS
<1>1. CASE UNCHANGED vars
  BY <1>1, ChainQuiet DEF vars
<1>2. CASE (\E v \in Venues : UpdateMidPrice(v)) \/ SubmitOk \/ DrainFills \/ DrainDone
  <2>1. UNCHANGED <<q, dropped, slots, orders>>
    BY <1>2 DEF UpdateMidPrice, SubmitOk, DrainFills, DrainDone
  <2> QED
    BY <2>1, ChainQuiet
<1>3. CASE \E v \in Venues, side \in Sides, n \in Quantities : Submit(v, side, n)
  BY <1>3, ChainSubmit
<1>4. CASE SubmitFailed
  <2>1. strat.slot \in 1..MaxSlots /\ slots[strat.slot] \in Slot
    BY <1>4, SlotFacts DEF SubmitFailed, QueueInv, SubmitSound
  <2>2. \A s \in 1..MaxSlots : slots'[s].active => slots'[s] = slots[s] /\ slots[s].active
    BY <1>4, <2>1 DEF SubmitFailed, QueueInv, TypeOK, Slot
  <2> QED
    BY <1>4, <2>2, ChainQuiet DEF SubmitFailed
<1>5. CASE ApplyFill
  BY <1>5, ChainApply
<1>6. ASSUME NEW id \in 1..Len(orders), Accept(id) PROVE Chained'
  <2>1. orders[id] \in Order
    BY OrderTypes DEF QueueInv
  <2>2. /\ UNCHANGED <<q, dropped, slots>>
        /\ \A i \in 1..Len(orders) : orders'[i].filled = orders[i].filled /\ (orders'[i].status # "CLOSED" => orders[i].status # "CLOSED")
    BY <1>6, <2>1 DEF QueueInv, TypeOK, Accept, Order
  <2> QED
    BY <2>2, SlotFacts, ChainQuiet
<1>7. CASE \E id \in 1..Len(orders) : Close(id)
  BY <1>7, CloseReports, ChainReported
<1>8. CASE \E id \in 1..Len(orders) : \E n \in 1..orders[id].qty : Fill(id, n)
  BY <1>8, FillReports, ChainReported
<1> QED
  BY <1>1, <1>2, <1>3, <1>4, <1>5, <1>6, <1>7, <1>8, Steps

-----------------------------------------------------------------------------
(* The pending quantities follow the working orders *)

\* The orders that count as working on a side of a venue, and what each can
\* still execute.
Working(v, side) == {i \in 1..MaxSlots : slots[i].active /\ slots[i].v = v
                                           /\ slots[i].side = side /\ i # strat.slot}
Left(i) == slots[i].qty - slots[i].filled

LEMMA LeftNat ==
  ASSUME QueueInv, NEW i \in 1..MaxSlots, slots[i].active
  PROVE  Left(i) \in Nat
<1>1. /\ slots[i].qty \in Nat /\ slots[i].filled \in Nat /\ slots[i].filled <= orders[slots[i].id].filled
      /\ orders[slots[i].id].filled <= orders[slots[i].id].qty /\ slots[i].qty = orders[slots[i].id].qty
      /\ slots[i].id \in 1..Len(orders)
  BY SlotFacts
<1>2. orders[slots[i].id].filled \in Nat /\ orders[slots[i].id].qty \in Nat
  BY <1>1, OrderTypes DEF QueueInv
<1> QED
  BY <1>1, <1>2 DEF Left

LEMMA OpenFacts ==
  ASSUME QueueInv, NEW v, NEW side
  PROVE  /\ IsFiniteSet(Working(v, side))
         /\ \A i \in Working(v, side) : Left(i) \in Nat
         /\ OpenQty(v, side) = SumFunction([i \in Working(v, side) |-> Left(i)])
         /\ OpenQty(v, side) \in Nat
<1>1. IsFiniteSet(1..MaxSlots)
  BY ManagerAssumption, FS_Interval
<1>2. IsFiniteSet(Working(v, side))
  BY <1>1, FS_Subset DEF Working
<1>3. ASSUME NEW i \in Working(v, side) PROVE Left(i) \in Nat
  BY LeftNat DEF Working
<1>4. OpenQty(v, side) = SumFunction([i \in Working(v, side) |-> Left(i)])
  BY DEF OpenQty, Working, Left
<1> DEFINE e == [i \in Working(v, side) |-> Left(i)]
<1>5. DOMAIN e = Working(v, side) /\ \A i \in Working(v, side) : e[i] \in Nat
  BY <1>3
<1> HIDE DEF e
<1>6. SumFunction(e) \in Nat
  BY <1>2, <1>5, SumNatural
<1> QED
  BY <1>2, <1>3, <1>4, <1>6 DEF e

LEMMA OpenSame ==
  ASSUME NEW v, NEW side, Working(v, side)' = Working(v, side),
         \A i \in Working(v, side) : Left(i)' = Left(i)
  PROVE  OpenQty(v, side)' = OpenQty(v, side)
<1>1. [i \in Working(v, side)' |-> Left(i)'] = [i \in Working(v, side) |-> Left(i)]
  OBVIOUS
<1>2. OpenQty(v, side) = SumFunction([i \in Working(v, side) |-> Left(i)])
  BY DEF OpenQty, Working, Left
<1>3. OpenQty(v, side)' = SumFunction([i \in Working(v, side)' |-> Left(i)'])
  BY DEF OpenQty, Working, Left
<1> QED
  BY <1>1, <1>2, <1>3

\* A venue the ledger has just found room for had no working order.
LEMMA NoneWorking ==
  ASSUME LedgerKnows, NEW v \in Venues, NEW side, ~ledger[v].active,
         Cardinality(Tracked(ledger)) < MaxVenues
  PROVE  OpenQty(v, side) = 0
<1>1. Working(v, side) = {}
  BY DEF LedgerKnows, Working
<1>2. OpenQty(v, side) = SumFunction([i \in Working(v, side) |-> Left(i)])
  BY DEF OpenQty, Working, Left
<1>3. SumFunction([i \in {} |-> Left(i)]) = 0
  BY SumOfNone DEF SumFunction
<1> QED
  BY <1>1, <1>2, <1>3

\* The ledger never forgets a venue.
LEMMA TrackedGrows ==
  ASSUME NEW l \in [Venues -> Account], NEW m \in [Venues -> Account],
         \A v \in Venues : l[v].active => m[v].active,
         Cardinality(Tracked(m)) < MaxVenues
  PROVE  Cardinality(Tracked(l)) < MaxVenues
<1>1. Tracked(l) \subseteq Tracked(m) /\ IsFiniteSet(Tracked(m))
  BY ManagerAssumption, FS_Subset DEF Tracked
<1>2. Cardinality(Tracked(l)) <= Cardinality(Tracked(m)) /\ IsFiniteSet(Tracked(l))
  BY <1>1, FS_Subset
<1>3. Cardinality(Tracked(l)) \in Nat /\ Cardinality(Tracked(m)) \in Nat /\ MaxVenues \in Nat
  BY <1>1, <1>2, FS_CardinalityType, ManagerAssumption
<1> QED
  BY <1>2, <1>3

\* Steps that leave the ledger and what can still be executed alone.
LEMMA LedgerQuiet ==
  ASSUME QueueInv, LedgerKnows, PendingSound, UNCHANGED ledger,
         \A i \in 1..MaxSlots : slots'[i].active /\ i # strat'.slot => slots'[i] = slots[i] /\ slots[i].active /\ i # strat.slot,
         \A i \in 1..MaxSlots : slots[i].active /\ i # strat.slot => slots'[i] = slots[i] /\ slots'[i].active /\ i # strat'.slot,
         dropped' = {} => dropped = {},
         \A v \in Venues, side \in Sides : HalfFilled(v, side) => HalfFilled(v, side)'
  PROVE  LedgerKnows' /\ PendingSound'
<1>1. LedgerKnows'
  BY DEF LedgerKnows
<1>2. ASSUME NEW v \in Venues, NEW side \in Sides PROVE OpenQty(v, side)' = OpenQty(v, side)
  <2>1. Working(v, side)' = Working(v, side)
    BY DEF Working
  <2>2. \A i \in Working(v, side) : Left(i)' = Left(i)
    BY DEF Working, Left
  <2> QED
    BY <2>1, <2>2, OpenSame
<1>3. PendingSound'
  BY <1>2 DEF PendingSound
<1> QED
  BY <1>1, <1>3

LEMMA LedgerMidPrice ==
  ASSUME QueueInv, LedgerKnows, PendingSound, NEW v \in Venues, UpdateMidPrice(v)
  PROVE  LedgerKnows' /\ PendingSound'
<1> DEFINE m == find_or_create_venue(ledger, v)
<1>1. ledger \in [Venues -> Account] /\ ledger' = m /\ UNCHANGED <<slots, q, orders, strat, dropped, refused>>
  BY DEF QueueInv, TypeOK, UpdateMidPrice
<1>2. /\ ledger' \in [Venues -> Account]
      /\ \A w \in Venues : /\ ledger'[w].pending = ledger[w].pending
                           /\ ledger[w].active => ledger'[w].active
                           /\ w # v => ledger'[w] = ledger[w]
      /\ Cardinality(Tracked(ledger)) < MaxVenues => ledger'[v].active
      /\ ~(Cardinality(Tracked(ledger)) < MaxVenues) => ledger' = ledger
  BY <1>1, FindFacts
<1> HIDE DEF m
<1>3. LedgerKnows'
  <2>1. Cardinality(Tracked(ledger')) < MaxVenues => Cardinality(Tracked(ledger)) < MaxVenues
    BY <1>1, <1>2, TrackedGrows
  <2>2. \A w \in Venues : ~ledger'[w].active => ledger'[w] = Untracked
    BY <1>2 DEF LedgerKnows
  <2>3. ASSUME Cardinality(Tracked(ledger')) < MaxVenues, NEW i \in 1..MaxSlots, slots[i].active, i # strat.slot
        PROVE  ledger'[slots[i].v].active
    BY <1>2, <2>1, <2>3, SlotFacts DEF LedgerKnows
  <2> QED
    BY <1>1, <2>2, <2>3 DEF LedgerKnows
<1>4. ASSUME NEW w \in Venues, NEW side \in Sides
      PROVE  OpenQty(w, side)' = OpenQty(w, side) /\ (HalfFilled(w, side)' <=> HalfFilled(w, side))
  <2>1. Working(w, side)' = Working(w, side) /\ \A i \in Working(w, side) : Left(i)' = Left(i)
    BY <1>1 DEF Working, Left
  <2>2. OpenQty(w, side)' = OpenQty(w, side)
    BY <2>1, OpenSame
  <2> QED
    BY <1>1, <2>2 DEF HalfFilled
<1>5. ASSUME NEW w \in Venues, NEW side \in Sides, ledger'[w].active
      PROVE  /\ dropped = {} => ledger'[w].pending[side] <= OpenQty(w, side)
             /\ ~HalfFilled(w, side) => ledger'[w].pending[side] >= OpenQty(w, side)
  <2>1. CASE ledger[w].active
    BY <1>2, <2>1 DEF PendingSound
  <2>2. CASE ~ledger[w].active
    <3>1. Cardinality(Tracked(ledger)) < MaxVenues
      BY <1>2, <1>5, <2>2
    <3>2. OpenQty(w, side) = 0
      BY <2>2, <3>1, NoneWorking
    <3>3. ledger'[w].pending[side] = 0
      BY <1>2, <2>2 DEF LedgerKnows, Untracked
    <3> QED
      BY <3>2, <3>3
  <2> QED
    BY <2>1, <2>2
<1>6. PendingSound'
  BY <1>1, <1>4, <1>5 DEF PendingSound
<1> QED
  BY <1>3, <1>6

LEMMA LedgerSubmitOk ==
  ASSUME QueueInv, LedgerKnows, PendingSound, SubmitOk
  PROVE  LedgerKnows' /\ PendingSound'
<1> DEFINE x == strat.slot
           o == slots[x]
           f == find_or_create_venue(ledger, o.v)
<1>1. /\ strat.pc = "submit" /\ ledger' = on_order_submitted(ledger, o) /\ strat' = [pc |-> "idle", slot |-> 0]
      /\ UNCHANGED <<slots, next_id, position, q, orders, dropped, refused>>
  BY DEF SubmitOk
<1>2. x \in 1..MaxSlots /\ o.active /\ o.filled = 0
  BY <1>1 DEF QueueInv, SubmitSound
<1>3. o.v \in Venues /\ o.side \in Sides /\ o.qty \in Nat /\ ledger \in [Venues -> Account]
  BY <1>2, SlotFacts DEF QueueInv, TypeOK
<1> HIDE DEF o
<1>4. /\ f \in [Venues -> Account]
      /\ \A w \in Venues : /\ f[w].pending = ledger[w].pending
                           /\ ledger[w].active => f[w].active
                           /\ w # o.v => f[w] = ledger[w]
      /\ Cardinality(Tracked(ledger)) < MaxVenues => f[o.v].active
      /\ ~(Cardinality(Tracked(ledger)) < MaxVenues) => f = ledger
  BY <1>3, FindFacts
<1>5. /\ f[o.v].active => OnlyPending(f, ledger', o.v, o.side, ledger[o.v].pending[o.side] + o.qty)
      /\ ~f[o.v].active => ledger' = f
  BY <1>1, <1>3, SubmittedFacts
<1> HIDE DEF f
<1>6. /\ ledger' \in [Venues -> Account]
      /\ \A w \in Venues : ledger'[w].active = f[w].active /\ (w # o.v => ledger'[w] = ledger[w])
      /\ ~f[o.v].active => ledger' = ledger
      /\ \A w \in Venues, d \in Sides : f[o.v].active =>
            ledger'[w].pending[d] = IF w = o.v /\ d = o.side THEN ledger[w].pending[d] + o.qty ELSE ledger[w].pending[d]
  <2>1. CASE f[o.v].active
    BY <1>4, <1>5, <2>1 DEF OnlyPending
  <2>2. CASE ~f[o.v].active
    <3>1. f = ledger
      BY <1>4, <2>2
    <3> QED
      BY <1>4, <1>5, <2>2, <3>1
  <2> QED
    BY <2>1, <2>2
<1>7. LedgerKnows'
  <2>1. Cardinality(Tracked(ledger')) < MaxVenues => Cardinality(Tracked(ledger)) < MaxVenues
    BY <1>3, <1>4, <1>6, TrackedGrows
  <2>2. ASSUME NEW w \in Venues, ~ledger'[w].active PROVE ledger'[w] = Untracked
    <3>1. CASE w = o.v
      <4>1. ledger' = ledger
        BY <1>6, <2>2, <3>1
      <4> QED
        BY <2>2, <4>1 DEF LedgerKnows
    <3>2. CASE w # o.v
      BY <1>4, <1>6, <2>2, <3>2 DEF LedgerKnows
    <3> QED
      BY <3>1, <3>2
  <2>3. ASSUME Cardinality(Tracked(ledger')) < MaxVenues, NEW i \in 1..MaxSlots, slots[i].active
        PROVE  ledger'[slots[i].v].active
    <3>1. slots[i].v \in Venues
      BY <2>3, SlotFacts
    <3>2. CASE i = x
      BY <1>3, <1>4, <1>6, <2>1, <2>3, <3>2 DEF o
    <3>3. CASE i # x
      BY <1>4, <1>6, <2>1, <2>3, <3>1, <3>3 DEF LedgerKnows
    <3> QED
      BY <3>2, <3>3
  <2> QED
    BY <1>1, <2>2, <2>3 DEF LedgerKnows
<1>8. ASSUME NEW w \in Venues, NEW d \in Sides, NEW y, y = x
      PROVE  OpenQty(w, d)' = OpenQty(w, d) + (IF w = o.v /\ d = o.side THEN o.qty ELSE 0)
  <2>1. Left(y) = o.qty /\ \A i : Left(i)' = Left(i)
    BY <1>1, <1>2, <1>3, <1>8 DEF Left, o
  <2>2. CASE w = o.v /\ d = o.side
    <3>1. y \notin Working(w, d) /\ Working(w, d)' = Working(w, d) \cup {y}
      BY <1>1, <1>2, <1>8, <2>2 DEF Working, o
    <3> DEFINE e == [i \in Working(w, d) |-> Left(i)]
               g == [i \in Working(w, d)' |-> Left(i)']
    <3>2. /\ DOMAIN e = Working(w, d) /\ DOMAIN g = Working(w, d) \cup {y} /\ g[y] = o.qty /\ g[y] \in Int
          /\ \A i \in Working(w, d) : e[i] \in Int /\ g[i] = e[i]
      <4>1. DOMAIN e = Working(w, d) /\ DOMAIN g = Working(w, d) \cup {y}
        BY <3>1
      <4>2. g[y] = o.qty
        <5>1. \A i \in Working(w, d)' : g[i] = Left(i)
          BY <2>1
        <5>2. y \in Working(w, d)'
          BY <3>1
        <5> QED
          BY <2>1, <5>1, <5>2
      <4>3. \A i \in Working(w, d) : e[i] = Left(i) /\ g[i] = Left(i)
        BY <2>1, <3>1
      <4>4. \A i \in Working(w, d) : Left(i) \in Int
        BY LeftNat DEF Working
      <4> HIDE DEF e, g
      <4> QED
        BY <1>3, <4>1, <4>2, <4>3, <4>4
    <3>3. IsFiniteSet(Working(w, d)) /\ OpenQty(w, d) = SumFunction(e)
      BY OpenFacts
    <3>5. OpenQty(w, d)' = SumFunction(g)
      BY DEF OpenQty, Working, Left
    <3> HIDE DEF e, g
    <3>4. SumFunction(g) = SumFunction(e) + g[y]
      BY <3>1, <3>2, <3>3, SumAdded
    <3> QED
      BY <2>2, <3>2, <3>3, <3>4, <3>5
  <2>3. CASE ~(w = o.v /\ d = o.side)
    <3>1. Working(w, d)' = Working(w, d)
      BY <1>1, <1>2, <2>3 DEF Working, o
    <3>2. OpenQty(w, d)' = OpenQty(w, d) /\ OpenQty(w, d) \in Nat
      BY <2>1, <3>1, OpenSame, OpenFacts
    <3> QED
      BY <2>3, <3>2
  <2> QED
    BY <2>2, <2>3
<1>9. ASSUME NEW w \in Venues, NEW d \in Sides, ledger'[w].active
      PROVE  /\ dropped' = {} => ledger'[w].pending[d] <= OpenQty(w, d)'
             /\ ~HalfFilled(w, d)' => ledger'[w].pending[d] >= OpenQty(w, d)'
  <2>1. ledger[w].pending[d] \in Nat /\ OpenQty(w, d) \in Nat
    BY <1>3, OpenFacts DEF Account
  <2>2. HalfFilled(w, d) => HalfFilled(w, d)'
    BY <1>1 DEF HalfFilled
  <2>3. ledger'[w].pending[d] = ledger[w].pending[d] + (IF w = o.v /\ d = o.side THEN o.qty ELSE 0)
    <3>1. CASE f[o.v].active
      BY <1>3, <1>6, <2>1, <3>1
    <3>2. CASE ~f[o.v].active
      BY <1>6, <1>9, <2>1, <3>2
    <3> QED
      BY <3>1, <3>2
  <2>4. /\ dropped = {} => ledger[w].pending[d] <= OpenQty(w, d)
        /\ ~HalfFilled(w, d) => ledger[w].pending[d] >= OpenQty(w, d)
    <3>1. CASE ledger[w].active
      BY <3>1 DEF PendingSound
    <3>2. CASE ~ledger[w].active
      <4>1. Cardinality(Tracked(ledger)) < MaxVenues
        BY <1>4, <1>6, <1>9, <3>2
      <4>2. OpenQty(w, d) = 0
        BY <3>2, <4>1, NoneWorking
      <4>3. ledger[w].pending[d] = 0
        BY <3>2 DEF LedgerKnows, Untracked
      <4> QED
        BY <4>2, <4>3
    <3> QED
      BY <3>1, <3>2
  <2> QED
    BY <1>1, <1>3, <1>8, <2>1, <2>2, <2>3, <2>4
<1>10. PendingSound'
  BY <1>9 DEF PendingSound
<1> QED
  BY <1>7, <1>10

\* What an update that is applied takes off the pending quantity of its side:
\* what it filled and, if it ends the order, what it says was left.
Off(p, o, u) ==
  IF u.done THEN MinusToZero(IF u.qty > 0 THEN MinusToZero(p, u.qty) ELSE p, MinusToZero(o.qty, u.cum))
  ELSE IF u.qty > 0 THEN MinusToZero(p, u.qty) ELSE p

LEMMA MinusNat ==
  ASSUME NEW a \in Nat, NEW b \in Nat
  PROVE  MinusToZero(a, b) \in Nat /\ (MinusToZero(a, b) = a - b \/ (MinusToZero(a, b) = 0 /\ a <= b))
BY DEF MinusToZero

LEMMA LedgerAfterFacts ==
  ASSUME ledger \in [Venues -> Account], NEW o, o.v \in Venues, o.side \in Sides, o.qty \in Nat,
         NEW u, u.qty \in Nat, u.cum \in Nat,
         ledger[o.v].active \/ ~(Cardinality(Tracked(ledger)) < MaxVenues)
  PROVE  /\ ledger[o.v].active =>
              OnlyPending(ledger, LedgerAfter(o, u), o.v, o.side, Off(ledger[o.v].pending[o.side], o, u))
         /\ ~ledger[o.v].active => LedgerAfter(o, u) = ledger
<1> DEFINE f == find_or_create_venue(ledger, o.v)
           l == IF u.qty > 0 THEN ledger_on_fill(ledger, o, u.qty) ELSE ledger
           r == MinusToZero(o.qty, u.cum)
           p == ledger[o.v].pending[o.side]
           p1 == IF u.qty > 0 THEN MinusToZero(p, u.qty) ELSE p
           p2 == IF u.done THEN MinusToZero(p1, r) ELSE p1
<1>0. p \in Nat /\ r \in Nat /\ p1 \in Nat /\ p2 \in Nat
  <2>1. p \in Nat /\ r \in Nat
    BY MinusNat DEF Account
  <2>2. p1 \in Nat
    <3> HIDE DEF p
    <3> QED
      BY <2>1, MinusNat
  <2> HIDE DEF p, r, p1
  <2> QED
    BY <2>1, <2>2, MinusNat
<1>1. \A w \in Venues, d \in Sides : ledger[w].pending[d] \in Nat
  BY DEF Account
<1>2. f = ledger
  <2>1. CASE ledger[o.v].active
    <3>1. f = ledger \/ f = [ledger EXCEPT ![o.v].active = TRUE]
      BY DEF find_or_create_venue
    <3>2. ledger[o.v] \in Account
      OBVIOUS
    <3>3. [ledger[o.v] EXCEPT !.active = TRUE] = ledger[o.v]
      BY <2>1, <3>2 DEF Account
    <3> QED
      BY <3>1, <3>3
  <2>2. CASE ~(Cardinality(Tracked(ledger)) < MaxVenues)
    BY <2>2 DEF find_or_create_venue
  <2> QED
    BY <2>1, <2>2
<1>3. /\ ledger[o.v].active => OnlyPending(ledger, l, o.v, o.side, p1)
      /\ ~ledger[o.v].active => l = ledger
  <2>1. CASE u.qty > 0
    BY <1>2, <2>1, FilledFacts
  <2>2. CASE ~(u.qty > 0)
    BY <2>2 DEF OnlyPending
  <2> QED
    BY <2>1, <2>2
<1>4. LedgerAfter(o, u) = IF u.done THEN on_order_closed(l, o, r) ELSE l
  BY DEF LedgerAfter
<1>5. Off(p, o, u) = p2
  BY DEF Off
<1> DEFINE m == LedgerAfter(o, u)
<1> HIDE DEF f, l, r, p, p1, p2, m
<1>6. CASE ~ledger[o.v].active
  <2>1. on_order_closed(ledger, o, r) = ledger
    BY <1>6 DEF on_order_closed
  <2> QED
    BY <1>3, <1>4, <1>6, <2>1
<1>7. CASE ledger[o.v].active
  <2>1. /\ l \in [Venues -> Account] /\ l[o.v].active /\ l[o.v].pending[o.side] = p1
        /\ OnlyPending(ledger, l, o.v, o.side, p1)
    BY <1>3, <1>7 DEF OnlyPending
  <2>2. CASE u.done
    <3>1. OnlyPending(l, m, o.v, o.side, MinusToZero(p1, r))
      BY <1>0, <1>4, <2>1, <2>2, EndedFacts DEF m
    <3>2. p2 = MinusToZero(p1, r)
      BY <2>2 DEF p2
    <3>3. OnlyPending(ledger, m, o.v, o.side, p2)
      BY <2>1, <3>1, <3>2 DEF OnlyPending
    <3> QED
      BY <1>5, <1>7, <3>3 DEF m, p
  <2>3. CASE ~u.done
    BY <1>4, <1>5, <1>7, <2>1, <2>3 DEF p2, p
  <2> QED
    BY <2>2, <2>3
<1> QED
  BY <1>6, <1>7

\* What can still be executed, after an update is applied to slot i: the slot is
\* gone, or it is filled up to what the update says.
LEMMA OpenApplied ==
  ASSUME QueueInv, NEW u, u.cum \in Nat, NEW i, AppliedTo(i, u), u.cum <= slots[i].qty,
         strat' = strat, strat.slot = 0, NEW w, NEW d
  PROVE  /\ OpenQty(w, d)' \in Nat
         /\ (w = slots[i].v /\ d = slots[i].side) =>
              OpenQty(w, d)' = OpenQty(w, d) - (IF u.done THEN Left(i) ELSE u.cum - slots[i].filled)
         /\ ~(w = slots[i].v /\ d = slots[i].side) => OpenQty(w, d)' = OpenQty(w, d)
<1>1. /\ i \in 1..MaxSlots /\ slots[i].active
      /\ \A j \in 1..MaxSlots : j # i => slots'[j] = slots[j]
      /\ slots'[i].v = slots[i].v /\ slots'[i].side = slots[i].side
      /\ slots'[i].qty = slots[i].qty /\ slots'[i].filled = u.cum /\ (slots'[i].active <=> ~u.done)
  BY DEF AppliedTo
<1>2. i \notin {strat.slot} /\ slots[i].qty \in Nat /\ slots[i].filled \in Nat
  BY <1>1, SlotFacts
<1> DEFINE e == [j \in Working(w, d) |-> Left(j)]
           g == [j \in Working(w, d)' |-> Left(j)']
<1>3. IsFiniteSet(Working(w, d)) /\ OpenQty(w, d) = SumFunction(e) /\ OpenQty(w, d) \in Nat
  BY OpenFacts
<1>4. OpenQty(w, d)' = SumFunction(g)
  BY DEF OpenQty, Working, Left
<1>5. \A j \in Working(w, d) : Left(j) \in Nat
  BY LeftNat DEF Working
<1>6. \A j \in 1..MaxSlots : j # i => Left(j)' = Left(j)
  BY <1>1 DEF Left
<1>7. CASE ~(w = slots[i].v /\ d = slots[i].side)
  <2>1. Working(w, d)' = Working(w, d) /\ i \notin Working(w, d)
    BY <1>1, <1>7 DEF Working
  <2>2. OpenQty(w, d)' = OpenQty(w, d)
    BY <1>6, <2>1, OpenSame DEF Working
  <2> QED
    BY <1>3, <1>7, <2>2
<1>8. CASE w = slots[i].v /\ d = slots[i].side /\ u.done
  <2>1. Working(w, d) = Working(w, d)' \cup {i} /\ i \notin Working(w, d)' /\ Working(w, d)' \subseteq Working(w, d)
    BY <1>1, <1>2, <1>8 DEF Working
  <2>2. /\ DOMAIN e = Working(w, d)' \cup {i} /\ DOMAIN g = Working(w, d)' /\ e[i] = Left(i) /\ e[i] \in Nat
        /\ \A j \in Working(w, d)' : g[j] \in Nat /\ e[j] = g[j]
    <3>1. DOMAIN e = Working(w, d)' \cup {i} /\ DOMAIN g = Working(w, d)' /\ e[i] = Left(i)
      BY <2>1
    <3>2. \A j \in Working(w, d)' : j \in 1..MaxSlots /\ j # i
      BY <2>1 DEF Working
    <3>3. \A j \in Working(w, d)' : e[j] = Left(j) /\ g[j] = Left(j)
      BY <1>6, <2>1, <3>2
    <3> HIDE DEF e, g
    <3> QED
      BY <1>5, <2>1, <3>1, <3>3
  <2> HIDE DEF e, g
  <2>3. IsFiniteSet(Working(w, d)')
    BY <1>3, <2>1, FS_Subset
  <2>4. SumFunction(g) \in Nat
    BY <2>2, <2>3, SumNatural
  <2>5. SumFunction(e) = SumFunction(g) + e[i]
    BY <2>1, <2>2, <2>3, SumAdded
  <2> QED
    BY <1>3, <1>4, <1>8, <2>2, <2>4, <2>5
<1>9. CASE w = slots[i].v /\ d = slots[i].side /\ ~u.done
  <2>1. Working(w, d)' = Working(w, d) /\ i \in Working(w, d)
    BY <1>1, <1>2, <1>9 DEF Working
  <2>2. \A j : j = i => Left(j) = slots[j].qty - slots[j].filled /\ Left(j)' = slots[j].qty - u.cum
    BY <1>1 DEF Left
  <2>3. /\ DOMAIN e = Working(w, d) /\ DOMAIN g = Working(w, d)
        /\ \A j \in Working(w, d) : e[j] = Left(j) /\ e[j] \in Nat /\ g[j] \in Nat /\ (j # i => e[j] = g[j])
        /\ e[i] = slots[i].qty - slots[i].filled /\ g[i] = slots[i].qty - u.cum
    <3>1. DOMAIN e = Working(w, d) /\ DOMAIN g = Working(w, d)
      BY <2>1
    <3>2. \A j \in Working(w, d) : e[j] = Left(j) /\ (j = i => g[j] = slots[j].qty - u.cum)
      BY <2>1, <2>2
    <3>3. \A j \in Working(w, d) : j # i => g[j] = Left(j)
      BY <1>6, <2>1 DEF Working
    <3>4. slots[i].qty - u.cum \in Nat
      BY <1>2
    <3> HIDE DEF e, g
    <3>5. e[i] = slots[i].qty - slots[i].filled /\ g[i] = slots[i].qty - u.cum
      BY <2>1, <2>2, <3>2
    <3>6. ASSUME NEW j \in Working(w, d) PROVE e[j] \in Nat /\ g[j] \in Nat /\ (j # i => e[j] = g[j])
      BY <1>5, <3>2, <3>3, <3>4, <3>5
    <3> QED
      BY <3>1, <3>2, <3>5, <3>6
  <2> HIDE DEF e, g
  <2>4. SumFunction(g) \in Nat
    BY <1>3, <2>3, SumNatural
  <2>5. SumFunction(g) = SumFunction(e) - e[i] + g[i]
    <3>1. \A j \in Working(w, d) : e[j] \in Int /\ g[j] \in Int
      BY <2>3
    <3> QED
      BY <1>3, <2>1, <2>3, <3>1, SumMoved
  <2> QED
    BY <1>2, <1>3, <1>4, <1>9, <2>3, <2>4, <2>5
<1> QED
  BY <1>7, <1>8, <1>9

\* The two bounds on a pending quantity p, while open can still be executed and
\* the update says n more was filled, cum in all.
LEMMA OffBounds ==
  ASSUME NEW p \in Nat, NEW o, o.qty \in Nat, o.filled \in Nat, o.filled <= o.qty,
         NEW u, u.qty \in Nat, u.cum \in Nat, u.cum <= o.qty,
         NEW open \in Nat, NEW rest \in Nat,
         rest = open - (IF u.done THEN o.qty - o.filled ELSE u.cum - o.filled),
         u.qty = 0 => u.done /\ u.cum = 0, u.qty > 0 /\ u.done => u.cum = o.qty,
         u.qty > 0 => o.filled + u.qty <= u.cum
  PROVE  /\ p <= open /\ (u.qty > 0 => o.filled + u.qty = u.cum) => Off(p, o, u) <= rest
         /\ p >= open /\ (u.qty = 0 => o.filled = 0) => Off(p, o, u) >= rest
<1>1. CASE u.qty = 0
  <2>1. Off(p, o, u) = MinusToZero(p, MinusToZero(o.qty, 0)) /\ rest = open - (o.qty - o.filled)
    BY <1>1 DEF Off
  <2>2. MinusToZero(o.qty, 0) = o.qty
    BY DEF MinusToZero
  <2>3. Off(p, o, u) = MinusToZero(p, o.qty)
    BY <2>1, <2>2
  <2> QED
    BY <2>1, <2>3, <1>1 DEF MinusToZero
<1>2. CASE u.qty > 0 /\ u.done
  <2>1. Off(p, o, u) = MinusToZero(MinusToZero(p, u.qty), MinusToZero(o.qty, o.qty)) /\ rest = open - (o.qty - o.filled)
    BY <1>2 DEF Off
  <2>2. MinusToZero(o.qty, o.qty) = 0 /\ MinusToZero(p, u.qty) \in Nat
    BY DEF MinusToZero
  <2>3. Off(p, o, u) = MinusToZero(p, u.qty)
    BY <2>1, <2>2 DEF MinusToZero
  <2>4. MinusToZero(p, u.qty) = IF p > u.qty THEN p - u.qty ELSE 0
    BY DEF MinusToZero
  <2>5. u.cum = o.qty
    BY <1>2
  <2> QED
    BY <1>2, <2>1, <2>3, <2>4, <2>5
<1>3. CASE u.qty > 0 /\ ~u.done
  <2>1. Off(p, o, u) = MinusToZero(p, u.qty) /\ rest = open - (u.cum - o.filled)
    BY <1>3 DEF Off
  <2>2. MinusToZero(p, u.qty) = IF p > u.qty THEN p - u.qty ELSE 0
    BY DEF MinusToZero
  <2> QED
    BY <1>3, <2>1, <2>2
<1> QED
  BY <1>1, <1>2, <1>3

LEMMA LedgerApplied ==
  ASSUME QueueInv, Chained, LedgerKnows, PendingSound, q # << >>, strat.pc = "drain",
         NEW u, u = Head(q), NEW i, AppliedTo(i, u),
         UNCHANGED <<next_id, strat, orders, dropped, refused>>
  PROVE  LedgerKnows' /\ PendingSound'
<1>1. /\ i \in 1..MaxSlots /\ slots[i].active /\ slots[i].id = u.id
      /\ \A j \in 1..MaxSlots : j # i => slots'[j] = slots[j]
      /\ slots'[i].v = slots[i].v /\ ledger' = LedgerAfter(slots[i], u)
  BY DEF AppliedTo
<1>2. /\ slots[i].v \in Venues /\ slots[i].side \in Sides /\ slots[i].qty \in Nat /\ slots[i].filled \in Nat
      /\ slots[i].id \in 1..Len(orders) /\ slots[i].id \notin refused
      /\ slots[i].filled <= orders[slots[i].id].filled
      /\ orders[slots[i].id].filled <= orders[slots[i].id].qty /\ slots[i].qty = orders[slots[i].id].qty
      /\ slots[i].v = orders[slots[i].id].v /\ slots[i].side = orders[slots[i].id].side
      /\ find_order(u.id) = {i} /\ ledger \in [Venues -> Account] /\ TypeOK
  BY <1>1, SlotFacts DEF QueueInv, TypeOK
<1>3. orders[u.id].filled \in Nat /\ orders[u.id].qty \in Nat /\ u.id \in 1..Len(orders)
  BY <1>1, <1>2, OrderTypes
<1>4. /\ u.qty \in Nat /\ u.cum \in Nat /\ QueuedSound(u) /\ UpdateSound(u) /\ u = q[1] /\ Len(q) \in Nat /\ Len(q) > 0
  BY HeadFacts
<1>5. /\ u.cum <= slots[i].qty /\ u.cum <= orders[u.id].filled
      /\ u.qty = 0 => u.done /\ u.cum = 0 /\ orders[u.id].filled < orders[u.id].qty /\ orders[u.id].status = "CLOSED"
      /\ u.qty > 0 /\ u.done => u.cum = slots[i].qty
      /\ u.qty > 0 => slots[i].filled + u.qty <= u.cum
  BY <1>1, <1>2, <1>3, <1>4 DEF UpdateSound, QueuedSound
<1>6. strat.slot = 0
  BY DEF QueueInv, SubmitSound
<1>7. ledger[slots[i].v].active \/ ~(Cardinality(Tracked(ledger)) < MaxVenues)
  BY <1>1, <1>6 DEF LedgerKnows
<1> DEFINE p == ledger[slots[i].v].pending[slots[i].side]
           off == Off(p, slots[i], u)
<1>8. /\ ledger[slots[i].v].active => OnlyPending(ledger, ledger', slots[i].v, slots[i].side, off)
      /\ ~ledger[slots[i].v].active => ledger' = ledger
  BY <1>1, <1>2, <1>4, <1>7, LedgerAfterFacts
<1>9. p \in Nat
  BY <1>2 DEF Account
<1> HIDE DEF off
<1>10. /\ ledger' \in [Venues -> Account]
       /\ \A w \in Venues : ledger'[w].active = ledger[w].active /\ (w # slots[i].v => ledger'[w] = ledger[w])
       /\ ~ledger[slots[i].v].active => ledger' = ledger
       /\ \A w \in Venues, d \in Sides : ledger[slots[i].v].active =>
            ledger'[w].pending[d] = IF w = slots[i].v /\ d = slots[i].side THEN off ELSE ledger[w].pending[d]
  <2>1. CASE ledger[slots[i].v].active
    BY <1>8, <2>1 DEF OnlyPending
  <2>2. CASE ~ledger[slots[i].v].active
    BY <1>2, <1>8, <2>2
  <2> QED
    BY <2>1, <2>2
<1>11. LedgerKnows'
  <2>1. Cardinality(Tracked(ledger')) < MaxVenues => Cardinality(Tracked(ledger)) < MaxVenues
    BY <1>2, <1>10, TrackedGrows
  <2>2. \A w \in Venues : ~ledger'[w].active => ledger'[w] = Untracked
    BY <1>10 DEF LedgerKnows
  <2>3. \A j \in 1..MaxSlots : slots'[j].active => slots[j].active /\ slots'[j].v = slots[j].v
    BY <1>1
  <2>4. \A j \in 1..MaxSlots : slots[j].active => slots[j].v \in Venues
    BY SlotFacts
  <2> QED
    BY <1>10, <2>1, <2>2, <2>3, <2>4 DEF LedgerKnows
<1>12. ASSUME NEW w \in Venues, NEW d \in Sides
       PROVE  HalfFilled(w, d)' <=> HalfFilled(w, d)
  BY DEF HalfFilled
<1>13. ASSUME NEW w \in Venues, NEW d \in Sides, ledger'[w].active
       PROVE  /\ dropped = {} => ledger'[w].pending[d] <= OpenQty(w, d)'
              /\ ~HalfFilled(w, d) => ledger'[w].pending[d] >= OpenQty(w, d)'
  <2>1. ledger[w].active /\ (w = slots[i].v => ledger[slots[i].v].active)
    BY <1>10, <1>13
  <2>2. /\ dropped = {} => ledger[w].pending[d] <= OpenQty(w, d)
        /\ ~HalfFilled(w, d) => ledger[w].pending[d] >= OpenQty(w, d)
    BY <2>1 DEF PendingSound
  <2>3. OpenQty(w, d) \in Nat
    BY OpenFacts
  <2>4. CASE ~(w = slots[i].v /\ d = slots[i].side)
    <3>1. OpenQty(w, d)' = OpenQty(w, d)
      BY <1>4, <1>5, <1>6, <2>4, OpenApplied
    <3>2. ledger'[w].pending[d] = ledger[w].pending[d]
      <4>1. CASE ledger[slots[i].v].active
        BY <1>10, <2>4, <4>1
      <4>2. CASE ~ledger[slots[i].v].active
        BY <1>10, <4>2
      <4> QED
        BY <4>1, <4>2
    <3> QED
      BY <2>2, <3>1, <3>2
  <2>5. CASE w = slots[i].v /\ d = slots[i].side
    <3> DEFINE rest == OpenQty(w, d)'
               open == OpenQty(w, d)
               o == slots[i]
    <3>1. rest \in Nat /\ rest = open - (IF u.done THEN o.qty - o.filled ELSE u.cum - o.filled)
      BY <1>4, <1>5, <1>6, <2>5, OpenApplied DEF Left
    <3>2. ledger'[w].pending[d] = off /\ ledger[w].pending[d] = p
      BY <1>2, <1>10, <2>1, <2>5
    <3>3. o.qty \in Nat /\ o.filled \in Nat /\ o.filled <= o.qty
      BY <1>1, <1>2, <1>3
    <3>4. dropped = {} => (u.qty > 0 => o.filled + u.qty = u.cum)
      <4>1. ASSUME dropped = {}, u.qty > 0 PROVE o.filled = u.cum - u.qty
        <5>1. 1 \in 1..Len(q) /\ q[1].id = slots[i].id /\ q[1].qty > 0
          BY <1>1, <1>4, <4>1
        <5>2. GoesOn(i, 1, q[1].cum - q[1].qty)
          BY <1>1, <4>1, <5>1 DEF Chained
        <5>3. GoesOn(i, 1, u.cum - u.qty)
          BY <1>4, <5>2
        <5> QED
          BY <5>3 DEF GoesOn
      <4> QED
        BY <1>4, <3>3, <4>1
    <3>5. ~HalfFilled(w, d) => (u.qty = 0 => o.filled = 0)
      <4>1. ASSUME u.qty = 0, o.filled # 0 PROVE HalfFilled(w, d)
        <5>1. /\ u.id \in (1..Len(orders)) \ refused /\ orders[u.id].v = w /\ orders[u.id].side = d
              /\ orders[u.id].status = "CLOSED" /\ orders[u.id].filled < orders[u.id].qty
          BY <1>1, <1>2, <1>5, <2>5, <4>1
        <5>2. orders[u.id].filled > 0
          BY <1>1, <1>2, <1>3, <4>1
        <5> QED
          BY <5>1, <5>2 DEF HalfFilled
      <4> QED
        BY <4>1
    <3> HIDE DEF p, rest, open, o
    <3>6. /\ p <= open /\ (u.qty > 0 => o.filled + u.qty = u.cum) => Off(p, o, u) <= rest
          /\ p >= open /\ (u.qty = 0 => o.filled = 0) => Off(p, o, u) >= rest
      <4>1. open \in Nat /\ u.cum <= o.qty
        BY <1>5, <2>3 DEF open, o
      <4>2. /\ u.qty = 0 => u.done /\ u.cum = 0
            /\ u.qty > 0 /\ u.done => u.cum = o.qty
            /\ u.qty > 0 => o.filled + u.qty <= u.cum
        BY <1>5 DEF o
      <4>3. p \in Nat /\ rest \in Nat /\ u.qty \in Nat /\ u.cum \in Nat
        BY <1>4, <1>9, <3>1
      <4>4. rest = open - (IF u.done THEN o.qty - o.filled ELSE u.cum - o.filled)
        BY <3>1
      <4> QED
        BY <3>3, <4>1, <4>2, <4>3, <4>4, OffBounds
    <3>7. Off(p, o, u) = off
      BY DEF off, o, p
    <3>8. /\ dropped = {} => p <= open
          /\ ~HalfFilled(w, d) => p >= open
      BY <2>2, <3>2 DEF open
    <3> QED
      BY <3>2, <3>4, <3>5, <3>6, <3>7, <3>8 DEF rest
  <2> QED
    BY <2>4, <2>5
<1>14. PendingSound'
  BY <1>10, <1>12, <1>13 DEF PendingSound
<1> QED
  BY <1>11, <1>14

LEMMA LedgerStep ==
  QueueInv /\ Chained /\ LedgerKnows /\ PendingSound /\ [Next]_vars => LedgerKnows' /\ PendingSound'
<1> SUFFICES ASSUME QueueInv, Chained, LedgerKnows, PendingSound, [Next]_vars
             PROVE  LedgerKnows' /\ PendingSound'
  OBVIOUS
<1>1. CASE UNCHANGED vars
  BY <1>1, LedgerQuiet DEF vars, HalfFilled
<1>2. CASE \E v \in Venues : UpdateMidPrice(v)
  BY <1>2, LedgerMidPrice
<1>3. ASSUME NEW v \in Venues, NEW side \in Sides, NEW n \in Quantities, Submit(v, side, n)
      PROVE  LedgerKnows' /\ PendingSound'
  <2> DEFINE f == find_free_slot
             new == [id |-> next_id, v |-> v, side |-> side, qty |-> n, filled |-> 0, active |-> TRUE]
  <2>1. /\ f \in 1..MaxSlots /\ ~slots[f].active /\ next_id = Len(orders) + 1
        /\ \A i \in 1..MaxSlots : slots'[i] = IF i = f THEN new ELSE slots[i]
        /\ Len(orders') = Len(orders) + 1
        /\ \A id \in 1..Len(orders) : orders'[id] = orders[id]
        /\ strat.pc = "idle" /\ strat' = [pc |-> "submit", slot |-> f]
        /\ UNCHANGED <<position, ledger, q, dropped, refused>>
    BY <1>3, SubmitEffect
  <2>2. new.id = next_id /\ strat.slot = 0 /\ Len(orders) \in Nat
    BY <2>1 DEF QueueInv, SubmitSound, TypeOK
  <2> HIDE DEF f, new
  <2>3. \A i \in 1..MaxSlots : slots'[i].active /\ i # strat'.slot => slots'[i] = slots[i] /\ slots[i].active /\ i # strat.slot
    BY <2>1, <2>2
  <2>4. \A i \in 1..MaxSlots : slots[i].active /\ i # strat.slot => slots'[i] = slots[i] /\ slots'[i].active /\ i # strat'.slot
    BY <2>1
  <2>5. ASSUME NEW w \in Venues, NEW d \in Sides, HalfFilled(w, d) PROVE HalfFilled(w, d)'
    <3>1. PICK id \in (1..Len(orders)) \ refused :
             /\ strat.pc = "submit" => id # slots[strat.slot].id
             /\ orders[id].v = w /\ orders[id].side = d /\ orders[id].status = "CLOSED"
             /\ orders[id].filled > 0 /\ orders[id].filled < orders[id].qty
      BY <2>5 DEF HalfFilled
    <3>2. id \in (1..Len(orders')) \ refused' /\ orders'[id] = orders[id]
      BY <2>1, <2>2
    <3>3. slots'[strat'.slot].id = next_id /\ id # next_id
      BY <2>1, <2>2
    <3> QED
      BY <3>1, <3>2, <3>3 DEF HalfFilled
  <2> QED
    BY <2>1, <2>3, <2>4, <2>5, LedgerQuiet
<1>4. CASE SubmitOk
  BY <1>4, LedgerSubmitOk
<1>5. CASE SubmitFailed
  <2> DEFINE f == strat.slot
             r == slots[f].id
  <2>1. /\ strat.pc = "submit" /\ strat' = [pc |-> "idle", slot |-> 0] /\ refused' = refused \cup {r}
        /\ f \in 1..MaxSlots /\ slots[f] \in Slot /\ UNCHANGED <<ledger, orders, dropped>>
    BY <1>5, SlotFacts DEF SubmitFailed, QueueInv, SubmitSound
  <2>2. \A i \in 1..MaxSlots : (i # f => slots'[i] = slots[i]) /\ (i = f => ~slots'[i].active)
    BY <1>5, <2>1 DEF SubmitFailed, QueueInv, TypeOK, Slot
  <2>3. \A w, d : HalfFilled(w, d) => HalfFilled(w, d)'
    BY <2>1 DEF HalfFilled
  <2> HIDE DEF f
  <2>4. \A i \in 1..MaxSlots : slots'[i].active /\ i # strat'.slot => slots'[i] = slots[i] /\ slots[i].active /\ i # strat.slot
    BY <2>2 DEF f
  <2>5. \A i \in 1..MaxSlots : slots[i].active /\ i # strat.slot => slots'[i] = slots[i] /\ slots'[i].active /\ i # strat'.slot
    BY <2>1, <2>2 DEF f
  <2> QED
    BY <2>1, <2>3, <2>4, <2>5, LedgerQuiet
<1>6. CASE DrainFills \/ DrainDone
  <2>1. /\ UNCHANGED <<slots, ledger, orders, dropped, refused>> /\ strat'.slot = strat.slot
        /\ strat'.pc # "submit"
    BY <1>6 DEF DrainFills, DrainDone, QueueInv, TypeOK
  <2>2. \A w, d : HalfFilled(w, d) => HalfFilled(w, d)'
    BY <2>1 DEF HalfFilled
  <2> QED
    BY <2>1, <2>2, LedgerQuiet
<1>7. CASE ApplyFill
  <2>1. /\ q # << >> /\ strat.pc = "drain"
        /\ UNCHANGED <<next_id, strat, orders, dropped, refused>>
        /\ \/ find_order(Head(q).id) = {} /\ UNCHANGED <<slots, position, ledger>>
           \/ \E i \in find_order(Head(q).id) : AppliedTo(i, Head(q))
    BY <1>7, ApplyCases
  <2>2. CASE UNCHANGED <<slots, position, ledger>>
    <3>1. \A w, d : HalfFilled(w, d) => HalfFilled(w, d)'
      BY <2>1, <2>2 DEF HalfFilled
    <3> QED
      BY <2>1, <2>2, <3>1, LedgerQuiet
  <2>3. CASE \E i \in find_order(Head(q).id) : AppliedTo(i, Head(q))
    BY <2>1, <2>3, LedgerApplied
  <2> QED
    BY <2>1, <2>2, <2>3
\* An order that is over changes no more.
<1>8. ASSUME UNCHANGED <<slots, ledger, strat, refused>>, Len(orders') = Len(orders), dropped' = {} => dropped = {},
             \A i \in 1..Len(orders) : orders[i].status = "CLOSED" => orders'[i] = orders[i]
      PROVE  LedgerKnows' /\ PendingSound'
  <2>1. \A w, d : HalfFilled(w, d) => HalfFilled(w, d)'
    BY <1>8 DEF HalfFilled
  <2> QED
    BY <1>8, <2>1, LedgerQuiet
<1>9. ASSUME NEW id \in 1..Len(orders), Accept(id) PROVE LedgerKnows' /\ PendingSound'
  <2>1. /\ UNCHANGED <<slots, ledger, strat, dropped, refused>> /\ Len(orders') = Len(orders)
        /\ \A i \in 1..Len(orders) : i # id => orders'[i] = orders[i]
    BY <1>9 DEF Accept, QueueInv, TypeOK
  <2>2. orders[id].status # "CLOSED"
    BY <1>9 DEF Accept
  <2> QED
    BY <1>8, <2>1, <2>2
<1>10. ASSUME NEW id \in 1..Len(orders), NEW u, Reported(id, u) PROVE LedgerKnows' /\ PendingSound'
  <2>1. /\ UNCHANGED <<slots, ledger, strat, refused>> /\ Len(orders') = Len(orders)
        /\ \A i \in 1..Len(orders) : i # id => orders'[i] = orders[i]
        /\ orders[id].status # "CLOSED" /\ Push(u)
    BY <1>10 DEF Reported
  <2>2. dropped' = {} => dropped = {}
    BY <2>1 DEF Push
  <2> QED
    BY <1>8, <2>1, <2>2
<1>11. CASE \E id \in 1..Len(orders) : Close(id)
  BY <1>10, <1>11, CloseReports
<1>12. CASE \E id \in 1..Len(orders) : \E n \in 1..orders[id].qty : Fill(id, n)
  BY <1>10, <1>12, FillReports
<1> QED
  BY <1>1, <1>2, <1>3, <1>4, <1>5, <1>6, <1>7, <1>9, <1>11, <1>12, Steps

\* PendingFollowsOrders: PendingTracksOpenOrders holds in every reachable state: of
\* every venue the ledger knows, what is pending on a side is what its working
\* orders can still execute, unless a full queue dropped an update (then it may
\* be more) or an order was closed half filled (then it may be less), although
\* the ledger hears of an order only when its submit returns, when fills of it
\* may be queued (position_ledger.hpp:47, :58 and :69).
THEOREM PendingFollowsOrders == Spec => []PendingTracksOpenOrders
<1> DEFINE Inv == Chained /\ LedgerKnows /\ PendingSound
<1>1. Init => Inv
  <2> SUFFICES ASSUME Init PROVE Inv
    OBVIOUS
  <2>1. \A v \in Venues : ledger[v] = Untracked /\ ~ledger[v].active
    BY DEF Init, Untracked
  <2>2. \A i \in 1..MaxSlots : ~slots[i].active
    BY DEF Init, FreeSlot
  <2> QED
    BY <2>1, <2>2 DEF Chained, LedgerKnows, PendingSound
<1>2. QueueInv /\ Inv /\ [Next]_vars => Inv'
  BY ChainStep, LedgerStep
<1>3. QueueInv /\ Inv => PendingTracksOpenOrders
  <2> SUFFICES ASSUME PendingSound PROVE PendingTracksOpenOrders
    OBVIOUS
  <2>1. \A v, side : HalfFilled(v, side) => ClosedHalfFilled(v, side)
    BY DEF HalfFilled, ClosedHalfFilled
  <2> QED
    BY <2>1 DEF PendingSound, PendingTracksOpenOrders, Tracked
<1> HIDE DEF Inv
<1> QED
  BY <1>1, <1>2, <1>3, ManagerConsistent, PTL DEF Spec

-----------------------------------------------------------------------------
(* Paper trading (ShadowConnector).  Neither of its invariants is inductive:   *)
(* that a fill keeps the sums needs to know that the order is still the one    *)
(* decided on, that it wants the quantity, and that its id has one slot.       *)

PaperInPool == [active : {TRUE}, id : ClientIds, side : BookSides, kind : Kinds, price : Prices,
                qty : Nat \ {0}, filled : Nat, queue : Nat, due : BOOLEAN, maker : BOOLEAN]
PaperAccount == [pos : Int, den : Nat \ {0}, avg : Int, realized : Int, fees : Int, cash : Int]
PaperReport == [filled : Nat, final : {"none", "FILLED", "CANCELED", "REJECTED"}]
CheckSteps == {"idle", "look", "size", "price", "cross"}

ShadowTypeOK ==
  /\ book \in [bid : Nat, ask : Nat, bidSize : Nat, askSize : Nat]
  /\ pool \in [Slots -> PaperInPool \cup {NoOrder}]
  /\ acct \in PaperAccount
  /\ check \in [at : 0..PoolSize, step : CheckSteps, qty : Nat]
  /\ nextId \in Nat
  /\ asked \in [ClientIds -> PaperOrder \cup {NotAsked}]
  /\ report \in [ClientIds -> PaperReport]

\* A side with a price has a size.
SizedBook == (book.bid > 0 => book.bidSize > 0) /\ (book.ask > 0 => book.askSize > 0)

\* An order in the pool is the one asked for, is not filled yet, and its
\* listener heard of every fill of it and of nothing else.
PoolReported ==
  \A s \in Slots : pool[s].active =>
    /\ asked[pool[s].id].side = pool[s].side /\ asked[pool[s].id].qty = pool[s].qty
    /\ report[pool[s].id] = [filled |-> pool[s].filled, final |-> "none"]
    /\ pool[s].filled < pool[s].qty

OneSlotEach == \A s, t \in Slots : pool[s].active /\ pool[t].active /\ pool[s].id = pool[t].id => s = t

\* An id to come has no order and no report.
IdsAhead == \A i \in ClientIds : i >= nextId => asked[i] = NotAsked /\ report[i] = [filled |-> 0, final |-> "none"]

\* The check holds a live order from the look to the fill, and decides on no
\* more than the order still wants.
CheckHolds ==
  /\ check.step # "idle" => check.at \in Slots
  /\ check.step \in {"size", "price", "cross"} =>
       /\ pool[check.at].active
       /\ check.qty > 0 /\ check.qty <= pool[check.at].qty - pool[check.at].filled

ShadowInv ==
  /\ ShadowTypeOK /\ SizedBook /\ PoolReported /\ OneSlotEach /\ IdsAhead /\ CheckHolds
  /\ ReportsMatchPosition /\ BooksBalance

\* The signed quantity of a fill.
Delta(side, qty) == IF side = "BID" THEN qty ELSE -qty

\* With den times everything paid and received equal to what was earned less the
\* cost of the position, the same holds after any fill.
LEMMA EntryFacts ==
  ASSUME NEW a \in PaperAccount, NEW side \in BookSides, NEW qty \in Nat \ {0}, NEW px \in Int
  PROVE  /\ Filled(a, side, qty, px) \in PaperAccount
         /\ Filled(a, side, qty, px).pos = a.pos + Delta(side, qty)
         /\ Filled(a, side, qty, px).fees = a.fees /\ Filled(a, side, qty, px).cash = a.cash
         /\ \A k \in Int : a.den * k = a.realized - a.avg * a.pos
              => Filled(a, side, qty, px).den * (k - Delta(side, qty) * px)
                   = Filled(a, side, qty, px).realized - Filled(a, side, qty, px).avg * Filled(a, side, qty, px).pos
<1> PICK b : b = Filled(a, side, qty, px)
  OBVIOUS
<1> PICK signed \in Int : signed = Delta(side, qty)
  BY DEF Delta
<1>0. /\ a.pos \in Int /\ a.den \in Nat \ {0} /\ a.den \in Int /\ a.avg \in Int /\ a.realized \in Int
      /\ a.fees \in Int /\ a.cash \in Int /\ signed \in Int /\ qty \in Int /\ signed # 0
  BY DEF PaperAccount, BookSides, Delta
<1>9. PICK d \in Int, v \in Int, r \in Int, p \in Int :
        d = a.den /\ v = a.avg /\ r = a.realized /\ p = a.pos
  BY <1>0
<1> DEFINE held == Abs(a.pos) + qty
           closing == IF Abs(a.pos) < qty THEN Abs(a.pos) ELSE qty
           pos == a.pos + signed
<1>1. CASE a.pos = 0 \/ Sign(a.pos) = Sign(signed)
  <2>1. b = [a EXCEPT !.pos = pos, !.den = @ * held, !.realized = @ * held,
                      !.avg = @ * Abs(a.pos) + px * qty * a.den]
    BY <1>1 DEF Filled, Delta
  <2>2. /\ b.pos = pos /\ b.den = a.den * held /\ b.realized = a.realized * held
        /\ b.avg = a.avg * Abs(a.pos) + px * qty * a.den /\ b.fees = a.fees /\ b.cash = a.cash
        /\ b = [pos |-> b.pos, den |-> b.den, avg |-> b.avg, realized |-> b.realized,
                fees |-> b.fees, cash |-> b.cash]
    BY <2>1 DEF PaperAccount
  <2>3. held \in Int /\ held > 0 /\ Abs(a.pos) \in Int
    BY <1>0 DEF Abs
  <2>4. /\ pos \in Int /\ a.den * held \in Nat \ {0} /\ a.realized * held \in Int
        /\ a.avg * Abs(a.pos) + px * qty * a.den \in Int
    <3> HIDE DEF held
    <3>1. \A m, n \in Int : m > 0 /\ n > 0 => m * n > 0
      OBVIOUS
    <3>2. a.den * held > 0 /\ a.den * held \in Int
      BY <1>0, <2>3, <3>1
    <3> QED
      BY <1>0, <2>3, <3>2
  <2>5. ASSUME NEW k \in Int, d * k = r - v * p
        PROVE  b.den * (k - signed * px) = b.realized - b.avg * b.pos
    <3>0. PICK h \in Int : h = held
      BY <2>3
    <3>1. CASE signed > 0
      <4>1. signed = qty /\ Abs(a.pos) = p /\ pos = h
        BY <1>0, <1>1, <1>9, <3>0, <3>1 DEF Delta, Sign, Abs
      <4>2. (d * h) * (k - qty * px) = (d * k) * h - (px * qty * d) * h
        BY <1>0
      <4>3. (d * k) * h = r * h - (v * p) * h
        <5>1. (r - v * p) * h = r * h - (v * p) * h
          OBVIOUS
        <5> QED
          BY <2>5, <5>1
      <4>4. (v * p + px * qty * d) * h = (v * p) * h + (px * qty * d) * h
        BY <1>0
      <4>5. (d * h) * (k - qty * px) = r * h - (v * p + px * qty * d) * h
        BY <1>0, <4>2, <4>3, <4>4
      <4>6. b.den = d * h /\ b.realized = r * h /\ b.avg = v * p + px * qty * d /\ b.pos = h
        BY <1>9, <2>2, <3>0, <4>1
      <4> HIDE DEF held, pos
      <4> QED
        BY <4>1, <4>5, <4>6
    <3>2. CASE signed < 0
      <4>1. signed = -qty /\ Abs(a.pos) = -p /\ pos = -h
        BY <1>0, <1>1, <1>9, <3>0, <3>2 DEF Delta, Sign, Abs
      <4>2. (d * h) * (k + qty * px) = (d * k) * h + (px * qty * d) * h
        BY <1>0
      <4>3. (d * k) * h = r * h - (v * p) * h
        <5>1. (r - v * p) * h = r * h - (v * p) * h
          OBVIOUS
        <5> QED
          BY <2>5, <5>1
      <4>4. (v * (-p) + px * qty * d) * (-h) = (v * p) * h - (px * qty * d) * h
        BY <1>0
      <4>5. (d * h) * (k + qty * px) = r * h - (v * (-p) + px * qty * d) * (-h)
        BY <1>0, <4>2, <4>3, <4>4
      <4>6. b.den = d * h /\ b.realized = r * h /\ b.avg = v * (-p) + px * qty * d /\ b.pos = -h
        BY <1>9, <2>2, <3>0, <4>1
      <4>7. k - signed * px = k + qty * px
        BY <1>0, <4>1
      <4> HIDE DEF held, pos
      <4> QED
        BY <4>5, <4>6, <4>7
    <3> QED
      BY <1>0, <3>1, <3>2
  <2>6. b \in PaperAccount
    <3> HIDE DEF held, pos
    <3> QED
      BY <1>0, <2>2, <2>4 DEF PaperAccount
  <2> QED
    BY <1>9, <2>2, <2>5, <2>6
<1>2. CASE ~(a.pos = 0 \/ Sign(a.pos) = Sign(signed))
  <2>1. b = [a EXCEPT !.pos = pos, !.realized = @ + Sign(a.pos) * (px * a.den - a.avg) * closing,
                      !.avg = IF pos = 0 THEN 0 ELSE IF Sign(pos) # Sign(a.pos) THEN px * a.den ELSE @]
    BY <1>2 DEF Filled, Delta
  <2>2. /\ b.pos = pos /\ b.den = a.den
        /\ b.realized = a.realized + Sign(a.pos) * (px * a.den - a.avg) * closing
        /\ b.avg = (IF pos = 0 THEN 0 ELSE IF Sign(pos) # Sign(a.pos) THEN px * a.den ELSE a.avg)
        /\ b.fees = a.fees /\ b.cash = a.cash
        /\ b = [pos |-> b.pos, den |-> b.den, avg |-> b.avg, realized |-> b.realized,
                fees |-> b.fees, cash |-> b.cash]
    BY <2>1 DEF PaperAccount
  <2>3. PICK gain \in Int : gain = px * a.den - a.avg
    BY <1>0
  <2>4. \/ Sign(a.pos) * closing = -signed /\ (pos = 0 \/ Sign(pos) = Sign(a.pos))
        \/ Sign(a.pos) * closing = a.pos /\ pos # 0 /\ Sign(pos) # Sign(a.pos)
    BY <1>0, <1>2 DEF Delta, Sign, Abs
  <2>5. Sign(a.pos) \in Int /\ closing \in Int
    BY <1>0 DEF Sign, Abs
  <2>6. Sign(a.pos) * gain * closing = gain * (Sign(a.pos) * closing)
    <3> HIDE DEF closing
    <3> QED
      BY <2>3, <2>5
  <2>7. b.realized = a.realized + gain * (Sign(a.pos) * closing)
    BY <2>2, <2>3, <2>6
  <2>8. b.realized \in Int /\ b.avg \in Int /\ pos \in Int /\ px * a.den \in Int
    <3>1. Sign(a.pos) * closing \in Int
      <4> HIDE DEF closing
      <4> QED
        BY <2>5
    <3>2. px * a.den \in Int /\ pos \in Int
      BY <1>0
    <3> HIDE DEF closing, pos
    <3> QED
      BY <1>0, <2>2, <2>3, <2>7, <3>1, <3>2
  <2>9. ASSUME NEW k \in Int, d * k = r - v * p
        PROVE  b.den * (k - signed * px) = b.realized - b.avg * b.pos
    <3>0. d * (k - signed * px) = d * k - px * d * signed
      BY <1>0
    <3>1. CASE Sign(a.pos) * closing = -signed /\ (pos = 0 \/ Sign(pos) = Sign(a.pos))
      <4>1. b.realized = r + (px * d - v) * (-signed)
        BY <1>9, <2>3, <2>7, <3>1
      <4>2. (px * d - v) * (-signed) = v * signed - px * d * signed
        <5>1. PICK w \in Int : w = px * d
          OBVIOUS
        <5>2. (w - v) * (-signed) = v * signed - w * signed
          OBVIOUS
        <5> QED
          BY <5>1, <5>2
      <4>3. b.avg * b.pos = v * (p + signed)
        <5>1. b.pos = p + signed /\ (b.pos = 0 \/ b.avg = v)
          BY <1>9, <2>2, <3>1
        <5>2. CASE p + signed = 0
          <6>1. b.pos = 0 /\ \A w \in Int : w * 0 = 0
            BY <5>1, <5>2
          <6>2. b.avg * b.pos = 0 /\ v * (p + signed) = 0
            BY <2>8, <5>2, <6>1
          <6> QED
            BY <6>2
        <5>3. CASE p + signed # 0
          BY <5>1, <5>3
        <5> QED
          BY <5>2, <5>3
      <4>4. v * (p + signed) = v * p + v * signed
        BY <1>0
      <4>5. d * (k - signed * px) = (r + (px * d - v) * (-signed)) - v * (p + signed)
        BY <1>0, <2>9, <3>0, <4>2, <4>4
      <4> QED
        BY <1>9, <2>2, <4>1, <4>3, <4>5
    <3>2. CASE Sign(a.pos) * closing = a.pos /\ pos # 0 /\ Sign(pos) # Sign(a.pos)
      <4>1. b.realized = r + (px * d - v) * p
        BY <1>9, <2>3, <2>7, <3>2
      <4>2. (px * d - v) * p = px * d * p - v * p
        BY <1>0
      <4>3. b.avg = px * d /\ b.pos = p + signed
        BY <1>9, <2>2, <3>2
      <4>4. (px * d) * (p + signed) = px * d * p + px * d * signed
        BY <1>0
      <4>5. d * (k - signed * px) = (r + (px * d - v) * p) - (px * d) * (p + signed)
        BY <1>0, <2>9, <3>0, <4>2, <4>4
      <4> QED
        BY <1>9, <2>2, <4>1, <4>3, <4>5
    <3> QED
      BY <2>4, <3>1, <3>2
  <2> QED
    BY <1>0, <1>9, <2>2, <2>8, <2>9 DEF PaperAccount
<1> QED
  BY <1>1, <1>2

\* The fee leaves the cash as much as it adds to the fees.
LEMMA BookedFacts ==
  ASSUME acct \in PaperAccount, BooksBalance, NEW o \in PaperInPool,
         NEW qty \in Nat \ {0}, NEW px \in Int, NEW b, b = Booked(acct, o, qty, px)
  PROVE  /\ b \in PaperAccount
         /\ b.pos = acct.pos + Delta(o.side, qty)
         /\ b.den * (b.cash + b.fees) = b.realized - b.avg * b.pos
<1> DEFINE fee == (IF o.maker THEN MakerFee ELSE TakerFee) * qty
           c == Filled(acct, o.side, qty, px)
           signed == Delta(o.side, qty)
           paid == IF o.side = "ASK" THEN px * qty ELSE -px * qty
<1>1. o.side \in BookSides /\ signed \in Int /\ qty \in Int
  BY DEF PaperInPool, BookSides, Delta
<1>2. PICK k \in Int : k = acct.cash + acct.fees
  BY DEF PaperAccount
<1>3. acct.den * k = acct.realized - acct.avg * acct.pos
  BY <1>2 DEF BooksBalance
<1>4. /\ c \in PaperAccount
      /\ c.pos = acct.pos + signed /\ c.fees = acct.fees /\ c.cash = acct.cash
      /\ c.den * (k - signed * px) = c.realized - c.avg * c.pos
  <2> HIDE DEF c, signed
  <2>1. /\ c \in PaperAccount
        /\ c.pos = acct.pos + signed /\ c.fees = acct.fees /\ c.cash = acct.cash
        /\ \A j \in Int : acct.den * j = acct.realized - acct.avg * acct.pos
              => c.den * (j - signed * px) = c.realized - c.avg * c.pos
    <3>1. c = Filled(acct, o.side, qty, px) /\ signed = Delta(o.side, qty)
      BY DEF c, signed
    <3>2. acct \in PaperAccount /\ o.side \in BookSides /\ qty \in Nat \ {0} /\ px \in Int
      BY <1>1
    <3> QED
      BY <3>1, <3>2, EntryFacts
  <2> QED
    BY <1>2, <1>3, <2>1
<1>5. fee \in Int
  <2>1. \A f \in Int : f * qty \in Int
    OBVIOUS
  <2>2. (IF o.maker THEN MakerFee ELSE TakerFee) \in Int
    BY ShadowAssumption
  <2> QED
    BY <2>1, <2>2
<1>6. paid \in Int /\ paid = -(signed * px)
  <2>1. CASE o.side = "ASK"
    BY <1>1, <2>1 DEF Delta
  <2>2. CASE o.side = "BID"
    BY <1>1, <2>2 DEF Delta
  <2> QED
    BY <1>1, <2>1, <2>2 DEF BookSides
<1>7. b = [c EXCEPT !.fees = @ + fee, !.cash = @ + paid - fee]
  BY DEF Booked
<1> HIDE DEF c, fee, paid, signed
<1>8. /\ b.fees = c.fees + fee /\ b.cash = c.cash + paid - fee
      /\ b.pos = c.pos /\ b.den = c.den /\ b.avg = c.avg /\ b.realized = c.realized
      /\ b = [pos |-> b.pos, den |-> b.den, avg |-> b.avg, realized |-> b.realized,
              fees |-> b.fees, cash |-> b.cash]
  BY <1>4, <1>7 DEF PaperAccount
<1>9. acct.fees \in Int /\ acct.cash \in Int
  BY DEF PaperAccount
<1>10. b.cash + b.fees = k - signed * px
  <2>1. PICK w \in Int : w = signed * px
    BY <1>1
  <2>2. b.cash + b.fees = (acct.cash + paid - fee) + (acct.fees + fee) /\ paid = -w
    BY <1>4, <1>6, <1>8, <2>1
  <2> QED
    BY <1>2, <1>5, <1>6, <1>9, <2>1, <2>2
<1>11. b \in PaperAccount
  <2>1. b.fees \in Int /\ b.cash \in Int
    BY <1>4, <1>5, <1>6, <1>8, <1>9
  <2>2. c.pos \in Int /\ c.den \in Nat \ {0} /\ c.avg \in Int /\ c.realized \in Int
    BY <1>4 DEF PaperAccount
  <2> QED
    BY <1>8, <2>1, <2>2 DEF PaperAccount
<1> QED
  BY <1>4, <1>8, <1>10, <1>11 DEF signed

LEMMA LiveInPool ==
  ASSUME ShadowTypeOK, NEW s \in Slots, pool[s].active
  PROVE  /\ pool[s] \in PaperInPool /\ pool[s].id \in ClientIds /\ pool[s].side \in BookSides
         /\ pool[s].kind \in Kinds /\ pool[s].price \in Prices /\ pool[s].active = TRUE
         /\ pool[s].qty \in Nat /\ pool[s].qty > 0 /\ pool[s].filled \in Nat /\ pool[s].queue \in Nat
         /\ pool[s].due \in BOOLEAN /\ pool[s].maker \in BOOLEAN
<1>1. pool[s] \in PaperInPool
  BY DEF ShadowTypeOK, NoOrder
<1>2. /\ pool[s].id \in ClientIds /\ pool[s].side \in BookSides /\ pool[s].kind \in Kinds
      /\ pool[s].price \in Prices /\ pool[s].qty \in Nat \ {0} /\ pool[s].filled \in Nat
      /\ pool[s].queue \in Nat
  BY <1>1 DEF PaperInPool
<1>3. pool[s].due \in BOOLEAN /\ pool[s].maker \in BOOLEAN /\ pool[s].active = TRUE
  BY <1>1, Zenon DEF PaperInPool
<1> QED
  BY <1>1, <1>2, <1>3

LEMMA ReportSet ==
  ASSUME NEW r \in PaperReport, NEW n, NEW f
  PROVE  [r EXCEPT !.filled = n, !.final = f] = [filled |-> n, final |-> f]
<1>1. PICK g : g = [r EXCEPT !.filled = n, !.final = f]
  OBVIOUS
<1>2. g.filled = n /\ g.final = f /\ g = [filled |-> g.filled, final |-> g.final]
  BY <1>1 DEF PaperReport
<1> QED
  BY <1>1, <1>2

LEMMA InPoolSet ==
  ASSUME NEW p \in PaperInPool, NEW n \in Nat
  PROVE  [p EXCEPT !.filled = n] \in PaperInPool /\ [p EXCEPT !.queue = n] \in PaperInPool
BY Zenon DEF PaperInPool

LEMMA AskedFacts ==
  ASSUME ShadowTypeOK, NEW i \in ClientIds
  PROVE  /\ asked[i].side \in BookSides /\ asked[i].qty \in Nat
         /\ report[i] \in PaperReport /\ report[i].filled \in Nat /\ SignedFill(i) \in Int
<1>1. asked[i] \in PaperOrder \/ asked[i] = NotAsked
  BY DEF ShadowTypeOK
<1>2. asked[i].side \in BookSides /\ asked[i].qty \in Nat
  <2>1. CASE asked[i] \in PaperOrder
    <3>1. asked[i] \in [id : ClientIds, side : BookSides, kind : Kinds, price : Prices, qty : PaperQuantities]
      BY <2>1 DEF PaperOrder
    <3>2. PaperQuantities \subseteq Nat
      BY ShadowAssumption
    <3> QED
      BY <3>1, <3>2
  <2>2. CASE asked[i] = NotAsked
    BY <2>2 DEF NotAsked, BookSides
  <2> QED
    BY <1>1, <2>1, <2>2
<1>3. report[i] \in PaperReport /\ report[i].filled \in Nat
  BY DEF ShadowTypeOK, PaperReport
<1> QED
  BY <1>2, <1>3 DEF SignedFill

\* A step that reports no fill and keeps what was asked keeps the sum.
LEMMA NothingFilled ==
  ASSUME ShadowInv, UNCHANGED <<acct, asked>>, \A i \in ClientIds : report'[i].filled = report[i].filled
  PROVE  acct'.pos = SumFunction([i \in ClientIds |-> SignedFill(i)'])
<1> DEFINE e == [i \in ClientIds |-> SignedFill(i)]
           f == [i \in ClientIds |-> SignedFill(i)']
<1>1. \A i \in ClientIds : e[i] = f[i]
  BY DEF SignedFill
<1>2. DOMAIN e = ClientIds /\ DOMAIN f = ClientIds /\ acct.pos = SumFunction(e)
  BY DEF ShadowInv, ReportsMatchPosition
<1> HIDE DEF e, f
<1>3. SumFunction(f) = SumFunction(e)
  BY <1>1, <1>2, SumEqual, ShadowAssumption
<1> QED
  BY <1>2, <1>3 DEF f

\* Where the check is after it has left a slot.
CheckMoved ==
  /\ check' \in [at : 0..PoolSize, step : CheckSteps, qty : Nat]
  /\ check'.step \in {"idle", "look"} /\ (check'.step # "idle" => check'.at \in Slots)

LEMMA IdleMoved == check' = Idle => CheckMoved
BY ShadowAssumption DEF CheckMoved, Idle, CheckSteps

LEMMA AdvanceMoved == ASSUME ShadowTypeOK, check.at \in Slots, Advance PROVE CheckMoved
<1>1. check' = Idle \/ (check.at # PoolSize /\ check' = [at |-> check.at + 1, step |-> "look", qty |-> 0])
  BY DEF Advance
<1>2. ASSUME check.at # PoolSize, check' = [at |-> check.at + 1, step |-> "look", qty |-> 0]
      PROVE  CheckMoved
  BY <1>2, ShadowAssumption DEF CheckMoved, Slots, CheckSteps
<1> QED
  BY <1>1, <1>2, IdleMoved

\* A fill of an order in the pool, booked and reported.
LEMMA BookFillInv ==
  ASSUME ShadowInv, NEW s \in Slots, pool[s].active, NEW qty \in Nat \ {0},
         qty <= pool[s].qty - pool[s].filled, NEW px \in Int,
         BookFill(s, pool[s], qty, px), UNCHANGED <<book, nextId, asked>>, CheckMoved
  PROVE  ShadowInv'
<1> DEFINE o == pool[s]
<1>0. ShadowTypeOK /\ PoolReported /\ OneSlotEach /\ IdsAhead /\ BooksBalance /\ ReportsMatchPosition
  BY DEF ShadowInv
<1>1. /\ o \in PaperInPool /\ o.id \in ClientIds /\ o.side \in BookSides
      /\ o.qty \in Nat /\ o.filled \in Nat /\ o.active = TRUE
  BY <1>0, LiveInPool
<1>2. /\ asked[o.id].side = o.side /\ asked[o.id].qty = o.qty
      /\ report[o.id] = [filled |-> o.filled, final |-> "none"] /\ o.filled < o.qty
  BY <1>0 DEF PoolReported
<1>3. /\ pool' = [pool EXCEPT ![s] = IF o.filled + qty < o.qty THEN [o EXCEPT !.filled = @ + qty] ELSE NoOrder]
      /\ acct' = Booked(acct, o, qty, px)
      /\ report' = [report EXCEPT ![o.id].filled = @ + qty,
                                  ![o.id].final = IF o.filled + qty >= o.qty THEN "FILLED" ELSE @]
  BY DEF BookFill
<1>4. /\ acct' \in PaperAccount /\ acct'.pos = acct.pos + Delta(o.side, qty)
      /\ acct'.den * (acct'.cash + acct'.fees) = acct'.realized - acct'.avg * acct'.pos
  BY <1>0, <1>1, <1>3, BookedFacts DEF ShadowTypeOK
<1>5. /\ report' \in [ClientIds -> PaperReport]
      /\ report'[o.id] = [filled |-> o.filled + qty,
                          final |-> IF o.filled + qty >= o.qty THEN "FILLED" ELSE "none"]
      /\ \A i \in ClientIds : i # o.id => report'[i] = report[i]
  <2>1. report' = [report EXCEPT ![o.id] = [filled |-> o.filled + qty,
                                 final |-> IF o.filled + qty >= o.qty THEN "FILLED" ELSE "none"]]
    <3> HIDE DEF o
    <3>1. report \in [ClientIds -> PaperReport]
      BY <1>0 DEF ShadowTypeOK
    <3>2. report' = [report EXCEPT ![o.id] = [report[o.id] EXCEPT !.filled = @ + qty,
                                   !.final = IF o.filled + qty >= o.qty THEN "FILLED" ELSE @]]
      BY <1>1, <1>3, <3>1
    <3>3. [report[o.id] EXCEPT !.filled = @ + qty, !.final = IF o.filled + qty >= o.qty THEN "FILLED" ELSE @]
            = [filled |-> o.filled + qty, final |-> IF o.filled + qty >= o.qty THEN "FILLED" ELSE "none"]
      <4>1. report[o.id] \in PaperReport /\ report[o.id].filled = o.filled /\ report[o.id].final = "none"
        BY <1>1, <1>2, <3>1
      <4> QED
        <5> DEFINE final == IF o.filled + qty >= o.qty THEN "FILLED" ELSE "none"
        <5>1. [report[o.id] EXCEPT !.filled = o.filled + qty, !.final = final]
                = [filled |-> o.filled + qty, final |-> final]
          <6> HIDE DEF final
          <6> QED
            BY <4>1, ReportSet
        <5> QED
          BY <4>1, <5>1
    <3> QED
      BY <3>2, <3>3
  <2>2. report \in [ClientIds -> PaperReport]
    BY <1>0 DEF ShadowTypeOK
  <2>3. [filled |-> o.filled + qty, final |-> IF o.filled + qty >= o.qty THEN "FILLED" ELSE "none"] \in PaperReport
    BY <1>1 DEF PaperReport
  <2> QED
    BY <1>1, <2>1, <2>2, <2>3
<1>6. /\ pool' \in [Slots -> PaperInPool \cup {NoOrder}]
      /\ \A t \in Slots : t # s => pool'[t] = pool[t]
      /\ o.filled + qty < o.qty => /\ pool'[s].active /\ pool'[s].id = o.id /\ pool'[s].side = o.side
                                   /\ pool'[s].qty = o.qty /\ pool'[s].filled = o.filled + qty
      /\ o.filled + qty >= o.qty => ~pool'[s].active
  <2>1. pool \in [Slots -> PaperInPool \cup {NoOrder}]
    BY <1>0 DEF ShadowTypeOK
  <2>2. CASE o.filled + qty < o.qty
    <3>1. pool' = [pool EXCEPT ![s] = [o EXCEPT !.filled = o.filled + qty]]
      BY <1>3, <2>2
    <3>2. [o EXCEPT !.filled = o.filled + qty] \in PaperInPool
      <4> HIDE DEF o
      <4>1. o \in PaperInPool /\ o.filled + qty \in Nat
        BY <1>1
      <4> QED
        BY <4>1, InPoolSet, Zenon
    <3>3. /\ [o EXCEPT !.filled = o.filled + qty].active /\ [o EXCEPT !.filled = o.filled + qty].id = o.id
          /\ [o EXCEPT !.filled = o.filled + qty].side = o.side /\ [o EXCEPT !.filled = o.filled + qty].qty = o.qty
          /\ [o EXCEPT !.filled = o.filled + qty].filled = o.filled + qty
      BY <1>1 DEF PaperInPool
    <3> HIDE DEF o
    <3> QED
      BY <1>1, <2>1, <2>2, <3>1, <3>2, <3>3
  <2>3. CASE o.filled + qty >= o.qty
    <3>1. pool' = [pool EXCEPT ![s] = NoOrder]
      <4> HIDE DEF o
      <4>1. ~(o.filled + qty < o.qty)
        BY <1>1, <2>3
      <4> QED
        BY <1>3, <4>1
    <3> QED
      BY <1>1, <2>1, <2>3, <3>1 DEF NoOrder
  <2> QED
    BY <1>1, <2>2, <2>3
<1>7. o.filled + qty >= o.qty \/ o.filled + qty < o.qty
  BY <1>1
<1>8. \A t \in Slots : pool[t].active /\ pool[t].id = o.id => t = s
  BY <1>0 DEF OneSlotEach
<1>9. \A t \in Slots : pool'[t].active => pool[t].active /\ pool[t].id = pool'[t].id
  BY <1>6, <1>7
<1>10. \A t \in Slots : pool'[t].active => pool'[t].id \in ClientIds /\ (t # s => pool'[t].id # o.id)
  BY <1>0, <1>1, <1>8, <1>9, LiveInPool
<1> HIDE DEF o
<1>11. ShadowTypeOK' /\ SizedBook' /\ IdsAhead' /\ CheckHolds'
  <2>1. ShadowTypeOK'
    BY <1>0, <1>4, <1>5, <1>6 DEF ShadowTypeOK, CheckMoved
  <2>2. IdsAhead'
    <3> SUFFICES ASSUME NEW i \in ClientIds, i >= nextId
                 PROVE  asked[i] = NotAsked /\ report'[i] = [filled |-> 0, final |-> "none"]
      BY DEF IdsAhead
    <3>1. asked[i] = NotAsked /\ report[i] = [filled |-> 0, final |-> "none"]
      BY <1>0 DEF IdsAhead
    <3>2. i # o.id
      BY <1>1, <1>2, <3>1 DEF NotAsked
    <3> QED
      BY <1>5, <3>1, <3>2
  <2> QED
    BY <2>1, <2>2 DEF SizedBook, CheckHolds, CheckMoved, ShadowInv
<1>12. PoolReported' /\ OneSlotEach'
  <2>1. ASSUME NEW t \in Slots, pool'[t].active
        PROVE  /\ asked[pool'[t].id].side = pool'[t].side /\ asked[pool'[t].id].qty = pool'[t].qty
               /\ report'[pool'[t].id] = [filled |-> pool'[t].filled, final |-> "none"]
               /\ pool'[t].filled < pool'[t].qty
    <3>1. CASE t = s
      <4>1. o.filled + qty < o.qty
        BY <1>6, <1>7, <2>1, <3>1
      <4>2. /\ pool'[t].id = o.id /\ pool'[t].side = o.side /\ pool'[t].qty = o.qty
            /\ pool'[t].filled = o.filled + qty
        BY <1>6, <3>1, <4>1
      <4>3. report'[o.id] = [filled |-> o.filled + qty, final |-> "none"]
        BY <1>1, <1>5, <4>1
      <4> QED
        BY <1>2, <4>1, <4>2, <4>3
    <3>2. CASE t # s
      <4>1. pool'[t] = pool[t] /\ pool'[t].id # o.id /\ pool'[t].id \in ClientIds
        BY <1>6, <1>10, <2>1, <3>2
      <4>2. report'[pool'[t].id] = report[pool[t].id]
        BY <1>5, <4>1
      <4> QED
        BY <1>0, <2>1, <4>1, <4>2 DEF PoolReported
    <3> QED
      BY <3>1, <3>2
  <2>2. PoolReported'
    BY <2>1 DEF PoolReported
  <2>3. OneSlotEach'
    BY <1>0, <1>9 DEF OneSlotEach
  <2> QED
    BY <2>2, <2>3
<1>13. acct'.pos = SumFunction([i \in ClientIds |-> SignedFill(i)'])
  <2> DEFINE e == [i \in ClientIds |-> SignedFill(i)]
             f == [i \in ClientIds |-> SignedFill(i)']
  <2>1. \A i \in ClientIds : e[i] \in Int /\ f[i] \in Int
    <3> SUFFICES ASSUME NEW i \in ClientIds PROVE SignedFill(i) \in Int /\ SignedFill(i)' \in Int
      OBVIOUS
    <3>1. report'[i].filled \in Nat
      BY <1>5 DEF PaperReport
    <3> QED
      BY <1>0, <3>1, AskedFacts DEF SignedFill
  <2>2. \A i \in ClientIds \ {o.id} : e[i] = f[i]
    BY <1>5 DEF SignedFill
  <2>3. f[o.id] = e[o.id] + Delta(o.side, qty)
    <3>1. e[o.id] = IF o.side = "ASK" THEN -o.filled ELSE o.filled
      BY <1>1, <1>2 DEF SignedFill
    <3>2. f[o.id] = IF o.side = "ASK" THEN -(o.filled + qty) ELSE o.filled + qty
      BY <1>1, <1>2, <1>5 DEF SignedFill
    <3> HIDE DEF e, f
    <3> QED
      BY <1>1, <3>1, <3>2 DEF Delta, BookSides
  <2>4. DOMAIN e = ClientIds /\ DOMAIN f = ClientIds /\ acct.pos = SumFunction(e)
    BY <1>0 DEF ReportsMatchPosition
  <2> HIDE DEF e, f
  <2>5. SumFunction(f) = SumFunction(e) - e[o.id] + f[o.id]
    <3>1. IsFiniteSet(ClientIds)
      BY ShadowAssumption
    <3> QED
      BY <1>1, <2>1, <2>2, <2>4, <3>1, SumMoved
  <2>6. SumFunction(e) \in Int /\ e[o.id] \in Int /\ Delta(o.side, qty) \in Int
    <3>1. IsFiniteSet(ClientIds)
      BY ShadowAssumption
    <3>2. SumFunction(e) \in Int
      BY <2>1, <2>4, <3>1, SumInt
    <3>3. Delta(o.side, qty) \in Int
      BY DEF Delta
    <3> QED
      BY <1>1, <2>1, <3>2, <3>3
  <2>7. SumFunction(f) = acct.pos + Delta(o.side, qty)
    BY <2>3, <2>4, <2>5, <2>6
  <2> QED
    BY <1>4, <2>7 DEF f
<1>14. ASSUME NEW i \in ClientIds, asked[i].qty > 0
       PROVE  report'[i].filled <= asked[i].qty /\ (InPool(i)' <=> report'[i].final = "none")
  <2>1. report[i].filled <= asked[i].qty /\ (InPool(i) <=> report[i].final = "none")
    BY <1>0, <1>14 DEF ReportsMatchPosition
  <2>2. CASE i = o.id
    <3>1. report'[i].filled <= asked[i].qty
      BY <1>1, <1>2, <1>5, <2>2 DEF o
    <3>2. InPool(i)' <=> o.filled + qty < o.qty
      <4>1. InPool(i)' => pool'[s].active
        BY <1>8, <1>9, <2>2 DEF InPool
      <4> QED
        BY <1>1, <1>6, <1>7, <2>2, <4>1 DEF InPool
    <3> QED
      BY <1>1, <1>5, <2>2, <3>1, <3>2
  <2>3. CASE i # o.id
    <3>1. report'[i] = report[i]
      BY <1>5, <2>3
    <3>2. \A t \in Slots : (pool'[t].active /\ pool'[t].id = i) <=> (pool[t].active /\ pool[t].id = i)
      <4> SUFFICES ASSUME NEW t \in Slots
                   PROVE  (pool'[t].active /\ pool'[t].id = i) <=> (pool[t].active /\ pool[t].id = i)
        OBVIOUS
      <4>1. CASE t = s
        BY <1>9, <2>3, <4>1 DEF o
      <4>2. CASE t # s
        BY <1>6, <4>2
      <4> QED
        BY <4>1, <4>2
    <3> QED
      BY <2>1, <3>1, <3>2 DEF InPool
  <2> QED
    BY <2>2, <2>3
<1>15. ReportsMatchPosition'
  BY <1>13, <1>14 DEF ReportsMatchPosition
<1>16. BooksBalance'
  BY <1>4 DEF BooksBalance
<1> QED
  BY <1>11, <1>12, <1>15, <1>16 DEF ShadowInv

\* Orders leave the pool with a last report and without a fill.
LEMMA EndedInv ==
  ASSUME ShadowInv, NEW gone \in SUBSET Slots, \A s \in gone : pool[s].active,
         NEW final \in {"CANCELED", "REJECTED"},
         pool' \in [Slots -> PaperInPool \cup {NoOrder}],
         \A t \in Slots : pool'[t] = IF t \in gone THEN NoOrder ELSE pool[t],
         report' \in [ClientIds -> PaperReport],
         \A i \in ClientIds : report'[i] = IF \E s \in gone : pool[s].id = i
                                           THEN [report[i] EXCEPT !.final = final] ELSE report[i],
         UNCHANGED <<book, acct, nextId, asked>>, CheckMoved
  PROVE  ShadowInv'
<1>0. ShadowTypeOK /\ PoolReported /\ OneSlotEach /\ IdsAhead /\ BooksBalance /\ ReportsMatchPosition
  BY DEF ShadowInv
<1>1. \A t \in Slots : pool'[t].active => t \notin gone /\ pool'[t] = pool[t] /\ pool[t].active
  BY DEF NoOrder
<1>2. \A t \in Slots : t \notin gone => pool'[t] = pool[t]
  OBVIOUS
<1>3. ASSUME NEW t \in Slots, pool'[t].active, NEW s \in gone PROVE pool[s].id # pool[t].id
  BY <1>0, <1>1, <1>3 DEF OneSlotEach
<1>4. \A i \in ClientIds : report'[i].filled = report[i].filled
  BY <1>0 DEF ShadowTypeOK, PaperReport
<1>5. \A i \in ClientIds : (\E s \in gone : pool[s].id = i) => report'[i].final = final
  BY <1>0 DEF ShadowTypeOK, PaperReport
<1>6. \A i \in ClientIds : ~(\E s \in gone : pool[s].id = i) => report'[i] = report[i]
  OBVIOUS
<1>7. ShadowTypeOK' /\ SizedBook' /\ CheckHolds'
  BY <1>0 DEF ShadowInv, ShadowTypeOK, SizedBook, CheckHolds, CheckMoved
<1>8. PoolReported'
  <2> SUFFICES ASSUME NEW t \in Slots, pool'[t].active
               PROVE  /\ asked[pool'[t].id].side = pool'[t].side /\ asked[pool'[t].id].qty = pool'[t].qty
                      /\ report'[pool'[t].id] = [filled |-> pool'[t].filled, final |-> "none"]
                      /\ pool'[t].filled < pool'[t].qty
    BY DEF PoolReported
  <2>1. pool'[t] = pool[t] /\ pool[t].active /\ pool[t].id \in ClientIds
    BY <1>0, <1>1, LiveInPool
  <2>2. report'[pool[t].id] = report[pool[t].id]
    BY <1>3, <1>6, <2>1
  <2>3. /\ asked[pool[t].id].side = pool[t].side /\ asked[pool[t].id].qty = pool[t].qty
        /\ report[pool[t].id] = [filled |-> pool[t].filled, final |-> "none"]
        /\ pool[t].filled < pool[t].qty
    BY <1>0, <2>1 DEF PoolReported
  <2> QED
    BY <2>1, <2>2, <2>3
<1>9. OneSlotEach'
  BY <1>0, <1>1 DEF OneSlotEach
<1>10. IdsAhead'
  <2> SUFFICES ASSUME NEW i \in ClientIds, i >= nextId
               PROVE  asked[i] = NotAsked /\ report'[i] = [filled |-> 0, final |-> "none"]
    BY DEF IdsAhead
  <2>1. asked[i] = NotAsked /\ report[i] = [filled |-> 0, final |-> "none"]
    BY <1>0 DEF IdsAhead
  <2>2. ASSUME NEW s \in gone PROVE pool[s].id # i
    <3>1. asked[pool[s].id].qty = pool[s].qty /\ pool[s].qty > 0 /\ pool[s].qty \in Nat
      BY <1>0, LiveInPool DEF PoolReported
    <3> QED
      BY <2>1, <3>1 DEF NotAsked
  <2> QED
    BY <1>6, <2>1, <2>2
<1>11. acct'.pos = SumFunction([i \in ClientIds |-> SignedFill(i)'])
  BY <1>4, NothingFilled
<1>12. ASSUME NEW i \in ClientIds, asked[i].qty > 0
       PROVE  report'[i].filled <= asked[i].qty /\ (InPool(i)' <=> report'[i].final = "none")
  <2>1. report[i].filled <= asked[i].qty /\ (InPool(i) <=> report[i].final = "none")
    BY <1>0, <1>12 DEF ReportsMatchPosition
  <2>2. CASE \E s \in gone : pool[s].id = i
    <3>1. report'[i].final # "none"
      BY <1>5, <2>2
    <3>2. ~InPool(i)'
      BY <1>1, <1>3, <2>2 DEF InPool
    <3> QED
      BY <1>4, <2>1, <3>1, <3>2
  <2>3. CASE ~(\E s \in gone : pool[s].id = i)
    <3>1. report'[i] = report[i]
      BY <1>6, <2>3
    <3>2. InPool(i)' <=> InPool(i)
      BY <1>1, <1>2, <2>3 DEF InPool
    <3> QED
      BY <2>1, <3>1, <3>2
  <2> QED
    BY <2>2, <2>3
<1>13. ReportsMatchPosition'
  BY <1>11, <1>12 DEF ReportsMatchPosition
<1>14. BooksBalance'
  BY <1>0 DEF BooksBalance
<1> QED
  BY <1>7, <1>8, <1>9, <1>10, <1>13, <1>14 DEF ShadowInv

LEMMA CloseOrderInv ==
  ASSUME ShadowInv, NEW s \in Slots, pool[s].active, NEW final \in {"CANCELED", "REJECTED"},
         CloseOrder(s, pool[s], final), UNCHANGED <<book, nextId, asked>>, CheckMoved
  PROVE  ShadowInv'
<1>0. ShadowTypeOK
  BY DEF ShadowInv
<1>1. pool[s].id \in ClientIds
  BY <1>0, LiveInPool
<1>2. pool' = [pool EXCEPT ![s] = NoOrder] /\ report' = [report EXCEPT ![pool[s].id].final = final] /\ acct' = acct
  BY DEF CloseOrder
<1>3. /\ pool' \in [Slots -> PaperInPool \cup {NoOrder}]
      /\ \A t \in Slots : pool'[t] = IF t \in {s} THEN NoOrder ELSE pool[t]
  BY <1>0, <1>2 DEF ShadowTypeOK
<1>4. /\ report' \in [ClientIds -> PaperReport]
      /\ \A i \in ClientIds : report'[i] = IF \E t \in {s} : pool[t].id = i
                                           THEN [report[i] EXCEPT !.final = final] ELSE report[i]
  <2>1. report \in [ClientIds -> PaperReport]
    BY <1>0 DEF ShadowTypeOK
  <2>2. [report[pool[s].id] EXCEPT !.final = final] \in PaperReport
    BY <1>1, <2>1 DEF PaperReport
  <2>3. report' = [report EXCEPT ![pool[s].id] = [report[pool[s].id] EXCEPT !.final = final]]
    BY <1>1, <1>2, <2>1
  <2> QED
    BY <1>1, <2>1, <2>2, <2>3
<1>5. PICK gone \in SUBSET Slots : gone = {s}
  OBVIOUS
<1>6. /\ \A t \in gone : pool[t].active
      /\ \A t \in Slots : pool'[t] = IF t \in gone THEN NoOrder ELSE pool[t]
      /\ \A i \in ClientIds : report'[i] = IF \E t \in gone : pool[t].id = i
                                           THEN [report[i] EXCEPT !.final = final] ELSE report[i]
  BY <1>3, <1>4, <1>5
<1>7. UNCHANGED <<book, acct, nextId, asked>>
  BY <1>2
<1> QED
  BY <1>3, <1>4, <1>6, <1>7, EndedInv

\* What is asked of an order in the pool stays, and nothing is reported.
LEMMA QuietShadowInv ==
  ASSUME ShadowInv, UNCHANGED <<acct, asked, report>>,
         nextId' \in Nat, nextId' >= nextId,
         book' \in [bid : Nat, ask : Nat, bidSize : Nat, askSize : Nat], SizedBook',
         check' \in [at : 0..PoolSize, step : CheckSteps, qty : Nat], CheckHolds',
         pool' \in [Slots -> PaperInPool \cup {NoOrder}],
         \A t \in Slots : /\ pool'[t].active <=> pool[t].active
                          /\ pool[t].active => /\ pool'[t].id = pool[t].id /\ pool'[t].side = pool[t].side
                                               /\ pool'[t].qty = pool[t].qty /\ pool'[t].filled = pool[t].filled
  PROVE  ShadowInv'
<1>0. ShadowTypeOK /\ PoolReported /\ OneSlotEach /\ IdsAhead /\ BooksBalance /\ ReportsMatchPosition
  BY DEF ShadowInv
<1>1. ShadowTypeOK'
  BY <1>0 DEF ShadowTypeOK
<1>2. PoolReported' /\ OneSlotEach'
  <2>1. PoolReported'
    BY <1>0 DEF PoolReported
  <2>2. OneSlotEach'
    BY <1>0 DEF OneSlotEach
  <2> QED
    BY <2>1, <2>2
<1>3. IdsAhead'
  <2>1. nextId \in Nat /\ ClientIds \subseteq Nat
    BY <1>0, ShadowAssumption DEF ShadowTypeOK
  <2> QED
    <3> SUFFICES ASSUME NEW i \in ClientIds, i >= nextId'
                 PROVE  asked[i] = NotAsked /\ report[i] = [filled |-> 0, final |-> "none"]
      BY DEF IdsAhead
    <3>1. i >= nextId
      BY <2>1
    <3> QED
      BY <1>0, <3>1 DEF IdsAhead
<1>4. acct'.pos = SumFunction([i \in ClientIds |-> SignedFill(i)'])
  BY NothingFilled
<1>5. \A i \in ClientIds : InPool(i)' <=> InPool(i)
  BY DEF InPool
<1>6. \A i \in ClientIds : asked[i].qty > 0 =>
        report'[i].filled <= asked'[i].qty /\ (InPool(i)' <=> report'[i].final = "none")
  BY <1>0, <1>5 DEF ReportsMatchPosition
<1>7. ReportsMatchPosition'
  BY <1>4, <1>6 DEF ReportsMatchPosition
<1>8. BooksBalance'
  BY <1>0 DEF BooksBalance
<1> QED
  BY <1>1, <1>2, <1>3, <1>7, <1>8 DEF ShadowInv

LEMMA FillAtBestInv ==
  ASSUME ShadowInv, NEW s \in Slots, pool[s].active, NEW qty \in Nat \ {0},
         qty <= pool[s].qty - pool[s].filled,
         FillAtBest(s, pool[s], qty), UNCHANGED <<book, nextId, asked>>, CheckMoved
  PROVE  ShadowInv'
<1>0. ShadowTypeOK /\ SizedBook
  BY DEF ShadowInv
<1> DEFINE side == pool[s].side
           slip == (Impact * qty) \div OppositeSize(side)
           px == IF side = "BID" THEN book.ask + slip ELSE book.bid - slip
<1>1. side \in BookSides
  BY <1>0, LiveInPool
<1>2. CASE Opposite(side) > 0 /\ BookFill(s, pool[s], qty, px)
  <2>1. /\ OppositeSize(side) \in Nat /\ OppositeSize(side) > 0
        /\ book.ask \in Int /\ book.bid \in Int
    BY <1>0, <1>1, <1>2 DEF ShadowTypeOK, SizedBook, Opposite, OppositeSize, BookSides
  <2>2. Impact * qty \in Nat
    <3>1. Impact \in Nat
      BY ShadowAssumption
    <3> QED
      BY <3>1
  <2>3. slip \in Int
    <3>1. \A m \in Nat, n \in Nat : n > 0 => m \div n \in Int
      OBVIOUS
    <3> QED
      BY <2>1, <2>2, <3>1
  <2>4. px \in Int
    <3> HIDE DEF slip, side
    <3> QED
      BY <2>1, <2>3
  <2> HIDE DEF px
  <2> QED
    BY <1>2, <2>4, BookFillInv
<1>3. CASE CloseOrder(s, pool[s], "REJECTED")
  BY <1>3, CloseOrderInv
<1> QED
  BY <1>2, <1>3 DEF FillAtBest

LEMMA FirstFree == ASSUME Free # {} PROVE Min(Free) \in Slots /\ ~pool[Min(Free)].active
<1>1. Free \subseteq Nat
  BY ShadowAssumption DEF Free, Slots
<1>2. PICK m \in Free : \A j \in Free : ~(<<j, m>> \in OpToRel(<, Nat))
  BY <1>1, NatLessThanWellFounded, WFMin
<1>3. ASSUME NEW j \in Free PROVE m <= j
  <2>1. j \in Nat /\ m \in Nat
    BY <1>1
  <2>2. ~(j < m)
    BY <1>2, <2>1 DEF OpToRel
  <2> QED
    BY <2>1, <2>2
<1>4. Min(Free) \in Free
  BY <1>3 DEF Min
<1> QED
  BY <1>4 DEF Free

LEMMA SubmitOrderInv ==
  ASSUME ShadowInv, NEW r \in PaperOrder, submit_order(r)
  PROVE  ShadowInv'
<1>0. ShadowTypeOK /\ PoolReported /\ OneSlotEach /\ IdsAhead /\ BooksBalance /\ ReportsMatchPosition
  BY DEF ShadowInv
<1>1. /\ check = Idle /\ r.id = nextId /\ nextId' = nextId + 1 /\ Free # {}
      /\ asked' = [asked EXCEPT ![r.id] = r] /\ UNCHANGED <<book, acct, report>>
  BY DEF submit_order
<1>2. PICK s \in Slots, due \in BOOLEAN, queue \in {0, 1}, crosses \in BOOLEAN :
        /\ ~pool[s].active
        /\ pool' = [pool EXCEPT ![s] = Placed(r, queue, due, ~crosses)]
        /\ check' = IF crosses THEN [at |-> s, step |-> "cross", qty |-> r.qty] ELSE Idle
  <2>1. PICK due \in BOOLEAN, queue \in {0, 1} :
          LET s == Min(Free)
              crosses == due /\ Fillable(r)
          IN  /\ pool' = [pool EXCEPT ![s] = Placed(r, queue, due, ~crosses)]
              /\ check' = IF crosses THEN [at |-> s, step |-> "cross", qty |-> r.qty] ELSE Idle
    BY DEF submit_order
  <2>2. Min(Free) \in Slots /\ ~pool[Min(Free)].active
    BY <1>1, FirstFree
  <2>3. PICK s \in Slots : s = Min(Free)
    BY <2>2
  <2>4. (due /\ Fillable(r)) \in BOOLEAN
    OBVIOUS
  <2>5. PICK crosses \in BOOLEAN : crosses = (due /\ Fillable(r))
    BY <2>4
  <2>6. /\ ~pool[s].active
        /\ pool' = [pool EXCEPT ![s] = Placed(r, queue, due, ~crosses)]
        /\ check' = IF crosses THEN [at |-> s, step |-> "cross", qty |-> r.qty] ELSE Idle
    BY <2>1, <2>2, <2>3, <2>5
  <2> QED
    BY <2>6
<1>3. /\ r.id \in ClientIds /\ r.side \in BookSides /\ r.kind \in Kinds /\ r.price \in Prices
      /\ r.qty \in Nat \ {0}
  <2>1. r \in [id : ClientIds, side : BookSides, kind : Kinds, price : Prices, qty : PaperQuantities]
    BY DEF PaperOrder
  <2>2. PaperQuantities \subseteq Nat \ {0}
    BY ShadowAssumption
  <2> QED
    BY <2>1, <2>2
<1> DEFINE new == Placed(r, queue, due, ~crosses)
<1>4. new \in PaperInPool
  <2>1. (~crosses) \in BOOLEAN
    OBVIOUS
  <2>2. PICK maker \in BOOLEAN : maker = ~crosses
    BY <2>1
  <2>3. queue \in Nat /\ 0 \in Nat
    OBVIOUS
  <2> QED
    <3>1. new = [active |-> TRUE, id |-> r.id, side |-> r.side, kind |-> r.kind, price |-> r.price,
                 qty |-> r.qty, filled |-> 0, queue |-> queue, due |-> due, maker |-> maker]
      BY <2>2 DEF Placed
    <3> HIDE DEF new
    <3> QED
      BY <1>3, <2>3, <3>1, Zenon DEF PaperInPool
<1>5. /\ new.active /\ new.id = r.id /\ new.side = r.side /\ new.qty = r.qty /\ new.filled = 0
  BY DEF Placed
<1> HIDE DEF new
<1>6. /\ pool' \in [Slots -> PaperInPool \cup {NoOrder}] /\ pool'[s] = new
      /\ \A t \in Slots : t # s => pool'[t] = pool[t]
  <2>1. pool' = [pool EXCEPT ![s] = new] /\ pool \in [Slots -> PaperInPool \cup {NoOrder}]
    BY <1>0, <1>2 DEF ShadowTypeOK, new
  <2> QED
    BY <1>4, <2>1
<1>7. /\ asked' \in [ClientIds -> PaperOrder \cup {NotAsked}] /\ asked'[r.id] = r
      /\ \A i \in ClientIds : i # r.id => asked'[i] = asked[i]
  <2>1. asked \in [ClientIds -> PaperOrder \cup {NotAsked}]
    BY <1>0 DEF ShadowTypeOK
  <2> QED
    BY <1>1, <1>3, <2>1
<1>8. asked[r.id] = NotAsked /\ report[r.id] = [filled |-> 0, final |-> "none"] /\ nextId \in Nat
  <2>1. nextId \in Nat
    BY <1>0 DEF ShadowTypeOK
  <2>2. r.id >= nextId
    BY <1>1, <2>1
  <2> QED
    BY <1>0, <1>3, <2>1, <2>2 DEF IdsAhead
<1>9. ASSUME NEW t \in Slots, pool[t].active PROVE t # s /\ pool[t].id # r.id /\ pool[t].id \in ClientIds
  <2>1. /\ asked[pool[t].id].qty = pool[t].qty /\ pool[t].qty > 0 /\ pool[t].qty \in Nat
        /\ pool[t].id \in ClientIds
    BY <1>0, <1>9, LiveInPool DEF PoolReported
  <2>2. pool[t].id # r.id
    BY <1>8, <2>1 DEF NotAsked
  <2> QED
    BY <1>2, <1>9, <2>1, <2>2
<1>10. check' \in [at : 0..PoolSize, step : CheckSteps, qty : Nat] /\ CheckHolds'
  <2>1. CASE crosses
    <3>1. check' = [at |-> s, step |-> "cross", qty |-> r.qty]
      BY <1>2, <2>1
    <3>2. check'.at = s /\ check'.step = "cross" /\ check'.qty = r.qty
      BY <3>1
    <3>3. check' \in [at : 0..PoolSize, step : CheckSteps, qty : Nat]
      <4>1. s \in 0..PoolSize /\ r.qty \in Nat /\ "cross" \in CheckSteps
        BY <1>3, ShadowAssumption DEF Slots, CheckSteps
      <4> QED
        BY <3>1, <4>1
    <3>4. pool'[s].active /\ pool'[s].qty = r.qty /\ pool'[s].filled = 0
      BY <1>5, <1>6
    <3>5. r.qty > 0 /\ r.qty <= r.qty - 0
      BY <1>3
    <3> QED
      BY <3>2, <3>3, <3>4, <3>5 DEF CheckHolds
  <2>2. CASE ~crosses
    <3>1. check' = Idle
      BY <1>2, <2>2
    <3> QED
      BY <3>1, IdleMoved DEF CheckMoved, CheckHolds, Idle
  <2> QED
    BY <2>1, <2>2
<1>11. ShadowTypeOK' /\ SizedBook'
  BY <1>0, <1>1, <1>6, <1>7, <1>8, <1>10 DEF ShadowTypeOK, SizedBook, ShadowInv
<1>12. PoolReported'
  <2> SUFFICES ASSUME NEW t \in Slots, pool'[t].active
               PROVE  /\ asked'[pool'[t].id].side = pool'[t].side /\ asked'[pool'[t].id].qty = pool'[t].qty
                      /\ report'[pool'[t].id] = [filled |-> pool'[t].filled, final |-> "none"]
                      /\ pool'[t].filled < pool'[t].qty
    BY DEF PoolReported
  <2>1. CASE t = s
    BY <1>1, <1>3, <1>5, <1>6, <1>7, <1>8, <2>1
  <2>2. CASE t # s
    <3>1. pool'[t] = pool[t] /\ pool[t].active
      BY <1>6, <2>2
    <3>2. asked'[pool[t].id] = asked[pool[t].id]
      BY <1>7, <1>9, <3>1
    <3> QED
      BY <1>0, <1>1, <3>1, <3>2 DEF PoolReported
  <2> QED
    BY <2>1, <2>2
<1>13. OneSlotEach'
  <2> SUFFICES ASSUME NEW t \in Slots, NEW u \in Slots, pool'[t].active, pool'[u].active, pool'[t].id = pool'[u].id
               PROVE  t = u
    BY DEF OneSlotEach
  <2>1. CASE t # s /\ u # s
    BY <1>0, <1>6, <2>1 DEF OneSlotEach
  <2>2. CASE t = s \/ u = s
    BY <1>5, <1>6, <1>9, <2>2
  <2> QED
    BY <2>1, <2>2
<1>14. IdsAhead'
  <2> SUFFICES ASSUME NEW i \in ClientIds, i >= nextId + 1
               PROVE  asked'[i] = NotAsked /\ report'[i] = [filled |-> 0, final |-> "none"]
    BY <1>1 DEF IdsAhead
  <2>1. i \in Nat
    BY ShadowAssumption
  <2>2. i # r.id /\ i >= nextId
    BY <1>1, <1>8, <2>1
  <2> QED
    BY <1>0, <1>1, <1>7, <2>2 DEF IdsAhead
<1>15. acct'.pos = SumFunction([i \in ClientIds |-> SignedFill(i)'])
  <2> DEFINE e == [i \in ClientIds |-> SignedFill(i)]
             f == [i \in ClientIds |-> SignedFill(i)']
  <2>1. ASSUME NEW i \in ClientIds PROVE e[i] = f[i]
    <3>1. CASE i = r.id
      <4>1. e[i] = 0
        BY <1>8, <3>1 DEF SignedFill, NotAsked
      <4>2. f[i] = 0
        BY <1>1, <1>8, <3>1 DEF SignedFill
      <4> QED
        BY <4>1, <4>2
    <3>2. CASE i # r.id
      BY <1>1, <1>7, <3>2 DEF SignedFill
    <3> QED
      BY <3>1, <3>2
  <2>2. DOMAIN e = ClientIds /\ DOMAIN f = ClientIds /\ acct.pos = SumFunction(e)
    BY <1>0 DEF ReportsMatchPosition
  <2> HIDE DEF e, f
  <2>3. IsFiniteSet(ClientIds)
    BY ShadowAssumption
  <2>4. SumFunction(f) = SumFunction(e)
    BY <2>1, <2>2, <2>3, SumEqual
  <2> QED
    BY <1>1, <2>2, <2>4 DEF f
<1>16. ASSUME NEW i \in ClientIds, asked'[i].qty > 0
       PROVE  report'[i].filled <= asked'[i].qty /\ (InPool(i)' <=> report'[i].final = "none")
  <2>1. CASE i = r.id
    <3>1. report'[i].filled = 0 /\ report'[i].final = "none" /\ asked'[i].qty = r.qty
      BY <1>1, <1>7, <1>8, <2>1
    <3>2. InPool(i)'
      BY <1>5, <1>6, <2>1 DEF InPool
    <3> QED
      BY <1>3, <3>1, <3>2
  <2>2. CASE i # r.id
    <3>1. asked'[i] = asked[i] /\ report'[i] = report[i]
      BY <1>1, <1>7, <2>2
    <3>2. InPool(i)' <=> InPool(i)
      BY <1>2, <1>5, <1>6, <2>2 DEF InPool
    <3> QED
      BY <1>0, <1>16, <3>1, <3>2 DEF ReportsMatchPosition
  <2> QED
    BY <2>1, <2>2
<1>17. ReportsMatchPosition' /\ BooksBalance'
  <2>1. ReportsMatchPosition'
    BY <1>15, <1>16 DEF ReportsMatchPosition
  <2>2. BooksBalance'
    BY <1>0, <1>1 DEF BooksBalance
  <2> QED
    BY <2>1, <2>2
<1> QED
  BY <1>10, <1>11, <1>12, <1>13, <1>14, <1>17 DEF ShadowInv

\* A step of the check, or of nothing, that leaves the pool alone.
LEMMA PoolKeptInv ==
  ASSUME ShadowInv, UNCHANGED <<pool, acct, asked, report>>,
         nextId' \in Nat, nextId' >= nextId,
         book' \in [bid : Nat, ask : Nat, bidSize : Nat, askSize : Nat], SizedBook',
         check' \in [at : 0..PoolSize, step : CheckSteps, qty : Nat], CheckHolds'
  PROVE  ShadowInv'
<1>1. pool' \in [Slots -> PaperInPool \cup {NoOrder}] /\ pool' = pool
  BY DEF ShadowInv, ShadowTypeOK
<1>2. \A t \in Slots : /\ pool'[t].active <=> pool[t].active
                       /\ pool[t].active => /\ pool'[t].id = pool[t].id /\ pool'[t].side = pool[t].side
                                            /\ pool'[t].qty = pool[t].qty /\ pool'[t].filled = pool[t].filled
  BY <1>1
<1> QED
  BY <1>1, <1>2, QuietShadowInv

\* A step of the check that changes nothing else.
LEMMA CheckMovedInv ==
  ASSUME ShadowInv, CheckMoved, UNCHANGED <<book, pool, acct, nextId, asked, report>>
  PROVE  ShadowInv'
<1>1. nextId' \in Nat /\ nextId' >= nextId /\ book' \in [bid : Nat, ask : Nat, bidSize : Nat, askSize : Nat]
  BY DEF ShadowInv, ShadowTypeOK
<1>2. SizedBook'
  BY DEF ShadowInv, SizedBook
<1>3. CheckHolds' /\ check' \in [at : 0..PoolSize, step : CheckSteps, qty : Nat]
  BY DEF CheckHolds, CheckMoved
<1> QED
  BY <1>1, <1>2, <1>3, PoolKeptInv

LEMMA SubmitRefusedInv == ASSUME ShadowInv, submit_refused PROVE ShadowInv'
<1>1. /\ nextId' = nextId + 1 /\ nextId \in Nat /\ UNCHANGED <<book, pool, acct, check, asked, report>>
      /\ check \in [at : 0..PoolSize, step : CheckSteps, qty : Nat]
      /\ book \in [bid : Nat, ask : Nat, bidSize : Nat, askSize : Nat]
  BY DEF submit_refused, ShadowInv, ShadowTypeOK
<1>2. SizedBook' /\ CheckHolds'
  BY <1>1 DEF ShadowInv, SizedBook, CheckHolds
<1> QED
  BY <1>1, <1>2, PoolKeptInv

LEMMA HeldOrder ==
  ASSUME ShadowInv, NEW s \in Slots, check.at = s, check.step \in {"size", "price", "cross"}
  PROVE  pool[s].active /\ check.qty \in Nat \ {0} /\ check.qty <= pool[s].qty - pool[s].filled
BY DEF ShadowInv, CheckHolds, ShadowTypeOK

LEMMA SubmitFillsInv == ASSUME ShadowInv, NEW s \in Slots, SubmitFills(s) PROVE ShadowInv'
<1>1. /\ check.step = "cross" /\ check.at = s /\ FillAtBest(s, pool[s], check.qty) /\ check' = Idle
      /\ UNCHANGED <<book, nextId, asked>>
  BY DEF SubmitFills
<1>2. CheckMoved
  BY <1>1, IdleMoved
<1>3. pool[s].active /\ check.qty \in Nat \ {0} /\ check.qty <= pool[s].qty - pool[s].filled
  BY <1>1, HeldOrder
<1> QED
  BY <1>1, <1>2, <1>3, FillAtBestInv

LEMMA CheckPriceInv == ASSUME ShadowInv, NEW s \in Slots, CheckPrice(s) PROVE ShadowInv'
<1>1. /\ check.step = "price" /\ check.at = s /\ FillAtBest(s, pool[s], check.qty) /\ Advance
      /\ UNCHANGED <<book, nextId, asked>>
  BY DEF CheckPrice
<1>2. CheckMoved
  BY <1>1, AdvanceMoved DEF ShadowInv
<1>3. pool[s].active /\ check.qty \in Nat \ {0} /\ check.qty <= pool[s].qty - pool[s].filled
  BY <1>1, HeldOrder
<1> QED
  BY <1>1, <1>2, <1>3, FillAtBestInv

LEMMA CancelOrderInv == ASSUME ShadowInv, NEW s \in Slots, cancel_order(s) PROVE ShadowInv'
<1>1. /\ check' = Idle /\ pool[s].active /\ CloseOrder(s, pool[s], "CANCELED")
      /\ UNCHANGED <<book, nextId, asked>>
  BY DEF cancel_order
<1> QED
  BY <1>1, IdleMoved, CloseOrderInv

LEMMA CancelAllInv == ASSUME ShadowInv, cancel_all PROVE ShadowInv'
<1>1. /\ check' = Idle /\ UNCHANGED <<book, acct, nextId, asked>>
      /\ pool' = [s \in Slots |-> NoOrder]
      /\ report' = [i \in ClientIds |-> IF \E s \in Slots : pool[s].active /\ pool[s].id = i
                                        THEN [report[i] EXCEPT !.final = "CANCELED"] ELSE report[i]]
  BY DEF cancel_all
<1>2. PICK gone \in SUBSET Slots : gone = {s \in Slots : pool[s].active}
  OBVIOUS
<1>3. pool' \in [Slots -> PaperInPool \cup {NoOrder}]
  BY <1>1
<1>4. \A t \in Slots : pool'[t] = IF t \in gone THEN NoOrder ELSE pool[t]
  <2> SUFFICES ASSUME NEW t \in Slots, t \notin gone PROVE pool[t] = NoOrder
    BY <1>1
  <2>1. pool[t] \in PaperInPool \/ pool[t] = NoOrder
    BY DEF ShadowInv, ShadowTypeOK
  <2>2. pool[t] \notin PaperInPool
    BY <1>2 DEF PaperInPool
  <2> QED
    BY <2>1, <2>2
<1>5. \A i \in ClientIds : report'[i] = IF \E s \in gone : pool[s].id = i
                                        THEN [report[i] EXCEPT !.final = "CANCELED"] ELSE report[i]
  <2> SUFFICES ASSUME NEW i \in ClientIds
               PROVE  (\E s \in gone : pool[s].id = i) <=> (\E s \in Slots : pool[s].active /\ pool[s].id = i)
    BY <1>1
  <2> QED
    BY <1>2
<1>6. report' \in [ClientIds -> PaperReport]
  <2>1. report \in [ClientIds -> PaperReport]
    BY DEF ShadowInv, ShadowTypeOK
  <2>2. \A x \in PaperReport : [x EXCEPT !.final = "CANCELED"] \in PaperReport
    BY DEF PaperReport
  <2> QED
    BY <1>1, <2>1, <2>2
<1>7. CheckMoved /\ \A s \in gone : pool[s].active
  BY <1>1, <1>2, IdleMoved
<1> QED
  BY <1>1, <1>3, <1>4, <1>5, <1>6, <1>7, EndedInv

LEMMA CheckStartInv == ASSUME ShadowInv, CheckStart PROVE ShadowInv'
<1>1. check' = [at |-> 1, step |-> "look", qty |-> 0] /\ UNCHANGED <<book, pool, acct, nextId, asked, report>>
  BY DEF CheckStart
<1>2. CheckMoved
  BY <1>1, ShadowAssumption DEF CheckMoved, CheckSteps, Slots
<1> QED
  BY <1>1, <1>2, CheckMovedInv

LEMMA CheckSkipInv == ASSUME ShadowInv, NEW s \in Slots, CheckSkip(s) PROVE ShadowInv'
<1>1. check.at = s /\ Advance /\ UNCHANGED <<book, pool, acct, nextId, asked, report>>
  BY DEF CheckSkip, Looking
<1>2. CheckMoved
  BY <1>1, AdvanceMoved DEF ShadowInv
<1> QED
  BY <1>1, <1>2, CheckMovedInv

LEMMA CheckUnfillableInv == ASSUME ShadowInv, NEW s \in Slots, CheckUnfillable(s) PROVE ShadowInv'
<1>1. /\ check.at = s /\ Advance /\ pool[s].active /\ UNCHANGED <<book, nextId, asked>>
      /\ CloseOrder(s, pool[s], "CANCELED") \/ UNCHANGED <<pool, acct, report>>
  BY DEF CheckUnfillable, Looking
<1>2. CheckMoved
  BY <1>1, AdvanceMoved DEF ShadowInv
<1> QED
  BY <1>1, <1>2, CheckMovedInv, CloseOrderInv

LEMMA CheckFillableInv == ASSUME ShadowInv, NEW s \in Slots, CheckFillable(s) PROVE ShadowInv'
<1>0. ShadowTypeOK /\ PoolReported
  BY DEF ShadowInv
<1>1. /\ check.at = s /\ pool[s].active /\ UNCHANGED <<book, pool, acct, nextId, asked, report>>
      /\ check' = [check EXCEPT !.step = IF pool[s].kind = "MARKET" THEN "price" ELSE "size",
                                !.qty = pool[s].qty - pool[s].filled]
  BY DEF CheckFillable, Looking
<1>2. pool[s].qty \in Nat /\ pool[s].filled \in Nat /\ pool[s].filled < pool[s].qty
  BY <1>0, <1>1, LiveInPool DEF PoolReported
<1>3. /\ check'.at = s /\ check'.step \in {"price", "size"} /\ check'.qty = pool[s].qty - pool[s].filled
      /\ check' = [at |-> check'.at, step |-> check'.step, qty |-> check'.qty]
  BY <1>0, <1>1 DEF ShadowTypeOK
<1>4. check' \in [at : 0..PoolSize, step : CheckSteps, qty : Nat]
  <2>1. s \in 0..PoolSize /\ pool[s].qty - pool[s].filled \in Nat
    BY <1>2, ShadowAssumption DEF Slots
  <2> QED
    BY <1>3, <2>1 DEF CheckSteps
<1>5. CheckHolds'
  BY <1>1, <1>2, <1>3 DEF CheckHolds
<1>6. nextId' \in Nat /\ nextId' >= nextId /\ book' \in [bid : Nat, ask : Nat, bidSize : Nat, askSize : Nat]
  BY <1>0, <1>1 DEF ShadowTypeOK
<1>7. SizedBook'
  BY <1>1 DEF ShadowInv, SizedBook
<1> QED
  BY <1>1, <1>4, <1>5, <1>6, <1>7, PoolKeptInv

LEMMA CheckSizeInv == ASSUME ShadowInv, NEW s \in Slots, CheckSize(s) PROVE ShadowInv'
<1>0. ShadowTypeOK /\ SizedBook
  BY DEF ShadowInv
<1>1. check.step = "size" /\ check.at = s /\ UNCHANGED <<book, nextId, asked>>
  BY DEF CheckSize
<1>2. pool[s].active /\ check.qty \in Nat \ {0} /\ check.qty <= pool[s].qty - pool[s].filled
  BY <1>1, HeldOrder
<1>3. CASE CloseOrder(s, pool[s], "REJECTED") /\ Advance
  <2>1. CheckMoved
    BY <1>0, <1>1, <1>3, AdvanceMoved
  <2> QED
    BY <1>1, <1>2, <1>3, <2>1, CloseOrderInv
<1>4. ASSUME NEW share \in 1..OppositeSize(pool[s].side), NEW left, NEW available,
             left = (IF share > pool[s].queue THEN 0 ELSE pool[s].queue - share),
             available = (IF share > pool[s].queue THEN share - pool[s].queue ELSE 0),
             pool' = [pool EXCEPT ![s].queue = left],
             IF available = 0 THEN Advance
             ELSE check' = [check EXCEPT !.step = "price", !.qty = IF available > @ THEN @ ELSE available],
             UNCHANGED <<acct, report>>
      PROVE  ShadowInv'
  <2>1. OppositeSize(pool[s].side) \in Nat
    BY <1>0 DEF OppositeSize, ShadowTypeOK
  <2>2. pool[s] \in PaperInPool /\ pool[s].queue \in Nat /\ share \in Nat /\ pool[s].active = TRUE
    <3>1. share \in Nat
      BY <2>1
    <3> QED
      BY <1>0, <1>2, <3>1, LiveInPool
  <2>3. left \in Nat /\ available \in Nat
    BY <1>4, <2>2
  <2>4. [pool[s] EXCEPT !.queue = left] \in PaperInPool
    BY <2>2, <2>3, InPoolSet
  <2>5. /\ pool' \in [Slots -> PaperInPool \cup {NoOrder}]
        /\ pool'[s] = [pool[s] EXCEPT !.queue = left]
        /\ \A t \in Slots : t # s => pool'[t] = pool[t]
    <3>1. pool' = [pool EXCEPT ![s] = [pool[s] EXCEPT !.queue = left]] /\ pool \in [Slots -> PaperInPool \cup {NoOrder}]
      BY <1>0, <1>4 DEF ShadowTypeOK
    <3> QED
      BY <2>4, <3>1
  <2>6. /\ pool'[s].active = TRUE /\ pool'[s].id = pool[s].id /\ pool'[s].side = pool[s].side
        /\ pool'[s].qty = pool[s].qty /\ pool'[s].filled = pool[s].filled
    BY <2>2, <2>5 DEF PaperInPool
  <2>7. \A t \in Slots : /\ pool'[t].active <=> pool[t].active
                         /\ pool[t].active => /\ pool'[t].id = pool[t].id /\ pool'[t].side = pool[t].side
                                              /\ pool'[t].qty = pool[t].qty /\ pool'[t].filled = pool[t].filled
    BY <2>2, <2>5, <2>6
  <2>8. check' \in [at : 0..PoolSize, step : CheckSteps, qty : Nat] /\ CheckHolds'
    <3>1. CASE available = 0
      <4>1. CheckMoved
        BY <1>0, <1>1, <1>4, <3>1, AdvanceMoved
      <4> QED
        BY <4>1 DEF CheckMoved, CheckHolds
    <3>2. CASE available # 0
      <4>1. check' = [check EXCEPT !.step = "price", !.qty = IF available > @ THEN @ ELSE available]
        BY <1>4, <3>2
      <4>2. PICK n \in Nat : n = IF available > check.qty THEN check.qty ELSE available
        BY <1>2, <2>3
      <4>3. n > 0 /\ n <= check.qty
        BY <1>2, <2>3, <3>2, <4>2
      <4>4. /\ check'.at = s /\ check'.step = "price" /\ check'.qty = n
            /\ check' = [at |-> check'.at, step |-> check'.step, qty |-> check'.qty]
        BY <1>0, <1>1, <4>1, <4>2 DEF ShadowTypeOK
      <4>5. check' \in [at : 0..PoolSize, step : CheckSteps, qty : Nat]
        BY <4>4, ShadowAssumption DEF CheckSteps, Slots
      <4>6. n <= pool[s].qty - pool[s].filled
        <5>1. pool[s].qty \in Nat /\ pool[s].filled \in Nat
          BY <1>0, <1>2, LiveInPool
        <5> QED
          BY <1>2, <4>3, <5>1
      <4>7. CheckHolds'
        BY <2>6, <4>3, <4>4, <4>6 DEF CheckHolds
      <4> QED
        BY <4>5, <4>7
    <3> QED
      BY <3>1, <3>2
  <2>9. nextId' \in Nat /\ nextId' >= nextId /\ book' \in [bid : Nat, ask : Nat, bidSize : Nat, askSize : Nat]
    BY <1>0, <1>1 DEF ShadowTypeOK
  <2>10. SizedBook' /\ UNCHANGED <<acct, asked, report>>
    BY <1>0, <1>1, <1>4 DEF SizedBook
  <2> QED
    BY <2>5, <2>7, <2>8, <2>9, <2>10, QuietShadowInv
<1>5. \/ CloseOrder(s, pool[s], "REJECTED") /\ Advance
      \/ \E share \in 1..OppositeSize(pool[s].side) :
           LET queue == pool[s].queue
               available == IF share > queue THEN share - queue ELSE 0
           IN  /\ pool' = [pool EXCEPT ![s].queue = IF share > queue THEN 0 ELSE queue - share]
               /\ IF available = 0
                  THEN Advance
                  ELSE check' = [check EXCEPT !.step = "price",
                                              !.qty = IF available > @ THEN @ ELSE available]
               /\ UNCHANGED <<acct, report>>
  BY DEF CheckSize
<1> QED
  BY <1>3, <1>4, <1>5

LEMMA MarketInv == ASSUME ShadowInv, Market PROVE ShadowInv'
<1>1. PICK bid \in Prices \cup {0}, ask \in Prices \cup {0}, bidSize \in Sizes, askSize \in Sizes :
        book' = [bid |-> bid, ask |-> ask, bidSize |-> IF bid = 0 THEN 0 ELSE bidSize,
                 askSize |-> IF ask = 0 THEN 0 ELSE askSize]
  BY DEF Market
<1>2. UNCHANGED <<pool, acct, check, nextId, asked, report>>
  BY DEF Market
<1>3. bid \in Nat /\ ask \in Nat /\ bidSize \in Nat /\ bidSize > 0 /\ askSize \in Nat /\ askSize > 0
  <2>1. Prices \subseteq Nat /\ Sizes \subseteq Nat \ {0}
    BY ShadowAssumption
  <2> QED
    BY <2>1
<1>4. book' \in [bid : Nat, ask : Nat, bidSize : Nat, askSize : Nat] /\ SizedBook'
  BY <1>1, <1>3 DEF SizedBook
<1>5. nextId' \in Nat /\ nextId' >= nextId /\ check' \in [at : 0..PoolSize, step : CheckSteps, qty : Nat]
  BY <1>2 DEF ShadowInv, ShadowTypeOK
<1>6. CheckHolds'
  BY <1>2 DEF ShadowInv, CheckHolds
<1> QED
  BY <1>2, <1>4, <1>5, <1>6, PoolKeptInv

LEMMA ElapseInv == ASSUME ShadowInv, NEW s \in Slots, Elapse(s) PROVE ShadowInv'
<1>0. ShadowTypeOK
  BY DEF ShadowInv
<1>1. /\ pool[s].active /\ pool' = [pool EXCEPT ![s].due = TRUE]
      /\ UNCHANGED <<book, acct, check, nextId, asked, report>>
  BY DEF Elapse
<1>2. pool[s] \in PaperInPool
  BY <1>0, <1>1, LiveInPool
<1>3. [pool[s] EXCEPT !.due = TRUE] \in PaperInPool
  BY <1>2, Zenon DEF PaperInPool
<1>4. /\ pool' \in [Slots -> PaperInPool \cup {NoOrder}]
      /\ pool'[s] = [pool[s] EXCEPT !.due = TRUE]
      /\ \A t \in Slots : t # s => pool'[t] = pool[t]
  <2>1. pool' = [pool EXCEPT ![s] = [pool[s] EXCEPT !.due = TRUE]] /\ pool \in [Slots -> PaperInPool \cup {NoOrder}]
    BY <1>0, <1>1 DEF ShadowTypeOK
  <2> QED
    BY <1>3, <2>1
<1>5. /\ pool'[s].active = TRUE /\ pool'[s].id = pool[s].id /\ pool'[s].side = pool[s].side
      /\ pool'[s].qty = pool[s].qty /\ pool'[s].filled = pool[s].filled
  <2>1. pool[s].active = TRUE
    BY <1>2 DEF PaperInPool
  <2>2. \A o : [o EXCEPT !.due = TRUE] = [f \in DOMAIN o |-> IF f = "due" THEN TRUE ELSE o[f]]
    OBVIOUS
  <2>3. DOMAIN pool[s] = {"active", "id", "side", "kind", "price", "qty", "filled", "queue", "due", "maker"}
    BY <1>2 DEF PaperInPool
  <2>4. \A f \in DOMAIN pool[s] : f # "due" => pool'[s][f] = pool[s][f]
    BY <1>4, <2>2
  <2> QED
    BY <2>1, <2>3, <2>4
<1>6. \A t \in Slots : /\ pool'[t].active <=> pool[t].active
                       /\ pool[t].active => /\ pool'[t].id = pool[t].id /\ pool'[t].side = pool[t].side
                                            /\ pool'[t].qty = pool[t].qty /\ pool'[t].filled = pool[t].filled
  BY <1>1, <1>4, <1>5
<1>7. /\ nextId' \in Nat /\ nextId' >= nextId /\ check' \in [at : 0..PoolSize, step : CheckSteps, qty : Nat]
      /\ book' \in [bid : Nat, ask : Nat, bidSize : Nat, askSize : Nat]
  BY <1>0, <1>1 DEF ShadowTypeOK
<1>8. CheckHolds'
  <2>1. CheckHolds
    BY DEF ShadowInv
  <2>2. check.at \in Slots => pool'[check.at].qty = pool[check.at].qty /\ pool'[check.at].filled = pool[check.at].filled
    BY <1>4, <1>5
  <2> QED
    BY <1>1, <1>6, <2>1, <2>2 DEF CheckHolds
<1>9. SizedBook'
  BY <1>1 DEF ShadowInv, SizedBook
<1> QED
  BY <1>1, <1>4, <1>6, <1>7, <1>8, <1>9, QuietShadowInv

LEMMA ShadowStart == ASSUME ShadowInit PROVE ShadowInv
<1>0. /\ book = [bid |-> 0, ask |-> 0, bidSize |-> 0, askSize |-> 0]
      /\ pool = [s \in Slots |-> NoOrder]
      /\ acct = [pos |-> 0, den |-> 1, avg |-> 0, realized |-> 0, fees |-> 0, cash |-> 0]
      /\ check = Idle /\ nextId = 1 /\ asked = [i \in ClientIds |-> NotAsked]
      /\ report = [i \in ClientIds |-> [filled |-> 0, final |-> "none"]]
  BY DEF ShadowInit
<1>1. ShadowTypeOK
  <2>1. check \in [at : 0..PoolSize, step : CheckSteps, qty : Nat]
    BY <1>0, ShadowAssumption DEF Idle, CheckSteps
  <2> QED
    BY <1>0, <2>1 DEF ShadowTypeOK, PaperAccount, PaperReport
<1>2. SizedBook /\ PoolReported /\ OneSlotEach /\ IdsAhead /\ CheckHolds
  BY <1>0 DEF SizedBook, PoolReported, OneSlotEach, IdsAhead, CheckHolds, Idle, NoOrder
<1>3. BooksBalance
  BY <1>0 DEF BooksBalance
<1>4. ReportsMatchPosition
  <2> DEFINE e == [i \in ClientIds |-> SignedFill(i)]
  <2>1. \A i \in ClientIds : e[i] = 0
    BY <1>0 DEF SignedFill, NotAsked
  <2>2. DOMAIN e = ClientIds
    OBVIOUS
  <2> HIDE DEF e
  <2>3. IsFiniteSet(ClientIds)
    BY ShadowAssumption
  <2>4. SumFunction(e) = 0
    BY <2>1, <2>2, <2>3, SumOfZeros
  <2>5. \A i \in ClientIds : ~(asked[i].qty > 0)
    BY <1>0 DEF NotAsked
  <2>6. acct.pos = 0
    BY <1>0
  <2> QED
    BY <2>4, <2>5, <2>6 DEF ReportsMatchPosition, e
<1> QED
  BY <1>1, <1>2, <1>3, <1>4 DEF ShadowInv

LEMMA ShadowStep == ASSUME ShadowInv, [ShadowNext]_shadowVars PROVE ShadowInv'
<1>1. CASE UNCHANGED shadowVars
  <2>1. UNCHANGED <<book, pool, acct, check, nextId, asked, report>>
    BY <1>1 DEF shadowVars
  <2>2. /\ nextId' \in Nat /\ nextId' >= nextId /\ check' \in [at : 0..PoolSize, step : CheckSteps, qty : Nat]
        /\ book' \in [bid : Nat, ask : Nat, bidSize : Nat, askSize : Nat]
    BY <2>1 DEF ShadowInv, ShadowTypeOK
  <2>3. CheckHolds' /\ SizedBook'
    BY <2>1 DEF ShadowInv, CheckHolds, SizedBook
  <2> QED
    BY <2>1, <2>2, <2>3, PoolKeptInv
<1>2. CASE SubmitStep
  BY <1>2, SubmitOrderInv, SubmitRefusedInv, SubmitFillsInv DEF SubmitStep
<1>3. CASE Cancel
  BY <1>3, CancelOrderInv, CancelAllInv DEF Cancel
<1>4. CASE Check
  BY <1>4, CheckStartInv, CheckSkipInv, CheckUnfillableInv, CheckFillableInv, CheckSizeInv, CheckPriceInv
     DEF Check, CheckStep
<1>5. CASE Market
  BY <1>5, MarketInv
<1>6. CASE \E s \in Slots : Elapse(s)
  BY <1>6, ElapseInv
<1> QED
  BY <1>1, <1>2, <1>3, <1>4, <1>5, <1>6 DEF ShadowNext

\* ShadowConsistent: however the book moves between the reads of a check, an order
\* in the pool is the one asked for, has one slot, is not filled yet and was
\* reported as far as it is filled, and the check holds the order it decided on
\* until it is filled (shadow_engine.hpp:310).
THEOREM ShadowConsistent == ShadowSpec => []ShadowInv
<1>1. ShadowInit => ShadowInv
  BY ShadowStart
<1>2. ShadowInv /\ [ShadowNext]_shadowVars => ShadowInv'
  BY ShadowStep
<1> QED
  BY <1>1, <1>2, PTL DEF ShadowSpec

\* PaperBooksBalance: BooksBalance holds after every sequence of fills, for every
\* price, quantity, slippage and fee (shadow_engine.hpp:423).
THEOREM PaperBooksBalance == ShadowSpec => []BooksBalance
<1>1. ShadowInv => BooksBalance
  BY DEF ShadowInv
<1> QED
  BY <1>1, ShadowConsistent, PTL

\* PaperReportsMatch: ReportsMatchPosition holds in every reachable state, for every
\* number of slots and orders (shadow_engine.hpp:513).
THEOREM PaperReportsMatch == ShadowSpec => []ReportsMatchPosition
<1>1. ShadowInv => ReportsMatchPosition
  BY DEF ShadowInv
<1> QED
  BY <1>1, ShadowConsistent, PTL
=============================================================================
