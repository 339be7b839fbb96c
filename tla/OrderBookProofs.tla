-------------------------- MODULE OrderBookProofs --------------------------
(***************************************************************************)
(* Theorems about OrderBook, for every set of prices and sizes and every    *)
(* size of the grid.                                                        *)
(***************************************************************************)
EXTENDS OrderBook, WellFoundedInduction, TLAPS

-----------------------------------------------------------------------------
(* Smallest and largest numbers *)

LEMMA Smallest ==
  ASSUME NEW T, T \subseteq Nat, T # {}
  PROVE  \E m \in T : \A y \in T : m <= y
<1>1. PICK m \in T : \A y \in T : ~(<<y, m>> \in OpToRel(<, Nat))
  BY NatLessThanWellFounded, WFMin
<1>2. ASSUME NEW y \in T, ~(m <= y) PROVE FALSE
  <2>1. y \in Nat /\ m \in Nat /\ y < m
    BY <1>2
  <2> QED
    BY <1>1, <2>1 DEF OpToRel
<1> QED
  BY <1>2

LEMMA MinIs ==
  ASSUME NEW T, T \subseteq Nat, T # {}
  PROVE  Min(T) \in T /\ \A y \in T : Min(T) <= y
<1>1. \E m \in T : \A y \in T : m <= y
  BY Smallest
<1> QED
  BY <1>1 DEF Min

LEMMA MaxIs ==
  ASSUME NEW T, T \subseteq Nat, T # {}, NEW n \in Nat, \A y \in T : y <= n
  PROVE  Max(T) \in T /\ \A y \in T : y <= Max(T)
<1> DEFINE U == {n - y : y \in T}
<1>1. U \subseteq Nat /\ U # {}
  <2>1. ASSUME NEW y \in T PROVE n - y \in Nat
    <3>1. y \in Nat /\ y <= n
      OBVIOUS
    <3> QED
      BY <3>1
  <2> QED
    BY <2>1
<1>2. PICK m \in U : \A y \in U : m <= y
  <2> HIDE DEF U
  <2> QED
    BY <1>1, Smallest
<1>3. PICK x \in T : m = n - x
  OBVIOUS
<1>4. \A y \in T : x >= y
  <2> SUFFICES ASSUME NEW y \in T PROVE x >= y
    OBVIOUS
  <2>1. n - y \in U /\ m <= n - y /\ x \in Nat /\ y \in Nat
    BY <1>2
  <2> QED
    BY <1>3, <2>1
<1>5. Max(T) \in T /\ \A y \in T : Max(T) >= y
  <2> HIDE DEF U
  <2> QED
    BY <1>4 DEF Max
<1> QED
  BY <1>5

LEMMA MinOfTwo ==
  ASSUME NEW a \in Int, NEW b \in Int
  PROVE  Min({a, b}) = IF a <= b THEN a ELSE b
BY DEF Min

LEMMA MaxOfTwo ==
  ASSUME NEW a \in Int, NEW b \in Int
  PROVE  Max({a, b}) = IF a >= b THEN a ELSE b
BY DEF Max

-----------------------------------------------------------------------------
(* The inductive invariant *)

LastIsTrue ==
  log # << >> => LET u == log[Len(log)] IN truth[u.side][u.price] = u.size

BookType ==
  /\ truth \in TruthOf /\ Sound(truth)
  /\ log \in Seq(Update)
  /\ base \in Int /\ levels \in 1..MaxLevels /\ seq \in Nat
  /\ cells \in [Sides -> [Index -> Sizes]]

\* A book that follows the feed has taken its last update, and what it shows is
\* inside the grid and in the exchange's book.
Follows ==
  /\ init /\ seq = Len(log)
  /\ \A s \in Sides, i \in Index :
       cells[s][i] # 0 => i < levels /\ base + i \in Prices /\ cells[s][i] = truth[s][base + i]

BookInv == BookType /\ LastIsTrue /\ (synced => Follows)

LEMMA BookInit == Init => BookInv
<1> SUFFICES ASSUME Init PROVE BookInv
  OBVIOUS
<1>1. 0 \in Sizes /\ MaxLevels \in Nat /\ MaxLevels >= 2 /\ Opening \in TruthOf
  BY BookAssumption
<1>2. BookType
  <2>1. Empty \in [Sides -> [Index -> Sizes]]
    BY <1>1 DEF Empty
  <2>2. << >> \in Seq(Update) /\ MaxLevels \in 1..MaxLevels
    BY <1>1
  <2>3. Sound(truth)
    BY OpeningAssumption DEF Init
  <2> QED
    BY <1>1, <2>1, <2>2, <2>3 DEF Init, BookType
<1> QED
  BY <1>2 DEF Init, BookInv, LastIsTrue

\* The exchange changes a level: its book stays sound and the log ends with it.
LEMMA ChangeIs ==
  ASSUME BookInv, NEW u \in Update, Change(u)
  PROVE  /\ truth' \in TruthOf /\ Sound(truth') /\ log' \in Seq(Update)
         /\ Len(log') = Len(log) + 1 /\ log'[Len(log')] = u /\ log' # << >>
         /\ \A s \in Sides, p \in Prices :
              truth'[s][p] = IF s = u.side /\ p = u.price THEN u.size ELSE truth[s][p]
<1>1. truth \in [Sides -> [Prices -> Sizes]] /\ log \in Seq(Update)
  BY DEF BookInv, BookType, TruthOf
<1>2. u.side \in Sides /\ u.price \in Prices /\ u.size \in Sizes
  BY DEF Update
<1>3. PICK t : t = truth'
  OBVIOUS
<1>4. t = [truth EXCEPT ![u.side][u.price] = u.size] /\ Sound(t) /\ log' = Append(log, u)
  BY <1>3 DEF Change
<1>5. /\ t \in [Sides -> [Prices -> Sizes]]
      /\ \A s \in Sides, p \in Prices : t[s][p] = IF s = u.side /\ p = u.price THEN u.size ELSE truth[s][p]
  BY <1>1, <1>2, <1>4
<1>6. /\ Append(log, u) \in Seq(Update) /\ Len(Append(log, u)) = Len(log) + 1
      /\ Append(log, u)[Len(log) + 1] = u /\ Append(log, u) # << >>
  BY <1>1
<1> QED
  BY <1>3, <1>4, <1>5, <1>6 DEF TruthOf

-----------------------------------------------------------------------------
(* apply_delta *)

\* What a grid may show of a book t.
Shows(c, b, n, t) ==
  \A s \in Sides, i \in Index : c[s][i] # 0 => i < n /\ b + i \in Prices /\ c[s][i] = t[s][b + i]

Grids == [Sides -> [Index -> Sizes]]

LEMMA StoredIs ==
  ASSUME NEW c \in Grids, NEW b \in Int, NEW u \in Update, u.price - b \in Index
  PROVE  /\ Stored(c, b, u) \in Grids
         /\ \A s \in Sides, i \in Index :
              Stored(c, b, u)[s][i] = IF s = u.side /\ i = u.price - b THEN u.size ELSE c[s][i]
<1>1. u.side \in Sides /\ u.size \in Sizes
  BY DEF Update
<1> QED
  BY <1>1 DEF Stored, Grids

\* Storing an update in a grid that shows the book before it, or already shows
\* it: the grid shows the book after it.
LEMMA StoredShows ==
  ASSUME NEW c \in Grids, NEW b \in Int, NEW n \in 1..MaxLevels, NEW u \in Update,
         u.price - b \in Index, u.price - b < n, NEW t, NEW r, Shows(c, b, n, t),
         \A s \in Sides, p \in Prices : r[s][p] = IF s = u.side /\ p = u.price THEN u.size ELSE t[s][p]
  PROVE  Stored(c, b, u) \in Grids /\ Shows(Stored(c, b, u), b, n, r)
<1>1. PICK d : d = Stored(c, b, u)
  OBVIOUS
<1>2. /\ d \in Grids
      /\ \A s \in Sides, i \in Index : d[s][i] = IF s = u.side /\ i = u.price - b THEN u.size ELSE c[s][i]
  BY <1>1, StoredIs
<1>3. u.price \in Prices /\ u.price \in Nat /\ u.side \in Sides
  BY BookAssumption DEF Update
<1>4. ASSUME NEW s \in Sides, NEW i \in Index, d[s][i] # 0
      PROVE  i < n /\ b + i \in Prices /\ d[s][i] = r[s][b + i]
  <2>1. i \in Int
    BY DEF Index
  <2>2. CASE s = u.side /\ i = u.price - b
    <3>1. b + i = u.price /\ i < n
      BY <1>3, <2>1, <2>2
    <3>2. r[s][u.price] = u.size /\ d[s][i] = u.size
      BY <1>2, <1>3, <2>2
    <3> QED
      BY <1>3, <3>1, <3>2
  <2>3. CASE ~(s = u.side /\ i = u.price - b)
    <3>1. d[s][i] = c[s][i]
      BY <1>2, <2>3
    <3>2. i < n /\ b + i \in Prices /\ c[s][i] = t[s][b + i]
      BY <1>4, <3>1 DEF Shows
    <3>3. ~(s = u.side /\ b + i = u.price)
      BY <1>3, <2>1, <2>3
    <3> QED
      BY <3>1, <3>2, <3>3
  <2> QED
    BY <2>2, <2>3
<1> QED
  BY <1>1, <1>2, <1>4 DEF Shows

\* A level outside the grid is not in it: the grid shows what it showed.
LEMMA OutsideShows ==
  ASSUME NEW c, NEW b \in Int, NEW n \in Int, NEW u \in Update, ~InGrid(u.price, b, n), NEW t, NEW r,
         Shows(c, b, n, t),
         \A s \in Sides, p \in Prices : r[s][p] = IF s = u.side /\ p = u.price THEN u.size ELSE t[s][p]
  PROVE  Shows(c, b, n, r)
<1> SUFFICES ASSUME NEW s \in Sides, NEW i \in Index, c[s][i] # 0
             PROVE  i < n /\ b + i \in Prices /\ c[s][i] = r[s][b + i]
  BY DEF Shows
<1>1. i < n /\ b + i \in Prices /\ c[s][i] = t[s][b + i]
  BY DEF Shows
<1>2. i \in Nat
  BY DEF Index
<1>3. InGrid(b + i, b, n)
  BY <1>1, <1>2 DEF InGrid
<1>4. b + i # u.price
  BY <1>3
<1> QED
  BY <1>1, <1>4

\* recenter_grid keeps the price of every level it keeps.
LEMMA RecenteredShows ==
  ASSUME BookType, NEW b \in Int, NEW t, Shows(cells, base, levels, t)
  PROVE  Recentered(b) \in Grids /\ Shows(Recentered(b), b, levels, t)
<1>1. base \in Int /\ levels \in Int /\ 0 \in Sizes /\ cells \in Grids
  BY BookAssumption DEF BookType, Grids
<1>2. PICK d : d = Recentered(b)
  OBVIOUS
<1>3. d = [s \in Sides |-> [i \in Index |->
             IF i < levels /\ i + (b - base) \in Index /\ i + (b - base) < levels
             THEN cells[s][i + (b - base)] ELSE 0]]
  BY <1>2 DEF Recentered
<1>4. d \in Grids
  BY <1>1, <1>3 DEF Grids
<1>5. ASSUME NEW s \in Sides, NEW i \in Index, d[s][i] # 0
      PROVE  i < levels /\ b + i \in Prices /\ d[s][i] = t[s][b + i]
  <2>1. /\ i < levels /\ i + (b - base) \in Index
        /\ d[s][i] = cells[s][i + (b - base)]
    BY <1>3, <1>5
  <2>2. base + (i + (b - base)) \in Prices /\ cells[s][i + (b - base)] = t[s][base + (i + (b - base))]
    BY <1>5, <2>1 DEF Shows
  <2>3. base + (i + (b - base)) = b + i
    BY <1>1 DEF Index
  <2> QED
    BY <2>1, <2>2, <2>3
<1> QED
  BY <1>2, <1>4, <1>5 DEF Shows

\* What the proofs use of the grid's types, and of an update.
LEMMA GridIs ==
  ASSUME BookType
  PROVE  /\ base \in Int /\ levels \in 1..MaxLevels /\ levels \in Int /\ seq \in Nat /\ seq \in Int
         /\ cells \in Grids /\ MaxLevels \in Nat /\ 0 \in Sizes
<1>1. MaxLevels \in Nat /\ 0 \in Sizes
  BY BookAssumption
<1>2. base \in Int /\ levels \in 1..MaxLevels /\ seq \in Nat
  BY DEF BookType
<1>3. cells \in Grids
  BY DEF BookType, Grids
<1>4. levels \in Int /\ seq \in Int
  BY <1>1, <1>2
<1> QED
  BY <1>1, <1>2, <1>3, <1>4

LEMMA PriceIs ==
  ASSUME NEW u \in Update
  PROVE  u.price \in Prices /\ u.price \in Nat /\ u.price \in Int /\ u.side \in Sides
<1>1. u.price \in Prices /\ u.side \in Sides
  BY DEF Update
<1>2. ASSUME NEW p \in Prices PROVE p \in Nat /\ p \in Int
  BY BookAssumption
<1> QED
  BY <1>1, <1>2, Zenon

\* apply_delta keeps the grid well formed, whatever the update.
LEMMA ApplyType ==
  ASSUME BookType, NEW n \in Nat, NEW u \in Update, Apply(n, u)
  PROVE  base' \in Int /\ levels' \in 1..MaxLevels /\ seq' \in Nat /\ cells' \in Grids
<1>0. /\ base \in Int /\ levels \in 1..MaxLevels /\ levels \in Int /\ seq \in Nat /\ seq \in Int
      /\ cells \in Grids /\ MaxLevels \in Nat /\ 0 \in Sizes /\ u.price \in Int
  BY GridIs, PriceIs
<1>1. CASE UNCHANGED bookVars
  BY <1>0, <1>1 DEF bookVars
<1>2. CASE /\ InGrid(u.price, base, levels)
           /\ cells' = Stored(cells, base, u) /\ seq' = n /\ UNCHANGED <<base, levels>>
  <2>1. u.price - base \in Index
    BY <1>0, <1>2 DEF InGrid, Index
  <2> QED
    BY <1>0, <1>2, <2>1, StoredIs
<1>3. CASE /\ base' = u.price - levels \div 2
           /\ cells' = Stored(Recentered(u.price - levels \div 2), u.price - levels \div 2, u)
           /\ seq' = n /\ UNCHANGED levels
  <2>1. PICK b \in Int : b = u.price - levels \div 2
    BY <1>0
  <2>2. u.price - b \in Index
    BY <1>0, <2>1 DEF Index
  <2>3. Recentered(b) \in Grids
    BY <1>0 DEF Recentered, Grids
  <2> QED
    BY <1>0, <1>3, <2>1, <2>2, <2>3, StoredIs
<1>4. CASE seq' = n /\ UNCHANGED <<base, levels, cells>>
  BY <1>0, <1>4
<1>5. \/ UNCHANGED bookVars
      \/ /\ InGrid(u.price, base, levels)
         /\ cells' = Stored(cells, base, u) /\ seq' = n /\ UNCHANGED <<base, levels>>
      \/ /\ base' = u.price - levels \div 2
         /\ cells' = Stored(Recentered(u.price - levels \div 2), u.price - levels \div 2, u)
         /\ seq' = n /\ UNCHANGED levels
      \/ seq' = n /\ UNCHANGED <<base, levels, cells>>
  BY ZenonT(30) DEF Apply
<1> QED
  BY <1>1, <1>2, <1>3, <1>4, <1>5

\* An update that is not old, applied to a book that shows t: it shows r, the
\* book after the update, whether the level is stored, the grid is moved or the
\* level is left out.
LEMMA ApplyShows ==
  ASSUME BookType, init, NEW n \in Nat, n >= seq, NEW u \in Update, Apply(n, u), NEW t, NEW r,
         Shows(cells, base, levels, t),
         \A s \in Sides, p \in Prices : r[s][p] = IF s = u.side /\ p = u.price THEN u.size ELSE t[s][p]
  PROVE  init' /\ seq' = n /\ Shows(cells', base', levels', r)
<1>0. /\ base \in Int /\ levels \in 1..MaxLevels /\ levels \in Int /\ seq \in Nat /\ seq \in Int
      /\ cells \in Grids /\ MaxLevels \in Nat /\ 0 \in Sizes /\ u.price \in Int
  BY GridIs, PriceIs
<1>1. ~TooOld(n)
  BY <1>0 DEF TooOld
<1>2. init' /\ seq' = n
  BY <1>1 DEF Apply
<1>3. CASE /\ InGrid(u.price, base, levels)
           /\ cells' = Stored(cells, base, u) /\ UNCHANGED <<base, levels>>
  <2>1. u.price - base \in Index /\ u.price - base < levels
    BY <1>0, <1>3 DEF InGrid, Index
  <2>2. PICK c, b, m : c = cells /\ b = base /\ m = levels
    OBVIOUS
  <2>3. Shows(Stored(c, b, u), b, m, r)
    <3>1. c \in Grids /\ b \in Int /\ m \in 1..MaxLevels /\ Shows(c, b, m, t)
      BY <1>0, <2>2
    <3>2. u.price - b \in Index /\ u.price - b < m
      BY <2>1, <2>2
    <3> QED
      BY <3>1, <3>2, StoredShows
  <2> QED
    BY <1>2, <1>3, <2>2, <2>3
<1>4. CASE /\ base' = u.price - levels \div 2
           /\ cells' = Stored(Recentered(u.price - levels \div 2), u.price - levels \div 2, u)
           /\ UNCHANGED levels
  <2>1. PICK b \in Int : b = u.price - levels \div 2
    BY <1>0
  <2>2. u.price - b \in Index /\ u.price - b < levels
    BY <1>0, <2>1 DEF Index
  <2>3. Recentered(b) \in Grids /\ Shows(Recentered(b), b, levels, t)
    BY RecenteredShows
  <2>4. Shows(Stored(Recentered(b), b, u), b, levels, r)
    BY <1>0, <2>2, <2>3, StoredShows
  <2> QED
    BY <1>2, <1>4, <2>1, <2>4
<1>5. CASE ~InGrid(u.price, base, levels) /\ UNCHANGED <<base, levels, cells>>
  <2>1. Shows(cells, base, levels, r)
    BY <1>0, <1>5, OutsideShows
  <2> QED
    BY <1>2, <1>5, <2>1
<1>6. \/ /\ InGrid(u.price, base, levels)
         /\ cells' = Stored(cells, base, u) /\ UNCHANGED <<base, levels>>
      \/ /\ base' = u.price - levels \div 2
         /\ cells' = Stored(Recentered(u.price - levels \div 2), u.price - levels \div 2, u)
         /\ UNCHANGED levels
      \/ ~InGrid(u.price, base, levels) /\ UNCHANGED <<base, levels, cells>>
  BY <1>1, ZenonT(30) DEF Apply
<1> QED
  BY <1>3, <1>4, <1>5, <1>6

-----------------------------------------------------------------------------
(* The steps *)

\* compute_snapshot_active_levels stays between one level and max_levels.
LEMMA ActiveLevelsIs ==
  ASSUME NEW bid \in Int
  PROVE  ActiveLevels(bid) \in 1..MaxLevels
<1>1. MaxLevels \in Int /\ MinLevels \in Int /\ MaxLevels >= 2 /\ MinLevels >= 1
  BY BookAssumption
<1>2. PICK a \in Int : a = Min({MaxLevels, 2 * (bid - 1)})
  BY <1>1, MinOfTwo
<1>3. PICK b \in Int : b = Max({MinLevels, a})
  BY <1>1, MaxOfTwo
<1>4. PICK c \in Int : c = Min({MaxLevels, b}) /\ c <= MaxLevels
  BY <1>1, MinOfTwo
<1>5. Max({2, c}) \in 1..MaxLevels
  BY <1>1, <1>4, MaxOfTwo
<1>6. Min({MaxLevels, MinLevels}) \in 1..MaxLevels
  BY <1>1, MinOfTwo
<1>7. ActiveLevels(bid) = Min({MaxLevels, MinLevels}) \/ ActiveLevels(bid) = Max({2, c})
  BY <1>2, <1>3, <1>4 DEF ActiveLevels
<1> QED
  BY <1>5, <1>6, <1>7

\* The bids and asks of a sound book have a best one each.
LEMMA BestOfSound ==
  ASSUME NEW t, Sound(t)
  PROVE  /\ Max(BidsOf(t)) \in BidsOf(t) /\ \A p \in BidsOf(t) : p <= Max(BidsOf(t))
         /\ Min(AsksOf(t)) \in AsksOf(t) /\ \A p \in AsksOf(t) : Min(AsksOf(t)) <= p
         /\ BidsOf(t) \subseteq Nat /\ AsksOf(t) \subseteq Nat
<1>1. BidsOf(t) \subseteq Nat /\ AsksOf(t) \subseteq Nat
  BY BookAssumption DEF BidsOf, AsksOf
<1>2. BidsOf(t) # {} /\ AsksOf(t) # {} /\ \A p \in BidsOf(t), q \in AsksOf(t) : p < q
  BY DEF Sound
<1>3. PICK q \in AsksOf(t) : \A p \in BidsOf(t) : p <= q
  BY <1>1, <1>2
<1> QED
  BY <1>1, <1>2, <1>3, MaxIs, MinIs

LEMMA SnapshotKeeps ==
  ASSUME BookInv, Snapshot
  PROVE  BookInv'
<1>0. UNCHANGED <<truth, log>> /\ BookType /\ LastIsTrue
  BY DEF Snapshot, BookInv
<1>1. CASE ~synced' /\ UNCHANGED bookVars
  BY <1>0, <1>1 DEF BookInv, BookType, LastIsTrue, bookVars
<1>2. CASE ~(~synced' /\ UNCHANGED bookVars)
  <2>1. PICK n, b : /\ n = ActiveLevels(Max(BidsOf(truth))) /\ b = BasePrice(Max(BidsOf(truth)), n)
                    /\ cells' = Placed(b, n)
                    /\ levels' = n /\ base' = b /\ seq' = Len(log) /\ (synced' => init')
    BY <1>2 DEF Snapshot
  <2>2. Max(BidsOf(truth)) \in Nat
    BY <1>0, BestOfSound DEF BookType
  <2>3. n \in 1..MaxLevels
    BY <2>1, <2>2, ActiveLevelsIs
  <2>4. b \in Int
    BY <2>1, <2>2, <2>3 DEF BasePrice
  <2>5. PICK c : c = Placed(b, n)
    OBVIOUS
  <2>6. c = [s \in Sides |-> [i \in Index |-> IF i < n /\ b + i \in Prices THEN truth[s][b + i] ELSE 0]]
    BY <2>5 DEF Placed
  <2>7. c \in [Sides -> [Index -> Sizes]]
    <3>1. truth \in [Sides -> [Prices -> Sizes]] /\ 0 \in Sizes
      BY <1>0, BookAssumption DEF BookType, TruthOf
    <3> QED
      BY <2>6, <3>1
  <2>8. \A s \in Sides, i \in Index : c[s][i] # 0 => i < n /\ b + i \in Prices /\ c[s][i] = truth[s][b + i]
    BY <2>6
  <2>9. BookType' /\ LastIsTrue'
    BY <1>0, <2>1, <2>3, <2>4, <2>5, <2>7 DEF BookType, LastIsTrue
  <2>10. synced' => Follows'
    BY <1>0, <2>1, <2>5, <2>8 DEF Follows
  <2> QED
    BY <2>9, <2>10 DEF BookInv
<1> QED
  BY <1>1, <1>2

\* An update that reaches the book, the next one or an old one.
LEMMA DeltaKeeps ==
  ASSUME BookInv, NEW u \in Update, Delta(u)
  PROVE  BookInv'
<1>1. BookType /\ synced /\ Follows /\ Change(u) /\ Apply(Len(log) + 1, u) /\ UNCHANGED synced
  BY DEF BookInv, Delta
<1>2. PICK t, n : t = truth' /\ n = Len(log) + 1
  OBVIOUS
<1>3. /\ t \in TruthOf /\ Sound(t) /\ log' \in Seq(Update)
      /\ Len(log') = n /\ log'[Len(log')] = u
      /\ \A s \in Sides, p \in Prices : t[s][p] = IF s = u.side /\ p = u.price THEN u.size ELSE truth[s][p]
  BY <1>1, <1>2, ChangeIs
<1>4. n \in Nat /\ n >= seq
  <2>1. Len(log) \in Nat /\ seq = Len(log)
    BY <1>1 DEF BookType, Follows
  <2> QED
    BY <1>2, <2>1
<1>5. Shows(cells, base, levels, truth) /\ init
  BY <1>1 DEF Follows, Shows
<1>6. Apply(n, u)
  BY <1>1, <1>2
<1>7. base' \in Int /\ levels' \in 1..MaxLevels /\ seq' \in Nat /\ cells' \in Grids
  BY ONLY <1>1, <1>4, <1>6, ApplyType, u \in Update
<1>8. init' /\ seq' = n /\ Shows(cells', base', levels', t)
  BY <1>1, <1>3, <1>4, <1>5, <1>6, ApplyShows
<1>9. BookType'
  BY <1>2, <1>3, <1>7 DEF BookType, Grids
<1>10. LastIsTrue'
  BY <1>2, <1>3, PriceIs DEF LastIsTrue
<1>11. Follows'
  BY <1>2, <1>3, <1>8 DEF Follows, Shows
<1> QED
  BY <1>9, <1>10, <1>11 DEF BookInv

LEMMA LostKeeps ==
  ASSUME BookInv, NEW u \in Update, Lost(u)
  PROVE  BookInv'
<1>1. BookType /\ Change(u) /\ ~synced' /\ UNCHANGED bookVars
  BY DEF BookInv, Lost
<1>2. PICK t : t = truth'
  OBVIOUS
<1>3. /\ t \in TruthOf /\ Sound(t) /\ log' \in Seq(Update) /\ log'[Len(log')] = u
      /\ \A s \in Sides, p \in Prices : t[s][p] = IF s = u.side /\ p = u.price THEN u.size ELSE truth[s][p]
  BY <1>1, <1>2, ChangeIs
<1>4. BookType'
  BY <1>1, <1>2, <1>3 DEF BookType, bookVars
<1>5. LastIsTrue'
  BY <1>2, <1>3, PriceIs DEF LastIsTrue
<1> QED
  BY <1>1, <1>4, <1>5 DEF BookInv

\* An old update that arrives again is dropped; the last one is in the book.
LEMMA AgainKeeps ==
  ASSUME BookInv, NEW n \in 1..MaxSeq, Again(n)
  PROVE  BookInv'
<1>1. /\ BookType /\ LastIsTrue /\ synced /\ Follows /\ n <= Len(log) /\ Apply(n, log[n])
      /\ UNCHANGED <<truth, log, synced>>
  BY DEF BookInv, Again
<1>2. /\ log \in Seq(Update) /\ Len(log) \in Nat /\ n \in Nat /\ 1 <= n /\ n <= Len(log)
      /\ seq = Len(log) /\ MaxSeq \in Nat
  BY <1>1, BookAssumption DEF BookType, Follows
<1>3. CASE n < Len(log)
  <2>1. TooOld(n)
    BY <1>2, <1>3 DEF TooOld
  <2>2. UNCHANGED bookVars
    BY <1>1, <2>1 DEF Apply
  <2> QED
    BY <1>1, <2>2 DEF BookInv, BookType, LastIsTrue, Follows, bookVars
<1>4. CASE n = Len(log)
  <2>1. PICK u : u = log[n]
    OBVIOUS
  <2>2. u \in Update /\ Apply(n, u) /\ truth[u.side][u.price] = u.size
    <3>1. log # << >>
      BY <1>2
    <3>2. u \in Update
      BY <1>2, <2>1
    <3> QED
      BY <1>1, <1>4, <2>1, <3>1, <3>2 DEF LastIsTrue
  <2>3. \A s \in Sides, p \in Prices :
          truth[s][p] = IF s = u.side /\ p = u.price THEN u.size ELSE truth[s][p]
    BY <2>2
  <2>4. Shows(cells, base, levels, truth) /\ init
    BY <1>1 DEF Follows, Shows
  <2>5. base' \in Int /\ levels' \in 1..MaxLevels /\ seq' \in Nat /\ cells' \in Grids
    BY ONLY <1>1, <1>2, <2>2, ApplyType
  <2>6. n >= seq
    BY <1>2, <1>4
  <2>7. PICK t : t = truth
    OBVIOUS
  <2>8. init' /\ seq' = n /\ Shows(cells', base', levels', t)
    BY ONLY <1>1, <1>2, <2>2, <2>3, <2>4, <2>6, <2>7, ApplyShows
  <2>9. BookType' /\ LastIsTrue'
    BY <1>1, <2>5 DEF BookType, Grids, LastIsTrue
  <2>10. Follows'
    BY <1>1, <1>4, <2>7, <2>8 DEF Follows, Shows
  <2> QED
    BY <2>9, <2>10 DEF BookInv
<1> QED
  BY <1>2, <1>3, <1>4

LEMMA BookStep ==
  ASSUME BookInv, [Next]_vars
  PROVE  BookInv'
<1>1. CASE UNCHANGED vars
  BY <1>1 DEF BookInv, BookType, LastIsTrue, Follows, vars, bookVars
<1>2. CASE Next
  BY <1>2, DeltaKeeps, LostKeeps, AgainKeeps, SnapshotKeeps DEF Next
<1> QED
  BY <1>1, <1>2

\* The inductive invariant of the grid: the feed's last update is in it, and
\* whatever it shows lies inside it and is the exchange's (orderbook.hpp:116).
THEOREM GridFollowsFeed == Spec => []BookInv
BY BookInit, BookStep, PTL DEF Spec

-----------------------------------------------------------------------------
(* What the grid promises *)

\* Every level of a synced grid is the exchange's level at its price, for every
\* size of the grid and every recentering (orderbook.hpp:116, apply_delta).
THEOREM GridIsCurrent == Spec => []LevelsAreCurrent
<1>1. BookInv => LevelsAreCurrent
  BY DEF BookInv, Follows, LevelsAreCurrent
<1> QED
  BY <1>1, GridFollowsFeed, PTL

\* The touch of a grid that shows a sound book t is a level of t.
LEMMA TouchIs ==
  ASSUME BookInv, synced
  PROVE  /\ BestBid > 0 => BestBid \in BidsOf(truth)
         /\ BestAsk > 0 => BestAsk \in AsksOf(truth)
<1>1. /\ Follows /\ cells \in [Sides -> [Index -> Sizes]] /\ MaxLevels \in Nat
      /\ Sizes \subseteq Nat /\ Index = 0..(MaxLevels - 1) /\ "BID" \in Sides /\ "ASK" \in Sides
  BY BookAssumption DEF BookInv, BookType, Index, Sides
<1>2. ASSUME NEW some, some = {i \in Index : i < levels /\ cells["BID"][i] > 0},
             some # {}
      PROVE  base + Max(some) \in BidsOf(truth)
  <2>1. some \subseteq Nat /\ \A i \in some : i <= MaxLevels
    BY <1>1, <1>2
  <2>2. Max(some) \in some
    BY <1>2, <1>1, <2>1, MaxIs
  <2>3. PICK i \in Index : i = Max(some) /\ cells["BID"][i] > 0
    BY <1>2, <2>2
  <2>4. cells["BID"][i] # 0 /\ cells["BID"][i] \in Nat
    <3>1. cells["BID"][i] \in Sizes
      BY ONLY <1>1, i \in Index
    <3>2. PICK x \in Nat : x = cells["BID"][i]
      BY ONLY <1>1, <3>1
    <3>3. x # 0
      BY ONLY <2>3, <3>2
    <3> QED
      BY ONLY <3>2, <3>3
  <2>5. base + i \in Prices /\ cells["BID"][i] = truth["BID"][base + i]
    BY <1>1, <2>4 DEF Follows
  <2> QED
    BY <2>3, <2>5 DEF BidsOf
<1>3. ASSUME NEW some, some = {i \in Index : i < levels /\ cells["ASK"][i] > 0},
             some # {}
      PROVE  base + Min(some) \in AsksOf(truth)
  <2>1. some \subseteq Nat
    BY <1>1, <1>3
  <2>2. Min(some) \in some
    BY <1>3, <1>1, <2>1, MinIs
  <2>3. PICK i \in Index : i = Min(some) /\ cells["ASK"][i] > 0
    BY <1>3, <2>2
  <2>4. cells["ASK"][i] # 0 /\ cells["ASK"][i] \in Nat
    <3>1. cells["ASK"][i] \in Sizes
      BY ONLY <1>1, i \in Index
    <3>2. PICK x \in Nat : x = cells["ASK"][i]
      BY ONLY <1>1, <3>1
    <3>3. x # 0
      BY ONLY <2>3, <3>2
    <3> QED
      BY ONLY <3>2, <3>3
  <2>5. base + i \in Prices /\ cells["ASK"][i] = truth["ASK"][base + i]
    BY <1>1, <2>4 DEF Follows
  <2> QED
    BY <2>3, <2>5 DEF AsksOf
<1> QED
  BY <1>2, <1>3 DEF BestBid, BestAsk

\* The touch the strategies read is never crossed and never better than the
\* exchange's (orderbook.hpp:163, get_best_bid).
THEOREM GridTouchIsReal == Spec => []TouchIsReal
<1>1. ASSUME BookInv PROVE TouchIsReal
  <2> SUFFICES ASSUME synced, BestBid > 0, BestAsk > 0
               PROVE  /\ BestBid < BestAsk
                      /\ BestBid <= Max(BidsOf(truth)) /\ BestAsk >= Min(AsksOf(truth))
    BY DEF TouchIsReal
  <2>1. PICK p, q : p = BestBid /\ q = BestAsk
    OBVIOUS
  <2>2. p \in BidsOf(truth) /\ q \in AsksOf(truth)
    BY <1>1, <2>1, TouchIs
  <2>3. Sound(truth)
    BY <1>1 DEF BookInv, BookType
  <2>4. p < q
    BY <2>2, <2>3 DEF Sound
  <2>5. p <= Max(BidsOf(truth)) /\ Min(AsksOf(truth)) <= q /\ Min(AsksOf(truth)) \in Nat /\ q \in Nat
    BY <2>2, <2>3, BestOfSound
  <2> QED
    BY <2>1, <2>4, <2>5
<1> QED
  BY <1>1, GridFollowsFeed, PTL
=============================================================================
