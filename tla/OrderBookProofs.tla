--------------------------- MODULE OrderBookProofs ---------------------------
(***************************************************************************)
(* The books, for every finite set of prices, every set of sizes, every    *)
(* lot, every session and any number of orders and tickers: the lemmas say *)
(* first what the folds of the model are (a book that replays orders, the  *)
(* depth of a side, the search of the auction), then what an order does to *)
(* the volume of a level, and the theorems follow.                         *)
(***************************************************************************)
EXTENDS OrderBook, FiniteSetTheorems, TLAPS

-----------------------------------------------------------------------------
(* Numbers.                                                                *)

\* A set that has 0, and with a number the next one, has all of them.
LEMMA AllNaturals ==
    ASSUME NEW S, 0 \in S, \A w \in Nat : w \in S => w + 1 \in S
    PROVE  \A w \in Nat : w \in S
<1>. DEFINE Out == {w \in Nat : w \notin S}
<1>1. SUFFICES ASSUME Out # {} PROVE FALSE  OBVIOUS
<1>2. Out \subseteq Nat  OBVIOUS
<1>3. PICK m \in Out : \A k \in Out : ~ (<<k, m>> \in OpToRel(<, Nat))
  <2>. HIDE DEF Out
  <2>. QED  BY <1>1, <1>2, WFMin, NatLessThanWellFounded
<1>4. m # 0 /\ m - 1 \in Nat  OBVIOUS
<1>5. m - 1 \in S
  <2>1. <<m - 1, m>> \in OpToRel(<, Nat)  BY <1>4 DEF OpToRel
  <2>. QED  BY <1>3, <1>4, <2>1
<1>. QED  BY <1>4, <1>5

\* A set of numbers that has one has a least one.
LEMMA LeastOf ==
    ASSUME NEW S \in SUBSET Nat, S # {}
    PROVE  \E m \in S : \A x \in S : m <= x
<1>1. PICK m \in S : \A k \in S : ~ (<<k, m>> \in OpToRel(<, Nat))
  BY WFMin, NatLessThanWellFounded
<1>2. ASSUME NEW x \in S, ~ (m <= x) PROVE FALSE
  <2>1. <<x, m>> \in OpToRel(<, Nat)  BY <1>2 DEF OpToRel
  <2>. QED  BY <1>1, <2>1
<1>. QED  BY <1>2

LEMMA MinOf ==
    ASSUME NEW S \in SUBSET Nat, S # {}
    PROVE  Min(S) \in S /\ \A x \in S : Min(S) <= x
BY LeastOf DEF Min

LEMMA MaxOf ==
    ASSUME NEW w \in Nat, NEW S \in SUBSET (0 .. w), S # {}
    PROVE  Max(S) \in S /\ \A x \in S : x <= Max(S)
<1>. DEFINE Below == {w - x : x \in S}
<1>1. Below \subseteq Nat /\ Below # {}  OBVIOUS
<1>2. PICK d \in Below : \A e \in Below : d <= e
  <2>. HIDE DEF Below
  <2>. QED  BY <1>1, LeastOf
<1>3. PICK m \in S : d = w - m  BY <1>2
<1>4. \A x \in S : x <= m
  <2> SUFFICES ASSUME NEW x \in S PROVE x <= m  OBVIOUS
  <2>1. w - m <= w - x  BY <1>2, <1>3
  <2>. QED  BY <2>1
<1>5. \E y \in S : \A x \in S : y >= x  BY <1>4
<1>. QED  BY <1>5 DEF Max

\* A finite set of numbers has a largest one.
LEMMA MaxOfFinite ==
    ASSUME NEW S \in SUBSET Nat, IsFiniteSet(S), S # {}
    PROVE  Max(S) \in S /\ \A x \in S : x <= Max(S)
<1>. DEFINE Above(m) == {x \in S : x > m}
            Counts == {Cardinality(Above(m)) : m \in S}
<1>1. ASSUME NEW m \in S  PROVE IsFiniteSet(Above(m)) /\ Cardinality(Above(m)) \in Nat
  BY FS_Subset, FS_CardinalityType
<1>2. Counts \in SUBSET Nat /\ Counts # {}  BY <1>1
<1>3. PICK c \in Counts : \A d \in Counts : c <= d
  <2>. HIDE DEF Counts
  <2>. QED  BY <1>2, LeastOf
<1>4. PICK m \in S : c = Cardinality(Above(m))  BY <1>3
<1>5. ASSUME NEW x \in S, ~ (x <= m)  PROVE FALSE
  <2>1. m \in Nat /\ x \in Nat /\ \A y \in S : y \in Nat  OBVIOUS
  <2>2. x > m /\ ~ (x > x) /\ \A y \in S : y > x => y > m  BY <1>5, <2>1
  <2>3. Above(x) \in SUBSET Above(m) /\ x \in Above(m) /\ x \notin Above(x)  BY <2>2
  <2>. HIDE DEF Above
  <2>4. Cardinality(Above(x)) <= Cardinality(Above(m)) /\ Cardinality(Above(x)) # Cardinality(Above(m))
    BY <1>1, <2>3, FS_Subset
  <2>. QED  BY <1>1, <1>3, <1>4, <2>4
<1>6. \E y \in S : \A x \in S : y >= x
  <2>1. \A x \in S : m >= x  BY <1>5
  <2>. QED  BY <2>1
<1>. QED  BY <1>6 DEF Max

-----------------------------------------------------------------------------
(* Ascending: an element stands where its rank is.                         *)

Rank(S, p) == Cardinality({q \in S : q <= p})

LEMMA RankOf ==
    ASSUME NEW S \in SUBSET Nat, IsFiniteSet(S)
    PROVE  /\ Cardinality(S) \in Nat
           /\ \A p \in S : Rank(S, p) \in 1 .. Cardinality(S)
           /\ \A p, q \in S : p < q => Rank(S, p) < Rank(S, q)
           /\ \A i \in 1 .. Cardinality(S) : \E p \in S : Rank(S, p) = i
<1>. DEFINE Upto(p) == {q \in S : q <= p}
            N == Cardinality(S)
<1>1. N \in Nat  BY FS_CardinalityType
<1>2. ASSUME NEW p \in S
      PROVE  IsFiniteSet(Upto(p)) /\ Rank(S, p) \in Nat /\ Rank(S, p) <= N /\ Rank(S, p) # 0
  <2>1. Upto(p) \in SUBSET S /\ p \in Upto(p)  OBVIOUS
  <2>2. Rank(S, p) = Cardinality(Upto(p))  BY DEF Rank
  <2>. HIDE DEF Upto
  <2>3. IsFiniteSet(Upto(p)) /\ Cardinality(Upto(p)) <= N  BY <2>1, FS_Subset
  <2>4. Cardinality(Upto(p)) \in Nat /\ Cardinality(Upto(p)) # 0
    BY <2>1, <2>3, FS_CardinalityType, FS_EmptySet
  <2>. QED  BY <2>2, <2>3, <2>4
<1>3. ASSUME NEW p \in S, NEW q \in S, p < q PROVE Rank(S, p) < Rank(S, q)
  <2>1. Upto(p) \in SUBSET Upto(q) /\ q \in Upto(q) /\ q \notin Upto(p)
    <3>1. p \in Nat /\ q \in Nat /\ \A x \in S : x \in Nat  BY <1>3
    <3>2. \A x \in S : x <= p => x <= q  BY <1>3, <3>1
    <3>3. q <= q /\ ~ (q <= p)  BY <1>3, <3>1
    <3>. QED  BY <3>2, <3>3
  <2>2. Rank(S, p) = Cardinality(Upto(p)) /\ Rank(S, q) = Cardinality(Upto(q))  BY DEF Rank
  <2>3. IsFiniteSet(Upto(q)) /\ IsFiniteSet(Upto(p))  BY <1>2
  <2>. HIDE DEF Upto
  <2>4. Cardinality(Upto(p)) <= Cardinality(Upto(q)) /\ Cardinality(Upto(p)) # Cardinality(Upto(q))
    BY <2>1, <2>3, FS_Subset
  <2>. QED  BY <1>2, <2>2, <2>4
<1>4. ASSUME NEW i \in 1 .. N PROVE \E p \in S : Rank(S, p) = i
  <2>. DEFINE r == [p \in S |-> Rank(S, p)]
  <2>0. ASSUME NEW p \in S PROVE Rank(S, p) \in 1 .. N
    <3>1. Rank(S, p) \in Nat /\ Rank(S, p) <= N /\ Rank(S, p) # 0  BY <1>2
    <3>2. \A a \in Nat : a <= N /\ a # 0 => a \in 1 .. N  BY <1>1
    <3>. QED  BY <3>1, <3>2
  <2>1. r \in [S -> 1 .. N]  BY <2>0
  <2>2. ASSUME NEW p \in S, NEW q \in S, r[p] = r[q] PROVE p = q
    <3>1. p < q \/ q < p \/ p = q  OBVIOUS
    <3>2. Rank(S, p) = Rank(S, q) /\ Rank(S, p) \in Nat  BY <1>2, <2>2
    <3>. HIDE DEF r
    <3>3. ~ (p < q)  BY <1>3, <3>2
    <3>4. ~ (q < p)  BY <1>3, <3>2
    <3>. QED  BY <3>1, <3>3, <3>4
  <2>. HIDE DEF r
  <2>3. r \in Injection(S, 1 .. N)  BY <2>1, <2>2 DEF Injection, IsInjective
  <2>4. IsFiniteSet(1 .. N) /\ Cardinality(1 .. N) = N  BY <1>1, FS_Interval
  <2>5. r \in Surjection(S, 1 .. N)  BY <2>3, <2>4, FS_Injection
  <2>6. \E p \in S : r[p] = i  BY <2>5 DEF Surjection
  <2>. QED  BY <2>6 DEF r
<1>5. ASSUME NEW p \in S PROVE Rank(S, p) \in 1 .. N
  <2>1. Rank(S, p) \in Nat /\ Rank(S, p) <= N /\ Rank(S, p) # 0  BY <1>2
  <2>2. \A a \in Nat : a <= N /\ a # 0 => a \in 1 .. N  BY <1>1
  <2>. QED  BY <2>1, <2>2
<1>. QED  BY <1>1, <1>3, <1>4, <1>5

\* Ascending lists each element of a finite set once, upwards.
LEMMA AscendingLists ==
    ASSUME NEW S \in SUBSET Nat, IsFiniteSet(S)
    PROVE  /\ Cardinality(S) \in Nat /\ DOMAIN Ascending(S) = 1 .. Cardinality(S)
           /\ \A i \in 1 .. Cardinality(S) : Ascending(S)[i] \in S
           /\ \A p \in S : \E i \in 1 .. Cardinality(S) : Ascending(S)[i] = p
           /\ \A i, j \in 1 .. Cardinality(S) : i < j => Ascending(S)[i] < Ascending(S)[j]
<1>. DEFINE N == Cardinality(S)
            A == Ascending(S)
<1>1. N \in Nat /\ DOMAIN A = 1 .. N  BY RankOf DEF Ascending
<1>2. ASSUME NEW i \in 1 .. N PROVE A[i] \in S /\ Rank(S, A[i]) = i
  <2>1. A[i] = CHOOSE p \in S : Rank(S, p) = i  BY DEF Ascending, Rank
  <2>2. \E p \in S : Rank(S, p) = i  BY RankOf
  <2>. QED  BY <2>1, <2>2
<1>3. ASSUME NEW p \in S PROVE \E i \in 1 .. N : A[i] = p
  <2>1. Rank(S, p) \in 1 .. N  BY RankOf
  <2>2. A[Rank(S, p)] \in S /\ Rank(S, A[Rank(S, p)]) = Rank(S, p)  BY <1>2, <2>1
  <2>3. A[Rank(S, p)] = p
    <3>1. A[Rank(S, p)] < p \/ p < A[Rank(S, p)] \/ A[Rank(S, p)] = p
      <4>1. A[Rank(S, p)] \in Nat /\ p \in Nat  BY <2>2
      <4>. HIDE DEF A
      <4>. QED  BY <4>1
    <3>2. Rank(S, p) \in Nat  BY <2>1
    <3>3. ~ (A[Rank(S, p)] < p)
      <4> SUFFICES ASSUME A[Rank(S, p)] < p PROVE FALSE  OBVIOUS
      <4>1. Rank(S, A[Rank(S, p)]) < Rank(S, p)  BY <2>2, RankOf
      <4>. QED  BY <2>2, <3>2, <4>1
    <3>4. ~ (p < A[Rank(S, p)])
      <4> SUFFICES ASSUME p < A[Rank(S, p)] PROVE FALSE  OBVIOUS
      <4>1. Rank(S, p) < Rank(S, A[Rank(S, p)])  BY <2>2, RankOf
      <4>. QED  BY <2>2, <3>2, <4>1
    <3>. QED  BY <3>1, <3>3, <3>4
  <2>. QED  BY <2>1, <2>3
<1>4. ASSUME NEW i \in 1 .. N, NEW j \in 1 .. N, i < j PROVE A[i] < A[j]
  <2>1. A[i] \in Nat /\ A[j] \in Nat  BY <1>2
  <2>2. A[j] < A[i] => Rank(S, A[j]) < Rank(S, A[i])  BY <1>2, RankOf
  <2>3. Rank(S, A[i]) = i /\ Rank(S, A[j]) = j  BY <1>2
  <2>4. ~ (A[j] < A[i]) /\ A[i] # A[j]  BY <1>1, <1>4, <2>2, <2>3
  <2>. QED  BY <2>1, <2>4
<1>. QED  BY <1>1, <1>2, <1>3, <1>4

-----------------------------------------------------------------------------
(* Books: what an order, remove_zeros and an erasure do to the volumes.    *)

IsBook(b) ==
    /\ b = [s \in Side |-> b[s]]
    /\ \A s \in Side : /\ DOMAIN b[s] \subseteq Prices
                       /\ b[s] = [p \in DOMAIN b[s] |-> b[s][p]]
                       /\ \A p \in DOMAIN b[s] : b[s][p] \in Nat
\* remove_zeros has left no empty level.
Proper(b) == \A s \in Side : \A p \in DOMAIN b[s] : b[s][p] > 0

IsOrder(o) == o.side \in Side /\ o.kind \in {"add", "del"} /\ o.price \in Prices /\ o.size \in Nat
At(o, s, p) == o.side = s /\ o.price = p
\* The volume v of its level after order o.
After(o, v) == IF o.kind = "add" THEN v + o.size ELSE IF v >= o.size THEN v - o.size ELSE 0

LEMMA VolumeType ==
    ASSUME NEW b, IsBook(b), NEW s \in Side, NEW p
    PROVE  Volume(b, s, p) \in Nat
BY DEF IsBook, Volume

LEMMA BooksEqual ==
    ASSUME NEW b, NEW c, IsBook(b), IsBook(c), Proper(b), Proper(c),
           \A s \in Side, p \in Prices : Volume(b, s, p) = Volume(c, s, p)
    PROVE  b = c
<1>1. ASSUME NEW s \in Side PROVE b[s] = c[s]
  <2>1. \A p \in Prices : p \in DOMAIN b[s] <=> p \in DOMAIN c[s]
    <3> SUFFICES ASSUME NEW p \in Prices PROVE p \in DOMAIN b[s] <=> p \in DOMAIN c[s]
      OBVIOUS
    <3>1. Volume(b, s, p) = Volume(c, s, p)  OBVIOUS
    <3>2. p \in DOMAIN b[s] <=> Volume(b, s, p) # 0  BY DEF Volume, Proper, IsBook
    <3>3. p \in DOMAIN c[s] <=> Volume(c, s, p) # 0  BY DEF Volume, Proper, IsBook
    <3>. QED  BY <3>1, <3>2, <3>3
  <2>2. DOMAIN b[s] = DOMAIN c[s]  BY <2>1 DEF IsBook
  <2>3. \A p \in DOMAIN b[s] : b[s][p] = c[s][p]
    <3> SUFFICES ASSUME NEW p \in DOMAIN b[s] PROVE b[s][p] = c[s][p]  OBVIOUS
    <3>1. p \in Prices  BY DEF IsBook
    <3>. QED  BY <2>2, <3>1 DEF Volume
  <2>. QED  BY <2>2, <2>3 DEF IsBook
<1>. QED  BY <1>1 DEF IsBook

LEMMA SetVolumeBook ==
    ASSUME NEW b, IsBook(b), NEW o, IsOrder(o), NEW v \in Nat
    PROVE  /\ IsBook(SetVolume(b, o, v))
           /\ DOMAIN SetVolume(b, o, v)[o.side] = {o.price} \union DOMAIN b[o.side]
           /\ \A s \in Side : s # o.side => DOMAIN SetVolume(b, o, v)[s] = DOMAIN b[s]
           /\ \A s \in Side : \A p \in DOMAIN SetVolume(b, o, v)[s] :
                SetVolume(b, o, v)[s][p] = IF At(o, s, p) THEN v ELSE b[s][p]
<1>. DEFINE c == SetVolume(b, o, v)
            f == [p \in {o.price} \union DOMAIN b[o.side] |-> IF p = o.price THEN v ELSE b[o.side][p]]
<1>1. c = [b EXCEPT ![o.side] = f]  BY DEF SetVolume
<1>2. c = [s \in Side |-> c[s]] /\ c[o.side] = f /\ \A s \in Side : s # o.side => c[s] = b[s]
  <2>. HIDE DEF f
  <2>. QED  BY <1>1 DEF IsBook, IsOrder
<1>. HIDE DEF c
<1>3. \A p \in DOMAIN f : f[p] \in Nat /\ p \in Prices  BY DEF IsBook, IsOrder
<1>4. f = [p \in DOMAIN f |-> f[p]]  OBVIOUS
<1>5. IsBook(c)
  <2>. HIDE DEF f
  <2>. QED  BY <1>2, <1>3, <1>4 DEF IsBook
<1>6. DOMAIN c[o.side] = {o.price} \union DOMAIN b[o.side]
      /\ \A s \in Side : s # o.side => DOMAIN c[s] = DOMAIN b[s]
  BY <1>2
<1>7. \A s \in Side : \A p \in DOMAIN c[s] : c[s][p] = IF At(o, s, p) THEN v ELSE b[s][p]
  BY <1>2 DEF At
<1>. QED  BY <1>5, <1>6, <1>7 DEF c

LEMMA AtLevelBook ==
    ASSUME NEW b, IsBook(b), NEW o, IsOrder(o)
    PROVE  /\ IsBook(AtLevel(b, o))
           /\ DOMAIN AtLevel(b, o)[o.side] = {o.price} \union DOMAIN b[o.side]
           /\ \A s \in Side : s # o.side => DOMAIN AtLevel(b, o)[s] = DOMAIN b[s]
           /\ \A s \in Side, p \in Prices : Volume(AtLevel(b, o), s, p) =
                IF At(o, s, p) THEN After(o, Volume(b, s, p)) ELSE Volume(b, s, p)
<1>. DEFINE v == After(o, Volume(b, o.side, o.price))
            c == AtLevel(b, o)
<1>1. v \in Nat  BY VolumeType DEF After, IsOrder
<1>2. c = SetVolume(b, o, v)  BY DEF AtLevel, After
<1>. HIDE DEF v, c
<1>3. IsBook(c)  BY <1>1, <1>2, SetVolumeBook
<1>4. /\ DOMAIN c[o.side] = {o.price} \union DOMAIN b[o.side]
      /\ \A s \in Side : s # o.side => DOMAIN c[s] = DOMAIN b[s]
      /\ \A s \in Side : \A p \in DOMAIN c[s] : c[s][p] = IF At(o, s, p) THEN v ELSE b[s][p]
  <2>1. DOMAIN c[o.side] = {o.price} \union DOMAIN b[o.side]  BY <1>1, <1>2, SetVolumeBook
  <2>2. ASSUME NEW s \in Side, s # o.side PROVE DOMAIN c[s] = DOMAIN b[s]
    BY <1>1, <1>2, <2>2, SetVolumeBook
  <2>3. ASSUME NEW s \in Side, NEW p \in DOMAIN c[s]
        PROVE c[s][p] = IF At(o, s, p) THEN v ELSE b[s][p]
    BY <1>1, <1>2, <2>3, SetVolumeBook
  <2>. QED  BY <2>1, <2>2, <2>3
<1>6. ASSUME NEW s \in Side, NEW p \in Prices
      PROVE  Volume(c, s, p) = IF At(o, s, p) THEN After(o, Volume(b, s, p)) ELSE Volume(b, s, p)
  <2>1. CASE At(o, s, p)
    <3>1. p \in DOMAIN c[s] /\ c[s][p] = v  BY <2>1, <1>4 DEF At
    <3>. QED  BY <2>1, <3>1 DEF Volume, v, At
  <2>2. CASE ~ At(o, s, p)
    <3>1. p \in DOMAIN c[s] <=> p \in DOMAIN b[s]
      <4>1. CASE s = o.side  BY <2>2, <4>1, <1>4 DEF At
      <4>2. CASE s # o.side  BY <4>2, <1>4
      <4>. QED  BY <4>1, <4>2
    <3>. QED  BY <2>2, <3>1, <1>4 DEF Volume
  <2>. QED  BY <2>1, <2>2
<1>. QED  BY <1>3, <1>4, <1>6 DEF c

LEMMA RemoveZerosBook ==
    ASSUME NEW b, IsBook(b)
    PROVE  /\ IsBook(RemoveZeros(b)) /\ Proper(RemoveZeros(b))
           /\ \A s \in Side : DOMAIN RemoveZeros(b)[s] \subseteq DOMAIN b[s]
           /\ \A s \in Side, p \in Prices : Volume(RemoveZeros(b), s, p) = Volume(b, s, p)
<1>. DEFINE c == RemoveZeros(b)
<1>1. c = [s \in Side |-> [p \in {q \in DOMAIN b[s] : b[s][q] > 0} |-> b[s][p]]]
  BY DEF RemoveZeros
<1>2. ASSUME NEW s \in Side
      PROVE  /\ DOMAIN c[s] = {q \in DOMAIN b[s] : b[s][q] > 0}
             /\ c[s] = [p \in DOMAIN c[s] |-> c[s][p]]
             /\ \A p \in DOMAIN c[s] : c[s][p] = b[s][p]
  BY <1>1
<1>3. c = [s \in Side |-> c[s]]  BY <1>1
<1>. HIDE DEF c
<1>4. IsBook(c)  BY <1>2, <1>3 DEF IsBook
<1>5. Proper(c)  BY <1>2 DEF Proper
<1>6. ASSUME NEW s \in Side, NEW p \in Prices PROVE Volume(c, s, p) = Volume(b, s, p)
  <2>1. CASE p \in DOMAIN b[s] /\ b[s][p] > 0
    BY <1>2, <2>1 DEF Volume
  <2>2. CASE p \in DOMAIN b[s] /\ ~ (b[s][p] > 0)
    <3>1. b[s][p] = 0  BY <2>2 DEF IsBook
    <3>2. p \notin DOMAIN c[s]  BY <1>2, <2>2
    <3>. QED  BY <2>2, <3>1, <3>2 DEF Volume
  <2>3. CASE p \notin DOMAIN b[s]
    BY <1>2, <2>3 DEF Volume
  <2>. QED  BY <2>1, <2>2, <2>3
<1>7. \A s \in Side : DOMAIN c[s] \subseteq DOMAIN b[s]  BY <1>2
<1>. QED  BY <1>4, <1>5, <1>6, <1>7 DEF c

LEMMA KeepBook ==
    ASSUME NEW b, IsBook(b), NEW s \in Side, NEW levels \in SUBSET DOMAIN b[s]
    PROVE  /\ IsBook(Keep(b, s, levels))
           /\ DOMAIN Keep(b, s, levels)[s] = levels
           /\ \A r \in Side : r # s => Keep(b, s, levels)[r] = b[r]
           /\ \A r \in Side, p \in Prices : Volume(Keep(b, s, levels), r, p) =
                IF r = s /\ p \notin levels THEN 0 ELSE Volume(b, r, p)
<1>. DEFINE c == Keep(b, s, levels)
            f == [p \in levels |-> b[s][p]]
<1>1. c = [b EXCEPT ![s] = f]  BY DEF Keep
<1>2. c = [r \in Side |-> c[r]] /\ c[s] = f /\ \A r \in Side : r # s => c[r] = b[r]
  <2>. HIDE DEF f
  <2>. QED  BY <1>1 DEF IsBook
<1>. HIDE DEF c
<1>3. \A p \in DOMAIN f : f[p] \in Nat /\ p \in Prices  BY DEF IsBook
<1>4. IsBook(c)
  <2>1. f = [p \in DOMAIN f |-> f[p]]  OBVIOUS
  <2>. HIDE DEF f
  <2>. QED  BY <1>2, <1>3, <2>1 DEF IsBook
<1>5. ASSUME NEW r \in Side, NEW p \in Prices
      PROVE  Volume(c, r, p) = IF r = s /\ p \notin levels THEN 0 ELSE Volume(b, r, p)
  BY <1>2 DEF Volume
<1>. QED  BY <1>2, <1>4, <1>5 DEF c

-----------------------------------------------------------------------------
(* Replayed: a book after each order, and what is left of a level.         *)

Reader(b, o) == Updated(b, o, FALSE, FALSE)

\* The fold of Replayed, as a function of the orders that have been replayed.
IsReplay(r, b, orders, indices) ==
    r = [s \in SUBSET indices |->
            IF s = {} THEN b ELSE Reader(r[s \ {Max(s)}], orders[Max(s)])]
Replay(b, orders) == CHOOSE r : IsReplay(r, b, orders, DOMAIN orders)

LEMMA ReplayedIsReplay ==
    ASSUME NEW b, NEW orders
    PROVE  Replayed(b, orders) = Replay(b, orders)[DOMAIN orders]
BY DEF Replayed, Replay, IsReplay, Reader, FoldLeft, MapThenFoldSet

\* There is such a function: one for the first w orders gives one for w + 1.
LEMMA ReplayExists ==
    ASSUME NEW b, NEW orders, NEW m \in Nat
    PROVE  \E r : IsReplay(r, b, orders, 1 .. m)
<1>. DEFINE Good(r, w) == r = [s \in SUBSET (1 .. w) |->
                IF s = {} THEN b ELSE Reader(r[s \ {Max(s)}], orders[Max(s)])]
            Has == {w \in Nat : \E r : Good(r, w)}
<1>1. 0 \in Has
  <2>1. SUBSET (1 .. 0) = {{}}  OBVIOUS
  <2>2. Good([s \in SUBSET (1 .. 0) |-> b], 0)  BY <2>1
  <2>. HIDE DEF Good
  <2>. QED  BY <2>2
<1>2. ASSUME NEW w \in Nat, w \in Has PROVE w + 1 \in Has
  <2>1. PICK r : Good(r, w)  BY <1>2
  <2>. DEFINE q == [s \in SUBSET (1 .. w + 1) |->
                IF s = {} THEN b ELSE Reader(r[s \ {Max(s)}], orders[Max(s)])]
  <2>2. ASSUME NEW s \in SUBSET (1 .. w) PROVE s \in SUBSET (1 .. w + 1) /\ q[s] = r[s]
    <3>1. \A x \in 1 .. w : x \in 1 .. w + 1  OBVIOUS
    <3>2. s \in SUBSET (1 .. w + 1)  BY <3>1, Zenon
    <3>3. r[s] = IF s = {} THEN b ELSE Reader(r[s \ {Max(s)}], orders[Max(s)])
      BY <2>1, Zenon
    <3>4. q[s] = IF s = {} THEN b ELSE Reader(r[s \ {Max(s)}], orders[Max(s)])
      BY <3>2, Zenon
    <3>. QED  BY <3>2, <3>3, <3>4, Zenon
  <2>3. ASSUME NEW s \in SUBSET (1 .. w + 1), s # {} PROVE s \ {Max(s)} \in SUBSET (1 .. w)
    <3>0. \A x \in 1 .. w + 1 : x \in 0 .. w + 1  OBVIOUS
    <3>1. s \in SUBSET (0 .. w + 1) /\ w + 1 \in Nat  BY <3>0
    <3>2. Max(s) \in s /\ \A x \in s : x <= Max(s)  BY <2>3, <3>1, MaxOf
    <3>3. \A x \in s : x # Max(s) => x \in 1 .. w
      <4> SUFFICES ASSUME NEW x \in s, x # Max(s) PROVE x \in 1 .. w  OBVIOUS
      <4>1. x \in 1 .. w + 1 /\ Max(s) \in 1 .. w + 1 /\ x <= Max(s)  BY <3>2
      <4>. QED  BY <4>1
    <3>. QED  BY <3>3, Zenon
  <2>4. \A s \in SUBSET (1 .. w + 1) : s # {} => q[s \ {Max(s)}] = r[s \ {Max(s)}]
    <3>. HIDE DEF q
    <3>. QED  BY <2>2, <2>3, Zenon
  <2>5. q = [s \in SUBSET (1 .. w + 1) |->
                IF s = {} THEN b ELSE Reader(q[s \ {Max(s)}], orders[Max(s)])]
    <3>. DEFINE f(g, s) == IF s = {} THEN b ELSE Reader(g[s \ {Max(s)}], orders[Max(s)])
    <3>1. \A s \in SUBSET (1 .. w + 1) : f(q, s) = f(r, s)  BY <2>4, Zenon
    <3>2. q = [s \in SUBSET (1 .. w + 1) |-> f(r, s)]  BY Zenon
    <3>. HIDE DEF q, f
    <3>3. q = [s \in SUBSET (1 .. w + 1) |-> f(q, s)]  BY <3>1, <3>2
    <3>. QED  BY <3>3 DEF f
  <2>6. Good(q, w + 1)
    <3>. HIDE DEF q
    <3>. QED  BY <2>5
  <2>. HIDE DEF Good, q
  <2>. QED  BY <2>6
<1>3. m \in Has
  <2>. HIDE DEF Has
  <2>. QED  BY <1>1, <1>2, AllNaturals
<1>. QED  BY <1>3 DEF IsReplay

\* The books a reader has: the first before, the last after all orders.
Steps(R, b, orders, m) ==
    /\ R[0] = b /\ R[m] = Replayed(b, orders)
    /\ \A i \in 1 .. m : R[i] = Reader(R[i - 1], orders[i])

LEMMA ReplaySteps ==
    ASSUME NEW b, NEW m \in Nat, NEW orders, DOMAIN orders = 1 .. m
    PROVE  \E R : Steps(R, b, orders, m)
<1>. DEFINE r == Replay(b, orders)
            R == [i \in 0 .. m |-> r[1 .. i]]
<1>1. r = [s \in SUBSET (1 .. m) |->
        IF s = {} THEN b ELSE Reader(r[s \ {Max(s)}], orders[Max(s)])]
  <2>1. r = CHOOSE x : IsReplay(x, b, orders, 1 .. m)  BY Zenon DEF Replay
  <2>2. IsReplay(r, b, orders, 1 .. m)
    <3>. HIDE DEF r
    <3>. QED  BY <2>1, ReplayExists, Zenon
  <2>. QED  BY <2>2, Zenon DEF IsReplay
<1>2. R[0] = b
  <2>1. r[{}] = b  BY <1>1, Zenon
  <2>2. 1 .. 0 = {} /\ 0 \in 0 .. m  OBVIOUS
  <2>. HIDE DEF r
  <2>. QED  BY <2>1, <2>2
<1>3. R[m] = Replayed(b, orders)
  <2>. HIDE DEF r
  <2>. QED  BY ReplayedIsReplay DEF r
<1>4. ASSUME NEW i \in 1 .. m PROVE R[i] = Reader(R[i - 1], orders[i])
  <2>. HIDE DEF r
  <2>0. (\A x \in 1 .. i : x \in 1 .. m /\ x \in 0 .. i) /\ i \in 1 .. i /\ i \in Nat  OBVIOUS
  <2>1. 1 .. i \in SUBSET (1 .. m) /\ 1 .. i # {} /\ 1 .. i \in SUBSET (0 .. i)  BY <2>0, Zenon
  <2>2. Max(1 .. i) \in 1 .. i /\ \A x \in 1 .. i : x <= Max(1 .. i)  BY <2>0, <2>1, MaxOf
  <2>3. Max(1 .. i) = i  BY <2>2
  <2>4. (1 .. i) \ {i} = 1 .. i - 1  OBVIOUS
  <2>5. r[1 .. i] = Reader(r[(1 .. i) \ {Max(1 .. i)}], orders[Max(1 .. i)])
    BY <1>1, <2>1, Zenon
  <2>6. i \in 0 .. m /\ i - 1 \in 0 .. m  OBVIOUS
  <2>. QED  BY <2>3, <2>4, <2>5, <2>6
<1>. HIDE DEF R
<1>. QED  BY <1>2, <1>3, <1>4 DEF Steps

LEMMA NextIn ==
    ASSUME NEW m \in Nat, NEW w \in Nat, w + 1 <= m
    PROVE  w + 1 \in 1 .. m /\ w <= m /\ w + 1 - 1 = w
OBVIOUS

LEMMA ReaderBook ==
    ASSUME NEW b, IsBook(b), NEW o, IsOrder(o)
    PROVE  /\ IsBook(Reader(b, o)) /\ Proper(Reader(b, o))
           /\ \A s \in Side, p \in Prices : Volume(Reader(b, o), s, p) =
                IF At(o, s, p) THEN After(o, Volume(b, s, p)) ELSE Volume(b, s, p)
<1>1. Reader(b, o) = RemoveZeros(AtLevel(b, o))  BY DEF Reader, Updated
<1>2. IsBook(AtLevel(b, o))  BY AtLevelBook
<1>3. IsBook(RemoveZeros(AtLevel(b, o))) /\ Proper(RemoveZeros(AtLevel(b, o)))
  BY <1>2, RemoveZerosBook
<1>4. ASSUME NEW s \in Side, NEW p \in Prices
      PROVE  Volume(RemoveZeros(AtLevel(b, o)), s, p) =
                IF At(o, s, p) THEN After(o, Volume(b, s, p)) ELSE Volume(b, s, p)
  <2>1. Volume(RemoveZeros(AtLevel(b, o)), s, p) = Volume(AtLevel(b, o), s, p)
    BY <1>2, RemoveZerosBook
  <2>. QED  BY <2>1, AtLevelBook
<1>. QED  BY <1>1, <1>3, <1>4

\* A replay changes the volume of a level by the orders at the level only: none
\* leaves it, one is what there is after it.
LEMMA ReplayedBook ==
    ASSUME NEW b, IsBook(b), Proper(b), NEW m \in Nat, NEW orders, DOMAIN orders = 1 .. m,
           \A i \in 1 .. m : IsOrder(orders[i])
    PROVE  /\ IsBook(Replayed(b, orders)) /\ Proper(Replayed(b, orders))
           /\ \A s \in Side, p \in Prices :
                (\A i \in 1 .. m : ~ At(orders[i], s, p)) =>
                    Volume(Replayed(b, orders), s, p) = Volume(b, s, p)
           /\ \A s \in Side, p \in Prices, i \in 1 .. m :
                At(orders[i], s, p) /\ (\A j \in 1 .. m : At(orders[j], s, p) => j = i) =>
                    Volume(Replayed(b, orders), s, p) = After(orders[i], Volume(b, s, p))
<1>0. PICK R : Steps(R, b, orders, m)  BY ReplaySteps
<1>1. /\ R[0] = b /\ R[m] = Replayed(b, orders)
      /\ \A i \in 1 .. m : R[i] = Reader(R[i - 1], orders[i])
  BY <1>0 DEF Steps
<1>2. \A w \in Nat : w <= m => IsBook(R[w]) /\ Proper(R[w])
  <2>. DEFINE S == {w \in Nat : w <= m => IsBook(R[w]) /\ Proper(R[w])}
  <2>1. 0 \in S  BY <1>1
  <2>2. ASSUME NEW w \in Nat, w \in S PROVE w + 1 \in S
    <3> SUFFICES ASSUME w + 1 <= m PROVE IsBook(R[w + 1]) /\ Proper(R[w + 1])  OBVIOUS
    <3>1. w + 1 \in 1 .. m /\ w <= m /\ w + 1 - 1 = w  BY NextIn
    <3>2. R[w + 1] = Reader(R[w], orders[w + 1])  BY <1>1, <3>1
    <3>3. IsBook(R[w])  BY <2>2, <3>1
    <3>. QED  BY <3>1, <3>2, <3>3, ReaderBook
  <2>3. \A w \in Nat : w \in S
    <3>. HIDE DEF S
    <3>. QED  BY <2>1, <2>2, AllNaturals
  <2>. QED  BY <2>3
<1>3. ASSUME NEW s \in Side, NEW p \in Prices, NEW w \in Nat, w + 1 <= m
      PROVE  Volume(R[w + 1], s, p) = IF At(orders[w + 1], s, p)
                                      THEN After(orders[w + 1], Volume(R[w], s, p))
                                      ELSE Volume(R[w], s, p)
  <2>1. w + 1 \in 1 .. m /\ w <= m /\ w + 1 - 1 = w  BY <1>3, NextIn
  <2>2. R[w + 1] = Reader(R[w], orders[w + 1])  BY <1>1, <2>1
  <2>3. IsBook(R[w])  BY <1>2, <2>1, Zenon
  <2>. QED  BY <2>1, <2>2, <2>3, ReaderBook
\* With at most one order at the level, at i or, for i = 0, none.
<1>4. ASSUME NEW s \in Side, NEW p \in Prices, NEW i \in 0 .. m,
             \A j \in 1 .. m : At(orders[j], s, p) <=> j = i
      PROVE  \A w \in Nat : w <= m => Volume(R[w], s, p) =
                IF i = 0 \/ w < i THEN Volume(b, s, p) ELSE After(orders[i], Volume(b, s, p))
  <2>. DEFINE S == {w \in Nat : w <= m => Volume(R[w], s, p) =
                IF i = 0 \/ w < i THEN Volume(b, s, p) ELSE After(orders[i], Volume(b, s, p))}
  <2>1. 0 \in S  BY <1>1
  <2>2. ASSUME NEW w \in Nat, w \in S PROVE w + 1 \in S
    <3> SUFFICES ASSUME w + 1 <= m
                 PROVE  Volume(R[w + 1], s, p) =
                    IF i = 0 \/ w + 1 < i THEN Volume(b, s, p) ELSE After(orders[i], Volume(b, s, p))
      OBVIOUS
    <3>1. w + 1 \in 1 .. m /\ w <= m  BY NextIn
    <3>2. Volume(R[w], s, p) =
            IF i = 0 \/ w < i THEN Volume(b, s, p) ELSE After(orders[i], Volume(b, s, p))
      BY <2>2, <3>1
    <3>3. CASE w + 1 = i
      <4>1. At(orders[w + 1], s, p)  BY <1>4, <3>1, <3>3
      <4>2. Volume(R[w], s, p) = Volume(b, s, p)  BY <3>2, <3>3
      <4>3. Volume(R[w + 1], s, p) = After(orders[i], Volume(b, s, p))
        BY <1>3, <3>3, <4>1, <4>2
      <4>. QED  BY <3>3, <4>3
    <3>4. CASE w + 1 # i
      <4>1. ~ At(orders[w + 1], s, p)  BY <1>4, <3>1, <3>4
      <4>2. Volume(R[w + 1], s, p) = Volume(R[w], s, p)  BY <1>3, <4>1
      <4>3. w < i <=> w + 1 < i  BY <3>4
      <4>. QED  BY <3>2, <4>2, <4>3
    <3>. QED  BY <3>3, <3>4
  <2>3. \A w \in Nat : w \in S
    <3>. HIDE DEF S
    <3>. QED  BY <2>1, <2>2, AllNaturals
  <2>. QED  BY <2>3
<1>5. IsBook(Replayed(b, orders)) /\ Proper(Replayed(b, orders))  BY <1>1, <1>2
<1>6. ASSUME NEW s \in Side, NEW p \in Prices, \A i \in 1 .. m : ~ At(orders[i], s, p)
      PROVE  Volume(Replayed(b, orders), s, p) = Volume(b, s, p)
  <2>1. 0 \in 0 .. m /\ \A j \in 1 .. m : At(orders[j], s, p) <=> j = 0  BY <1>6
  <2>. QED  BY <1>1, <1>4, <2>1
<1>7. ASSUME NEW s \in Side, NEW p \in Prices, NEW i \in 1 .. m, At(orders[i], s, p),
             \A j \in 1 .. m : At(orders[j], s, p) => j = i
      PROVE  Volume(Replayed(b, orders), s, p) = After(orders[i], Volume(b, s, p))
  <2>1. i \in 0 .. m /\ i # 0 /\ ~ (m < i) /\ \A j \in 1 .. m : At(orders[j], s, p) <=> j = i
    BY <1>7
  <2>. QED  BY <1>1, <1>4, <2>1
<1>. QED  BY <1>5, <1>6, <1>7

-----------------------------------------------------------------------------
(* Consumed: the levels that an order would cross, each once.              *)

\* The sequence lists the set: each element once, and nothing else.
Lists(seq, S) ==
    /\ DOMAIN seq = 1 .. Len(seq) /\ Len(seq) \in Nat
    /\ \A i \in 1 .. Len(seq) : seq[i] \in S
    /\ \A p \in S : \E i \in 1 .. Len(seq) : seq[i] = p
    /\ \A i, j \in 1 .. Len(seq) : seq[i] = seq[j] => i = j

LEMMA AscendingOnce ==
    ASSUME NEW S \in SUBSET Nat, IsFiniteSet(S)
    PROVE  Lists(Ascending(S), S) /\ Lists(Reverse(Ascending(S)), S)
<1>. DEFINE N == Cardinality(S)
            A == Ascending(S)
            R == Reverse(A)
<1>1. /\ N \in Nat /\ DOMAIN A = 1 .. N
      /\ \A i \in 1 .. N : A[i] \in S
      /\ \A p \in S : \E i \in 1 .. N : A[i] = p
      /\ \A i, j \in 1 .. N : i < j => A[i] < A[j]
  BY AscendingLists
<1>2. A = [i \in 1 .. N |-> A[i]]  BY DEF Ascending
<1>. HIDE DEF A, N
<1>3. A \in Seq(S) /\ Len(A) = N
  <2>1. A \in [1 .. N -> S]  BY <1>1, <1>2
  <2>. QED  BY <1>1, <2>1
<1>4. \A i, j \in 1 .. N : A[i] = A[j] => i = j
  <2> SUFFICES ASSUME NEW i \in 1 .. N, NEW j \in 1 .. N, A[i] = A[j] PROVE i = j  OBVIOUS
  <2>1. A[i] \in Nat /\ A[j] \in Nat  BY <1>1
  <2>2. ~ (i < j)
    <3> SUFFICES ASSUME i < j PROVE FALSE  OBVIOUS
    <3>1. A[i] < A[j]  BY <1>1
    <3>. QED  BY <2>1, <3>1
  <2>3. ~ (j < i)
    <3> SUFFICES ASSUME j < i PROVE FALSE  OBVIOUS
    <3>1. A[j] < A[i]  BY <1>1
    <3>. QED  BY <2>1, <3>1
  <2>. QED  BY <1>1, <2>2, <2>3
<1>5. Lists(A, S)  BY <1>1, <1>3, <1>4 DEF Lists
<1>6. R = [i \in 1 .. N |-> A[N - i + 1]]  BY <1>3 DEF Reverse
<1>7. \A i \in 1 .. N : N - i + 1 \in 1 .. N /\ N - (N - i + 1) + 1 = i
  BY <1>1
<1>8. DOMAIN R = 1 .. N /\ \A i \in 1 .. N : R[i] = A[N - i + 1]  BY <1>6
<1>. HIDE DEF R
<1>9. \A i \in 1 .. N : R[i] \in S  BY <1>1, <1>7, <1>8
<1>10. Len(R) = N
  <2>1. R \in [1 .. N -> S]  BY <1>6, <1>9
  <2>. QED  BY <1>1, <2>1
<1>11. ASSUME NEW p \in S PROVE \E i \in 1 .. N : R[i] = p
  <2>1. PICK j \in 1 .. N : A[j] = p  BY <1>1
  <2>2. N - j + 1 \in 1 .. N /\ R[N - j + 1] = A[N - (N - j + 1) + 1]  BY <1>7, <1>8
  <2>3. N - (N - j + 1) + 1 = j  BY <1>7
  <2>. QED  BY <2>1, <2>2, <2>3
<1>12. ASSUME NEW i \in 1 .. N, NEW j \in 1 .. N, R[i] = R[j] PROVE i = j
  <2>1. N - i + 1 = N - j + 1  BY <1>4, <1>7, <1>8, <1>12
  <2>. QED  BY <1>1, <2>1
<1>13. Lists(R, S)  BY <1>1, <1>8, <1>9, <1>10, <1>11, <1>12 DEF Lists
<1>. QED  BY <1>5, <1>13 DEF A, R

\* Level p of the opposite side is in the way of an order of side s at price q.
Past(s, p, q) == IF s = "bid" THEN q > p ELSE p > q
Reached(s, p, q) == IF s = "bid" THEN q >= p ELSE p >= q
PastLevels(b, s) == {p \in DOMAIN b[Opposite(s)] : \E q \in DOMAIN b[s] : Past(s, p, q)}
ReachedLevels(b, s) == {p \in DOMAIN b[Opposite(s)] : \E q \in DOMAIN b[s] : Reached(s, p, q)}

LEMMA OppositeSide ==
    ASSUME NEW s \in Side
    PROVE  Opposite(s) \in Side /\ Opposite(s) # s /\ \A r \in Side : r = s \/ r = Opposite(s)
BY DEF Side, Opposite

LEMMA LevelsFinite ==
    ASSUME NEW b, IsBook(b), NEW s \in Side, NEW S \in SUBSET DOMAIN b[s]
    PROVE  IsFiniteSet(S) /\ S \in SUBSET Nat
<1>1. S \in SUBSET Prices  BY DEF IsBook
<1>2. IsFiniteSet(Prices) /\ Prices \subseteq Nat  BY BookAssumption
<1>. QED  BY <1>1, <1>2, FS_Subset

LEMMA ConsumedPast ==
    ASSUME NEW b, IsBook(b), NEW s \in Side
    PROVE  Lists(Consumed(b, s, TRUE), PastLevels(b, s))
<1>1. PastLevels(b, s) \in SUBSET Nat /\ IsFiniteSet(PastLevels(b, s))
  BY LevelsFinite, OppositeSide DEF PastLevels
<1>2. \A p \in DOMAIN b[Opposite(s)], q \in DOMAIN b[s] :
        Past(s, p, q) <=> (IF s = "bid" THEN q - p ELSE p - q) > 0
  <2>1. DOMAIN b[Opposite(s)] \in SUBSET Nat /\ DOMAIN b[s] \in SUBSET Nat
    BY OppositeSide, LevelsFinite
  <2>2. \A p, q \in Nat : Past(s, p, q) <=> (IF s = "bid" THEN q - p ELSE p - q) > 0
    BY DEF Past
  <2>. QED  BY <2>1, <2>2
<1>3. PastLevels(b, s) = {p \in DOMAIN b[Opposite(s)] :
        \E q \in DOMAIN b[s] : (IF s = "bid" THEN q - p ELSE p - q) > 0}
  BY <1>2 DEF PastLevels
<1>4. Consumed(b, s, TRUE) = IF s = "bid" THEN Ascending(PastLevels(b, s))
                             ELSE Reverse(Ascending(PastLevels(b, s)))
  BY <1>3, Zenon DEF Consumed
<1>. QED  BY <1>1, <1>4, AscendingOnce

LEMMA ConsumedReached ==
    ASSUME NEW b, IsBook(b), NEW s \in Side
    PROVE  Lists(Consumed(b, s, FALSE), ReachedLevels(b, s))
<1>1. ReachedLevels(b, s) \in SUBSET Nat /\ IsFiniteSet(ReachedLevels(b, s))
  BY LevelsFinite, OppositeSide DEF ReachedLevels
<1>2. \A p \in DOMAIN b[Opposite(s)], q \in DOMAIN b[s] :
        Reached(s, p, q) <=> (IF s = "bid" THEN q - p ELSE p - q) >= 0
  <2>1. DOMAIN b[Opposite(s)] \in SUBSET Nat /\ DOMAIN b[s] \in SUBSET Nat
    BY OppositeSide, LevelsFinite
  <2>2. \A p, q \in Nat : Reached(s, p, q) <=> (IF s = "bid" THEN q - p ELSE p - q) >= 0
    BY DEF Reached
  <2>. QED  BY <2>1, <2>2
<1>3. ReachedLevels(b, s) = {p \in DOMAIN b[Opposite(s)] :
        \E q \in DOMAIN b[s] : (IF s = "bid" THEN q - p ELSE p - q) >= 0}
  BY <1>2 DEF ReachedLevels
<1>4. Consumed(b, s, FALSE) = IF s = "bid" THEN Ascending(ReachedLevels(b, s))
                              ELSE Reverse(Ascending(ReachedLevels(b, s)))
  BY <1>3, Zenon DEF Consumed
<1>. QED  BY <1>1, <1>4, AscendingOnce

-----------------------------------------------------------------------------
(* remove_crosses: the generated deletions and the book they leave.        *)

AtOrder(o) == AtLevel(book, o)
Generated(o) == Generate(AtOrder(o), o)
Gone(o) == {Generated(o)[i].price : i \in DOMAIN Generated(o)}
Kept(o) == Keep(AtOrder(o), Opposite(o.side), DOMAIN AtOrder(o)[Opposite(o.side)] \ Gone(o))

LEMMA GeneratedOrders ==
    ASSUME IsBook(book), NEW o, IsOrder(o)
    PROVE  /\ Len(Generated(o)) \in Nat /\ DOMAIN Generated(o) = 1 .. Len(Generated(o))
           /\ \A i \in DOMAIN Generated(o) :
                /\ IsOrder(Generated(o)[i]) /\ Generated(o)[i].kind = "del"
                /\ Generated(o)[i].side = Opposite(o.side)
                /\ Generated(o)[i].price \in DOMAIN AtOrder(o)[Opposite(o.side)]
                /\ Generated(o)[i].size = AtOrder(o)[Opposite(o.side)][Generated(o)[i].price]
           /\ \A i, j \in DOMAIN Generated(o) :
                Generated(o)[i].price = Generated(o)[j].price => i = j
           /\ o.kind = "add" /\ afterOpen /\ Trading(o.msecs) =>
                PastLevels(AtOrder(o), o.side) \subseteq Gone(o)
           /\ o.kind # "add" => Gone(o) = {}
<1>. DEFINE b == AtOrder(o)
            opp == Opposite(o.side)
            C == Consumed(b, o.side, TRUE)
            g == Generated(o)
<1>1. IsBook(b) /\ o.side \in Side /\ opp \in Side
  BY AtLevelBook, OppositeSide DEF AtOrder, IsOrder
<1>2. CASE o.kind = "add" /\ afterOpen /\ Trading(o.msecs)
  <2>1. Lists(C, PastLevels(b, o.side))
    <3>. HIDE DEF b
    <3>. QED  BY <1>1, ConsumedPast
  <2>2. g = [i \in DOMAIN C |-> [side |-> opp, kind |-> "del", price |-> C[i],
                                 size |-> b[opp][C[i]], msecs |-> o.msecs]]
    BY <1>2 DEF Generated, Generate
  <2>3. PastLevels(b, o.side) \subseteq DOMAIN b[opp]  BY DEF PastLevels
  <2>. HIDE DEF b, C, g, opp
  <2>4. DOMAIN g = DOMAIN C /\ \A i \in DOMAIN C : g[i].side = opp /\ g[i].kind = "del"
            /\ g[i].price = C[i] /\ g[i].size = b[opp][C[i]]
    BY <2>2
  <2>5. DOMAIN C = 1 .. Len(C) /\ Len(C) \in Nat
        /\ (\A i \in DOMAIN C : C[i] \in PastLevels(b, o.side))
        /\ (\A i, j \in DOMAIN C : C[i] = C[j] => i = j)
        /\ \A p \in PastLevels(b, o.side) : \E i \in DOMAIN C : C[i] = p
    BY <2>1 DEF Lists
  <2>6. Len(g) = Len(C)
    <3>1. g \in Seq({g[i] : i \in DOMAIN g})
      <4>1. g = [i \in DOMAIN C |-> g[i]]  BY <2>2, <2>4, Zenon
      <4>2. g \in [1 .. Len(C) -> {g[i] : i \in DOMAIN g}]  BY <2>4, <2>5, <4>1
      <4>. QED  BY <2>5, <4>2
    <3>. QED  BY <2>4, <2>5, <3>1
  <2>7. ASSUME NEW i \in DOMAIN g
        PROVE  IsOrder(g[i]) /\ g[i].price \in DOMAIN b[opp]
    <3>1. C[i] \in DOMAIN b[opp]  BY <2>3, <2>4, <2>5
    <3>2. C[i] \in Prices /\ b[opp][C[i]] \in Nat  BY <1>1, <3>1 DEF IsBook
    <3>. QED  BY <1>1, <2>4, <3>1, <3>2 DEF IsOrder
  <2>8. PastLevels(b, o.side) \subseteq Gone(o)
    <3>1. \A p \in PastLevels(b, o.side) : \E i \in DOMAIN g : g[i].price = p
      BY <2>4, <2>5
    <3>. QED  BY <3>1 DEF Gone, g
  <2>9. \A i, j \in DOMAIN g : g[i].price = g[j].price => i = j  BY <2>4, <2>5
  <2>10. \A i \in DOMAIN g : g[i].size = b[opp][g[i].price] /\ g[i].side = opp /\ g[i].kind = "del"
    BY <2>4
  <2>. QED  BY <1>2, <2>4, <2>5, <2>6, <2>7, <2>8, <2>9, <2>10 DEF b, g, opp
<1>3. CASE ~ (o.kind = "add" /\ afterOpen /\ Trading(o.msecs))
  <2>1. g = <<>>  BY <1>3, Zenon DEF Generated, Generate
  <2>2. Gone(o) = {}  BY <2>1 DEF Gone
  <2>. QED  BY <1>3, <2>1, <2>2
<1>. QED  BY <1>2, <1>3

LEMMA KeptBook ==
    ASSUME IsBook(book), NEW o, IsOrder(o)
    PROVE  /\ IsBook(Kept(o))
           /\ \A s \in Side, p \in Prices : Volume(Kept(o), s, p) =
                IF s = Opposite(o.side) /\ p \in Gone(o) THEN 0 ELSE Volume(AtOrder(o), s, p)
           /\ DOMAIN Kept(o)[o.side] = DOMAIN AtOrder(o)[o.side]
           /\ DOMAIN Kept(o)[Opposite(o.side)] = DOMAIN AtOrder(o)[Opposite(o.side)] \ Gone(o)
<1>. DEFINE b == AtOrder(o)
            opp == Opposite(o.side)
            levels == DOMAIN b[opp] \ Gone(o)
<1>1. IsBook(b) /\ o.side \in Side /\ opp \in Side /\ opp # o.side
  BY AtLevelBook, OppositeSide DEF AtOrder, IsOrder
<1>2. Kept(o) = Keep(b, opp, levels) /\ levels \in SUBSET DOMAIN b[opp]  BY DEF Kept
<1>3. /\ IsBook(Kept(o)) /\ DOMAIN Kept(o)[opp] = levels /\ Kept(o)[o.side] = b[o.side]
      /\ \A r \in Side, p \in Prices : Volume(Kept(o), r, p) =
            IF r = opp /\ p \notin levels THEN 0 ELSE Volume(b, r, p)
  <2>. HIDE DEF b, opp, levels
  <2>. QED  BY <1>1, <1>2, KeepBook
<1>4. ASSUME NEW s \in Side, NEW p \in Prices
      PROVE  Volume(Kept(o), s, p) = IF s = opp /\ p \in Gone(o) THEN 0 ELSE Volume(b, s, p)
  <2>1. CASE s = opp /\ p \notin DOMAIN b[opp]
    <3>1. Volume(Kept(o), s, p) = 0 /\ Volume(b, s, p) = 0  BY <1>3, <2>1 DEF Volume
    <3>. QED  BY <3>1
  <2>2. CASE ~ (s = opp /\ p \notin DOMAIN b[opp])
    BY <1>3, <2>2
  <2>. QED  BY <2>1, <2>2
<1>. QED  BY <1>3, <1>4

LEMMA RemoveCrossesBook ==
    ASSUME IsBook(book), NEW o, IsOrder(o), RemoveCrosses(o)
    PROVE  /\ book' = RemoveZeros(Kept(o))
           /\ afterOpen' = (afterOpen \/ (Trading(o.msecs) /\ PositiveSpread(Kept(o))))
           /\ pending' = StillPending(o) \o Generated(o)
           /\ IsBook(book)' /\ Proper(book)'
           /\ \A s \in Side : DOMAIN book'[s] \subseteq DOMAIN Kept(o)[s]
           /\ \A s \in Side, p \in Prices : Volume(book', s, p) =
                IF s = Opposite(o.side) /\ p \in Gone(o) THEN 0
                ELSE IF At(o, s, p) THEN After(o, Volume(book, s, p)) ELSE Volume(book, s, p)
<1>1. /\ book' = RemoveZeros(Kept(o))
      /\ afterOpen' = (afterOpen \/ (Trading(o.msecs) /\ PositiveSpread(Kept(o))))
      /\ pending' = StillPending(o) \o Generated(o)
  BY DEF RemoveCrosses, Kept, Gone, Generated, AtOrder
<1>2. IsBook(Kept(o))  BY KeptBook
<1>3. IsBook(book') /\ Proper(book') /\ \A s \in Side : DOMAIN book'[s] \subseteq DOMAIN Kept(o)[s]
  BY <1>1, <1>2, RemoveZerosBook
<1>4. ASSUME NEW s \in Side, NEW p \in Prices
      PROVE  Volume(book', s, p) =
                IF s = Opposite(o.side) /\ p \in Gone(o) THEN 0
                ELSE IF At(o, s, p) THEN After(o, Volume(book, s, p)) ELSE Volume(book, s, p)
  <2>1. Volume(book', s, p) = Volume(Kept(o), s, p)  BY <1>1, <1>2, RemoveZerosBook
  <2>2. Volume(Kept(o), s, p) =
            IF s = Opposite(o.side) /\ p \in Gone(o) THEN 0 ELSE Volume(AtOrder(o), s, p)
    BY KeptBook
  <2>3. Volume(AtOrder(o), s, p) =
            IF At(o, s, p) THEN After(o, Volume(book, s, p)) ELSE Volume(book, s, p)
    BY AtLevelBook DEF AtOrder
  <2>. QED  BY <2>1, <2>2, <2>3
<1>5. IsBook(book)' /\ Proper(book)'
  BY <1>3 DEF IsBook, Proper
<1>. QED  BY <1>1, <1>3, <1>4, <1>5

-----------------------------------------------------------------------------
(* Spreads.                                                                *)

LEMMA NotNegative ==
    ASSUME NEW b, IsBook(b), NEW s \in Side, NEW c, DOMAIN c[s] \subseteq DOMAIN b[s],
           DOMAIN c[Opposite(s)] \subseteq DOMAIN b[Opposite(s)] \ PastLevels(b, s)
    PROVE  ~ NegativeSpread(c)
<1> SUFFICES ASSUME NEW p \in DOMAIN c["ask"], NEW q \in DOMAIN c["bid"], p < q PROVE FALSE
  BY DEF NegativeSpread
<1>1. DOMAIN b["ask"] \in SUBSET Nat /\ DOMAIN b["bid"] \in SUBSET Nat
  BY LevelsFinite DEF Side
<1>2. CASE s = "bid"
  <2>1. Opposite(s) = "ask"  BY <1>2 DEF Opposite
  <2>2. p \in DOMAIN b["ask"] /\ q \in DOMAIN b["bid"]  BY <1>2, <2>1
  <2>3. Past(s, p, q)  BY <1>1, <1>2, <2>2 DEF Past
  <2>. QED  BY <1>2, <2>1, <2>2, <2>3 DEF PastLevels
<1>3. CASE s = "ask"
  <2>1. Opposite(s) = "bid"  BY <1>3 DEF Opposite
  <2>2. p \in DOMAIN b["ask"] /\ q \in DOMAIN b["bid"]  BY <1>3, <2>1
  <2>3. Past(s, q, p)  BY <1>1, <1>3, <2>2 DEF Past
  <2>. QED  BY <1>3, <2>1, <2>2, <2>3 DEF PastLevels
<1>. QED  BY <1>2, <1>3 DEF Side

LEMMA NotInverted ==
    ASSUME NEW b, IsBook(b), NEW s \in Side, NEW c, DOMAIN c[s] \subseteq DOMAIN b[s],
           DOMAIN c[Opposite(s)] \subseteq DOMAIN b[Opposite(s)] \ ReachedLevels(b, s)
    PROVE  ~ IsInverted(c)
<1> SUFFICES ASSUME NEW p \in DOMAIN c["ask"], NEW q \in DOMAIN c["bid"], p <= q PROVE FALSE
  BY DEF IsInverted
<1>1. DOMAIN b["ask"] \in SUBSET Nat /\ DOMAIN b["bid"] \in SUBSET Nat
  BY LevelsFinite DEF Side
<1>2. CASE s = "bid"
  <2>1. Opposite(s) = "ask"  BY <1>2 DEF Opposite
  <2>2. p \in DOMAIN b["ask"] /\ q \in DOMAIN b["bid"]  BY <1>2, <2>1
  <2>3. Reached(s, p, q)  BY <1>1, <1>2, <2>2 DEF Reached
  <2>. QED  BY <1>2, <2>1, <2>2, <2>3 DEF ReachedLevels
<1>3. CASE s = "ask"
  <2>1. Opposite(s) = "bid"  BY <1>3 DEF Opposite
  <2>2. p \in DOMAIN b["ask"] /\ q \in DOMAIN b["bid"]  BY <1>3, <2>1
  <2>3. Reached(s, q, p)  BY <1>1, <1>3, <2>2 DEF Reached
  <2>. QED  BY <1>3, <2>1, <2>2, <2>3 DEF ReachedLevels
<1>. QED  BY <1>2, <1>3 DEF Side

\* A spread that is positive is not negative, and a smaller book is not more so.
LEMMA SmallerBook ==
    ASSUME NEW b, NEW c, \A s \in Side : DOMAIN c[s] \subseteq DOMAIN b[s]
    PROVE  /\ ~ NegativeSpread(b) => ~ NegativeSpread(c)
           /\ ~ IsInverted(b) => ~ IsInverted(c)
BY DEF NegativeSpread, IsInverted, Side

LEMMA PositiveNotNegative ==
    ASSUME NEW b, IsBook(b), PositiveSpread(b)
    PROVE  ~ NegativeSpread(b)
<1> SUFFICES ASSUME NEW p \in DOMAIN b["ask"], NEW q \in DOMAIN b["bid"], p < q PROVE FALSE
  BY DEF NegativeSpread
<1>1. p \in Nat /\ q \in Nat  BY LevelsFinite DEF Side
<1>2. p > q  BY DEF PositiveSpread
<1>. QED  BY <1>1, <1>2

\* A deletion adds no level.
LEMMA DeletionAddsNoLevel ==
    ASSUME NEW b, IsBook(b), Proper(b), NEW c, IsBook(c), Proper(c), NEW o, IsOrder(o),
           o.kind # "add", \A s \in Side, p \in Prices : Volume(c, s, p) =
                IF At(o, s, p) THEN After(o, Volume(b, s, p)) ELSE Volume(b, s, p)
    PROVE  \A s \in Side : DOMAIN c[s] \subseteq DOMAIN b[s]
<1> SUFFICES ASSUME NEW s \in Side, NEW p \in DOMAIN c[s], p \notin DOMAIN b[s] PROVE FALSE
  OBVIOUS
<1>1. p \in Prices /\ Volume(c, s, p) > 0  BY DEF IsBook, Proper, Volume
<1>2. Volume(b, s, p) = 0  BY DEF Volume
<1>3. Volume(c, s, p) = 0
  <2>1. After(o, 0) = 0  BY DEF After, IsOrder
  <2>. QED  BY <1>1, <1>2, <2>1
<1>. QED  BY <1>1, <1>3

\* The book of order2quote after an order.
LiveAt(o) == AtLevel(live, o)
Erased(o) == IF o.kind = "add" /\ liveOpen /\ InDay(o.msecs)
             THEN Keep(LiveAt(o), Opposite(o.side),
                       DOMAIN LiveAt(o)[Opposite(o.side)] \ ReachedLevels(LiveAt(o), o.side))
             ELSE LiveAt(o)

LEMMA LiveBook ==
    ASSUME IsBook(live), Proper(live), NEW o, IsOrder(o), OrderToQuote(o)
    PROVE  /\ live' = RemoveZeros(Erased(o))
           /\ IsBook(live)' /\ Proper(live)'
           /\ liveOpen' = (liveOpen \/ (InDay(o.msecs) /\ ~ IsInverted(live')))
           /\ o.kind # "add" => \A s \in Side : DOMAIN live'[s] \subseteq DOMAIN live[s]
           /\ o.kind = "add" /\ liveOpen /\ InDay(o.msecs) => ~ IsInverted(live')
<1>. DEFINE b == LiveAt(o)
            opp == Opposite(o.side)
<1>1. IsBook(b) /\ o.side \in Side /\ opp \in Side
  BY AtLevelBook, OppositeSide DEF LiveAt, IsOrder
<1>2. Range(Consumed(b, o.side, FALSE)) = ReachedLevels(b, o.side)
  <2>1. Lists(Consumed(b, o.side, FALSE), ReachedLevels(b, o.side))
    <3>. HIDE DEF b
    <3>. QED  BY <1>1, ConsumedReached
  <2>. DEFINE C == Consumed(b, o.side, FALSE)
  <2>2. DOMAIN C = 1 .. Len(C) /\ (\A i \in 1 .. Len(C) : C[i] \in ReachedLevels(b, o.side))
        /\ \A p \in ReachedLevels(b, o.side) : \E i \in 1 .. Len(C) : C[i] = p
    BY <2>1, Zenon DEF Lists
  <2>. HIDE DEF C
  <2>3. Range(C) = ReachedLevels(b, o.side)  BY <2>2 DEF Range
  <2>. QED  BY <2>3 DEF C
<1>3. live' = RemoveZeros(Erased(o))
      /\ liveOpen' = (liveOpen \/ (InDay(o.msecs) /\ ~ IsInverted(live')))
  BY <1>2, Zenon DEF OrderToQuote, Updated, Erased, LiveAt, OpenedAfter
<1>4. CASE o.kind = "add" /\ liveOpen /\ InDay(o.msecs)
  <2>. DEFINE levels == DOMAIN b[opp] \ ReachedLevels(b, o.side)
  <2>1. Erased(o) = Keep(b, opp, levels)  BY <1>4, Zenon DEF Erased
  <2>2. /\ IsBook(Erased(o)) /\ DOMAIN Erased(o)[opp] = levels
        /\ \A r \in Side : r # opp => Erased(o)[r] = b[r]
    <3>1. levels \in SUBSET DOMAIN b[opp]  OBVIOUS
    <3>. HIDE DEF levels, b, opp
    <3>. QED  BY <1>1, <2>1, <3>1, KeepBook
  <2>3. ~ IsInverted(Erased(o))
    <3>1. DOMAIN Erased(o)[o.side] \subseteq DOMAIN b[o.side]
      BY <1>1, <2>2, OppositeSide
    <3>2. DOMAIN Erased(o)[opp] \subseteq DOMAIN b[opp] \ ReachedLevels(b, o.side)
      BY <2>2
    <3>. HIDE DEF b
    <3>. QED  BY <1>1, <3>1, <3>2, NotInverted
  <2>4. IsBook(live') /\ Proper(live') /\ ~ IsInverted(live')
    BY <1>3, <2>2, <2>3, RemoveZerosBook, SmallerBook
  <2>. QED  BY <1>3, <1>4, <2>4 DEF IsBook, Proper
<1>5. CASE ~ (o.kind = "add" /\ liveOpen /\ InDay(o.msecs))
  <2>1. Erased(o) = b  BY <1>5, Zenon DEF Erased
  <2>2. IsBook(live') /\ Proper(live')
    <3>. HIDE DEF b
    <3>. QED  BY <1>1, <1>3, <2>1, RemoveZerosBook
  <2>3. \A s \in Side, p \in Prices : Volume(live', s, p) =
            IF At(o, s, p) THEN After(o, Volume(live, s, p)) ELSE Volume(live, s, p)
    <3> SUFFICES ASSUME NEW s \in Side, NEW p \in Prices
                 PROVE  Volume(live', s, p) =
                    IF At(o, s, p) THEN After(o, Volume(live, s, p)) ELSE Volume(live, s, p)
      OBVIOUS
    <3>1. Volume(live', s, p) = Volume(b, s, p)
      <4>. HIDE DEF b
      <4>. QED  BY <1>1, <1>3, <2>1, RemoveZerosBook
    <3>. QED  BY <3>1, AtLevelBook DEF LiveAt
  <2>4. o.kind # "add" => \A s \in Side : DOMAIN live'[s] \subseteq DOMAIN live[s]
    BY <2>2, <2>3, DeletionAddsNoLevel
  <2>. QED  BY <1>3, <1>5, <2>2, <2>4 DEF IsBook, Proper
<1>. QED  BY <1>4, <1>5

-----------------------------------------------------------------------------
(* The generated orders that wait, and the reader of the output.           *)

Deletion == [side : Side, kind : {"del"}, price : Prices, size : Nat, msecs : Nat]

LEMMA DeletionIsOrder ==
    ASSUME NEW g \in Deletion
    PROVE  IsOrder(g) /\ g.kind = "del"
BY DEF Deletion, IsOrder

LEMMA GeneratedDeletions ==
    ASSUME IsBook(book), NEW o, IsOrder(o), o.msecs \in Nat
    PROVE  Generated(o) \in Seq(Deletion)
<1>. DEFINE g == Generated(o)
            b == AtOrder(o)
            C == Consumed(b, o.side, TRUE)
            opp == Opposite(o.side)
<1>1. Len(g) \in Nat /\ DOMAIN g = 1 .. Len(g) /\ \A i \in DOMAIN g : IsOrder(g[i])
  BY GeneratedOrders
<1>2. CASE o.kind = "add" /\ afterOpen /\ Trading(o.msecs)
  <2>1. g = [i \in DOMAIN C |-> [side |-> opp, kind |-> "del", price |-> C[i],
                                 size |-> b[opp][C[i]], msecs |-> o.msecs]]
    BY <1>2 DEF Generated, Generate
  <2>. HIDE DEF g, C, b, opp
  <2>2. ASSUME NEW i \in DOMAIN g PROVE g[i] \in Deletion
    <3>1. g[i] = [side |-> opp, kind |-> "del", price |-> C[i],
                  size |-> b[opp][C[i]], msecs |-> o.msecs]
      BY <2>1, <2>2
    <3>2. IsOrder(g[i])  BY <1>1, <2>2
    <3>3. g[i].side = opp /\ g[i].price = C[i] /\ g[i].size = b[opp][C[i]]  BY <3>1
    <3>4. opp \in Side /\ C[i] \in Prices /\ b[opp][C[i]] \in Nat  BY <3>2, <3>3 DEF IsOrder
    <3>. QED  BY <3>1, <3>4 DEF Deletion
  <2>3. g \in [1 .. Len(g) -> Deletion]
    <3>1. g = [i \in DOMAIN g |-> g[i]]  BY <2>1
    <3>. QED  BY <1>1, <2>2, <3>1
  <2>. QED  BY <1>1, <2>3 DEF g
<1>3. CASE ~ (o.kind = "add" /\ afterOpen /\ Trading(o.msecs))
  <2>1. g = <<>>  BY <1>3, Zenon DEF Generated, Generate
  <2>. QED  BY <2>1
<1>. QED  BY <1>2, <1>3

Repeats(o, g) ==
    g.price = o.price /\ g.size <= o.size /\ g.side = o.side /\ o.kind = "del"
Unrepeated(o) == {i \in DOMAIN pending : ~ Repeats(o, pending[i])}

LEMMA StillPendingOrders ==
    ASSUME pending \in Seq(Deletion), NEW o, ~ (o.msecs > msecs)
    PROVE  /\ StillPending(o) \in Seq(Deletion)
           /\ \E k : Lists(k, Unrepeated(o)) /\ Len(k) = Len(StillPending(o))
                     /\ \A i \in 1 .. Len(k) : StillPending(o)[i] = pending[k[i]]
<1>. DEFINE K == Unrepeated(o)
            k == Ascending(K)
            sp == StillPending(o)
<1>1. K \in SUBSET Nat /\ IsFiniteSet(K)
  <2>1. DOMAIN pending = 1 .. Len(pending) /\ Len(pending) \in Nat  OBVIOUS
  <2>2. K \in SUBSET (1 .. Len(pending))  BY <2>1 DEF Unrepeated
  <2>3. IsFiniteSet(1 .. Len(pending))  BY <2>1, FS_Interval
  <2>. QED  BY <2>1, <2>2, <2>3, FS_Subset
<1>2. Lists(k, K)
  <2>. HIDE DEF K
  <2>. QED  BY <1>1, AscendingOnce
<1>3. sp = [i \in DOMAIN k |-> pending[k[i]]]
  BY Zenon DEF StillPending, Unrepeated, Repeats
<1>. HIDE DEF k, sp
<1>4. DOMAIN k = 1 .. Len(k) /\ Len(k) \in Nat /\ \A i \in 1 .. Len(k) : k[i] \in K
  BY <1>2 DEF Lists
<1>5. \A i \in 1 .. Len(k) : pending[k[i]] \in Deletion
  <2>1. K \subseteq 1 .. Len(pending)  BY DEF Unrepeated
  <2>. QED  BY <1>4, <2>1
<1>6. sp \in [1 .. Len(k) -> Deletion]  BY <1>3, <1>4, <1>5
<1>7. sp \in Seq(Deletion) /\ Len(sp) = Len(k)  BY <1>4, <1>6
<1>8. \A i \in 1 .. Len(k) : sp[i] = pending[k[i]]  BY <1>3, <1>4
<1>. QED  BY <1>2, <1>7, <1>8 DEF sp

\* Level p of side s is even: the reader has what the book has there, or will
\* when it has the one deletion that waits for the level.
Free(ps, s, p) == \A i \in 1 .. Len(ps) : ~ At(ps[i], s, p)
Waits(r, ps, s, p, i) ==
    /\ At(ps[i], s, p) /\ \A j \in 1 .. Len(ps) : At(ps[j], s, p) => j = i
    /\ ps[i].size = Volume(r, s, p)
Even(r, b, ps, s, p) ==
    \/ Free(ps, s, p) /\ Volume(r, s, p) = Volume(b, s, p)
    \/ Volume(b, s, p) = 0 /\ \E i \in 1 .. Len(ps) : Waits(r, ps, s, p, i)

LEMMA EvenReplayed ==
    ASSUME NEW r, IsBook(r), Proper(r), NEW ps \in Seq(Deletion), NEW b, NEW s \in Side,
           NEW p \in Prices, Even(r, b, ps, s, p)
    PROVE  Volume(Replayed(r, ps), s, p) = Volume(b, s, p)
<1>1. Len(ps) \in Nat /\ DOMAIN ps = 1 .. Len(ps)
      /\ \A i \in 1 .. Len(ps) : IsOrder(ps[i]) /\ ps[i].kind = "del"
  <2>1. Len(ps) \in Nat /\ DOMAIN ps = 1 .. Len(ps) /\ \A i \in 1 .. Len(ps) : ps[i] \in Deletion
    OBVIOUS
  <2>. QED  BY <2>1, DeletionIsOrder
<1>2. CASE Free(ps, s, p) /\ Volume(r, s, p) = Volume(b, s, p)
  <2>1. \A i \in 1 .. Len(ps) : ~ At(ps[i], s, p)  BY <1>2 DEF Free
  <2>2. Volume(Replayed(r, ps), s, p) = Volume(r, s, p)  BY <1>1, <2>1, ReplayedBook
  <2>. QED  BY <1>2, <2>2
<1>3. CASE Volume(b, s, p) = 0 /\ \E i \in 1 .. Len(ps) : Waits(r, ps, s, p, i)
  <2>1. PICK i \in 1 .. Len(ps) : Waits(r, ps, s, p, i)  BY <1>3
  <2>2. Volume(Replayed(r, ps), s, p) = After(ps[i], Volume(r, s, p))
    BY <1>1, <2>1, ReplayedBook DEF Waits
  <2>3. ps[i].size = Volume(r, s, p) /\ ps[i].kind = "del" /\ Volume(r, s, p) \in Nat
    BY <1>1, <2>1, VolumeType DEF Waits
  <2>4. After(ps[i], Volume(r, s, p)) = 0  BY <2>3 DEF After
  <2>. QED  BY <1>3, <2>2, <2>4
<1>. QED  BY <1>2, <1>3 DEF Even

LEMMA ReplayedNothing ==
    ASSUME NEW b
    PROVE  Replayed(b, <<>>) = b
<1>1. ASSUME NEW m \in Nat, NEW orders, DOMAIN orders = 1 .. m
      PROVE  m = 0 => Replayed(b, orders) = b
  <2>1. PICK R : Steps(R, b, orders, m)  BY <1>1, ReplaySteps
  <2>. QED  BY <2>1 DEF Steps
<1>2. 0 \in Nat /\ DOMAIN <<>> = 1 .. 0  OBVIOUS
<1>. QED  BY <1>1, <1>2, Zenon

\* An order leaves even every level where it has met no deletion that waits, or
\* is itself that deletion.
LEMMA EvenStep ==
    ASSUME IsBook(book), Proper(book), IsBook(replay), Proper(replay),
           pending \in Seq(Deletion), msecs \in Nat,
           \A s \in Side, p \in Prices : <<s, p>> \notin collided =>
                Even(replay, book, pending, s, p),
           NEW o, IsOrder(o), o.msecs \in Nat, o.msecs >= msecs, RemoveCrosses(o)
    PROVE  /\ IsBook(replay)' /\ Proper(replay)' /\ pending' \in Seq(Deletion)
           /\ \A s \in Side, p \in Prices : <<s, p>> \notin collided' =>
                Even(replay', book', pending', s, p)
<1>. DEFINE flushed == IF o.msecs > msecs THEN pending ELSE <<>>
            r == Replayed(replay, flushed)
            K == StillPending(o)
            G == Generated(o)
            opp == Opposite(o.side)
            Replaced(s, p) == /\ At(o, s, p) /\ Free(K, s, p) /\ o.kind = "del"
                              /\ Volume(r, s, p) <= o.size /\ Volume(book, s, p) = 0
<1>1. IsBook(r) /\ Proper(r)
  <2>1. CASE o.msecs > msecs
    <3>1. Len(pending) \in Nat /\ DOMAIN pending = 1 .. Len(pending)
          /\ \A i \in 1 .. Len(pending) : IsOrder(pending[i])
      <4>1. Len(pending) \in Nat /\ DOMAIN pending = 1 .. Len(pending)
            /\ \A i \in 1 .. Len(pending) : pending[i] \in Deletion
        OBVIOUS
      <4>. QED  BY <4>1, DeletionIsOrder
    <3>2. IsBook(Replayed(replay, pending)) /\ Proper(Replayed(replay, pending))
      BY <3>1, ReplayedBook
    <3>. QED  BY <2>1, <3>2
  <2>2. CASE ~ (o.msecs > msecs)  BY <2>2, ReplayedNothing
  <2>. QED  BY <2>1, <2>2
<1>2. replay' = Reader(r, o)  BY Zenon DEF RemoveCrosses, Reader
<1>3. pending' = K \o G  BY RemoveCrossesBook
<1>4. K \in Seq(Deletion)
  <2>1. CASE o.msecs > msecs
    <3>1. K = <<>>  BY <2>1, Zenon DEF StillPending
    <3>. QED  BY <3>1
  <2>2. CASE ~ (o.msecs > msecs)  BY <2>2, StillPendingOrders
  <2>. QED  BY <2>1, <2>2
<1>5. G \in Seq(Deletion)  BY GeneratedDeletions
<1>6. o.side \in Side /\ opp \in Side /\ o.side # opp  BY OppositeSide DEF IsOrder
<1>. HIDE DEF r
<1>7. IsBook(replay') /\ Proper(replay')  BY <1>1, <1>2, ReaderBook
\* What is left of the pending orders fits the book before the order.
<1>8. ASSUME NEW s \in Side, NEW p \in Prices, <<s, p>> \notin collided'
      PROVE  \/ Even(r, book, K, s, p) /\ (At(o, s, p) => Free(K, s, p))
             \/ Replaced(s, p)
  <2>0. <<s, p>> \notin collided  BY <1>8, Zenon DEF RemoveCrosses
  <2>1. Even(replay, book, pending, s, p)  BY <2>0
  <2>2. CASE o.msecs > msecs
    <3>1. K = <<>>  BY <2>2, Zenon DEF StillPending
    <3>2. Free(K, s, p)  BY <3>1 DEF Free
    <3>3. r = Replayed(replay, pending)  BY <2>2 DEF r
    <3>4. Volume(r, s, p) = Volume(book, s, p)  BY <2>1, <3>3, EvenReplayed
    <3>. QED  BY <3>2, <3>4 DEF Even
  <2>3. CASE ~ (o.msecs > msecs)
    <3>1. r = replay  BY <2>3, ReplayedNothing DEF r
    <3>2. PICK k : /\ Lists(k, Unrepeated(o)) /\ Len(k) = Len(K)
                   /\ \A i \in 1 .. Len(k) : K[i] = pending[k[i]]
      BY <2>3, StillPendingOrders
    <3>3. \A i \in 1 .. Len(K) : k[i] \in 1 .. Len(pending) /\ K[i] = pending[k[i]]
      <4>1. Unrepeated(o) \subseteq 1 .. Len(pending)  BY DEF Unrepeated
      <4>. QED  BY <3>2, <4>1 DEF Lists
    <3>4. CASE Free(pending, s, p) /\ Volume(replay, s, p) = Volume(book, s, p)
      <4>1. Free(K, s, p)  BY <3>3, <3>4 DEF Free
      <4>. QED  BY <3>1, <3>4, <4>1 DEF Even
    <3>5. CASE Volume(book, s, p) = 0 /\ \E i \in 1 .. Len(pending) : Waits(replay, pending, s, p, i)
      <4>1. PICK j \in 1 .. Len(pending) : Waits(replay, pending, s, p, j)  BY <3>5
      <4>2. j \in DOMAIN pending /\ pending[j].side = s /\ pending[j].price = p
        BY <4>1 DEF Waits, At
      <4>3. CASE At(o, s, p)
        <5>1. o.kind = "del" /\ pending[j].size <= o.size
          <6>1. ~ (\E i \in DOMAIN pending :
                     /\ pending[i].price = o.price /\ pending[i].side = o.side
                     /\ ~ (o.kind = "del" /\ pending[i].size <= o.size))
            <7> SUFFICES ASSUME \E i \in DOMAIN pending :
                     /\ pending[i].price = o.price /\ pending[i].side = o.side
                     /\ ~ (o.kind = "del" /\ pending[i].size <= o.size)
                         PROVE FALSE
              OBVIOUS
            <7>1. o.msecs = msecs  BY <2>3
            <7>2. collided' = collided \union {<<o.side, o.price>>}
              BY <7>1, Zenon DEF RemoveCrosses
            <7>. QED  BY <1>8, <4>3, <7>2 DEF At
          <6>. QED  BY <4>2, <4>3, <6>1 DEF At
        <5>2. j \notin Unrepeated(o)  BY <4>2, <4>3, <5>1 DEF Unrepeated, Repeats, At
        <5>3. ASSUME NEW x \in 1 .. Len(K), At(K[x], s, p) PROVE FALSE
          <6>1. k[x] = j  BY <3>3, <4>1, <5>3 DEF Waits
          <6>2. k[x] \in Unrepeated(o)  BY <3>2 DEF Lists
          <6>. QED  BY <5>2, <6>1, <6>2
        <5>4. Free(K, s, p)  BY <5>3 DEF Free
        <5>5. Volume(r, s, p) <= o.size  BY <3>1, <4>1, <5>1 DEF Waits
        <5>. QED  BY <3>5, <4>3, <5>1, <5>4, <5>5
      <4>4. CASE ~ At(o, s, p)
        <5>1. j \in Unrepeated(o)  BY <4>2, <4>4 DEF Unrepeated, Repeats, At
        <5>2. PICK i \in 1 .. Len(K) : k[i] = j  BY <3>2, <5>1 DEF Lists
        <5>3. At(K[i], s, p) /\ K[i].size = Volume(r, s, p)
          BY <3>1, <3>3, <4>1, <5>2 DEF Waits
        <5>4. \A x \in 1 .. Len(K) : At(K[x], s, p) => x = i
          <6> SUFFICES ASSUME NEW x \in 1 .. Len(K), At(K[x], s, p) PROVE x = i  OBVIOUS
          <6>1. k[x] = j  BY <3>3, <4>1 DEF Waits
          <6>. QED  BY <3>2, <5>2, <6>1 DEF Lists
        <5>5. Waits(r, K, s, p, i)  BY <5>3, <5>4 DEF Waits
        <5>. QED  BY <3>5, <4>4, <5>5 DEF Even
      <4>. QED  BY <4>3, <4>4
    <3>. QED  BY <2>1, <3>4, <3>5 DEF Even
  <2>. QED  BY <2>2, <2>3
<1>9. Len(K) \in Nat /\ Len(G) \in Nat /\ Len(pending') = Len(K) + Len(G)
      /\ (\A i \in 1 .. Len(K) : pending'[i] = K[i])
      /\ (\A i \in 1 .. Len(G) : pending'[Len(K) + i] = G[i])
      /\ pending' \in Seq(Deletion)
  <2>. HIDE DEF K, G
  <2>. QED  BY <1>3, <1>4, <1>5
<1>10. \A i \in 1 .. Len(pending') :
         i \in 1 .. Len(K) \/ \E j \in 1 .. Len(G) : i = Len(K) + j
  <2> SUFFICES ASSUME NEW i \in 1 .. Len(pending'), i \notin 1 .. Len(K)
               PROVE  \E j \in 1 .. Len(G) : i = Len(K) + j
    OBVIOUS
  <2>. HIDE DEF K, G
  <2>1. i - Len(K) \in 1 .. Len(G) /\ i = Len(K) + (i - Len(K))  BY <1>9
  <2>. QED  BY <2>1
<1>. HIDE DEF K
<1>11. \A i \in 1 .. Len(G) : G[i].side = opp /\ G[i].price \in Gone(o)
  BY GeneratedOrders, <1>5 DEF Gone
<1>12. ASSUME NEW s \in Side, NEW p \in Prices, <<s, p>> \notin collided'
       PROVE  Even(replay', book', pending', s, p)
  <2>1. \/ Even(r, book, K, s, p) /\ (At(o, s, p) => Free(K, s, p))
        \/ Replaced(s, p)
    BY <1>8, <1>12
  <2>2. Volume(replay', s, p) = IF At(o, s, p) THEN After(o, Volume(r, s, p)) ELSE Volume(r, s, p)
    BY <1>1, <1>2, ReaderBook
  <2>3. Volume(book', s, p) =
            IF s = opp /\ p \in Gone(o) THEN 0
            ELSE IF At(o, s, p) THEN After(o, Volume(book, s, p)) ELSE Volume(book, s, p)
    BY RemoveCrossesBook
  <2>4. CASE ~ (s = opp /\ p \in Gone(o))
    <3>1. \A i \in 1 .. Len(G) : ~ At(G[i], s, p)  BY <1>11, <2>4 DEF At
    <3>2. CASE Free(K, s, p) /\ Volume(r, s, p) = Volume(book, s, p)
      <4>1. Free(pending', s, p)  BY <1>9, <1>10, <3>1, <3>2 DEF Free
      <4>2. Volume(replay', s, p) = Volume(book', s, p)  BY <2>2, <2>3, <2>4, <3>2
      <4>. QED  BY <4>1, <4>2 DEF Even
    <3>3. CASE Volume(book, s, p) = 0 /\ \E i \in 1 .. Len(K) : Waits(r, K, s, p, i)
      <4>1. PICK i \in 1 .. Len(K) : Waits(r, K, s, p, i)  BY <3>3
      <4>2. ~ At(o, s, p)  BY <2>1, <4>1 DEF Free, Waits
      <4>3. i \in 1 .. Len(pending') /\ At(pending'[i], s, p)
            /\ pending'[i].size = Volume(replay', s, p)
        <5>1. i \in 1 .. Len(pending')  BY <1>9
        <5>. QED  BY <1>9, <2>2, <4>1, <4>2, <5>1 DEF Waits
      <4>4. \A j \in 1 .. Len(pending') : At(pending'[j], s, p) => j = i
        BY <1>9, <1>10, <3>1, <4>1 DEF Waits
      <4>5. Volume(book', s, p) = 0  BY <2>3, <2>4, <3>3, <4>2
      <4>6. Waits(replay', pending', s, p, i)  BY <4>3, <4>4 DEF Waits
      <4>. QED  BY <4>3, <4>5, <4>6 DEF Even
    <3>4. CASE Replaced(s, p)
      <4>1. Free(pending', s, p)  BY <1>9, <1>10, <3>1, <3>4 DEF Free
      <4>2. Volume(replay', s, p) = 0
        <5>1. Volume(r, s, p) \in Nat  BY <1>1 DEF IsBook, Volume
        <5>. QED  BY <2>2, <3>4, <5>1 DEF After, IsOrder
      <4>3. Volume(book', s, p) = 0  BY <2>3, <2>4, <3>4 DEF After, IsOrder
      <4>. QED  BY <4>1, <4>2, <4>3 DEF Even
    <3>. QED  BY <2>1, <3>2, <3>3, <3>4 DEF Even
  <2>5. CASE s = opp /\ p \in Gone(o)
    <3>1. ~ At(o, s, p)  BY <1>6, <2>5 DEF At
    <3>2. PICK j \in 1 .. Len(G) : G[j].price = p
      BY <2>5, GeneratedOrders DEF Gone
    <3>3. /\ At(G[j], s, p) /\ p \in DOMAIN AtOrder(o)[opp] /\ G[j].size = AtOrder(o)[opp][p]
          /\ \A i \in 1 .. Len(G) : At(G[i], s, p) => i = j
      <4>1. DOMAIN G = 1 .. Len(G)  BY GeneratedOrders
      <4>2. G[j].side = opp /\ p \in DOMAIN AtOrder(o)[opp] /\ G[j].size = AtOrder(o)[opp][p]
        BY <3>2, <4>1, GeneratedOrders
      <4>3. \A i \in 1 .. Len(G) : G[i].price = p => i = j
        BY <3>2, <4>1, GeneratedOrders
      <4>. QED  BY <2>5, <3>2, <4>2, <4>3 DEF At
    <3>4. DOMAIN AtOrder(o)[opp] = DOMAIN book[opp]  BY <1>6, AtLevelBook DEF AtOrder
    <3>5. Volume(AtOrder(o), s, p) = Volume(book, s, p)  BY <3>1, AtLevelBook DEF AtOrder
    <3>6. Volume(book, s, p) # 0 /\ G[j].size = Volume(book, s, p)
      <4>1. Volume(book, s, p) > 0  BY <2>5, <3>3, <3>4 DEF Volume, Proper
      <4>. QED  BY <2>5, <3>3, <3>5, <4>1 DEF Volume
    <3>7. Free(K, s, p) /\ Volume(r, s, p) = Volume(book, s, p)
      BY <2>1, <3>1, <3>6 DEF Even
    <3>8. Len(K) + j \in 1 .. Len(pending') /\ pending'[Len(K) + j] = G[j]
      <4>1. Len(K) + j \in 1 .. Len(pending')  BY <1>9
      <4>. QED  BY <1>9, <4>1
    <3>9. \A i \in 1 .. Len(pending') : At(pending'[i], s, p) => i = Len(K) + j
      BY <1>9, <1>10, <3>3, <3>7 DEF Free
    <3>10. G[j].size = Volume(replay', s, p)  BY <2>2, <3>1, <3>6, <3>7
    <3>11. Waits(replay', pending', s, p, Len(K) + j)
      BY <3>3, <3>8, <3>9, <3>10 DEF Waits
    <3>12. Volume(book', s, p) = 0  BY <2>3, <2>5
    <3>. QED  BY <3>8, <3>11, <3>12 DEF Even
  <2>. QED  BY <2>4, <2>5
<1>. QED  BY <1>7, <1>9, <1>12 DEF IsBook, Proper

-----------------------------------------------------------------------------
(* The inductive invariant.                                                *)

TypesOK ==
    /\ phase \in {"read", "end"} /\ n \in 0 .. MaxOrders /\ msecs \in 1 .. LastMsecs
    /\ afterOpen \in BOOLEAN /\ liveOpen \in BOOLEAN
    /\ collided \subseteq Side \X Prices
    /\ pending \in Seq(Deletion)
BooksOK == /\ IsBook(book) /\ Proper(book)
           /\ IsBook(replay) /\ Proper(replay)
           /\ IsBook(live) /\ Proper(live)
\* A book is seen uncrossed in trading hours only, and stays so until the close.
OpenOK == /\ afterOpen => Open < msecs
          /\ UncrossedInTrading
EvenOK == \A s \in Side, p \in Prices : <<s, p>> \notin collided =>
                Even(replay, book, pending, s, p)
\* The value v of a msecs t is the last of the quotes Q up to t, or c before them.
Told(Q, t, v, c) ==
    \/ v = c /\ \A i \in 1 .. Len(Q) : Q[i].msecs > t
    \/ \E i \in 1 .. Len(Q) : /\ Q[i].q = v /\ Q[i].msecs <= t
                             /\ \A j \in 1 .. Len(Q) : j > i => Q[j].msecs > t
Stamped(Q) == \A i \in 1 .. Len(Q) : Q[i].msecs \in Nat \ {0}
Rising(Q) == \A i, j \in 1 .. Len(Q) : i < j => Q[i].msecs < Q[j].msecs
\* While orders are read: the quote that waits is later than those written, is
\* last_quote, and is what the book has shown since; the written ones tell what
\* it showed before.  Without a quote the book has shown what was carried.
Waiting ==
    /\ quote.msecs \in 0 .. msecs
    /\ \E S : tsQ \in Seq(S)
    /\ Stamped(tsQ) /\ Rising(tsQ)
    /\ \A i \in 1 .. Len(tsQ) : tsQ[i].msecs < quote.msecs
    /\ lastQuote = IF quote.msecs > 0 THEN quote.q ELSE carried
    /\ DOMAIN shown \subseteq 1 .. msecs
    /\ \A t \in DOMAIN shown :
          IF quote.msecs \in 1 .. t THEN shown[t] = quote.q
          ELSE Told(tsQ, t, shown[t], carried)
QuoteOK == (phase = "read" => Waiting) /\ QuoteFollowsBook
IInv == TypesOK /\ BooksOK /\ OpenOK /\ EvenOK /\ QuoteOK

LEMMA EmptyBook == IsBook(NoBook) /\ Proper(NoBook)
BY DEF IsBook, Proper, NoBook

LEMMA StartOK ==
    ASSUME msecs = 1, book = NoBook, afterOpen = FALSE, pending = <<>>, replay = NoBook,
           collided = {}, live = NoBook, liveOpen = FALSE, phase = "read", n \in 0 .. MaxOrders,
           quote = [msecs |-> 0, q |-> NoQuote], tsQ = <<>>, shown = <<>>, carried = lastQuote
    PROVE  IInv
<1>1. TypesOK
  <2>1. 1 \in 1 .. LastMsecs  BY BookAssumption
  <2>2. pending \in Seq(Deletion)  OBVIOUS
  <2>. QED  BY <2>1, <2>2 DEF TypesOK
<1>2. BooksOK  BY EmptyBook DEF BooksOK
<1>3. OpenOK  BY DEF OpenOK, UncrossedInTrading
<1>4. EvenOK
  <2>1. \A s \in Side, p \in Prices : Free(pending, s, p)  BY DEF Free
  <2>. QED  BY <2>1 DEF EvenOK, Even
<1>5. QuoteOK
  <2>1. tsQ \in Seq({}) /\ Len(tsQ) = 0 /\ DOMAIN shown = {}  OBVIOUS
  <2>. QED  BY <2>1 DEF QuoteOK, QuoteFollowsBook, Waiting, Stamped, Rising
<1>. QED  BY <1>1, <1>2, <1>3, <1>4, <1>5 DEF IInv

LEMMA ReadBooks ==
    ASSUME IInv, NEW o \in Order, Read(o)
    PROVE  IsOrder(o) /\ o.msecs \in Nat /\ o.msecs >= msecs /\ msecs \in Nat
           /\ RemoveCrosses(o) /\ OrderToQuote(o) /\ BooksOK' /\ EvenOK' /\ pending' \in Seq(Deletion)
<1>1. IsOrder(o) /\ o.msecs \in Nat /\ msecs \in Nat
  <2>1. \A z \in Sizes : z \in Nat  BY BookAssumption
  <2>2. \A t \in 1 .. LastMsecs : t \in Nat  BY BookAssumption
  <2>3. /\ o.side \in Side /\ o.kind \in {"add", "del"} /\ o.price \in Prices /\ o.size \in Sizes
        /\ o.msecs \in 1 .. LastMsecs
    BY DEF Order
  <2>. QED  BY <2>1, <2>2, <2>3 DEF IsOrder, IInv, TypesOK
<1>2. o.msecs >= msecs /\ RemoveCrosses(o) /\ OrderToQuote(o)  BY DEF Read
<1>3. IsBook(book)' /\ Proper(book)'  BY <1>1, <1>2, RemoveCrossesBook DEF IInv, BooksOK
<1>4. IsBook(live)' /\ Proper(live)'  BY <1>1, <1>2, LiveBook DEF IInv, BooksOK
<1>5. /\ IsBook(replay)' /\ Proper(replay)' /\ pending' \in Seq(Deletion)
      /\ \A s \in Side, p \in Prices : <<s, p>> \notin collided' =>
            Even(replay', book', pending', s, p)
  BY <1>1, <1>2, EvenStep DEF IInv, BooksOK, EvenOK, TypesOK
<1>6. EvenOK'  BY <1>5 DEF EvenOK, Even, Free, Waits, Volume, At
<1>. QED  BY <1>1, <1>2, <1>3, <1>4, <1>5, <1>6 DEF BooksOK

\* Read: the loops of remove_crosses and of order2quote leave no cross.
LEMMA ReadOpen ==
    ASSUME IInv, NEW o \in Order, Read(o)
    PROVE  OpenOK'
<1>1. /\ IsOrder(o) /\ o.msecs \in Nat /\ o.msecs >= msecs /\ msecs \in Nat
      /\ RemoveCrosses(o) /\ OrderToQuote(o)
  BY ReadBooks
<1>2. IsBook(book) /\ Proper(book) /\ IsBook(live) /\ Proper(live) /\ BooksOK'
  BY ReadBooks DEF IInv, BooksOK
<1>3. msecs' = o.msecs /\ Open \in Int /\ Close \in Int  BY BookAssumption DEF Read
<1>4. /\ afterOpen' = (afterOpen \/ (Trading(o.msecs) /\ PositiveSpread(Kept(o))))
      /\ \A s \in Side : DOMAIN book'[s] \subseteq DOMAIN Kept(o)[s]
  BY <1>1, <1>2, RemoveCrossesBook
<1>5. liveOpen' = (liveOpen \/ (InDay(o.msecs) /\ ~ IsInverted(live')))
  BY <1>1, <1>2, LiveBook
<1>6. afterOpen' => Open < o.msecs
  <2>1. afterOpen => Open < msecs  BY DEF IInv, OpenOK
  <2>2. Open < msecs => Open < o.msecs  BY <1>1, <1>3
  <2>. QED  BY <1>4, <2>1, <2>2 DEF Trading
\* A session that is open at o.msecs was open at msecs, once it was open.
<1>7. ASSUME Trading(o.msecs), Open < msecs PROVE Trading(msecs)
  BY <1>1, <1>3, <1>7 DEF Trading
<1>8. ASSUME Trading(o.msecs), afterOpen' PROVE ~ NegativeSpread(book')
  <2>1. CASE ~ afterOpen
    <3>1. PositiveSpread(Kept(o)) /\ IsBook(Kept(o))  BY <1>1, <1>2, <1>4, <1>8, <2>1, KeptBook
    <3>. QED  BY <1>4, <3>1, PositiveNotNegative, SmallerBook
  <2>2. CASE afterOpen /\ o.kind = "add"
    <3>1. IsBook(AtOrder(o)) /\ o.side \in Side
      BY <1>1, <1>2, AtLevelBook DEF AtOrder, IsOrder
    <3>2. PastLevels(AtOrder(o), o.side) \subseteq Gone(o)
      BY <1>1, <1>2, <1>8, <2>2, GeneratedOrders
    <3>3. /\ DOMAIN Kept(o)[o.side] = DOMAIN AtOrder(o)[o.side]
          /\ DOMAIN Kept(o)[Opposite(o.side)] = DOMAIN AtOrder(o)[Opposite(o.side)] \ Gone(o)
      BY <1>1, <1>2, KeptBook
    <3>4. ~ NegativeSpread(Kept(o))
      <4>1. DOMAIN Kept(o)[o.side] \subseteq DOMAIN AtOrder(o)[o.side]  BY <3>3
      <4>2. DOMAIN Kept(o)[Opposite(o.side)] \subseteq
                DOMAIN AtOrder(o)[Opposite(o.side)] \ PastLevels(AtOrder(o), o.side)
        BY <3>2, <3>3
      <4>. QED  BY <3>1, <4>1, <4>2, NotNegative
    <3>. QED  BY <1>4, <3>4, SmallerBook
  <2>3. CASE afterOpen /\ o.kind # "add"
    <3>1. Open < msecs /\ UncrossedInTrading  BY <2>3 DEF IInv, OpenOK
    <3>2. ~ NegativeSpread(book)  BY <1>7, <1>8, <2>3, <3>1 DEF UncrossedInTrading
    <3>3. Gone(o) = {}  BY <1>1, <1>2, <2>3, GeneratedOrders
    <3>4. \A s \in Side, p \in Prices : Volume(book', s, p) =
            IF At(o, s, p) THEN After(o, Volume(book, s, p)) ELSE Volume(book, s, p)
      BY <1>1, <1>2, <3>3, RemoveCrossesBook
    <3>5. IsBook(book') /\ Proper(book')
      BY <1>1, <1>2, RemoveCrossesBook, RemoveZerosBook, KeptBook
    <3>6. \A s \in Side : DOMAIN book'[s] \subseteq DOMAIN book[s]
      BY <1>1, <1>2, <2>3, <3>4, <3>5, DeletionAddsNoLevel
    <3>. QED  BY <3>2, <3>6, SmallerBook
  <2>. QED  BY <1>1, <2>1, <2>2, <2>3
<1>9. ASSUME InDay(o.msecs), liveOpen' PROVE ~ IsInverted(live')
  <2>1. CASE ~ liveOpen  BY <1>5, <1>9, <2>1
  <2>2. CASE liveOpen /\ o.kind = "add"  BY <1>1, <1>2, <1>9, <2>2, LiveBook
  <2>3. CASE liveOpen /\ o.kind # "add"
    <3>1. InDay(msecs)
      <4>1. msecs \in 1 .. LastMsecs /\ LastMsecs \in Nat  BY BookAssumption DEF IInv, TypesOK
      <4>. QED  BY <1>1, <1>9, <4>1 DEF InDay
    <3>2. ~ IsInverted(live)  BY <2>3, <3>1 DEF IInv, OpenOK, UncrossedInTrading
    <3>3. \A s \in Side : DOMAIN live'[s] \subseteq DOMAIN live[s]
      BY <1>1, <1>2, <2>3, LiveBook
    <3>. QED  BY <3>2, <3>3, SmallerBook
  <2>. QED  BY <2>1, <2>2, <2>3
<1>10. ~ NegativeSpread(book)' <=> ~ NegativeSpread(book')  BY DEF NegativeSpread
<1>11. ~ IsInverted(live)' <=> ~ IsInverted(live')  BY DEF IsInverted
<1>12. (Trading(msecs)' <=> Trading(o.msecs)) /\ (InDay(msecs)' <=> InDay(o.msecs))
  BY <1>3 DEF Trading, InDay
<1>13. UncrossedInTrading'
  BY <1>8, <1>9, <1>10, <1>11, <1>12, Zenon DEF UncrossedInTrading
<1>. QED  BY <1>3, <1>6, <1>13 DEF OpenOK

\* Quotes with a later one behind them tell the same of the time before it.
LEMMA WriteQuote ==
    ASSUME NEW S, NEW Q \in Seq(S), NEW x, x.msecs \in Nat \ {0}, Stamped(Q), Rising(Q),
           \A i \in 1 .. Len(Q) : Q[i].msecs < x.msecs
    PROVE  LET W == Append(Q, x) IN
           /\ \E T : W \in Seq(T)
           /\ Len(W) = Len(Q) + 1 /\ W[Len(Q) + 1] = x
           /\ \A i \in 1 .. Len(Q) : W[i] = Q[i]
           /\ Stamped(W) /\ Rising(W)
           /\ \A t \in Nat : \A v, c : t < x.msecs /\ Told(Q, t, v, c) => Told(W, t, v, c)
           /\ \A t \in Nat : \A c : t >= x.msecs => Told(W, t, x.q, c)
<1>. DEFINE W == Append(Q, x)
            T == S \union {x}
<1>1. Q \in Seq(T) /\ x \in T  OBVIOUS
<1>2. W \in Seq(T) /\ Len(W) = Len(Q) + 1 /\ W[Len(Q) + 1] = x /\ Len(Q) \in Nat
      /\ \A i \in 1 .. Len(Q) : W[i] = Q[i]
  BY <1>1
<1>. HIDE DEF W
<1>3. Stamped(W)  BY <1>2 DEF Stamped
<1>4. Rising(W)  BY <1>2 DEF Rising, Stamped
<1>5. ASSUME NEW t \in Nat, NEW v, NEW c, t < x.msecs, Told(Q, t, v, c) PROVE Told(W, t, v, c)
  <2>1. CASE v = c /\ \A i \in 1 .. Len(Q) : Q[i].msecs > t
    BY <1>2, <1>5, <2>1 DEF Told
  <2>2. ASSUME NEW i \in 1 .. Len(Q), Q[i].q = v, Q[i].msecs <= t,
               \A j \in 1 .. Len(Q) : j > i => Q[j].msecs > t
        PROVE  Told(W, t, v, c)
    <3>1. i \in 1 .. Len(W) /\ W[i].q = v /\ W[i].msecs <= t  BY <1>2, <2>2
    <3>2. \A j \in 1 .. Len(W) : j > i => W[j].msecs > t  BY <1>2, <1>5, <2>2
    <3>. QED  BY <3>1, <3>2 DEF Told
  <2>. QED  BY <1>5, <2>1, <2>2 DEF Told
<1>6. ASSUME NEW t \in Nat, NEW c, t >= x.msecs PROVE Told(W, t, x.q, c)
  <2>1. Len(Q) + 1 \in 1 .. Len(W) /\ \A j \in 1 .. Len(W) : ~ (j > Len(Q) + 1)  BY <1>2
  <2>. QED  BY <1>2, <1>6, <2>1 DEF Told
<1>. QED  BY <1>2, <1>3, <1>4, <1>5, <1>6 DEF W

\* What is told is the last quote with a msecs up to t.
LEMMA LastToldIs ==
    ASSUME NEW S, NEW Q \in Seq(S), Stamped(Q), NEW t \in Nat, NEW v, NEW c, Told(Q, t, v, c)
    PROVE  LET past == {i \in DOMAIN Q : Q[i].msecs \in 1 .. t}
           IN v = IF past = {} THEN c ELSE Q[Max(past)].q
<1>. DEFINE past == {i \in DOMAIN Q : Q[i].msecs \in 1 .. t}
<1>1. DOMAIN Q = 1 .. Len(Q) /\ Len(Q) \in Nat  OBVIOUS
<1>2. CASE v = c /\ \A i \in 1 .. Len(Q) : Q[i].msecs > t
  BY <1>1, <1>2 DEF Stamped
<1>3. ASSUME NEW i \in 1 .. Len(Q), Q[i].q = v, Q[i].msecs <= t,
             \A j \in 1 .. Len(Q) : j > i => Q[j].msecs > t
      PROVE  past # {} /\ Q[Max(past)].q = v
  <2>1. i \in past  BY <1>1, <1>3 DEF Stamped
  <2>2. past \in SUBSET (0 .. Len(Q)) /\ \A j \in past : j <= i  BY <1>1, <1>3 DEF Stamped
  <2>. HIDE DEF past
  <2>3. Max(past) \in past /\ i <= Max(past)  BY <1>1, <2>1, <2>2, MaxOf
  <2>4. Max(past) = i
    <3>1. Max(past) \in 0 .. Len(Q) /\ Max(past) <= i  BY <2>2, <2>3
    <3>. QED  BY <1>1, <2>3, <3>1
  <2>. QED  BY <1>3, <2>1, <2>4
<1>. QED  BY <1>2, <1>3 DEF Told

LEMMA ReadQuote ==
    ASSUME IInv, NEW o \in Order, Read(o)
    PROVE  QuoteOK'
<1>. DEFINE q == Quote(Updated(live, o, TRUE, liveOpen))
            now == o.msecs
<1>1. /\ lastQuote' = q /\ carried' = carried
      /\ IF q = lastQuote THEN UNCHANGED <<quote, tsQ>>
         ELSE /\ quote' = [msecs |-> now, q |-> q]
              /\ tsQ' = IF quote.msecs > 0 /\ quote.msecs < now THEN Append(tsQ, quote) ELSE tsQ
      /\ shown' = Shown(now, q)
  BY Zenon DEF Read, OrderToQuote
<1>. HIDE DEF q
<1>2. Waiting /\ phase' = "read" /\ msecs' = now  BY DEF Read, IInv, QuoteOK
<1>3. now \in Nat /\ msecs \in Nat /\ msecs <= now /\ now >= 1
  <2>1. msecs \in 1 .. LastMsecs /\ LastMsecs \in Nat  BY BookAssumption DEF IInv, TypesOK
  <2>. QED  BY <2>1, ReadBooks
<1>. HIDE DEF now
<1>4. /\ DOMAIN shown' = DOMAIN shown \union {now} /\ shown'[now] = q
      /\ \A t \in DOMAIN shown : t # now => shown'[t] = shown[t]
      /\ DOMAIN shown \subseteq 1 .. msecs
  BY <1>1, <1>2 DEF Shown, Waiting
<1>5. DOMAIN shown' \subseteq 1 .. now  BY <1>3, <1>4
<1>6. quote.msecs \in Nat /\ quote.msecs <= now  BY <1>2, <1>3 DEF Waiting
<1>7. CASE q = lastQuote
  <2>1. UNCHANGED <<quote, tsQ, carried>>  BY <1>1, <1>7
  <2>2. q = IF quote.msecs > 0 THEN quote.q ELSE carried  BY <1>2, <1>7 DEF Waiting
  <2>3. quote.msecs = 0 => Told(tsQ, now, q, carried)
    \* Nothing has been written: it would be earlier than a quote at 0.
    BY <1>2, <2>2 DEF Waiting, Stamped, Told
  <2>4. ASSUME NEW t \in DOMAIN shown'
        PROVE  IF quote.msecs \in 1 .. t THEN shown'[t] = quote.q
               ELSE Told(tsQ, t, shown'[t], carried)
    <3>1. CASE t = now  BY <1>3, <1>4, <1>6, <2>2, <2>3, <3>1
    <3>2. CASE t # now  BY <1>2, <1>4, <2>4, <3>2 DEF Waiting
    <3>. QED  BY <3>1, <3>2
  <2>5. Waiting'
    BY <1>1, <1>2, <1>3, <1>5, <1>6, <2>1, <2>2, <2>4 DEF Waiting, Stamped, Rising, Told
  <2>. QED  BY <1>2, <2>5 DEF QuoteOK, QuoteFollowsBook
<1>8. CASE q # lastQuote /\ quote.msecs > 0 /\ quote.msecs < now
  <2>1. /\ quote' = [msecs |-> now, q |-> q] /\ tsQ' = Append(tsQ, quote)
        /\ quote'.msecs = now /\ quote'.q = q /\ Len(tsQ) \in Nat
    BY <1>1, <1>2, <1>8 DEF Waiting
  <2>2. /\ \E T : tsQ' \in Seq(T)
        /\ Len(tsQ') = Len(tsQ) + 1 /\ tsQ'[Len(tsQ) + 1] = quote
        /\ \A i \in 1 .. Len(tsQ) : tsQ'[i] = tsQ[i]
        /\ Stamped(tsQ') /\ Rising(tsQ')
        /\ \A t \in Nat : \A v, c : t < quote.msecs /\ Told(tsQ, t, v, c) => Told(tsQ', t, v, c)
        /\ \A t \in Nat : \A c : t >= quote.msecs => Told(tsQ', t, quote.q, c)
    <3>1. PICK S : tsQ \in Seq(S)  BY <1>2 DEF Waiting
    <3>2. quote.msecs \in Nat \ {0} /\ Stamped(tsQ) /\ Rising(tsQ)
          /\ \A i \in 1 .. Len(tsQ) : tsQ[i].msecs < quote.msecs
      BY <1>2, <1>6, <1>8 DEF Waiting
    <3>. DEFINE W == Append(tsQ, quote)
    <3>3. /\ \E T : W \in Seq(T)
          /\ Len(W) = Len(tsQ) + 1 /\ W[Len(tsQ) + 1] = quote
          /\ \A i \in 1 .. Len(tsQ) : W[i] = tsQ[i]
          /\ Stamped(W) /\ Rising(W)
          /\ \A t \in Nat : \A v, c : t < quote.msecs /\ Told(tsQ, t, v, c) => Told(W, t, v, c)
          /\ \A t \in Nat : \A c : t >= quote.msecs => Told(W, t, quote.q, c)
      BY <3>1, <3>2, WriteQuote
    <3>4. W = tsQ'  BY <2>1
    <3>. HIDE DEF W
    <3>. QED  BY <3>3, <3>4
  <2>3. \A i \in 1 .. Len(tsQ') : tsQ'[i].msecs < now
    <3>1. \A i \in 1 .. Len(tsQ) : tsQ[i].msecs < quote.msecs /\ tsQ[i].msecs \in Nat
      BY <1>2 DEF Waiting, Stamped
    <3>. QED  BY <1>3, <1>6, <1>8, <2>1, <2>2, <3>1
  <2>4. ASSUME NEW t \in DOMAIN shown'
        PROVE  IF now \in 1 .. t THEN shown'[t] = q ELSE Told(tsQ', t, shown'[t], carried)
    <3>1. t \in Nat /\ t >= 1 /\ t <= now  BY <1>3, <1>5, <2>4
    <3>2. CASE t = now  BY <1>4, <3>2, <1>3
    <3>3. CASE t # now
      <4>1. t \in DOMAIN shown /\ shown'[t] = shown[t] /\ now \notin 1 .. t
        BY <1>3, <1>4, <2>4, <3>1, <3>3
      <4>2. IF quote.msecs \in 1 .. t THEN shown[t] = quote.q
            ELSE Told(tsQ, t, shown[t], carried)
        BY <1>2, <4>1 DEF Waiting
      <4>3. quote.msecs \in 1 .. t \/ t < quote.msecs  BY <1>6, <1>8, <3>1
      <4>. QED  BY <1>6, <2>2, <3>1, <4>1, <4>2, <4>3
    <3>. QED  BY <3>2, <3>3
  <2>5. Waiting'
    BY <1>1, <1>2, <1>3, <1>5, <2>1, <2>2, <2>3, <2>4 DEF Waiting, Stamped, Rising, Told
  <2>. QED  BY <1>2, <2>5 DEF QuoteOK, QuoteFollowsBook
<1>9. CASE q # lastQuote /\ ~ (quote.msecs > 0 /\ quote.msecs < now)
  <2>1. /\ quote' = [msecs |-> now, q |-> q] /\ tsQ' = tsQ
        /\ quote'.msecs = now /\ quote'.q = q
    BY <1>1, <1>9
  <2>2. \A i \in 1 .. Len(tsQ) : tsQ[i].msecs < now
    <3>1. \A i \in 1 .. Len(tsQ) : tsQ[i].msecs < quote.msecs /\ tsQ[i].msecs \in Nat
      BY <1>2 DEF Waiting, Stamped
    <3>. QED  BY <1>3, <1>6, <3>1
  <2>3. ASSUME NEW t \in DOMAIN shown'
        PROVE  IF now \in 1 .. t THEN shown'[t] = q ELSE Told(tsQ, t, shown'[t], carried)
    <3>1. t \in Nat /\ t >= 1 /\ t <= now  BY <1>3, <1>5, <2>3
    <3>2. CASE t = now  BY <1>4, <3>2, <1>3
    <3>3. CASE t # now
      <4>1. t \in DOMAIN shown /\ shown'[t] = shown[t] /\ now \notin 1 .. t
            /\ quote.msecs \notin 1 .. t
        BY <1>3, <1>4, <1>6, <1>9, <2>3, <3>1, <3>3
      <4>. QED  BY <1>2, <4>1 DEF Waiting
    <3>. QED  BY <3>2, <3>3
  <2>4. Waiting'
    BY <1>1, <1>2, <1>3, <1>5, <2>1, <2>2, <2>3 DEF Waiting
  <2>. QED  BY <1>2, <2>4 DEF QuoteOK, QuoteFollowsBook
<1>. QED  BY <1>6, <1>7, <1>8, <1>9

\* End: the quotes with the one that waited tell what the book has shown.
LEMMA EndQuote ==
    ASSUME IInv, End
    PROVE  QuoteOK'
<1>1. /\ Waiting /\ UNCHANGED <<quote, shown, carried>> /\ phase' = "end"
      /\ tsQ' = Append(tsQ, quote)
  BY DEF End, IInv, QuoteOK
<1>2. PICK S : tsQ \in Seq(S)  BY <1>1 DEF Waiting
<1>3. quote.msecs \in Nat /\ \A t \in DOMAIN shown : t \in Nat
  <2>1. msecs \in 1 .. LastMsecs /\ LastMsecs \in Nat  BY BookAssumption DEF IInv, TypesOK
  <2>. QED  BY <1>1, <2>1 DEF Waiting
<1>4. CASE quote.msecs = 0
  <2>1. Len(tsQ) = 0 /\ tsQ = <<>>
    <3>1. \A i \in 1 .. Len(tsQ) : tsQ[i].msecs < 0 /\ tsQ[i].msecs \in Nat
      BY <1>1, <1>4 DEF Waiting, Stamped
    <3>. QED  BY <1>2, <3>1
  <2>2. tsQ' = <<quote>> /\ DOMAIN tsQ' = {1} /\ tsQ'[1].msecs = 0  BY <1>1, <1>4, <2>1
  <2>3. \A t \in DOMAIN shown : shown[t] = carried
    BY <1>1, <1>3, <1>4, <2>1 DEF Waiting, Told
  <2>4. \A t \in DOMAIN shown : {i \in DOMAIN tsQ' : tsQ'[i].msecs \in 1 .. t} = {}
    BY <1>3, <2>2
  <2>. QED  BY <1>1, <2>2, <2>3, <2>4 DEF QuoteOK, QuoteFollowsBook
<1>5. CASE quote.msecs # 0
  <2>1. /\ \E T : tsQ' \in Seq(T)
        /\ Stamped(tsQ') /\ Rising(tsQ')
        /\ \A t \in Nat : \A v, c : t < quote.msecs /\ Told(tsQ, t, v, c) => Told(tsQ', t, v, c)
        /\ \A t \in Nat : \A c : t >= quote.msecs => Told(tsQ', t, quote.q, c)
    BY <1>1, <1>2, <1>3, <1>5, WriteQuote DEF Waiting
  <2>2. PICK T : tsQ' \in Seq(T)  BY <2>1
  <2>3. ASSUME NEW t \in DOMAIN shown PROVE Told(tsQ', t, shown[t], carried)
    <3>1. t \in Nat /\ (quote.msecs \in 1 .. t \/ t < quote.msecs)  BY <1>3, <1>5, <2>3
    <3>2. IF quote.msecs \in 1 .. t THEN shown[t] = quote.q ELSE Told(tsQ, t, shown[t], carried)
      BY <1>1, <2>3 DEF Waiting
    <3>. QED  BY <1>3, <2>1, <3>1, <3>2
  <2>4. DOMAIN tsQ' = 1 .. Len(tsQ')  BY <2>2
  <2>5. \A i, j \in DOMAIN tsQ' : i < j => tsQ'[i].msecs < tsQ'[j].msecs
    BY <2>1, <2>4 DEF Rising
  <2>6. ASSUME NEW t \in DOMAIN shown
        PROVE  LET past == {i \in DOMAIN tsQ' : tsQ'[i].msecs \in 1 .. t}
               IN shown[t] = IF past = {} THEN carried ELSE tsQ'[Max(past)].q
    BY <1>3, <2>1, <2>2, <2>3, LastToldIs
  <2>. QED  BY <1>1, <2>5, <2>6 DEF QuoteOK, QuoteFollowsBook
<1>. QED  BY <1>4, <1>5

LEMMA InvStep ==
    ASSUME IInv, [Next]_vars
    PROVE  IInv'
<1>1. ASSUME NEW o \in Order, Read(o) PROVE IInv'
  <2>1. TypesOK'
    <3>1. pending' \in Seq(Deletion) /\ IsOrder(o)  BY <1>1, ReadBooks
    <3>2. phase' \in {"read", "end"}  BY <1>1 DEF Read, IInv, TypesOK
    <3>3. n' \in 0 .. MaxOrders  BY <1>1, BookAssumption DEF Read, IInv, TypesOK
    <3>4. msecs' \in 1 .. LastMsecs  BY <1>1 DEF Read, Order
    <3>5. afterOpen' \in BOOLEAN /\ liveOpen' \in BOOLEAN
      <4>1. afterOpen' \in BOOLEAN
        BY <1>1, Zenon DEF Read, RemoveCrosses
      <4>2. liveOpen' \in BOOLEAN
        BY <1>1, Zenon DEF Read, OrderToQuote, OpenedAfter
      <4>. QED  BY <4>1, <4>2
    <3>6. collided' \subseteq Side \X Prices
      <4>1. collided' = collided \/ collided' = collided \union {<<o.side, o.price>>}
        BY <1>1, Zenon DEF Read, RemoveCrosses
      <4>2. <<o.side, o.price>> \in Side \X Prices  BY <3>1 DEF IsOrder
      <4>. QED  BY <4>1, <4>2 DEF IInv, TypesOK
    <3>. QED  BY <3>1, <3>2, <3>3, <3>4, <3>5, <3>6 DEF TypesOK
  <2>2. BooksOK' /\ EvenOK'  BY <1>1, ReadBooks
  <2>3. OpenOK'  BY <1>1, ReadOpen
  <2>4. QuoteOK'  BY <1>1, ReadQuote
  <2>. QED  BY <2>1, <2>2, <2>3, <2>4 DEF IInv
<1>2. CASE End
  <2>1. UNCHANGED <<n, msecs, book, afterOpen, pending, replay, collided, live,
                    liveOpen>> /\ phase' = "end"
    BY <1>2 DEF End
  <2>2. TypesOK'  BY <2>1 DEF IInv, TypesOK
  <2>3. BooksOK'  BY <2>1 DEF IInv, BooksOK, IsBook, Proper
  <2>4. OpenOK'  BY <2>1 DEF IInv, OpenOK, UncrossedInTrading, NegativeSpread, IsInverted, Trading, InDay
  <2>5. EvenOK'  BY <2>1 DEF IInv, EvenOK, Even, Free, Waits, Volume, At
  <2>6. QuoteOK'  BY <1>2, EndQuote
  <2>. QED  BY <2>2, <2>3, <2>4, <2>5, <2>6 DEF IInv
<1>3. CASE NextTicker
  <2>1. (/\ msecs = 1 /\ book = NoBook /\ afterOpen = FALSE /\ pending = <<>> /\ replay = NoBook
         /\ collided = {} /\ live = NoBook /\ liveOpen = FALSE /\ phase = "read"
         /\ n \in 0 .. MaxOrders /\ quote = [msecs |-> 0, q |-> NoQuote]
         /\ tsQ = <<>> /\ shown = <<>> /\ carried = lastQuote)'
    BY <1>3 DEF NextTicker, NoBook, NoQuote, IInv, TypesOK
  <2>. QED  BY <2>1, StartOK, PTL
<1>4. CASE UNCHANGED vars
  <2>1. UNCHANGED <<phase, n, msecs, book, afterOpen, pending, replay, collided, live,
                    liveOpen, lastQuote, quote, tsQ, shown, carried>>
    BY <1>4 DEF vars
  <2>2. TypesOK'  BY <2>1 DEF IInv, TypesOK
  <2>3. BooksOK'  BY <2>1 DEF IInv, BooksOK, IsBook, Proper
  <2>4. OpenOK'  BY <2>1 DEF IInv, OpenOK, UncrossedInTrading, NegativeSpread, IsInverted, Trading, InDay
  <2>5. EvenOK'  BY <2>1 DEF IInv, EvenOK, Even, Free, Waits, Volume, At
  <2>6. QuoteOK'
    BY <2>1 DEF IInv, QuoteOK, QuoteFollowsBook, Waiting, Stamped, Rising, Told
  <2>. QED  BY <2>2, <2>3, <2>4, <2>5, <2>6 DEF IInv
<1>. QED  BY <1>1, <1>2, <1>3, <1>4 DEF Next

LEMMA Invariance == Spec => []IInv
<1>1. Init => IInv
  <2>1. 0 \in 0 .. MaxOrders  BY BookAssumption
  <2>. QED  BY <2>1, StartOK, Zenon DEF Init
<1>2. IInv /\ [Next]_vars => IInv'  BY InvStep
<1>. QED  BY <1>1, <1>2, PTL DEF Spec

-----------------------------------------------------------------------------
(* The difference of two books.                                            *)

LEMMA SetToSeqLists ==
    ASSUME NEW S, IsFiniteSet(S)
    PROVE  Lists(SetToSeq(S), S) /\ SetToSeq(S) \in Seq(S)
<1>. DEFINE N == Cardinality(S)
            f == SetToSeq(S)
<1>1. N \in Nat /\ \E g : g \in Bijection(1 .. N, S)
  BY FS_CardinalityType, Zenon DEF ExistsBijection
<1>2. PICK g : g \in Bijection(1 .. N, S)  BY <1>1, Zenon
<1>3. g \in [1 .. N -> S] /\ IsInjective(g)
  <2>1. g \in [1 .. N -> S] /\ \A i, j \in 1 .. N : g[i] = g[j] => i = j
    BY <1>2 DEF Bijection, Injection, IsInjective
  <2>. QED  BY <2>1 DEF IsInjective
<1>4. f \in [1 .. N -> S] /\ IsInjective(f)
  <2>1. f = CHOOSE h \in [1 .. N -> S] : IsInjective(h)  BY Zenon DEF SetToSeq
  <2>. HIDE DEF f, N
  <2>. QED  BY <1>3, <2>1, Zenon
<1>. HIDE DEF f, N
<1>5. \A i, j \in 1 .. N : f[i] = f[j] => i = j  BY <1>4 DEF IsInjective
<1>6. f \in Injection(1 .. N, S)  BY <1>4 DEF Injection
<1>7. f \in Surjection(1 .. N, S)
  <2>1. Cardinality(1 .. N) = N  BY <1>1, FS_Interval
  <2>2. N = Cardinality(S)  BY DEF N
  <2>. QED  BY <1>6, <2>1, <2>2, FS_Injection
<1>8. \A p \in S : \E i \in 1 .. N : f[i] = p  BY <1>7 DEF Surjection
<1>9. f \in Seq(S) /\ Len(f) = N /\ DOMAIN f = 1 .. N  BY <1>1, <1>4
<1>10. \A i \in 1 .. N : f[i] \in S  BY <1>4
<1>11. Lists(f, S)  BY <1>1, <1>5, <1>8, <1>9, <1>10 DEF Lists
<1>. QED  BY <1>9, <1>11 DEF f

LEMMA DiffOrderIs ==
    ASSUME NEW b, IsBook(b), NEW c, IsBook(c), NEW s \in Side, NEW p \in Prices
    PROVE  /\ IsOrder(DiffOrder(b, c, s, p))
           /\ DiffOrder(b, c, s, p).side = s /\ DiffOrder(b, c, s, p).price = p
           /\ Volume(b, s, p) # Volume(c, s, p) =>
                After(DiffOrder(b, c, s, p), Volume(b, s, p)) = Volume(c, s, p)
<1>. DEFINE v == Volume(b, s, p)
            w == Volume(c, s, p)
            d == w - v
            o == DiffOrder(b, c, s, p)
<1>1. v \in Nat /\ w \in Nat  BY VolumeType
<1>2. o = [side |-> s, kind |-> IF d > 0 THEN "add" ELSE "del", price |-> p,
           size |-> IF d > 0 THEN d ELSE -d, msecs |-> 1]
  BY DEF DiffOrder
<1>. HIDE DEF v, w, o
<1>3. o.side = s /\ o.price = p  BY <1>2
<1>4. CASE d > 0
  <2>1. o.kind = "add" /\ o.size = d  BY <1>2, <1>4
  <2>2. d \in Nat /\ v + d = w  BY <1>1, <1>4
  <2>3. IsOrder(o)  BY <1>3, <2>1, <2>2 DEF IsOrder
  <2>4. After(o, v) = w  BY <2>1, <2>2 DEF After
  <2>. QED  BY <1>3, <2>3, <2>4 DEF o, v, w
<1>5. CASE ~ (d > 0)
  <2>1. o.kind = "del" /\ o.size = -d  BY <1>2, <1>5
  <2>2. -d \in Nat /\ v >= -d /\ v - (-d) = w  BY <1>1, <1>5
  <2>3. IsOrder(o)  BY <1>3, <2>1, <2>2 DEF IsOrder
  <2>4. After(o, v) = w  BY <2>1, <2>2 DEF After
  <2>. QED  BY <1>3, <2>3, <2>4 DEF o, v, w
<1>. QED  BY <1>4, <1>5

\* The orders of a set of levels in some sequence: one for each of them.
DiffSet(b, c, L) == {DiffOrder(b, c, l[1], l[2]) : l \in L}
OnePerLevel(q, b, c, L) ==
    /\ q \in Seq(DiffSet(b, c, L)) /\ Len(q) \in Nat
    /\ \A i \in 1 .. Len(q) :
         IsOrder(q[i]) /\ <<q[i].side, q[i].price>> \in L
         /\ q[i] = DiffOrder(b, c, q[i].side, q[i].price)
    /\ \A s \in Side, p \in Prices : <<s, p>> \in L => \E i \in 1 .. Len(q) : At(q[i], s, p)
    /\ \A i, j \in 1 .. Len(q), s \in Side, p \in Prices :
         At(q[i], s, p) /\ At(q[j], s, p) => i = j

LEMMA DiffSequence ==
    ASSUME NEW b, IsBook(b), NEW c, IsBook(c), NEW L \in SUBSET (Side \X Prices)
    PROVE  OnePerLevel(SetToSeq(DiffSet(b, c, L)), b, c, L)
<1>. DEFINE D == DiffSet(b, c, L)
            f == [l \in L |-> DiffOrder(b, c, l[1], l[2])]
            q == SetToSeq(D)
<1>1. IsFiniteSet(L)
  <2>1. IsFiniteSet(Side)
    <3>1. IsFiniteSet({}) BY FS_EmptySet
    <3>2. IsFiniteSet({} \cup {"bid"})  BY <3>1, FS_AddElement
    <3>3. IsFiniteSet(({} \cup {"bid"}) \cup {"ask"})  BY <3>2, FS_AddElement
    <3>4. Side = ({} \cup {"bid"}) \cup {"ask"}  BY DEF Side
    <3>. QED  BY <3>3, <3>4
  <2>2. IsFiniteSet(Side \X Prices)  BY <2>1, BookAssumption, FS_Product
  <2>. QED  BY <2>2, FS_Subset
<1>2. IsFiniteSet(D)
  <2>1. f \in [L -> D] /\ \A d \in D : \E l \in L : f[l] = d  BY DEF DiffSet
  <2>2. f \in Surjection(L, D)  BY <2>1 DEF Surjection
  <2>. QED  BY <1>1, <2>2, FS_Surjection
<1>3. Lists(q, D) /\ q \in Seq(D)
  <2>. HIDE DEF D
  <2>. QED  BY <1>2, SetToSeqLists
<1>. HIDE DEF q
<1>4. ASSUME NEW l \in L
      PROVE  l[1] \in Side /\ l[2] \in Prices /\ l = <<l[1], l[2]>>
  OBVIOUS
<1>5. ASSUME NEW i \in 1 .. Len(q)
      PROVE  IsOrder(q[i]) /\ <<q[i].side, q[i].price>> \in L
             /\ q[i] = DiffOrder(b, c, q[i].side, q[i].price)
  <2>1. q[i] \in D
    <3>. HIDE DEF D
    <3>. QED  BY <1>3 DEF Lists
  <2>2. PICK l \in L : q[i] = DiffOrder(b, c, l[1], l[2])  BY <2>1 DEF DiffSet
  <2>3. IsOrder(q[i]) /\ q[i].side = l[1] /\ q[i].price = l[2]
    BY <1>4, <2>2, DiffOrderIs
  <2>. QED  BY <1>4, <2>2, <2>3
<1>6. ASSUME NEW s \in Side, NEW p \in Prices, <<s, p>> \in L
      PROVE  \E i \in 1 .. Len(q) : At(q[i], s, p)
  <2>1. DiffOrder(b, c, s, p) \in D
    <3>1. <<s, p>>[1] = s /\ <<s, p>>[2] = p  OBVIOUS
    <3>. QED  BY <1>6, <3>1 DEF DiffSet
  <2>2. PICK i \in 1 .. Len(q) : q[i] = DiffOrder(b, c, s, p)
    <3>. HIDE DEF D
    <3>. QED  BY <1>3, <2>1 DEF Lists
  <2>3. At(q[i], s, p)  BY <2>2, DiffOrderIs DEF At
  <2>. QED  BY <2>3
<1>7. ASSUME NEW i \in 1 .. Len(q), NEW j \in 1 .. Len(q), NEW s \in Side, NEW p \in Prices,
             At(q[i], s, p), At(q[j], s, p)
      PROVE  i = j
  <2>1. q[i] = DiffOrder(b, c, s, p) /\ q[j] = DiffOrder(b, c, s, p)
    BY <1>5, <1>7 DEF At
  <2>2. \A x, y \in 1 .. Len(q) : q[x] = q[y] => x = y
    <3>. HIDE DEF D
    <3>. QED  BY <1>3 DEF Lists
  <2>. QED  BY <2>1, <2>2
<1>8. Len(q) \in Nat
  <2>. HIDE DEF D
  <2>. QED  BY <1>3 DEF Lists
<1>9. OnePerLevel(q, b, c, L)
  <2>. HIDE DEF D
  <2>1. q \in Seq(DiffSet(b, c, L))  BY <1>3 DEF D
  <2>. QED  BY <2>1, <1>5, <1>6, <1>7, <1>8 DEF OnePerLevel
<1>. QED  BY <1>9 DEF q

\* No level is in both parts of the difference, and the others are equal.
LEMMA DifferenceApplies ==
    ASSUME NEW b, IsBook(b), Proper(b), NEW c, IsBook(c), Proper(c)
    PROVE  Replayed(b, BookDiff(b, c)) = c
<1>. DEFINE D1 == DiffSet(b, c, Changed(b, c))
            D2 == DiffSet(b, c, Added(b, c))
            q1 == SetToSeq(D1)
            q2 == SetToSeq(D2)
            q == q1 \o q2
            m == Len(q)
<1>1. BookDiff(b, c) = q  BY Zenon DEF BookDiff, DiffSet
<1>2. Changed(b, c) \in SUBSET (Side \X Prices) /\ Added(b, c) \in SUBSET (Side \X Prices)
  BY DEF Changed, Added
<1>3. /\ q1 \in Seq(D1) /\ Len(q1) \in Nat
      /\ \A i \in 1 .. Len(q1) :
            IsOrder(q1[i]) /\ <<q1[i].side, q1[i].price>> \in Changed(b, c)
            /\ q1[i] = DiffOrder(b, c, q1[i].side, q1[i].price)
      /\ \A s \in Side, p \in Prices : <<s, p>> \in Changed(b, c) =>
            \E i \in 1 .. Len(q1) : At(q1[i], s, p)
      /\ \A i, j \in 1 .. Len(q1), s \in Side, p \in Prices :
            At(q1[i], s, p) /\ At(q1[j], s, p) => i = j
  BY <1>2, DiffSequence, Zenon DEF OnePerLevel
<1>4. /\ q2 \in Seq(D2) /\ Len(q2) \in Nat
      /\ \A i \in 1 .. Len(q2) :
            IsOrder(q2[i]) /\ <<q2[i].side, q2[i].price>> \in Added(b, c)
            /\ q2[i] = DiffOrder(b, c, q2[i].side, q2[i].price)
      /\ \A s \in Side, p \in Prices : <<s, p>> \in Added(b, c) =>
            \E i \in 1 .. Len(q2) : At(q2[i], s, p)
      /\ \A i, j \in 1 .. Len(q2), s \in Side, p \in Prices :
            At(q2[i], s, p) /\ At(q2[j], s, p) => i = j
  BY <1>2, DiffSequence, Zenon DEF OnePerLevel
<1>5. /\ m = Len(q1) + Len(q2) /\ m \in Nat /\ DOMAIN q = 1 .. m
      /\ \A i \in 1 .. Len(q1) : i \in 1 .. m /\ q[i] = q1[i]
      /\ \A i \in 1 .. Len(q2) : Len(q1) + i \in 1 .. m /\ q[Len(q1) + i] = q2[i]
      /\ \A i \in 1 .. m : i \in 1 .. Len(q1) \/ \E j \in 1 .. Len(q2) : i = Len(q1) + j
  <2>1. q1 \in Seq(D1 \cup D2) /\ q2 \in Seq(D1 \cup D2) /\ Len(q1) \in Nat /\ Len(q2) \in Nat
    <3>. HIDE DEF q1, q2, D1, D2
    <3>. QED  BY <1>3, <1>4
  <2>. HIDE DEF q1, q2
  <2>2. /\ m = Len(q1) + Len(q2) /\ m \in Nat /\ DOMAIN q = 1 .. m
        /\ \A i \in 1 .. Len(q1) : i \in 1 .. m /\ q[i] = q1[i]
    <3>. HIDE DEF D1, D2
    <3>. QED  BY <2>1
  <2>3. \A i \in 1 .. Len(q2) : Len(q1) + i \in 1 .. m /\ q[Len(q1) + i] = q2[i]
    <3>. HIDE DEF D1, D2
    <3>. QED  BY <2>1
  <2>4. ASSUME NEW i \in 1 .. m, i \notin 1 .. Len(q1)
        PROVE  \E j \in 1 .. Len(q2) : i = Len(q1) + j
    <3>1. i - Len(q1) \in 1 .. Len(q2) /\ i = Len(q1) + (i - Len(q1))
      <4>. HIDE DEF q, m
      <4>. QED  BY <2>1, <2>2, <2>4
    <3>. QED  BY <3>1
  <2>. HIDE DEF q, m
  <2>. QED  BY <2>2, <2>3, <2>4
<1>. HIDE DEF q, q1, q2, m, D1, D2
\* The levels of the two parts are different ones.
<1>6. ASSUME NEW s \in Side, NEW p \in Prices, <<s, p>> \in Changed(b, c)
      PROVE  <<s, p>> \notin Added(b, c) /\ Volume(b, s, p) # Volume(c, s, p)
  <2>1. <<s, p>>[1] = s /\ <<s, p>>[2] = p  OBVIOUS
  <2>2. p \in DOMAIN b[s] /\ b[s][p] # Volume(c, s, p)  BY <1>6, <2>1 DEF Changed
  <2>3. Volume(b, s, p) = b[s][p] /\ b[s][p] > 0  BY <2>2 DEF Volume, Proper
  <2>. QED  BY <2>1, <2>2, <2>3 DEF Added
<1>7. ASSUME NEW s \in Side, NEW p \in Prices, <<s, p>> \in Added(b, c)
      PROVE  Volume(b, s, p) # Volume(c, s, p)
  <2>1. <<s, p>>[1] = s /\ <<s, p>>[2] = p  OBVIOUS
  <2>a. Volume(b, s, p) = 0 /\ p \in DOMAIN c[s] \union DOMAIN b[s]  BY <1>7, <2>1 DEF Added
  <2>b. p \notin DOMAIN b[s]  BY <2>a DEF Volume, Proper
  <2>2. p \in DOMAIN c[s] /\ Volume(b, s, p) = 0  BY <2>a, <2>b
  <2>3. Volume(c, s, p) = c[s][p] /\ c[s][p] > 0  BY <2>2 DEF Volume, Proper
  <2>. QED  BY <2>2, <2>3
<1>8. ASSUME NEW s \in Side, NEW p \in Prices,
             <<s, p>> \notin Changed(b, c), <<s, p>> \notin Added(b, c)
      PROVE  Volume(b, s, p) = Volume(c, s, p)
  <2>1. <<s, p>>[1] = s /\ <<s, p>>[2] = p /\ <<s, p>> \in Side \X Prices  OBVIOUS
  <2>2. CASE p \in DOMAIN b[s]
    <3>1. b[s][p] = Volume(c, s, p)  BY <1>8, <2>1, <2>2 DEF Changed
    <3>. QED  BY <2>2, <3>1 DEF Volume
  <2>3. CASE p \notin DOMAIN b[s]
    <3>1. Volume(b, s, p) = 0  BY <2>3 DEF Volume
    <3>2. p \notin DOMAIN c[s]  BY <1>8, <2>1, <3>1 DEF Added
    <3>. QED  BY <3>1, <3>2 DEF Volume
  <2>. QED  BY <2>2, <2>3
<1>9. ASSUME NEW i \in 1 .. m
      PROVE  IsOrder(q[i]) /\ q[i] = DiffOrder(b, c, q[i].side, q[i].price)
  <2>1. CASE i \in 1 .. Len(q1)
    <3>1. q[i] = q1[i]  BY <1>5, <2>1
    <3>. QED  BY <1>3, <2>1, <3>1
  <2>2. CASE \E y \in 1 .. Len(q2) : i = Len(q1) + y
    <3>1. PICK y \in 1 .. Len(q2) : i = Len(q1) + y  BY <2>2
    <3>2. q[i] = q2[y]  BY <1>5, <3>1
    <3>. QED  BY <1>4, <3>2
  <2>. QED  BY <1>5, <2>1, <2>2
<1>10. ASSUME NEW s \in Side, NEW p \in Prices, NEW i \in 1 .. m, NEW j \in 1 .. m,
              At(q[i], s, p), At(q[j], s, p)
       PROVE  i = j
  <2>1. ASSUME NEW x \in 1 .. m, At(q[x], s, p)
        PROVE  \/ x \in 1 .. Len(q1) /\ At(q1[x], s, p) /\ <<s, p>> \in Changed(b, c)
               \/ /\ <<s, p>> \in Added(b, c)
                  /\ \E y \in 1 .. Len(q2) : x = Len(q1) + y /\ At(q2[y], s, p)
    <3>1. CASE x \in 1 .. Len(q1)
      <4>1. q[x] = q1[x] /\ <<q1[x].side, q1[x].price>> \in Changed(b, c)  BY <1>3, <1>5, <3>1
      <4>. QED  BY <2>1, <3>1, <4>1 DEF At
    <3>2. CASE \E y \in 1 .. Len(q2) : x = Len(q1) + y
      <4>1. PICK y \in 1 .. Len(q2) : x = Len(q1) + y  BY <3>2
      <4>2. q[x] = q2[y] /\ <<q2[y].side, q2[y].price>> \in Added(b, c)  BY <1>4, <1>5, <4>1
      <4>. QED  BY <2>1, <4>1, <4>2 DEF At
    <3>. QED  BY <1>5, <3>1, <3>2
  <2>. HIDE DEF m
  <2>2. CASE <<s, p>> \in Changed(b, c)
    <3>1. i \in 1 .. Len(q1) /\ At(q1[i], s, p)  BY <1>6, <1>10, <2>1, <2>2
    <3>2. j \in 1 .. Len(q1) /\ At(q1[j], s, p)  BY <1>6, <1>10, <2>1, <2>2
    <3>. QED  BY <1>3, <3>1, <3>2
  <2>3. CASE <<s, p>> \notin Changed(b, c)
    <3>1. PICK x \in 1 .. Len(q2) : i = Len(q1) + x /\ At(q2[x], s, p)  BY <1>10, <2>1, <2>3
    <3>2. PICK y \in 1 .. Len(q2) : j = Len(q1) + y /\ At(q2[y], s, p)  BY <1>10, <2>1, <2>3
    <3>3. x = y  BY <1>4, <3>1, <3>2
    <3>. QED  BY <3>1, <3>2, <3>3
  <2>. QED  BY <2>2, <2>3
<1>11. IsBook(Replayed(b, q)) /\ Proper(Replayed(b, q))
  BY <1>5, <1>9, ReplayedBook
<1>12. ASSUME NEW s \in Side, NEW p \in Prices
       PROVE  Volume(Replayed(b, q), s, p) = Volume(c, s, p)
  <2>1. CASE \E i \in 1 .. m : At(q[i], s, p)
    <3>1. PICK i \in 1 .. m : At(q[i], s, p)  BY <2>1
    <3>2. \A j \in 1 .. m : At(q[j], s, p) => j = i  BY <1>10, <3>1
    <3>3. Volume(Replayed(b, q), s, p) = After(q[i], Volume(b, s, p))
      <4>1. m \in Nat /\ DOMAIN q = 1 .. m /\ \A x \in 1 .. m : IsOrder(q[x])  BY <1>5, <1>9
      <4>. HIDE DEF m, q
      <4>2. \A x \in Side, y \in Prices, z \in 1 .. m :
               At(q[z], x, y) /\ (\A j \in 1 .. m : At(q[j], x, y) => j = z) =>
                   Volume(Replayed(b, q), x, y) = After(q[z], Volume(b, x, y))
        BY <4>1, ReplayedBook
      <4>. QED  BY <3>1, <3>2, <4>2
    <3>4. q[i] = DiffOrder(b, c, s, p)  BY <1>9, <3>1 DEF At
    <3>5. Volume(b, s, p) # Volume(c, s, p)
      <4>1. <<s, p>> \in Changed(b, c) \/ <<s, p>> \in Added(b, c)
        <5>1. CASE i \in 1 .. Len(q1)
          <6>1. q[i] = q1[i] /\ <<q1[i].side, q1[i].price>> \in Changed(b, c)
            BY <1>3, <1>5, <5>1
          <6>. QED  BY <3>1, <6>1 DEF At
        <5>2. CASE \E y \in 1 .. Len(q2) : i = Len(q1) + y
          <6>1. PICK y \in 1 .. Len(q2) : i = Len(q1) + y  BY <5>2
          <6>2. q[i] = q2[y] /\ <<q2[y].side, q2[y].price>> \in Added(b, c)
            BY <1>4, <1>5, <6>1
          <6>. QED  BY <3>1, <6>2 DEF At
        <5>. QED  BY <1>5, <5>1, <5>2
      <4>. QED  BY <1>6, <1>7, <4>1
    <3>. QED  BY <3>3, <3>4, <3>5, DiffOrderIs
  <2>2. CASE \A i \in 1 .. m : ~ At(q[i], s, p)
    <3>1. Volume(Replayed(b, q), s, p) = Volume(b, s, p)
      <4>1. m \in Nat /\ DOMAIN q = 1 .. m /\ \A i \in 1 .. m : IsOrder(q[i])  BY <1>5, <1>9
      <4>. QED  BY <2>2, <4>1, ReplayedBook
    <3>2. <<s, p>> \notin Changed(b, c)
      <4> SUFFICES ASSUME <<s, p>> \in Changed(b, c) PROVE FALSE  OBVIOUS
      <4>1. PICK i \in 1 .. Len(q1) : At(q1[i], s, p)  BY <1>3
      <4>. QED  BY <1>5, <2>2, <4>1
    <3>3. <<s, p>> \notin Added(b, c)
      <4> SUFFICES ASSUME <<s, p>> \in Added(b, c) PROVE FALSE  OBVIOUS
      <4>1. PICK i \in 1 .. Len(q2) : At(q2[i], s, p)  BY <1>4
      <4>. QED  BY <1>5, <2>2, <4>1
    <3>. QED  BY <1>8, <3>1, <3>2, <3>3
  <2>. QED  BY <2>1, <2>2
<1>13. Replayed(b, q) = c  BY <1>11, <1>12, BooksEqual
<1>. QED  BY <1>1, <1>13

-----------------------------------------------------------------------------
(* Depth: sums of volumes.                                                 *)

Pick(s) == CHOOSE x \in s : TRUE
\* The fold of MapThenSumSet, as a function of the sets that have been summed.
IsTotal(r, f, S) ==
    r = [s \in SUBSET S |-> IF s = {} THEN 0 ELSE f[Pick(s)] + r[s \ {Pick(s)}]]
Total(f, S) == CHOOSE r : IsTotal(r, f, S)

\* The levels that make the depth at a price.
LevelsTo(b, s, p) == {q \in DOMAIN b[s] : IF s = "bid" THEN q >= p ELSE q <= p}

LEMMA DepthIsTotal ==
    ASSUME NEW b, NEW s, NEW p
    PROVE  Depth(b, s, p) = Total(b[s], LevelsTo(b, s, p))[LevelsTo(b, s, p)]
BY DEF Depth, Total, IsTotal, Pick, LevelsTo, MapThenSumSet, MapThenFoldSet

LEMMA PickIn == \A s : s # {} => Pick(s) \in s
BY DEF Pick

LEMMA SizeWithout ==
    ASSUME NEW s, IsFiniteSet(s), NEW x \in s, NEW w \in Nat, Cardinality(s) <= w + 1
    PROVE  IsFiniteSet(s \ {x}) /\ Cardinality(s \ {x}) <= w
<1>1. IsFiniteSet(s \ {x}) /\ Cardinality(s \ {x}) = Cardinality(s) - 1  BY FS_RemoveElement
<1>2. Cardinality(s) \in Nat  BY FS_CardinalityType
<1>. QED  BY <1>1, <1>2

LEMMA EmptySize ==
    ASSUME NEW s, IsFiniteSet(s), Cardinality(s) <= 0
    PROVE  s = {}
BY FS_EmptySet, FS_CardinalityType

LEMMA TotalIs ==
    ASSUME NEW f, NEW S, IsFiniteSet(S)
    PROVE  IsTotal(Total(f, S), f, S)
<1>. DEFINE Small(w) == {s \in SUBSET S : Cardinality(s) <= w}
            Good(r, w) == r = [s \in Small(w) |-> IF s = {} THEN 0 ELSE f[Pick(s)] + r[s \ {Pick(s)}]]
            Has == {w \in Nat : \E r : Good(r, w)}
<1>0. \A s \in SUBSET S : IsFiniteSet(s)  BY FS_Subset
<1>1. 0 \in Has
  <2>1. \A s \in Small(0) : s = {}  BY <1>0, EmptySize
  <2>2. Good([s \in Small(0) |-> 0], 0)
    <3>. DEFINE z == [s \in Small(0) |-> 0]
    <3>1. \A s \in Small(0) : (IF s = {} THEN 0 ELSE f[Pick(s)] + z[s \ {Pick(s)}]) = 0
      BY <2>1, Zenon
    <3>. HIDE DEF Small
    <3>2. z = [s \in Small(0) |-> 0]  OBVIOUS
    <3>. HIDE DEF z
    <3>3. z = [s \in Small(0) |-> IF s = {} THEN 0 ELSE f[Pick(s)] + z[s \ {Pick(s)}]]
      BY <3>1, <3>2
    <3>. QED  BY <3>3 DEF z
  <2>. HIDE DEF Good
  <2>. QED  BY <2>2
<1>2. ASSUME NEW w \in Nat, w \in Has PROVE w + 1 \in Has
  <2>1. PICK r : Good(r, w)  BY <1>2
  <2>. DEFINE e(g, s) == IF s = {} THEN 0 ELSE f[Pick(s)] + g[s \ {Pick(s)}]
              q == [s \in Small(w + 1) |-> e(r, s)]
  <2>2. ASSUME NEW s \in Small(w) PROVE s \in Small(w + 1) /\ q[s] = r[s]
    <3>1. s \in Small(w + 1)
      <4>1. Cardinality(s) \in Nat  BY <1>0, FS_CardinalityType
      <4>2. Cardinality(s) <= w + 1  BY <4>1
      <4>. QED  BY <4>2
    <3>. HIDE DEF Small
    <3>2. r[s] = e(r, s)  BY <2>1, Zenon
    <3>3. q[s] = e(r, s)  BY <3>1, Zenon
    <3>. QED  BY <3>1, <3>2, <3>3, Zenon
  <2>3. ASSUME NEW s \in Small(w + 1), s # {} PROVE s \ {Pick(s)} \in Small(w)
    <3>1. Pick(s) \in s  BY <2>3, PickIn
    <3>2. IsFiniteSet(s) /\ Cardinality(s) <= w + 1  BY <1>0
    <3>3. Cardinality(s \ {Pick(s)}) <= w  BY <3>1, <3>2, SizeWithout
    <3>. QED  BY <3>3
  <2>4. \A s \in Small(w + 1) : e(q, s) = e(r, s)
    <3> SUFFICES ASSUME NEW s \in Small(w + 1) PROVE e(q, s) = e(r, s)  BY Zenon
    <3>. HIDE DEF q, Small
    <3>1. s # {} => q[s \ {Pick(s)}] = r[s \ {Pick(s)}]  BY <2>2, <2>3, Zenon
    <3>. QED  BY <3>1
  <2>5. q = [s \in Small(w + 1) |-> e(q, s)]
    <3>1. q = [s \in Small(w + 1) |-> e(r, s)]  BY Zenon
    <3>. HIDE DEF q, e, Small
    <3>. QED  BY <2>4, <3>1
  <2>6. Good(q, w + 1)
    <3>. HIDE DEF q, Small
    <3>. QED  BY <2>5
  <2>. HIDE DEF Good, q
  <2>. QED  BY <2>6
<1>3. Cardinality(S) \in Nat /\ Cardinality(S) \in Has
  <2>1. Cardinality(S) \in Nat  BY FS_CardinalityType
  <2>. HIDE DEF Has
  <2>. QED  BY <1>1, <1>2, <2>1, AllNaturals
<1>4. Small(Cardinality(S)) = SUBSET S  BY FS_Subset
<1>5. \E r : IsTotal(r, f, S)
  <2>1. PICK r : Good(r, Cardinality(S))  BY <1>3
  <2>2. r = [s \in SUBSET S |-> IF s = {} THEN 0 ELSE f[Pick(s)] + r[s \ {Pick(s)}]]
    <3>. HIDE DEF Small
    <3>. QED  BY <1>4, <2>1
  <2>. QED  BY <2>2 DEF IsTotal
<1>. QED  BY <1>5, Zenon DEF Total

\* The sum of a part, in the sums of the whole.
LEMMA TotalOf ==
    ASSUME NEW f, NEW S, IsFiniteSet(S)
    PROVE  /\ Total(f, S)[{}] = 0
           /\ \A s \in SUBSET S : s # {} =>
                Total(f, S)[s] = f[Pick(s)] + Total(f, S)[s \ {Pick(s)}]
<1>. DEFINE r == Total(f, S)
<1>1. r = [s \in SUBSET S |-> IF s = {} THEN 0 ELSE f[Pick(s)] + r[s \ {Pick(s)}]]
  <2>1. IsTotal(r, f, S)  BY TotalIs
  <2>. QED  BY <2>1, Zenon DEF IsTotal
<1>. HIDE DEF r
<1>2. {} \in SUBSET S  OBVIOUS
<1>3. r[{}] = 0  BY <1>1, <1>2, Zenon
<1>4. ASSUME NEW s \in SUBSET S, s # {} PROVE r[s] = f[Pick(s)] + r[s \ {Pick(s)}]
  BY <1>1, <1>4, Zenon
<1>. QED  BY <1>3, <1>4 DEF r

LEMMA TotalOfPart ==
    ASSUME NEW f, NEW S, IsFiniteSet(S), NEW T \in SUBSET S
    PROVE  Total(f, T)[T] = Total(f, S)[T]
<1>. DEFINE Has == {w \in Nat : \A s \in SUBSET T : Cardinality(s) <= w =>
                        Total(f, T)[s] = Total(f, S)[s]}
<1>0. IsFiniteSet(T) /\ \A s \in SUBSET T : s \in SUBSET S /\ IsFiniteSet(s)  BY FS_Subset
<1>1. 0 \in Has
  <2>1. \A s \in SUBSET T : Cardinality(s) <= 0 => s = {}  BY <1>0, EmptySize
  <2>2. Total(f, T)[{}] = 0 /\ Total(f, S)[{}] = 0  BY <1>0, TotalOf
  <2>. QED  BY <2>1, <2>2
<1>2. ASSUME NEW w \in Nat, w \in Has PROVE w + 1 \in Has
  <2> SUFFICES ASSUME NEW s \in SUBSET T, Cardinality(s) <= w + 1
               PROVE  Total(f, T)[s] = Total(f, S)[s]
    OBVIOUS
  <2>1. CASE s = {}  BY <1>0, <2>1, TotalOf
  <2>2. CASE s # {}
    <3>1. Pick(s) \in s  BY <2>2, PickIn
    <3>2. Cardinality(s \ {Pick(s)}) <= w  BY <1>0, <3>1, SizeWithout
    <3>3. s \ {Pick(s)} \in SUBSET T  OBVIOUS
    <3>4. Total(f, T)[s \ {Pick(s)}] = Total(f, S)[s \ {Pick(s)}]  BY <1>2, <3>2, <3>3
    <3>5. Total(f, T)[s] = f[Pick(s)] + Total(f, T)[s \ {Pick(s)}]  BY <1>0, <2>2, TotalOf
    <3>6. Total(f, S)[s] = f[Pick(s)] + Total(f, S)[s \ {Pick(s)}]  BY <1>0, <2>2, TotalOf
    <3>. QED  BY <3>4, <3>5, <3>6
  <2>. QED  BY <2>1, <2>2
<1>3. Cardinality(T) \in Nat /\ Cardinality(T) \in Has
  <2>1. Cardinality(T) \in Nat  BY <1>0, FS_CardinalityType
  <2>. HIDE DEF Has
  <2>. QED  BY <1>1, <1>2, <2>1, AllNaturals
<1>. QED  BY <1>3

LEMMA SwapSum ==
    ASSUME NEW t, NEW u, NEW v, NEW x \in Nat, NEW y \in Nat, NEW z \in Nat, NEW z2, z2 = z,
           t = y + u, u = x + z2, v = y + z
    PROVE  t = x + v
OBVIOUS

\* A sum of numbers is one number more than the sum without it.
LEMMA TotalWithout ==
    ASSUME NEW f, NEW S, IsFiniteSet(S), \A x \in S : f[x] \in Nat
    PROVE  /\ \A s \in SUBSET S : Total(f, S)[s] \in Nat
           /\ \A s \in SUBSET S : \A x \in s : Total(f, S)[s] = f[x] + Total(f, S)[s \ {x}]
<1>. DEFINE T(s) == Total(f, S)[s]
            Has == {w \in Nat : \A s \in SUBSET S : Cardinality(s) <= w =>
                        T(s) \in Nat /\ \A x \in s : T(s) = f[x] + T(s \ {x})}
<1>0. \A s \in SUBSET S : IsFiniteSet(s)  BY FS_Subset
<1>1. T({}) = 0 /\ \A s \in SUBSET S : s # {} => T(s) = f[Pick(s)] + T(s \ {Pick(s)})
  BY TotalOf
<1>. HIDE DEF T
<1>2. 0 \in Has
  <2>1. \A s \in SUBSET S : Cardinality(s) <= 0 => s = {}  BY <1>0, EmptySize
  <2>2. T({}) \in Nat /\ \A x \in {} : T({}) = f[x] + T({} \ {x})  BY <1>1
  <2>. QED  BY <2>1, <2>2
<1>3. ASSUME NEW w \in Nat, w \in Has PROVE w + 1 \in Has
  <2> SUFFICES ASSUME NEW s \in SUBSET S, Cardinality(s) <= w + 1
               PROVE  T(s) \in Nat /\ \A x \in s : T(s) = f[x] + T(s \ {x})
    OBVIOUS
  <2>1. CASE s = {}  BY <1>1, <2>1
  <2>2. CASE s # {}
    <3>. DEFINE y == Pick(s)
    <3>1. y \in s /\ f[y] \in Nat  BY <2>2, PickIn
    <3>2. \A x \in s : Cardinality(s \ {x}) <= w /\ s \ {x} \in SUBSET S
      BY <1>0, SizeWithout
    <3>3. \A x \in s : T(s \ {x}) \in Nat
             /\ \A z \in s \ {x} : T(s \ {x}) = f[z] + T((s \ {x}) \ {z})
      BY <1>3, <3>2
    <3>4. T(s) = f[y] + T(s \ {y})  BY <1>1, <2>2
    <3>. HIDE DEF y
    <3>5. T(s) \in Nat  BY <3>1, <3>3, <3>4
    <3>6. ASSUME NEW x \in s, x # y PROVE T(s) = f[x] + T(s \ {x})
      <4>1. T(s \ {y}) = f[x] + T((s \ {y}) \ {x})  BY <3>1, <3>3, <3>6
      <4>2. T(s \ {x}) = f[y] + T((s \ {x}) \ {y})  BY <3>1, <3>3, <3>6
      <4>3. (s \ {y}) \ {x} = (s \ {x}) \ {y}  OBVIOUS
      <4>4. T((s \ {x}) \ {y}) \in Nat
        <5>1. IsFiniteSet(s \ {x}) /\ y \in s \ {x} /\ (s \ {x}) \ {y} \in SUBSET S
          BY <1>0, <3>1, <3>6
        <5>2. Cardinality(s \ {x}) <= w /\ Cardinality((s \ {x}) \ {y}) <= Cardinality(s \ {x})
          BY <3>2, <5>1, FS_Subset
        <5>3. Cardinality(s \ {x}) \in Nat /\ Cardinality((s \ {x}) \ {y}) \in Nat
          BY <1>0, <5>1, FS_CardinalityType
        <5>4. Cardinality((s \ {x}) \ {y}) <= w  BY <5>2, <5>3
        <5>. QED  BY <1>3, <5>1, <5>4
      <4>5. f[x] \in Nat  OBVIOUS
      <4>6. T((s \ {y}) \ {x}) = T((s \ {x}) \ {y})  BY <4>3
      <4>. QED  BY <3>1, <3>4, <4>1, <4>2, <4>4, <4>5, <4>6, SwapSum
    <3>. QED  BY <3>4, <3>5, <3>6
  <2>. QED  BY <2>1, <2>2
<1>4. ASSUME NEW s \in SUBSET S
      PROVE  T(s) \in Nat /\ \A x \in s : T(s) = f[x] + T(s \ {x})
  <2>1. Cardinality(s) \in Nat  BY <1>0, FS_CardinalityType
  <2>2. Cardinality(s) \in Has
    <3>. HIDE DEF Has
    <3>. QED  BY <1>2, <1>3, <2>1, AllNaturals
  <2>. QED  BY <2>1, <2>2
<1>. QED  BY <1>4 DEF T

\* A sum of numbers grows with what is summed.
LEMMA TotalGrows ==
    ASSUME NEW f, NEW S, IsFiniteSet(S), \A x \in S : f[x] \in Nat
    PROVE  \A t \in SUBSET S : \A s \in SUBSET t : Total(f, S)[s] <= Total(f, S)[t]
<1>. DEFINE T(s) == Total(f, S)[s]
            Has == {w \in Nat : \A t \in SUBSET S : Cardinality(t) <= w =>
                        \A s \in SUBSET t : T(s) <= T(t)}
<1>0. \A s \in SUBSET S : IsFiniteSet(s)  BY FS_Subset
<1>1. \A s \in SUBSET S : T(s) \in Nat /\ \A x \in s : T(s) = f[x] + T(s \ {x})
  BY TotalWithout
<1>. HIDE DEF T
<1>2. 0 \in Has
  <2>1. \A s \in SUBSET S : Cardinality(s) <= 0 => s = {}  BY <1>0, EmptySize
  <2>2. T({}) <= T({})  BY <1>1
  <2>. QED  BY <2>1, <2>2
<1>3. ASSUME NEW w \in Nat, w \in Has PROVE w + 1 \in Has
  <2> SUFFICES ASSUME NEW t \in SUBSET S, Cardinality(t) <= w + 1, NEW s \in SUBSET t
               PROVE  T(s) <= T(t)
    OBVIOUS
  <2>1. CASE s = t  BY <1>1, <2>1
  <2>2. CASE s # t
    <3>1. PICK x \in t : x \notin s  BY <2>2
    <3>2. s \in SUBSET (t \ {x}) /\ t \ {x} \in SUBSET S  BY <3>1
    <3>3. Cardinality(t \ {x}) <= w  BY <1>0, SizeWithout
    <3>4. T(s) <= T(t \ {x})  BY <1>3, <3>2, <3>3
    <3>5. T(t) = f[x] + T(t \ {x}) /\ f[x] \in Nat /\ T(t \ {x}) \in Nat /\ T(s) \in Nat
      BY <1>1, <3>2
    <3>. QED  BY <3>4, <3>5
  <2>. QED  BY <2>1, <2>2
<1>4. ASSUME NEW t \in SUBSET S, NEW s \in SUBSET t PROVE T(s) <= T(t)
  <2>1. Cardinality(t) \in Nat  BY <1>0, FS_CardinalityType
  <2>2. Cardinality(t) \in Has
    <3>. HIDE DEF Has
    <3>. QED  BY <1>2, <1>3, <2>1, AllNaturals
  <2>. QED  BY <2>1, <2>2
<1>. QED  BY <1>4 DEF T

\* The depth of asks grows with the price, that of bids shrinks, and a level is
\* part of the depth at its own price.
LEMMA DepthOf ==
    ASSUME NEW b, IsBook(b)
    PROVE  /\ \A s \in Side, p \in Nat : Depth(b, s, p) \in Nat
           /\ \A p, q \in Nat : p <= q => Depth(b, "ask", p) <= Depth(b, "ask", q)
                                          /\ Depth(b, "bid", q) <= Depth(b, "bid", p)
           /\ \A s \in Side : \A p \in DOMAIN b[s] : b[s][p] <= Depth(b, s, p)
<1>. DEFINE L(s, p) == LevelsTo(b, s, p)
            T(s, l) == Total(b[s], DOMAIN b[s])[l]
<1>1. ASSUME NEW s \in Side
      PROVE  /\ IsFiniteSet(DOMAIN b[s]) /\ DOMAIN b[s] \in SUBSET Nat
             /\ \A x \in DOMAIN b[s] : b[s][x] \in Nat
  <2>1. DOMAIN b[s] \in SUBSET DOMAIN b[s]  OBVIOUS
  <2>2. \A x \in DOMAIN b[s] : b[s][x] \in Nat  BY DEF IsBook
  <2>. QED  BY <2>1, <2>2, LevelsFinite
<1>2. ASSUME NEW s \in Side, NEW p PROVE Depth(b, s, p) = T(s, L(s, p))
  <2>1. Depth(b, s, p) = Total(b[s], L(s, p))[L(s, p)]  BY DepthIsTotal
  <2>2. L(s, p) \in SUBSET DOMAIN b[s]  BY DEF LevelsTo
  <2>. HIDE DEF L
  <2>. QED  BY <1>1, <2>1, <2>2, TotalOfPart
<1>3. ASSUME NEW s \in Side
      PROVE  /\ \A l \in SUBSET DOMAIN b[s] : T(s, l) \in Nat
             /\ \A l \in SUBSET DOMAIN b[s] : \A x \in l : T(s, l) = b[s][x] + T(s, l \ {x})
             /\ \A l \in SUBSET DOMAIN b[s] : \A k \in SUBSET l : T(s, k) <= T(s, l)
  BY <1>1, TotalWithout, TotalGrows
<1>. HIDE DEF T
<1>4. \A s \in Side, p \in Nat : Depth(b, s, p) \in Nat
  <2>1. \A s, p : L(s, p) \in SUBSET DOMAIN b[s]  BY DEF LevelsTo
  <2>. HIDE DEF L
  <2>. QED  BY <1>2, <1>3, <2>1
<1>5. ASSUME NEW p \in Nat, NEW q \in Nat, p <= q
      PROVE  Depth(b, "ask", p) <= Depth(b, "ask", q) /\ Depth(b, "bid", q) <= Depth(b, "bid", p)
  <2>1. "ask" \in Side /\ "bid" \in Side  BY DEF Side
  <2>2. L("ask", p) \in SUBSET L("ask", q) /\ L("ask", q) \in SUBSET DOMAIN b["ask"]
    BY <1>1, <1>5, <2>1 DEF LevelsTo
  <2>3. L("bid", q) \in SUBSET L("bid", p) /\ L("bid", p) \in SUBSET DOMAIN b["bid"]
    BY <1>1, <1>5, <2>1 DEF LevelsTo
  <2>. HIDE DEF L
  <2>. QED  BY <1>2, <1>3, <2>1, <2>2, <2>3
<1>6. ASSUME NEW s \in Side, NEW p \in DOMAIN b[s] PROVE b[s][p] <= Depth(b, s, p)
  <2>1. p \in L(s, p)  BY <1>1, <1>6 DEF LevelsTo
  <2>2. L(s, p) \in SUBSET DOMAIN b[s] /\ L(s, p) \ {p} \in SUBSET DOMAIN b[s]  BY DEF LevelsTo
  <2>. HIDE DEF L
  <2>3. T(s, L(s, p)) = b[s][p] + T(s, L(s, p) \ {p})  BY <1>3, <2>1, <2>2
  <2>4. T(s, L(s, p) \ {p}) \in Nat /\ b[s][p] \in Nat  BY <1>1, <1>3, <2>2
  <2>. QED  BY <1>2, <2>3, <2>4
<1>. QED  BY <1>4, <1>5, <1>6

-----------------------------------------------------------------------------
(* get_auction: the search along the prices.                               *)

NoAuction == [price |-> 0, size |-> 0, surplus |-> 0, stop |-> FALSE]
Searched(b, prices) == FoldLeft(LAMBDA best, p : AuctionStep(b, best, p), NoAuction, prices)

\* The fold of Auction, as a function of the prices that have been seen.
IsSearch(r, b, prices, indices) ==
    r = [s \in SUBSET indices |->
            IF s = {} THEN NoAuction ELSE AuctionStep(b, r[s \ {Max(s)}], prices[Max(s)])]
Search(b, prices) == CHOOSE r : IsSearch(r, b, prices, DOMAIN prices)

LEMMA AuctionIsSearch ==
    ASSUME NEW b, NEW prices
    PROVE  Searched(b, prices) = Search(b, prices)[DOMAIN prices]
BY DEF Searched, Search, IsSearch, FoldLeft, MapThenFoldSet

\* There is such a function: one for the first w prices gives one for w + 1.
LEMMA SearchExists ==
    ASSUME NEW b, NEW prices, NEW m \in Nat
    PROVE  \E r : IsSearch(r, b, prices, 1 .. m)
<1>. DEFINE Good(r, w) == r = [s \in SUBSET (1 .. w) |->
                IF s = {} THEN NoAuction ELSE AuctionStep(b, r[s \ {Max(s)}], prices[Max(s)])]
            Has == {w \in Nat : \E r : Good(r, w)}
<1>1. 0 \in Has
  <2>1. SUBSET (1 .. 0) = {{}}  OBVIOUS
  <2>2. Good([s \in SUBSET (1 .. 0) |-> NoAuction], 0)  BY <2>1
  <2>. HIDE DEF Good
  <2>. QED  BY <2>2
<1>2. ASSUME NEW w \in Nat, w \in Has PROVE w + 1 \in Has
  <2>1. PICK r : Good(r, w)  BY <1>2
  <2>. DEFINE q == [s \in SUBSET (1 .. w + 1) |->
                IF s = {} THEN NoAuction ELSE AuctionStep(b, r[s \ {Max(s)}], prices[Max(s)])]
  <2>2. ASSUME NEW s \in SUBSET (1 .. w) PROVE s \in SUBSET (1 .. w + 1) /\ q[s] = r[s]
    <3>1. \A x \in 1 .. w : x \in 1 .. w + 1  OBVIOUS
    <3>2. s \in SUBSET (1 .. w + 1)  BY <3>1, Zenon
    <3>3. r[s] = IF s = {} THEN NoAuction ELSE AuctionStep(b, r[s \ {Max(s)}], prices[Max(s)])
      BY <2>1, Zenon
    <3>4. q[s] = IF s = {} THEN NoAuction ELSE AuctionStep(b, r[s \ {Max(s)}], prices[Max(s)])
      BY <3>2, Zenon
    <3>. QED  BY <3>2, <3>3, <3>4, Zenon
  <2>3. ASSUME NEW s \in SUBSET (1 .. w + 1), s # {} PROVE s \ {Max(s)} \in SUBSET (1 .. w)
    <3>0. \A x \in 1 .. w + 1 : x \in 0 .. w + 1  OBVIOUS
    <3>1. s \in SUBSET (0 .. w + 1) /\ w + 1 \in Nat  BY <3>0
    <3>2. Max(s) \in s /\ \A x \in s : x <= Max(s)  BY <2>3, <3>1, MaxOf
    <3>3. \A x \in s : x # Max(s) => x \in 1 .. w
      <4> SUFFICES ASSUME NEW x \in s, x # Max(s) PROVE x \in 1 .. w  OBVIOUS
      <4>1. x \in 1 .. w + 1 /\ Max(s) \in 1 .. w + 1 /\ x <= Max(s)  BY <3>2
      <4>. QED  BY <4>1
    <3>. QED  BY <3>3, Zenon
  <2>4. \A s \in SUBSET (1 .. w + 1) : s # {} => q[s \ {Max(s)}] = r[s \ {Max(s)}]
    <3>. HIDE DEF q
    <3>. QED  BY <2>2, <2>3, Zenon
  <2>5. q = [s \in SUBSET (1 .. w + 1) |->
                IF s = {} THEN NoAuction ELSE AuctionStep(b, q[s \ {Max(s)}], prices[Max(s)])]
    <3>. DEFINE f(g, s) == IF s = {} THEN NoAuction ELSE AuctionStep(b, g[s \ {Max(s)}], prices[Max(s)])
    <3>1. \A s \in SUBSET (1 .. w + 1) : f(q, s) = f(r, s)  BY <2>4, Zenon
    <3>2. q = [s \in SUBSET (1 .. w + 1) |-> f(r, s)]  BY Zenon
    <3>. HIDE DEF q, f
    <3>3. q = [s \in SUBSET (1 .. w + 1) |-> f(q, s)]  BY <3>1, <3>2
    <3>. QED  BY <3>3 DEF f
  <2>6. Good(q, w + 1)
    <3>. HIDE DEF q
    <3>. QED  BY <2>5
  <2>. HIDE DEF Good, q
  <2>. QED  BY <2>6
<1>3. m \in Has
  <2>. HIDE DEF Has
  <2>. QED  BY <1>1, <1>2, AllNaturals
<1>. QED  BY <1>3 DEF IsSearch

\* The best price so far: none before, that of the auction after all prices.
Turns(R, b, prices, m) ==
    /\ R[0] = NoAuction /\ R[m] = Searched(b, prices)
    /\ \A i \in 1 .. m : R[i] = AuctionStep(b, R[i - 1], prices[i])

LEMMA SearchSteps ==
    ASSUME NEW b, NEW m \in Nat, NEW prices, DOMAIN prices = 1 .. m
    PROVE  \E R : Turns(R, b, prices, m)
<1>. DEFINE r == Search(b, prices)
            R == [i \in 0 .. m |-> r[1 .. i]]
<1>1. r = [s \in SUBSET (1 .. m) |->
        IF s = {} THEN NoAuction ELSE AuctionStep(b, r[s \ {Max(s)}], prices[Max(s)])]
  <2>1. r = CHOOSE x : IsSearch(x, b, prices, 1 .. m)  BY Zenon DEF Search
  <2>2. IsSearch(r, b, prices, 1 .. m)
    <3>. HIDE DEF r
    <3>. QED  BY <2>1, SearchExists, Zenon
  <2>. QED  BY <2>2, Zenon DEF IsSearch
<1>2. R[0] = NoAuction
  <2>1. r[{}] = NoAuction  BY <1>1, Zenon
  <2>2. 1 .. 0 = {} /\ 0 \in 0 .. m  OBVIOUS
  <2>. HIDE DEF r
  <2>. QED  BY <2>1, <2>2
<1>3. R[m] = Searched(b, prices)
  <2>. HIDE DEF r
  <2>. QED  BY AuctionIsSearch DEF r
<1>4. ASSUME NEW i \in 1 .. m PROVE R[i] = AuctionStep(b, R[i - 1], prices[i])
  <2>. HIDE DEF r
  <2>0. (\A x \in 1 .. i : x \in 1 .. m /\ x \in 0 .. i) /\ i \in 1 .. i /\ i \in Nat  OBVIOUS
  <2>1. 1 .. i \in SUBSET (1 .. m) /\ 1 .. i # {} /\ 1 .. i \in SUBSET (0 .. i)  BY <2>0, Zenon
  <2>2. Max(1 .. i) \in 1 .. i /\ \A x \in 1 .. i : x <= Max(1 .. i)  BY <2>0, <2>1, MaxOf
  <2>3. Max(1 .. i) = i  BY <2>2
  <2>4. (1 .. i) \ {i} = 1 .. i - 1  OBVIOUS
  <2>5. r[1 .. i] = AuctionStep(b, r[(1 .. i) \ {Max(1 .. i)}], prices[Max(1 .. i)])
    BY <1>1, <2>1, Zenon
  <2>6. i \in 0 .. m /\ i - 1 \in 0 .. m  OBVIOUS
  <2>. QED  BY <2>3, <2>4, <2>5, <2>6
<1>. HIDE DEF R
<1>. QED  BY <1>2, <1>3, <1>4 DEF Turns

LEMMA MinTwo ==
    ASSUME NEW x \in Nat, NEW y \in Nat
    PROVE  Min({x, y}) = IF x <= y THEN x ELSE y
<1>1. {x, y} \in SUBSET Nat /\ {x, y} # {}  OBVIOUS
<1>2. Min({x, y}) \in {x, y} /\ \A z \in {x, y} : Min({x, y}) <= z  BY <1>1, MinOf
<1>. QED  BY <1>2

LEMMA MaxTwo ==
    ASSUME NEW x \in Nat, NEW y \in Nat
    PROVE  Max({x, y}) = IF x <= y THEN y ELSE x
<1>1. {x, y} \in SUBSET (0 .. x + y) /\ {x, y} # {} /\ x + y \in Nat  OBVIOUS
<1>2. Max({x, y}) \in {x, y} /\ \A z \in {x, y} : z <= Max({x, y})  BY <1>1, MaxOf
<1>. QED  BY <1>2

\* What is traded at a price is the smaller depth, what is left the difference.
LEMMA TradedAt ==
    ASSUME NEW b, IsBook(b), NEW p \in Nat
    PROVE  /\ Depth(b, "ask", p) \in Nat /\ Depth(b, "bid", p) \in Nat
           /\ Tradable(b, p) = (IF Depth(b, "ask", p) <= Depth(b, "bid", p)
                                THEN Depth(b, "ask", p) ELSE Depth(b, "bid", p))
           /\ Surplus(b, p) = (IF Depth(b, "ask", p) <= Depth(b, "bid", p)
                               THEN Depth(b, "bid", p) ELSE Depth(b, "ask", p)) - Tradable(b, p)
<1>1. Depth(b, "ask", p) \in Nat /\ Depth(b, "bid", p) \in Nat  BY DepthOf DEF Side
<1>. QED  BY <1>1, MinTwo, MaxTwo DEF Tradable, Surplus

\* Price q is no better than price p.
NoBetter(b, q, p) ==
    \/ Tradable(b, q) < Tradable(b, p)
    \/ Tradable(b, q) = Tradable(b, p) /\ Surplus(b, q) >= Surplus(b, p)

\* Once the search has come from p to a price that is worse, it may stop: no
\* later price is better than p.
LEMMA WorseFromHere ==
    ASSUME NEW b, IsBook(b), NEW p \in Nat, NEW q \in Nat, NEW r \in Nat, p <= q, q <= r,
           \/ Tradable(b, q) < Tradable(b, p)
           \/ Tradable(b, q) = Tradable(b, p) /\ Surplus(b, q) > Surplus(b, p)
    PROVE  NoBetter(b, r, p)
<1>. DEFINE A(x) == Depth(b, "ask", x)
            B(x) == Depth(b, "bid", x)
<1>1. A(p) <= A(q) /\ A(q) <= A(r) /\ B(q) <= B(p) /\ B(r) <= B(q)  BY DepthOf
<1>2. A(p) \in Nat /\ A(q) \in Nat /\ A(r) \in Nat /\ B(p) \in Nat /\ B(q) \in Nat /\ B(r) \in Nat
  BY TradedAt
<1>3. /\ Tradable(b, p) = (IF A(p) <= B(p) THEN A(p) ELSE B(p))
      /\ Tradable(b, q) = (IF A(q) <= B(q) THEN A(q) ELSE B(q))
      /\ Tradable(b, r) = (IF A(r) <= B(r) THEN A(r) ELSE B(r))
      /\ Surplus(b, p) = (IF A(p) <= B(p) THEN B(p) ELSE A(p)) - Tradable(b, p)
      /\ Surplus(b, q) = (IF A(q) <= B(q) THEN B(q) ELSE A(q)) - Tradable(b, q)
      /\ Surplus(b, r) = (IF A(r) <= B(r) THEN B(r) ELSE A(r)) - Tradable(b, r)
  BY TradedAt
<1>. HIDE DEF A, B
<1>. QED  BY <1>1, <1>2, <1>3 DEF NoBetter

\* What the search has found after the prices up to i: nothing yet where nothing
\* trades, or the best of them, and of all prices once it has stopped.
FoundUpTo(b, prices, best, i, m) ==
    \/ /\ best = NoAuction
       /\ \A j \in 1 .. i : Tradable(b, prices[j]) = 0
    \/ \E k \in 1 .. i :
         /\ best.price = prices[k] /\ best.size = Tradable(b, prices[k])
         /\ best.surplus = Surplus(b, prices[k]) /\ best.size > 0
         /\ best.stop \in BOOLEAN
         /\ best = [price |-> best.price, size |-> best.size, surplus |-> best.surplus, stop |-> best.stop]
         /\ \A j \in 1 .. m : j <= i \/ best.stop => NoBetter(b, prices[j], prices[k])

LEMMA SearchStep ==
    ASSUME NEW b, IsBook(b), NEW m \in Nat, NEW prices, \A i \in 1 .. m : prices[i] \in Nat,
           \A i, j \in 1 .. m : i < j => prices[i] < prices[j],
           NEW i \in Nat, i + 1 <= m, NEW best, FoundUpTo(b, prices, best, i, m)
    PROVE  FoundUpTo(b, prices, AuctionStep(b, best, prices[i + 1]), i + 1, m)
<1>. DEFINE p == prices[i + 1]
            t == Tradable(b, p)
            s == Surplus(b, p)
            new == AuctionStep(b, best, p)
<1>1. i + 1 \in 1 .. m /\ i + 1 \in 1 .. i + 1 /\ i <= m /\ p \in Nat
  <2>1. i + 1 \in 1 .. m /\ i + 1 \in 1 .. i + 1 /\ i <= m  OBVIOUS
  <2>. QED  BY <2>1
<1>2. \A j \in 1 .. m : Tradable(b, prices[j]) \in Nat /\ Surplus(b, prices[j]) \in Nat
  <2> SUFFICES ASSUME NEW j \in 1 .. m
               PROVE  Tradable(b, prices[j]) \in Nat /\ Surplus(b, prices[j]) \in Nat
    OBVIOUS
  <2>1. prices[j] \in Nat  OBVIOUS
  <2>. QED  BY <2>1, TradedAt
<1>3. t \in Nat /\ s \in Nat  BY <1>1, <1>2
<1>. HIDE DEF p
\* The price becomes the best, and is the best so far.
<1>4. ASSUME new = [price |-> p, size |-> t, surplus |-> s, stop |-> FALSE], t > 0,
             \A j \in 1 .. i : NoBetter(b, prices[j], p)
      PROVE  FoundUpTo(b, prices, new, i + 1, m)
  <2>1. \A j \in 1 .. m : j <= i + 1 => NoBetter(b, prices[j], prices[i + 1])
    <3> SUFFICES ASSUME NEW j \in 1 .. m, j <= i + 1
                 PROVE  NoBetter(b, prices[j], prices[i + 1])
      OBVIOUS
    <3>1. CASE j = i + 1  BY <1>3, <3>1 DEF NoBetter, p
    <3>2. CASE j # i + 1
      <4>1. j \in 1 .. i  BY <3>2
      <4>. QED  BY <1>4, <4>1 DEF p
    <3>. QED  BY <3>1, <3>2
  <2>2. /\ new.price = prices[i + 1] /\ new.size = Tradable(b, prices[i + 1])
        /\ new.surplus = Surplus(b, prices[i + 1]) /\ new.size > 0 /\ new.stop = FALSE
        /\ new = [price |-> new.price, size |-> new.size, surplus |-> new.surplus, stop |-> new.stop]
    BY <1>4 DEF p
  <2>. HIDE DEF new, t, s
  <2>. QED  BY <1>1, <2>1, <2>2 DEF FoundUpTo
<1>5. ASSUME best = NoAuction /\ \A j \in 1 .. i : Tradable(b, prices[j]) = 0
      PROVE  FoundUpTo(b, prices, new, i + 1, m)
  <2>1. CASE t > 0
    <3>1. new = [price |-> p, size |-> t, surplus |-> s, stop |-> FALSE]
      BY <1>3, <1>5, <2>1 DEF AuctionStep, NoAuction
    <3>2. \A j \in 1 .. i : NoBetter(b, prices[j], p)  BY <1>5, <2>1 DEF NoBetter
    <3>. QED  BY <1>4, <2>1, <3>1, <3>2
  <2>2. CASE ~ (t > 0)
    <3>1. t = 0  BY <1>3, <2>2
    <3>2. new = NoAuction
      <4>1. best.size = 0 /\ best.surplus = 0 /\ best.stop = FALSE  BY <1>5 DEF NoAuction
      <4>2. ~ (t > best.size \/ (t = best.size /\ s < best.surplus))  BY <1>3, <3>1, <4>1
      <4>3. (t < best.size \/ (t # 0 /\ t = best.size /\ s > best.surplus)) = FALSE
        BY <1>3, <3>1, <4>1
      <4>4. new = [best EXCEPT !.stop = FALSE]
        BY <4>1, <4>2, <4>3, Zenon DEF AuctionStep
      <4>. HIDE DEF new
      <4>. QED  BY <1>5, <4>4 DEF NoAuction
    <3>3. \A j \in 1 .. i + 1 : Tradable(b, prices[j]) = 0
      <4> SUFFICES ASSUME NEW j \in 1 .. i + 1 PROVE Tradable(b, prices[j]) = 0  OBVIOUS
      <4>1. j = i + 1 \/ j \in 1 .. i  OBVIOUS
      <4>. QED  BY <1>5, <3>1, <4>1 DEF p
    <3>. HIDE DEF new
    <3>. QED  BY <3>2, <3>3 DEF FoundUpTo
  <2>. QED  BY <2>1, <2>2
<1>6. ASSUME NEW k \in 1 .. i, best.price = prices[k], best.size = Tradable(b, prices[k]),
             best.surplus = Surplus(b, prices[k]), best.size > 0, best.stop \in BOOLEAN,
             best = [price |-> best.price, size |-> best.size, surplus |-> best.surplus, stop |-> best.stop],
             \A j \in 1 .. m : j <= i \/ best.stop => NoBetter(b, prices[j], prices[k])
      PROVE  FoundUpTo(b, prices, new, i + 1, m)
  <2>0. k \in 1 .. m /\ k \in 1 .. i + 1 /\ k < i + 1  BY <1>1
  <2>1. best.size \in Nat /\ best.surplus \in Nat  BY <1>2, <1>6, <2>0
  <2>2. CASE best.stop
    <3>1. new = best  BY <2>2 DEF AuctionStep
    <3>2. \A j \in 1 .. m : NoBetter(b, prices[j], prices[k])  BY <1>6, <2>2
    <3>. HIDE DEF new
    <3>. QED  BY <1>6, <2>0, <3>1, <3>2 DEF FoundUpTo
  <2>3. CASE ~ best.stop /\ (t > best.size \/ (t = best.size /\ s < best.surplus))
    <3>1. new = [price |-> p, size |-> t, surplus |-> s, stop |-> FALSE]
      BY <2>3 DEF AuctionStep
    <3>2. t > 0  BY <1>3, <1>6, <2>1, <2>3
    <3>3. \A j \in 1 .. i : NoBetter(b, prices[j], p)
      <4> SUFFICES ASSUME NEW j \in 1 .. i PROVE NoBetter(b, prices[j], p)  OBVIOUS
      <4>1. j \in 1 .. m /\ j <= i  BY <1>1
      <4>2. NoBetter(b, prices[j], prices[k])  BY <1>6, <4>1
      <4>3. Tradable(b, prices[j]) \in Nat /\ Surplus(b, prices[j]) \in Nat  BY <1>2, <4>1
      <4>. QED  BY <1>3, <1>6, <2>1, <2>3, <4>2, <4>3 DEF NoBetter
    <3>. QED  BY <1>4, <3>1, <3>2, <3>3
  <2>4. CASE ~ best.stop /\ ~ (t > best.size \/ (t = best.size /\ s < best.surplus))
    <3>. DEFINE stop == t < best.size \/ (t # 0 /\ t = best.size /\ s > best.surplus)
    <3>1. new = [best EXCEPT !.stop = stop]  BY <2>4, Zenon DEF AuctionStep
    <3>2. stop \in BOOLEAN  BY Zenon
    <3>3. NoBetter(b, p, prices[k])  BY <1>3, <1>6, <2>1, <2>4 DEF NoBetter
    <3>4. \A j \in 1 .. m : j <= i + 1 \/ stop => NoBetter(b, prices[j], prices[k])
      <4> SUFFICES ASSUME NEW j \in 1 .. m, j <= i + 1 \/ stop
                   PROVE  NoBetter(b, prices[j], prices[k])
        OBVIOUS
      <4>1. CASE j <= i  BY <1>6, <4>1
      <4>2. CASE j = i + 1  BY <3>3, <4>2 DEF p
      <4>3. CASE j > i + 1
        <5>1. stop  BY <4>3
        <5>2. p < prices[j] /\ prices[k] < p /\ prices[j] \in Nat /\ prices[k] \in Nat /\ p \in Nat
          BY <1>1, <2>0, <4>3 DEF p
        <5>3. \/ Tradable(b, p) < Tradable(b, prices[k])
              \/ Tradable(b, p) = Tradable(b, prices[k]) /\ Surplus(b, p) > Surplus(b, prices[k])
          BY <1>6, <5>1
        <5>4. prices[k] <= p /\ p <= prices[j]  BY <5>2
        <5>. QED  BY <5>2, <5>3, <5>4, WorseFromHere
      <4>. QED  BY <4>1, <4>2, <4>3
    <3>. HIDE DEF stop
    <3>5. /\ new.price = prices[k] /\ new.size = Tradable(b, prices[k])
          /\ new.surplus = Surplus(b, prices[k]) /\ new.size > 0 /\ new.stop = stop
          /\ new = [price |-> new.price, size |-> new.size, surplus |-> new.surplus, stop |-> new.stop]
      <4>1. best = [price |-> best.price, size |-> best.size, surplus |-> best.surplus, stop |-> best.stop]
        BY <1>6
      <4>2. new = [price |-> best.price, size |-> best.size, surplus |-> best.surplus, stop |-> stop]
        <5>. HIDE DEF new
        <5>. QED  BY <3>1, <4>1
      <4>. HIDE DEF new
      <4>. QED  BY <1>6, <4>2
    <3>. HIDE DEF new
    <3>. QED  BY <2>0, <3>2, <3>4, <3>5 DEF FoundUpTo
  <2>. QED  BY <2>2, <2>3, <2>4
<1>7. FoundUpTo(b, prices, new, i + 1, m)
  <2>. HIDE DEF new
  <2>1. CASE \E k \in 1 .. i :
         /\ best.price = prices[k] /\ best.size = Tradable(b, prices[k])
         /\ best.surplus = Surplus(b, prices[k]) /\ best.size > 0
         /\ best.stop \in BOOLEAN
         /\ best = [price |-> best.price, size |-> best.size, surplus |-> best.surplus, stop |-> best.stop]
         /\ \A j \in 1 .. m : j <= i \/ best.stop => NoBetter(b, prices[j], prices[k])
    BY <1>6, <2>1, Zenon
  <2>2. \/ best = NoAuction /\ \A j \in 1 .. i : Tradable(b, prices[j]) = 0
        \/ \E k \in 1 .. i :
             /\ best.price = prices[k] /\ best.size = Tradable(b, prices[k])
             /\ best.surplus = Surplus(b, prices[k]) /\ best.size > 0
             /\ best.stop \in BOOLEAN
             /\ best = [price |-> best.price, size |-> best.size, surplus |-> best.surplus, stop |-> best.stop]
             /\ \A j \in 1 .. m : j <= i \/ best.stop => NoBetter(b, prices[j], prices[k])
    <3>1. FoundUpTo(b, prices, best, i, m)  OBVIOUS
    <3>. QED  BY ONLY <3>1, Zenon DEF FoundUpTo
  <2>. QED  BY <1>5, <2>1, <2>2, Zenon
<1>. QED  BY <1>7 DEF p

\* The auction of an inverted book is at a price where something trades, and no
\* other price is better.
LEMMA AuctionIsBest ==
    ASSUME NEW b, IsBook(b), Proper(b), IsInverted(b)
    PROVE  LET a == Auction(b) IN
           /\ a.size = Tradable(b, a.price) /\ a.size > 0
           /\ \A p \in AuctionPrices(b) :
                 \/ Tradable(b, p) < a.size
                 \/ Tradable(b, p) = a.size /\ Surplus(b, p) >= Surplus(b, a.price)
<1>. DEFINE P == AuctionPrices(b)
            prices == Ascending(P)
            m == Cardinality(P)
            a == Auction(b)
<1>1. IsFiniteSet(P) /\ P \in SUBSET Nat
  <2>1. P \in SUBSET Prices  BY DEF AuctionPrices, IsBook, Side
  <2>2. IsFiniteSet(Prices) /\ Prices \subseteq Nat  BY BookAssumption
  <2>. HIDE DEF P
  <2>. QED  BY <2>1, <2>2, FS_Subset
<1>2. /\ m \in Nat /\ DOMAIN prices = 1 .. m
      /\ \A i \in 1 .. m : prices[i] \in P
      /\ \A p \in P : \E i \in 1 .. m : prices[i] = p
      /\ \A i, j \in 1 .. m : i < j => prices[i] < prices[j]
  <2>. HIDE DEF P
  <2>. QED  BY <1>1, AscendingLists
<1>3. a = Searched(b, prices)  BY Zenon DEF Auction, Searched, NoAuction
<1>. HIDE DEF P, prices, m, a
<1>4. \A i \in 1 .. m : prices[i] \in Nat  BY <1>1, <1>2
<1>5. PICK R : Turns(R, b, prices, m)  BY <1>2, SearchSteps
<1>6. R[0] = NoAuction /\ R[m] = a /\ \A i \in 1 .. m : R[i] = AuctionStep(b, R[i - 1], prices[i])
  BY <1>3, <1>5 DEF Turns
<1>7. \A w \in Nat : w <= m => FoundUpTo(b, prices, R[w], w, m)
  <2>. DEFINE S == {w \in Nat : w <= m => FoundUpTo(b, prices, R[w], w, m)}
  <2>1. 0 \in S
    <3>1. \A j \in 1 .. 0 : Tradable(b, prices[j]) = 0  OBVIOUS
    <3>. QED  BY <1>6, <3>1 DEF FoundUpTo
  <2>2. ASSUME NEW w \in Nat, w \in S PROVE w + 1 \in S
    <3> SUFFICES ASSUME w + 1 <= m PROVE FoundUpTo(b, prices, R[w + 1], w + 1, m)  OBVIOUS
    <3>1. w + 1 \in 1 .. m /\ w <= m /\ w + 1 - 1 = w  BY <1>2, NextIn
    <3>2. R[w + 1] = AuctionStep(b, R[w], prices[w + 1])  BY <1>6, <3>1
    <3>3. FoundUpTo(b, prices, R[w], w, m)  BY <2>2, <3>1
    <3>4. FoundUpTo(b, prices, AuctionStep(b, R[w], prices[w + 1]), w + 1, m)
      BY <1>2, <1>4, <3>3, SearchStep
    <3>. QED  BY <3>2, <3>4
  <2>3. \A w \in Nat : w \in S
    <3>. HIDE DEF S
    <3>. QED  BY <2>1, <2>2, AllNaturals
  <2>. QED  BY <2>3
<1>8. FoundUpTo(b, prices, a, m, m)
  <2>1. m <= m  BY <1>2
  <2>. QED  BY <1>2, <1>6, <1>7, <2>1
\* Something trades where an ask is not above a bid.
<1>9. \E i \in 1 .. m : Tradable(b, prices[i]) > 0
  <2>1. PICK p \in DOMAIN b["ask"], q \in DOMAIN b["bid"] : p <= q  BY DEF IsInverted
  <2>2. p \in P /\ q \in P  BY DEF P, AuctionPrices
  <2>3. p \in Nat /\ q \in Nat /\ "ask" \in Side /\ "bid" \in Side  BY <1>1, <2>2 DEF Side
  <2>4. /\ b["ask"][p] > 0 /\ b["ask"][p] \in Nat
        /\ b["bid"][q] > 0 /\ b["bid"][q] \in Nat
    BY <2>3 DEF IsBook, Proper
  <2>5. Depth(b, "ask", p) \in Nat /\ Depth(b, "bid", p) \in Nat /\ Depth(b, "bid", q) \in Nat
    BY <2>3, TradedAt
  <2>6. b["ask"][p] <= Depth(b, "ask", p) /\ b["bid"][q] <= Depth(b, "bid", q)
    BY <2>3, DepthOf
  <2>7. Depth(b, "bid", q) <= Depth(b, "bid", p)  BY <2>1, <2>3, DepthOf
  <2>8. Depth(b, "ask", p) > 0 /\ Depth(b, "bid", p) > 0  BY <2>4, <2>5, <2>6, <2>7
  <2>9. Tradable(b, p) > 0  BY <2>3, <2>5, <2>8, TradedAt
  <2>10. PICK i \in 1 .. m : prices[i] = p  BY <1>2, <2>2
  <2>. QED  BY <2>9, <2>10
<1>10. PICK k \in 1 .. m :
         /\ a.price = prices[k] /\ a.size = Tradable(b, prices[k])
         /\ a.surplus = Surplus(b, prices[k]) /\ a.size > 0
         /\ \A j \in 1 .. m : j <= m \/ a.stop => NoBetter(b, prices[j], prices[k])
  <2>1. ~ \A j \in 1 .. m : Tradable(b, prices[j]) = 0
    <3>1. PICK i \in 1 .. m : Tradable(b, prices[i]) > 0  BY <1>9
    <3>2. Tradable(b, prices[i]) # 0  BY <3>1
    <3>. QED  BY <3>2
  <2>. QED  BY <1>8, <2>1, Zenon DEF FoundUpTo
<1>11. ASSUME NEW p \in P
       PROVE  \/ Tradable(b, p) < a.size
              \/ Tradable(b, p) = a.size /\ Surplus(b, p) >= Surplus(b, a.price)
  <2>1. PICK j \in 1 .. m : prices[j] = p  BY <1>2
  <2>2. j <= m  BY <1>2
  <2>3. NoBetter(b, p, prices[k])  BY <1>10, <2>1, <2>2
  <2>. QED  BY <1>10, <2>3 DEF NoBetter
<1>12. a.size = Tradable(b, a.price) /\ a.size > 0  BY <1>10
<1>. QED  BY <1>11, <1>12 DEF a, P

-----------------------------------------------------------------------------
(* The theorems.                                                           *)

LEMMA TypesFollow == IInv => TypeOK
<1> SUFFICES ASSUME IInv PROVE TypeOK  OBVIOUS
<1>1. ASSUME NEW b, IsBook(b), Proper(b)
      PROVE  DOMAIN b = Side /\ \A s \in Side : IsSide(b[s])
  <2>1. DOMAIN b = Side  BY <1>1 DEF IsBook
  <2>2. ASSUME NEW s \in Side PROVE IsSide(b[s])
    <3>1. DOMAIN b[s] \in SUBSET Prices /\ b[s] = [p \in DOMAIN b[s] |-> b[s][p]]
          /\ \A p \in DOMAIN b[s] : b[s][p] \in Nat \ {0}
      BY <1>1 DEF IsBook, Proper
    <3>2. b[s] \in [DOMAIN b[s] -> Nat \ {0}]  BY <3>1
    <3>. QED  BY <3>1, <3>2 DEF IsSide
  <2>. QED  BY <2>1, <2>2
<1>. QED  BY <1>1 DEF IInv, TypesOK, BooksOK, TypeOK

\* Books hold volumes at known prices and remove_zeros has left no empty level,
\* in every state between two orders.
THEOREM BooksWellFormed == Spec => []TypeOK
BY Invariance, TypesFollow, PTL

\* After the open, from the moment the book has been seen uncrossed, no order of
\* the session leaves the book of remove_crosses crossed, nor the book that
\* uncrosses itself locked.
THEOREM StaysUncrossed == Spec => []UncrossedInTrading
<1>1. IInv => UncrossedInTrading  BY DEF IInv, OpenOK
<1>. QED  BY Invariance, <1>1, PTL

\* What remove_crosses writes replays to the book that it kept, at every level
\* where no logged order met a deletion it had generated or that replaced it.
THEOREM OutputReplays == Spec => []ReplayMatches
<1>1. IInv => ReplayMatches
  <2> SUFFICES ASSUME IInv, NEW s \in Side, NEW p \in Prices, <<s, p>> \notin collided
               PROVE  Volume(Replayed(replay, pending), s, p) = Volume(book, s, p)
    BY DEF ReplayMatches
  <2>1. Even(replay, book, pending, s, p)  BY DEF IInv, EvenOK
  <2>. QED  BY <2>1, EvenReplayed DEF IInv, BooksOK, TypesOK
<1>. QED  BY Invariance, <1>1, PTL

\* Whoever reads the quotes of order2quote back finds at the end of every msecs
\* the quote that the book had then, one to a msecs; the exception is exactly
\* the time before the first of them, when the book shows the quote that the
\* ticker before left in the static last_quote.
THEOREM QuotesFollow == Spec => []QuoteFollowsBook
<1>1. IInv => QuoteFollowsBook  BY DEF IInv, QuoteOK
<1>. QED  BY Invariance, <1>1, PTL

\* get_auction finds the price of an inverted book at which most trades with
\* least left over, although it stops its search early.
THEOREM AuctionFindsBest == Spec => []AuctionOptimal
<1>1. IInv => AuctionOptimal
  <2> SUFFICES ASSUME IInv, NEW b \in {book, live}, IsInverted(b)
               PROVE  LET a == Auction(b) IN
                      /\ a.size = Tradable(b, a.price) /\ a.size > 0
                      /\ \A p \in AuctionPrices(b) :
                            \/ Tradable(b, p) < a.size
                            \/ Tradable(b, p) = a.size /\ Surplus(b, p) >= Surplus(b, a.price)
    BY Zenon DEF AuctionOptimal
  <2>1. IsBook(b) /\ Proper(b)  BY DEF IInv, BooksOK
  <2>. QED  BY <2>1, AuctionIsBest, Zenon
<1>. QED  BY Invariance, <1>1, PTL

\* The difference that get_book_diff makes of two books turns the one into the
\* other, whatever books they are.
THEOREM DifferencesApply == Spec => []DiffApplies
<1>1. IInv => DiffApplies
  <2> SUFFICES ASSUME IInv, NEW b \in {book, replay, live}, NEW c \in {book, replay, live}
               PROVE  Replayed(b, BookDiff(b, c)) = c
    BY DEF DiffApplies
  <2>1. IsBook(b) /\ Proper(b) /\ IsBook(c) /\ Proper(c)  BY DEF IInv, BooksOK
  <2>. QED  BY <2>1, DifferenceApplies
<1>. QED  BY Invariance, <1>1, PTL
=============================================================================
