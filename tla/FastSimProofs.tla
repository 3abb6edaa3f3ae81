---------------------------- MODULE FastSimProofs ----------------------------
(***************************************************************************)
(* For any tickers, prices, sizes and limits: the types of the simulation, *)
(* that no trade moves a position outside its limit, or past zero when it  *)
(* was outside, and that the profit of a day is that of its positions.     *)
(* The limits rest on one fact of getShrTrd, that a number of shares up to *)
(* the one it returns respects the limit it was asked about; the trade     *)
(* takes the smaller of two such numbers.  The profit is a sum over the    *)
(* tickers, of which one step changes or adds one number.                  *)
(***************************************************************************)
EXTENDS FastSim, FiniteSetTheorems, TLAPS

\* A whole number of shares bought for m dollars costs at most m.
LEMMA Quotient ==
    ASSUME NEW m \in Nat, NEW p \in Nat \ {0}, NEW n \in Nat, n <= m \div p
    PROVE  n * p <= m
<1>1. p * (m \div p) <= m  BY SMTT(30)
<1>2. m \div p \in Nat  OBVIOUS
<1>3. p * n <= p * (m \div p)  BY <1>2
<1>. QED  BY <1>1, <1>2, <1>3

LEMMA Product ==
    ASSUME NEW n \in Nat, NEW p \in Nat \ {0}
    PROVE  n * p \in Nat /\ (n > 0 => n * p > 0)
OBVIOUS

\* getShrTrd for one limit, and any smaller number of shares.
LEMMA SharesRespect ==
    ASSUME NEW side \in {-1, 1}, NEW allowed \in Nat, NEW price \in Nat \ {0},
           NEW a \in Int, NEW max \in Nat, NEW n \in Nat,
           n <= Shares(side, allowed, price, a, max)
    PROVE  Respects(a, a + side * (n * price), max)
<1> DEFINE c == n * price
<1>1. c \in Nat /\ (n > 0 => c > 0)  BY Product
<1>2. CASE max = 0  BY <1>2 DEF Respects
<1>3. CASE max > 0 /\ Abs(a) < max
  <2>1. max - side * a \in Nat  BY <1>3 DEF Abs
  <2>2. n <= (max - side * a) \div price
    <3>1. (max - side * a) \div price \in Int  BY <2>1
    <3>. QED  BY <1>3, <3>1 DEF Shares, Least
  <2>3. c <= max - side * a  BY <2>1, <2>2, Quotient
  <2>4. Abs(a + side * c) <= max  BY <1>1, <1>3, <2>3 DEF Abs
  <2>. QED  BY <1>3, <2>4 DEF Respects
<1>4. CASE max > 0 /\ ~ (Abs(a) < max) /\ side * a < -max
  <2>1. n <= max \div price
    <3>1. max \div price \in Int  OBVIOUS
    <3>. QED  BY <1>4, <3>1 DEF Shares, Least
  <2>2. c <= max  BY <2>1, Quotient
  <2>3. CASE n = 0
    <3>1. c = 0  BY <2>3
    <3>. QED  BY <3>1 DEF Respects
  <2>4. CASE n > 0
    <3>1. c > 0  BY <1>1, <2>4
    <3>. QED  BY <1>1, <1>4, <2>2, <3>1 DEF Respects
  <2>. QED  BY <2>3, <2>4
<1>5. CASE max > 0 /\ ~ (Abs(a) < max) /\ ~ (side * a < -max)
  <2>1. n = 0  BY <1>5 DEF Shares
  <2>2. c = 0  BY <2>1
  <2>. QED  BY <2>2 DEF Respects
<1>. QED  BY <1>2, <1>3, <1>4, <1>5

LEMMA SharesType ==
    ASSUME NEW side \in {-1, 1}, NEW allowed \in Nat, NEW price \in Nat \ {0},
           NEW a \in Int, NEW max \in Nat
    PROVE  Shares(side, allowed, price, a, max) \in Nat
<1>1. CASE max > 0 /\ Abs(a) < max
  <2>1. max - side * a \in Nat  BY <1>1 DEF Abs
  <2>2. (max - side * a) \div price \in Nat  BY <2>1
  <2>. QED  BY <1>1, <2>2 DEF Shares, Least
<1>2. CASE ~ (max > 0 /\ Abs(a) < max)
  <2>1. max \div price \in Nat  OBVIOUS
  <2>. QED  BY <1>2, <2>1 DEF Shares, Least
<1>. QED  BY <1>1, <1>2

\* getDPos: a number of shares in the direction of the side that both limits allow.
LEMMA BothLimits ==
    ASSUME NEW side \in {-1, 1}, NEW size \in Sizes, NEW price \in Prices,
           NEW p \in Int, net \in Int
    PROVE  /\ DPos(side, size, price, p) \in Int
           /\ Respects(p * price, (p + DPos(side, size, price, p)) * price, MaxTicker)
           /\ Respects(net, net + DPos(side, size, price, p) * price, MaxNet)
<1> DEFINE allowed == Least(size, MaxShr)
           t == Shares(side, allowed, price, p * price, MaxTicker)
           m == Shares(side, allowed, price, net, MaxNet)
           n == Least(t, m)
<1>1. allowed \in Nat /\ price \in Nat \ {0} /\ MaxTicker \in Nat /\ MaxNet \in Nat
  BY SimAssumption DEF Least
<1>2. p * price \in Int  BY <1>1
<1>3. t \in Nat /\ m \in Nat
  <2> HIDE DEF allowed
  <2>. QED  BY <1>1, <1>2, SharesType
<1>4. n \in Nat /\ n <= t /\ n <= m
  <2> HIDE DEF t, m
  <2>. QED  BY <1>3 DEF Least
<1>5. DPos(side, size, price, p) = side * n  BY DEF DPos
<1>6. Respects(p * price, p * price + side * (n * price), MaxTicker)
  <2> HIDE DEF n, allowed
  <2>. QED  BY <1>1, <1>2, <1>4, SharesRespect
<1>7. Respects(net, net + side * (n * price), MaxNet)
  <2> HIDE DEF n, allowed
  <2>. QED  BY <1>1, <1>4, SharesRespect
<1> HIDE DEF n
<1>8. side * (n * price) = (side * n) * price  BY <1>1, <1>4
<1>9. p * price + (side * n) * price = (p + side * n) * price  BY <1>1, <1>4
<1>10. side * n \in Int  BY <1>4
<1>. QED  BY <1>5, <1>6, <1>7, <1>8, <1>9, <1>10

-----------------------------------------------------------------------------
LEMMA ProductInt == ASSUME NEW a \in Int, NEW b \in Int PROVE a * b \in Int
OBVIOUS

\* What a day of a known ticker reads of mClose.
LEMMA KnownInfo ==
    ASSUME TypeOK, NEW t \in Tickers, Known(t)
    PROVE  info[uid[t]].retclcl \in Int /\ info[uid[t]].close \in Nat
<1>1. info[uid[t]] \in Closes  BY DEF TypeOK, Known
<1>. QED  BY <1>1, SimAssumption DEF Closes

LEMMA DPosType ==
    ASSUME TypeOK, NEW t \in Held, NEW side \in {-1, 1}, NEW size \in Sizes, NEW price \in Prices
    PROVE  DPos(side, size, price, pos[t]) \in Int
<1>1. pos[t] \in Int /\ net \in Int  BY DEF TypeOK, Held
<1>. QED  BY <1>1, BothLimits

LEMMA TradedType ==
    ASSUME TypeOK, NEW t \in Held, Known(t), NEW d \in Int, NEW price \in Prices, Traded(t, d, price)
    PROVE  /\ Held' = Held /\ pos' \in [Held -> Int] /\ clcl' \in Int
           /\ sample'.ticker \in Tickers \cup {None} /\ sample'.price \in Nat
<1>1. t \in Tickers  BY DEF TypeOK, Held
<1>2. info[uid[t]].retclcl \in Int /\ info[uid[t]].close \in Int  BY <1>1, KnownInfo
<1>3. d * info[uid[t]].retclcl \in Int  BY <1>2, ProductInt
<1>4. d * info[uid[t]].retclcl * info[uid[t]].close \in Int  BY <1>2, <1>3, ProductInt
<1>5. clcl' \in Int  BY <1>4 DEF Traded, TypeOK, Held
<1>6. pos' \in [Held -> Int]  BY DEF Traded, TypeOK, Held
<1>7. sample'.ticker = t /\ sample'.price = price  BY DEF Traded
<1>. QED  BY <1>1, <1>5, <1>6, <1>7, SimAssumption DEF Traded, TypeOK, Held

LEMMA TypeInit == Init => TypeOK
<1>. SUFFICES ASSUME Init PROVE TypeOK  OBVIOUS
<1>1. sample.ticker = None /\ sample.price = 0  BY DEF Init, NoSample
<1>2. DOMAIN pos = {} /\ DOMAIN close = {} /\ DOMAIN info = {}  BY DEF Init
<1>3. pos \in [Held -> Int] /\ close \in [Held -> Nat]  BY <1>2 DEF Init, Held
<1>. QED  BY <1>1, <1>2, <1>3 DEF Init, TypeOK, Held

LEMMA TypeNext == TypeOK /\ [Next]_vars => TypeOK'
<1>. SUFFICES ASSUME TypeOK, [Next]_vars PROVE TypeOK'  OBVIOUS
<1>1. CASE BeginDay
  <2>1. Held' = Held \cup sampled' /\ sampled' \subseteq Tickers  BY <1>1 DEF BeginDay, Held
  <2>2. pos' \in [Held' -> Int]  BY <1>1, <2>1 DEF BeginDay, TypeOK, Held
  <2>3. close' \in [Held' -> Nat]  BY <1>1, <2>1 DEF BeginDay, TypeOK, Held
  <2>4. PICK known \in SUBSET Uids : info' \in [known -> Closes]  BY <1>1 DEF BeginDay, Held
  <2>5. DOMAIN info' \subseteq Uids /\ \A u \in DOMAIN info' : info'[u] \in Closes  BY <2>4
  <2>. QED  BY <1>1, <2>1, <2>2, <2>3, <2>5 DEF BeginDay, TypeOK, Held
<1>2. CASE BeginSamples  BY <1>2 DEF BeginSamples, TypeOK, Held
<1>3. CASE EndSamples
  <2>1. sample'.ticker = None /\ sample'.price = 0  BY <1>3 DEF EndSamples, NoSample
  <2>. QED  BY <1>3, <2>1 DEF EndSamples, TypeOK, Held
<1>4. CASE NextTicker  BY <1>4 DEF NextTicker, TypeOK, Held
<1>5. CASE EndDay
  <2>1. \A k \in DOMAIN info : info[k].adjust \in Nat  BY SimAssumption DEF TypeOK, Closes
  <2>2. ASSUME NEW p \in Int, NEW a \in Nat PROVE Scaled(p, a) \in Int
    <3>1. p * a \in Int /\ -p * a \in Int  BY ProductInt
    <3>. QED  BY <3>1 DEF Scaled
  <2>3. pos' \in [Held -> Int]  BY <1>5, <2>1, <2>2 DEF EndDay, TypeOK, Held
  <2>. QED  BY <1>5, <2>3 DEF EndDay, TypeOK, Held
<1>6. ASSUME NEW t \in Tickers, Carry(t) PROVE TypeOK'
  <2>1. t \in Held  BY <1>6 DEF Carry, First, TypeOK, Held
  <2>2. Held' = Held /\ pos' = pos /\ left' \subseteq Held  BY <1>6 DEF Carry, TypeOK, Held
  <2>3. CASE Known(t)
    <3>1. info[uid[t]].retclcl \in Int /\ info[uid[t]].close \in Nat  BY <2>3, KnownInfo
    <3>2. pos[t] * info[uid[t]].retclcl \in Int  BY <2>1, <3>1, ProductInt DEF TypeOK, Held
    <3>3. pos[t] * info[uid[t]].retclcl * info[uid[t]].close \in Int  BY <3>1, <3>2, ProductInt
    <3>4. clcl' \in Int  BY <1>6, <2>3, <3>3 DEF Carry, TypeOK, Held
    <3>5. close' \in [Held -> Nat]  BY <1>6, <2>1, <2>3, <3>1 DEF Carry, TypeOK, Held
    <3>. QED  BY <1>6, <2>2, <3>4, <3>5 DEF Carry, TypeOK, Held
  <2>4. CASE ~ Known(t)  BY <1>6, <2>2, <2>4 DEF Carry, TypeOK, Held
  <2>. QED  BY <2>3, <2>4
<1>7. ASSUME NEW t \in Tickers, Mark(t) PROVE TypeOK'
  <2>1. t \in Held  BY <1>7 DEF Mark, First, TypeOK, Held
  <2>2. pos[t] * close[t] \in Int  BY <2>1, ProductInt DEF TypeOK, Held
  <2>3. sum' \in Int  BY <1>7, <2>2 DEF Mark, TypeOK, Held
  <2>. QED  BY <1>7, <2>3 DEF Mark, TypeOK, Held
<1>8. ASSUME NEW t \in Tickers, NEW side \in {-1, 1}, NEW size \in Sizes, NEW price \in Prices,
             TradeNet(t, side, size, price)
      PROVE  TypeOK'
  <2> DEFINE d == DPos(side, size, price, pos[t])
  <2>1. t \in Held /\ Known(t)  BY <1>8 DEF TradeNet, TypeOK, Held
  <2>2. d \in Int  BY <2>1, DPosType
  <2> HIDE DEF d
  <2>3. Traded(t, d, price) /\ net' = net + d * price  BY <1>8 DEF TradeNet, d
  <2>4. d * price \in Int  BY <2>2, ProductInt, SimAssumption
  <2>5. net' \in Int  BY <2>3, <2>4 DEF TypeOK, Held
  <2>6. /\ Held' = Held /\ pos' \in [Held -> Int] /\ clcl' \in Int
        /\ sample'.ticker \in Tickers \cup {None} /\ sample'.price \in Nat
    BY <2>1, <2>2, <2>3, TradedType
  <2>. QED  BY <1>8, <2>3, <2>5, <2>6 DEF TradeNet, Traded, TypeOK, Held
<1>9. ASSUME NEW t \in Tickers, NEW side \in {-1, 1}, NEW size \in Sizes, NEW price \in Prices,
             TradeSimple(t, side, size, price)
      PROVE  TypeOK'
  <2> DEFINE d == DPos(side, size, price, pos[t])
             e == IF last.side * d > 0 /\ last.price = price THEN 0 ELSE d
  <2>1. t \in Held /\ Known(t)  BY <1>9 DEF TradeSimple, TypeOK, Held
  <2>2. d \in Int  BY <2>1, DPosType
  <2>3. Traded(t, e, price)  BY <1>9 DEF TradeSimple
  <2> HIDE DEF d
  <2>4. e \in Int  BY <2>2
  <2> HIDE DEF e
  <2>5. /\ Held' = Held /\ pos' \in [Held -> Int] /\ clcl' \in Int
        /\ sample'.ticker \in Tickers \cup {None} /\ sample'.price \in Nat
    BY <2>1, <2>3, <2>4, TradedType
  <2>. QED  BY <1>9, <2>3, <2>5 DEF TradeSimple, Traded, TypeOK, Held
<1>10. CASE UNCHANGED vars  BY <1>10 DEF vars, TypeOK, Held
<1>. QED  BY <1>1, <1>2, <1>3, <1>4, <1>5, <1>6, <1>7, <1>8, <1>9, <1>10 DEF Next

\* The positions, closes and sums of the simulation are well formed: every loop
\* over mTickerData_ and over samples finds the entries that it uses.
THEOREM SimTypeCorrect == Spec => []TypeOK
BY TypeInit, TypeNext, PTL DEF Spec

\* A step inside the loop over the samples is a trade, or changes no position.
LEMMA StepInSamples ==
    ASSUME TypeOK, [Next]_vars, phase = "samples", phase' = "samples"
    PROVE  \/ pos' = pos /\ net' = net
           \/ \E t \in Held, side \in {-1, 1}, size \in Sizes, price \in Prices :
                 LET d == DPos(side, size, price, pos[t]) IN
                 /\ sample' = [ticker |-> t, price |-> price]
                 /\ \/ pos' = [pos EXCEPT ![t] = @ + d] /\ (kind = "net" => net' = net + d * price)
                    \/ pos' = [pos EXCEPT ![t] = @ + 0] /\ net' = net
<1>1. CASE UNCHANGED vars  BY <1>1 DEF vars
<1>2. CASE BeginDay \/ BeginSamples \/ EndSamples \/ EndDay
  BY <1>2 DEF BeginDay, BeginSamples, EndSamples, EndDay
<1>3. CASE NextTicker  BY <1>3 DEF NextTicker
<1>4. ASSUME NEW t \in Tickers, Carry(t) \/ Mark(t) PROVE FALSE  BY <1>4 DEF Carry, Mark
<1>5. ASSUME NEW t \in Tickers, NEW side \in {-1, 1}, NEW size \in Sizes, NEW price \in Prices,
             TradeNet(t, side, size, price)
      PROVE  /\ t \in Held /\ sample' = [ticker |-> t, price |-> price]
             /\ pos' = [pos EXCEPT ![t] = @ + DPos(side, size, price, pos[t])]
             /\ net' = net + DPos(side, size, price, pos[t]) * price
  BY <1>5 DEF TradeNet, Traded, TypeOK, Held
<1>6. ASSUME NEW t \in Tickers, NEW side \in {-1, 1}, NEW size \in Sizes, NEW price \in Prices,
             TradeSimple(t, side, size, price)
      PROVE  /\ t \in Held /\ sample' = [ticker |-> t, price |-> price]
             /\ net' = net /\ kind = "simple"
             /\ \/ pos' = [pos EXCEPT ![t] = @ + DPos(side, size, price, pos[t])]
                \/ pos' = [pos EXCEPT ![t] = @ + 0]
  BY <1>6 DEF TradeSimple, Traded, TypeOK, Held
<1>. QED  BY <1>1, <1>2, <1>3, <1>4, <1>5, <1>6 DEF Next

LEMMA TickerLimitStep ==
    ASSUME TypeOK, [Next]_vars, phase = "samples", phase' = "samples",
           NEW t \in Tickers, t = sample'.ticker, t \in Held
    PROVE  Respects(pos[t] * sample'.price, pos'[t] * sample'.price, MaxTicker)
<1>1. CASE pos' = pos  BY <1>1 DEF Respects
<1>2. ASSUME NEW u \in Held, NEW side \in {-1, 1}, NEW size \in Sizes, NEW price \in Prices,
             sample' = [ticker |-> u, price |-> price],
             \/ pos' = [pos EXCEPT ![u] = @ + DPos(side, size, price, pos[u])]
             \/ pos' = [pos EXCEPT ![u] = @ + 0]
      PROVE  Respects(pos[t] * sample'.price, pos'[t] * sample'.price, MaxTicker)
  <2>1. u = t /\ sample'.price = price  BY <1>2
  <2>2. pos[t] \in Int /\ net \in Int /\ DOMAIN pos = Held  BY DEF TypeOK, Held
  <2>3. Respects(pos[t] * price, (pos[t] + DPos(side, size, price, pos[t])) * price, MaxTicker)
    BY <2>2, BothLimits
  <2>4. CASE pos' = [pos EXCEPT ![u] = @ + DPos(side, size, price, pos[u])]
    <3>1. pos'[t] = pos[t] + DPos(side, size, price, pos[t])  BY <2>1, <2>2, <2>4
    <3>. QED  BY <2>1, <2>3, <3>1
  <2>5. CASE pos' = [pos EXCEPT ![u] = @ + 0]
    <3>1. pos'[t] = pos[t]  BY <2>1, <2>2, <2>5
    <3>. QED  BY <3>1 DEF Respects
  <2>. QED  BY <1>2, <2>4, <2>5
<1>. QED  BY <1>1, <1>2, StepInSamples

LEMMA NetLimitStep ==
    ASSUME TypeOK, [Next]_vars, kind = "net", phase = "samples", phase' = "samples"
    PROVE  Respects(net, net', MaxNet)
<1>1. CASE net' = net  BY <1>1 DEF Respects
<1>2. ASSUME NEW t \in Held, NEW side \in {-1, 1}, NEW size \in Sizes, NEW price \in Prices,
             net' = net + DPos(side, size, price, pos[t]) * price
      PROVE  Respects(net, net', MaxNet)
  <2>1. pos[t] \in Int /\ net \in Int  BY DEF TypeOK, Held
  <2>. QED  BY <1>2, <2>1, BothLimits
<1>. QED  BY <1>1, <1>2, StepInSamples

\* The sample of a step is of a ticker with an entry.
LEMMA SampledHeld ==
    ASSUME TypeOK, [Next]_vars, phase = "samples", phase' = "samples"
    PROVE  pos' = pos \/ sample'.ticker \in Held
BY StepInSamples

\* No trade takes the dollar position of its ticker outside the limit, or past
\* zero from outside, whatever prices and other trades made of it before.
THEOREM TradesKeepTickerLimit == Spec => TickerLimitHeld
<1>1. TypeOK /\ [Next]_vars =>
        [\A t \in Tickers : phase = "samples" /\ phase' = "samples" /\ t = sample'.ticker =>
            Respects(pos[t] * sample'.price, pos'[t] * sample'.price, MaxTicker)]_vars
  <2>1. ASSUME TypeOK, [Next]_vars, phase = "samples", phase' = "samples",
               NEW t \in Tickers, t = sample'.ticker
        PROVE  Respects(pos[t] * sample'.price, pos'[t] * sample'.price, MaxTicker)
    <3>1. CASE pos' = pos  BY <3>1 DEF Respects
    <3>2. CASE t \in Held  BY <2>1, <3>2, TickerLimitStep
    <3>. QED  BY <2>1, <3>1, <3>2, SampledHeld
  <2>. QED  BY <2>1
<1>. QED  BY <1>1, SimTypeCorrect, PTL DEF Spec, TickerLimitHeld

\* The same of the net dollar position, which the trades of all tickers of
\* FastSimNet share.
THEOREM TradesKeepNetLimit == Spec => NetLimitHeld
<1>1. TypeOK /\ [Next]_vars =>
        [kind = "net" /\ phase = "samples" /\ phase' = "samples" =>
            Respects(net, net', MaxNet)]_vars
  BY NetLimitStep
<1>. QED  BY <1>1, SimTypeCorrect, PTL DEF Spec, NetLimitHeld

-----------------------------------------------------------------------------
(* Sums.                                                                   *)

\* A set that has 0, and with a number the next one, has all of them.
LEMMA AllNaturals ==
    ASSUME NEW S, 0 \in S, \A w \in Nat : w \in S => w + 1 \in S
    PROVE  \A w \in Nat : w \in S
<1>. DEFINE Out == {w \in Nat : w \notin S}
<1>1. SUFFICES ASSUME Out # {} PROVE FALSE  OBVIOUS
<1>2. Out \subseteq Nat  OBVIOUS
<1>3. PICK m \in Out : \A k \in Out : ~ (<<k, m>> \in OpToRel(<, Nat))
  <2>. HIDE DEF Out
  <2>. QED  BY <1>1, <1>2, WFMin, NatLessThanWellFounded
<1>4. m # 0 /\ m - 1 \in Nat  OBVIOUS
<1>5. m - 1 \in S
  <2>1. <<m - 1, m>> \in OpToRel(<, Nat)  BY <1>4 DEF OpToRel
  <2>. QED  BY <1>3, <1>4, <2>1
<1>. QED  BY <1>4, <1>5

Pick(s) == CHOOSE x \in s : TRUE
\* The fold of MapThenSumSet, as a function of the sets that have been summed.
IsTotal(r, f, S) ==
    r = [s \in SUBSET S |-> IF s = {} THEN 0 ELSE f[Pick(s)] + r[s \ {Pick(s)}]]
Total(f, S) == CHOOSE r : IsTotal(r, f, S)
Sum(f, S) == Total(f, S)[S]

LEMMA SumIs == MapThenSumSet(LAMBDA t : Profit[t], DOMAIN Profit) = Sum(Profit, DOMAIN Profit)
BY DEF Sum, Total, IsTotal, Pick, MapThenSumSet, MapThenFoldSet

LEMMA PickIn == \A s : s # {} => Pick(s) \in s
BY DEF Pick

LEMMA SizeWithout ==
    ASSUME NEW s, IsFiniteSet(s), NEW x \in s, NEW w \in Nat, Cardinality(s) <= w + 1
    PROVE  IsFiniteSet(s \ {x}) /\ Cardinality(s \ {x}) <= w
<1>1. IsFiniteSet(s \ {x}) /\ Cardinality(s \ {x}) = Cardinality(s) - 1  BY FS_RemoveElement
<1>2. Cardinality(s) \in Nat  BY FS_CardinalityType
<1>. QED  BY <1>1, <1>2

LEMMA EmptySize ==
    ASSUME NEW s, IsFiniteSet(s), Cardinality(s) <= 0
    PROVE  s = {}
BY FS_EmptySet, FS_CardinalityType

LEMMA TotalIs ==
    ASSUME NEW f, NEW S, IsFiniteSet(S)
    PROVE  IsTotal(Total(f, S), f, S)
<1>. DEFINE Small(w) == {s \in SUBSET S : Cardinality(s) <= w}
            Good(r, w) == r = [s \in Small(w) |-> IF s = {} THEN 0 ELSE f[Pick(s)] + r[s \ {Pick(s)}]]
            Has == {w \in Nat : \E r : Good(r, w)}
<1>0. \A s \in SUBSET S : IsFiniteSet(s)  BY FS_Subset
<1>1. 0 \in Has
  <2>1. \A s \in Small(0) : s = {}  BY <1>0, EmptySize
  <2>2. Good([s \in Small(0) |-> 0], 0)
    <3>. DEFINE z == [s \in Small(0) |-> 0]
    <3>1. \A s \in Small(0) : (IF s = {} THEN 0 ELSE f[Pick(s)] + z[s \ {Pick(s)}]) = 0
      BY <2>1, Zenon
    <3>. HIDE DEF Small
    <3>2. z = [s \in Small(0) |-> 0]  OBVIOUS
    <3>. HIDE DEF z
    <3>3. z = [s \in Small(0) |-> IF s = {} THEN 0 ELSE f[Pick(s)] + z[s \ {Pick(s)}]]
      BY <3>1, <3>2
    <3>. QED  BY <3>3 DEF z
  <2>. HIDE DEF Good
  <2>. QED  BY <2>2
<1>2. ASSUME NEW w \in Nat, w \in Has PROVE w + 1 \in Has
  <2>1. PICK r : Good(r, w)  BY <1>2
  <2>. DEFINE e(g, s) == IF s = {} THEN 0 ELSE f[Pick(s)] + g[s \ {Pick(s)}]
              q == [s \in Small(w + 1) |-> e(r, s)]
  <2>2. ASSUME NEW s \in Small(w) PROVE s \in Small(w + 1) /\ q[s] = r[s]
    <3>1. s \in Small(w + 1)
      <4>1. Cardinality(s) \in Nat  BY <1>0, FS_CardinalityType
      <4>2. Cardinality(s) <= w + 1  BY <4>1
      <4>. QED  BY <4>2
    <3>. HIDE DEF Small
    <3>2. r[s] = e(r, s)  BY <2>1, Zenon
    <3>3. q[s] = e(r, s)  BY <3>1, Zenon
    <3>. QED  BY <3>1, <3>2, <3>3, Zenon
  <2>3. ASSUME NEW s \in Small(w + 1), s # {} PROVE s \ {Pick(s)} \in Small(w)
    <3>1. Pick(s) \in s  BY <2>3, PickIn
    <3>2. IsFiniteSet(s) /\ Cardinality(s) <= w + 1  BY <1>0
    <3>3. Cardinality(s \ {Pick(s)}) <= w  BY <3>1, <3>2, SizeWithout
    <3>. QED  BY <3>3
  <2>4. \A s \in Small(w + 1) : e(q, s) = e(r, s)
    <3> SUFFICES ASSUME NEW s \in Small(w + 1) PROVE e(q, s) = e(r, s)  BY Zenon
    <3>. HIDE DEF q, Small
    <3>1. s # {} => q[s \ {Pick(s)}] = r[s \ {Pick(s)}]  BY <2>2, <2>3, Zenon
    <3>. QED  BY <3>1
  <2>5. q = [s \in Small(w + 1) |-> e(q, s)]
    <3>1. q = [s \in Small(w + 1) |-> e(r, s)]  BY Zenon
    <3>. HIDE DEF q, e, Small
    <3>. QED  BY <2>4, <3>1
  <2>6. Good(q, w + 1)
    <3>. HIDE DEF q, Small
    <3>. QED  BY <2>5
  <2>. HIDE DEF Good, q
  <2>. QED  BY <2>6
<1>3. Cardinality(S) \in Nat /\ Cardinality(S) \in Has
  <2>1. Cardinality(S) \in Nat  BY FS_CardinalityType
  <2>. HIDE DEF Has
  <2>. QED  BY <1>1, <1>2, <2>1, AllNaturals
<1>4. Small(Cardinality(S)) = SUBSET S  BY FS_Subset
<1>5. \E r : IsTotal(r, f, S)
  <2>1. PICK r : Good(r, Cardinality(S))  BY <1>3
  <2>2. r = [s \in SUBSET S |-> IF s = {} THEN 0 ELSE f[Pick(s)] + r[s \ {Pick(s)}]]
    <3>. HIDE DEF Small
    <3>. QED  BY <1>4, <2>1
  <2>. QED  BY <2>2 DEF IsTotal
<1>. QED  BY <1>5, Zenon DEF Total

\* The sum of a part, in the sums of the whole.
LEMMA TotalOf ==
    ASSUME NEW f, NEW S, IsFiniteSet(S)
    PROVE  /\ Total(f, S)[{}] = 0
           /\ \A s \in SUBSET S : s # {} =>
                Total(f, S)[s] = f[Pick(s)] + Total(f, S)[s \ {Pick(s)}]
<1>. DEFINE r == Total(f, S)
<1>1. r = [s \in SUBSET S |-> IF s = {} THEN 0 ELSE f[Pick(s)] + r[s \ {Pick(s)}]]
  <2>1. IsTotal(r, f, S)  BY TotalIs
  <2>. QED  BY <2>1, Zenon DEF IsTotal
<1>. HIDE DEF r
<1>2. {} \in SUBSET S  OBVIOUS
<1>3. r[{}] = 0  BY <1>1, <1>2, Zenon
<1>4. ASSUME NEW s \in SUBSET S, s # {} PROVE r[s] = f[Pick(s)] + r[s \ {Pick(s)}]
  BY <1>1, <1>4, Zenon
<1>. QED  BY <1>3, <1>4 DEF r

LEMMA TotalOfPart ==
    ASSUME NEW f, NEW S, IsFiniteSet(S), NEW T \in SUBSET S
    PROVE  Total(f, T)[T] = Total(f, S)[T]
<1>. DEFINE Has == {w \in Nat : \A s \in SUBSET T : Cardinality(s) <= w =>
                        Total(f, T)[s] = Total(f, S)[s]}
<1>0. IsFiniteSet(T) /\ \A s \in SUBSET T : s \in SUBSET S /\ IsFiniteSet(s)  BY FS_Subset
<1>1. 0 \in Has
  <2>1. \A s \in SUBSET T : Cardinality(s) <= 0 => s = {}  BY <1>0, EmptySize
  <2>2. Total(f, T)[{}] = 0 /\ Total(f, S)[{}] = 0  BY <1>0, TotalOf
  <2>. QED  BY <2>1, <2>2
<1>2. ASSUME NEW w \in Nat, w \in Has PROVE w + 1 \in Has
  <2> SUFFICES ASSUME NEW s \in SUBSET T, Cardinality(s) <= w + 1
               PROVE  Total(f, T)[s] = Total(f, S)[s]
    OBVIOUS
  <2>1. CASE s = {}  BY <1>0, <2>1, TotalOf
  <2>2. CASE s # {}
    <3>1. Pick(s) \in s  BY <2>2, PickIn
    <3>2. Cardinality(s \ {Pick(s)}) <= w  BY <1>0, <3>1, SizeWithout
    <3>3. s \ {Pick(s)} \in SUBSET T  OBVIOUS
    <3>4. Total(f, T)[s \ {Pick(s)}] = Total(f, S)[s \ {Pick(s)}]  BY <1>2, <3>2, <3>3
    <3>5. Total(f, T)[s] = f[Pick(s)] + Total(f, T)[s \ {Pick(s)}]  BY <1>0, <2>2, TotalOf
    <3>6. Total(f, S)[s] = f[Pick(s)] + Total(f, S)[s \ {Pick(s)}]  BY <1>0, <2>2, TotalOf
    <3>. QED  BY <3>4, <3>5, <3>6
  <2>. QED  BY <2>1, <2>2
<1>3. Cardinality(T) \in Nat /\ Cardinality(T) \in Has
  <2>1. Cardinality(T) \in Nat  BY <1>0, FS_CardinalityType
  <2>. HIDE DEF Has
  <2>. QED  BY <1>1, <1>2, <2>1, AllNaturals
<1>. QED  BY <1>3

LEMMA SwapSum ==
    ASSUME NEW x \in Int, NEW y \in Int, NEW z \in Int
    PROVE  y + (x + z) = x + (y + z)
OBVIOUS

\* A sum of numbers is one number more than the sum without it.
LEMMA TotalWithout ==
    ASSUME NEW f, NEW S, IsFiniteSet(S), \A x \in S : f[x] \in Int
    PROVE  /\ \A s \in SUBSET S : Total(f, S)[s] \in Int
           /\ \A s \in SUBSET S : \A x \in s : Total(f, S)[s] = f[x] + Total(f, S)[s \ {x}]
<1>. DEFINE T(s) == Total(f, S)[s]
            Has == {w \in Nat : \A s \in SUBSET S : Cardinality(s) <= w =>
                        T(s) \in Int /\ \A x \in s : T(s) = f[x] + T(s \ {x})}
<1>0. \A s \in SUBSET S : IsFiniteSet(s)  BY FS_Subset
<1>1. T({}) = 0 /\ \A s \in SUBSET S : s # {} => T(s) = f[Pick(s)] + T(s \ {Pick(s)})
  <2>1. /\ Total(f, S)[{}] = 0
        /\ \A s \in SUBSET S : s # {} =>
              Total(f, S)[s] = f[Pick(s)] + Total(f, S)[s \ {Pick(s)}]
    <3>1. IsFiniteSet(S)  OBVIOUS
    <3>. QED  BY ONLY <3>1, TotalOf
  <2>. QED  BY <2>1, Zenon
<1>. HIDE DEF T
<1>2. 0 \in Has
  <2>1. \A s \in SUBSET S : Cardinality(s) <= 0 => s = {}  BY <1>0, EmptySize
  <2>2. T({}) \in Int /\ \A x \in {} : T({}) = f[x] + T({} \ {x})  BY <1>1
  <2>. QED  BY <2>1, <2>2
<1>3. ASSUME NEW w \in Nat, w \in Has PROVE w + 1 \in Has
  <2> SUFFICES ASSUME NEW s \in SUBSET S, Cardinality(s) <= w + 1
               PROVE  T(s) \in Int /\ \A x \in s : T(s) = f[x] + T(s \ {x})
    OBVIOUS
  <2>1. CASE s = {}  BY <1>1, <2>1
  <2>2. CASE s # {}
    <3>. DEFINE y == Pick(s)
    <3>1. y \in s /\ f[y] \in Int  BY <2>2, PickIn
    <3>2. \A x \in s : Cardinality(s \ {x}) <= w /\ s \ {x} \in SUBSET S
      BY <1>0, SizeWithout
    <3>3. \A x \in s : T(s \ {x}) \in Int
             /\ \A z \in s \ {x} : T(s \ {x}) = f[z] + T((s \ {x}) \ {z})
      BY <1>3, <3>2
    <3>4. T(s) = f[y] + T(s \ {y})  BY <1>1, <2>2
    <3>. HIDE DEF y
    <3>5. T(s) \in Int  BY <3>1, <3>3, <3>4
    <3>6. ASSUME NEW x \in s, x # y PROVE T(s) = f[x] + T(s \ {x})
      <4>1. T(s \ {y}) = f[x] + T((s \ {y}) \ {x})  BY <3>1, <3>3, <3>6
      <4>2. T(s \ {x}) = f[y] + T((s \ {x}) \ {y})  BY <3>1, <3>3, <3>6
      <4>3. (s \ {y}) \ {x} = (s \ {x}) \ {y}  OBVIOUS
      <4>4. T((s \ {x}) \ {y}) \in Int
        <5>1. IsFiniteSet(s \ {x}) /\ y \in s \ {x} /\ (s \ {x}) \ {y} \in SUBSET S
          BY <1>0, <3>1, <3>6
        <5>2. Cardinality(s \ {x}) <= w /\ Cardinality((s \ {x}) \ {y}) <= Cardinality(s \ {x})
          BY <3>2, <5>1, FS_Subset
        <5>3. Cardinality(s \ {x}) \in Nat /\ Cardinality((s \ {x}) \ {y}) \in Nat
          BY <1>0, <5>1, FS_CardinalityType
        <5>4. Cardinality((s \ {x}) \ {y}) <= w  BY <5>2, <5>3
        <5>. QED  BY <1>3, <5>1, <5>4
      <4>5. f[x] \in Int  OBVIOUS
      <4>6. T((s \ {y}) \ {x}) = T((s \ {x}) \ {y})  BY <4>3
      <4>7. T(s) = f[y] + (f[x] + T((s \ {x}) \ {y}))  BY <3>4, <4>1, <4>6, Zenon
      <4>8. f[x] + T(s \ {x}) = f[x] + (f[y] + T((s \ {x}) \ {y}))  BY <4>2, Zenon
      <4>9. f[y] + (f[x] + T((s \ {x}) \ {y})) = f[x] + (f[y] + T((s \ {x}) \ {y}))
        BY ONLY <3>1, <4>4, <4>5, SwapSum
      <4>. QED  BY <4>7, <4>8, <4>9, Zenon
    <3>. QED  BY <3>4, <3>5, <3>6
  <2>. QED  BY <2>1, <2>2
<1>4. ASSUME NEW s \in SUBSET S
      PROVE  T(s) \in Int /\ \A x \in s : T(s) = f[x] + T(s \ {x})
  <2>1. Cardinality(s) \in Nat  BY <1>0, FS_CardinalityType
  <2>2. Cardinality(s) \in Has
    <3>. HIDE DEF Has
    <3>. QED  BY <1>2, <1>3, <2>1, AllNaturals
  <2>. QED  BY <2>1, <2>2
<1>. QED  BY <1>4 DEF T

\* A sum is one number more than the sum of the others.
LEMMA SumWithout ==
    ASSUME NEW f, NEW S, IsFiniteSet(S), \A x \in S : f[x] \in Int
    PROVE  /\ Sum(f, S) \in Int /\ (S = {} => Sum(f, S) = 0)
           /\ \A x \in S : Sum(f, S) = f[x] + Sum(f, S \ {x})
<1>1. S \in SUBSET S /\ \A x \in S : S \ {x} \in SUBSET S  OBVIOUS
<1>2. \A s \in SUBSET S : Total(f, s)[s] = Total(f, S)[s]  BY TotalOfPart
<1>3. Total(f, S)[S] \in Int /\ \A x \in S : Total(f, S)[S] = f[x] + Total(f, S)[S \ {x}]
  <2>1. /\ \A s \in SUBSET S : Total(f, S)[s] \in Int
        /\ \A s \in SUBSET S : \A x \in s : Total(f, S)[s] = f[x] + Total(f, S)[s \ {x}]
    <3>1. IsFiniteSet(S) /\ \A x \in S : f[x] \in Int  OBVIOUS
    <3>. QED  BY ONLY <3>1, TotalWithout
  <2>. QED  BY <1>1, <2>1, Zenon
<1>4. S = {} => Total(f, S)[S] = 0  BY TotalOf
<1>. QED  BY <1>1, <1>2, <1>3, <1>4 DEF Sum

\* A sum depends on what is summed only.
LEMMA SumSame ==
    ASSUME NEW f, NEW g, NEW S, IsFiniteSet(S), \A x \in S : f[x] \in Int /\ g[x] = f[x]
    PROVE  Sum(g, S) = Sum(f, S)
<1>. DEFINE Has == {w \in Nat : \A s \in SUBSET S : Cardinality(s) <= w => Sum(g, s) = Sum(f, s)}
<1>0. \A s \in SUBSET S : IsFiniteSet(s)  BY FS_Subset
<1>1. ASSUME NEW s \in SUBSET S
      PROVE  /\ s = {} => Sum(f, s) = 0 /\ Sum(g, s) = 0
             /\ \A x \in s : Sum(f, s) = f[x] + Sum(f, s \ {x}) /\ Sum(g, s) = g[x] + Sum(g, s \ {x})
  <2>1. IsFiniteSet(s) /\ (\A x \in s : f[x] \in Int) /\ \A x \in s : g[x] \in Int  BY <1>0
  <2>. QED  BY <2>1, SumWithout
<1>2. 0 \in Has
  <2>1. \A s \in SUBSET S : Cardinality(s) <= 0 => s = {}  BY <1>0, EmptySize
  <2>. QED  BY <1>1, <2>1
<1>3. ASSUME NEW w \in Nat, w \in Has PROVE w + 1 \in Has
  <2> SUFFICES ASSUME NEW s \in SUBSET S, Cardinality(s) <= w + 1 PROVE Sum(g, s) = Sum(f, s)
    OBVIOUS
  <2>1. CASE s = {}  BY <1>1, <2>1
  <2>2. CASE s # {}
    <3>1. PICK x \in s : TRUE  BY <2>2
    <3>2. Cardinality(s \ {x}) <= w /\ s \ {x} \in SUBSET S  BY <1>0, SizeWithout
    <3>3. Sum(g, s \ {x}) = Sum(f, s \ {x})  BY <1>3, <3>2
    <3>4. Sum(f, s) = f[x] + Sum(f, s \ {x}) /\ Sum(g, s) = g[x] + Sum(g, s \ {x}) /\ g[x] = f[x]
      BY <1>1
    <3>. QED  BY <3>3, <3>4
  <2>. QED  BY <2>1, <2>2
<1>4. Cardinality(S) \in Nat /\ Cardinality(S) \in Has
  <2>1. Cardinality(S) \in Nat  BY FS_CardinalityType
  <2>. HIDE DEF Has
  <2>. QED  BY <1>2, <1>3, <2>1, AllNaturals
<1>. QED  BY <1>4

LEMMA Regroup ==
    ASSUME NEW a \in Int, NEW d \in Int, NEW r \in Int
    PROVE  (a + d) + r = (a + r) + d
OBVIOUS

\* One number of a sum changes by d.
LEMMA SumChange ==
    ASSUME NEW f, NEW g, NEW S, IsFiniteSet(S), NEW x \in S, NEW d \in Int,
           \A y \in S : f[y] \in Int, \A y \in S \ {x} : g[y] = f[y], g[x] = f[x] + d
    PROVE  Sum(g, S) = Sum(f, S) + d
<1>1. IsFiniteSet(S \ {x})  BY FS_Subset
<1>2. \A y \in S : g[y] \in Int  OBVIOUS
<1>3. Sum(g, S \ {x}) = Sum(f, S \ {x}) /\ Sum(f, S \ {x}) \in Int  BY <1>1, SumSame, SumWithout
<1>4. Sum(f, S) = f[x] + Sum(f, S \ {x})  BY SumWithout
<1>5. Sum(g, S) = g[x] + Sum(g, S \ {x})  BY <1>2, SumWithout
<1>6. f[x] \in Int  OBVIOUS
<1>. QED  BY <1>3, <1>4, <1>5, <1>6, Regroup

-----------------------------------------------------------------------------
(* The profit.                                                             *)

Marked == DOMAIN Profit
\* While the positions carried in are gone through, their profit so far.
ProfitInv ==
    /\ phase = "overnight" => clcl = Sum(Profit, Marked \ left)
    /\ phase \in {"samples", "close"} => clcl = Sum(Profit, Marked)

LEMMA ProfitType ==
    ASSUME TypeOK
    PROVE  /\ Marked = {t \in Held : Known(t)} /\ IsFiniteSet(Marked)
           /\ \A t \in Marked :
                /\ t \in Held /\ Known(t)
                /\ Profit[t] = pos[t] * info[uid[t]].retclcl * info[uid[t]].close
                /\ Profit[t] \in Int
<1>1. Marked = {t \in Held : Known(t)}  BY DEF Marked, Profit
<1>2. Marked \subseteq Tickers  BY <1>1 DEF TypeOK
<1>3. IsFiniteSet(Marked)  BY <1>2, SimAssumption, FS_Subset
<1>4. ASSUME NEW t \in Marked
      PROVE  /\ t \in Held /\ Known(t)
             /\ Profit[t] = pos[t] * info[uid[t]].retclcl * info[uid[t]].close
             /\ Profit[t] \in Int
  <2>1. t \in Held /\ Known(t) /\ t \in Tickers  BY <1>1, <1>2
  <2>2. Profit[t] = pos[t] * info[uid[t]].retclcl * info[uid[t]].close  BY <2>1 DEF Profit
  <2>3. info[uid[t]].retclcl \in Int /\ info[uid[t]].close \in Int  BY <2>1, KnownInfo
  <2>4. pos[t] \in Int  BY <2>1 DEF TypeOK
  <2>5. pos[t] * info[uid[t]].retclcl \in Int  BY <2>3, <2>4, ProductInt
  <2>6. pos[t] * info[uid[t]].retclcl * info[uid[t]].close \in Int  BY <2>3, <2>5, ProductInt
  <2>. QED  BY <2>1, <2>2, <2>6
<1>. QED  BY <1>1, <1>3, <1>4

LEMMA ProfitFrame ==
    ASSUME UNCHANGED <<pos, uid, info>>
    PROVE  Profit' = Profit /\ Marked' = Marked
BY DEF Profit, Marked, Held, Known

LEMMA Distribute ==
    ASSUME NEW a \in Int, NEW d \in Int, NEW r \in Int, NEW c \in Int
    PROVE  (a + d) * r * c = a * r * c + d * r * c
<1>1. (a + d) * r = a * r + d * r  OBVIOUS
<1>2. a * r \in Int /\ d * r \in Int  BY ProductInt
<1>3. \A x, y \in Int : (x + y) * c = x * c + y * c  OBVIOUS
<1>. QED  BY <1>1, <1>2, <1>3

\* A trade adds its shares' profit to that of the position.
LEMMA TradedProfit ==
    ASSUME TypeOK, ProfitInv, phase = "samples", NEW t \in Held, Known(t), NEW d \in Int,
           NEW price, Traded(t, d, price)
    PROVE  ProfitInv'
<1>. DEFINE more == d * info[uid[t]].retclcl * info[uid[t]].close
<1>1. t \in Marked /\ t \in Tickers  BY ProfitType DEF TypeOK
<1>2. /\ pos' = [pos EXCEPT ![t] = @ + d] /\ uid' = uid /\ info' = info /\ phase' = phase
      /\ clcl' = clcl + more
  BY DEF Traded
<1>3. DOMAIN pos' = DOMAIN pos /\ DOMAIN pos = Held  BY <1>2 DEF Held
<1>4. Marked' = Marked  BY <1>2, <1>3 DEF Marked, Profit, Held, Known
<1>5. \A y \in Marked \ {t} : Profit'[y] = Profit[y]
  <2> SUFFICES ASSUME NEW y \in Marked \ {t} PROVE Profit'[y] = Profit[y]  OBVIOUS
  <2>1. y \in {h \in Held : Known(h)} /\ y \in {h \in Held : Known(h)}'
    BY <1>4 DEF Marked, Profit
  <2>2. pos'[y] = pos[y]  BY <1>2, <1>3, <2>1
  <2>. QED  BY <1>2, <2>1, <2>2 DEF Profit
<1>6. /\ pos[t] \in Int /\ info[uid[t]].retclcl \in Int /\ info[uid[t]].close \in Int
  BY <1>1, KnownInfo DEF TypeOK
<1>7. more \in Int
  <2>1. d * info[uid[t]].retclcl \in Int  BY <1>6, ProductInt
  <2>. QED  BY <1>6, <2>1, ProductInt
<1>8. Profit'[t] = Profit[t] + more
  <2>1. t \in {h \in Held : Known(h)}'  BY <1>1, <1>4 DEF Marked, Profit
  <2>2. pos'[t] = pos[t] + d  BY <1>2, <1>3
  <2>3. Profit'[t] = (pos[t] + d) * info[uid[t]].retclcl * info[uid[t]].close
    BY <1>2, <2>1, <2>2 DEF Profit
  <2>4. Profit[t] = pos[t] * info[uid[t]].retclcl * info[uid[t]].close  BY <1>1, ProfitType
  <2>. QED  BY <1>6, <2>3, <2>4, Distribute
<1>9. IsFiniteSet(Marked) /\ \A y \in Marked : Profit[y] \in Int  BY ProfitType
<1>. HIDE DEF more
<1>10. Sum(Profit', Marked) = Sum(Profit, Marked) + more
  BY <1>1, <1>5, <1>7, <1>8, <1>9, SumChange
<1>11. clcl = Sum(Profit, Marked)  BY DEF ProfitInv
<1>12. clcl' = Sum(Profit, Marked)'
  <2>1. Sum(Profit', Marked') = clcl + more  BY <1>4, <1>10, <1>11
  <2>. QED  BY <1>2, <2>1 DEF Sum, Total, IsTotal
<1>. QED  BY <1>2, <1>12 DEF ProfitInv

LEMMA ProfitNext == TypeOK /\ TypeOK' /\ ProfitInv /\ [Next]_vars => ProfitInv'
<1>. SUFFICES ASSUME TypeOK, TypeOK', ProfitInv, [Next]_vars PROVE ProfitInv'  OBVIOUS
<1>1. CASE BeginDay
  <2>1. phase' = "overnight" /\ clcl' = 0 /\ (Marked \ left)' = {}
    <3>1. left' = Held' /\ phase' = "overnight" /\ clcl' = 0  BY <1>1 DEF BeginDay, Held
    <3>2. Marked' \subseteq Held'  BY DEF Marked, Profit
    <3>. QED  BY <3>1, <3>2
  <2>2. Sum(Profit', {}) = 0  BY SumWithout, FS_EmptySet
  <2>3. Sum(Profit, Marked \ left)' = Sum(Profit', {})  BY <2>1 DEF Sum, Total, IsTotal
  <2>. QED  BY <2>1, <2>2, <2>3 DEF ProfitInv
<1>2. CASE BeginSamples
  <2>1. /\ phase = "overnight" /\ left = {} /\ phase' = "samples" /\ clcl' = clcl
        /\ UNCHANGED <<pos, uid, info>>
    BY <1>2 DEF BeginSamples
  <2>2. clcl = Sum(Profit, Marked)
    <3>1. Marked \ left = Marked  BY <2>1
    <3>. QED  BY <2>1, <3>1 DEF ProfitInv
  <2>3. Sum(Profit, Marked)' = Sum(Profit, Marked)  BY <2>1, ProfitFrame DEF Sum, Total, IsTotal
  <2>. QED  BY <2>1, <2>2, <2>3 DEF ProfitInv
<1>3. ASSUME phase \in {"samples", "close"}, phase' \in {"samples", "close"}, clcl' = clcl,
             UNCHANGED <<pos, uid, info>>
      PROVE  ProfitInv'
  <2>1. Sum(Profit, Marked)' = Sum(Profit, Marked)  BY <1>3, ProfitFrame DEF Sum, Total, IsTotal
  <2>. QED  BY <1>3, <2>1 DEF ProfitInv
<1>4. CASE EndSamples  BY <1>3, <1>4 DEF EndSamples
<1>5. CASE NextTicker  BY <1>3, <1>5 DEF NextTicker
<1>6. CASE EndDay  BY <1>6 DEF EndDay, ProfitInv
<1>7. ASSUME NEW t \in Tickers, Carry(t) PROVE ProfitInv'
  <2>1. /\ phase = "overnight" /\ phase' = "overnight" /\ t \in left /\ left' = left \ {t}
        /\ UNCHANGED <<pos, uid, info>>
    BY <1>7 DEF Carry, First
  <2>2. Profit' = Profit /\ Marked' = Marked  BY <2>1, ProfitFrame
  <2>3. clcl = Sum(Profit, Marked \ left)  BY <2>1 DEF ProfitInv
  <2>4. t \in Held  BY <2>1 DEF TypeOK
  <2>5. clcl' = Sum(Profit, Marked \ (left \ {t}))
    <3>1. CASE Known(t)
      <4>. DEFINE M == Marked \ (left \ {t})
      <4>1. t \in Marked /\ t \in M  BY <2>4, <3>1, ProfitType
      <4>2. M \ {t} = Marked \ left  BY <2>1, <4>1
      <4>3. IsFiniteSet(M) /\ \A y \in M : Profit[y] \in Int  BY ProfitType, FS_Subset
      <4>. HIDE DEF M
      <4>4. Sum(Profit, M) = Profit[t] + Sum(Profit, M \ {t})  BY <4>1, <4>3, SumWithout
      <4>5. clcl' = clcl + Profit[t]
        <5>1. clcl' = clcl + pos[t] * info[uid[t]].retclcl * info[uid[t]].close
          BY <1>7, <3>1 DEF Carry
        <5>. QED  BY <4>1, <5>1, ProfitType
      <4>6. clcl \in Int /\ Profit[t] \in Int  BY <4>1, ProfitType DEF TypeOK
      <4>7. clcl + Profit[t] = Profit[t] + clcl  BY <4>6
      <4>. QED  BY <2>3, <4>2, <4>4, <4>5, <4>7 DEF M
    <3>2. CASE ~ Known(t)
      <4>1. t \notin Marked  BY <3>2, ProfitType
      <4>2. Marked \ (left \ {t}) = Marked \ left  BY <4>1
      <4>3. clcl' = clcl  BY <1>7, <3>2 DEF Carry
      <4>. QED  BY <2>3, <4>2, <4>3
    <3>. QED  BY <3>1, <3>2
  <2>6. Sum(Profit, Marked \ left)' = Sum(Profit, Marked \ (left \ {t}))
    BY <2>1, <2>2 DEF Sum, Total, IsTotal
  <2>. QED  BY <2>1, <2>5, <2>6 DEF ProfitInv
<1>8. ASSUME NEW t \in Tickers, Mark(t) PROVE ProfitInv'
  BY <1>3, <1>8 DEF Mark
<1>9. ASSUME NEW t \in Tickers, NEW side \in {-1, 1}, NEW size \in Sizes, NEW price \in Prices,
             TradeNet(t, side, size, price)
      PROVE  ProfitInv'
  <2>. DEFINE d == DPos(side, size, price, pos[t])
  <2>1. t \in Held /\ Known(t) /\ phase = "samples" /\ Traded(t, d, price)
    BY <1>9 DEF TradeNet, TypeOK
  <2>2. d \in Int  BY <2>1, DPosType
  <2>. HIDE DEF d
  <2>. QED  BY <2>1, <2>2, TradedProfit
<1>10. ASSUME NEW t \in Tickers, NEW side \in {-1, 1}, NEW size \in Sizes, NEW price \in Prices,
              TradeSimple(t, side, size, price)
       PROVE  ProfitInv'
  <2>. DEFINE d == DPos(side, size, price, pos[t])
              e == IF last.side * d > 0 /\ last.price = price THEN 0 ELSE d
  <2>1. t \in Held /\ Known(t) /\ phase = "samples" /\ Traded(t, e, price)
    BY <1>10 DEF TradeSimple, TypeOK
  <2>2. d \in Int  BY <2>1, DPosType
  <2>. HIDE DEF d
  <2>3. e \in Int  BY <2>2
  <2>. HIDE DEF e
  <2>. QED  BY <2>1, <2>3, TradedProfit
<1>11. CASE UNCHANGED vars
  <2>1. UNCHANGED <<pos, uid, info, phase, clcl, left>>  BY <1>11 DEF vars
  <2>2. /\ Sum(Profit, Marked)' = Sum(Profit, Marked)
        /\ Sum(Profit, Marked \ left)' = Sum(Profit, Marked \ left)
    BY <2>1, ProfitFrame DEF Sum, Total, IsTotal
  <2>. QED  BY <2>1, <2>2 DEF ProfitInv
<1>. QED  BY <1>1, <1>2, <1>4, <1>5, <1>6, <1>7, <1>8, <1>9, <1>10, <1>11 DEF Next

\* The profit of a day, added up along the positions carried in and the trades,
\* is that of the positions carried out, for any number of tickers and samples.
THEOREM ProfitsAddUp == Spec => []ProfitOfPositions
<1>1. Init => ProfitInv  BY DEF Init, ProfitInv
<1>2. ProfitInv => ProfitOfPositions  BY SumIs DEF ProfitInv, ProfitOfPositions, Marked
<1>3. TypeOK /\ TypeOK' /\ ProfitInv /\ [Next]_vars => ProfitInv'  BY ProfitNext
<1>. QED  BY <1>1, <1>2, <1>3, SimTypeCorrect, PTL DEF Spec
=============================================================================
