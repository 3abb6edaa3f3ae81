----------------------------- MODULE OrderBook -----------------------------
(***************************************************************************)
(* The limit order book of jl_lib/Book.cpp, along the path of the ticks of *)
(* one ticker: remove_crosses reads the logged orders and writes them with *)
(* deletions it generates for the levels a crossing order has consumed; a  *)
(* second book replays what it wrote, as every reader of the output does;  *)
(* and order2quote (jlutil_tickdata.cpp) feeds a third book, which         *)
(* uncrosses itself, and makes quotes of it.  NextTicker starts over with  *)
(* what the code keeps between tickers: the static last_quote of get_quote.*)
(* A side of a book is a function from its levels to their volumes; a      *)
(* level of volume 0 is there until remove_zeros, as in the code's map.    *)
(* SpreadBook.cpp is the same code for signed prices.                      *)
(***************************************************************************)
EXTENDS Integers, Sequences, FiniteSets, SequencesExt, FiniteSetsExt

CONSTANTS Prices,       \* the prices of orders
          Sizes,        \* the sizes of orders
          Lot,          \* the depth a quote is made of
          Open, Close,  \* the first and last msecs of the market's sessions
          LastMsecs,    \* bound: the last msecs of an order
          MaxOrders     \* bound: orders of all tickers

ASSUME BookAssumption ==
    /\ Prices \subseteq Nat \ {0} /\ IsFiniteSet(Prices) /\ Sizes \subseteq Nat \ {0}
    /\ Lot \in Nat \ {0}
    /\ Open \in Int /\ Close \in Int /\ LastMsecs \in Nat \ {0} /\ MaxOrders \in Nat

VARIABLES phase,        \* "read" until the last order, then "end"
          n,            \* the orders read, of all tickers
          msecs,        \* the msecs of the last order
          book,         \* bidvol and askvol during remove_crosses
          afterOpen,    \* its uncrossedAfterOpen
          pending,      \* its uncrossingOrders
          replay,       \* the book of a reader of its output
          collided,     \* levels where a logged order met a generated one it is
                        \* not the deletion of
          live,         \* the book of order2quote
          liveOpen,     \* its uncrossedAfterOpen_
          lastQuote,    \* the static last_quote of Book::get_quote
          quote,        \* the last_quote of order2quote: the next to be written
          tsQ,          \* the quotes it has written
          shown,        \* history: the quote of the live book when a msecs ended
          carried       \* history: the static last_quote when the ticker began

vars == <<phase, n, msecs, book, afterOpen, pending, replay, collided, live,
          liveOpen, lastQuote, quote, tsQ, shown, carried>>

Side == {"bid", "ask"}
Order == [side : Side, kind : {"add", "del"}, price : Prices, size : Sizes,
          msecs : 1 .. LastMsecs]
Opposite(s) == IF s = "bid" THEN "ask" ELSE "bid"

NoBook == [s \in Side |-> <<>>]
\* Sessions::isAfterOpenBeforeClose: of the market, and of a book made without
\* one, whose session is the day.
Trading(t) == Open < t /\ t < Close
InDay(t) == 0 < t /\ t < 24 * 60 * 60 * 1000

Volume(b, s, p) == IF p \in DOMAIN b[s] THEN b[s][p] ELSE 0
SetVolume(b, o, v) ==
    [b EXCEPT ![o.side] = [p \in {o.price} \union DOMAIN @ |-> IF p = o.price THEN v ELSE @[p]]]
Keep(b, s, levels) == [b EXCEPT ![s] = [p \in levels |-> @[p]]]

\* A set of numbers in the order of a std::map.
Ascending(set) ==
    [i \in 1 .. Cardinality(set) |-> CHOOSE p \in set : Cardinality({q \in set : q <= p}) = i]

NegativeSpread(b) == \E p \in DOMAIN b.ask, q \in DOMAIN b.bid : p < q
PositiveSpread(b) ==
    /\ DOMAIN b.ask # {} /\ DOMAIN b.bid # {}
    /\ \A p \in DOMAIN b.ask, q \in DOMAIN b.bid : p > q
IsInverted(b) == \E p \in DOMAIN b.ask, q \in DOMAIN b.bid : p <= q

\* Mutant: remove_zeros is not called.
RemoveZerosMutant(b) == b
RemoveZeros(b) == [s \in Side |-> [p \in {q \in DOMAIN b[s] : b[s][q] > 0} |-> b[s][p]]]

\* The order at its level: an add, or a del that stops at 0.
AtLevel(b, o) ==
    LET v == Volume(b, o.side, o.price) IN
    SetVolume(b, o, IF o.kind = "add" THEN v + o.size
                    ELSE IF v >= o.size THEN v - o.size ELSE 0)

\* Mutant: an if for the while, only the best level is erased.
ConsumedMutant(b, s, strict) ==
    LET own == DOMAIN b[s]
        opp == DOMAIN b[Opposite(s)]
    IN IF \E p \in opp, q \in own : IF s = "bid" THEN p < q ELSE p > q
       THEN <<IF s = "bid" THEN Min(opp) ELSE Max(opp)>> ELSE <<>>
\* The levels opposite to side s, best first, that a loop erases until the
\* book no longer crosses; strict: negative_spread, otherwise is_inverted.
Consumed(b, s, strict) ==
    LET own == DOMAIN b[s]
        gone(p) == \E q \in own : LET up == IF s = "bid" THEN q - p ELSE p - q IN
                                  IF strict THEN up > 0 ELSE up >= 0
        up == Ascending({p \in DOMAIN b[Opposite(s)] : gone(p)})
    IN IF s = "bid" THEN up ELSE Reverse(up)

\* Book::update, of a book that uncrosses itself or not.
Updated(b, o, uncross, opened) ==
    LET b1 == AtLevel(b, o)
        opp == Opposite(o.side)
        b2 == IF o.kind = "add" /\ uncross /\ opened /\ InDay(o.msecs)
              THEN Keep(b1, opp, DOMAIN b1[opp] \ Range(Consumed(b1, o.side, FALSE)))
              ELSE b1
    IN RemoveZeros(b2)

OpenedAfter(b, opened, t) == opened \/ (InDay(t) /\ ~ IsInverted(b))

\* What a reader makes of a series of orders.
Replayed(b, orders) == FoldLeft(LAMBDA c, o : Updated(c, o, FALSE, FALSE), b, orders)

NoAsk == -1     \* UINT_MAX: the ask price of a side with less than a lot

\* Book::get_quote: the first level of a side at which the depth is a lot.
Depth(b, s, p) == MapThenSumSet(LAMBDA q : b[s][q],
    {q \in DOMAIN b[s] : IF s = "bid" THEN q >= p ELSE q <= p})
QuoteSide(b, s) ==
    LET deep == {p \in DOMAIN b[s] : Depth(b, s, p) >= Lot}
        best == IF s = "bid" THEN Max(deep) ELSE Min(deep)
    IN IF deep # {} THEN <<best, Depth(b, s, best) \div Lot>>
       ELSE <<IF s = "bid" THEN 0 ELSE NoAsk, 0>>
Quote(b) == [s \in Side |-> QuoteSide(b, s)]
NoQuote == [s \in Side |-> <<0, 0>>]

Init ==
    /\ phase = "read" /\ n = 0 /\ msecs = 1
    /\ book = NoBook /\ afterOpen = FALSE /\ pending = <<>>
    /\ replay = NoBook /\ collided = {}
    /\ live = NoBook /\ liveOpen = FALSE
    /\ lastQuote = NoQuote
    /\ quote = [msecs |-> 0, q |-> NoQuote]
    /\ tsQ = <<>> /\ shown = <<>> /\ carried = NoQuote

\* Mutant: uncrossingOrders is not cleared when it has been written.
StillPendingMutant(o) == pending
\* The generated orders still pending when order o has been read: on the same
\* msecs those a logged order repeats are dropped; on a later one, none.
StillPending(o) ==
    IF o.msecs > msecs THEN <<>>
    ELSE LET repeated(g) == /\ g.price = o.price /\ g.size <= o.size
                            /\ g.side = o.side /\ o.kind = "del"
             kept == Ascending({i \in DOMAIN pending : ~ repeated(pending[i])})
         IN [i \in DOMAIN kept |-> pending[kept[i]]]
Generate(b, o) ==
    LET opp == Opposite(o.side) IN
    IF o.kind = "add" /\ afterOpen /\ Trading(o.msecs)
    THEN [i \in DOMAIN Consumed(b, o.side, TRUE) |->
            LET p == Consumed(b, o.side, TRUE)[i] IN
            [side |-> opp, kind |-> "del", price |-> p, size |-> b[opp][p],
             msecs |-> o.msecs]]
    ELSE <<>>

\* One turn of remove_crosses' loop, and the reader of what it writes.
RemoveCrosses(o) ==
    LET flushed == IF o.msecs > msecs THEN pending ELSE <<>>
        b1 == AtLevel(book, o)
        generated == Generate(b1, o)
        opp == Opposite(o.side)
        b2 == Keep(b1, opp, DOMAIN b1[opp] \ {generated[i].price : i \in DOMAIN generated})
    IN /\ book' = RemoveZeros(b2)
       /\ afterOpen' = (afterOpen \/ (Trading(o.msecs) /\ PositiveSpread(b2)))
       /\ pending' = StillPending(o) \o generated
       /\ replay' = Updated(Replayed(replay, flushed), o, FALSE, FALSE)
       /\ collided' = IF o.msecs = msecs /\ \E i \in DOMAIN pending :
                            /\ pending[i].price = o.price /\ pending[i].side = o.side
                            /\ ~ (o.kind = "del" /\ pending[i].size <= o.size)
                      THEN collided \union {<<o.side, o.price>>} ELSE collided

Shown(t, q) == [u \in DOMAIN shown \union {t} |-> IF u = t THEN q ELSE shown[u]]

\* Mutant: the first quote of a msecs is the one kept.
OrderToQuoteMutant(o) ==
    LET b == Updated(live, o, TRUE, liveOpen)
        q == Quote(b)
    IN /\ live' = b
       /\ liveOpen' = OpenedAfter(b, liveOpen, o.msecs)
       /\ lastQuote' = q
       /\ IF q = lastQuote \/ quote.msecs = o.msecs THEN UNCHANGED <<quote, tsQ>>
          ELSE /\ quote' = [msecs |-> o.msecs, q |-> q]
               /\ tsQ' = IF quote.msecs > 0 THEN Append(tsQ, quote) ELSE tsQ
       /\ shown' = Shown(o.msecs, q) /\ UNCHANGED carried
\* One turn of order2quote's loop, with oneQuotePerMsec.
OrderToQuote(o) ==
    LET b == Updated(live, o, TRUE, liveOpen)
        q == Quote(b)
    IN /\ live' = b
       /\ liveOpen' = OpenedAfter(b, liveOpen, o.msecs)
       /\ lastQuote' = q
       /\ IF q = lastQuote THEN UNCHANGED <<quote, tsQ>>
          ELSE /\ quote' = [msecs |-> o.msecs, q |-> q]
               /\ tsQ' = IF quote.msecs > 0 /\ quote.msecs < o.msecs
                         THEN Append(tsQ, quote) ELSE tsQ
       /\ shown' = Shown(o.msecs, q) /\ UNCHANGED carried

Read(o) ==
    /\ phase = "read" /\ n < MaxOrders
    /\ o.msecs >= msecs
    /\ n' = n + 1 /\ msecs' = o.msecs
    /\ RemoveCrosses(o)
    /\ OrderToQuote(o)
    /\ UNCHANGED phase

\* The last order has been read: order2quote writes its last quote, whether
\* there has been one or not.
End ==
    /\ phase = "read"
    /\ phase' = "end"
    /\ tsQ' = Append(tsQ, quote)
    /\ UNCHANGED <<n, msecs, book, afterOpen, pending, replay, collided, live,
                   liveOpen, lastQuote, quote, shown, carried>>

\* The next ticker: Book::clear, a new Book, new locals; the static stays.
NextTicker ==
    /\ phase = "end"
    /\ phase' = "read" /\ msecs' = 1
    /\ book' = NoBook /\ afterOpen' = FALSE /\ pending' = <<>>
    /\ replay' = NoBook /\ collided' = {}
    /\ live' = NoBook /\ liveOpen' = FALSE
    /\ quote' = [msecs |-> 0, q |-> NoQuote]
    /\ tsQ' = <<>> /\ shown' = <<>> /\ carried' = lastQuote
    /\ UNCHANGED <<n, lastQuote>>

Next == \/ \E o \in Order : Read(o)
        \/ End
        \/ NextTicker

Spec == Init /\ [][Next]_vars
-----------------------------------------------------------------------------
\* Book::get_auction: prices upwards, until the tradable volume falls or the
\* surplus grows at the same volume.
Tradable(b, p) == Min({Depth(b, "ask", p), Depth(b, "bid", p)})
Surplus(b, p) == Max({Depth(b, "ask", p), Depth(b, "bid", p)}) - Tradable(b, p)
AuctionPrices(b) == DOMAIN b.bid \union DOMAIN b.ask
\* Mutant: the search ends on the first price that is not better.
AuctionStepMutant(b, best, p) ==
    LET t == Tradable(b, p)  s == Surplus(b, p) IN
    IF best.stop \/ t <= best.size THEN [best EXCEPT !.stop = t # 0]
    ELSE [price |-> p, size |-> t, surplus |-> s, stop |-> FALSE]
AuctionStep(b, best, p) ==
    LET t == Tradable(b, p)  s == Surplus(b, p) IN
    IF best.stop THEN best
    ELSE IF t > best.size \/ (t = best.size /\ s < best.surplus)
         THEN [price |-> p, size |-> t, surplus |-> s, stop |-> FALSE]
    ELSE [best EXCEPT !.stop = t < best.size \/ (t # 0 /\ t = best.size /\ s > best.surplus)]
Auction(b) ==
    FoldLeft(LAMBDA best, p : AuctionStep(b, best, p),
             [price |-> 0, size |-> 0, surplus |-> 0, stop |-> FALSE],
             IF IsInverted(b) THEN Ascending(AuctionPrices(b)) ELSE <<>>)

\* Book::get_book_diff: the orders that turn book b into book c.
DiffOrder(b, c, s, p) ==
    LET d == Volume(c, s, p) - Volume(b, s, p) IN
    [side |-> s, kind |-> IF d > 0 THEN "add" ELSE "del", price |-> p,
     size |-> IF d > 0 THEN d ELSE -d, msecs |-> 1]
Changed(b, c) ==
    {l \in Side \X Prices :
        l[2] \in DOMAIN b[l[1]] /\ b[l[1]][l[2]] # Volume(c, l[1], l[2])}
\* operator[] has by then given the new book an empty level for each of the old.
Added(b, c) ==
    {l \in Side \X Prices :
        l[2] \in DOMAIN c[l[1]] \union DOMAIN b[l[1]] /\ Volume(b, l[1], l[2]) = 0}
\* Mutant: the levels only the new book has are forgotten.
BookDiffMutant(b, c) ==
    SetToSeq({DiffOrder(b, c, l[1], l[2]) : l \in Changed(b, c)})
BookDiff(b, c) ==
    LET orders(levels) == SetToSeq({DiffOrder(b, c, l[1], l[2]) : l \in levels})
    IN orders(Changed(b, c)) \o orders(Added(b, c))
-----------------------------------------------------------------------------
\* Every book holds volumes at known prices, and remove_zeros has left no empty
\* level behind a turn of the loop.
IsSide(levels) == \E l \in SUBSET Prices : levels \in [l -> Nat \ {0}]
TypeOK ==
    /\ phase \in {"read", "end"} /\ n \in 0 .. MaxOrders /\ msecs \in 1 .. LastMsecs
    /\ \A b \in {book, replay, live} : DOMAIN b = Side /\ \A s \in Side : IsSide(b[s])
    /\ afterOpen \in BOOLEAN /\ liveOpen \in BOOLEAN
    /\ collided \subseteq Side \X Prices

\* Once the book has been seen uncrossed in trading hours, no order of the
\* trading hours leaves it crossed: remove_crosses lets it lock, update does not.
UncrossedInTrading ==
    /\ afterOpen /\ Trading(msecs) => ~ NegativeSpread(book)
    /\ liveOpen /\ InDay(msecs) => ~ IsInverted(live)

\* What remove_crosses writes makes, once the generated orders are written, the
\* book it kept: a logged deletion that replaces the generated one of its level
\* does as well.  Levels where a logged order met a generated one in any other
\* way are left out: there the two may differ.
ReplayMatches ==
    \A s \in Side, p \in Prices :
        <<s, p>> \notin collided =>
            Volume(Replayed(replay, pending), s, p) = Volume(book, s, p)

\* Who reads the written quotes back finds at the end of every msecs the quote
\* that the book had then, and one quote to a msecs.  Before the first of them,
\* and if there is none, the book has had the quote that the ticker before left
\* in the static last_quote, and only then is the reader told nothing of it.
QuoteFollowsBook ==
    phase = "end" =>
      /\ \A i, j \in DOMAIN tsQ : i < j => tsQ[i].msecs < tsQ[j].msecs
      /\ \A t \in DOMAIN shown :
            LET past == {i \in DOMAIN tsQ : tsQ[i].msecs \in 1 .. t}
            IN shown[t] = IF past = {} THEN carried ELSE tsQ[Max(past)].q

\* The auction of an inverted book: no other price trades more, or as much with
\* less left over, although get_auction stops its search early.
AuctionOptimal ==
    \A b \in {book, live} : IsInverted(b) =>
        LET a == Auction(b) IN
        /\ a.size = Tradable(b, a.price) /\ a.size > 0
        /\ \A p \in AuctionPrices(b) :
              \/ Tradable(b, p) < a.size
              \/ Tradable(b, p) = a.size /\ Surplus(b, p) >= Surplus(b, a.price)

\* Replaying the difference of two books on the first makes the second.
DiffApplies ==
    \A b, c \in {book, replay, live} : Replayed(b, BookDiff(b, c)) = c
=============================================================================
