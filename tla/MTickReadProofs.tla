---------------------------- MODULE MTickReadProofs ----------------------------
(***************************************************************************)
(* Proofs about the tick reader: whatever the threads do, and however the  *)
(* searches of the maps race with insertions, a thread that reads reads    *)
(* from the directories of the current market day.                         *)
(***************************************************************************)
EXTENDS MTickRead, TLAPS

Steps == {"idle", "find", "finding", "insert", "inserting", "read", "end"}

ThreadType ==
    [ at : Steps, x : Maps, left : SUBSET Sources, add : SUBSET Dirs, again : BOOLEAN ]

(* The shape of the state.                                                 *)
Typed ==
    /\ conf \in ConfType /\ nbbo_trade \in BOOLEAN
    /\ phase \in {"between", "tickers"}
    /\ dirs \in [Sources -> SUBSET Dirs]
    /\ DOMAIN ta = Sources /\ DOMAIN mta = Sources
    /\ thr \in [Tids -> ThreadType]

(* A thread at work is inside a market day, on a source that is read.      *)
Working ==
    \A t \in Tids : thr[t].at # "idle" =>
        /\ phase = "tickers"
        /\ thr[t].x[2] \in thr[t].left /\ thr[t].left \subseteq conf.read
        /\ thr[t].at # "read" => MultiThread

(* The reader of the main thread.                                          *)
MainRoots ==
    \A s \in Sources :
        ta[s] = IF phase = "tickers" /\ s \in conf.read THEN dirs[s] ELSE {}

(* The roots thread t has yet to add to its reader of the source s.        *)
Missing(t, s) == IF thr[t].x = <<"mta", s>> THEN thr[t].add ELSE {}

(* A reader has the roots of the day, but for those its thread is about to *)
(* add; a thread that has none makes a whole one.                          *)
ThreadRoots ==
    \A t \in Tids, s \in Sources :
        IF t \in DOMAIN mta[s]
        THEN phase = "tickers" /\ mta[s][t] \cup Missing(t, s) = dirs[s]
        ELSE Missing(t, s) \in {{}, dirs[s]}

(* Roots are added only between a search that found nothing and the next;  *)
(* a thread has its reader when it turns to the series and the ticks.      *)
Progress ==
    \A t \in Tids :
        /\ thr[t].at \notin {"insert", "inserting", "end"} => thr[t].add = {}
        /\ thr[t].x[1] = "mts" => thr[t].add = {}
        /\ MultiThread /\ thr[t].at # "idle" /\ (thr[t].at = "read" \/ thr[t].x[1] = "mts")
               => t \in DOMAIN mta[thr[t].x[2]]

RootsInv == Typed /\ Working /\ MainRoots /\ ThreadRoots /\ Progress

LEMMA SourceOrder ==
    ASSUME NEW left \in SUBSET Sources, left # {}
    PROVE  FirstOf(left) \in left
<1> DEFINE First(i) == Order[i] \in left /\ \A j \in 1 .. i - 1 : Order[j] \notin left
<1>1. \E i \in 1 .. 4 : First(i)
  <2>1. Order[1] = "trade" /\ Order[2] = "quote" /\ Order[3] = "nbbo" /\ Order[4] = "order"
    BY DEF Order
  <2>2. CASE "trade" \in left
    BY <2>1, <2>2
  <2>3. CASE "trade" \notin left /\ "quote" \in left
    <3>1. First(2) BY <2>1, <2>3
    <3> QED BY <3>1
  <2>4. CASE "trade" \notin left /\ "quote" \notin left /\ "nbbo" \in left
    <3>1. First(3) BY <2>1, <2>4
    <3> QED BY <3>1
  <2>5. CASE "trade" \notin left /\ "quote" \notin left /\ "nbbo" \notin left
    <3>1. "order" \in left BY <2>5 DEF Sources
    <3>2. First(4) BY <2>1, <2>5, <3>1
    <3> QED BY <3>2
  <2> QED BY <2>2, <2>3, <2>4, <2>5
<1>2. First(CHOOSE i \in 1 .. 4 : First(i))
  BY <1>1
<1> QED
  BY <1>2 DEF FirstOf

LEMMA IdleType == Idle \in ThreadType
BY DEF Idle, ThreadType, Steps, Maps, Sources

LEMMA MapPairs ==
    ASSUME NEW x \in Maps
    PROVE  /\ x[1] \in {"mta", "mts"} /\ x[2] \in Sources
           /\ x = <<x[1], x[2]>>
BY DEF Maps

LEMMA RootsInit == Init => RootsInv
<1> SUFFICES ASSUME Init PROVE RootsInv
  OBVIOUS
<1>1. conf \in ConfType /\ nbbo_trade \in BOOLEAN
  BY ConfsAssumption DEF Init, ConfType
<1>2. thr \in [Tids -> ThreadType]
  BY IdleType DEF Init
<1>3. Typed
  BY <1>1, <1>2 DEF Init, Typed
<1>4. \A t \in Tids : thr[t].at = "idle" /\ thr[t].add = {} /\ thr[t].x[1] = "mta"
  BY DEF Init, Idle
<1>5. Working /\ Progress
  BY <1>4 DEF Working, Progress
<1>6. MainRoots
  BY DEF Init, MainRoots
<1>7. ThreadRoots
  BY <1>4 DEF Init, ThreadRoots, Missing, Empty
<1> QED
  BY <1>3, <1>5, <1>6, <1>7 DEF RootsInv

--------------------------------------------------------------------------------
(* The market day.                                                         *)

LEMMA DirectoriesType ==
    ASSUME Typed, NEW m \in Markets, set_directories(m)
    PROVE  dirs' \in [Sources -> SUBSET Dirs]
<1> DEFINE others == [s \in Sources |-> IF s \in conf.read \ {"trade"} THEN Listed(s, m) ELSE dirs[s]]
           trade  == CASE nbbo_trade -> others["nbbo"]
                       [] ~ nbbo_trade /\ {"trade", "quote"} \cap conf.given # {} -> conf.mktDirs["trade"][m]
                       [] OTHER -> DefaultDirs["nbbo"][m]
<1>1. dirs' = [others EXCEPT !["trade"] = IF "trade" \in conf.read THEN trade ELSE @]
  BY DEF set_directories
<1>2. conf.mktDirs \in [Sources -> [Markets -> SUBSET Dirs]]
  BY DEF Typed, ConfType
<1>3. \A s \in Sources : KindOf[s] \in Kinds
  BY DEF KindOf, Kinds, Sources
<1>4. \A s \in Sources : Listed(s, m) \in SUBSET Dirs
  BY <1>2, <1>3, DefaultAssumption DEF Listed
<1>5. others \in [Sources -> SUBSET Dirs]
  BY <1>4 DEF Typed
<1>6. "nbbo" \in Kinds /\ "nbbo" \in Sources /\ "trade" \in Sources
  BY DEF Kinds, Sources
<1>7. trade \in SUBSET Dirs
  BY <1>2, <1>5, <1>6, DefaultAssumption DEF Typed
<1> HIDE DEF others, trade
<1> QED
  BY <1>1, <1>5, <1>7

LEMMA RootsBeginMarketDay ==
    ASSUME RootsInv, NEW m \in Markets, BeginMarketDay(m)
    PROVE  RootsInv'
<1>1. /\ phase = "between" /\ phase' = "tickers" /\ set_directories(m)
      /\ ta' = [s \in Sources |-> IF s \in conf.read THEN ta[s] \cup dirs'[s] ELSE ta[s]]
      /\ UNCHANGED <<conf, nbbo_trade, mta, mts, lock, thr>>
  BY DEF BeginMarketDay
<1>2. \A t \in Tids : thr[t].at = "idle" /\ thr[t].add = {}
  BY <1>1 DEF RootsInv, Working, Progress
<1>3. \A t \in Tids, s \in Sources : t \notin DOMAIN mta[s]
  BY <1>1 DEF RootsInv, ThreadRoots
<1>4. \A s \in Sources : ta[s] = {}
  BY <1>1 DEF RootsInv, MainRoots
<1>5. Typed'
  BY <1>1, DirectoriesType DEF RootsInv, Typed
<1>6. Working'
  BY <1>1, <1>2 DEF Working
<1>7. MainRoots'
  BY <1>1, <1>4 DEF MainRoots
<1>8. ThreadRoots'
  BY <1>1, <1>2, <1>3 DEF ThreadRoots, Missing
<1>9. Progress'
  BY <1>1 DEF RootsInv, Progress, MultiThread
<1> QED
  BY <1>5, <1>6, <1>7, <1>8, <1>9 DEF RootsInv

LEMMA RootsEndMarketDay ==
    ASSUME RootsInv, EndMarketDay
    PROVE  RootsInv'
<1>1. /\ \A t \in Tids : thr[t].at = "idle"
      /\ phase' = "between"
      /\ ta' = [s \in Sources |-> {}] /\ mta' = [s \in Sources |-> Empty]
      /\ UNCHANGED <<conf, nbbo_trade, dirs, thr>>
  BY DEF EndMarketDay
<1>2. \A t \in Tids : thr[t].add = {}
  BY <1>1 DEF RootsInv, Progress
<1>3. Typed' /\ Working' /\ MainRoots'
  BY <1>1 DEF RootsInv, Typed, Working, MainRoots
<1>4. ThreadRoots'
  BY <1>1, <1>2 DEF ThreadRoots, Missing, Empty
<1>5. Progress'
  BY <1>1, <1>2 DEF Progress
<1> QED
  BY <1>3, <1>4, <1>5 DEF RootsInv

--------------------------------------------------------------------------------
(* A thread's steps.                                                       *)

(* A step of thread t that leaves the readers alone: only what t itself    *)
(* has to satisfy remains to be shown.                                     *)
LEMMA ThreadFrame ==
    ASSUME RootsInv, NEW t \in Tids, NEW th \in ThreadType,
           thr' = [thr EXCEPT ![t] = th], UNCHANGED <<state, mta>>,
           th.at # "idle" =>
               /\ phase = "tickers"
               /\ th.x[2] \in th.left /\ th.left \subseteq conf.read
               /\ th.at # "read" => MultiThread,
           th.add = {} \/ (th.x[1] = "mta" /\ th.add = dirs[th.x[2]]),
           th.at \notin {"insert", "inserting", "end"} => th.add = {},
           MultiThread /\ th.at # "idle" /\ (th.at = "read" \/ th.x[1] = "mts")
               => t \in DOMAIN mta[th.x[2]],
           \A s \in Sources : t \in DOMAIN mta[s] => mta[s][t] = dirs[s]
    PROVE  RootsInv'
<1>1. /\ thr'[t] = th /\ \A u \in Tids \ {t} : thr'[u] = thr[u]
      /\ UNCHANGED <<conf, nbbo_trade, phase, dirs, ta, mta>>
  BY DEF RootsInv, Typed, state
<1>2. Typed'
  BY <1>1 DEF RootsInv, Typed, state
<1>3. Working'
  BY <1>1 DEF RootsInv, Working, MultiThread
<1>4. MainRoots'
  BY <1>1 DEF RootsInv, MainRoots
<1>5. th.x[1] \in {"mta", "mts"} /\ th.x[2] \in Sources /\ th.x = <<th.x[1], th.x[2]>>
  BY MapPairs DEF ThreadType
<1>6. ThreadRoots'
  <2> SUFFICES ASSUME NEW u \in Tids, NEW s \in Sources
               PROVE  IF u \in DOMAIN mta[s]
                      THEN phase = "tickers" /\ mta[s][u] \cup Missing(u, s)' = dirs[s]
                      ELSE Missing(u, s)' \in {{}, dirs[s]}
    BY <1>1 DEF ThreadRoots
  <2>1. CASE u # t
    BY <1>1, <2>1 DEF RootsInv, ThreadRoots, Missing
  <2>2. CASE u = t
    <3>1. Missing(t, s)' \in {{}, dirs[s]}
      BY <1>1, <1>5 DEF Missing
    <3>2. t \in DOMAIN mta[s] => phase = "tickers" /\ mta[s][t] = dirs[s]
      BY DEF RootsInv, ThreadRoots
    <3> QED BY <2>2, <3>1, <3>2
  <2> QED BY <2>1, <2>2
<1>7. Progress'
  BY <1>1 DEF RootsInv, Progress, MultiThread
<1> QED
  BY <1>2, <1>3, <1>4, <1>6, <1>7 DEF RootsInv

(* Between two additions of roots the readers are complete.                *)
LEMMA CompleteReaders ==
    ASSUME RootsInv, NEW t \in Tids, thr[t].add = {}
    PROVE  \A s \in Sources : t \in DOMAIN mta[s] => mta[s][t] = dirs[s]
BY DEF RootsInv, ThreadRoots, Missing

LEMMA ProceedFrame ==
    ASSUME RootsInv, NEW t \in Tids, NEW left \in SUBSET conf.read, phase = "tickers",
           thr[t].add = {}, Proceed(t, left), UNCHANGED <<state, mta>>
    PROVE  RootsInv'
<1>1. \A s \in Sources : t \in DOMAIN mta[s] => mta[s][t] = dirs[s]
  BY CompleteReaders
<1>2. CASE left = {}
  <2>1. thr' = [thr EXCEPT ![t] = Idle]
    BY <1>2 DEF Proceed
  <2>2. Idle.at = "idle" /\ Idle.add = {}
    BY DEF Idle
  <2> QED
    BY <1>1, <2>1, <2>2, IdleType, ThreadFrame
<1>3. CASE left # {}
  <2> DEFINE at == IF MultiThread THEN "find" ELSE "read"
             th == [at |-> at, x |-> <<"mta", FirstOf(left)>>, left |-> left,
                    add |-> {}, again |-> FALSE]
  <2>1. left \subseteq Sources
    BY DEF RootsInv, Typed, ConfType
  <2>2. FirstOf(left) \in left /\ FirstOf(left) \in Sources
    BY <1>3, <2>1, SourceOrder
  <2>3. th \in ThreadType
    BY <2>1, <2>2 DEF ThreadType, Steps, Maps
  <2>4. thr' = [thr EXCEPT ![t] = th]
    BY <1>3 DEF Proceed
  <2>5. /\ th.at = at /\ th.x[1] = "mta" /\ th.x[2] = FirstOf(left)
        /\ th.left = left /\ th.add = {}
    OBVIOUS
  <2>6. at \in {"find", "read"} /\ (MultiThread <=> at = "find")
    OBVIOUS
  <2> HIDE DEF th, at
  <2> QED
    BY <1>1, <2>2, <2>3, <2>4, <2>5, <2>6, ThreadFrame
<1> QED
  BY <1>2, <1>3

LEMMA RootsBeginTicker ==
    ASSUME RootsInv, NEW t \in Tids, BeginTicker(t)
    PROVE  RootsInv'
<1>1. /\ phase = "tickers" /\ thr[t].at = "idle" /\ Proceed(t, conf.read)
      /\ UNCHANGED <<state, mta>>
  BY DEF BeginTicker
<1>2. thr[t].add = {}
  BY <1>1 DEF RootsInv, Progress
<1> QED
  BY <1>1, <1>2, ProceedFrame

LEMMA RootsRead ==
    ASSUME RootsInv, NEW t \in Tids, Read(t)
    PROVE  RootsInv'
<1>1. /\ thr[t].at = "read" /\ Proceed(t, thr[t].left \ {thr[t].x[2]})
      /\ UNCHANGED <<state, mta>>
  BY DEF Read
<1>2. thr[t].add = {} /\ phase = "tickers" /\ thr[t].left \subseteq conf.read
  BY <1>1 DEF RootsInv, Progress, Working
<1> QED
  BY <1>1, <1>2, ProceedFrame

(* What is known of a thread at work that is not reading.                  *)
LEMMA AtWork ==
    ASSUME RootsInv, NEW t \in Tids, thr[t].at \notin {"idle", "read"}
    PROVE  /\ thr[t] \in ThreadType /\ phase = "tickers" /\ MultiThread
           /\ thr[t].x[2] \in thr[t].left /\ thr[t].left \subseteq conf.read
           /\ thr[t].x[1] \in {"mta", "mts"} /\ thr[t].x[2] \in Sources
           /\ thr[t].x = <<thr[t].x[1], thr[t].x[2]>>
           /\ thr[t].x[1] = "mts" => thr[t].add = {} /\ t \in DOMAIN mta[thr[t].x[2]]
           /\ thr[t].at \notin {"insert", "inserting", "end"} => thr[t].add = {}
           /\ thr[t].add = {} \/ (thr[t].x[1] = "mta" /\ thr[t].add \subseteq Dirs)
<1>1. thr[t] \in ThreadType
  BY DEF RootsInv, Typed
<1>2. thr[t].x \in Maps
  BY <1>1 DEF ThreadType
<1>3. thr[t].add \subseteq Dirs
  BY <1>1 DEF ThreadType
<1> QED
  BY <1>1, <1>2, <1>3, MapPairs DEF RootsInv, Working, Progress

LEMMA RootsStartFind ==
    ASSUME RootsInv, NEW t \in Tids, StartFind(t)
    PROVE  RootsInv'
<1> DEFINE th == [thr[t] EXCEPT !.at = "finding"]
<1>1. /\ thr[t].at = "find" /\ UNCHANGED <<state, mta>>
      /\ thr' = [thr EXCEPT ![t] = th]
  BY DEF StartFind
<1>2. th \in ThreadType
  BY <1>1, AtWork DEF ThreadType, Steps
<1>3. th.at = "finding" /\ th.x = thr[t].x /\ th.left = thr[t].left /\ th.add = thr[t].add
  BY <1>1, AtWork DEF ThreadType
<1> HIDE DEF th
<1>4. thr[t].add = {}
  BY <1>1, AtWork
<1> QED
  BY <1>1, <1>2, <1>3, <1>4, AtWork, CompleteReaders, ThreadFrame

LEMMA RootsFind ==
    ASSUME RootsInv, NEW t \in Tids, Find(t)
    PROVE  RootsInv'
<1> DEFINE s  == thr[t].x[2]
           th == IF thr[t].x[1] = "mta"
                 THEN [thr[t] EXCEPT !.at = "find", !.x = <<"mts", s>>, !.again = FALSE]
                 ELSE [thr[t] EXCEPT !.at = "read", !.again = FALSE]
<1>1. thr[t].at = "finding" /\ HasEntry(thr[t].x, t) /\ UNCHANGED <<state, mta>>
  BY DEF Find
<1>2. thr[t].add = {} /\ s \in Sources /\ thr[t] \in ThreadType
  BY <1>1, AtWork
<1>3. thr' = [thr EXCEPT ![t] = th]
  BY <1>2 DEF Find, At, ThreadType
<1>4. th \in ThreadType
  BY <1>2 DEF ThreadType, Steps, Maps
<1>5. t \in DOMAIN mta[s]
  BY <1>1, AtWork DEF HasEntry
<1>6. /\ th.at \in {"find", "read"} /\ th.x[2] = s /\ th.left = thr[t].left /\ th.add = {}
  BY <1>2 DEF ThreadType
<1>7. phase = "tickers" /\ MultiThread /\ s \in thr[t].left /\ thr[t].left \subseteq conf.read
  BY <1>1, AtWork
<1> HIDE DEF th
<1> QED
  BY <1>1, <1>2, <1>3, <1>4, <1>5, <1>6, <1>7, CompleteReaders, ThreadFrame

LEMMA RootsFindNothing ==
    ASSUME RootsInv, NEW t \in Tids, FindNothing(t)
    PROVE  RootsInv'
<1> DEFINE x   == thr[t].x
           add == IF x[1] = "mta" THEN dirs[x[2]] ELSE {}
           at  == IF x[1] = "mta" /\ (thr[t].again \/ add = {}) THEN "end" ELSE "insert"
           th  == [thr[t] EXCEPT !.add = add, !.at = at]
<1>1. thr[t].at = "finding" /\ UNCHANGED <<state, mta>> /\ thr' = [thr EXCEPT ![t] = th]
  BY DEF FindNothing
<1>2. /\ thr[t].add = {} /\ x[2] \in Sources /\ thr[t] \in ThreadType
      /\ x[1] \in {"mta", "mts"} /\ (x[1] = "mts" => t \in DOMAIN mta[x[2]])
      /\ phase = "tickers" /\ MultiThread
      /\ x[2] \in thr[t].left /\ thr[t].left \subseteq conf.read
  BY <1>1, AtWork
<1>3. add \in SUBSET Dirs /\ at \in {"end", "insert"}
  BY <1>2 DEF RootsInv, Typed
<1>4. add = {} \/ (x[1] = "mta" /\ add = dirs[x[2]])
  OBVIOUS
<1> HIDE DEF add, at
<1>5. th \in ThreadType
  BY <1>2, <1>3 DEF ThreadType, Steps
<1>6. th.at = at /\ th.x = x /\ th.left = thr[t].left /\ th.add = add
  BY <1>2 DEF ThreadType
<1> HIDE DEF th, x
<1> QED
  BY <1>1, <1>2, <1>3, <1>4, <1>5, <1>6, CompleteReaders, ThreadFrame DEF x

LEMMA RootsLock ==
    ASSUME RootsInv, NEW t \in Tids, Lock(t)
    PROVE  RootsInv'
<1>1. thr[t].at = "insert" /\ thr' = [thr EXCEPT ![t].at = "inserting"] /\ UNCHANGED <<state, mta>>
  BY DEF Lock
<1>2. /\ thr'[t] = [thr[t] EXCEPT !.at = "inserting"] /\ \A u \in Tids \ {t} : thr'[u] = thr[u]
      /\ thr[t] \in ThreadType /\ UNCHANGED <<conf, nbbo_trade, phase, dirs, ta, mta>>
  BY <1>1, AtWork DEF RootsInv, Typed, state
<1>3. /\ thr'[t].at = "inserting" /\ thr'[t].x = thr[t].x /\ thr'[t].left = thr[t].left
      /\ thr'[t].add = thr[t].add
  BY <1>2 DEF ThreadType
<1>4. Typed'
  BY <1>1, <1>2 DEF RootsInv, Typed, ThreadType, Steps
<1>5. Working' /\ MainRoots'
  BY <1>1, <1>2, <1>3 DEF RootsInv, Working, MainRoots, MultiThread
<1>6. ThreadRoots'
  <2>1. \A u \in Tids, s \in Sources : Missing(u, s)' = Missing(u, s)
    BY <1>2, <1>3 DEF Missing
  <2> QED BY <1>2, <2>1 DEF RootsInv, ThreadRoots
<1>7. Progress'
  BY <1>1, <1>2, <1>3 DEF RootsInv, Progress, MultiThread
<1> QED
  BY <1>4, <1>5, <1>6, <1>7 DEF RootsInv

LEMMA RootsMakeSeries ==
    ASSUME RootsInv, NEW t \in Tids, MakeSeries(t)
    PROVE  RootsInv'
<1> DEFINE th == [thr[t] EXCEPT !.at = "read", !.again = FALSE]
<1>1. thr[t].at = "inserting" /\ thr[t].x[1] = "mts" /\ UNCHANGED <<state, mta>>
  BY DEF MakeSeries
<1>2. /\ thr[t] \in ThreadType /\ thr[t].add = {} /\ t \in DOMAIN mta[thr[t].x[2]]
      /\ phase = "tickers" /\ MultiThread
      /\ thr[t].x[2] \in thr[t].left /\ thr[t].left \subseteq conf.read
  BY <1>1, AtWork
<1>3. thr' = [thr EXCEPT ![t] = th]
  BY <1>2 DEF MakeSeries, At, ThreadType
<1>4. th \in ThreadType
  BY <1>2 DEF ThreadType, Steps
<1>5. th.at = "read" /\ th.x = thr[t].x /\ th.left = thr[t].left /\ th.add = {}
  BY <1>2 DEF ThreadType
<1> HIDE DEF th
<1> QED
  BY <1>1, <1>2, <1>3, <1>4, <1>5, CompleteReaders, ThreadFrame

LEMMA RootsAddRoot ==
    ASSUME RootsInv, NEW t \in Tids, NEW d \in Dirs, AddRoot(t, d)
    PROVE  RootsInv'
<1> DEFINE s   == thr[t].x[2]
           old == IF t \in DOMAIN mta[s] THEN mta[s][t] ELSE {}
           at  == IF thr[t].add = {d} THEN "find" ELSE "insert"
           add == thr[t].add \ {d}
           readers == [u \in DOMAIN mta[s] \cup {t} |-> IF u = t THEN old \cup {d} ELSE mta[s][u]]
<1>1. /\ thr[t].at = "inserting" /\ thr[t].x[1] = "mta" /\ d \in thr[t].add
      /\ UNCHANGED state
  BY DEF AddRoot
<1>2. /\ thr[t] \in ThreadType /\ phase = "tickers" /\ MultiThread
      /\ s \in thr[t].left /\ thr[t].left \subseteq conf.read
      /\ s \in Sources /\ thr[t].x = <<"mta", s>>
  BY <1>1, AtWork
<1>3. mta' = [mta EXCEPT ![s] = readers]
  BY DEF AddRoot
<1>4. thr' = [thr EXCEPT ![t] = [thr[t] EXCEPT !.add = add, !.again = TRUE, !.at = at]]
  BY <1>2 DEF AddRoot, ThreadType, RootsInv, Typed
<1>5. at \in {"find", "insert"} /\ (at = "find" => add = {})
  OBVIOUS
<1>6. old \cup {d} \cup add = dirs[s]
  <2>1. Missing(t, s) = thr[t].add
    BY <1>2 DEF Missing
  <2>2. CASE t \in DOMAIN mta[s]
    <3>1. mta[s][t] \cup thr[t].add = dirs[s]
      BY <1>2, <2>1, <2>2 DEF RootsInv, ThreadRoots
    <3> QED BY <1>1, <2>2, <3>1
  <2>3. CASE t \notin DOMAIN mta[s]
    <3>1. thr[t].add = dirs[s]
      BY <1>1, <1>2, <2>1, <2>3 DEF RootsInv, ThreadRoots
    <3> QED BY <1>1, <2>3, <3>1
  <2> QED BY <2>2, <2>3
<1>7. DOMAIN readers = DOMAIN mta[s] \cup {t} /\ readers[t] = old \cup {d}
  OBVIOUS
<1>8. \A u \in DOMAIN mta[s] \ {t} : readers[u] = mta[s][u]
  OBVIOUS
<1>9. add \subseteq Dirs
  BY <1>2 DEF ThreadType
<1> HIDE DEF old, at, add, readers
<1>10. /\ thr'[t].at = at /\ thr'[t].x = thr[t].x /\ thr'[t].left = thr[t].left
       /\ thr'[t].add = add /\ thr'[t] \in ThreadType
       /\ \A u \in Tids \ {t} : thr'[u] = thr[u]
       /\ thr' \in [Tids -> ThreadType]
  BY <1>2, <1>4, <1>5, <1>9 DEF RootsInv, Typed, ThreadType, Steps
<1>11. UNCHANGED <<conf, nbbo_trade, phase, dirs, ta>>
  BY <1>1 DEF state
<1>12. /\ DOMAIN mta' = Sources /\ mta'[s] = readers
       /\ \A q \in Sources \ {s} : mta'[q] = mta[q]
  BY <1>2, <1>3 DEF RootsInv, Typed
<1>13. Typed' /\ MainRoots'
  BY <1>10, <1>11, <1>12 DEF RootsInv, Typed, MainRoots
<1>14. Working'
  BY <1>2, <1>5, <1>10, <1>11 DEF RootsInv, Working, MultiThread
<1>15. ThreadRoots'
  <2> SUFFICES ASSUME NEW u \in Tids, NEW q \in Sources
               PROVE  IF u \in DOMAIN mta'[q]
                      THEN phase = "tickers" /\ mta'[q][u] \cup Missing(u, q)' = dirs[q]
                      ELSE Missing(u, q)' \in {{}, dirs[q]}
    BY <1>11 DEF ThreadRoots
  <2>1. IF u \in DOMAIN mta[q]
        THEN phase = "tickers" /\ mta[q][u] \cup Missing(u, q) = dirs[q]
        ELSE Missing(u, q) \in {{}, dirs[q]}
    BY DEF RootsInv, ThreadRoots
  <2>2. CASE u = t /\ q = s
    BY <1>2, <1>6, <1>7, <1>10, <1>12, <2>2 DEF Missing
  <2>3. CASE u = t /\ q # s
    <3>1. Missing(t, q)' = {} /\ Missing(t, q) = {}
      BY <1>2, <1>10, <2>3 DEF Missing
    <3> QED BY <1>12, <2>1, <2>3, <3>1
  <2>4. CASE u # t
    <3>1. Missing(u, q)' = Missing(u, q)
      BY <1>10, <2>4 DEF Missing
    <3>2. /\ u \in DOMAIN mta'[q] <=> u \in DOMAIN mta[q]
          /\ u \in DOMAIN mta[q] => mta'[q][u] = mta[q][u]
      BY <1>7, <1>8, <1>12, <2>4
    <3> QED BY <2>1, <3>1, <3>2
  <2> QED BY <2>2, <2>3, <2>4
<1>16. Progress'
  <2>1. \A u \in Tids, q \in Sources : u \in DOMAIN mta[q] => u \in DOMAIN mta'[q]
    BY <1>7, <1>12
  <2>2. \A u \in Tids : thr[u].x[2] \in Sources
    BY MapPairs DEF RootsInv, Typed, ThreadType
  <2> QED
    BY <1>1, <1>2, <1>5, <1>10, <1>11, <2>1, <2>2 DEF RootsInv, Progress, MultiThread
<1> QED
  BY <1>13, <1>14, <1>15, <1>16 DEF RootsInv

--------------------------------------------------------------------------------

LEMMA RootsNext == RootsInv /\ [Next]_vars => RootsInv'
<1> SUFFICES ASSUME RootsInv, [Next]_vars PROVE RootsInv'
  OBVIOUS
<1>1. ASSUME NEW m \in Markets, BeginMarketDay(m) PROVE RootsInv'
  BY <1>1, RootsBeginMarketDay
<1>2. CASE EndMarketDay
  BY <1>2, RootsEndMarketDay
<1>3. ASSUME NEW t \in Tids, BeginTicker(t) \/ Thread(t) PROVE RootsInv'
  <2>begin. CASE BeginTicker(t)
    BY <2>begin, RootsBeginTicker
  <2>2. CASE StartFind(t)
    BY <2>2, RootsStartFind
  <2>3. CASE Find(t)
    BY <2>3, RootsFind
  <2>nothing. CASE FindNothing(t)
    BY <2>nothing, RootsFindNothing
  <2>5. CASE Lock(t)
    BY <2>5, RootsLock
  <2>6. CASE MakeSeries(t)
    BY <2>6, RootsMakeSeries
  <2>read. CASE Read(t)
    BY <2>read, RootsRead
  <2>8. CASE \E d \in Dirs : AddRoot(t, d)
    BY <2>8, RootsAddRoot
  <2> QED
    BY <1>3, <2>begin, <2>2, <2>3, <2>nothing, <2>5, <2>6, <2>read, <2>8 DEF Thread
<1>4. CASE UNCHANGED vars
  BY <1>4 DEF RootsInv, Typed, Working, MainRoots, ThreadRoots, Progress, Missing, MultiThread, vars
<1> QED
  BY <1>1, <1>2, <1>3, <1>4 DEF Next

(***************************************************************************)
(* Whatever the markets, directories, sources read and threads, and        *)
(* however the unlocked searches race, a thread that reads a source has a  *)
(* reader whose roots are the directories set for the current market day.  *)
(***************************************************************************)
THEOREM RootsAreCurrent == Spec => []RootsCurrent
<1>1. RootsInv => RootsCurrent
  <2> SUFFICES ASSUME RootsInv, NEW t \in Tids, thr[t].at = "read"
               PROVE  Roots(t) = dirs[thr[t].x[2]]
    BY DEF RootsCurrent
  <2>1. /\ thr[t].add = {} /\ phase = "tickers" /\ thr[t].x[2] \in conf.read
        /\ thr[t].x[2] \in Sources
    BY MapPairs DEF RootsInv, Typed, Progress, Working, ThreadType
  <2>2. CASE MultiThread
    <3>1. t \in DOMAIN mta[thr[t].x[2]]
      BY <2>2 DEF RootsInv, Progress
    <3> QED BY <2>1, <2>2, <3>1, CompleteReaders DEF Roots
  <2>3. CASE ~ MultiThread
    BY <2>1, <2>3 DEF RootsInv, MainRoots, Roots
  <2> QED BY <2>2, <2>3
<1> QED
  BY <1>1, RootsInit, RootsNext, PTL DEF Spec

================================================================================
