---- MODULE MCoreProofs ----
(***************************************************************************)
(* The safety properties of the scheduler, that it implements              *)
(* ModuleLifecycle, and that it runs a market day once, for every list of  *)
(* modules, every setting and every number of tickers; then the objects    *)
(* that modules on this scheduler hand each other, for every list of       *)
(* modules, every setting, every list of tickers and every number of heap  *)
(* addresses.  The theorems about Spec, the scheduler alone, cite no       *)
(* assumption on the constants of Blackboard.                              *)
(***************************************************************************)
EXTENDS MCoreProperties, MCoreLifecycle, Blackboard, TLAPS, FiniteSetTheorems, SequenceTheorems

------------------------
(* The slices of MCore::loop_tickers_thread partition the ticker vector    *)
(* for every number of tickers, every number of threads and every chunk    *)
(* length, rounded by the float division or not: no ticker is skipped and  *)
(* none is given to two threads.                                           *)

(* A later thread starts no earlier than the previous one may end.         *)
LEMMA OffsetMonotone ==
    ASSUME NEW c \in Nat, NEW i \in Nat, NEW j \in Nat, i < j
    PROVE  (i + 1) * c <= j * c
<1>1. PICK d \in Nat : j = (i + 1) + d
  <2>1. j - (i + 1) \in Nat /\ j = (i + 1) + (j - (i + 1))
    OBVIOUS
  <2>. QED  BY <2>1
<1>2. j * c = (i + 1) * c + d * c
  BY <1>1
<1>3. d * c \in Nat /\ (i + 1) * c \in Nat
  OBVIOUS
<1>. QED  BY <1>2, <1>3

LEMMA Division ==
    ASSUME NEW a \in Nat, NEW b \in Nat \ {0}
    PROVE  a \div b \in Nat /\ a % b \in 0 .. b - 1 /\ a = (a \div b) * b + (a % b)
<1>1. a \div b \in Nat
  OBVIOUS
<1>2. a % b \in 0 .. b - 1
  OBVIOUS
<1>3. a = b * (a \div b) + (a % b)
  OBVIOUS
<1>4. b * (a \div b) = (a \div b) * b
  BY <1>1
<1>. QED  BY <1>1, <1>2, <1>3, <1>4

(* Two different threads never share a position.                           *)
LEMMA SlicesOrdered ==
    ASSUME NEW n \in Nat, NEW T \in Nat \ {0}, NEW c \in Nat,
           NEW i \in 0 .. T - 1, NEW j \in 0 .. T - 1, i < j
    PROVE  Slice(n, T, c, i) \cap Slice(n, T, c, j) = {}
<1>1. (i + 1) * c <= j * c
  BY OffsetMonotone
<1>2. (i + 1) * c \in Nat /\ j * c \in Nat /\ i * c \in Nat
  OBVIOUS
<1>3. i # T - 1
  OBVIOUS
<1>4. CASE (i + 1) * c > n
  BY <1>1, <1>2, <1>4 DEF Slice, Offset1
<1>5. CASE ~ ((i + 1) * c > n)
  <2>1. Offset2(n, T, c, i) = (i + 1) * c
    BY <1>3, <1>5 DEF Offset2
  <2>2. \A p \in Slice(n, T, c, i) : p \in Int /\ p < (i + 1) * c
    BY <1>2, <2>1 DEF Slice, Offset1
  <2>3. Offset2(n, T, c, j) \in Int
    BY <1>2 DEF Offset2
  <2>4. \A p \in Slice(n, T, c, j) : p >= j * c
    BY <1>2, <2>3 DEF Slice, Offset1
  <2>. QED  BY <1>1, <1>2, <2>2, <2>4
<1>. QED  BY <1>4, <1>5

(***************************************************************************)
(* Theorem: the slices of two different ticker threads are disjoint, so no *)
(* ticker is processed by two threads of loop_tickers.                     *)
(***************************************************************************)
THEOREM SlicesDisjoint ==
    ASSUME NEW n \in Nat, NEW T \in Nat \ {0}, NEW c \in Nat,
           NEW i \in 0 .. T - 1, NEW j \in 0 .. T - 1, i # j
    PROVE  Slice(n, T, c, i) \cap Slice(n, T, c, j) = {}
<1>1. CASE i < j
  BY <1>1, SlicesOrdered
<1>2. CASE j < i
  BY <1>2, SlicesOrdered
<1>. QED  BY <1>1, <1>2

(***************************************************************************)
(* Theorem: every position of the ticker vector is in the slice of some    *)
(* thread, whatever chunk length the division produced: a chunk too short  *)
(* is made up for by the last thread, which always runs to the end.        *)
(***************************************************************************)
THEOREM SlicesCover ==
    ASSUME NEW n \in Nat, NEW T \in Nat \ {0}, NEW c \in Nat,
           NEW p \in 0 .. n - 1
    PROVE  \E i \in 0 .. T - 1 : p \in Slice(n, T, c, i)
<1>1. CASE (T - 1) * c <= p
  <2>1. T - 1 \in 0 .. T - 1 /\ (T - 1) * c \in Int
    OBVIOUS
  <2>2. Offset2(n, T, c, T - 1) = n
    BY DEF Offset2
  <2>3. p \in Slice(n, T, c, T - 1)
    BY <1>1, <2>1, <2>2 DEF Slice, Offset1
  <2>. QED  BY <2>1, <2>3
<1>2. CASE p < (T - 1) * c
  <2>1. c > 0
    <3>1. c = 0 => (T - 1) * c = 0
      OBVIOUS
    <3>. QED  BY <1>2, <3>1
  <2>2. PICK q \in Nat, r \in 0 .. c - 1 : p = q * c + r
    <3>1. p \div c \in Nat /\ p % c \in 0 .. c - 1 /\ p = (p \div c) * c + (p % c)
      BY <2>1, Division
    <3>. QED  BY <3>1
  <2>3. q < T - 1
    <3>1. SUFFICES ASSUME T - 1 <= q PROVE FALSE
      OBVIOUS
    <3>2. PICK d \in Nat : q = (T - 1) + d
      <4>1. q - (T - 1) \in Nat /\ q = (T - 1) + (q - (T - 1))
        BY <3>1
      <4>. QED  BY <4>1
    <3>3. q * c = (T - 1) * c + d * c /\ d * c \in Nat
      BY <3>2
    <3>. QED  BY <1>2, <2>2, <3>3
  <2>4. q * c \in Nat /\ (q + 1) * c = q * c + c
    OBVIOUS
  <2>5. p < Offset2(n, T, c, q) /\ Offset2(n, T, c, q) \in Int
    BY <2>2, <2>4 DEF Offset2
  <2>6. Offset1(c, q) <= p /\ Offset1(c, q) \in Int
    BY <2>2, <2>4 DEF Offset1
  <2>7. p \in Slice(n, T, c, q)
    BY <2>5, <2>6 DEF Slice
  <2>. QED  BY <2>3, <2>7
<1>3. (T - 1) * c \in Int
  OBVIOUS
<1>. QED  BY <1>1, <1>2, <1>3

(***************************************************************************)
(* Theorem: a slice never reaches outside the ticker vector, so the        *)
(* iterators itFrom and itTo of loop_tickers_thread stay in range.         *)
(***************************************************************************)
THEOREM SliceInRange ==
    ASSUME NEW n \in Nat, NEW T \in Nat \ {0}, NEW c \in Nat, NEW i \in 0 .. T - 1
    PROVE  /\ Slice(n, T, c, i) \subseteq 0 .. n - 1
           /\ Offset1(c, i) \in Nat
           /\ Offset2(n, T, c, i) \in 0 .. n
<1>1. i * c \in Nat /\ (i + 1) * c \in Nat
  OBVIOUS
<1>2. Offset1(c, i) \in Nat
  BY <1>1 DEF Offset1
<1>3. Offset2(n, T, c, i) \in 0 .. n
  BY <1>1 DEF Offset2
<1>. QED  BY <1>2, <1>3 DEF Slice

------------------------
(* Type correctness.                                                       *)

(* What type correctness needs besides: init walks the configuration, and  *)
(* without multiThreadTicker no thread is ever created.                    *)
TypeInv ==
    /\ TypeOK
    /\ pc = "init" => k \in Mods
    /\ ~ conf.multiThreadTicker => \A i \in Threads : thr[i].at # "created"

LEMMA BlockType ==
    ASSUME TypeOK
    PROVE  /\ block \in Seq(Nat \cup {-1}) /\ NModules \in Nat \ {0}
           /\ \A m \in Mods : block[m] \in Nat \cup {-1}
BY BlocksAssumption DEF TypeOK, NModules, Mods

LEMMA ConfFields ==
    ASSUME TypeOK
    PROVE  /\ conf \in ConfType
           /\ conf.nMarkets \in Nat /\ conf.nIdates \in Nat /\ conf.nTickersDebug \in Nat
           /\ conf.nMaxThreadTicker \in Nat
           /\ conf.multiThreadTicker \in BOOLEAN /\ conf.multiThreadModule \in BOOLEAN
           /\ NLoop \in Nat
           /\ Threads \subseteq Nat
<1>1. conf \in ConfType
  BY ConfsAssumption DEF TypeOK
<1>2. NLoop \in Nat
  BY <1>1 DEF TypeOK, ConfType, NLoop
<1>. QED  BY <1>1, <1>2 DEF ConfType, Threads

Entry == [ord : Nat, id : Nat]

LEMMA InsertType ==
    ASSUME NEW entries \in Seq(Entry), NEW e \in Entry
    PROVE  Insert(entries, e) \in Seq(Entry)
<1> DEFINE P == {j \in DOMAIN entries : entries[j].ord <= e.ord}
           n == Cardinality(P)
<1>1. IsFiniteSet(1 .. Len(entries)) /\ Cardinality(1 .. Len(entries)) = Len(entries)
  <2>1. Len(entries) \in Nat
    OBVIOUS
  <2>2. IsFiniteSet(1 .. Len(entries))
        /\ Cardinality(1 .. Len(entries)) = IF 1 > Len(entries) THEN 0 ELSE Len(entries) - 1 + 1
    BY <2>1, FS_Interval
  <2>. QED  BY <2>1, <2>2
<1>2. n \in Nat /\ n <= Len(entries)
  <2>1. P \subseteq 1 .. Len(entries)
    OBVIOUS
  <2>2. IsFiniteSet(P) /\ n <= Cardinality(1 .. Len(entries))
    BY <1>1, <2>1, FS_Subset
  <2>. QED  BY <1>1, <2>2, FS_CardinalityType
<1>3. Insert(entries, e) = SubSeq(entries, 1, n) \o <<e>> \o SubSeq(entries, n + 1, Len(entries))
  BY DEF Insert
<1> HIDE DEF n
<1>4. SubSeq(entries, 1, n) \in Seq(Entry)
  <2>1. \A i \in 1 .. n : entries[i] \in Entry
    BY <1>2
  <2>. QED  BY <1>2, <2>1, SubSeqProperties
<1>5. SubSeq(entries, n + 1, Len(entries)) \in Seq(Entry)
  <2>1. \A i \in n + 1 .. Len(entries) : entries[i] \in Entry
    BY <1>2
  <2>. QED  BY <1>2, <2>1, SubSeqProperties
<1>6. <<e>> \in Seq(Entry)
  OBVIOUS
<1>7. SubSeq(entries, 1, n) \o <<e>> \in Seq(Entry)
  BY <1>4, <1>6, ConcatProperties
<1>. QED  BY <1>3, <1>5, <1>7, ConcatProperties

(* An entry with the largest key so far goes to the end.                   *)
LEMMA InsertLast ==
    ASSUME NEW entries \in Seq(Entry), NEW e \in Entry,
           \A j \in 1 .. Len(entries) : entries[j].ord <= e.ord
    PROVE  Insert(entries, e) = Append(entries, e)
<1>1. {j \in DOMAIN entries : entries[j].ord <= e.ord} = 1 .. Len(entries)
  OBVIOUS
<1>2. Cardinality(1 .. Len(entries)) = Len(entries)
  <2>1. Len(entries) \in Nat
    OBVIOUS
  <2>. QED  BY <2>1, FS_Interval
<1>3. Insert(entries, e) = SubSeq(entries, 1, Len(entries)) \o <<e>> \o SubSeq(entries, Len(entries) + 1, Len(entries))
  BY <1>1, <1>2 DEF Insert
<1>4. SubSeq(entries, 1, Len(entries)) = entries
  BY SubSeqFull
<1>5. SubSeq(entries, Len(entries) + 1, Len(entries)) = <<>>
  BY SubSeqEmpty
<1>6. entries \o <<e>> \in Seq(Entry) /\ entries \o <<e>> = Append(entries, e)
  OBVIOUS
<1>. QED  BY <1>3, <1>4, <1>5, <1>6, ConcatEmptySeq

LEMMA TypeInit == Init => TypeInv
<1> SUFFICES ASSUME Init PROVE TypeInv
  OBVIOUS
<1>1. block \in Seq(Nat \cup {-1}) /\ NModules \in Nat \ {0}
  BY BlocksAssumption DEF Init, NModules
<1>2. conf \in ConfType
  BY ConfsAssumption DEF Init
<1>3. TypeOK
  BY <1>1, <1>2, TickersAssumption DEF Init, TypeOK, ConfType, Locations, Callbacks, ThreadType, AtRest
<1>. QED  BY <1>1, <1>3 DEF Init, TypeInv, Mods, AtRest

LEMMA ThreadStartType ==
    ASSUME TypeOK, conf.multiThreadTicker, NEW i \in Threads
    PROVE  LET c == TickerEachThread(NLoop, conf.nMaxThreadTicker)
           IN  /\ c \in Nat
               /\ Offset1(c, i) \in Nat
               /\ Offset2(NLoop, conf.nMaxThreadTicker, c, i) \in 0 .. NLoop
<1> DEFINE T == conf.nMaxThreadTicker
           c == TickerEachThread(NLoop, T)
<1>1. T \in Nat \ {0} /\ i \in 0 .. T - 1 /\ NLoop \in Nat
  BY ConfFields DEF Threads
<1>2. c \in Nat
  <2>1. \A a \in Nat, b \in Nat \ {0} : a \div b \in Nat
    OBVIOUS
  <2>2. NLoop + T - 1 \in Nat
    BY <1>1
  <2>. QED  BY <1>1, <2>1, <2>2 DEF TickerEachThread
<1> HIDE DEF T, c
<1>3. Offset1(c, i) \in Nat /\ Offset2(NLoop, T, c, i) \in 0 .. NLoop
  BY <1>1, <1>2, SliceInRange
<1>. QED  BY <1>2, <1>3 DEF T, c

(* Where the loop over dates goes on, its date is one of the configured.    *)
LEMMA NextDayType ==
    ASSUME TypeOK, NextDay
    PROVE  /\ pc' \in {"beginDay", "endMarket", "endJob"} /\ k' = 1
           /\ idate' \in 0 .. conf.nIdates /\ UNCHANGED <<market, nTickers>>
<1>1. idate \in 0 .. conf.nIdates /\ conf.nIdates \in Nat
  BY ConfFields DEF TypeOK, ConfType
<1>. QED  BY <1>1 DEF NextDay, EnterIdates, Goto

(* The parts of the state an action leaves alone keep their type.          *)
LEMMA TypeNext == TypeInv /\ [Next]_vars => TypeInv'
<1> SUFFICES ASSUME TypeInv, [Next]_vars PROVE TypeInv'
  OBVIOUS
<1> USE DEF TypeInv
<1>1. UNCHANGED <<block, conf>> => Threads' = Threads /\ Mods' = Mods /\ NModules' = NModules
  BY DEF Threads, Mods, NModules
<1>2. NModules \in Nat \ {0} /\ \A m \in Mods : block[m] \in Nat \cup {-1}
  BY BlockType
<1>3. conf.nMarkets \in Nat /\ conf.nIdates \in Nat /\ NLoop \in Nat /\ conf.nMaxThreadTicker \in Nat
      /\ conf.loopingOrder \in {"mdt", "dmt"} /\ conf.multiThreadTicker \in BOOLEAN
  BY ConfFields DEF ConfType
<1>4. CASE InitModule
  <2>1. execOrder' \in Nat /\ k \in Nat
    BY <1>2, <1>4 DEF InitModule, TypeOK
  <2>2. modules' \in Seq(Entry)
    BY <2>1, <1>4, InsertType DEF InitModule, TypeOK, Entry
  <2>3. k' \in Nat /\ pc' \in Locations /\ (pc' = "init" => k' \in Mods)
    BY <1>2, <1>4 DEF InitModule, TypeOK, Goto, Locations, Callbacks, Mods
  <2>. QED  BY <1>1, <1>4, <2>1, <2>2, <2>3 DEF InitModule, TypeOK, env, Entry
<1>5. CASE InitError
  BY <1>1, <1>5 DEF InitError, TypeOK, Goto, Locations, env
<1>6. CASE BeginJob
  BY <1>1, <1>2, <1>3, <1>6 DEF BeginJob, TypeOK, Goto, Locations, Callbacks, setup, EnterMarkets, EnterIdates
<1>7. CASE BeginMarket
  BY <1>1, <1>2, <1>3, <1>7 DEF BeginMarket, TypeOK, Goto, Locations, Callbacks, setup, EnterIdates, SelectTickers
<1>8. CASE BeginDay
  BY <1>1, <1>2, <1>3, <1>8 DEF BeginDay, TypeOK, Goto, Locations, Callbacks, setup, EnterMarkets, SelectTickers
<1>9. CASE BeginMarketDay
  BY <1>1, <1>2, <1>3, <1>9 DEF BeginMarketDay, TypeOK, Goto, Locations, Callbacks, setup, SelectTickers
<1>10. CASE CreateThread
  <2>1. AtRest("created") \in ThreadType
    BY DEF AtRest, ThreadType
  <2>2. thr' = [thr EXCEPT ![k] = AtRest("created")] /\ conf.multiThreadTicker
    BY <1>10 DEF CreateThread
  <2>3. thr' \in [Threads -> ThreadType]
    BY <2>1, <2>2 DEF TypeOK
  <2>4. pc' = "create" /\ k' = k + 1 /\ UNCHANGED <<setup, env, eday>>
    BY <1>10 DEF CreateThread, Goto
  <2>. QED  BY <1>1, <2>2, <2>3, <2>4 DEF TypeOK, Locations, setup, env
<1>11. CASE AllCreated
  BY <1>1, <1>11 DEF AllCreated, TypeOK, Goto, Locations, setup, env
<1>12. CASE LoopTickersAlone
  BY <1>1, <1>3, <1>12 DEF LoopTickersAlone, TypeOK, Goto, Locations, setup, env, AtRest, Inside, FromTo, ThreadType
<1>13. CASE JoinThread
  <2>1. AtRest("none") \in ThreadType /\ AtRest("none").at = "none"
    BY DEF AtRest, ThreadType
  <2>2. thr' = [thr EXCEPT ![k] = AtRest("none")]
    BY <1>13 DEF JoinThread
  <2>3. thr' \in [Threads -> ThreadType]
    BY <2>1, <2>2 DEF TypeOK
  <2>5. \A i \in Threads : thr'[i].at = thr[i].at \/ thr'[i].at = "none"
    BY <2>1, <2>2 DEF TypeOK
  <2>4. pc' = "join" /\ k' = k + 1 /\ UNCHANGED <<setup, env, eday>>
    BY <1>13 DEF JoinThread, Goto
  <2>6. TypeOK'
    BY <1>1, <2>3, <2>4 DEF TypeOK, Locations, setup, env
  <2>7. Threads' = Threads /\ conf' = conf
    BY <1>1, <2>4 DEF setup
  <2>8. ~ conf.multiThreadTicker => \A i \in Threads : thr'[i].at # "created"
    BY <2>5
  <2>. QED  BY <2>4, <2>6, <2>7, <2>8
<1>14. CASE AllJoined
  BY <1>1, <1>14 DEF AllJoined, TypeOK, Goto, Locations, Callbacks, setup, env
<1>15. CASE EndMarketDay
  BY <1>1, <1>15 DEF EndMarketDay, TypeOK, Goto, Locations, Callbacks, setup, env
<1>16. CASE EndDay
  <2>1. pc' \in Locations /\ pc' # "init" /\ k' \in Nat
    BY <1>2, <1>16, NextDayType DEF EndDay, TypeOK, Goto, Locations, Callbacks
  <2>2. idate' \in 0 .. conf.nIdates /\ UNCHANGED <<market, nTickers>>
    BY <1>16, NextDayType DEF EndDay, TypeOK, env
  <2>3. UNCHANGED <<setup, thr, eday>>
    BY <1>16 DEF EndDay
  <2>. QED  BY <1>1, <2>1, <2>2, <2>3 DEF TypeOK, setup
<1>17. CASE CreateEndDay
  <2>1. eday' \in [Mods -> {"none", "created", "endDay", "done"}]
    BY <1>17 DEF CreateEndDay, TypeOK
  <2>2. pc' \in {"endDay", "joinEndDay"} /\ k' \in Nat /\ UNCHANGED <<setup, env, thr>>
    BY <1>17 DEF CreateEndDay, TypeOK, Goto
  <2>. QED  BY <1>1, <2>1, <2>2 DEF TypeOK, Locations, Callbacks, setup, env
<1>18. CASE JoinEndDay
  <2>1. pc' \in Locations /\ pc' # "init" /\ k' \in Nat
    BY <1>2, <1>18, NextDayType DEF JoinEndDay, TypeOK, Goto, Locations, Callbacks
  <2>2. idate' \in 0 .. conf.nIdates /\ UNCHANGED <<market, nTickers>>
    BY <1>18, NextDayType DEF JoinEndDay, TypeOK, env
  <2>3. UNCHANGED <<setup, thr>> /\ eday' \in [Mods -> {"none", "created", "endDay", "done"}]
    BY <1>18 DEF JoinEndDay
  <2>. QED  BY <1>1, <2>1, <2>2, <2>3 DEF TypeOK, setup
<1>19. CASE EndMarket
  BY <1>1, <1>3, <1>19 DEF EndMarket, EnterMarkets, TypeOK, Goto, Locations, Callbacks, setup
<1>20. CASE EndJob
  BY <1>1, <1>20 DEF EndJob, TypeOK, Goto, Locations, Callbacks, setup, env
<1>21. ASSUME NEW i \in Threads, ThreadStart(i) PROVE TypeInv'
  <2>1. conf.multiThreadTicker
    BY <1>21 DEF ThreadStart
  <2>2. thr' \in [Threads -> ThreadType] /\ \A j \in Threads : thr'[j].at # "created" \/ conf.multiThreadTicker
    BY <1>3, <1>21, <2>1, ThreadStartType DEF ThreadStart, TypeOK, ThreadType, FromTo, AtRest, Inside
  <2>. QED  BY <1>1, <1>21, <2>1, <2>2 DEF ThreadStart, TypeOK, setup, env
<1>22. ASSUME NEW i \in Threads, BeginTicker(i) PROVE TypeInv'
  BY <1>1, <1>2, <1>22 DEF BeginTicker, TypeOK, ThreadType, Inside, setup, env
<1>23. ASSUME NEW i \in Threads, EndTicker(i) PROVE TypeInv'
  BY <1>1, <1>2, <1>23 DEF EndTicker, TypeOK, ThreadType, Inside, FromTo, AtRest, setup, env
<1>24. ASSUME NEW m \in Mods, EndDayStart(m) \/ EndDayReturn(m) PROVE TypeInv'
  BY <1>1, <1>24 DEF EndDayStart, EndDayReturn, TypeOK, setup, env
<1>25. CASE UNCHANGED vars
  BY <1>1, <1>25 DEF vars, TypeOK
<1>. QED
  BY <1>4, <1>5, <1>6, <1>7, <1>8, <1>9, <1>10, <1>11, <1>12, <1>13, <1>14, <1>15, <1>16,
     <1>17, <1>18, <1>19, <1>20, <1>21, <1>22, <1>23, <1>24, <1>25
  DEF Next, Main, TickerThread, EndDayThread, Terminated

LEMMA TypeInvariant == Spec => []TypeInv
BY TypeInit, TypeNext, PTL DEF Spec

(***************************************************************************)
(* Theorem: the scheduler's state is well typed.  In particular the market *)
(* and the date a module reads in MEnv are always configured ones.         *)
(***************************************************************************)
THEOREM TypeCorrect == Spec => []TypeOK
<1>1. TypeInv => TypeOK
  BY DEF TypeInv
<1>. QED  BY <1>1, TypeInvariant, PTL

------------------------
(* Ticker threads: they live between create and join only, and each stays  *)
(* within the slice it was started with.                                   *)

InSlice(i) ==
    LET T == conf.nMaxThreadTicker
        c == TickerEachThread(NLoop, T)
    IN  /\ Offset1(c, i) <= thr[i].tk
        /\ thr[i].tk < thr[i].to
        /\ thr[i].to = Offset2(NLoop, T, c, i)

ThreadInv ==
    /\ pc \notin {"create", "join"} => \A i \in Threads : thr[i].at = "none"
    /\ pc = "join" => \A i \in Threads : i < k => thr[i].at = "none"
    /\ conf.multiThreadTicker => \A i \in Threads : InTicker(i) => InSlice(i)

LEMMA ThreadInit == Init => ThreadInv
BY DEF Init, ThreadInv, AtRest, InTicker

(* Steps that leave the threads and everything InSlice reads alone.        *)
LEMMA ThreadFrame ==
    ASSUME ThreadInv, UNCHANGED <<conf, nTickers, thr>>,
           pc' \in {"create", "join"} \/ pc \notin {"create", "join"},
           pc' = "join" => (pc = "join" /\ k' = k) \/ k' = 0 \/ pc \notin {"create", "join"},
           Threads \subseteq Nat
    PROVE  ThreadInv'
<1>1. Threads' = Threads /\ NLoop' = NLoop
  BY DEF Threads, NLoop
<1>2. \A i \in Threads : InSlice(i)' = InSlice(i) /\ InTicker(i)' = InTicker(i)
  BY <1>1 DEF InSlice, InTicker
<1>3. pc' \notin {"create", "join"} => \A i \in Threads : thr'[i].at = "none"
  BY DEF ThreadInv
<1>4. pc' = "join" => \A i \in Threads : i < k' => thr'[i].at = "none"
  BY DEF ThreadInv
<1>. QED  BY <1>1, <1>2, <1>3, <1>4 DEF ThreadInv

(* Steps from outside the ticker loop, which may change the ticker list.   *)
LEMMA ThreadOutside ==
    ASSUME ThreadInv, UNCHANGED <<conf, thr>>, pc \notin {"create", "join"}
    PROVE  ThreadInv'
<1>1. Threads' = Threads /\ \A i \in Threads : thr'[i].at = "none"
  BY DEF Threads, ThreadInv
<1>. QED  BY <1>1 DEF ThreadInv, InTicker

LEMMA ThreadNext == TypeInv /\ ThreadInv /\ [Next]_vars => ThreadInv'
<1> SUFFICES ASSUME TypeInv, ThreadInv, [Next]_vars PROVE ThreadInv'
  OBVIOUS
<1> USE DEF TypeInv
<1>1. Threads \subseteq Nat /\ NLoop \in Nat /\ conf.multiThreadTicker \in BOOLEAN
  BY ConfFields
<1>2. UNCHANGED <<setup, env>> => /\ conf' = conf /\ Threads' = Threads /\ NLoop' = NLoop
  BY DEF setup, env, Threads, NLoop
<1>3. CASE InitModule \/ InitError
  BY <1>3, ThreadOutside DEF InitModule, InitError
<1>4. CASE BeginJob \/ BeginMarket \/ BeginDay \/ BeginMarketDay
  BY <1>4, ThreadOutside DEF BeginJob, BeginMarket, BeginDay, BeginMarketDay, setup
<1>5. CASE EndMarketDay \/ EndDay \/ CreateEndDay \/ JoinEndDay \/ EndMarket \/ EndJob
  BY <1>5, ThreadOutside DEF EndMarketDay, EndDay, CreateEndDay, JoinEndDay, EndMarket, EndJob, setup
<1>6. CASE CreateThread
  <2>1. thr' = [thr EXCEPT ![k] = AtRest("created")] /\ pc = "create" /\ pc' = "create"
        /\ UNCHANGED <<setup, env>>
    BY <1>6 DEF CreateThread, Goto
  <2>2. \A i \in Threads : thr'[i] = thr[i] \/ thr'[i] = AtRest("created")
    BY <2>1 DEF TypeOK
  <2>3. \A i \in Threads : InTicker(i)' => thr'[i] = thr[i] /\ InTicker(i)
    BY <2>2 DEF InTicker, AtRest
  <2>. QED  BY <1>2, <2>1, <2>3 DEF ThreadInv, InSlice
<1>7. CASE AllCreated
  BY <1>1, <1>7, ThreadFrame DEF AllCreated, Goto, setup, env
<1>8. CASE LoopTickersAlone
  <2>1. ~ conf.multiThreadTicker /\ UNCHANGED <<setup, env>> /\ pc' = "join" /\ k' = 0
    BY <1>8 DEF LoopTickersAlone, Goto
  <2>2. conf' = conf /\ Threads' = Threads /\ \A i \in Threads : ~ (i < k')
    BY <1>1, <1>2, <2>1
  <2>. QED  BY <2>1, <2>2 DEF ThreadInv
<1>9. CASE JoinThread
  <2>1. /\ thr' = [thr EXCEPT ![k] = AtRest("none")] /\ pc = "join" /\ pc' = "join" /\ k' = k + 1
        /\ k \in Threads /\ UNCHANGED <<setup, env>>
    BY <1>9 DEF JoinThread, Goto
  <2>2. \A i \in Threads : thr'[i] = IF i = k THEN AtRest("none") ELSE thr[i]
    BY <2>1 DEF TypeOK
  <2>3. \A i \in Threads : i < k' => thr'[i].at = "none"
    BY <1>1, <2>1, <2>2 DEF ThreadInv, AtRest
  <2>4. \A i \in Threads : InTicker(i)' => thr'[i] = thr[i] /\ InTicker(i)
    BY <2>2 DEF InTicker, AtRest
  <2>. QED  BY <1>2, <2>1, <2>3, <2>4 DEF ThreadInv, InSlice
<1>10. CASE AllJoined
  <2>1. pc = "join" /\ k \notin Threads /\ pc' = "endMarketDay" /\ UNCHANGED <<setup, env, thr>>
    BY <1>10 DEF AllJoined, Goto
  <2>2. \A i \in Threads : i < k
    BY <1>1, <2>1, ConfFields DEF Threads, TypeOK
  <2>3. \A i \in Threads : thr'[i].at = "none"
    BY <2>1, <2>2 DEF ThreadInv
  <2>. QED  BY <1>2, <2>1, <2>3 DEF ThreadInv, InTicker
<1>11. ASSUME NEW i \in Threads, TickerThread(i) PROVE ThreadInv'
  <2>1. thr[i].at # "none" /\ thr[i].at \in {"created", "beginTicker", "endTicker"}
        /\ UNCHANGED <<setup, env, pc, k>>
        /\ \A j \in Threads : j # i => thr'[j] = thr[j]
    BY <1>11 DEF TickerThread, ThreadStart, BeginTicker, EndTicker, TypeOK
  <2>2. pc \in {"create", "join"} /\ (pc = "join" => ~ (i < k))
    BY <2>1 DEF ThreadInv
  <2>inside. conf.multiThreadTicker /\ InTicker(i)' => InSlice(i)'
    <3> SUFFICES ASSUME conf.multiThreadTicker, InTicker(i)' PROVE InSlice(i)'
      OBVIOUS
    <3> DEFINE T == conf.nMaxThreadTicker
               c == TickerEachThread(NLoop, T)
    <3>1. c \in Nat /\ Offset1(c, i) \in Nat /\ Offset2(NLoop, T, c, i) \in 0 .. NLoop
      BY ThreadStartType
    <3>2. InSlice(i)' <=> /\ Offset1(c, i) <= thr'[i].tk
                          /\ thr'[i].tk < thr'[i].to
                          /\ thr'[i].to = Offset2(NLoop, T, c, i)
      BY <1>2, <2>1 DEF InSlice
    <3>3. InSlice(i) <=> /\ Offset1(c, i) <= thr[i].tk
                         /\ thr[i].tk < thr[i].to
                         /\ thr[i].to = Offset2(NLoop, T, c, i)
      BY DEF InSlice
    <3> HIDE DEF T, c
    <3>4. CASE ThreadStart(i)
      <4>1. thr'[i] = FromTo(Offset1(c, i), IF Offset1(c, i) < NLoop THEN Offset2(NLoop, T, c, i) ELSE 0)
        BY <3>4 DEF ThreadStart, TypeOK, c, T
      <4>2. FromTo(Offset1(c, i), 0) = AtRest("done")
        BY <3>1 DEF FromTo
      <4>. QED  BY <3>1, <3>2, <4>1, <4>2 DEF FromTo, AtRest, Inside, InTicker
    <3>5. CASE BeginTicker(i)
      <4>1. InTicker(i) /\ thr'[i].tk = thr[i].tk /\ thr'[i].to = thr[i].to
        BY <3>5 DEF BeginTicker, InTicker, TypeOK, Inside
      <4>. QED  BY <3>2, <3>3, <4>1 DEF ThreadInv
    <3>6. CASE EndTicker(i)
      <4>1. InTicker(i) /\ InSlice(i)
        BY <3>6 DEF EndTicker, InTicker, ThreadInv
      <4>2. thr[i].tk \in Nat /\ thr[i].to \in Nat
        BY DEF TypeOK, ThreadType
      <4>3. CASE thr[i].mod < NModules
        <5>1. thr'[i].tk = thr[i].tk /\ thr'[i].to = thr[i].to
          BY <3>6, <4>3 DEF EndTicker, TypeOK, Inside
        <5>. QED  BY <3>2, <3>3, <4>1, <5>1
      <4>4. CASE ~ (thr[i].mod < NModules)
        <5>1. thr'[i] = FromTo(thr[i].tk + 1, thr[i].to)
          BY <3>6, <4>4 DEF EndTicker, TypeOK
        <5>2. thr[i].tk + 1 < thr[i].to /\ thr'[i] = Inside("beginTicker", thr[i].tk + 1, thr[i].to, 1)
          BY <5>1 DEF FromTo, AtRest, InTicker
        <5>. QED  BY <3>1, <3>2, <3>3, <4>1, <4>2, <5>2 DEF Inside
      <4>. QED  BY <4>3, <4>4
    <3>. QED  BY <1>11, <3>4, <3>5, <3>6 DEF TickerThread
  <2>others. \A j \in Threads \ {i} : InTicker(j)' = InTicker(j) /\ InSlice(j)' = InSlice(j)
    BY <1>2, <2>1 DEF InTicker, InSlice
  <2>control. pc' = pc /\ k' = k /\ Threads' = Threads /\ conf' = conf
    BY <1>2, <2>1
  <2>. QED  BY <2>1, <2>2, <2>inside, <2>others, <2>control DEF ThreadInv
<1>12. ASSUME NEW m \in Mods, EndDayThread(m) PROVE ThreadInv'
  BY <1>1, <1>12, ThreadFrame DEF EndDayThread, EndDayStart, EndDayReturn, setup, env
<1>13. CASE UNCHANGED vars
  BY <1>1, <1>13, ThreadFrame DEF vars
<1>. QED
  BY <1>3, <1>4, <1>5, <1>6, <1>7, <1>8, <1>9, <1>10, <1>11, <1>12, <1>13
  DEF Next, Main, Terminated

(* A thread's remaining positions end where a later thread's begin.        *)
LEMMA SlicesApart ==
    ASSUME TypeInv, ThreadInv, NEW i \in Threads, NEW j \in Threads, i < j,
           InTicker(i), InTicker(j)
    PROVE  thr[i].to <= thr[j].tk
<1> DEFINE T == conf.nMaxThreadTicker
           c == TickerEachThread(NLoop, T)
<1>1. conf.multiThreadTicker /\ T \in Nat \ {0} /\ i \in 0 .. T - 1 /\ j \in 0 .. T - 1 /\ NLoop \in Nat
  BY ConfFields DEF TypeInv, Threads
<1>2. c \in Nat /\ Offset2(NLoop, T, c, j) \in 0 .. NLoop
  BY <1>1, ThreadStartType DEF TypeInv
<1>3. InSlice(i) /\ InSlice(j)
  BY <1>1 DEF ThreadInv
<1>4. thr[i].to = Offset2(NLoop, T, c, i) /\ j * c <= thr[j].tk /\ thr[j].tk < NLoop
      /\ thr[j].tk \in Nat
  <2>1. thr[i].to = Offset2(NLoop, T, c, i)
    BY <1>3 DEF InSlice
  <2>2. Offset1(c, j) <= thr[j].tk /\ thr[j].tk < Offset2(NLoop, T, c, j)
    BY <1>3 DEF InSlice
  <2>3. thr[j].tk \in Nat
    BY DEF TypeInv, TypeOK, ThreadType
  <2> HIDE DEF T, c
  <2>4. j * c <= thr[j].tk
    BY <2>2 DEF Offset1
  <2>. QED  BY <1>1, <1>2, <2>1, <2>2, <2>3, <2>4
<1> HIDE DEF T, c
<1>5. (i + 1) * c <= j * c /\ (i + 1) * c \in Nat /\ j * c \in Nat
  BY <1>1, <1>2, OffsetMonotone
<1>6. Offset2(NLoop, T, c, i) = (i + 1) * c
  BY <1>1, <1>4, <1>5 DEF Offset2
<1>. QED  BY <1>4, <1>5, <1>6

(***************************************************************************)
(* Theorem: two ticker threads of loop_tickers never share a ticker, for   *)
(* every number of tickers and threads.                                    *)
(***************************************************************************)
THEOREM TickersNotShared == Spec => []NoSharedTicker
<1>1. TypeInv /\ ThreadInv => NoSharedTicker
  <2> SUFFICES ASSUME TypeInv, ThreadInv, NEW i \in Threads, NEW j \in Threads,
                      i # j, InTicker(i), InTicker(j)
               PROVE  thr[i].to <= thr[j].tk \/ thr[j].to <= thr[i].tk
    BY DEF NoSharedTicker
  <2>1. Threads \subseteq Nat
    BY ConfFields DEF TypeInv
  <2>2. i < j \/ j < i
    BY <2>1
  <2>. QED  BY <2>2, SlicesApart
<1>. QED  BY <1>1, TypeInvariant, ThreadInit, ThreadNext, PTL DEF Spec

------------------------
(* endDay threads: they live in loop_endDay only, and belong to the group  *)
(* the main thread is creating or joining.                                 *)

EdayInv ==
    /\ pc \notin {"endDay", "joinEndDay"} => \A m \in Mods : eday[m] = "none"
    /\ pc = "endDay" =>
           \A m \in Mods : eday[m] # "none" => m < k /\ modules[m].ord = modules[k].ord
    /\ pc = "joinEndDay" => \A m \in Mods : eday[m] # "none" => m \in Group(k)
    /\ ~ conf.multiThreadModule => \A m \in Mods : eday[m] = "none"

LEMMA EdayInit == Init => EdayInv
BY DEF Init, EdayInv

(* When the main thread runs an endDay itself no thread of a group is left. *)
LEMMA AloneNone ==
    ASSUME TypeInv, EdayInv, pc = "endDay", Alone(k)
    PROVE  \A m \in Mods : eday[m] = "none"
<1> SUFFICES ASSUME NEW m \in Mods, eday[m] # "none" PROVE FALSE
  OBVIOUS
<1>1. m < k /\ m \in Group(k)
  BY DEF EdayInv, Group
<1>2. m = k
  BY <1>1 DEF Alone, EdayInv
<1>. QED  BY <1>1, <1>2 DEF TypeInv, TypeOK, Mods

LEMMA EdayFrame ==
    ASSUME UNCHANGED <<block, eday>>, \A m \in Mods : eday[m] = "none"
    PROVE  EdayInv'
<1>1. Mods' = Mods
  BY DEF Mods, NModules
<1>. QED  BY <1>1 DEF EdayInv

LEMMA EdayNext == TypeInv /\ EdayInv /\ [Next]_vars => EdayInv'
<1> SUFFICES ASSUME TypeInv, EdayInv, [Next]_vars PROVE EdayInv'
  OBVIOUS
<1>1. UNCHANGED setup => /\ Mods' = Mods /\ conf' = conf /\ modules' = modules
                         /\ \A m : Group(m)' = Group(m)
  BY DEF setup, Mods, NModules, Group
<1>2. CASE InitModule \/ InitError
  BY <1>2, EdayFrame DEF InitModule, InitError, EdayInv
<1>3. CASE BeginJob \/ BeginMarket \/ BeginDay \/ BeginMarketDay
  BY <1>3, EdayFrame DEF BeginJob, BeginMarket, BeginDay, BeginMarketDay, setup, EdayInv
<1>4. CASE CreateThread \/ AllCreated \/ LoopTickersAlone \/ JoinThread \/ AllJoined
  BY <1>4, EdayFrame DEF CreateThread, AllCreated, LoopTickersAlone, JoinThread, AllJoined, setup, EdayInv
<1>5. CASE EndMarketDay \/ EndMarket \/ EndJob
  BY <1>5, EdayFrame DEF EndMarketDay, EndMarket, EndJob, setup, EdayInv
<1>6. CASE EndDay
  BY <1>6, EdayFrame, AloneNone DEF EndDay, setup
<1>7. CASE CreateEndDay
  <2>1. /\ pc = "endDay" /\ ~ Alone(k) /\ k \in Nat
        /\ eday' = [eday EXCEPT ![k] = "created"]
        /\ UNCHANGED setup
    BY <1>7 DEF CreateEndDay, TypeInv, TypeOK
  <2>2. conf.multiThreadModule
    BY <2>1 DEF Alone
  <2>3. \A m \in Mods : eday'[m] # "none" => m <= k /\ modules[m].ord = modules[k].ord
    BY <2>1 DEF TypeInv, TypeOK, EdayInv, Mods
  <2>4. CASE LastOfGroup(k)
    <3>1. pc' = "joinEndDay" /\ k' = k
      BY <1>7, <2>4 DEF CreateEndDay, Goto
    <3>2. \A m \in Mods : eday'[m] # "none" => m \in Group(k)
      BY <2>3 DEF Group
    <3>. QED  BY <1>1, <2>1, <2>2, <3>1, <3>2 DEF EdayInv
  <2>5. CASE ~ LastOfGroup(k)
    <3>1. pc' = "endDay" /\ k' = k + 1
      BY <1>7, <2>5 DEF CreateEndDay, Goto
    <3>2. modules[k + 1].ord = modules[k].ord
      BY <2>5 DEF LastOfGroup
    <3>3. \A m \in Mods : m \in Nat
      BY DEF Mods
    <3>. QED  BY <1>1, <2>1, <2>2, <2>3, <3>1, <3>2, <3>3 DEF EdayInv
  <2>. QED  BY <2>4, <2>5
<1>8. CASE JoinEndDay
  <2>1. Mods' = Mods /\ \A m \in Mods : eday'[m] = "none"
    BY <1>1, <1>8 DEF JoinEndDay
  <2>. QED  BY <2>1 DEF EdayInv
<1>9. ASSUME NEW i \in Threads, TickerThread(i) PROVE EdayInv'
  BY <1>1, <1>9 DEF TickerThread, ThreadStart, BeginTicker, EndTicker, EdayInv
<1>10. ASSUME NEW n \in Mods, EndDayThread(n) PROVE EdayInv'
  <2>1. UNCHANGED <<setup, pc, k>> /\ \A m \in Mods : eday'[m] # "none" => eday[m] # "none"
    BY <1>10 DEF EndDayThread, EndDayStart, EndDayReturn, TypeInv, TypeOK
  <2>. QED  BY <1>1, <2>1, <1>10 DEF EdayInv, EndDayThread, EndDayStart, EndDayReturn, TypeInv, TypeOK
<1>11. CASE UNCHANGED vars
  BY <1>1, <1>11 DEF vars, setup, EdayInv
<1>. QED
  BY <1>2, <1>3, <1>4, <1>5, <1>6, <1>7, <1>8, <1>9, <1>10, <1>11 DEF Next, Main, Terminated

LEMMA ThreadsInvariant == Spec => [](TypeInv /\ ThreadInv /\ EdayInv)
BY TypeInit, TypeNext, ThreadInit, ThreadNext, EdayInit, EdayNext, PTL DEF Spec

(***************************************************************************)
(* Theorem: the joins of loop_tickers and loop_endDay are barriers.        *)
(***************************************************************************)
THEOREM JoinsAreBarriers == Spec => []JoinBarrier
<1>1. TypeInv /\ ThreadInv /\ EdayInv => JoinBarrier
  BY AloneNone DEF JoinBarrier, ThreadInv, EdayInv, Callbacks
<1>. QED  BY <1>1, ThreadsInvariant, PTL

(***************************************************************************)
(* Theorem: MEnv's market, date and tickers never change while a thread    *)
(* that may read them is live.                                             *)
(***************************************************************************)
THEOREM EnvIsStable == Spec => EnvStable
<1> DEFINE Live == \/ \E i \in Threads : thr[i].at # "none"
                   \/ \E m \in Mods : eday[m] \in {"created", "endDay"}
<1>1. TypeInv /\ ThreadInv /\ EdayInv /\ [Next]_vars => [Live => UNCHANGED env]_vars
  <2> SUFFICES ASSUME TypeInv, ThreadInv, EdayInv, Next, Live PROVE UNCHANGED env
    BY DEF vars, env
  <2>1. pc \in {"create", "join", "endDay", "joinEndDay"}
    BY DEF ThreadInv, EdayInv
  <2>2. ~ (pc = "endDay" /\ Alone(k))
    BY AloneNone DEF ThreadInv
  <2>3. ~ (pc = "joinEndDay" /\ \A m \in Group(k) : eday[m] = "done")
    BY DEF ThreadInv, EdayInv
  <2>4. ~ (BeginJob \/ BeginMarket \/ BeginDay \/ BeginMarketDay \/ EndDay \/ JoinEndDay \/ EndMarket)
    BY <2>1, <2>2, <2>3 DEF BeginJob, BeginMarket, BeginDay, BeginMarketDay, EndDay, JoinEndDay, EndMarket
  <2>5. CASE InitModule \/ InitError \/ CreateThread \/ AllCreated \/ LoopTickersAlone \/ JoinThread
    BY <2>5 DEF InitModule, InitError, CreateThread, AllCreated, LoopTickersAlone, JoinThread
  <2>6. CASE AllJoined \/ EndMarketDay \/ CreateEndDay \/ EndJob
    BY <2>6 DEF AllJoined, EndMarketDay, CreateEndDay, EndJob
  <2>7. ASSUME NEW i \in Threads, TickerThread(i) PROVE UNCHANGED env
    BY <2>7 DEF TickerThread, ThreadStart, BeginTicker, EndTicker
  <2>8. ASSUME NEW m \in Mods, EndDayThread(m) PROVE UNCHANGED env
    BY <2>8 DEF EndDayThread, EndDayStart, EndDayReturn
  <2>9. CASE Terminated
    BY <2>9 DEF Terminated, vars, env
  <2>. QED  BY <2>4, <2>5, <2>6, <2>7, <2>8, <2>9 DEF Next, Main
<1>. QED  BY <1>1, ThreadsInvariant, PTL DEF Spec, EnvStable

------------------------
(* The module list: while init walks the configuration, the modules placed *)
(* so far are in configured order and their keys never decrease; they      *)
(* increase at every module that declares none.                            *)

ModInv ==
    /\ pc # "exit" => Len(modules) = IF pc = "init" THEN k - 1 ELSE NModules
    /\ pc = "init" => \A j \in 1 .. Len(modules) : modules[j].ord <= execOrder
    /\ \A j \in 1 .. Len(modules) :
           modules[j].id = j /\ (block[j] >= 0 => modules[j].ord = block[j])
    /\ \A i, j \in 1 .. Len(modules) :
           i < j => /\ modules[i].ord <= modules[j].ord
                    /\ block[j] = -1 => modules[i].ord < modules[j].ord

LEMMA ModInit == Init => ModInv
BY DEF Init, ModInv

LEMMA ModFrame ==
    ASSUME ModInv, UNCHANGED <<block, modules>>, pc # "init", pc # "exit",
           pc' # "init"
    PROVE  ModInv'
<1>1. NModules' = NModules
  BY DEF NModules
<1>. QED  BY <1>1 DEF ModInv

LEMMA ModNext == TypeInv /\ ModInv /\ [Next]_vars => ModInv'
<1> SUFFICES ASSUME TypeInv, ModInv, [Next]_vars PROVE ModInv'
  OBVIOUS
<1>1. CASE InitModule
  <2> DEFINE e == [ord |-> execOrder', id |-> k]
             n == Len(modules)
  <2>1. /\ pc = "init" /\ k \in Mods /\ execOrder \in Nat \cup {-1} /\ block[k] \in Nat \cup {-1}
        /\ block' = block /\ NModules' = NModules /\ NModules \in Nat
        /\ execOrder' = IF block[k] >= 0 THEN block[k] ELSE execOrder + 1
        /\ block[k] >= 0 => execOrder <= block[k]
        /\ modules' = Insert(modules, e)
    BY <1>1, BlockType DEF InitModule, TypeInv, TypeOK, NModules
  <2>2. /\ execOrder' \in Nat /\ execOrder <= execOrder'
        /\ block[k] >= 0 => execOrder' = block[k]
        /\ block[k] = -1 => execOrder < execOrder'
    BY <2>1
  <2>3. /\ modules \in Seq(Entry) /\ n = k - 1 /\ k \in Nat
        /\ \A j \in 1 .. n : modules[j].ord \in Nat /\ modules[j].ord <= execOrder
    <3>1. modules \in Seq(Entry) /\ k \in Nat
      BY DEF TypeInv, TypeOK, Entry
    <3>2. n = k - 1
      BY <2>1 DEF ModInv
    <3>3. \A j \in 1 .. n : modules[j] \in Entry /\ modules[j].ord <= execOrder
      BY <2>1, <3>1 DEF ModInv
    <3>. QED  BY <3>1, <3>2, <3>3 DEF Entry
  <2>4. modules' = Append(modules, e)
    <3>1. \A j \in 1 .. Len(modules) : modules[j].ord <= e.ord
      BY <2>1, <2>2, <2>3
    <3>2. e \in Entry
      BY <2>2, <2>3 DEF Entry
    <3>. QED  BY <2>1, <2>3, <3>1, <3>2, InsertLast
  <2>5. /\ Len(modules') = k
        /\ \A j \in 1 .. k : modules'[j] = IF j = k THEN e ELSE modules[j]
    BY <2>3, <2>4
  <2>6. (pc' = "init" /\ k' = k + 1) \/ (pc' = "beginJob" /\ k = NModules)
    BY <1>1, <2>1 DEF InitModule, Goto, Mods
  <2>7. \A j \in 1 .. k : modules'[j].ord \in Nat /\ modules'[j].ord <= execOrder'
    BY <2>1, <2>2, <2>3, <2>5
  <2>8. \A j \in 1 .. k : modules'[j].id = j /\ (block[j] >= 0 => modules'[j].ord = block[j])
    BY <2>2, <2>3, <2>5 DEF ModInv
  <2>9. \A i, j \in 1 .. k :
            i < j => /\ modules'[i].ord <= modules'[j].ord
                     /\ block[j] = -1 => modules'[i].ord < modules'[j].ord
    <3> SUFFICES ASSUME NEW i \in 1 .. k, NEW j \in 1 .. k, i < j
                 PROVE  /\ modules'[i].ord <= modules'[j].ord
                        /\ block[j] = -1 => modules'[i].ord < modules'[j].ord
      OBVIOUS
    <3>1. i \in 1 .. n /\ modules'[i] = modules[i]
      BY <2>3, <2>5
    <3>2. CASE j = k
      BY <2>1, <2>2, <2>3, <2>5, <3>1, <3>2
    <3>3. CASE j # k
      <4>1. j \in 1 .. n /\ modules'[j] = modules[j]
        BY <2>3, <2>5, <3>3
      <4>. QED  BY <3>1, <4>1 DEF ModInv
    <3>. QED  BY <3>2, <3>3
  <2>10. pc' # "exit" => Len(modules') = IF pc' = "init" THEN k' - 1 ELSE NModules'
    BY <2>1, <2>3, <2>5, <2>6
  <2>11. block' = block /\ Len(modules') = k
    BY <2>1, <2>5
  <2>. HIDE DEF e, n
  <2>. QED  BY <2>7, <2>8, <2>9, <2>10, <2>11 DEF ModInv
<1>2. CASE InitError
  BY <1>2 DEF InitError, Goto, ModInv
<1>3. CASE BeginJob \/ BeginMarket \/ BeginDay \/ BeginMarketDay
  BY <1>3, ModFrame DEF BeginJob, BeginMarket, BeginDay, BeginMarketDay, setup, Goto, EnterMarkets, EnterIdates
<1>4. CASE CreateThread \/ AllCreated \/ LoopTickersAlone \/ JoinThread \/ AllJoined
  BY <1>4, ModFrame DEF CreateThread, AllCreated, LoopTickersAlone, JoinThread, AllJoined, setup, Goto
<1>5. CASE EndMarketDay \/ EndMarket \/ EndJob
  BY <1>5, ModFrame DEF EndMarketDay, EndMarket, EndJob, setup, Goto, EnterMarkets
<1>6. CASE EndDay \/ CreateEndDay \/ JoinEndDay
  BY <1>6, ModFrame DEF EndDay, CreateEndDay, JoinEndDay, NextDay, setup, Goto, EnterIdates
<1>7. CASE UNCHANGED <<setup, pc, k>>
  <2>1. NModules' = NModules
    BY <1>7 DEF setup, NModules
  <2>. QED  BY <1>7, <2>1 DEF ModInv, setup
<1>8. ASSUME NEW i \in Threads, TickerThread(i) PROVE ModInv'
  BY <1>7, <1>8 DEF TickerThread, ThreadStart, BeginTicker, EndTicker
<1>9. ASSUME NEW m \in Mods, EndDayThread(m) PROVE ModInv'
  BY <1>7, <1>9 DEF EndDayThread, EndDayStart, EndDayReturn
<1>10. CASE UNCHANGED vars
  BY <1>7, <1>10 DEF vars, setup
<1>. QED
  BY <1>1, <1>2, <1>3, <1>4, <1>5, <1>6, <1>8, <1>9, <1>10 DEF Next, Main, Terminated

LEMMA SafetyInvariant == Spec => [](TypeInv /\ EdayInv /\ ModInv)
BY TypeInit, TypeNext, EdayInit, EdayNext, ModInit, ModNext, PTL DEF Spec

(***************************************************************************)
(* Theorem: the callback sweeps run in the configured order, for every     *)
(* configuration that init accepts.                                        *)
(***************************************************************************)
THEOREM OrderIsConfigured == Spec => []ConfiguredOrder
<1>1. TypeInv /\ ModInv => ConfiguredOrder
  BY DEF ConfiguredOrder, ModInv, Mods
<1>. QED  BY <1>1, SafetyInvariant, PTL

(***************************************************************************)
(* Theorem: endDay calls overlap only within a declared group.             *)
(***************************************************************************)
THEOREM EndDayInGroup == Spec => []EndDayConcurrency
<1>1. TypeInv /\ EdayInv /\ ModInv => EndDayConcurrency
  <2> SUFFICES ASSUME TypeInv, EdayInv, ModInv,
                      NEW m \in Mods, NEW n \in Mods, m < n, InEndDay(m), InEndDay(n)
               PROVE  /\ conf.multiThreadModule
                      /\ \A j \in m + 1 .. n : block[j] = modules[m].ord
    BY DEF EndDayConcurrency
  <2>1. eday[m] = "endDay" /\ eday[n] = "endDay"
    <3>1. m # n
      BY DEF Mods
    <3>2. eday[m] = "endDay" \/ eday[n] = "endDay"
      BY <3>1 DEF InEndDay
    <3>3. ~ (pc = "endDay" /\ Alone(k))
      BY <3>2, AloneNone
    <3>. QED  BY <3>3 DEF InEndDay
  <2>2. conf.multiThreadModule /\ pc \in {"endDay", "joinEndDay"}
    BY <2>1 DEF EdayInv
  <2>3. modules[m].ord = modules[n].ord
    BY <2>1, <2>2 DEF EdayInv, Group
  <2>4. Len(modules) = NModules /\ Mods = 1 .. Len(modules)
    BY <2>2 DEF ModInv, Mods
  <2>5. \A j \in Mods : modules[j].ord \in Nat /\ block[j] \in Nat \cup {-1}
    <3>1. modules \in Seq(Entry) /\ \A j \in Mods : block[j] \in Nat \cup {-1}
      BY BlockType DEF TypeInv, TypeOK, Entry
    <3>2. \A j \in 1 .. Len(modules) : modules[j] \in Entry
      BY <3>1
    <3>. QED  BY <2>4, <3>1, <3>2 DEF Entry
  <2>6. ASSUME NEW j \in m + 1 .. n PROVE block[j] = modules[m].ord
    <3>1. j \in Mods /\ m < j /\ j <= n
      <4>1. NModules \in Nat
        BY BlockType DEF TypeInv
      <4>. QED  BY <4>1 DEF Mods
    <3>2. modules[m].ord <= modules[j].ord /\ modules[j].ord <= modules[n].ord
      BY <2>4, <2>5, <3>1 DEF ModInv
    <3>3. modules[j].ord = modules[m].ord
      BY <2>3, <2>5, <3>1, <3>2
    <3>4. block[j] # -1
      BY <2>4, <2>5, <3>1, <3>3 DEF ModInv
    <3>. QED  BY <2>4, <2>5, <3>1, <3>3, <3>4 DEF ModInv
  <2>. QED  BY <2>2, <2>6
<1>. QED  BY <1>1, SafetyInvariant, PTL

------------------------
(* What the mapping needs of the control state besides the invariants       *)
(* above: the sweeps stay among the modules, the threads are created       *)
(* in order, a thread in a callback is in a module's, at a position of its *)
(* own, and a group is joined when all of it has been created.             *)

InOwnSlice(i) ==
    /\ thr[i].mod \in Mods /\ thr[i].tk \in SliceOf(i)
    /\ \A p \in Int : p \in SliceOf(i) /\ p >= thr[i].tk <=> p \in thr[i].tk .. thr[i].to - 1

LifeInv ==
    /\ pc \in Callbacks \cup {"joinEndDay"} => k \in Mods
    /\ pc = "create" => /\ ~ conf.multiThreadTicker => k = 0
                        /\ \A i \in Threads : thr[i].at = "none" <=> k <= i
    /\ pc = "joinEndDay" => LastOfGroup(k)
    /\ \A i \in Threads : InTicker(i) => InOwnSlice(i)

LEMMA LifeInit == Init => LifeInv
BY DEF Init, LifeInv, Callbacks, InTicker, AtRest

LEMMA SliceOfType ==
    ASSUME TypeOK, NEW i \in Threads
    PROVE  SliceOf(i) \subseteq Int
<1>1. CASE conf.multiThreadTicker
  BY <1>1, ThreadStartType DEF SliceOf, Slice
<1>2. CASE ~ conf.multiThreadTicker
  BY <1>2 DEF SliceOf
<1>. QED  BY <1>1, <1>2

(* FromTo enters the first module's beginTicker at the first position of a *)
(* slice that is left, or ends the thread if none is.                      *)
LEMMA FromToInSlice ==
    ASSUME TypeOK, NEW i \in Threads, NEW from \in Int, NEW to \in Int,
           \A p \in Int : p \in SliceOf(i) /\ p >= from <=> p \in from .. to - 1,
           UNCHANGED <<conf, nTickers, block>>, thr'[i] = FromTo(from, to)
    PROVE  InTicker(i)' => InOwnSlice(i)'
<1> SUFFICES ASSUME InTicker(i)' PROVE InOwnSlice(i)'
  OBVIOUS
<1>1. from < to /\ thr'[i] = Inside("beginTicker", from, to, 1)
  BY DEF FromTo, InTicker, AtRest
<1>2. SliceOf(i)' = SliceOf(i) /\ Mods' = Mods /\ 1 \in Mods
  BY BlockType DEF SliceOf, NLoop, Mods, NModules
<1>3. thr'[i].tk = from /\ thr'[i].to = to /\ thr'[i].mod = 1
  BY <1>1 DEF Inside
<1>4. from \in SliceOf(i)
  BY <1>1
<1>. QED  BY <1>2, <1>3, <1>4 DEF InOwnSlice

(* A thread starts with the positions of its slice.                        *)
LEMMA StartInSlice ==
    ASSUME TypeInv, NEW i \in Threads, ThreadStart(i)
    PROVE  \E from, to \in Int :
               /\ thr'[i] = FromTo(from, to)
               /\ \A p \in Int : p \in SliceOf(i) /\ p >= from <=> p \in from .. to - 1
               /\ from >= to => SliceOf(i) = {}
               /\ \A p \in SliceOf(i) : p >= from
<1> DEFINE T == conf.nMaxThreadTicker
           c == TickerEachThread(NLoop, T)
           to == IF Offset1(c, i) < NLoop THEN Offset2(NLoop, T, c, i) ELSE 0
<1>1. conf.multiThreadTicker
  BY DEF TypeInv, ThreadStart
<1>2. Offset1(c, i) \in Nat /\ Offset2(NLoop, T, c, i) \in 0 .. NLoop /\ NLoop \in Nat
  BY <1>1, ThreadStartType, ConfFields DEF TypeInv
<1>3. SliceOf(i) = Slice(NLoop, T, c, i)
  BY <1>1 DEF SliceOf
<1>4. thr'[i] = FromTo(Offset1(c, i), to)
  BY DEF ThreadStart, TypeInv, TypeOK
<1> HIDE DEF T, c
<1>5. SliceOf(i) = IF Offset1(c, i) < NLoop THEN Offset1(c, i) .. (to - 1) ELSE {}
  BY <1>3 DEF Slice
<1>6. to \in Int
  BY <1>2
<1> HIDE DEF to
<1>7. Offset1(c, i) < NLoop \/ to = 0
  BY DEF to
<1>. QED  BY <1>2, <1>4, <1>5, <1>6, <1>7

(* Outside the ticker loop no thread is in a callback.                     *)
LEMMA LifeOutside ==
    ASSUME TypeInv, ThreadInv, UNCHANGED <<conf, thr>>, pc \notin {"create", "join"}
    PROVE  \A i \in Threads' : thr'[i].at = "none" /\ ~ InTicker(i)'
BY DEF ThreadInv, Threads, InTicker

LEMMA LifeBetween ==
    ASSUME TypeInv, ThreadInv, UNCHANGED <<conf, thr>>, pc \notin {"create", "join"},
           pc' \notin {"create", "joinEndDay"}, pc' \in Callbacks => k' \in Mods'
    PROVE  LifeInv'
BY LifeOutside DEF LifeInv, Callbacks

(* Steps of the main thread that leave threads and tickers alone.          *)
LEMMA LifeSame ==
    ASSUME LifeInv, UNCHANGED <<block, conf, nTickers>>,
           \A i \in Threads : InTicker(i)' => thr'[i] = thr[i]
    PROVE  \A i \in Threads' : InTicker(i)' => InOwnSlice(i)'
<1>1. Threads' = Threads /\ Mods' = Mods /\ \A i : SliceOf(i)' = SliceOf(i)
  BY DEF Threads, Mods, NModules, SliceOf, NLoop
<1>2. \A i \in Threads : InTicker(i)' => InTicker(i)
  BY DEF InTicker
<1>. QED  BY <1>1, <1>2 DEF LifeInv, InOwnSlice

LEMMA LifeNext == TypeInv /\ ThreadInv /\ EdayInv /\ LifeInv /\ [Next]_vars => LifeInv'
<1> SUFFICES ASSUME TypeInv, ThreadInv, EdayInv, LifeInv, [Next]_vars PROVE LifeInv'
  OBVIOUS
<1> USE DEF TypeInv
<1>0. 1 \in Mods /\ NModules \in Nat /\ \A n \in Mods : n < NModules => n + 1 \in Mods
  BY BlockType DEF Mods
<1>1. UNCHANGED block => Mods' = Mods /\ NModules' = NModules
  BY DEF Mods, NModules
<1>2. CASE InitModule \/ InitError
  <2>1. /\ pc = "init" /\ UNCHANGED <<conf, thr, block>>
        /\ pc' \in {"init", "beginJob", "exit"} /\ (pc' = "beginJob" => k' = 1)
    BY <1>2 DEF InitModule, InitError, Goto
  <2>. QED  BY <1>0, <1>1, <2>1, LifeBetween DEF Callbacks
<1>3. CASE BeginJob \/ BeginMarket \/ BeginDay
  <2>1. /\ pc \in Callbacks /\ UNCHANGED <<conf, thr, block>>
        /\ pc' \in Callbacks /\ (k' = 1 \/ k' = k \/ (k < NModules /\ k' = k + 1))
    <3>1. CASE BeginJob
      BY <3>1 DEF BeginJob, EnterMarkets, EnterIdates, Goto, Callbacks, setup
    <3>2. CASE BeginMarket
      BY <3>2 DEF BeginMarket, EnterIdates, Goto, Callbacks, setup
    <3>3. CASE BeginDay
      BY <3>3 DEF BeginDay, EnterMarkets, Goto, Callbacks, setup
    <3>. QED  BY <1>3, <3>1, <3>2, <3>3
  <2>. QED  BY <1>0, <1>1, <2>1, LifeBetween DEF Callbacks, LifeInv
<1>4. CASE BeginMarketDay
  <2>1. /\ pc = "beginMarketDay" /\ UNCHANGED <<conf, thr, block>>
        /\ \/ pc' \in Callbacks /\ k < NModules /\ k' = k + 1
           \/ pc' = "create" /\ k' = 0
    BY <1>4 DEF BeginMarketDay, Goto, Callbacks, setup
  <2>2. CASE pc' = "create"
    <3>1. \A i \in Threads' : 0 <= i
      BY <2>1, ConfFields DEF Threads
    <3>. QED  BY <2>1, <2>2, <3>1, LifeOutside DEF LifeInv, Callbacks
  <2>3. CASE pc' # "create"
    BY <1>0, <1>1, <2>1, <2>3, LifeBetween DEF Callbacks, LifeInv
  <2>. QED  BY <2>2, <2>3
<1>5. CASE EndMarketDay \/ EndMarket \/ EndJob
  <2>1. /\ pc \in Callbacks /\ UNCHANGED <<conf, thr, block>>
        /\ \/ pc' \in Callbacks /\ (k' = 1 \/ k' = k \/ (k < NModules /\ k' = k + 1))
           \/ pc' = "end"
    <3>1. CASE EndMarketDay
      BY <3>1 DEF EndMarketDay, Goto, Callbacks, setup
    <3>2. CASE EndMarket
      BY <3>2 DEF EndMarket, EnterMarkets, Goto, Callbacks, setup
    <3>3. CASE EndJob
      BY <3>3 DEF EndJob, Goto, Callbacks, setup
    <3>. QED  BY <1>5, <3>1, <3>2, <3>3
  <2>. QED  BY <1>0, <1>1, <2>1, LifeBetween DEF Callbacks, LifeInv
<1>6. CASE EndDay \/ JoinEndDay
  <2>1. /\ pc \in {"endDay", "joinEndDay"} /\ UNCHANGED <<conf, thr, block>>
        /\ pc' \in Callbacks /\ (k' = 1 \/ (k < NModules /\ k' = k + 1))
    BY <1>6 DEF EndDay, JoinEndDay, NextDay, EnterIdates, Goto, Callbacks, setup
  <2>. QED  BY <1>0, <1>1, <2>1, LifeBetween DEF Callbacks, LifeInv
<1>7. CASE CreateEndDay
  <2>1. /\ k \in Mods /\ (k + 1 \in Mods \/ LastOfGroup(k))
        /\ LastOfGroup(k)' = LastOfGroup(k) \/ k' # k
    BY <1>0, <1>1, <1>7 DEF CreateEndDay, LifeInv, Callbacks, LastOfGroup, setup, Mods
  <2>. QED  BY <1>1, <1>7, <2>1, LifeOutside DEF CreateEndDay, Goto, LifeInv, Callbacks, setup
<1>8. CASE CreateThread
  <2>1. /\ \A i \in Threads : thr'[i] = IF i = k THEN AtRest("created") ELSE thr[i]
        /\ pc = "create" /\ pc' = "create" /\ k' = k + 1 /\ conf.multiThreadTicker
        /\ UNCHANGED <<block, conf, nTickers>> /\ Threads' = Threads
    BY <1>8 DEF CreateThread, TypeOK, Goto, setup, env, Threads
  <2>2. \A i \in Threads' : InTicker(i)' => InOwnSlice(i)'
    BY <2>1, LifeSame DEF InTicker, AtRest
  <2>3. \A i \in Threads : i \in Nat
    BY ConfFields
  <2>4. \A i \in Threads : thr'[i].at = "none" <=> k + 1 <= i
    <3> TAKE i \in Threads
    <3>1. CASE i = k
      BY <2>1, <2>3, <3>1 DEF AtRest
    <3>2. CASE i # k
      BY <2>1, <2>3, <3>2 DEF LifeInv, TypeOK
    <3>. QED  BY <3>1, <3>2
  <2>. QED  BY <2>1, <2>2, <2>4 DEF LifeInv, Callbacks
<1>9. CASE AllCreated \/ AllJoined
  <2>1. \A i \in Threads' : InTicker(i)' => InOwnSlice(i)'
    BY <1>9, LifeSame DEF AllCreated, AllJoined, setup, env
  <2>. QED  BY <1>0, <1>1, <1>9, <2>1 DEF AllCreated, AllJoined, Goto, LifeInv, Callbacks, setup
<1>10. CASE LoopTickersAlone
  <2>1. /\ Threads = {0} /\ SliceOf(0) = 0 .. NLoop - 1 /\ NLoop \in Nat
        /\ thr'[0] = FromTo(0, NLoop) /\ UNCHANGED <<block, conf, nTickers>> /\ Threads' = Threads
    BY <1>10, ConfFields DEF LoopTickersAlone, Threads, SliceOf, TypeOK, setup, env
  <2>2. InTicker(0)' => InOwnSlice(0)'
    BY <2>1, FromToInSlice
  <2>. QED  BY <1>10, <2>1, <2>2 DEF LoopTickersAlone, Goto, LifeInv, Callbacks
<1>11. CASE JoinThread
  <2>1. \A i \in Threads : InTicker(i)' => thr'[i] = thr[i]
    BY <1>11 DEF JoinThread, TypeOK, InTicker, AtRest
  <2>2. \A i \in Threads' : InTicker(i)' => InOwnSlice(i)'
    BY <1>11, <2>1, LifeSame DEF JoinThread, setup, env
  <2>. QED  BY <1>11, <2>2 DEF JoinThread, Goto, LifeInv, Callbacks
<1>12. ASSUME NEW i \in Threads, TickerThread(i) PROVE LifeInv'
  <2>1. /\ UNCHANGED <<block, conf, execOrder, modules, market, idate, nTickers, pc, k>>
        /\ \A j \in Threads : j # i => thr'[j] = thr[j]
        /\ thr[i].at # "none" /\ Threads' = Threads
    BY <1>12 DEF TickerThread, ThreadStart, BeginTicker, EndTicker, setup, env, TypeOK, Threads
  <2>2. Mods' = Mods /\ NModules' = NModules /\ \A j : SliceOf(j)' = SliceOf(j)
    BY <2>1 DEF Mods, NModules, SliceOf, NLoop
  <2>3. InTicker(i)' => InOwnSlice(i)'
    <3>1. CASE ThreadStart(i)
      <4>1. PICK from, to \in Int :
               /\ thr'[i] = FromTo(from, to)
               /\ \A p \in Int : p \in SliceOf(i) /\ p >= from <=> p \in from .. to - 1
        BY <3>1, StartInSlice
      <4>. QED  BY <2>1, <4>1, FromToInSlice
    <3>2. CASE BeginTicker(i) \/ (EndTicker(i) /\ thr[i].mod < NModules)
      <4>1. InTicker(i) /\ thr'[i].tk = thr[i].tk /\ thr'[i].to = thr[i].to
        BY <3>2 DEF BeginTicker, EndTicker, InTicker, TypeOK, Inside
      <4>2. thr'[i].mod \in Mods
        BY <1>0, <3>2, <4>1 DEF BeginTicker, EndTicker, TypeOK, Inside, LifeInv, InOwnSlice
      <4>. QED  BY <2>2, <4>1, <4>2 DEF LifeInv, InOwnSlice
    <3>3. CASE EndTicker(i) /\ ~ (thr[i].mod < NModules)
      <4>1. InOwnSlice(i) /\ thr[i].tk \in Int /\ thr[i].to \in Int
        BY <3>3 DEF EndTicker, InTicker, LifeInv, TypeOK, ThreadType
      <4>2. thr'[i] = FromTo(thr[i].tk + 1, thr[i].to)
        BY <3>3 DEF EndTicker, TypeOK
      <4>3. \A p \in Int : p \in SliceOf(i) /\ p >= thr[i].tk + 1 <=> p \in thr[i].tk + 1 .. thr[i].to - 1
        BY <4>1 DEF InOwnSlice
      <4>4. thr[i].tk + 1 \in Int /\ TypeOK /\ UNCHANGED <<conf, nTickers, block>>
        BY <2>1, <4>1
      <4>. QED  BY <4>1, <4>2, <4>3, <4>4, FromToInSlice
    <3>. QED  BY <1>12, <3>1, <3>2, <3>3 DEF TickerThread
  <2>4. \A j \in Threads : InTicker(j)' => InOwnSlice(j)'
    BY <2>1, <2>2, <2>3 DEF InTicker, InOwnSlice, LifeInv
  <2>5. thr'[i].at # "none"
    BY <1>12 DEF TickerThread, ThreadStart, BeginTicker, EndTicker, TypeOK, FromTo, AtRest, Inside
  <2>6. LastOfGroup(k)' = LastOfGroup(k)
    BY <2>1, <2>2 DEF LastOfGroup
  <2>. QED  BY <2>1, <2>2, <2>4, <2>5, <2>6 DEF LifeInv
<1>13. CASE \/ UNCHANGED vars
           \/ \E m \in Mods : EndDayThread(m)
  <2>1. UNCHANGED <<block, conf, modules, nTickers, thr, pc, k>>
    BY <1>13 DEF vars, EndDayThread, EndDayStart, EndDayReturn, setup, env
  <2>2. /\ \A i \in Threads' : InTicker(i)' => InOwnSlice(i)'
        /\ Threads' = Threads /\ LastOfGroup(k)' = LastOfGroup(k)
    BY <1>1, <2>1, LifeSame DEF Threads, LastOfGroup
  <2>. QED  BY <1>1, <2>1, <2>2 DEF LifeInv
<1>. QED
  BY <1>2, <1>3, <1>4, <1>5, <1>6, <1>7, <1>8, <1>9, <1>10, <1>11, <1>12, <1>13
  DEF Next, Main, Terminated

------------------------
(* The mapping, read off from the control state.                           *)

DepthTable ==
    \A m \in Mods :
        /\ DepthOf(m) \in 0 .. 4
        /\ pc \in {"init", "exit", "end"} => DepthOf(m) = 0
        /\ pc = "beginJob" => DepthOf(m) = Sweep(m, 1, 0)
        /\ pc = "beginMarket" /\ Mdt => DepthOf(m) = Sweep(m, 2, 1)
        /\ pc = "beginDay" /\ ~ Mdt => DepthOf(m) = Sweep(m, 2, 1)
        /\ pc = "beginDay" /\ Mdt => DepthOf(m) = IF m = k THEN 3 ELSE Sweep(m, 4, 2)
        /\ pc = "beginMarket" /\ ~ Mdt => DepthOf(m) = IF m = k THEN 3 ELSE Sweep(m, 4, 2)
        /\ pc = "beginMarketDay" => DepthOf(m) = Sweep(m, 4, 2)
        /\ pc \in {"create", "join"} => DepthOf(m) = 4
        /\ pc = "endMarketDay" /\ Mdt => DepthOf(m) = Sweep(m, 3, 4)
        /\ pc = "endMarketDay" /\ ~ Mdt => DepthOf(m) = IF m = k THEN 3 ELSE Sweep(m, 2, 4)
        /\ pc = "endMarket" /\ ~ Mdt => DepthOf(m) = Sweep(m, 2, 4)
        /\ pc \in {"endDay", "joinEndDay"} =>
               DepthOf(m) = (IF Mdt THEN 3 ELSE 2) - (IF LeftDay(m) THEN 1 ELSE 0)
        /\ pc = "endMarket" /\ Mdt => DepthOf(m) = Sweep(m, 1, 2)
        /\ pc = "endJob" => DepthOf(m) = Sweep(m, 0, 1)

LEMMA Depths == TypeOK => DepthTable
<1> SUFFICES ASSUME TypeOK, NEW m \in Mods
             PROVE  DepthTable!(m)
  BY DEF DepthTable
<1>1. pc \in Locations
  BY DEF TypeOK
<1>. QED  BY <1>1 DEF DepthOf, Sweep, Locations, Callbacks

LEMMA DepthsNext == TypeOK' => DepthTable'
BY Depths, PTL

(* The scopes that stand for a depth.                                      *)
LEMMA Scopes ==
    ASSUME NEW d \in 0 .. 4
    PROVE  /\ Len(SubSeq(Nest, 1, d)) = d
           /\ \A i \in 1 .. d : SubSeq(Nest, 1, d)[i] = Nest[i]
           /\ \A e \in 0 .. d : SubSeq(SubSeq(Nest, 1, d), 1, e) = SubSeq(Nest, 1, e)
<1> DEFINE S == {Nest[i] : i \in 1 .. 4}
           s == SubSeq(Nest, 1, d)
<1>1. ASSUME NEW e \in 0 .. 4
      PROVE  /\ SubSeq(Nest, 1, e) \in Seq(S) /\ Len(SubSeq(Nest, 1, e)) = e
             /\ \A i \in 1 .. e : SubSeq(Nest, 1, e)[i] = Nest[i]
  <2>1. \A i \in 1 .. e : Nest[i] \in S
    OBVIOUS
  <2> HIDE DEF S
  <2>2. /\ SubSeq(Nest, 1, e) \in Seq(S)
        /\ Len(SubSeq(Nest, 1, e)) = IF 1 <= e THEN e - 1 + 1 ELSE 0
        /\ \A i \in 1 .. e - 1 + 1 : SubSeq(Nest, 1, e)[i] = Nest[1 + i - 1]
    BY <2>1, SubSeqProperties
  <2>. QED  BY <2>2
<1> HIDE DEF S
<1>2. ASSUME NEW e \in 0 .. d
      PROVE  SubSeq(s, 1, e) = SubSeq(Nest, 1, e)
  <2>1. s \in Seq(S) /\ Len(s) = d /\ \A i \in 1 .. d : s[i] = Nest[i]
    BY <1>1
  <2>2. \A i \in 1 .. e : s[i] \in S
    BY <2>1
  <2> HIDE DEF s
  <2>3. /\ SubSeq(s, 1, e) \in Seq(S) /\ Len(SubSeq(s, 1, e)) = e
        /\ \A i \in 1 .. e : SubSeq(s, 1, e)[i] = s[i]
    <3>1. /\ SubSeq(s, 1, e) \in Seq(S)
          /\ Len(SubSeq(s, 1, e)) = IF 1 <= e THEN e - 1 + 1 ELSE 0
          /\ \A i \in 1 .. e - 1 + 1 : SubSeq(s, 1, e)[i] = s[1 + i - 1]
      BY <2>2, SubSeqProperties
    <3>. QED  BY <3>1
  <2>4. /\ SubSeq(Nest, 1, e) \in Seq(S) /\ Len(SubSeq(Nest, 1, e)) = e
        /\ \A i \in 1 .. e : SubSeq(Nest, 1, e)[i] = Nest[i]
    BY <1>1
  <2>5. \A i \in 1 .. e : SubSeq(s, 1, e)[i] = SubSeq(Nest, 1, e)[i]
    BY <2>1, <2>3, <2>4
  <2>. QED  BY <2>3, <2>4, <2>5, SeqEqual
<1>. QED  BY <1>1, <1>2

View ==
    /\ Lifecycle!Modules = Mods
    /\ \A m \in Mods :
         /\ OpenScopes[m] = SubSeq(Nest, 1, DepthOf(m))
         /\ DepthOf(m) \in 0 .. 4 /\ Lifecycle!Depth(m) = DepthOf(m)
         /\ \A scope : Lifecycle!Inside(m, scope) <=> DepthOf(m) > 0 /\ Nest[DepthOf(m)] = scope

LEMMA ViewHolds == TypeOK => View
<1> SUFFICES ASSUME TypeOK PROVE View
  OBVIOUS
<1>1. Lifecycle!Modules = Mods
  BY DEF Lifecycle!Modules, OpenScopes
<1>2. ASSUME NEW m \in Mods
      PROVE  /\ OpenScopes[m] = SubSeq(Nest, 1, DepthOf(m))
             /\ DepthOf(m) \in 0 .. 4 /\ Lifecycle!Depth(m) = DepthOf(m)
             /\ \A scope : Lifecycle!Inside(m, scope) <=> DepthOf(m) > 0 /\ Nest[DepthOf(m)] = scope
  <2>1. OpenScopes[m] = SubSeq(Nest, 1, DepthOf(m))
    BY DEF OpenScopes
  <2>depth. DepthOf(m) \in 0 .. 4
    BY Depths DEF DepthTable
  <2>agrees. Lifecycle!Depth(m) = DepthOf(m)
    BY <2>1, <2>depth, Scopes DEF Lifecycle!Depth
  <2>4. DepthOf(m) > 0 => OpenScopes[m][DepthOf(m)] = Nest[DepthOf(m)]
    <3>1. SUFFICES ASSUME DepthOf(m) > 0 PROVE OpenScopes[m][DepthOf(m)] = Nest[DepthOf(m)]
      OBVIOUS
    <3>2. DepthOf(m) \in 1 .. DepthOf(m)
      BY <2>depth, <3>1
    <3>. QED  BY <2>1, <2>depth, <3>2, Scopes
  <2>. QED  BY <2>1, <2>depth, <2>agrees, <2>4 DEF Lifecycle!Inside
<1>. QED  BY <1>1, <1>2 DEF View

------------------------
(* Steps of the promise, told by the depths and the tickers they change.   *)

Due == IF Ticking THEN 0 .. NLoop - 1 ELSE {}

(* Before and after a step outside the ticker loop there are no tickers.   *)
LEMMA NoTickers ==
    ASSUME ~ Ticking, ~ Ticking', UNCHANGED block
    PROVE  UNCHANGED <<Ticking, Due, TickersOf("beginTicker"), TickersOf("endTicker")>>
<1>1. Mods' = Mods
  BY DEF Mods, NModules
<1>2. Ticking' = Ticking
  BY DEF Ticking
<1>3. \A at \in {"beginTicker", "endTicker"} :
          TickersOf(at) = [m \in Mods |-> {}] /\ TickersOf(at)' = [m \in Mods |-> {}]
  BY <1>1 DEF TickersOf
<1>. QED  BY <1>2, <1>3 DEF Due

(* Nothing that the promise speaks of changes.                             *)
LEMMA StutterStep ==
    ASSUME UNCHANGED <<block, conf, Ticking>>,
           \A m \in Mods : DepthOf(m)' = DepthOf(m),
           Ticking => /\ NLoop' = NLoop
                      /\ TickersOf("beginTicker")' = TickersOf("beginTicker")
                      /\ TickersOf("endTicker")' = TickersOf("endTicker")
    PROVE  UNCHANGED Lifecycle!lifecycle
<1>1. Mods' = Mods /\ Nest' = Nest
  BY DEF Mods, NModules, Nest, Mdt
<1>2. OpenScopes' = OpenScopes
  BY <1>1 DEF OpenScopes
<1>3. /\ TickersOf("beginTicker")' = TickersOf("beginTicker")
      /\ TickersOf("endTicker")' = TickersOf("endTicker")
  BY <1>1 DEF TickersOf
<1>. QED  BY <1>2, <1>3 DEF Lifecycle!lifecycle

(* One module changes its depth, the others keep theirs.                   *)
LEMMA OneScope ==
    ASSUME UNCHANGED <<block, conf>>, NEW m \in Mods,
           \A j \in Mods \ {m} : DepthOf(j)' = DepthOf(j)
    PROVE  /\ Mods' = Mods /\ Nest' = Nest
           /\ OpenScopes' = [OpenScopes EXCEPT ![m] = SubSeq(Nest, 1, DepthOf(m)')]
<1>1. Mods' = Mods /\ Nest' = Nest
  BY DEF Mods, NModules, Nest, Mdt
<1>. QED  BY <1>1 DEF OpenScopes

LEMMA BeginScopeStep ==
    ASSUME TypeOK, TypeOK', UNCHANGED <<block, conf>>, ~ Ticking, ~ Ticking',
           NEW m \in Mods, DepthOf(m)' = DepthOf(m) + 1,
           \A j \in Mods \ {m} : DepthOf(j)' = DepthOf(j),
           \A j \in Mods : j < m => DepthOf(j) > DepthOf(m)
    PROVE  Lifecycle!Next
<1>1. View
  BY ViewHolds
<1>2. DepthOf(m) \in 0 .. 4 /\ DepthOf(m)' \in 0 .. 4
  BY Depths, DepthsNext, OneScope DEF DepthTable
<1>3. DepthOf(m) < 4
  BY <1>2
<1>4. Nest \in {Lifecycle!MarketsFirst, Lifecycle!DatesFirst}
  BY DEF Nest, Lifecycle!MarketsFirst, Lifecycle!DatesFirst
<1>5. /\ OpenScopes[m] = SubSeq(Nest, 1, Lifecycle!Depth(m))
      /\ OpenScopes' = [OpenScopes EXCEPT ![m] = SubSeq(Nest, 1, Lifecycle!Depth(m) + 1)]
  BY <1>1, OneScope DEF View
<1>6. UNCHANGED <<Ticking, Due, TickersOf("beginTicker"), TickersOf("endTicker")>>
  BY NoTickers
<1>7. Lifecycle!BeginScope(m)
  BY <1>1, <1>3, <1>4, <1>5, <1>6 DEF Lifecycle!BeginScope, View, Due
<1>. QED  BY <1>1, <1>7 DEF Lifecycle!Next, View

LEMMA EndScopeStep ==
    ASSUME TypeOK, TypeOK', UNCHANGED <<block, conf>>, NEW m \in Mods,
           DepthOf(m) \in 1 .. 3, DepthOf(m)' = DepthOf(m) - 1,
           \A j \in Mods \ {m} : DepthOf(j)' = DepthOf(j),
           Nest[DepthOf(m)] \in {"Market", "Job"} => \A j \in Mods : j < m => DepthOf(j) < DepthOf(m),
           Nest[DepthOf(m)] \in {"Day", "Job"} => \A j \in Mods : DepthOf(j) <= DepthOf(m),
           UNCHANGED <<Ticking, Due, TickersOf("beginTicker"), TickersOf("endTicker")>>
    PROVE  Lifecycle!Next
<1>1. View
  BY ViewHolds
<1>2. Nest[DepthOf(m)] # "MarketDay"
  BY DEF Nest
<1>3. OpenScopes' = [OpenScopes EXCEPT ![m] = SubSeq(@, 1, Lifecycle!Depth(m) - 1)]
  <2>1. OpenScopes' = [OpenScopes EXCEPT ![m] = SubSeq(Nest, 1, DepthOf(m) - 1)]
    BY OneScope
  <2>2. SubSeq(SubSeq(Nest, 1, DepthOf(m)), 1, DepthOf(m) - 1) = SubSeq(Nest, 1, DepthOf(m) - 1)
    BY Scopes
  <2>. QED  BY <1>1, <2>1, <2>2 DEF View, OpenScopes
<1>4. Lifecycle!EndScope(m)
  BY <1>1, <1>2, <1>3 DEF Lifecycle!EndScope, View, Due
<1>. QED  BY <1>1, <1>4 DEF Lifecycle!Next, View

(* The only scope of a module that changes while tickers are under way is  *)
(* that of a module that is out of the market day already.                 *)
LEMMA TickersKept ==
    ASSUME TypeOK, UNCHANGED <<block, conf, nTickers, thr>>, NEW m \in Mods,
           pc # "create", pc' # "create", DepthOf(m) # 4, DepthOf(m)' # 4,
           \A j \in Mods \ {m} : DepthOf(j)' = DepthOf(j), UNCHANGED Ticking
    PROVE  UNCHANGED <<Due, TickersOf("beginTicker"), TickersOf("endTicker")>>
<1>1. Mods' = Mods /\ Threads' = Threads /\ NLoop' = NLoop
  BY DEF Mods, NModules, Threads, NLoop
<1>2. \A i : SliceOf(i)' = SliceOf(i)
  BY <1>1 DEF SliceOf
<1>3. ASSUME NEW i \in Threads, NEW n, NEW at
      PROVE  Entered(n, i, at)' = Entered(n, i, at)
  <2>1. \A t : Before(i, t)' = Before(i, t)
    BY <1>2 DEF Before
  <2>2. thr[i].at \in {"none", "created", "beginTicker", "endTicker", "done"}
    BY DEF TypeOK, ThreadType
  <2>3. CASE InTicker(i)
    BY <2>1, <2>3 DEF Entered, InTicker
  <2>4. CASE ~ InTicker(i)
    BY <1>2, <2>2, <2>4 DEF Entered, InTicker
  <2>. QED  BY <2>3, <2>4
<1>4. \A j \in Mods : DepthOf(j)' = 4 <=> DepthOf(j) = 4
  OBVIOUS
<1>5. ASSUME NEW at PROVE TickersOf(at)' = TickersOf(at)
  <2>1. \A n \in Mods : UNION {Entered(n, i, at)' : i \in Threads} = UNION {Entered(n, i, at) : i \in Threads}
    BY <1>3
  <2>. QED  BY <1>1, <1>4, <2>1 DEF TickersOf
<1>. QED  BY <1>1, <1>5 DEF Due

LEMMA EndMarketDayStep ==
    ASSUME TypeOK, TypeOK', UNCHANGED <<block, conf, nTickers, thr>>, NEW m \in Mods,
           pc # "create", pc' # "create", \A i \in Threads : thr[i].at = "none",
           UNION {SliceOf(i) : i \in Threads} = 0 .. NLoop - 1,
           Ticking, Ticking' <=> \E j \in Mods \ {m} : DepthOf(j) = 4,
           DepthOf(m) = 4, DepthOf(m)' = 3, \A j \in Mods : j < m => DepthOf(j) < 4,
           \A j \in Mods \ {m} : DepthOf(j)' = DepthOf(j)
    PROVE  Lifecycle!Next
<1>1. View
  BY ViewHolds
<1>2. Nest[4] = "MarketDay" /\ \A d \in 1 .. 3 : Nest[d] # "MarketDay"
  BY DEF Nest
<1>3. \A j \in Mods : Lifecycle!Inside(j, "MarketDay") <=> DepthOf(j) = 4
  <2> TAKE j \in Mods
  <2>1. Lifecycle!Inside(j, "MarketDay") <=> (DepthOf(j) > 0 /\ Nest[DepthOf(j)] = "MarketDay")
    BY <1>1 DEF View
  <2>2. DepthOf(j) \in 0 .. 4
    BY <1>1 DEF View
  <2>. QED  BY <1>2, <2>1, <2>2
<1>4. OpenScopes' = [OpenScopes EXCEPT ![m] = SubSeq(@, 1, Lifecycle!Depth(m) - 1)]
  <2>1. OpenScopes' = [OpenScopes EXCEPT ![m] = SubSeq(Nest, 1, 3)]
    BY OneScope
  <2>2. SubSeq(SubSeq(Nest, 1, 4), 1, 3) = SubSeq(Nest, 1, 3)
    BY Scopes
  <2>3. Lifecycle!Depth(m) - 1 = 3 /\ OpenScopes[m] = SubSeq(Nest, 1, 4)
    BY <1>1 DEF View
  <2>. QED  BY <2>1, <2>2, <2>3 DEF OpenScopes
<1>5. Mods' = Mods /\ Threads' = Threads /\ NLoop' = NLoop
  BY DEF Mods, NModules, Threads, NLoop
<1>6. \A i \in Threads : \A n, at : Entered(n, i, at) = SliceOf(i) /\ Entered(n, i, at)' = SliceOf(i)
  BY <1>5 DEF Entered, SliceOf
<1>7. ASSUME NEW at \in {"beginTicker", "endTicker"}
      PROVE  /\ TickersOf(at) = [n \in Mods |-> IF DepthOf(n) = 4 THEN Due ELSE {}]
             /\ TickersOf(at)' = [TickersOf(at) EXCEPT ![m] = {}]
  <2>1. \A n : UNION {Entered(n, i, at) : i \in Threads} = Due
    BY <1>6 DEF Due
  <2>2. \A n : UNION {Entered(n, i, at)' : i \in Threads} = Due
    BY <1>6 DEF Due
  <2>3. TickersOf(at) = [n \in Mods |-> IF DepthOf(n) = 4 THEN Due ELSE {}]
    BY <2>1 DEF TickersOf
  <2>4. TickersOf(at)' = [n \in Mods |-> IF Ticking' /\ DepthOf(n)' = 4 THEN Due ELSE {}]
    BY <1>5, <2>2 DEF TickersOf
  <2>5. \A n \in Mods : Ticking' /\ DepthOf(n)' = 4 <=> n # m /\ DepthOf(n) = 4
    OBVIOUS
  <2>. QED  BY <2>3, <2>4, <2>5
<1>8. Due' = IF \E j \in Mods \ {m} : DepthOf(j) = 4 THEN Due ELSE {}
  BY <1>5 DEF Due
<1>9. Ticking' = (\E j \in Mods \ {m} : DepthOf(j) = 4)
  BY DEF Ticking
<1>10. Lifecycle!EndMarketDay(m)
  <2> DEFINE last == \A j \in Mods \ {m} : ~ Lifecycle!Inside(j, "MarketDay")
  <2>1. Ticking' = ~ last /\ Due' = IF last THEN {} ELSE Due
    BY <1>3, <1>8, <1>9
  <2>2. /\ TickersOf("beginTicker")[m] = Due /\ TickersOf("endTicker")[m] = Due
        /\ TickersOf("beginTicker")' = [TickersOf("beginTicker") EXCEPT ![m] = {}]
        /\ TickersOf("endTicker")' = [TickersOf("endTicker") EXCEPT ![m] = {}]
    BY <1>7
  <2>3. /\ Lifecycle!Inside(m, "MarketDay")
        /\ \A j \in Mods : j < m => ~ Lifecycle!Inside(j, "MarketDay")
    BY <1>3
  <2>4. Lifecycle!Modules = Mods
    BY <1>1 DEF View
  <2>. QED  BY <1>4, <2>1, <2>2, <2>3, <2>4 DEF Lifecycle!EndMarketDay, Due
<1>. QED  BY <1>1, <1>10 DEF Lifecycle!Next, View

------------------------
(* The ticker loop.                                                        *)

(* Without it a market day with ticker threads processes no ticker.        *)
SomeThread == conf.multiThreadTicker => conf.nMaxThreadTicker > 0

LEMMA SlicesOfThreads ==
    ASSUME TypeOK, SomeThread
    PROVE  /\ UNION {SliceOf(i) : i \in Threads} = 0 .. NLoop - 1
           /\ \A i, j \in Threads : i # j => SliceOf(i) \cap SliceOf(j) = {}
<1>1. NLoop \in Nat /\ conf.nMaxThreadTicker \in Nat /\ conf.multiThreadTicker \in BOOLEAN
  BY ConfFields
<1>2. CASE conf.multiThreadTicker
  <2> DEFINE T == conf.nMaxThreadTicker
             c == TickerEachThread(NLoop, T)
  <2>1. T \in Nat \ {0} /\ Threads = 0 .. T - 1 /\ \A i : SliceOf(i) = Slice(NLoop, T, c, i)
    BY <1>1, <1>2 DEF SomeThread, Threads, SliceOf
  <2>2. c \in Nat
    BY <1>2, <2>1, ThreadStartType
  <2> HIDE DEF T, c
  <2>3. \A p \in 0 .. NLoop - 1 : \E i \in 0 .. T - 1 : p \in Slice(NLoop, T, c, i)
    BY <1>1, <2>1, <2>2, SlicesCover
  <2>4. \A i \in 0 .. T - 1 : Slice(NLoop, T, c, i) \subseteq 0 .. NLoop - 1
    BY <1>1, <2>1, <2>2, SliceInRange
  <2>5. \A i, j \in 0 .. T - 1 : i # j => Slice(NLoop, T, c, i) \cap Slice(NLoop, T, c, j) = {}
    BY <1>1, <2>1, <2>2, SlicesDisjoint
  <2>. QED  BY <2>1, <2>3, <2>4, <2>5
<1>3. CASE ~ conf.multiThreadTicker
  BY <1>3 DEF Threads, SliceOf
<1>. QED  BY <1>1, <1>2, <1>3

LEMMA EnteredInSlice ==
    ASSUME TypeOK, LifeInv, NEW i \in Threads, NEW m \in Mods, NEW at
    PROVE  Entered(m, i, at) \subseteq SliceOf(i)
<1>1. thr[i].at \in {"none", "created", "beginTicker", "endTicker", "done"}
  BY DEF TypeOK, ThreadType
<1>2. CASE InTicker(i)
  <2>1. thr[i].tk \in SliceOf(i)
    BY <1>2 DEF LifeInv, InOwnSlice
  <2>. QED  BY <1>2, <2>1 DEF Entered, Before, InTicker
<1>3. CASE ~ InTicker(i)
  BY <1>1, <1>3 DEF Entered, InTicker
<1>. QED  BY <1>2, <1>3

(* In the ticker loop every module is in the market day.                   *)
LoopView ==
    pc \in {"create", "join"} =>
        /\ Ticking = TRUE /\ \A m \in Mods : DepthOf(m) = 4
        /\ \A at \in {"beginTicker", "endTicker"} :
               TickersOf(at) = [m \in Mods |-> UNION {Entered(m, i, at) : i \in Threads}]

LEMMA LoopViewHolds == TypeOK => LoopView
<1> SUFFICES ASSUME TypeOK, pc \in {"create", "join"} PROVE LoopView
  BY DEF LoopView
<1>1. \A m \in Mods : DepthOf(m) = 4
  BY Depths DEF DepthTable
<1>2. 1 \in Mods
  BY BlockType DEF Mods
<1>3. Ticking = TRUE
  BY <1>1, <1>2 DEF Ticking
<1>. QED  BY <1>1, <1>3 DEF LoopView, TickersOf

LEMMA LoopViewNext == TypeOK' => LoopView'
BY LoopViewHolds, PTL

(* A step of the loop by thread i that leaves every other thread alone.    *)
LoopStep(i) ==
    /\ TypeOK /\ TypeOK' /\ LifeInv /\ SomeThread
    /\ UNCHANGED <<block, conf, nTickers>>
    /\ pc \in {"create", "join"} /\ pc' \in {"create", "join"}
    /\ \A j \in Threads \ {i} : \A n \in Mods : \A at \in {"beginTicker", "endTicker"} :
           Entered(n, j, at)' = Entered(n, j, at)

LEMMA LoopFrame ==
    ASSUME NEW i \in Threads, LoopStep(i)
    PROVE  /\ Mods' = Mods /\ Threads' = Threads /\ UNCHANGED <<OpenScopes, Ticking, Due>>
           /\ Ticking = TRUE /\ Due = 0 .. NLoop - 1
           /\ Lifecycle!Modules = Mods /\ \A m \in Mods : Lifecycle!Inside(m, "MarketDay")
           /\ \A m : SliceOf(m)' = SliceOf(m)
<1>1. Mods' = Mods /\ Threads' = Threads /\ NLoop' = NLoop /\ Nest' = Nest
  BY DEF LoopStep, Mods, NModules, Threads, NLoop, Nest, Mdt
<1>2. Ticking = TRUE /\ Ticking' = TRUE /\ \A m \in Mods : DepthOf(m) = 4 /\ DepthOf(m)' = 4
  BY <1>1, LoopViewHolds, LoopViewNext DEF LoopStep, LoopView
<1>3. OpenScopes' = OpenScopes
  BY <1>1, <1>2 DEF OpenScopes
<1>4. Nest[4] = "MarketDay"
  BY DEF Nest
<1>5. View
  BY ViewHolds DEF LoopStep
<1>6. Lifecycle!Modules = Mods
  BY <1>5 DEF View
<1>7. \A m \in Mods : Lifecycle!Inside(m, "MarketDay")
  BY <1>2, <1>4, <1>5 DEF View
<1>8. \A m : SliceOf(m)' = SliceOf(m)
  BY <1>1 DEF LoopStep, SliceOf
<1>9. Due = 0 .. NLoop - 1 /\ Due' = Due
  BY <1>1, <1>2 DEF Due
<1>. QED  BY <1>1, <1>2, <1>3, <1>6, <1>7, <1>8, <1>9

(* What every module has entered, thread i's own part and that of the others. *)
LEMMA EntriesOf ==
    ASSUME NEW i \in Threads, LoopStep(i), NEW at \in {"beginTicker", "endTicker"}
    PROVE  \E rest \in [Mods -> SUBSET ((0 .. NLoop - 1) \ SliceOf(i))] :
               /\ TickersOf(at) = [m \in Mods |-> rest[m] \cup Entered(m, i, at)]
               /\ TickersOf(at)' = [m \in Mods |-> rest[m] \cup Entered(m, i, at)']
<1> DEFINE rest == [m \in Mods |-> UNION {Entered(m, j, at) : j \in Threads \ {i}}]
<1>1. Mods' = Mods /\ Threads' = Threads
  BY LoopFrame
<1>2. /\ TickersOf(at) = [m \in Mods |-> UNION {Entered(m, j, at) : j \in Threads}]
      /\ TickersOf(at)' = [m \in Mods |-> UNION {Entered(m, j, at)' : j \in Threads}]
  BY <1>1, LoopViewHolds, LoopViewNext DEF LoopStep, LoopView
<1>3. ASSUME NEW m \in Mods
      PROVE  /\ UNION {Entered(m, j, at) : j \in Threads} = rest[m] \cup Entered(m, i, at)
             /\ UNION {Entered(m, j, at)' : j \in Threads} = rest[m] \cup Entered(m, i, at)'
             /\ rest[m] \in SUBSET ((0 .. NLoop - 1) \ SliceOf(i))
  <2>1. \A j \in Threads \ {i} : Entered(m, j, at)' = Entered(m, j, at)
    BY DEF LoopStep
  <2>2. \A j \in Threads : Entered(m, j, at) \subseteq SliceOf(j)
    BY EnteredInSlice DEF LoopStep
  <2>3. /\ \A j \in Threads : SliceOf(j) \subseteq 0 .. NLoop - 1
        /\ \A j \in Threads \ {i} : SliceOf(i) \cap SliceOf(j) = {}
    BY SlicesOfThreads DEF LoopStep
  <2>. QED  BY <2>1, <2>2, <2>3
<1>4. rest \in [Mods -> SUBSET ((0 .. NLoop - 1) \ SliceOf(i))]
  BY <1>3
<1>. QED  BY <1>2, <1>3, <1>4

LEMMA BeginTickerStep ==
    ASSUME NEW i \in Threads, LoopStep(i), NEW m \in Mods, NEW t \in SliceOf(i),
           \A n \in Mods : Entered(n, i, "beginTicker")' = IF n = m THEN Entered(n, i, "beginTicker") \cup {t}
                                                        ELSE Entered(n, i, "beginTicker"),
           \A n \in Mods : Entered(n, i, "endTicker")' = Entered(n, i, "endTicker"),
           t \notin Entered(m, i, "beginTicker"),
           \A n \in Mods : /\ n < m => t \in Entered(n, i, "beginTicker")
                           /\ t \notin Entered(n, i, "endTicker")
    PROVE  Lifecycle!Next
<1>1. PICK bs \in [Mods -> SUBSET ((0 .. NLoop - 1) \ SliceOf(i))] :
          /\ TickersOf("beginTicker") = [n \in Mods |-> bs[n] \cup Entered(n, i, "beginTicker")]
          /\ TickersOf("beginTicker")' = [n \in Mods |-> bs[n] \cup Entered(n, i, "beginTicker")']
  BY EntriesOf
<1>2. PICK es \in [Mods -> SUBSET ((0 .. NLoop - 1) \ SliceOf(i))] :
          /\ TickersOf("endTicker") = [n \in Mods |-> es[n] \cup Entered(n, i, "endTicker")]
          /\ TickersOf("endTicker")' = [n \in Mods |-> es[n] \cup Entered(n, i, "endTicker")']
  BY EntriesOf
<1>3. /\ TickersOf("beginTicker")' = [TickersOf("beginTicker") EXCEPT ![m] = @ \cup {t}]
      /\ TickersOf("endTicker")' = TickersOf("endTicker")
  <2>1. TickersOf("beginTicker")' = [TickersOf("beginTicker") EXCEPT ![m] = @ \cup {t}]
    BY <1>1
  <2>2. TickersOf("endTicker")' = TickersOf("endTicker")
    BY <1>2
  <2>. QED  BY <2>1, <2>2
<1>4. \A n \in Mods : /\ t \in TickersOf("beginTicker")[n] <=> t \in Entered(n, i, "beginTicker")
                      /\ t \in TickersOf("endTicker")[n] <=> t \in Entered(n, i, "endTicker")
  BY <1>1, <1>2
<1>5. t \in 0 .. NLoop - 1
  BY SlicesOfThreads DEF LoopStep
<1>6. Lifecycle!BeginTicker(m, t)
  <2>1. /\ Ticking = TRUE /\ UNCHANGED <<OpenScopes, Ticking, Due>> /\ t \in Due
        /\ Lifecycle!Modules = Mods /\ \A n \in Mods : Lifecycle!Inside(n, "MarketDay")
    BY <1>5, LoopFrame
  <2>2. Due' = Due /\ Due = IF Ticking THEN 0 .. NLoop - 1 ELSE {}
    BY <2>1 DEF Due
  <2>3. \A n \in Mods : /\ n < m => t \in TickersOf("beginTicker")[n]
                        /\ t \notin TickersOf("endTicker")[n]
    BY <1>4
  <2>4. t \notin TickersOf("beginTicker")[m]
    BY <1>4
  <2>. QED  BY <1>3, <2>1, <2>2, <2>3, <2>4 DEF Lifecycle!BeginTicker, Due
<1>. QED  BY <1>5, <1>6, LoopFrame DEF Lifecycle!Next, Due

LEMMA EndTickerStep ==
    ASSUME NEW i \in Threads, LoopStep(i), NEW m \in Mods, NEW t \in SliceOf(i),
           \A n \in Mods : Entered(n, i, "endTicker")' = IF n = m THEN Entered(n, i, "endTicker") \cup {t}
                                                        ELSE Entered(n, i, "endTicker"),
           \A n \in Mods : Entered(n, i, "beginTicker")' = Entered(n, i, "beginTicker"),
           t \notin Entered(m, i, "endTicker"),
           \A n \in Mods : /\ n < m => t \in Entered(n, i, "endTicker")
                           /\ t \in Entered(n, i, "beginTicker")
    PROVE  Lifecycle!Next
<1>1. PICK bs \in [Mods -> SUBSET ((0 .. NLoop - 1) \ SliceOf(i))] :
          /\ TickersOf("beginTicker") = [n \in Mods |-> bs[n] \cup Entered(n, i, "beginTicker")]
          /\ TickersOf("beginTicker")' = [n \in Mods |-> bs[n] \cup Entered(n, i, "beginTicker")']
  BY EntriesOf
<1>2. PICK es \in [Mods -> SUBSET ((0 .. NLoop - 1) \ SliceOf(i))] :
          /\ TickersOf("endTicker") = [n \in Mods |-> es[n] \cup Entered(n, i, "endTicker")]
          /\ TickersOf("endTicker")' = [n \in Mods |-> es[n] \cup Entered(n, i, "endTicker")']
  BY EntriesOf
<1>3. /\ TickersOf("endTicker")' = [TickersOf("endTicker") EXCEPT ![m] = @ \cup {t}]
      /\ TickersOf("beginTicker")' = TickersOf("beginTicker")
  <2>1. TickersOf("endTicker")' = [TickersOf("endTicker") EXCEPT ![m] = @ \cup {t}]
    BY <1>2
  <2>2. TickersOf("beginTicker")' = TickersOf("beginTicker")
    BY <1>1
  <2>. QED  BY <2>1, <2>2
<1>4. \A n \in Mods : /\ t \in TickersOf("beginTicker")[n] <=> t \in Entered(n, i, "beginTicker")
                      /\ t \in TickersOf("endTicker")[n] <=> t \in Entered(n, i, "endTicker")
  BY <1>1, <1>2
<1>5. t \in 0 .. NLoop - 1
  BY SlicesOfThreads DEF LoopStep
<1>6. Lifecycle!EndTicker(m, t)
  <2>1. /\ Ticking = TRUE /\ UNCHANGED <<OpenScopes, Ticking, Due>> /\ t \in Due
        /\ Lifecycle!Modules = Mods /\ \A n \in Mods : Lifecycle!Inside(n, "MarketDay")
    BY <1>5, LoopFrame
  <2>2. Due' = Due /\ Due = IF Ticking THEN 0 .. NLoop - 1 ELSE {}
    BY <2>1 DEF Due
  <2>3. \A n \in Mods : /\ n < m => t \in TickersOf("endTicker")[n]
                        /\ t \in TickersOf("beginTicker")[n]
    BY <1>4
  <2>4. t \notin TickersOf("endTicker")[m]
    BY <1>4
  <2>. QED  BY <1>3, <2>1, <2>2, <2>3, <2>4 DEF Lifecycle!EndTicker, Due
<1>. QED  BY <1>5, <1>6, LoopFrame DEF Lifecycle!Next, Due

LEMMA LoopStutter ==
    ASSUME NEW i \in Threads, LoopStep(i),
           \A n \in Mods : \A at \in {"beginTicker", "endTicker"} : Entered(n, i, at)' = Entered(n, i, at)
    PROVE  UNCHANGED Lifecycle!lifecycle
<1>1. ASSUME NEW at \in {"beginTicker", "endTicker"} PROVE TickersOf(at)' = TickersOf(at)
  <2>1. PICK rest \in [Mods -> SUBSET ((0 .. NLoop - 1) \ SliceOf(i))] :
            /\ TickersOf(at) = [n \in Mods |-> rest[n] \cup Entered(n, i, at)]
            /\ TickersOf(at)' = [n \in Mods |-> rest[n] \cup Entered(n, i, at)']
    BY EntriesOf
  <2>. QED  BY <2>1
<1>. QED  BY <1>1, LoopFrame DEF Lifecycle!lifecycle, Due

(* A thread that goes on to the position from, having ended those before,  *)
(* begins that ticker, or ends when its slice does.                        *)
LEMMA GoesOn ==
    ASSUME NEW i \in Threads, LoopStep(i), NEW from \in Int, NEW to \in Int,
           \A p \in Int : p \in SliceOf(i) /\ p >= from <=> p \in from .. to - 1,
           thr' \in [Threads -> ThreadType], thr'[i] = FromTo(from, to),
           \A n \in Mods : \A at \in {"beginTicker", "endTicker"} : Entered(n, i, at) = Before(i, from)
    PROVE  Lifecycle!Next \/ UNCHANGED Lifecycle!lifecycle
<1>0. TypeOK
  BY DEF LoopStep
<1>1. SliceOf(i)' = SliceOf(i) /\ SliceOf(i) \subseteq Int /\ 1 \in Mods
  <2>1. SliceOf(i)' = SliceOf(i)
    BY LoopFrame
  <2>2. SliceOf(i) \subseteq Int
    BY <1>0, SliceOfType
  <2>. QED  BY <1>0, <2>1, <2>2, BlockType DEF Mods
<1>2. \A p : Before(i, p)' = Before(i, p)
  BY <1>1 DEF Before
<1>3. CASE from < to
  <2>1. thr'[i].at = "beginTicker" /\ thr'[i].tk = from /\ thr'[i].mod = 1
    BY <1>3 DEF FromTo, Inside
  <2>2. from \in SliceOf(i) /\ from \notin Before(i, from)
    BY <1>3 DEF Before
  <2>3. \A n \in Mods : n >= 1 /\ (1 >= n <=> n = 1)
    BY DEF Mods
  <2>4. \A n \in Mods : Entered(n, i, "beginTicker")' = IF n = 1 THEN Before(i, from) \cup {from} ELSE Before(i, from)
    BY <1>2, <2>1, <2>3 DEF Entered
  <2>5. \A n \in Mods : Entered(n, i, "endTicker")' = Before(i, from)
    BY <1>2, <2>1 DEF Entered
  <2>6. \A n \in Mods : ~ (n < 1)
    BY <2>3, BlockType DEF LoopStep, Mods
  <2>. QED  BY <1>1, <2>2, <2>4, <2>5, <2>6, BeginTickerStep
<1>4. CASE ~ (from < to)
  <2>1. thr'[i].at = "done"
    BY <1>4 DEF FromTo, AtRest
  <2>2. \A p \in SliceOf(i) : p < from
    BY <1>1, <1>4
  <2>3. Before(i, from) = SliceOf(i)
    BY <2>2 DEF Before
  <2>4. \A n, at : Entered(n, i, at)' = SliceOf(i)
    BY <1>1, <2>1 DEF Entered
  <2>. QED  BY <2>3, <2>4, LoopStutter
<1>. QED  BY <1>3, <1>4

(* A callback of thread i returns and the next one is entered.             *)
LEMMA TickerSteps ==
    ASSUME TypeInv, TypeInv', ThreadInv, LifeInv, SomeThread, NEW i \in Threads, TickerThread(i)
    PROVE  Lifecycle!Next \/ UNCHANGED Lifecycle!lifecycle
<1>1. /\ UNCHANGED <<block, conf, nTickers, pc, k>> /\ thr[i].at # "none"
      /\ \A j \in Threads \ {i} : thr'[j] = thr[j]
  BY DEF TickerThread, ThreadStart, BeginTicker, EndTicker, setup, env, TypeInv, TypeOK
<1>2. Threads' = Threads /\ Mods' = Mods /\ NModules' = NModules /\ \A j : SliceOf(j)' = SliceOf(j)
  BY <1>1 DEF Threads, Mods, NModules, SliceOf, NLoop
<1>3. \A j, p : Before(j, p)' = Before(j, p)
  BY <1>2 DEF Before
<1>4. ASSUME NEW j \in Threads \ {i}, NEW n, NEW at PROVE Entered(n, j, at)' = Entered(n, j, at)
  <2>1. thr[j].at \in {"none", "created", "beginTicker", "endTicker", "done"}
    BY DEF TypeInv, TypeOK, ThreadType
  <2>2. CASE InTicker(j)
    BY <1>1, <1>3, <2>2 DEF Entered, InTicker
  <2>3. CASE ~ InTicker(j)
    BY <1>1, <1>2, <2>1, <2>3 DEF Entered, InTicker
  <2>. QED  BY <2>2, <2>3
<1>5. LoopStep(i)
  BY <1>1, <1>4 DEF LoopStep, ThreadInv, TypeInv
<1>6. thr' \in [Threads -> ThreadType]
  BY <1>2 DEF TypeInv, TypeOK
<1>7. CASE ThreadStart(i)
  <2>1. PICK from, to \in Int :
            /\ thr'[i] = FromTo(from, to)
            /\ \A p \in Int : p \in SliceOf(i) /\ p >= from <=> p \in from .. to - 1
            /\ \A p \in SliceOf(i) : p >= from
    BY <1>7, StartInSlice
  <2>2. Before(i, from) = {}
    BY <2>1, SliceOfType DEF Before, TypeInv
  <2>3. \A n, at : Entered(n, i, at) = {}
    BY <1>7 DEF ThreadStart, Entered
  <2>. QED  BY <1>5, <1>6, <2>1, <2>2, <2>3, GoesOn
<1>8. CASE BeginTicker(i) \/ EndTicker(i)
  <2> DEFINE t == thr[i].tk
             m == thr[i].mod
  <2>1. InTicker(i) /\ m \in Mods /\ t \in SliceOf(i) /\ t \in Int /\ m \in Nat
    BY <1>8 DEF BeginTicker, EndTicker, InTicker, LifeInv, InOwnSlice, TypeInv, TypeOK, ThreadType
  <2>2. t \notin Before(i, t)
    BY <2>1 DEF Before
  <2>3. Mods \subseteq Nat /\ (m < NModules => m + 1 \in Mods) /\ 1 \in Mods /\ (\A n \in Mods : n <= NModules)
    BY <2>1, BlockType DEF Mods, TypeInv
  <2>4. CASE BeginTicker(i)
    <3>1. /\ \A n : Entered(n, i, "beginTicker") = IF m >= n THEN Before(i, t) \cup {t} ELSE Before(i, t)
          /\ \A n : Entered(n, i, "endTicker") = Before(i, t)
      BY <2>4 DEF BeginTicker, Entered
    <3>2. CASE m < NModules
      <4>1. thr'[i].at = "beginTicker" /\ thr'[i].tk = t /\ thr'[i].mod = m + 1
        BY <2>4, <3>2 DEF BeginTicker, TypeInv, TypeOK, Inside
      <4>2. /\ \A n : Entered(n, i, "beginTicker")' = IF m + 1 >= n THEN Before(i, t) \cup {t} ELSE Before(i, t)
            /\ \A n : Entered(n, i, "endTicker")' = Before(i, t)
        BY <1>3, <4>1 DEF Entered
      <4> HIDE DEF t, m
      <4>3. \A n \in Mods : /\ m + 1 >= n <=> m >= n \/ n = m + 1
                            /\ n < m + 1 => m >= n
                            /\ ~ (m >= m + 1)
        BY <2>1, <2>3
      <4>4. ASSUME NEW n \in Mods
            PROVE  Entered(n, i, "beginTicker")' = IF n = m + 1 THEN Entered(n, i, "beginTicker") \cup {t}
                                                  ELSE Entered(n, i, "beginTicker")
        <5>1. CASE n = m + 1
          BY <3>1, <4>2, <4>3, <5>1
        <5>2. CASE n # m + 1
          <6>1. m + 1 >= n <=> m >= n
            BY <4>3, <5>2
          <6>. QED  BY <3>1, <4>2, <5>2, <6>1
        <5>. QED  BY <5>1, <5>2
      <4>5. ASSUME NEW n \in Mods, n < m + 1 PROVE t \in Entered(n, i, "beginTicker")
        <5>1. m >= n
          BY <4>3, <4>5
        <5>2. Entered(n, i, "beginTicker") = Before(i, t) \cup {t}
          BY <3>1, <5>1
        <5>. QED  BY <5>2
      <4>6. /\ m + 1 \in Mods /\ t \in SliceOf(i) /\ t \notin Entered(m + 1, i, "beginTicker")
            /\ \A n \in Mods : t \notin Entered(n, i, "endTicker")
        BY <2>1, <2>2, <2>3, <3>1, <3>2, <4>3
      <4>7. \A n \in Mods : Entered(n, i, "endTicker")' = Entered(n, i, "endTicker")
        BY <3>1, <4>2
      <4>. QED  BY <1>5, <4>4, <4>5, <4>6, <4>7, BeginTickerStep
    <3>3. CASE ~ (m < NModules)
      <4>1. thr'[i].at = "endTicker" /\ thr'[i].tk = t /\ thr'[i].mod = 1
        BY <2>4, <3>3 DEF BeginTicker, TypeInv, TypeOK, Inside
      <4>2. /\ \A n : Entered(n, i, "beginTicker")' = Before(i, t) \cup {t}
            /\ \A n : Entered(n, i, "endTicker")' = IF 1 >= n THEN Before(i, t) \cup {t} ELSE Before(i, t)
        BY <1>3, <4>1 DEF Entered
      <4> HIDE DEF t, m
      <4>3. \A n \in Mods : m >= n /\ (1 >= n <=> n = 1) /\ ~ (n < 1)
        <5>1. NModules \in Nat
          BY BlockType DEF TypeInv
        <5>. QED  BY <2>1, <2>3, <3>3, <5>1 DEF Mods
      <4>4. \A n \in Mods : Entered(n, i, "endTicker")' = IF n = 1 THEN Entered(n, i, "endTicker") \cup {t}
                                                              ELSE Entered(n, i, "endTicker")
        BY <3>1, <4>2, <4>3
      <4>5. 1 \in Mods /\ t \in SliceOf(i)
        BY <2>1, <2>3, BlockType DEF Mods, TypeInv
      <4>6. \A n \in Mods : Entered(n, i, "beginTicker")' = Entered(n, i, "beginTicker")
        BY <3>1, <4>2, <4>3
      <4>7. t \notin Entered(1, i, "endTicker")
        BY <2>2, <3>1, <4>5
      <4>8. \A n \in Mods : ~ (n < 1) /\ t \in Entered(n, i, "beginTicker")
        BY <3>1, <4>3
      <4>. QED  BY <1>5, <4>4, <4>5, <4>6, <4>7, <4>8, EndTickerStep
    <3>. QED  BY <3>2, <3>3
  <2>5. CASE EndTicker(i)
    <3>1. /\ \A n : Entered(n, i, "beginTicker") = Before(i, t) \cup {t}
          /\ \A n : Entered(n, i, "endTicker") = IF m >= n THEN Before(i, t) \cup {t} ELSE Before(i, t)
      BY <2>5 DEF EndTicker, Entered
    <3>2. CASE m < NModules
      <4>1. thr'[i].at = "endTicker" /\ thr'[i].tk = t /\ thr'[i].mod = m + 1
        BY <2>5, <3>2 DEF EndTicker, TypeInv, TypeOK, Inside
      <4>2. /\ \A n : Entered(n, i, "beginTicker")' = Before(i, t) \cup {t}
            /\ \A n : Entered(n, i, "endTicker")' = IF m + 1 >= n THEN Before(i, t) \cup {t} ELSE Before(i, t)
        BY <1>3, <4>1 DEF Entered
      <4> HIDE DEF t, m
      <4>3. \A n \in Mods : /\ m + 1 >= n <=> m >= n \/ n = m + 1
                            /\ n < m + 1 => m >= n
                            /\ ~ (m >= m + 1)
        BY <2>1, <2>3
      <4>4. ASSUME NEW n \in Mods
            PROVE  Entered(n, i, "endTicker")' = IF n = m + 1 THEN Entered(n, i, "endTicker") \cup {t}
                                                  ELSE Entered(n, i, "endTicker")
        <5>1. CASE n = m + 1
          BY <3>1, <4>2, <4>3, <5>1
        <5>2. CASE n # m + 1
          <6>1. m + 1 >= n <=> m >= n
            BY <4>3, <5>2
          <6>. QED  BY <3>1, <4>2, <5>2, <6>1
        <5>. QED  BY <5>1, <5>2
      <4>5. ASSUME NEW n \in Mods, n < m + 1 PROVE t \in Entered(n, i, "endTicker")
        <5>1. m >= n
          BY <4>3, <4>5
        <5>2. Entered(n, i, "endTicker") = Before(i, t) \cup {t}
          BY <3>1, <5>1
        <5>. QED  BY <5>2
      <4>6. /\ m + 1 \in Mods /\ t \in SliceOf(i) /\ t \notin Entered(m + 1, i, "endTicker")
            /\ \A n \in Mods : t \in Entered(n, i, "beginTicker")
        BY <2>1, <2>2, <2>3, <3>1, <3>2, <4>3
      <4>7. \A n \in Mods : Entered(n, i, "beginTicker")' = Entered(n, i, "beginTicker")
        BY <3>1, <4>2
      <4>. QED  BY <1>5, <4>4, <4>5, <4>6, <4>7, EndTickerStep
    <3>3. CASE ~ (m < NModules)
      <4>1. /\ thr'[i] = FromTo(t + 1, thr[i].to) /\ thr[i].to \in Int
        BY <2>5, <3>3 DEF EndTicker, TypeInv, TypeOK, ThreadType
      <4>2. \A p \in Int : p \in SliceOf(i) /\ p >= t <=> p \in t .. thr[i].to - 1
        BY <2>1 DEF LifeInv, InOwnSlice
      <4> HIDE DEF t, m
      <4>3. \A p \in Int : p \in SliceOf(i) /\ p >= t + 1 <=> p \in t + 1 .. thr[i].to - 1
        BY <2>1, <4>1, <4>2
      <4>4. Before(i, t) \cup {t} = Before(i, t + 1)
        BY <2>1, SliceOfType DEF Before, TypeInv
      <4>5. \A n \in Mods : m >= n
        <5>1. NModules \in Nat
          BY BlockType DEF TypeInv
        <5>. QED  BY <2>1, <2>3, <3>3, <5>1
      <4>6. \A n \in Mods : \A at \in {"beginTicker", "endTicker"} : Entered(n, i, at) = Before(i, t + 1)
        BY <3>1, <4>4, <4>5
      <4>7. t + 1 \in Int
        BY <2>1
      <4>. QED  BY <1>5, <1>6, <4>1, <4>3, <4>6, <4>7, GoesOn
    <3>. QED  BY <3>2, <3>3
  <2>. QED  BY <1>8, <2>4, <2>5
<1>. QED  BY <1>7, <1>8 DEF TickerThread

LEMMA LoopSteps ==
    ASSUME TypeInv, TypeInv', ThreadInv, LifeInv, SomeThread,
           CreateThread \/ AllCreated \/ LoopTickersAlone \/ JoinThread
    PROVE  Lifecycle!Next \/ UNCHANGED Lifecycle!lifecycle
<1>1. UNCHANGED <<block, conf, nTickers>> /\ pc \in {"create", "join"} /\ pc' \in {"create", "join"}
  BY DEF CreateThread, AllCreated, LoopTickersAlone, JoinThread, setup, env, Goto
<1>2. Threads' = Threads /\ \A j : SliceOf(j)' = SliceOf(j)
  BY <1>1 DEF Threads, SliceOf, NLoop
<1>3. \A j, p : Before(j, p)' = Before(j, p)
  BY <1>2 DEF Before
<1>4. ASSUME NEW j \in Threads, NEW n, NEW at, thr'[j] = thr[j],
             thr[j].at = "none" => (pc' = "create" <=> pc = "create")
      PROVE  Entered(n, j, at)' = Entered(n, j, at)
  <2>1. thr[j].at \in {"none", "created", "beginTicker", "endTicker", "done"}
    BY DEF TypeInv, TypeOK, ThreadType
  <2>2. CASE InTicker(j)
    BY <1>3, <1>4, <2>2 DEF Entered, InTicker
  <2>3. CASE ~ InTicker(j)
    BY <1>2, <1>4, <2>1, <2>3 DEF Entered, InTicker
  <2>. QED  BY <2>2, <2>3
<1>5. CASE CreateThread
  <2>1. PICK i \in Threads : i = k /\ pc = "create" /\ pc' = "create" /\ thr[i].at = "none"
    <3>1. pc = "create" /\ pc' = "create" /\ k < conf.nMaxThreadTicker /\ conf.multiThreadTicker /\ k \in Nat
      BY <1>5 DEF CreateThread, Goto, TypeInv, TypeOK
    <3>2. conf.nMaxThreadTicker \in Nat /\ Threads = 0 .. conf.nMaxThreadTicker - 1
      BY <3>1, ConfFields DEF Threads, TypeInv
    <3>3. k \in Threads
      BY <3>1, <3>2
    <3>4. thr[k].at = "none"
      BY <3>1, <3>3 DEF LifeInv
    <3>. QED  BY <3>1, <3>3, <3>4
  <2>2. thr'[i].at = "created" /\ \A j \in Threads \ {i} : thr'[j] = thr[j]
    BY <1>5, <2>1 DEF CreateThread, AtRest, TypeInv, TypeOK
  <2>3. LoopStep(i)
    BY <1>1, <1>4, <2>1, <2>2 DEF LoopStep, TypeInv
  <2>4. \A n, at : Entered(n, i, at) = {} /\ Entered(n, i, at)' = {}
    BY <2>1, <2>2 DEF Entered
  <2>. QED  BY <2>3, <2>4, LoopStutter
<1>6. CASE AllCreated
  <2>1. thr' = thr /\ 0 \in Threads /\ \A j \in Threads : thr[j].at # "none"
    <3>1. thr' = thr /\ k = conf.nMaxThreadTicker /\ conf.multiThreadTicker /\ pc = "create"
      BY <1>6 DEF AllCreated
    <3>2. conf.nMaxThreadTicker \in Nat /\ Threads = 0 .. conf.nMaxThreadTicker - 1
      BY <3>1, ConfFields DEF Threads, TypeInv
    <3>. QED  BY <3>1, <3>2 DEF LifeInv, SomeThread
  <2>2. \A j \in Threads : \A n, at : Entered(n, j, at)' = Entered(n, j, at)
    BY <1>4, <2>1
  <2>3. LoopStep(0)
    BY <1>1, <2>2 DEF LoopStep, TypeInv
  <2>. QED  BY <2>1, <2>2, <2>3, LoopStutter
<1>7. CASE LoopTickersAlone
  <2>1. /\ Threads = {0} /\ SliceOf(0) = 0 .. NLoop - 1 /\ thr[0].at = "none" /\ pc = "create"
        /\ thr'[0] = FromTo(0, NLoop) /\ NLoop \in Int
    BY <1>7, ConfFields DEF LoopTickersAlone, Threads, SliceOf, LifeInv, TypeInv, TypeOK
  <2>2. LoopStep(0)
    BY <1>1, <2>1 DEF LoopStep, TypeInv
  <2>3. \A n, at : Entered(n, 0, at) = {}
    BY <2>1 DEF Entered
  <2>4. Before(0, 0) = {}
    BY <2>1 DEF Before
  <2>5. thr' \in [Threads -> ThreadType]
    BY <1>2 DEF TypeInv, TypeOK
  <2>6. \A p \in Int : p \in SliceOf(0) /\ p >= 0 <=> p \in 0 .. NLoop - 1
    BY <2>1
  <2>7. \A n \in Mods : \A at \in {"beginTicker", "endTicker"} : Entered(n, 0, at) = Before(0, 0)
    BY <2>3, <2>4
  <2>8. 0 \in Threads /\ 0 \in Int
    BY <2>1
  <2>. QED  BY <2>1, <2>2, <2>5, <2>6, <2>7, <2>8, GoesOn
<1>8. CASE JoinThread
  <2>1. PICK i \in Threads : i = k /\ pc = "join" /\ pc' = "join" /\ thr[i].at = "done"
    BY <1>8 DEF JoinThread, Goto
  <2>2. thr'[i].at = "none" /\ \A j \in Threads \ {i} : thr'[j] = thr[j]
    BY <1>8, <2>1 DEF JoinThread, AtRest, TypeInv, TypeOK
  <2>3. LoopStep(i)
    BY <1>1, <1>4, <2>1, <2>2 DEF LoopStep, TypeInv
  <2>4. \A n, at : Entered(n, i, at) = SliceOf(i) /\ Entered(n, i, at)' = SliceOf(i)
    BY <1>2, <2>1, <2>2 DEF Entered
  <2>. QED  BY <2>3, <2>4, LoopStutter
<1>. QED  BY <1>5, <1>6, <1>7, <1>8

------------------------
(* The sweeps of the main thread.                                          *)

(* When the ticker callbacks are under way, by location.                   *)
TickView ==
    /\ pc \notin {"create", "join", "endMarketDay", "endMarket"} => ~ Ticking
    /\ pc = "endMarket" /\ Mdt => ~ Ticking
    /\ pc \in {"create", "join"} => Ticking
    /\ pc \in {"endMarketDay", "endMarket"} => (Ticking <=> \E m \in Mods : DepthOf(m) = 4)

LEMMA TickViewHolds == TypeOK => TickView
<1> SUFFICES ASSUME TypeOK PROVE TickView
  OBVIOUS
<1>1. pc \in Locations /\ 1 \in Mods /\ DepthTable
  BY BlockType, Depths DEF TypeOK, Mods
<1>2. pc \in {"create", "join"} => Ticking
  BY <1>1 DEF Ticking, DepthTable
<1>3. pc \in {"endMarketDay", "endMarket"} => (Ticking <=> \E m \in Mods : DepthOf(m) = 4)
  BY DEF Ticking
<1>4. ASSUME NEW m \in Mods, pc \notin {"create", "join", "endMarketDay", "beginDay", "beginMarket", "beginMarketDay"},
             pc = "endMarket" => Mdt
      PROVE  DepthOf(m) # 4
  BY <1>1, <1>4 DEF DepthTable, Sweep, Locations, Callbacks
<1>5. pc \in {"beginDay", "beginMarket", "beginMarketDay"} => ~ Ticking
  BY DEF Ticking
<1>. QED  BY <1>2, <1>3, <1>4, <1>5 DEF TickView, Ticking

LEMMA TickViewNext == TypeOK' => TickView'
BY TickViewHolds, PTL

LEMMA SweepFrame ==
    ASSUME TypeInv, TypeInv', UNCHANGED <<block, conf>>
    PROVE  /\ TypeOK /\ TypeOK' /\ DepthTable /\ DepthTable' /\ TickView /\ TickView'
           /\ Mods' = Mods /\ NModules' = NModules /\ Mdt' = Mdt /\ Nest' = Nest
           /\ NModules \in Nat /\ 1 \in Mods /\ Mods = 1 .. NModules
           /\ Mdt => conf.loopingOrder = "mdt"
           /\ ~ Mdt => conf.loopingOrder = "dmt"
<1>1. TypeOK /\ TypeOK'
  BY DEF TypeInv
<1>2. DepthTable /\ DepthTable' /\ TickView /\ TickView'
  BY <1>1, Depths, DepthsNext, TickViewHolds, TickViewNext
<1>3. conf.loopingOrder \in {"mdt", "dmt"}
  BY <1>1, ConfFields DEF ConfType
<1>. QED  BY <1>1, <1>2, <1>3, BlockType DEF Mods, NModules, Mdt, Nest

(* Module n's endDay is next; the main thread calls it, or leaves it to a  *)
(* thread of its group.                                                    *)
LEMMA EnterEndDay ==
    ASSUME TypeInv, TypeInv', UNCHANGED <<block, conf>>, NEW n \in Mods, ~ Ticking,
           pc' = "endDay", k' = n, \A m \in Mods : eday'[m] = "none",
           \A m \in Mods : DepthOf(m) = (IF Mdt THEN 3 ELSE 2) - (IF m < n THEN 1 ELSE 0)
    PROVE  Lifecycle!Next \/ UNCHANGED Lifecycle!lifecycle
<1> DEFINE d == IF Mdt THEN 3 ELSE 2
<1>1. /\ TypeOK /\ TypeOK' /\ ~ Ticking' /\ Mods' = Mods /\ Mods \subseteq Nat
      /\ \A m \in Mods : DepthOf(m)' = d - (IF LeftDay(m)' THEN 1 ELSE 0)
  BY SweepFrame DEF DepthTable, TickView
<1>2. \A m \in Mods : LeftDay(m)' <=> m < n \/ (m = n /\ Alone(k)')
  BY DEF LeftDay
<1>3. Nest[d] = "Day"
  BY DEF Nest
<1>4. UNCHANGED <<Ticking, Due, TickersOf("beginTicker"), TickersOf("endTicker")>>
  BY <1>1, NoTickers
<1>5. CASE Alone(k)'
  <2>1. DepthOf(n) = d /\ DepthOf(n)' = d - 1 /\ \A m \in Mods \ {n} : DepthOf(m)' = DepthOf(m)
    BY <1>1, <1>2, <1>5
  <2>2. d \in 1 .. 3 /\ \A m \in Mods : DepthOf(m) <= d
    OBVIOUS
  <2>. QED  BY <1>1, <1>3, <1>4, <2>1, <2>2, EndScopeStep
<1>6. CASE ~ Alone(k)'
  <2>1. \A m \in Mods : DepthOf(m)' = DepthOf(m)
    BY <1>1, <1>2, <1>6
  <2>. QED  BY <1>4, <2>1, StutterStep
<1>. QED  BY <1>5, <1>6

(* The first module enters the next scope after all have entered the last. *)
LEMMA FirstBegins ==
    ASSUME TypeInv, TypeInv', UNCHANGED <<block, conf>>, NEW d \in 0 .. 3, ~ Ticking, ~ Ticking',
           \A m \in Mods : DepthOf(m) = d /\ DepthOf(m)' = IF m <= 1 THEN d + 1 ELSE d
    PROVE  Lifecycle!Next
<1>1. TypeOK /\ TypeOK' /\ 1 \in Mods /\ Mods = 1 .. NModules /\ NModules \in Nat
  BY SweepFrame
<1>2. DepthOf(1)' = DepthOf(1) + 1 /\ \A j \in Mods \ {1} : DepthOf(j)' = DepthOf(j)
  BY <1>1
<1>3. \A j \in Mods : ~ (j < 1)
  BY <1>1
<1>. QED  BY <1>1, <1>2, <1>3, BeginScopeStep

(* The first module leaves a scope that all are in.                        *)
LEMMA FirstEnds ==
    ASSUME TypeInv, TypeInv', UNCHANGED <<block, conf>>, NEW d \in 1 .. 3, ~ Ticking, ~ Ticking',
           \A m \in Mods : DepthOf(m) = d /\ DepthOf(m)' = IF m <= 1 THEN d - 1 ELSE d
    PROVE  Lifecycle!Next
<1>1. TypeOK /\ TypeOK' /\ 1 \in Mods /\ Mods = 1 .. NModules /\ NModules \in Nat
  BY SweepFrame
<1>2. DepthOf(1)' = DepthOf(1) - 1 /\ \A j \in Mods \ {1} : DepthOf(j)' = DepthOf(j)
  BY <1>1
<1>3. \A j \in Mods : ~ (j < 1) /\ DepthOf(j) <= DepthOf(1)
  BY <1>1
<1>4. UNCHANGED <<Ticking, Due, TickersOf("beginTicker"), TickersOf("endTicker")>>
  BY NoTickers
<1>. QED  BY <1>1, <1>2, <1>3, <1>4, EndScopeStep

(* The sweep goes on from module k to the next one.                        *)
LEMMA NextBegins ==
    ASSUME TypeInv, TypeInv', UNCHANGED <<block, conf>>, NEW n \in Mods, ~ Ticking, ~ Ticking',
           DepthOf(n) < 4, DepthOf(n)' = DepthOf(n) + 1,
           \A m \in Mods : m # n => DepthOf(m)' = DepthOf(m),
           \A m \in Mods : m < n => DepthOf(m) > DepthOf(n)
    PROVE  Lifecycle!Next
BY SweepFrame, BeginScopeStep

LEMMA InitSteps ==
    ASSUME TypeInv, TypeInv', InitModule \/ InitError
    PROVE  Lifecycle!Next \/ UNCHANGED Lifecycle!lifecycle
<1>1. UNCHANGED <<block, conf>> /\ pc = "init"
  BY DEF InitModule, InitError
<1>2. /\ ~ Ticking /\ \A m \in Mods : DepthOf(m) = 0
  BY <1>1, SweepFrame DEF DepthTable, TickView
<1>3. CASE pc' = "beginJob" /\ k' = 1
  <2>1. ~ Ticking' /\ \A m \in Mods : DepthOf(m)' = IF m <= 1 THEN 1 ELSE 0
    BY <1>1, <1>3, SweepFrame DEF DepthTable, TickView, Sweep
  <2>. QED  BY <1>1, <1>2, <2>1, FirstBegins
<1>4. CASE pc' \in {"init", "exit"}
  <2>1. ~ Ticking' /\ \A m \in Mods : DepthOf(m)' = 0
    BY <1>1, <1>4, SweepFrame DEF DepthTable, TickView
  <2>. QED  BY <1>1, <1>2, <2>1, NoTickers, StutterStep
<1>. QED  BY <1>3, <1>4 DEF InitModule, InitError, Goto

LEMMA BeginJobStep ==
    ASSUME TypeInv, TypeInv', LifeInv, BeginJob
    PROVE  Lifecycle!Next \/ UNCHANGED Lifecycle!lifecycle
<1>1. UNCHANGED <<block, conf>> /\ pc = "beginJob"
  BY DEF BeginJob, setup
<1>2. PICK n \in Mods : n = k
  BY <1>1 DEF LifeInv, Callbacks
<1>3. /\ ~ Ticking /\ \A m \in Mods : DepthOf(m) = IF m <= n THEN 1 ELSE 0
      /\ n \in Nat /\ NModules \in Nat /\ Mods = 1 .. NModules
  BY <1>1, <1>2, SweepFrame DEF DepthTable, TickView, Sweep
<1>4. CASE n < NModules
  <2>1. pc' = "beginJob" /\ k' = n + 1
    BY <1>2, <1>4 DEF BeginJob, Goto
  <2>2. ~ Ticking' /\ \A m \in Mods : DepthOf(m)' = IF m <= n + 1 THEN 1 ELSE 0
    BY <1>1, <2>1, SweepFrame DEF DepthTable, TickView, Sweep
  <2>3. /\ n + 1 \in Mods /\ DepthOf(n + 1) = 0 /\ DepthOf(n + 1)' = 1
        /\ \A m \in Mods : m # n + 1 => DepthOf(m)' = DepthOf(m)
        /\ \A m \in Mods : m < n + 1 => DepthOf(m) = 1
    BY <1>3, <1>4, <2>2
  <2>. QED  BY <1>1, <1>3, <2>2, <2>3, NextBegins
<1>5. CASE ~ (n < NModules)
  <2>1. \A m \in Mods : DepthOf(m) = 1
    BY <1>3, <1>5
  <2>2. /\ k' = 1
        /\ pc' = "endJob" \/ (pc' = "beginMarket" /\ Mdt) \/ (pc' = "beginDay" /\ ~ Mdt)
    BY <1>2, <1>5 DEF BeginJob, Goto, EnterMarkets, EnterIdates, Mdt
  <2>3. CASE pc' # "endJob"
    <3>1. ~ Ticking' /\ \A m \in Mods : DepthOf(m)' = IF m <= 1 THEN 2 ELSE 1
      BY <1>1, <2>2, <2>3, SweepFrame DEF DepthTable, TickView, Sweep
    <3>. QED  BY <1>1, <1>3, <2>1, <3>1, FirstBegins
  <2>4. CASE pc' = "endJob"
    <3>1. ~ Ticking' /\ \A m \in Mods : DepthOf(m)' = IF m <= 1 THEN 0 ELSE 1
      BY <1>1, <2>2, <2>4, SweepFrame DEF DepthTable, TickView, Sweep
    <3>. QED  BY <1>1, <1>3, <2>1, <3>1, FirstEnds
  <2>. QED  BY <2>3, <2>4
<1>. QED  BY <1>4, <1>5

(* The callback that every module's own beginMarketDay follows, and the    *)
(* one that is swept over all modules before the inner loop is entered.    *)
LEMMA InnerBeginStep ==
    ASSUME TypeInv, TypeInv', LifeInv, UNCHANGED <<block, conf>>,
           (pc = "beginMarket" /\ ~ Mdt) \/ (pc = "beginDay" /\ Mdt),
           pc' = "beginMarketDay", k' = k
    PROVE  Lifecycle!Next
<1>1. PICK n \in Mods : n = k
  BY DEF LifeInv, Callbacks
<1>2. /\ ~ Ticking /\ \A m \in Mods : DepthOf(m) = IF m = n THEN 3 ELSE IF m <= n THEN 4 ELSE 2
      /\ n \in Nat /\ Mods \subseteq Nat
  BY <1>1, SweepFrame DEF DepthTable, TickView, Sweep
<1>3. ~ Ticking' /\ \A m \in Mods : DepthOf(m)' = IF m <= n THEN 4 ELSE 2
  BY <1>1, SweepFrame DEF DepthTable, TickView, Sweep
<1>4. /\ DepthOf(n) = 3 /\ DepthOf(n)' = 4
      /\ \A m \in Mods : m # n => DepthOf(m)' = DepthOf(m)
      /\ \A m \in Mods : m < n => DepthOf(m) = 4
  BY <1>2, <1>3
<1>. QED  BY <1>2, <1>3, <1>4, NextBegins

LEMMA OuterBeginStep ==
    ASSUME TypeInv, TypeInv', LifeInv, EdayInv, UNCHANGED <<block, conf, eday>>,
           (pc = "beginMarket" /\ Mdt) \/ (pc = "beginDay" /\ ~ Mdt),
           IF k < NModules THEN pc' = pc /\ k' = k + 1
           ELSE k' = 1 /\ pc' \in IF Mdt THEN {"beginDay", "endMarket"} ELSE {"beginMarket", "endDay"}
    PROVE  Lifecycle!Next \/ UNCHANGED Lifecycle!lifecycle
<1>1. PICK n \in Mods : n = k
  BY DEF LifeInv, Callbacks
<1>2. /\ ~ Ticking /\ \A m \in Mods : DepthOf(m) = IF m <= n THEN 2 ELSE 1
      /\ n \in Nat /\ NModules \in Nat /\ Mods = 1 .. NModules /\ Mdt' = Mdt
  BY <1>1, SweepFrame DEF DepthTable, TickView, Sweep
<1>3. CASE n < NModules
  <2>1. ~ Ticking' /\ \A m \in Mods : DepthOf(m)' = IF m <= n + 1 THEN 2 ELSE 1
    BY <1>1, <1>3, SweepFrame DEF DepthTable, TickView, Sweep
  <2>2. /\ n + 1 \in Mods /\ DepthOf(n + 1) = 1 /\ DepthOf(n + 1)' = 2
        /\ \A m \in Mods : m # n + 1 => DepthOf(m)' = DepthOf(m)
        /\ \A m \in Mods : m < n + 1 => DepthOf(m) = 2
    BY <1>2, <1>3, <2>1
  <2>. QED  BY <1>2, <2>1, <2>2, NextBegins
<1>4. CASE ~ (n < NModules)
  <2>1. \A m \in Mods : DepthOf(m) = 2
    BY <1>2, <1>4
  <2>2. CASE pc' \in {"beginDay", "beginMarket"}
    <3>1. (pc' = "beginDay" /\ Mdt') \/ (pc' = "beginMarket" /\ ~ Mdt')
      BY <1>1, <1>2, <1>4, <2>2
    <3>2. ~ Ticking' /\ \A m \in Mods : DepthOf(m)' = IF m = 1 THEN 3 ELSE IF m <= 1 THEN 4 ELSE 2
      BY <1>1, <1>4, <3>1, SweepFrame DEF DepthTable, TickView, Sweep
    <3>. QED  BY <1>2, <2>1, <3>2, FirstBegins
  <2>3. CASE pc' = "endMarket"
    <3>1. Mdt
      BY <1>1, <1>4, <2>3
    <3>2. ~ Ticking' /\ \A m \in Mods : DepthOf(m)' = IF m <= 1 THEN 1 ELSE 2
      BY <1>1, <1>4, <2>3, <3>1, SweepFrame DEF DepthTable, TickView, Sweep
    <3>. QED  BY <1>2, <2>1, <3>2, FirstEnds
  <2>4. CASE pc' = "endDay"
    <3>1. ~ Mdt
      BY <1>1, <1>4, <2>4
    <3>2. \A m \in Mods : eday'[m] = "none"
      BY DEF EdayInv
    <3>3. 1 \in Mods /\ \A m \in Mods : ~ (m < 1)
      BY <1>2
    <3>. QED  BY <1>1, <1>2, <1>4, <2>1, <2>4, <3>1, <3>2, <3>3, EnterEndDay
  <2>. QED  BY <1>1, <1>4, <2>2, <2>3, <2>4
<1>. QED  BY <1>3, <1>4

LEMMA BeginsStep ==
    ASSUME TypeInv, TypeInv', LifeInv, EdayInv, BeginMarket \/ BeginDay
    PROVE  Lifecycle!Next \/ UNCHANGED Lifecycle!lifecycle
<1>1. Mdt <=> conf.loopingOrder # "dmt"
  BY SweepFrame, ConfFields DEF Mdt, ConfType, TypeInv
<1>2. CASE BeginMarket
  <2>1. UNCHANGED <<block, conf, eday>> /\ pc = "beginMarket"
    BY <1>2 DEF BeginMarket, setup
  <2>2. ~ Mdt => pc' = "beginMarketDay" /\ k' = k
    BY <1>1, <1>2 DEF BeginMarket, Goto
  <2>3. Mdt => IF k < NModules THEN pc' = pc /\ k' = k + 1
               ELSE k' = 1 /\ pc' \in {"beginDay", "endMarket"}
    BY <1>1, <1>2 DEF BeginMarket, EnterIdates, Goto
  <2>. QED  BY <2>1, <2>2, <2>3, InnerBeginStep, OuterBeginStep
<1>3. CASE BeginDay
  <2>1. UNCHANGED <<block, conf, eday>> /\ pc = "beginDay"
    BY <1>3 DEF BeginDay, setup
  <2>2. Mdt => pc' = "beginMarketDay" /\ k' = k
    BY <1>3 DEF BeginDay, Goto, Mdt
  <2>3. ~ Mdt => IF k < NModules THEN pc' = pc /\ k' = k + 1
                 ELSE k' = 1 /\ pc' \in {"beginMarket", "endDay"}
    BY <1>3 DEF BeginDay, EnterMarkets, Goto, Mdt
  <2>. QED  BY <2>1, <2>2, <2>3, InnerBeginStep, OuterBeginStep
<1>. QED  BY <1>2, <1>3

(* After the last beginMarketDay the tickers of the market day are fixed.  *)
LEMMA BeginMarketDayStep ==
    ASSUME TypeInv, TypeInv', ThreadInv, LifeInv, BeginMarketDay
    PROVE  Lifecycle!Next
<1>1. UNCHANGED <<block, conf, thr>> /\ pc = "beginMarketDay"
  BY DEF BeginMarketDay, setup
<1>2. PICK n \in Mods : n = k
  BY <1>1 DEF LifeInv, Callbacks
<1>3. /\ ~ Ticking /\ \A m \in Mods : DepthOf(m) = IF m <= n THEN 4 ELSE 2
      /\ n \in Nat /\ NModules \in Nat /\ Mods = 1 .. NModules /\ Mdt' = Mdt
  BY <1>1, <1>2, SweepFrame DEF DepthTable, TickView, Sweep
<1>4. CASE n < NModules
  <2>1. k' = n + 1 /\ ((pc' = "beginDay" /\ Mdt') \/ (pc' = "beginMarket" /\ ~ Mdt'))
    BY <1>1, <1>2, <1>3, <1>4 DEF BeginMarketDay, Goto, Mdt
  <2>2. ~ Ticking'
        /\ \A m \in Mods : DepthOf(m)' = IF m = n + 1 THEN 3 ELSE IF m <= n + 1 THEN 4 ELSE 2
    BY <1>1, <2>1, SweepFrame DEF DepthTable, TickView, Sweep
  <2>3. /\ n + 1 \in Mods /\ DepthOf(n + 1) = 2 /\ DepthOf(n + 1)' = 3
        /\ \A m \in Mods : m # n + 1 => DepthOf(m)' = DepthOf(m)
        /\ \A m \in Mods : m < n + 1 => DepthOf(m) = 4
    BY <1>3, <1>4, <2>2
  <2>. QED  BY <1>1, <1>3, <2>2, <2>3, NextBegins
<1>5. CASE ~ (n < NModules)
  <2>1. pc' = "create" /\ Mods' = Mods /\ Nest' = Nest /\ Threads' = Threads
    BY <1>1, <1>2, <1>5 DEF BeginMarketDay, Goto, Mods, NModules, Nest, Mdt, Threads
  <2>2. \A m \in Mods : DepthOf(m) = 4
    BY <1>3, <1>5
  <2>3. Ticking' = TRUE /\ \A m \in Mods : DepthOf(m)' = 4
    BY <2>1, LoopViewNext DEF LoopView, TypeInv
  <2>4. OpenScopes' = OpenScopes
    BY <2>1, <2>2, <2>3 DEF OpenScopes
  <2>5. \A i \in Threads' : thr'[i].at = "none"
    BY <1>1, LifeOutside
  <2>6. \A i \in Threads' : \A m, at : Entered(m, i, at)' = {}
    BY <2>1, <2>5 DEF Entered
  <2>7. ASSUME NEW at \in {"beginTicker", "endTicker"} PROVE TickersOf(at)' = TickersOf(at)
    <3>1. TickersOf(at) = [m \in Mods |-> {}]
      BY <1>3 DEF TickersOf
    <3>2. \A m : UNION {Entered(m, i, at)' : i \in Threads'} = {}
      BY <2>6
    <3>3. TickersOf(at)' = [m \in Mods |-> {}]
      BY <2>1, <3>2 DEF TickersOf
    <3>. QED  BY <3>1, <3>3
  <2>8. Due' \in SUBSET Nat
    <3>1. NLoop' \in Nat
      <4>1. conf'.nTickersDebug \in Nat
        BY <1>1, ConfFields DEF TypeInv
      <4>2. nTickers' \in Nat
        BY DEF TypeInv, TypeOK
      <4>. QED  BY <4>1, <4>2 DEF NLoop
    <3>2. 0 .. (NLoop' - 1) \in SUBSET Nat
      <4>1. \A q \in Nat : 0 .. (q - 1) \in SUBSET Nat
        OBVIOUS
      <4>. QED  BY <3>1, <4>1
    <3>3. Due' = 0 .. (NLoop' - 1)
      BY <2>3 DEF Due
    <3>. QED  BY <3>2, <3>3
  <2>9. \A m \in Mods : Lifecycle!Inside(m, "MarketDay")
    <3>1. View /\ Nest[4] = "MarketDay"
      BY ViewHolds DEF TypeInv, Nest
    <3>. QED  BY <2>2, <3>1 DEF View
  <2>10. Lifecycle!Modules = Mods
    BY ViewHolds DEF View, TypeInv
  <2>11. Lifecycle!StartTickers
    BY <1>3, <2>3, <2>4, <2>7, <2>8, <2>9, <2>10 DEF Lifecycle!StartTickers, Due
  <2>. QED  BY <2>11 DEF Lifecycle!Next
<1>. QED  BY <1>4, <1>5

------------------------
(* The end of the market day.                                              *)

LEMMA AllJoinedStep ==
    ASSUME TypeInv, TypeInv', ThreadInv, SomeThread, AllJoined
    PROVE  Lifecycle!Next
<1>1. UNCHANGED <<block, conf, nTickers, thr>> /\ pc = "join" /\ k \notin Threads
      /\ pc' = "endMarketDay" /\ k' = 1
  BY DEF AllJoined, setup, env, Goto
<1>2. /\ Ticking /\ \A m \in Mods : DepthOf(m) = 4
      /\ 1 \in Mods /\ Mods \subseteq Nat /\ Mods' = Mods /\ TypeOK /\ TypeOK'
  BY <1>1, SweepFrame DEF DepthTable, TickView
<1>3. DepthOf(1)' = 3 /\ \A m \in Mods \ {1} : DepthOf(m)' = 4
  BY <1>1, <1>2, SweepFrame DEF DepthTable, Sweep
<1>4. Ticking' <=> \E j \in Mods \ {1} : DepthOf(j) = 4
  <2>1. Ticking' <=> \E m \in Mods : DepthOf(m)' = 4
    BY <1>1, <1>2, SweepFrame DEF TickView
  <2>. QED  BY <1>2, <1>3, <2>1
<1>5. \A i \in Threads : thr[i].at = "none"
  <2>1. \A i \in Threads : i < k => thr[i].at = "none"
    BY <1>1 DEF ThreadInv
  <2>2. k \in Nat /\ Threads \subseteq Nat
    BY <1>2, ConfFields DEF TypeOK
  <2>3. \A i \in Threads : i < k
    BY <1>1, <2>2, ConfFields, <1>2 DEF Threads
  <2>. QED  BY <2>1, <2>3
<1>6. UNION {SliceOf(i) : i \in Threads} = 0 .. NLoop - 1
  BY <1>2, SlicesOfThreads
<1>7. \A j \in Mods : ~ (j < 1)
  BY <1>2, SweepFrame, <1>1
<1>. QED  BY <1>1, <1>2, <1>3, <1>4, <1>5, <1>6, <1>7, EndMarketDayStep

(* Module n has left the market day, and the next one is to leave it.      *)
LEMMA NextEndMarketDay ==
    ASSUME TypeInv, TypeInv', ThreadInv, SomeThread, UNCHANGED <<block, conf, nTickers, thr>>,
           pc \in {"endMarketDay", "endMarket"}, NEW n \in Mods,
           pc' = "endMarketDay", k' = n + 1, n + 1 \in Mods,
           \A m \in Mods : DepthOf(m) = IF m <= n THEN IF Mdt THEN 3 ELSE 2 ELSE 4
    PROVE  Lifecycle!Next
<1>1. /\ TypeOK /\ TypeOK' /\ Mods' = Mods /\ Mdt' = Mdt /\ Mods \subseteq Nat
      /\ \A m \in Mods : (m < n + 1 => m <= n) /\ (m <= n + 1 <=> m <= n \/ m = n + 1)
      /\ ~ (n + 1 <= n)
  BY SweepFrame
<1>2. DepthOf(n + 1) = 4 /\ \A m \in Mods : m < n + 1 => DepthOf(m) < 4
  BY <1>1
<1>3. \A m \in Mods : DepthOf(m)' = IF m = n + 1 THEN 3 ELSE IF m <= n THEN IF Mdt THEN 3 ELSE 2 ELSE 4
  BY <1>1, SweepFrame DEF DepthTable, Sweep
<1>4. DepthOf(n + 1)' = 3 /\ \A m \in Mods \ {n + 1} : DepthOf(m)' = DepthOf(m)
  BY <1>3
<1>5. Ticking <=> \E m \in Mods : DepthOf(m) = 4
  BY SweepFrame DEF TickView
<1>6. Ticking' <=> \E m \in Mods : DepthOf(m)' = 4
  BY <1>1, SweepFrame DEF TickView
<1>7. Ticking /\ (Ticking' <=> \E j \in Mods \ {n + 1} : DepthOf(j) = 4)
  BY <1>2, <1>4, <1>5, <1>6
<1>8. \A i \in Threads : thr[i].at = "none"
  BY DEF ThreadInv
<1>9. UNION {SliceOf(i) : i \in Threads} = 0 .. NLoop - 1
  BY <1>1, SlicesOfThreads
<1>. QED  BY <1>1, <1>2, <1>4, <1>7, <1>8, <1>9, EndMarketDayStep

(* All modules have left the market day: the tickers are gone.             *)
LEMMA AllOut ==
    ASSUME TypeInv, TypeInv', UNCHANGED <<block, conf>>, pc \in {"endMarketDay", "endMarket"},
           \A m \in Mods : DepthOf(m) # 4
    PROVE  ~ Ticking
<1>1. Ticking <=> \E m \in Mods : DepthOf(m) = 4
  BY SweepFrame DEF TickView
<1>. QED  BY <1>1

LEMMA EndMarketDayNext ==
    ASSUME TypeInv, TypeInv', ThreadInv, LifeInv, EdayInv, SomeThread, EndMarketDay
    PROVE  Lifecycle!Next \/ UNCHANGED Lifecycle!lifecycle
<1>1. UNCHANGED <<block, conf, nTickers, thr, eday>> /\ pc = "endMarketDay"
  BY DEF EndMarketDay, setup, env
<1>2. PICK n \in Mods : n = k
  BY <1>1 DEF LifeInv, Callbacks
<1>3. n \in Nat /\ NModules \in Nat /\ Mods = 1 .. NModules /\ TypeOK /\ TypeOK' /\ Mdt' = Mdt
  BY <1>1, SweepFrame
<1>4. CASE Mdt
  <2>1. \A m \in Mods : DepthOf(m) = IF m <= n THEN 3 ELSE 4
    BY <1>1, <1>2, <1>4, SweepFrame DEF DepthTable, Sweep
  <2>2. IF k < NModules THEN pc' = "endMarketDay" /\ k' = k + 1 ELSE pc' = "endDay" /\ k' = 1
    BY <1>4 DEF EndMarketDay, Goto, Mdt
  <2>3. CASE n < NModules
    <3>1. n + 1 \in Mods /\ pc' = "endMarketDay" /\ k' = n + 1
      BY <1>2, <1>3, <2>2, <2>3
    <3>. QED  BY <1>1, <1>4, <2>1, <3>1, NextEndMarketDay
  <2>4. CASE ~ (n < NModules)
    <3>1. \A m \in Mods : DepthOf(m) = 3
      BY <1>3, <2>1, <2>4
    <3>2. ~ Ticking
      BY <1>1, <3>1, AllOut
    <3>3. \A m \in Mods : eday'[m] = "none"
      BY <1>1 DEF EdayInv
    <3>4. 1 \in Mods /\ \A m \in Mods : ~ (m < 1)
      BY <1>3
    <3>5. pc' = "endDay" /\ k' = 1
      BY <1>2, <2>2, <2>4
    <3>. QED  BY <1>1, <1>4, <3>1, <3>2, <3>3, <3>4, <3>5, EnterEndDay
  <2>. QED  BY <2>3, <2>4
<1>5. CASE ~ Mdt
  <2>1. \A m \in Mods : DepthOf(m) = IF m = n THEN 3 ELSE IF m <= n THEN 2 ELSE 4
    BY <1>1, <1>2, <1>5, SweepFrame DEF DepthTable, Sweep
  <2>2. pc' = "endMarket" /\ k' = n
    <3>1. conf.loopingOrder = "dmt"
      BY <1>1, <1>5, SweepFrame
    <3>. QED  BY <1>2, <3>1 DEF EndMarketDay, Goto
  <2>3. \A m \in Mods : DepthOf(m)' = IF m <= n THEN 2 ELSE 4
    BY <1>1, <1>3, <1>5, <2>2, SweepFrame DEF DepthTable, Sweep
  <2>4. /\ DepthOf(n) = 3 /\ DepthOf(n)' = 2 /\ Nest[3] = "Market"
        /\ \A m \in Mods \ {n} : DepthOf(m)' = DepthOf(m)
        /\ \A m \in Mods : m < n => DepthOf(m) = 2
    BY <1>3, <1>5, <2>1, <2>3 DEF Nest
  <2>5. (Ticking <=> \E m \in Mods : DepthOf(m) = 4) /\ (Ticking' <=> \E m \in Mods : DepthOf(m)' = 4)
    BY <1>1, <1>3, <1>5, <2>2, SweepFrame DEF TickView
  <2>6. UNCHANGED Ticking
    BY <2>4, <2>5 DEF Ticking
  <2>7. UNCHANGED <<Due, TickersOf("beginTicker"), TickersOf("endTicker")>>
    BY <1>1, <1>3, <2>2, <2>4, <2>6, TickersKept
  <2>. QED  BY <1>1, <1>3, <2>4, <2>6, <2>7, EndScopeStep
<1>. QED  BY <1>4, <1>5

------------------------
(* The end of the day, by the main thread and by the threads of a group.   *)

DayDepth == IF Mdt THEN 3 ELSE 2

LEMMA DayView ==
    ASSUME TypeInv, TypeInv', UNCHANGED <<block, conf>>, pc \in {"endDay", "joinEndDay"}
    PROVE  /\ ~ Ticking
           /\ \A m \in Mods : DepthOf(m) = DayDepth - (IF LeftDay(m) THEN 1 ELSE 0)
BY SweepFrame DEF DepthTable, TickView, DayDepth

LEMMA DayViewNext ==
    ASSUME TypeInv, TypeInv', UNCHANGED <<block, conf>>, pc' \in {"endDay", "joinEndDay"}
    PROVE  /\ ~ Ticking'
           /\ \A m \in Mods : DepthOf(m)' = DayDepth - (IF LeftDay(m)' THEN 1 ELSE 0)
BY SweepFrame DEF DepthTable, TickView, DayDepth

(* All have left the day: the next one, or what comes after the dates.     *)
LEMMA NextDayStep ==
    ASSUME TypeInv, TypeInv', UNCHANGED <<block, conf>>, pc \in {"endDay", "joinEndDay"},
           \A m \in Mods : LeftDay(m), NextDay
    PROVE  Lifecycle!Next
<1>1. ~ Ticking /\ \A m \in Mods : DepthOf(m) = IF Mdt THEN 2 ELSE 1
  BY DayView DEF DayDepth
<1>2. /\ TypeOK /\ TypeOK' /\ Mods' = Mods /\ Mdt' = Mdt /\ Mods = 1 .. NModules /\ NModules \in Nat
  BY SweepFrame
<1>3. k' = 1 /\ (pc' = "beginDay" \/ pc' = IF Mdt THEN "endMarket" ELSE "endJob")
  BY DEF NextDay, EnterIdates, Goto, Mdt
<1>4. CASE Mdt
  <2>1. CASE pc' = "beginDay"
    <3>1. ~ Ticking' /\ \A m \in Mods : DepthOf(m)' = IF m = 1 THEN 3 ELSE IF m <= 1 THEN 4 ELSE 2
      BY <1>2, <1>3, <1>4, <2>1, SweepFrame DEF DepthTable, TickView, Sweep
    <3>. QED  BY <1>1, <1>2, <1>4, <3>1, FirstBegins
  <2>2. CASE pc' = "endMarket"
    <3>1. ~ Ticking' /\ \A m \in Mods : DepthOf(m)' = IF m <= 1 THEN 1 ELSE 2
      BY <1>2, <1>3, <1>4, <2>2, SweepFrame DEF DepthTable, TickView, Sweep
    <3>. QED  BY <1>1, <1>2, <1>4, <3>1, FirstEnds
  <2>. QED  BY <1>3, <1>4, <2>1, <2>2
<1>5. CASE ~ Mdt
  <2>1. CASE pc' = "beginDay"
    <3>1. ~ Ticking' /\ \A m \in Mods : DepthOf(m)' = IF m <= 1 THEN 2 ELSE 1
      BY <1>2, <1>3, <1>5, <2>1, SweepFrame DEF DepthTable, TickView, Sweep
    <3>. QED  BY <1>1, <1>2, <1>5, <3>1, FirstBegins
  <2>2. CASE pc' = "endJob"
    <3>1. ~ Ticking' /\ \A m \in Mods : DepthOf(m)' = IF m <= 1 THEN 0 ELSE 1
      BY <1>2, <1>3, <1>5, <2>2, SweepFrame DEF DepthTable, TickView, Sweep
    <3>. QED  BY <1>1, <1>2, <1>5, <3>1, FirstEnds
  <2>. QED  BY <1>3, <1>5, <2>1, <2>2
<1>. QED  BY <1>4, <1>5

(* The modules up to n have left the day: the next one, or the next day.   *)
LEMMA DayGoesOn ==
    ASSUME TypeInv, TypeInv', UNCHANGED <<block, conf>>, pc \in {"endDay", "joinEndDay"},
           NEW n \in Mods, n = k, \A m \in Mods : LeftDay(m) <=> m <= n,
           \A m \in Mods : eday'[m] = "none",
           IF k < NModules THEN Goto("endDay", k + 1) ELSE NextDay
    PROVE  Lifecycle!Next \/ UNCHANGED Lifecycle!lifecycle
<1>1. Mods = 1 .. NModules /\ NModules \in Nat
  BY SweepFrame
<1>2. CASE n < NModules
  <2>1. n + 1 \in Mods /\ pc' = "endDay" /\ k' = n + 1 /\ \A m \in Mods : m < n + 1 <=> m <= n
    BY <1>1, <1>2 DEF Goto
  <2>2. ~ Ticking /\ \A m \in Mods : DepthOf(m) = (IF Mdt THEN 3 ELSE 2) - (IF m < n + 1 THEN 1 ELSE 0)
    BY <2>1, DayView DEF DayDepth
  <2>. QED  BY <2>1, <2>2, EnterEndDay
<1>3. CASE ~ (n < NModules)
  <2>1. NextDay /\ \A m \in Mods : LeftDay(m)
    BY <1>1, <1>3
  <2>. QED  BY <2>1, NextDayStep
<1>. QED  BY <1>2, <1>3

LEMMA EndDayNext ==
    ASSUME TypeInv, TypeInv', EdayInv, LifeInv, EndDay
    PROVE  Lifecycle!Next \/ UNCHANGED Lifecycle!lifecycle
<1>1. /\ UNCHANGED <<block, conf, eday>> /\ pc = "endDay" /\ Alone(k)
      /\ IF k < NModules THEN Goto("endDay", k + 1) ELSE NextDay
  BY DEF EndDay, setup
<1>2. PICK n \in Mods : n = k
  BY <1>1 DEF LifeInv, Callbacks
<1>3. \A m \in Mods : eday[m] = "none"
  BY <1>1, AloneNone
<1>4. Mods \subseteq Nat
  BY DEF Mods
<1>5. \A m \in Mods : LeftDay(m) <=> m <= n
  BY <1>1, <1>2, <1>3, <1>4 DEF LeftDay
<1>. QED  BY <1>1, <1>2, <1>3, <1>5, DayGoesOn

LEMMA JoinEndDayNext ==
    ASSUME TypeInv, TypeInv', EdayInv, ModInv, LifeInv, JoinEndDay
    PROVE  Lifecycle!Next \/ UNCHANGED Lifecycle!lifecycle
<1>1. /\ UNCHANGED <<block, conf>> /\ pc = "joinEndDay" /\ \A m \in Group(k) : eday[m] = "done"
      /\ \A m \in Mods : eday'[m] = "none"
      /\ IF k < NModules THEN Goto("endDay", k + 1) ELSE NextDay
  BY DEF JoinEndDay, setup
<1>2. PICK n \in Mods : n = k
  BY <1>1 DEF LifeInv
<1>3. Mods \subseteq Nat /\ Mods = 1 .. NModules /\ NModules \in Nat /\ Len(modules) = NModules
  BY <1>1, BlockType DEF Mods, ModInv, TypeInv
<1>4. \A i \in Mods : modules[i].ord \in Nat
  <2>1. modules \in Seq([ord : Nat, id : Nat])
    BY DEF TypeInv, TypeOK
  <2>2. \A i \in 1 .. Len(modules) : modules[i] \in [ord : Nat, id : Nat]
    BY <2>1, ElementOfSeq
  <2>. QED  BY <1>3, <2>2
<1>5. \A i, j \in Mods : i < j => modules[i].ord <= modules[j].ord
  BY <1>3 DEF ModInv
<1>6. ASSUME NEW m \in Mods, n < m PROVE modules[m].ord # modules[n].ord
  <2>1. n + 1 \in Mods /\ modules[n + 1].ord # modules[n].ord
    BY <1>1, <1>2, <1>3, <1>6 DEF LifeInv, LastOfGroup
  <2>2. modules[n].ord <= modules[n + 1].ord
    BY <1>3, <1>5, <2>1
  <2>3. m = n + 1 \/ modules[n + 1].ord <= modules[m].ord
    BY <1>3, <1>5, <1>6, <2>1
  <2>. QED  BY <1>4, <2>1, <2>2, <2>3
<1>7. \A m \in Mods : LeftDay(m) <=> m <= n
  <2> TAKE m \in Mods
  <2>1. CASE m \in Group(k)
    <3>1. m <= n
      BY <1>2, <1>3, <1>6, <2>1 DEF Group
    <3>. QED  BY <1>1, <2>1, <3>1 DEF LeftDay
  <2>2. CASE m \notin Group(k)
    <3>1. eday[m] = "none" /\ m # n
      BY <1>1, <1>2, <2>2 DEF EdayInv, Group
    <3>. QED  BY <1>2, <1>3, <3>1 DEF LeftDay
  <2>. QED  BY <2>1, <2>2
<1>. QED  BY <1>1, <1>2, <1>7, DayGoesOn

LEMMA CreateEndDayNext ==
    ASSUME TypeInv, TypeInv', EdayInv, LifeInv, CreateEndDay
    PROVE  UNCHANGED Lifecycle!lifecycle
<1>1. /\ UNCHANGED <<block, conf, modules>> /\ pc = "endDay" /\ ~ Alone(k)
      /\ \/ pc' = "joinEndDay" /\ k' = k
         \/ pc' = "endDay" /\ k' = k + 1 /\ ~ LastOfGroup(k)
  BY DEF CreateEndDay, setup, Goto
<1>2. PICK n \in Mods : n = k
  BY <1>1 DEF LifeInv, Callbacks
<1>3. Mods \subseteq Nat /\ Mods' = Mods /\ Mdt' = Mdt /\ Mods = 1 .. NModules /\ NModules \in Nat
  BY <1>1, SweepFrame
<1>4. eday[n] = "none" /\ eday'[n] = "created" /\ \A m \in Mods \ {n} : eday'[m] = eday[m]
  BY <1>1, <1>2, <1>3 DEF CreateEndDay, EdayInv, TypeInv, TypeOK
<1>5. pc' = "endDay" => ~ Alone(k)'
  <2> SUFFICES ASSUME pc' = "endDay" PROVE ~ Alone(k)'
    OBVIOUS
  <2>1. k' = n + 1 /\ n + 1 \in Mods /\ modules[n + 1].ord = modules[n].ord
    BY <1>1, <1>2, <1>3 DEF LastOfGroup
  <2>2. n \in Group(k)' /\ n # k'
    BY <1>1, <1>3, <2>1 DEF Group
  <2>3. conf.multiThreadModule
    BY <1>1 DEF Alone
  <2>. QED  BY <1>1, <2>2, <2>3 DEF Alone
<1>6. ASSUME NEW m \in Mods PROVE LeftDay(m)' <=> LeftDay(m)
  <2>1. CASE m = n
    BY <1>1, <1>2, <1>3, <1>4, <2>1 DEF LeftDay
  <2>2. CASE m # n
    <3>1. eday'[m] = eday[m]
      BY <1>4, <2>2
    <3>2. CASE pc' = "joinEndDay"
      BY <1>1, <1>2, <2>2, <3>1, <3>2 DEF LeftDay
    <3>3. CASE pc' = "endDay"
      BY <1>1, <1>2, <1>3, <1>5, <2>2, <3>1, <3>3 DEF LeftDay
    <3>. QED  BY <1>1, <3>2, <3>3
  <2>. QED  BY <2>1, <2>2
<1>7. /\ ~ Ticking /\ ~ Ticking' /\ \A m \in Mods : DepthOf(m)' = DepthOf(m)
  <2>1. ~ Ticking /\ \A m \in Mods : DepthOf(m) = DayDepth - (IF LeftDay(m) THEN 1 ELSE 0)
    BY <1>1, DayView
  <2>2. ~ Ticking' /\ \A m \in Mods : DepthOf(m)' = DayDepth - (IF LeftDay(m)' THEN 1 ELSE 0)
    BY <1>1, DayViewNext
  <2>. QED  BY <1>6, <2>1, <2>2
<1>. QED  BY <1>1, <1>7, NoTickers, StutterStep

LEMMA EndDayThreads ==
    ASSUME TypeInv, TypeInv', EdayInv, NEW m \in Mods, EndDayThread(m)
    PROVE  Lifecycle!Next \/ UNCHANGED Lifecycle!lifecycle
<1>1. /\ UNCHANGED <<block, conf, modules, pc, k>> /\ eday[m] # "none"
      /\ \/ eday[m] = "created" /\ eday'[m] = "endDay"
         \/ eday[m] = "endDay" /\ eday'[m] = "done"
      /\ \A j \in Mods \ {m} : eday'[j] = eday[j]
  BY DEF EndDayThread, EndDayStart, EndDayReturn, setup, TypeInv, TypeOK
<1>2. pc \in {"endDay", "joinEndDay"} /\ pc' \in {"endDay", "joinEndDay"}
  BY <1>1 DEF EdayInv
<1>3. Mods' = Mods /\ TypeOK /\ TypeOK' /\ Alone(k)' = Alone(k)
  BY <1>1, SweepFrame DEF Alone, Group
<1>4. /\ ~ Ticking /\ \A j \in Mods : DepthOf(j) = DayDepth - (IF LeftDay(j) THEN 1 ELSE 0)
      /\ ~ Ticking' /\ \A j \in Mods : DepthOf(j)' = DayDepth - (IF LeftDay(j)' THEN 1 ELSE 0)
  BY <1>1, <1>2, DayView, DayViewNext
<1>5. \A j \in Mods \ {m} : LeftDay(j)' <=> LeftDay(j)
  BY <1>1, <1>3 DEF LeftDay
<1>6. UNCHANGED <<Ticking, Due, TickersOf("beginTicker"), TickersOf("endTicker")>>
  BY <1>1, <1>4, NoTickers
<1>7. CASE eday[m] = "created"
  <2>1. ~ LeftDay(m) /\ LeftDay(m)'
    BY <1>1, <1>7 DEF LeftDay
  <2>2. /\ DepthOf(m) = DayDepth /\ DepthOf(m)' = DayDepth - 1
        /\ DayDepth \in 1 .. 3 /\ Nest[DayDepth] = "Day"
        /\ \A j \in Mods \ {m} : DepthOf(j)' = DepthOf(j)
        /\ \A j \in Mods : DepthOf(j) <= DepthOf(m)
    BY <1>4, <1>5, <2>1 DEF DayDepth, Nest
  <2>. QED  BY <1>1, <1>3, <1>6, <2>2, EndScopeStep
<1>8. CASE eday[m] = "endDay"
  <2>1. LeftDay(m) /\ LeftDay(m)'
    BY <1>1, <1>8 DEF LeftDay
  <2>2. \A j \in Mods : DepthOf(j)' = DepthOf(j)
    BY <1>4, <1>5, <2>1
  <2>. QED  BY <1>1, <1>4, <1>6, <2>2, StutterStep
<1>. QED  BY <1>1, <1>7, <1>8

------------------------
(* The ends of the market and the job.                                     *)

LEMMA EndMarketNext ==
    ASSUME TypeInv, TypeInv', ThreadInv, EdayInv, LifeInv, SomeThread, EndMarket
    PROVE  Lifecycle!Next \/ UNCHANGED Lifecycle!lifecycle
<1>1. UNCHANGED <<block, conf, nTickers, thr, eday>> /\ pc = "endMarket"
  BY DEF EndMarket, setup
<1>2. PICK n \in Mods : n = k
  BY <1>1 DEF LifeInv, Callbacks
<1>3. /\ n \in Nat /\ NModules \in Nat /\ Mods = 1 .. NModules /\ TypeOK /\ TypeOK'
      /\ Mods' = Mods /\ Mdt' = Mdt
      /\ \A m \in Mods : /\ m < n + 1 => m <= n
                          /\ m <= n + 1 <=> m <= n \/ m = n + 1
      /\ ~ (n + 1 <= n)
  BY <1>1, SweepFrame
<1>4. CASE n < NModules
  <2>1. n + 1 \in Mods /\ k' = n + 1 /\ pc' = IF Mdt THEN "endMarket" ELSE "endMarketDay"
    BY <1>2, <1>3, <1>4 DEF EndMarket, Goto, Mdt
  <2>2. CASE Mdt
    <3>1. ~ Ticking /\ \A m \in Mods : DepthOf(m) = IF m <= n THEN 1 ELSE 2
      BY <1>1, <1>2, <2>2, SweepFrame DEF DepthTable, TickView, Sweep
    <3>2. ~ Ticking' /\ \A m \in Mods : DepthOf(m)' = IF m <= n + 1 THEN 1 ELSE 2
      BY <1>1, <1>3, <2>1, <2>2, SweepFrame DEF DepthTable, TickView, Sweep
    <3>3. /\ DepthOf(n + 1) = 2 /\ DepthOf(n + 1)' = 1 /\ Nest[2] = "Market"
          /\ \A m \in Mods \ {n + 1} : DepthOf(m)' = DepthOf(m)
          /\ \A m \in Mods : m < n + 1 => DepthOf(m) = 1
      BY <1>3, <2>1, <2>2, <3>1, <3>2 DEF Nest
    <3>4. UNCHANGED <<Ticking, Due, TickersOf("beginTicker"), TickersOf("endTicker")>>
      BY <1>1, <3>1, <3>2, NoTickers
    <3>. QED  BY <1>1, <1>3, <2>1, <3>3, <3>4, EndScopeStep
  <2>3. CASE ~ Mdt
    <3>1. \A m \in Mods : DepthOf(m) = IF m <= n THEN 2 ELSE 4
      BY <1>1, <1>2, <2>3, SweepFrame DEF DepthTable, Sweep
    <3>. QED  BY <1>1, <2>1, <2>3, <3>1, NextEndMarketDay
  <2>. QED  BY <2>2, <2>3
<1>5. CASE ~ (n < NModules)
  <2>1. k' = 1 /\ (pc' = "beginMarket" \/ pc' = IF Mdt THEN "endJob" ELSE "endDay")
    BY <1>2, <1>3, <1>5 DEF EndMarket, EnterMarkets, Goto, Mdt
  <2>2. CASE Mdt
    <3>1. ~ Ticking /\ \A m \in Mods : DepthOf(m) = 1
      BY <1>1, <1>2, <1>3, <1>5, <2>2, SweepFrame DEF DepthTable, TickView, Sweep
    <3>2. CASE pc' = "beginMarket"
      <4>1. ~ Ticking' /\ \A m \in Mods : DepthOf(m)' = IF m <= 1 THEN 2 ELSE 1
        BY <1>1, <1>3, <2>1, <2>2, <3>2, SweepFrame DEF DepthTable, TickView, Sweep
      <4>. QED  BY <1>1, <3>1, <4>1, FirstBegins
    <3>3. CASE pc' = "endJob"
      <4>1. ~ Ticking' /\ \A m \in Mods : DepthOf(m)' = IF m <= 1 THEN 0 ELSE 1
        BY <1>1, <1>3, <2>1, <2>2, <3>3, SweepFrame DEF DepthTable, TickView, Sweep
      <4>. QED  BY <1>1, <3>1, <4>1, FirstEnds
    <3>. QED  BY <2>1, <2>2, <3>2, <3>3
  <2>3. CASE ~ Mdt
    <3>1. \A m \in Mods : DepthOf(m) = 2
      BY <1>1, <1>2, <1>3, <1>5, <2>3, SweepFrame DEF DepthTable, Sweep
    <3>2. ~ Ticking
      BY <1>1, <3>1, AllOut
    <3>3. CASE pc' = "beginMarket"
      <4>1. ~ Ticking' /\ \A m \in Mods : DepthOf(m)' = IF m = 1 THEN 3 ELSE IF m <= 1 THEN 4 ELSE 2
        BY <1>1, <1>3, <2>1, <2>3, <3>3, SweepFrame DEF DepthTable, TickView, Sweep
      <4>2. \A m \in Mods : DepthOf(m)' = IF m <= 1 THEN 3 ELSE 2
        BY <1>3, <4>1
      <4>. QED  BY <1>1, <3>1, <3>2, <4>1, <4>2, FirstBegins
    <3>4. CASE pc' = "endDay"
      <4>1. \A m \in Mods : eday'[m] = "none"
        BY <1>1 DEF EdayInv
      <4>2. 1 \in Mods /\ \A m \in Mods : ~ (m < 1)
        BY <1>2, <1>3
      <4>. QED  BY <1>1, <2>1, <2>3, <3>1, <3>2, <3>4, <4>1, <4>2, EnterEndDay
    <3>. QED  BY <2>1, <2>3, <3>3, <3>4
  <2>. QED  BY <2>2, <2>3
<1>. QED  BY <1>4, <1>5

LEMMA EndJobNext ==
    ASSUME TypeInv, TypeInv', LifeInv, EndJob
    PROVE  Lifecycle!Next \/ UNCHANGED Lifecycle!lifecycle
<1>1. UNCHANGED <<block, conf>> /\ pc = "endJob"
  BY DEF EndJob, setup
<1>2. PICK n \in Mods : n = k
  BY <1>1 DEF LifeInv, Callbacks
<1>3. n \in Nat /\ NModules \in Nat /\ Mods = 1 .. NModules /\ TypeOK /\ TypeOK' /\ Mods' = Mods
  BY <1>1, SweepFrame
<1>4. ~ Ticking /\ \A m \in Mods : DepthOf(m) = IF m <= n THEN 0 ELSE 1
  BY <1>1, <1>2, SweepFrame DEF DepthTable, TickView, Sweep
<1>5. CASE n < NModules
  <2>1. n + 1 \in Mods /\ pc' = "endJob" /\ k' = n + 1
    BY <1>2, <1>3, <1>5 DEF EndJob, Goto
  <2>2. ~ Ticking' /\ \A m \in Mods : DepthOf(m)' = IF m <= n + 1 THEN 0 ELSE 1
    BY <1>1, <1>3, <2>1, SweepFrame DEF DepthTable, TickView, Sweep
  <2>3. /\ DepthOf(n + 1) = 1 /\ DepthOf(n + 1)' = 0
        /\ \A m \in Mods \ {n + 1} : DepthOf(m)' = DepthOf(m)
        /\ \A m \in Mods : DepthOf(m) <= 1 /\ (m < n + 1 => DepthOf(m) = 0)
    BY <1>3, <1>4, <2>1, <2>2
  <2>4. UNCHANGED <<Ticking, Due, TickersOf("beginTicker"), TickersOf("endTicker")>>
    BY <1>1, <1>4, <2>2, NoTickers
  <2>. QED  BY <1>1, <1>3, <2>1, <2>3, <2>4, EndScopeStep
<1>6. CASE ~ (n < NModules)
  <2>1. pc' = "end"
    BY <1>2, <1>6 DEF EndJob, Goto
  <2>2. ~ Ticking' /\ \A m \in Mods : DepthOf(m)' = 0
    BY <1>1, <1>3, <2>1, SweepFrame DEF DepthTable, TickView
  <2>3. \A m \in Mods : DepthOf(m) = 0
    BY <1>3, <1>4, <1>6
  <2>. QED  BY <1>1, <1>4, <2>2, <2>3, NoTickers, StutterStep
<1>. QED  BY <1>5, <1>6

------------------------

LEMMA LifecycleInit == TypeInv /\ Init => Lifecycle!Init
<1> SUFFICES ASSUME TypeInv, Init PROVE Lifecycle!Init
  OBVIOUS
<1>1. pc = "init" /\ TypeOK
  BY DEF Init, TypeInv
<1>2. ~ Ticking /\ \A m \in Mods : DepthOf(m) = 0
  BY <1>1, Depths, TickViewHolds DEF DepthTable, TickView
<1>3. SubSeq(Nest, 1, 0) = <<>>
  BY SubSeqEmpty
<1>4. OpenScopes = [m \in Mods |-> <<>>]
  BY <1>2, <1>3 DEF OpenScopes
<1>5. \A at : TickersOf(at) = [m \in Mods |-> {}]
  BY <1>2 DEF TickersOf
<1>6. Lifecycle!Modules = Mods
  BY <1>1, ViewHolds DEF View
<1>7. Ticking = FALSE
  BY <1>2 DEF Ticking
<1>. QED  BY <1>4, <1>5, <1>6, <1>7 DEF Lifecycle!Init

ControlInv == TypeInv /\ ThreadInv /\ EdayInv /\ ModInv /\ LifeInv

LEMMA ControlInvariant == Spec => []ControlInv
<1>1. Init => ControlInv
  BY TypeInit, ThreadInit, EdayInit, ModInit, LifeInit DEF ControlInv
<1>2. ControlInv /\ [Next]_vars => ControlInv'
  BY TypeNext, ThreadNext, EdayNext, ModNext, LifeNext DEF ControlInv
<1>. QED  BY <1>1, <1>2, PTL DEF Spec

LEMMA LifecycleNext ==
    ControlInv /\ ControlInv' /\ SomeThread /\ [Next]_vars => [Lifecycle!Next]_(Lifecycle!lifecycle)
<1> SUFFICES ASSUME ControlInv, ControlInv', SomeThread, [Next]_vars
             PROVE  Lifecycle!Next \/ UNCHANGED Lifecycle!lifecycle
  OBVIOUS
<1> USE DEF ControlInv
<1>1. CASE InitModule \/ InitError
  BY <1>1, InitSteps
<1>2. CASE BeginJob \/ BeginMarket \/ BeginDay \/ BeginMarketDay
  BY <1>2, BeginJobStep, BeginsStep, BeginMarketDayStep
<1>3. CASE CreateThread \/ AllCreated \/ LoopTickersAlone \/ JoinThread
  BY <1>3, LoopSteps
<1>4. CASE AllJoined \/ EndMarketDay
  BY <1>4, AllJoinedStep, EndMarketDayNext
<1>5. CASE EndDay \/ CreateEndDay \/ JoinEndDay
  BY <1>5, EndDayNext, CreateEndDayNext, JoinEndDayNext
<1>6. CASE EndMarket \/ EndJob
  BY <1>6, EndMarketNext, EndJobNext
<1>7. ASSUME NEW i \in Threads, TickerThread(i) PROVE Lifecycle!Next \/ UNCHANGED Lifecycle!lifecycle
  BY <1>7, TickerSteps
<1>8. ASSUME NEW m \in Mods, EndDayThread(m) PROVE Lifecycle!Next \/ UNCHANGED Lifecycle!lifecycle
  BY <1>8, EndDayThreads
<1>9. CASE UNCHANGED vars
  <2>1. UNCHANGED <<block, conf, modules, pc, k, nTickers, thr, eday>>
    BY <1>9 DEF vars
  <2>2. Mods' = Mods /\ Threads' = Threads /\ NLoop' = NLoop /\ Mdt' = Mdt
    BY <2>1 DEF Mods, NModules, Threads, NLoop, Mdt
  <2>3. \A m : LeftDay(m)' <=> LeftDay(m)
    BY <2>1, <2>2 DEF LeftDay, Alone, Group
  <2>4. \A m : DepthOf(m)' = DepthOf(m)
    BY <2>1, <2>2, <2>3 DEF DepthOf, Sweep
  <2>5. Ticking' = Ticking
    BY <2>1, <2>2, <2>4 DEF Ticking
  <2>6. \A n, i, at : Entered(n, i, at)' = Entered(n, i, at)
    BY <2>1, <2>2 DEF Entered, Before, SliceOf
  <2>7. \A at : TickersOf(at)' = TickersOf(at)
    BY <2>2, <2>4, <2>5, <2>6 DEF TickersOf
  <2>. QED  BY <2>1, <2>2, <2>4, <2>5, <2>7, StutterStep
<1>. QED
  BY <1>1, <1>2, <1>3, <1>4, <1>5, <1>6, <1>7, <1>8, <1>9 DEF Next, Main, Terminated

(***************************************************************************)
(* Theorem: the scheduler implements the lifecycle it promises to modules, *)
(* for every list of modules, both looping orders, with and without        *)
(* threads, provided there is a ticker thread where the configuration asks *)
(* for threads (without one a market day processes no ticker).             *)
(***************************************************************************)
THEOREM SchedulerKeepsPromise ==
    ASSUME \A c \in Confs : c.multiThreadTicker => c.nMaxThreadTicker > 0
    PROVE  Spec => ImplementsLifecycle
<1>1. Init => Lifecycle!Init
  BY TypeInit, LifecycleInit
<1>2. ControlInv => SomeThread
  BY DEF ControlInv, TypeInv, TypeOK, SomeThread
<1>3. ControlInv /\ ControlInv' /\ [Next]_vars => [Lifecycle!Next]_(Lifecycle!lifecycle)
  BY <1>2, LifecycleNext
<1>. QED  BY <1>1, <1>3, ControlInvariant, PTL DEF Spec, ImplementsLifecycle, Lifecycle!Spec

------------------------
(* A market day is behind the loops: they are at the end of the job, at a  *)
(* later round of the outer loop, or in this round at a later one of the   *)
(* inner loop, or in this market day after its tickers.  The inner loop's  *)
(* variable keeps its last value until the loop is entered again, which is *)
(* why the location matters.                                               *)

LoopLocations == {"beginMarket", "beginDay", "beginMarketDay", "create", "join", "endMarketDay",
                  "endDay", "joinEndDay", "endMarket"}
PastByMarket(a, b) ==
    \/ market > a
    \/ /\ market = a
       /\ \/ pc = "endMarket"
          \/ pc # "beginMarket" /\ idate > b
          \/ pc \in {"endMarketDay", "endDay", "joinEndDay"} /\ idate = b
PastByDate(a, b) ==
    \/ idate > b
    \/ /\ idate = b
       /\ \/ pc \in {"endDay", "joinEndDay"}
          \/ pc # "beginDay" /\ market > a
          \/ pc \in {"endMarketDay", "endMarket"} /\ market = a
Past(a, b) ==
    \/ pc \in {"endJob", "end"}
    \/ /\ pc \in LoopLocations
       /\ IF conf.loopingOrder = "mdt" THEN PastByMarket(a, b) ELSE PastByDate(a, b)

LEMMA PastNext ==
    ASSUME TypeInv, [Next]_vars, NEW a \in Nat, NEW b \in Nat, Past(a, b)
    PROVE  Past(a, b)'
<1>. USE DEF Past, PastByMarket, PastByDate, LoopLocations, Goto
<1>1. market \in Nat /\ idate \in Nat /\ conf.loopingOrder \in {"mdt", "dmt"}
  BY ConfFields DEF TypeInv, TypeOK, ConfType
<1>2. CASE InitModule \/ InitError \/ BeginJob
  BY <1>2 DEF InitModule, InitError, BeginJob
<1>3. CASE BeginMarket
  BY <1>1, <1>3 DEF BeginMarket, EnterIdates, setup
<1>4. CASE BeginDay
  BY <1>1, <1>4 DEF BeginDay, EnterMarkets, setup
<1>5. CASE BeginMarketDay
  BY <1>1, <1>5 DEF BeginMarketDay, setup
<1>6. CASE CreateThread \/ AllCreated \/ LoopTickersAlone \/ JoinThread \/ AllJoined
  BY <1>1, <1>6 DEF CreateThread, AllCreated, LoopTickersAlone, JoinThread, AllJoined, setup, env
<1>7. CASE EndMarketDay
  BY <1>1, <1>7 DEF EndMarketDay, setup, env
<1>8. CASE EndDay
  BY <1>1, <1>8 DEF EndDay, NextDay, EnterIdates, setup, env
<1>9. CASE CreateEndDay
  BY <1>1, <1>9 DEF CreateEndDay, setup, env
<1>10. CASE JoinEndDay
  BY <1>1, <1>10 DEF JoinEndDay, NextDay, EnterIdates, setup, env
<1>11. CASE EndMarket
  BY <1>1, <1>11 DEF EndMarket, EnterMarkets, setup
<1>12. CASE EndJob
  BY <1>1, <1>12 DEF EndJob, setup, env
<1>13. ASSUME UNCHANGED <<pc, market, idate, conf>> PROVE Past(a, b)'
  BY <1>13
<1>14. ASSUME NEW i \in Threads, TickerThread(i) PROVE Past(a, b)'
  BY <1>13, <1>14 DEF TickerThread, ThreadStart, BeginTicker, EndTicker, setup, env
<1>15. ASSUME NEW m \in Mods, EndDayThread(m) PROVE Past(a, b)'
  BY <1>13, <1>15 DEF EndDayThread, EndDayStart, EndDayReturn, setup, env
<1>16. CASE Terminated \/ UNCHANGED vars
  BY <1>13, <1>16 DEF Terminated, vars
<1>. QED  BY <1>2, <1>3, <1>4, <1>5, <1>6, <1>7, <1>8, <1>9, <1>10, <1>11, <1>12, <1>14, <1>15,
             <1>16 DEF Next, Main

LEMMA RunsOnce ==
    ASSUME NEW a \in Nat, NEW b \in Nat
    PROVE  Spec => [](MarketDayOver(a, b) => [] ~ InMarketDay(a, b))
<1>1. TypeInv /\ MarketDayOver(a, b) => Past(a, b)
  <2> SUFFICES ASSUME TypeInv, MarketDayOver(a, b) PROVE Past(a, b)  OBVIOUS
  <2>1. market \in Nat /\ idate \in Nat  BY DEF TypeInv, TypeOK
  <2>. QED  BY <2>1 DEF MarketDayOver, Past, PastByMarket, PastByDate, LoopLocations
<1>2. TypeInv /\ Past(a, b) => ~ InMarketDay(a, b)
  <2> SUFFICES ASSUME TypeInv, Past(a, b), InMarketDay(a, b) PROVE FALSE  OBVIOUS
  <2>1. market \in Nat /\ idate \in Nat  BY DEF TypeInv, TypeOK
  <2>. QED  BY <2>1 DEF InMarketDay, Past, PastByMarket, PastByDate, LoopLocations
<1>3. TypeInv /\ Past(a, b) /\ [Next]_vars => Past(a, b)'
  BY PastNext
<1>. QED  BY <1>1, <1>2, <1>3, TypeInvariant, PTL DEF Spec

(***************************************************************************)
(* Once the endMarketDay calls of a market day have begun its tickers are  *)
(* never run again, in either looping order and for any number of markets  *)
(* and dates.                                                              *)
(***************************************************************************)
THEOREM MarketDaysRunOnce ==
    Spec => /\ MarketDayOnce
            /\ \A a, b \in Nat : [](MarketDayOver(a, b) => [] ~ InMarketDay(a, b))
<1>1. Spec => \A a, b \in Nat : [](MarketDayOver(a, b) => [] ~ InMarketDay(a, b))
  BY RunsOnce
<1>2. Spec => MarketDayOnce
  <2>1. \A a \in 1 .. 2 : a \in Nat  OBVIOUS
  <2>. QED  BY <1>1, <2>1 DEF MarketDayOnce
<1>. QED  BY <1>1, <1>2

------------------------
(* The objects the modules hand each other.                                *)

LEMMA NotEmpty == \A s : Len(s) = 1 => s # <<>>
BY ONLY TRUE

USE AddrsAssumption, MembersAssumption, ProgramsAssumption, TickerAtAssumption, KeysAssumption

------------------------
(* The modules run on the scheduler of MCore: what holds of its state      *)
(* holds here.                                                             *)

LEMMA SchedulerSteps ==
    BlackboardNext => [Next]_vars
BY DEF BlackboardNext, Schedule, Add, Skip, RemoveKey, Publish, GetPointer, Clear, Fill,
       InsertMid, Access

LEMMA ControlHolds == BlackboardSpec => []ControlInv
<1>1. BlackboardInit => Init
  BY DEF BlackboardInit
<1>2. [BlackboardNext]_allVars => [Next]_vars
  BY SchedulerSteps DEF allVars, vars
<1>3. Init => ControlInv
  BY TypeInit, ThreadInit, EdayInit, ModInit, LifeInit DEF ControlInv
<1>4. ControlInv /\ [Next]_vars => ControlInv'
  BY TypeNext, ThreadNext, EdayNext, ModNext, LifeNext DEF ControlInv
<1>. QED  BY <1>1, <1>2, <1>3, <1>4, PTL DEF BlackboardSpec

------------------------
(* The threads and what they call.                                         *)

MainThread   == <<"main", 0>>
Ticker(i)    == <<"ticker", i>>
EndDayOf(m)  == <<"endDay", m>>
Tickers0     == {TickerAt[p] : p \in DOMAIN TickerAt}

Objects  == [key : Keys \cup {<<>>}, data : SUBSET Seq(Nat)]
Requests == [op : {"add", "remove", "get", "clear", "fill", "publish", "insert"},
             key : Keys, addr : Members \cup {Null}]
Pointers == [key : Keys, addr : Addrs \cup {Null}]

StateInv ==
    /\ program \in Programs /\ Len(program) = NModules
    /\ mp \in [Keys -> Addrs \cup {Null}]
    /\ heap \in [Addrs -> Objects]
    /\ todo \in [Actors -> Seq(Requests)]
    /\ held \in [Actors -> SUBSET Pointers]

LEMMA KeyFacts ==
    /\ Pred \in Keys /\ Mid \in Keys /\ Close \in Keys
    /\ \A t \in Tickers0 : t \in Nat \ {0} /\ Nbbo(t) \in Keys /\ Nbbo(t) \notin {Pred, Mid, Close}
    /\ \A t, u \in Tickers0 : Nbbo(t) = Nbbo(u) => t = u
    /\ Pred # Mid /\ Pred # Close /\ Mid # Close
    /\ <<>> \notin Keys
    /\ \A key \in Keys : key \in {Pred, Mid, Close} \/ \E t \in Tickers0 : key = Nbbo(t)
<1>1. \A t \in Tickers0 : t \in Nat \ {0}
  BY DEF Tickers0
<1>2. \A key \in Keys : key \in {Pred, Mid, Close} \/ \E t \in Tickers0 : key = Nbbo(t)
  BY DEF Tickers0
<1>3. \A t \in Tickers0 : Nbbo(t) \in Keys
  BY DEF Tickers0
<1>4. Pred \in Keys /\ Mid \in Keys /\ Close \in Keys
  OBVIOUS
<1>5. <<>> # Pred /\ <<>> # Mid /\ <<>> # Close /\ \A t : <<>> # Nbbo(t)
  BY DEF Pred, Mid, Close, Nbbo
<1>6. Pred # Mid /\ Pred # Close /\ Mid # Close
  BY DEF Pred, Mid, Close
<1>7. \A t \in Tickers0 : Nbbo(t) \notin {Pred, Mid, Close}
  BY <1>1 DEF Pred, Mid, Close, Nbbo
<1>8. \A t, u : Nbbo(t) = Nbbo(u) => t = u
  BY DEF Nbbo
<1>. QED  BY <1>1, <1>2, <1>3, <1>4, <1>5, <1>6, <1>7, <1>8

LEMMA SliceOfRange ==
    ASSUME TypeOK, NEW i \in Threads
    PROVE  SliceOf(i) \subseteq 0 .. NLoop - 1
<1>1. CASE conf.multiThreadTicker
  <2> DEFINE T == conf.nMaxThreadTicker
             c == TickerEachThread(NLoop, T)
  <2>1. NLoop \in Nat /\ T \in Nat \ {0} /\ i \in 0 .. T - 1 /\ c \in Nat
    BY <1>1, ConfFields, ThreadStartType DEF Threads
  <2>2. SliceOf(i) = Slice(NLoop, T, c, i)
    BY <1>1 DEF SliceOf
  <2> HIDE DEF T, c
  <2>. QED  BY <2>1, <2>2, SliceInRange
<1>2. CASE ~ conf.multiThreadTicker
  BY <1>2 DEF SliceOf
<1>. QED  BY <1>1, <1>2

(* The ticker at a position of the list that is looped over.               *)
LEMMA TickerListed ==
    ASSUME TypeOK, NEW p \in 0 .. NLoop - 1
    PROVE  p + 1 \in DOMAIN TickerAt /\ TickerAt[p + 1] \in Tickers0
<1>1. NLoop \in Nat /\ NLoop <= Len(TickerAt)
  <2>1. Len(TickerAt) \in Nat /\ MaxTickers \in Nat /\ MaxTickers <= Len(TickerAt)
    BY TickersAssumption
  <2>2. nTickers \in 0 .. MaxTickers /\ conf.nTickersDebug <= Len(TickerAt)
    BY DEF TypeOK
  <2>3. NLoop \in Nat /\ (NLoop = conf.nTickersDebug \/ NLoop = nTickers)
    BY ConfFields DEF NLoop
  <2>. QED  BY <2>1, <2>2, <2>3
<1>2. DOMAIN TickerAt = 1 .. Len(TickerAt) /\ Len(TickerAt) \in Nat
  OBVIOUS
<1>3. p + 1 \in DOMAIN TickerAt
  BY <1>1, <1>2
<1>. QED  BY <1>3 DEF Tickers0

LEMMA ActorKinds ==
    \A x : x \in Actors <=> \/ x = MainThread
                            \/ \E i \in Threads : x = Ticker(i)
                            \/ \E m \in Mods : x = EndDayOf(m)
BY DEF Actors, MainThread, Ticker, EndDayOf

LEMMA ActorsDiffer ==
    /\ \A i : Ticker(i) # MainThread
    /\ \A m : EndDayOf(m) # MainThread
    /\ \A i, m : Ticker(i) # EndDayOf(m)
    /\ \A i, j : Ticker(i) = Ticker(j) => i = j
    /\ \A i, j : EndDayOf(i) = EndDayOf(j) => i = j
BY DEF MainThread, Ticker, EndDayOf

LEMMA MainCall ==
    Call(MainThread) = IF pc \in BeginsAndEnds /\ (pc = "endDay" => Alone(k)) THEN <<pc, k, 0>> ELSE NoCall
BY DEF Call, MainThread

LEMMA TickerCall ==
    ASSUME NEW i
    PROVE  Call(Ticker(i)) = IF InTicker(i) THEN <<thr[i].at, thr[i].mod, TickerAt[thr[i].tk + 1]>> ELSE NoCall
BY DEF Call, Ticker, InTicker

LEMMA EndDayCall ==
    ASSUME NEW m
    PROVE  Call(EndDayOf(m)) = IF eday[m] = "endDay" THEN <<"endDay", m, 0>> ELSE NoCall
BY DEF Call, EndDayOf

LEMMA TickerPlace ==
    ASSUME ControlInv, NEW i \in Threads, InTicker(i)
    PROVE  /\ thr[i].mod \in Mods /\ thr[i].tk \in SliceOf(i) /\ thr[i].tk \in 0 .. NLoop - 1
           /\ TickerAt[thr[i].tk + 1] \in Tickers0
           /\ pc \in {"create", "join"}
<1>1. TypeOK /\ InOwnSlice(i)
  BY DEF ControlInv, TypeInv, LifeInv
<1>2. thr[i].tk \in 0 .. NLoop - 1
  BY <1>1, SliceOfRange DEF InOwnSlice
<1>3. pc \in {"create", "join"}
  BY DEF ControlInv, ThreadInv, InTicker
<1>. QED  BY <1>1, <1>2, <1>3, TickerListed DEF InOwnSlice

(* Who makes a call.                                                       *)
MadeBy(x) ==
    /\ Call(x)[2] \in Mods
    /\ \/ /\ x = MainThread /\ Call(x) = <<pc, k, 0>>
          /\ pc \in BeginsAndEnds /\ (pc = "endDay" => Alone(k))
       \/ \E i \in Threads : /\ x = Ticker(i) /\ InTicker(i)
                             /\ Call(x) = <<thr[i].at, thr[i].mod, TickerAt[thr[i].tk + 1]>>
       \/ \E m \in Mods : x = EndDayOf(m) /\ eday[m] = "endDay" /\ Call(x) = <<"endDay", m, 0>>

LEMMA Callers ==
    ASSUME ControlInv, NEW x \in Actors, Call(x) # NoCall
    PROVE  MadeBy(x)
<1>1. CASE x = MainThread
  BY <1>1, MainCall DEF ControlInv, LifeInv, BeginsAndEnds, Callbacks, MadeBy
<1>2. ASSUME NEW i \in Threads, x = Ticker(i) PROVE MadeBy(x)
  BY <1>2, TickerCall, TickerPlace DEF MadeBy
<1>3. ASSUME NEW m \in Mods, x = EndDayOf(m) PROVE MadeBy(x)
  BY <1>3, EndDayCall DEF MadeBy
<1>. QED  BY <1>1, <1>2, <1>3, ActorKinds



Calls == {NoCall} \cup (BeginsAndEnds \X Mods \X {0})
                  \cup ({"beginTicker", "endTicker"} \X Mods \X Tickers0)

CallTypes == \A x \in Actors : Call(x) \in Calls

LEMMA CallsTyped == ControlInv => CallTypes
<1> SUFFICES ASSUME ControlInv, NEW x \in Actors, Call(x) # NoCall PROVE Call(x) \in Calls
  BY DEF CallTypes, Calls
<1>1. MadeBy(x)
  BY Callers
<1>2. CASE x = MainThread /\ Call(x) = <<pc, k, 0>> /\ pc \in BeginsAndEnds
  BY <1>1, <1>2 DEF MadeBy, Calls
<1>3. ASSUME NEW i \in Threads, InTicker(i), Call(x) = <<thr[i].at, thr[i].mod, TickerAt[thr[i].tk + 1]>>
      PROVE  Call(x) \in Calls
  BY <1>3, TickerPlace DEF Calls, InTicker
<1>4. ASSUME NEW m \in Mods, Call(x) = <<"endDay", m, 0>>
      PROVE  Call(x) \in Calls
  BY <1>4 DEF Calls, BeginsAndEnds
<1>. QED  BY <1>1, <1>2, <1>3, <1>4 DEF MadeBy

LEMMA CallsTypedNext == ControlInv' => CallTypes'
BY CallsTyped, PTL

LEMMA ProgramModules ==
    ASSUME StateInv, NEW m \in Mods
    PROVE  program[m] \in ModuleNames
BY DEF StateInv, Mods

LEMMA DoType ==
    /\ \A t \in Tickers0 : \A op \in {"add", "remove", "get"} : Do(op, Nbbo(t), Null) \in Requests
    /\ \A t \in Tickers0 : Do("insert", Nbbo(t), mMid) \in Requests
    /\ \A op \in {"add", "remove", "get"} : \A key \in {Pred, Mid, Close} : Do(op, key, Null) \in Requests
    /\ \A op \in {"clear", "fill", "publish"} : /\ Do(op, Mid, mMid) \in Requests
                                               /\ Do(op, Close, mClose) \in Requests
BY KeyFacts DEF Do, Requests

LEMMA AccessesTyped ==
    ASSUME StateInv, NEW c \in Calls
    PROVE  AccessesOf(c) \in Seq(Requests)
<1>1. CASE c = NoCall
  BY <1>1 DEF AccessesOf
<1>2. CASE c # NoCall
  <2>1. c[2] \in Mods /\ program[c[2]] \in ModuleNames
    BY <1>2, ProgramModules DEF Calls
  <2>2. c[1] \in {"beginTicker", "endTicker"} => c[3] \in Tickers0
    BY <1>2 DEF Calls, BeginsAndEnds
  <2>3. AccessesOf(c) = Accesses(program[c[2]], c[1], c[3])
    BY <1>2 DEF AccessesOf
  <2>4. CASE program[c[2]] = "MTickRead"
    <3>1. AccessesOf(c) = TickReadAccesses(c[1], c[3])
      BY <2>3, <2>4 DEF Accesses
    <3>. QED  BY <2>2, <3>1, DoType DEF TickReadAccesses
  <2>5. CASE program[c[2]] = "MMakePredIndex"
    <3>1. AccessesOf(c) = PredIndexAccesses(c[1])
      BY <2>3, <2>5 DEF Accesses
    <3>. QED  BY <3>1, DoType DEF PredIndexAccesses
  <2>6. CASE program[c[2]] = "MMakeSampleMicro"
    <3>1. AccessesOf(c) = SampleMicroAccesses(c[1], c[3])
      BY <2>3, <2>6 DEF Accesses
    <3>. QED  BY <2>2, <3>1, DoType DEF SampleMicroAccesses, QuotesGet, PredictionGet
  <2>7. CASE program[c[2]] = "MPseudoTradePrep"
    <3>1. AccessesOf(c) = TradePrepAccesses(c[1], c[3])
      BY <2>3, <2>7 DEF Accesses
    <3>. QED  BY <2>2, <3>1, DoType DEF TradePrepAccesses
  <2>8. CASE program[c[2]] = "MFastSim"
    <3>1. AccessesOf(c) = FastSimAccesses(c[1])
      BY <2>3, <2>8 DEF Accesses
    <3>. QED  BY <3>1, DoType DEF FastSimAccesses
  <2>. QED  BY <2>1, <2>4, <2>5, <2>6, <2>7, <2>8 DEF ModuleNames
<1>. QED  BY <1>1, <1>2

(* A callback's accesses are done in order: those left are its last ones.  *)
LastOf(rest, all) ==
    /\ Len(all) - Len(rest) >= 0
    /\ \A n \in 1 .. Len(rest) : rest[n] = all[Len(all) - Len(rest) + n]

TodoInv == \A x \in Actors : LastOf(todo[x], AccessesOf(Call(x)))

AtCall(x, module, callback) ==
    /\ Call(x) # NoCall
    /\ program[Call(x)[2]] = module /\ Call(x)[1] = callback

(* The next access of a callback, by what the module is and what is left.  *)
NextRequest(x) ==
    LET h == Head(todo[x])
        n == Len(todo[x])
        t == Call(x)[3]
    IN  \/ AtCall(x, "MTickRead", "beginTicker") /\ n = 1 /\ h = Do("add", Nbbo(t), Null)
        \/ AtCall(x, "MTickRead", "endTicker") /\ n = 1 /\ h = Do("remove", Nbbo(t), Null)
        \/ AtCall(x, "MMakePredIndex", "beginDay") /\ n = 1 /\ h = Do("add", Pred, Null)
        \/ AtCall(x, "MMakePredIndex", "endDay") /\ n = 1 /\ h = Do("remove", Pred, Null)
        \/ AtCall(x, "MMakeSampleMicro", "beginTicker") /\ n = 2 /\ h = Do("get", Nbbo(t), Null)
        \/ AtCall(x, "MMakeSampleMicro", "beginTicker") /\ n = 1 /\ h = Do("get", Pred, Null)
        \/ AtCall(x, "MPseudoTradePrep", "beginDay") /\ n = 1 /\ h = Do("clear", Mid, mMid)
        \/ AtCall(x, "MPseudoTradePrep", "beginTicker") /\ n = 2 /\ h = Do("get", Nbbo(t), Null)
        \/ AtCall(x, "MPseudoTradePrep", "beginTicker") /\ n = 1 /\ h = Do("insert", Nbbo(t), mMid)
        \/ AtCall(x, "MPseudoTradePrep", "endDay") /\ n = 4 /\ h = Do("clear", Close, mClose)
        \/ AtCall(x, "MPseudoTradePrep", "endDay") /\ n = 3 /\ h = Do("fill", Close, mClose)
        \/ AtCall(x, "MPseudoTradePrep", "endDay") /\ n = 2 /\ h = Do("publish", Close, mClose)
        \/ AtCall(x, "MPseudoTradePrep", "endDay") /\ n = 1 /\ h = Do("publish", Mid, mMid)
        \/ AtCall(x, "MFastSim", "endDay") /\ n = 2 /\ h = Do("get", Close, Null)
        \/ AtCall(x, "MFastSim", "endDay") /\ n = 1 /\ h = Do("get", Mid, Null)

LEMMA NextAccess ==
    ASSUME ControlInv, StateInv, TodoInv, NEW x \in Actors, todo[x] # <<>>
    PROVE  NextRequest(x)
<1> DEFINE c == Call(x)
           all == AccessesOf(c)
           n == Len(todo[x])
<1>1. c \in Calls /\ all \in Seq(Requests)
  BY CallsTyped, AccessesTyped DEF CallTypes
<1>2. todo[x] \in Seq(Requests) /\ n \in Nat \ {0} /\ Head(todo[x]) = todo[x][1]
  BY DEF StateInv
<1>3. n <= Len(all) /\ Head(todo[x]) = all[Len(all) - n + 1]
  <2>range. Len(all) \in Nat /\ 1 \in 1 .. n
    BY <1>1, <1>2
  <2>2. /\ Len(all) - n >= 0
        /\ \A q \in 1 .. n : todo[x][q] = all[Len(all) - n + q]
    BY DEF TodoInv, LastOf
  <2>3. n \in Nat /\ Head(todo[x]) = todo[x][1]
    BY <1>2
  <2> HIDE DEF n, all
  <2>head. Head(todo[x]) = all[Len(all) - n + 1]
    BY <2>range, <2>2, <2>3
  <2>. QED  BY <2>range, <2>2, <2>3, <2>head
<1>4. c # NoCall
  BY <1>2, <1>3 DEF AccessesOf
<1>5. c[2] \in Mods /\ program[c[2]] \in ModuleNames /\ all = Accesses(program[c[2]], c[1], c[3])
  BY <1>1, <1>4, ProgramModules DEF Calls, AccessesOf
<1> DEFINE h == Head(todo[x])
<1>6. AtCall(x, program[c[2]], c[1])
  BY <1>4 DEF AtCall
<1> HIDE DEF c, all, n, h
<1>10. n <= Len(all) /\ h = all[Len(all) - n + 1] /\ n \in Nat \ {0}
  BY <1>2, <1>3 DEF h
<1> DEFINE t == c[3]
<1>11. CASE program[c[2]] = "MTickRead"
  <2>1. all = TickReadAccesses(c[1], t)
    BY <1>5, <1>11 DEF Accesses
  <2>2. \/ c[1] = "beginTicker" /\ n = 1 /\ h = Do("add", Nbbo(t), Null)
        \/ c[1] = "endTicker" /\ n = 1 /\ h = Do("remove", Nbbo(t), Null)
    BY <1>10, <2>1 DEF TickReadAccesses
  <2>. QED  BY <1>6, <1>11, <2>2 DEF NextRequest, c, n, h
<1>12. CASE program[c[2]] = "MMakePredIndex"
  <2>1. all = PredIndexAccesses(c[1])
    BY <1>5, <1>12 DEF Accesses
  <2>2. \/ c[1] = "beginDay" /\ n = 1 /\ h = Do("add", Pred, Null)
        \/ c[1] = "endDay" /\ n = 1 /\ h = Do("remove", Pred, Null)
    BY <1>10, <2>1 DEF PredIndexAccesses
  <2>. QED  BY <1>6, <1>12, <2>2 DEF NextRequest, c, n, h
<1>13. CASE program[c[2]] = "MMakeSampleMicro"
  <2>1. all = SampleMicroAccesses(c[1], t)
    BY <1>5, <1>13 DEF Accesses
  <2>2. \/ c[1] = "beginTicker" /\ n = 2 /\ h = Do("get", Nbbo(t), Null)
        \/ c[1] = "beginTicker" /\ n = 1 /\ h = Do("get", Pred, Null)
    BY <1>10, <2>1 DEF SampleMicroAccesses, QuotesGet, PredictionGet
  <2>. QED  BY <1>6, <1>13, <2>2 DEF NextRequest, c, n, h
<1>14. CASE program[c[2]] = "MPseudoTradePrep"
  <2>1. all = TradePrepAccesses(c[1], t)
    BY <1>5, <1>14 DEF Accesses
  <2>2. \/ c[1] = "beginDay" /\ n = 1 /\ h = Do("clear", Mid, mMid)
        \/ c[1] = "beginTicker" /\ n = 2 /\ h = Do("get", Nbbo(t), Null)
        \/ c[1] = "beginTicker" /\ n = 1 /\ h = Do("insert", Nbbo(t), mMid)
        \/ c[1] = "endDay" /\ n = 4 /\ h = Do("clear", Close, mClose)
        \/ c[1] = "endDay" /\ n = 3 /\ h = Do("fill", Close, mClose)
        \/ c[1] = "endDay" /\ n = 2 /\ h = Do("publish", Close, mClose)
        \/ c[1] = "endDay" /\ n = 1 /\ h = Do("publish", Mid, mMid)
    BY <1>10, <2>1 DEF TradePrepAccesses
  <2>. QED  BY <1>6, <1>14, <2>2 DEF NextRequest, c, n, h
<1>15. CASE program[c[2]] = "MFastSim"
  <2>1. all = FastSimAccesses(c[1])
    BY <1>5, <1>15 DEF Accesses
  <2>2. \/ c[1] = "endDay" /\ n = 2 /\ h = Do("get", Close, Null)
        \/ c[1] = "endDay" /\ n = 1 /\ h = Do("get", Mid, Null)
    BY <1>10, <2>1 DEF FastSimAccesses
  <2>. QED  BY <1>6, <1>15, <2>2 DEF NextRequest, c, n, h
<1>. QED  BY <1>5, <1>11, <1>12, <1>13, <1>14, <1>15 DEF ModuleNames

(* How many accesses a callback has, where it matters.                     *)
CallLengths ==
    \A x \in Actors :
        LET n == Len(AccessesOf(Call(x)))
        IN  /\ AtCall(x, "MTickRead", "beginTicker") => n = 1
            /\ AtCall(x, "MTickRead", "endTicker") => n = 1
            /\ AtCall(x, "MMakePredIndex", "endDay") => n = 1
            /\ AtCall(x, "MPseudoTradePrep", "beginDay") => n = 1
            /\ AtCall(x, "MPseudoTradePrep", "beginTicker") => n = 2
            /\ AtCall(x, "MPseudoTradePrep", "endDay") => n = 4

LEMMA CallLengthsHold == CallLengths
<1> SUFFICES ASSUME NEW x \in Actors, Call(x) # NoCall PROVE CallLengths!(x)
  BY DEF CallLengths, AtCall
<1> DEFINE c == Call(x)
<1>1. AccessesOf(c) = Accesses(program[c[2]], c[1], c[3])
  BY DEF AccessesOf
<1> HIDE DEF c
<1>2. \A t : /\ Len(TickReadAccesses("beginTicker", t)) = 1 /\ Len(TickReadAccesses("endTicker", t)) = 1
             /\ Len(PredIndexAccesses("endDay")) = 1
             /\ Len(TradePrepAccesses("beginDay", t)) = 1 /\ Len(TradePrepAccesses("beginTicker", t)) = 2
             /\ Len(TradePrepAccesses("endDay", t)) = 4
  BY DEF TickReadAccesses, PredIndexAccesses, TradePrepAccesses
<1>. QED  BY <1>1, <1>2 DEF AtCall, Accesses, c



------------------------
(* Steps of the blackboard: an access leaves the scheduler alone, a step   *)
(* of the scheduler leaves the store alone.                                *)

CallTable ==
    /\ Call(MainThread) =
           IF pc \in BeginsAndEnds /\ (pc = "endDay" => Alone(k)) THEN <<pc, k, 0>> ELSE NoCall
    /\ \A i \in Threads :
           Call(Ticker(i)) = IF InTicker(i) THEN <<thr[i].at, thr[i].mod, TickerAt[thr[i].tk + 1]>>
                             ELSE NoCall
    /\ \A m \in Mods :
           Call(EndDayOf(m)) = IF eday[m] = "endDay" THEN <<"endDay", m, 0>> ELSE NoCall

LEMMA CallTableHolds == CallTable
BY MainCall, TickerCall, EndDayCall DEF CallTable

LEMMA CallTableNext == CallTable'
BY CallTableHolds, PTL

LEMMA SetupKept ==
    ASSUME [Next]_vars
    PROVE  /\ UNCHANGED <<block, conf>>
           /\ Threads' = Threads /\ Mods' = Mods /\ NModules' = NModules /\ Actors' = Actors
<1>1. UNCHANGED <<block, conf>>
  <2>ticker. ASSUME NEW i \in Threads, TickerThread(i) PROVE UNCHANGED <<block, conf>>
    BY <2>ticker DEF TickerThread, ThreadStart, BeginTicker, EndTicker, setup
  <2>endDay. ASSUME NEW m \in Mods, EndDayThread(m) PROVE UNCHANGED <<block, conf>>
    BY <2>endDay DEF EndDayThread, EndDayStart, EndDayReturn, setup
  <2>3. CASE InitModule \/ InitError \/ BeginJob \/ BeginMarket \/ BeginDay \/ BeginMarketDay
    BY <2>3 DEF InitModule, InitError, BeginJob, BeginMarket, BeginDay, BeginMarketDay, setup
  <2>4. CASE CreateThread \/ AllCreated \/ LoopTickersAlone \/ JoinThread \/ AllJoined
    BY <2>4 DEF CreateThread, AllCreated, LoopTickersAlone, JoinThread, AllJoined, setup
  <2>5. CASE EndMarketDay \/ EndDay \/ CreateEndDay \/ JoinEndDay \/ EndMarket \/ EndJob
    BY <2>5 DEF EndMarketDay, EndDay, CreateEndDay, JoinEndDay, EndMarket, EndJob, setup
  <2>stutter. CASE UNCHANGED vars
    BY <2>stutter DEF vars
  <2>. QED  BY <2>ticker, <2>endDay, <2>3, <2>4, <2>5, <2>stutter DEF Next, Main, Terminated
<1>2. Threads' = Threads /\ Mods' = Mods /\ NModules' = NModules
  BY <1>1 DEF Threads, Mods, NModules
<1>. QED  BY <1>1, <1>2 DEF Actors

LEMMA CallsKept ==
    ASSUME UNCHANGED vars
    PROVE  \A y \in Actors : Call(y)' = Call(y)
<1>1. Threads' = Threads /\ Mods' = Mods
  BY DEF vars, Threads, Mods, NModules
<1>2. \A m : Alone(m)' <=> Alone(m)
  BY <1>1 DEF vars, Alone, Group
<1>3. Alone(k)' <=> Alone(k)
  BY <1>1 DEF vars, Alone, Group
<1>4. \A i : InTicker(i)' <=> InTicker(i)
  BY DEF vars, InTicker
<1>5. Call(MainThread)' = Call(MainThread)
  BY <1>3, CallTableHolds, CallTableNext DEF vars, CallTable
<1>6. \A i \in Threads : Call(Ticker(i))' = Call(Ticker(i))
  BY <1>1, <1>4, CallTableHolds, CallTableNext DEF vars, CallTable
<1>7. \A m \in Mods : Call(EndDayOf(m))' = Call(EndDayOf(m))
  BY <1>1, CallTableHolds, CallTableNext DEF vars, CallTable
<1>. QED  BY <1>5, <1>6, <1>7, ActorKinds DEF MainThread, Ticker, EndDayOf

LEMMA AccessStep ==
    ASSUME StateInv, NEW x \in Actors, NEW op, Access(x, op)
    PROVE  /\ UNCHANGED vars /\ program' = program
           /\ Threads' = Threads /\ Mods' = Mods /\ NModules' = NModules /\ Actors' = Actors
           /\ \A y \in Actors : Call(y)' = Call(y) /\ AccessesOf(Call(y))' = AccessesOf(Call(y))
           /\ todo[x] # <<>> /\ Head(todo[x]).op = op
           /\ todo[x] \in Seq(Requests) /\ Len(todo[x]) \in Nat \ {0}
           /\ todo' \in [Actors -> Seq(Requests)]
           /\ \A y \in Actors : y # x => todo'[y] = todo[y]
           /\ todo'[x] = Tail(todo[x]) /\ Len(todo'[x]) = Len(todo[x]) - 1
           /\ \A n \in 1 .. Len(todo'[x]) : todo'[x][n] = todo[x][n + 1]
<1>1. UNCHANGED vars /\ program' = program
  BY DEF Access
<1>2. Threads' = Threads /\ Mods' = Mods /\ NModules' = NModules /\ Actors' = Actors
  BY <1>1, SetupKept
<1>3. \A y \in Actors : Call(y)' = Call(y)
  BY <1>1, CallsKept
<1>4. \A y \in Actors : AccessesOf(Call(y))' = AccessesOf(Call(y))
  BY <1>1, <1>3 DEF AccessesOf, NoCall
<1>5. todo[x] # <<>> /\ Head(todo[x]).op = op /\ todo' = [todo EXCEPT ![x] = Tail(@)]
  BY DEF Access
<1>6. todo \in [Actors -> Seq(Requests)]
  BY DEF StateInv
<1>7. /\ Tail(todo[x]) \in Seq(Requests) /\ Len(Tail(todo[x])) = Len(todo[x]) - 1
      /\ \A n \in 1 .. Len(Tail(todo[x])) : Tail(todo[x])[n] = todo[x][n + 1]
  BY <1>5, <1>6, HeadTailProperties
<1>8. Len(todo[x]) \in Nat \ {0}
  BY <1>5, <1>6
<1>. QED  BY <1>1, <1>2, <1>3, <1>4, <1>5, <1>6, <1>7, <1>8

LEMMA LastOfTail ==
    ASSUME NEW all \in Seq(Requests), NEW rest \in Seq(Requests), rest # <<>>, LastOf(rest, all)
    PROVE  LastOf(Tail(rest), all)
<1> DEFINE d == Len(all) - Len(rest)
           left == Tail(rest)
<1>1. /\ left \in Seq(Requests) /\ Len(left) = Len(rest) - 1
      /\ \A n \in 1 .. Len(left) : left[n] = rest[n + 1]
  BY HeadTailProperties
<1>2. Len(all) \in Nat /\ Len(rest) \in Nat /\ Len(left) \in Nat
  BY <1>1
<1>3. d >= 0 /\ \A n \in 1 .. Len(rest) : rest[n] = all[d + n]
  BY DEF LastOf
<1>4. Len(all) - Len(left) = d + 1 /\ d \in Int
  BY <1>1, <1>2
<1> HIDE DEF left, d
<1>5. ASSUME NEW n \in 1 .. Len(left) PROVE left[n] = all[(d + 1) + n]
  <2>1. n + 1 \in 1 .. Len(rest) /\ d + (n + 1) = (d + 1) + n
    BY <1>1, <1>2, <1>4
  <2>. QED  BY <1>1, <1>3, <2>1
<1>6. LastOf(left, all)
  <2>1. Len(all) - Len(left) >= 0
    BY <1>3, <1>4
  <2>2. ASSUME NEW n \in 1 .. Len(left) PROVE left[n] = all[Len(all) - Len(left) + n]
    BY <1>4, <1>5
  <2>. QED  BY <2>1, <2>2 DEF LastOf
<1>. QED  BY <1>6 DEF left

LEMMA TodoAfterAccess ==
    ASSUME ControlInv, StateInv, TodoInv, NEW x \in Actors, NEW op, Access(x, op)
    PROVE  TodoInv'
<1>1. /\ Actors' = Actors
      /\ \A y \in Actors : AccessesOf(Call(y))' = AccessesOf(Call(y))
      /\ \A y \in Actors : y # x => todo'[y] = todo[y]
      /\ Len(todo'[x]) = Len(todo[x]) - 1 /\ Len(todo[x]) \in Nat \ {0}
      /\ \A n \in 1 .. Len(todo'[x]) : todo'[x][n] = todo[x][n + 1]
  BY AccessStep
<1>2. \A y \in Actors : y # x => LastOf(todo[y], AccessesOf(Call(y)))'
  BY <1>1 DEF TodoInv
<1>3. LastOf(todo[x], AccessesOf(Call(x)))'
  <2>1. AccessesOf(Call(x)) \in Seq(Requests)
    BY CallsTyped, AccessesTyped DEF CallTypes
  <2>2. LastOf(Tail(todo[x]), AccessesOf(Call(x)))
    BY <2>1, AccessStep, LastOfTail DEF TodoInv
  <2>3. todo'[x] = Tail(todo[x])
    BY AccessStep
  <2>. QED  BY <1>1, <2>2, <2>3
<1>. QED  BY <1>1, <1>2, <1>3 DEF TodoInv

(* A step of the scheduler, seen by a thread.                              *)
LEMMA ScheduleStep ==
    ASSUME StateInv, ControlInv', Schedule
    PROVE  /\ Next /\ UNCHANGED <<event, program>>
           /\ Threads' = Threads /\ Mods' = Mods /\ NModules' = NModules /\ Actors' = Actors
           /\ StateInv'
           /\ \A x \in Actors :
                 \/ Call(x)' = Call(x) /\ todo'[x] = todo[x] /\ held'[x] = held[x]
                 \/ /\ Call(x)' # Call(x) /\ todo[x] = <<>>
                    /\ todo'[x] = AccessesOf(Call(x))' /\ held'[x] = {}
<1>1. Next /\ UNCHANGED <<event, program>>
  BY DEF Schedule
<1>2. Threads' = Threads /\ Mods' = Mods /\ NModules' = NModules /\ Actors' = Actors
      /\ UNCHANGED <<block, conf>>
  BY <1>1, SetupKept
<1>3. \A x \in Actors : Call(x)' # Call(x) => todo[x] = <<>>
  BY DEF Schedule
<1>4. todo' = [x \in Actors |-> IF Call(x)' = Call(x) THEN todo[x] ELSE AccessesOf(Call(x)')]
  BY DEF Schedule
<1>5. held' = [x \in Actors |-> IF Call(x)' = Call(x) THEN held[x] ELSE {}]
  BY DEF Schedule
<1>6. \A x \in Actors : AccessesOf(Call(x)') = AccessesOf(Call(x))'
  BY <1>1 DEF AccessesOf, NoCall
<1>7. \A x \in Actors : Call(x)' \in Calls
  BY <1>2, CallsTypedNext DEF CallTypes, Calls
<1>8. \A x \in Actors : AccessesOf(Call(x)') \in Seq(Requests)
  BY <1>7, AccessesTyped
<1>9. todo' \in [Actors -> Seq(Requests)] /\ held' \in [Actors -> SUBSET Pointers]
  BY <1>4, <1>5, <1>8 DEF StateInv
<1>10. StateInv'
  BY <1>1, <1>2, <1>9 DEF StateInv, event
<1>. QED  BY <1>1, <1>2, <1>3, <1>4, <1>5, <1>6, <1>10

LEMMA TodoAfterSchedule ==
    ASSUME StateInv, TodoInv, ControlInv', Schedule
    PROVE  TodoInv'
<1> SUFFICES ASSUME NEW x \in Actors PROVE LastOf(todo[x], AccessesOf(Call(x)))'
  BY ScheduleStep DEF TodoInv
<1>1. CASE Call(x)' = Call(x) /\ todo'[x] = todo[x]
  <2>1. AccessesOf(Call(x))' = AccessesOf(Call(x))
    BY <1>1, ScheduleStep DEF AccessesOf, NoCall
  <2>. QED  BY <1>1, <2>1 DEF TodoInv
<1>2. CASE todo'[x] = AccessesOf(Call(x))'
  <2>1. PICK rest \in Seq(Requests) : rest = todo'[x]
    BY ScheduleStep DEF StateInv
  <2>2. LastOf(rest, rest)
    BY DEF LastOf
  <2>. QED  BY <1>2, <2>1, <2>2
<1>. QED  BY <1>1, <1>2, ScheduleStep


LEMMA DatesAreNumbers ==
    ASSUME ControlInv
    PROVE  idate \in Nat /\ market \in Nat
<1>1. TypeOK
  BY DEF ControlInv, TypeInv
<1>2. conf.nMarkets \in Nat /\ conf.nIdates \in Nat
  BY <1>1, ConfFields
<1>. QED  BY <1>1, <1>2 DEF TypeOK

LEMMA ContentsTyped ==
    ASSUME ControlInv, NEW key \in Keys
    PROVE  /\ key[1] \in Nat
           /\ Contents(key) \in SUBSET Seq(Nat)
           /\ {<<idate, market, key[1]>>} \in SUBSET Seq(Nat)
<1>1. key[1] \in Nat
  <2>1. Pred[1] \in Nat /\ Mid[1] \in Nat /\ Close[1] \in Nat /\ \A t \in Tickers0 : Nbbo(t)[1] \in Nat
    BY KeyFacts DEF Pred, Mid, Close, Nbbo
  <2>. QED  BY <2>1, KeyFacts
<1>. QED  BY <1>1, DatesAreNumbers DEF Contents

LEMMA HeadTyped ==
    ASSUME StateInv, NEW x \in Actors, todo[x] # <<>>
    PROVE  Head(todo[x]) \in Requests /\ Key(x) \in Keys /\ Addr(x) \in Members \cup {Null}
<1>1. todo[x] \in Seq(Requests)
  BY DEF StateInv
<1>2. Head(todo[x]) \in Requests
  BY <1>1, HeadTailProperties
<1>. QED  BY <1>2 DEF Requests, Key, Addr

LEMMA FreeTyped == Free \in Objects
BY DEF Free, Objects

LEMMA DeleteTyped ==
    ASSUME StateInv, NEW key \in Keys
    PROVE  Delete(mp[key]) \in [Addrs -> Objects]
BY FreeTyped DEF StateInv, Delete

LEMMA StateAfterAccess ==
    ASSUME StateInv, NEW x \in Actors, NEW op, Access(x, op),
           mp' \in [Keys -> Addrs \cup {Null}],
           heap' \in [Addrs -> Objects],
           held' \in [Actors -> SUBSET Pointers]
    PROVE  StateInv'
BY AccessStep DEF StateInv

LEMMA SetDataTyped ==
    ASSUME StateInv, NEW a, NEW data \in SUBSET Seq(Nat), SetData(a, data)
    PROVE  heap' \in [Addrs -> Objects]
<1>1. heap \in [Addrs -> Objects] /\ heap' = [heap EXCEPT ![a].data = data]
  BY DEF StateInv, SetData
<1>2. ASSUME NEW b \in Addrs PROVE heap'[b] \in Objects
  BY <1>1 DEF Objects
<1>. QED  BY <1>1, <1>2

(* The accesses of a thread, one by one.                                   *)
AccessOf(x) ==
    \/ Add(x) \/ Skip(x) \/ RemoveKey(x) \/ Publish(x)
    \/ GetPointer(x) \/ Clear(x) \/ Fill(x) \/ InsertMid(x)

LEMMA StateAccess ==
    ASSUME ControlInv, StateInv, NEW x \in Actors, AccessOf(x)
    PROVE  StateInv'
<1> USE DEF StateInv
<1>0. todo[x] # <<>> => Key(x) \in Keys /\ Addr(x) \in Members \cup {Null}
  BY HeadTyped
<1>1. CASE Add(x)
  <2>1. Access(x, "add") /\ Key(x) \in Keys /\ UNCHANGED held
    BY <1>0, <1>1 DEF Add, Access
  <2>2. AddCopy(Key(x), Contents(Key(x)))
    BY <1>1 DEF Add
  <2>3. [key |-> Key(x), data |-> Contents(Key(x))] \in Objects
    BY <2>1, ContentsTyped DEF Objects
  <2>4. PICK a \in Copies :
            /\ heap' = [Delete(mp[Key(x)]) EXCEPT ![a] = [key |-> Key(x), data |-> Contents(Key(x))]]
            /\ mp' = [mp EXCEPT ![Key(x)] = a]
    BY <2>2 DEF AddCopy
  <2>5. heap' \in [Addrs -> Objects] /\ mp' \in [Keys -> Addrs \cup {Null}]
    BY <2>1, <2>3, <2>4, DeleteTyped DEF Addrs
  <2>. QED  BY <2>1, <2>5, StateAfterAccess
<1>2. CASE Skip(x)
  BY <1>2, StateAfterAccess DEF Skip, event
<1>3. CASE RemoveKey(x)
  <2>1. Access(x, "remove") /\ Key(x) \in Keys /\ UNCHANGED held /\ Remove(Key(x))
    BY <1>0, <1>3 DEF RemoveKey, Access
  <2>2. heap' \in [Addrs -> Objects] /\ mp' \in [Keys -> Addrs \cup {Null}]
    BY <2>1, DeleteTyped DEF Remove
  <2>. QED  BY <2>1, <2>2, StateAfterAccess
<1>4. CASE Publish(x)
  <2>1. Access(x, "publish") /\ Key(x) \in Keys /\ Addr(x) \in Members \cup {Null}
        /\ UNCHANGED held /\ AddPointer(Key(x), Addr(x))
    BY <1>0, <1>4 DEF Publish, Access
  <2>2. UNCHANGED heap /\ mp' \in [Keys -> Addrs \cup {Null}]
    BY <2>1 DEF AddPointer, Addrs
  <2>. QED  BY <2>1, <2>2, StateAfterAccess
<1>5. CASE GetPointer(x)
  <2>1. Access(x, "get") /\ Key(x) \in Keys /\ UNCHANGED <<mp, heap>>
        /\ held' = [held EXCEPT ![x] = @ \cup {[key |-> Key(x), addr |-> Get(Key(x))]}]
    BY <1>0, <1>5 DEF GetPointer, Access, event
  <2>2. [key |-> Key(x), addr |-> Get(Key(x))] \in Pointers
    BY <2>1 DEF Get, Pointers
  <2>3. held' \in [Actors -> SUBSET Pointers]
    BY <2>1, <2>2
  <2>. QED  BY <2>1, <2>3, StateAfterAccess
<1>6. CASE Clear(x)
  <2>1. Access(x, "clear") /\ SetData(Addr(x), {}) /\ UNCHANGED <<mp, held>>
    BY <1>6 DEF Clear
  <2>2. heap' \in [Addrs -> Objects]
    BY <2>1, SetDataTyped
  <2>. QED  BY <2>1, <2>2, StateAfterAccess
<1>7. CASE Fill(x)
  <2>1. Access(x, "fill") /\ SetData(Addr(x), Contents(Key(x))) /\ UNCHANGED <<mp, held>>
        /\ Key(x) \in Keys
    BY <1>0, <1>7 DEF Fill, Access
  <2>2. heap' \in [Addrs -> Objects]
    BY <2>1, ContentsTyped, SetDataTyped
  <2>. QED  BY <2>1, <2>2, StateAfterAccess
<1>8. CASE InsertMid(x)
  <2>1. Access(x, "insert") /\ UNCHANGED <<mp, held>> /\ Key(x) \in Keys
        /\ SetData(mMid, heap[mMid].data \cup {<<idate, market, Key(x)[1]>>})
    BY <1>0, <1>8 DEF InsertMid, Access
  <2>2. heap[mMid].data \in SUBSET Seq(Nat)
    BY DEF Addrs, Objects
  <2>3. heap' \in [Addrs -> Objects]
    BY <2>1, <2>2, ContentsTyped, SetDataTyped
  <2>. QED  BY <2>1, <2>3, StateAfterAccess
<1>. QED  BY <1>1, <1>2, <1>3, <1>4, <1>5, <1>6, <1>7, <1>8 DEF AccessOf

Base == ControlInv /\ StateInv /\ TodoInv

(* What every step of the blackboard is.                                   *)
LEMMA BlackboardSteps ==
    ASSUME [BlackboardNext]_allVars
    PROVE  Schedule \/ (\E x \in Actors : AccessOf(x)) \/ UNCHANGED allVars
BY DEF BlackboardNext, AccessOf

LEMMA AccessHasOp ==
    ASSUME NEW x, AccessOf(x)
    PROVE  \E op : Access(x, op)
BY DEF AccessOf, Add, Skip, RemoveKey, Publish, GetPointer, Clear, Fill, InsertMid

LEMMA StoppedStep ==
    ASSUME StateInv, TodoInv, UNCHANGED allVars
    PROVE  StateInv' /\ TodoInv'
<1>1. UNCHANGED vars /\ UNCHANGED <<mp, heap, program, todo, held>>
  BY DEF allVars, event
<1>2. Actors' = Actors /\ NModules' = NModules /\ \A y \in Actors : Call(y)' = Call(y)
  BY <1>1, SetupKept, CallsKept
<1>3. \A y \in Actors : AccessesOf(Call(y))' = AccessesOf(Call(y))
  BY <1>1, <1>2 DEF AccessesOf, NoCall
<1>. QED  BY <1>1, <1>2, <1>3 DEF StateInv, TodoInv

LEMMA BaseInit == BlackboardInit => StateInv /\ TodoInv
<1> SUFFICES ASSUME BlackboardInit PROVE StateInv /\ TodoInv
  OBVIOUS
<1>1. Init
  BY DEF BlackboardInit
<1>2. todo = [x \in Actors |-> <<>>] /\ held = [x \in Actors |-> {}] /\ mp = [key \in Keys |-> Null]
  BY DEF BlackboardInit
<1>3. heap = [a \in Addrs |-> CASE a = mMid   -> [key |-> Mid, data |-> {}]
                                [] a = mClose -> [key |-> Close, data |-> {}]
                                [] OTHER      -> Free]
  BY DEF BlackboardInit
<1>4. heap \in [Addrs -> Objects]
  <2>1. /\ [key |-> Mid, data |-> {}] \in Objects /\ [key |-> Close, data |-> {}] \in Objects
        /\ Free \in Objects
    BY FreeTyped, KeyFacts DEF Objects
  <2>. QED  BY <1>3, <2>1
<1>5. <<>> \in Seq(Requests)
  OBVIOUS
<1>6. StateInv
  BY <1>2, <1>4, <1>5 DEF StateInv, BlackboardInit
<1>7. \A x \in Actors : Call(x) = NoCall
  <2>1. Call(MainThread) = NoCall
    BY <1>1, MainCall DEF Init, BeginsAndEnds
  <2>2. \A i \in Threads : Call(Ticker(i)) = NoCall
    BY <1>1, TickerCall DEF Init, InTicker, AtRest
  <2>3. \A m \in Mods : Call(EndDayOf(m)) = NoCall
    BY <1>1, EndDayCall DEF Init
  <2>. QED  BY <2>1, <2>2, <2>3, ActorKinds
<1>8. \A x \in Actors : AccessesOf(Call(x)) = <<>>
  BY <1>7 DEF AccessesOf
<1>9. LastOf(<<>>, <<>>)
  BY DEF LastOf
<1>10. TodoInv
  BY <1>2, <1>8, <1>9 DEF TodoInv
<1>. QED  BY <1>6, <1>10

LEMMA BaseHolds == BlackboardSpec => []Base
<1>1. BlackboardInit => StateInv /\ TodoInv
  BY BaseInit
<1>2. ControlInv /\ ControlInv' /\ StateInv /\ TodoInv /\ [BlackboardNext]_allVars
      => StateInv' /\ TodoInv'
  <2> SUFFICES ASSUME ControlInv, ControlInv', StateInv, TodoInv, [BlackboardNext]_allVars
               PROVE  StateInv' /\ TodoInv'
    OBVIOUS
  <2>1. CASE Schedule
    BY <2>1, ScheduleStep, TodoAfterSchedule
  <2>2. ASSUME NEW x \in Actors, AccessOf(x) PROVE StateInv' /\ TodoInv'
    <3>1. PICK op : Access(x, op)
      BY <2>2, AccessHasOp
    <3>. QED  BY <2>2, <3>1, StateAccess, TodoAfterAccess
  <2>3. CASE UNCHANGED allVars
    BY <2>3, StoppedStep
  <2>. QED  BY <2>1, <2>2, <2>3, BlackboardSteps
<1>. QED  BY <1>1, <1>2, ControlHolds, PTL DEF BlackboardSpec, Base

------------------------
(* The store: every entry points to an object of its own key, MPseudo-     *)
(* TradePrep's members keep theirs, and every copy on the heap is the      *)
(* object of its key's entry, so that it can still be deleted.             *)

StoreInv ==
    /\ StoredLive
    /\ heap[mMid].key = Mid /\ heap[mClose].key = Close
    /\ \A a \in Copies :
           heap[a] # Free => heap[a].key \in Keys \ {Mid, Close} /\ mp[heap[a].key] = a

(* A step touches the entry of one key and its object only.                *)
OnlyEntry(key) ==
    /\ \A other \in Keys \ {key} :
           mp'[other] = mp[other] /\ (mp[other] # Null => heap'[mp[other]] = heap[mp[other]])
    /\ heap'[mMid] = heap[mMid] /\ heap'[mClose] = heap[mClose]

LEMMA AddressFacts ==
    /\ mMid \in Addrs \ Copies /\ mClose \in Addrs \ Copies /\ mMid # mClose
    /\ Null \notin Addrs /\ Copies \subseteq Addrs
    /\ \A a \in Addrs : a \in Copies \/ a = mMid \/ a = mClose
BY DEF Addrs

LEMMA FreeKey == Free.key = <<>>
BY DEF Free

LEMMA EntriesApart ==
    ASSUME StateInv, StoreInv, NEW key \in Keys \ {Mid, Close}
    PROVE  /\ mp[key] = Null \/ (mp[key] \in Copies /\ heap[mp[key]] # Free)
           /\ \A other \in Keys \ {key} : mp[other] # Null => mp[other] # mp[key] /\ heap[mp[other]] # Free
<1>1. ASSUME NEW other \in Keys, mp[other] # Null
      PROVE  mp[other] \in Addrs /\ heap[mp[other]].key = other /\ heap[mp[other]] # Free
  BY <1>1, FreeKey, KeyFacts DEF StateInv, StoreInv, StoredLive
<1>2. mp[key] # Null => mp[key] \in Copies
  BY <1>1, AddressFacts DEF StoreInv
<1>. QED  BY <1>1, <1>2

LEMMA Deleted ==
    ASSUME StateInv, StoreInv, NEW key \in Keys \ {Mid, Close}
    PROVE  /\ \A a \in Addrs : Delete(mp[key])[a] = IF a = mp[key] THEN Free ELSE heap[a]
           /\ DOMAIN Delete(mp[key]) = Addrs
BY EntriesApart, AddressFacts DEF Delete, StateInv

LEMMA AddCopyStep ==
    ASSUME StateInv, StoreInv, NEW key \in Keys \ {Mid, Close}, NEW data, AddCopy(key, data)
    PROVE  /\ StoreInv' /\ OnlyEntry(key)
           /\ mp'[key] # Null /\ heap'[mp'[key]] = [key |-> key, data |-> data]
<1> DEFINE kept == Delete(mp[key])
           made == [key |-> key, data |-> data]
<1>1. PICK a \in Copies : /\ kept[a] = Free
                          /\ heap' = [kept EXCEPT ![a] = made]
                          /\ mp' = [mp EXCEPT ![key] = a]
  BY DEF AddCopy
<1>2. /\ \A b \in Addrs : kept[b] = IF b = mp[key] THEN Free ELSE heap[b]
      /\ DOMAIN kept = Addrs
  BY Deleted
<1> HIDE DEF kept
<1>3. \A b \in Addrs : heap'[b] = IF b = a THEN made ELSE IF b = mp[key] THEN Free ELSE heap[b]
  BY <1>1, <1>2, AddressFacts
<1>4. \A other \in Keys : mp'[other] = IF other = key THEN a ELSE mp[other]
  BY <1>1 DEF StateInv
<1>5. a = mp[key] \/ heap[a] = Free
  BY <1>1, <1>2, AddressFacts
<1>6. \A other \in Keys \ {key} : mp[other] # Null => /\ mp[other] \in Addrs /\ mp[other] # a
                                                      /\ mp[other] # mp[key]
  BY <1>5, EntriesApart DEF StateInv
<1>7. mMid # a /\ mClose # a /\ mp[key] # mMid /\ mp[key] # mClose
  BY EntriesApart, AddressFacts
<1>8. OnlyEntry(key)
  BY <1>3, <1>4, <1>6, <1>7, AddressFacts DEF OnlyEntry
<1>9. made.key = key /\ a # Null /\ a \in Addrs
  BY AddressFacts
<1>10. StoredLive'
  <2>1. ASSUME NEW other \in Keys, mp'[other] # Null PROVE heap'[mp'[other]].key = other
    <3>1. CASE other = key
      BY <1>3, <1>4, <1>9, <3>1
    <3>2. CASE other # key
      BY <1>4, <1>8, <2>1, <3>2 DEF OnlyEntry, StoreInv, StoredLive
    <3>. QED  BY <3>1, <3>2
  <2>. QED  BY <2>1 DEF StoredLive
<1>11. ASSUME NEW b \in Copies, heap'[b] # Free
       PROVE  heap'[b].key \in Keys \ {Mid, Close} /\ mp'[heap'[b].key] = b
  <2>1. CASE b = a
    BY <1>3, <1>4, <1>9, <2>1
  <2>2. CASE b # a
    <3>1. heap'[b] = heap[b] /\ b # mp[key]
      BY <1>3, <1>11, <2>2, AddressFacts
    <3>2. heap[b].key \in Keys \ {Mid, Close} /\ mp[heap[b].key] = b
      BY <1>11, <3>1 DEF StoreInv
    <3>3. heap[b].key # key
      BY <3>1, <3>2
    <3>. QED  BY <1>4, <3>1, <3>2, <3>3
  <2>. QED  BY <2>1, <2>2
<1>12. heap'[mMid].key = Mid /\ heap'[mClose].key = Close
  BY <1>8 DEF OnlyEntry, StoreInv
<1>13. StoreInv'
  BY <1>10, <1>11, <1>12 DEF StoreInv
<1>. QED  BY <1>3, <1>4, <1>8, <1>9, <1>13

LEMMA RemoveStep ==
    ASSUME StateInv, StoreInv, NEW key \in Keys \ {Mid, Close}, Remove(key)
    PROVE  StoreInv' /\ OnlyEntry(key) /\ mp'[key] = Null
<1>1. \A b \in Addrs : heap'[b] = IF b = mp[key] THEN Free ELSE heap[b]
  BY Deleted DEF Remove
<1>2. \A other \in Keys : mp'[other] = IF other = key THEN Null ELSE mp[other]
  BY DEF StateInv, Remove
<1>3. \A other \in Keys \ {key} : mp[other] # Null => mp[other] \in Addrs /\ mp[other] # mp[key]
  BY EntriesApart DEF StateInv
<1>4. mp[key] # mMid /\ mp[key] # mClose
  BY EntriesApart, AddressFacts
<1>5. OnlyEntry(key)
  BY <1>1, <1>2, <1>3, <1>4, AddressFacts DEF OnlyEntry
<1>6. StoredLive'
  BY <1>2, <1>5 DEF OnlyEntry, StoreInv, StoredLive
<1>7. ASSUME NEW b \in Copies, heap'[b] # Free
      PROVE  heap'[b].key \in Keys \ {Mid, Close} /\ mp'[heap'[b].key] = b
  <2>1. heap'[b] = heap[b] /\ b # mp[key]
    BY <1>1, <1>7, AddressFacts
  <2>2. heap[b].key \in Keys \ {Mid, Close} /\ mp[heap[b].key] = b
    BY <1>7, <2>1 DEF StoreInv
  <2>3. heap[b].key # key
    BY <2>1, <2>2
  <2>. QED  BY <1>2, <2>1, <2>2, <2>3
<1>8. heap'[mMid].key = Mid /\ heap'[mClose].key = Close
  BY <1>5 DEF OnlyEntry, StoreInv
<1>9. StoreInv'
  BY <1>6, <1>7, <1>8 DEF StoreInv
<1>. QED  BY <1>2, <1>5, <1>9

LEMMA PublishStep ==
    ASSUME StateInv, StoreInv, NEW key \in Keys, NEW a, AddPointer(key, a),
           (key = Mid /\ a = mMid) \/ (key = Close /\ a = mClose)
    PROVE  StoreInv' /\ mp' = [mp EXCEPT ![key] = a] /\ heap' = heap
<1>1. mp' = [mp EXCEPT ![key] = a] /\ heap' = heap
  BY DEF AddPointer
<1>2. \A other \in Keys : mp'[other] = IF other = key THEN a ELSE mp[other]
  BY <1>1 DEF StateInv
<1>3. StoredLive'
  BY <1>1, <1>2 DEF StoreInv, StoredLive
<1>4. \A b \in Copies :
          heap'[b] # Free => heap'[b].key \in Keys \ {Mid, Close} /\ mp'[heap'[b].key] = b
  BY <1>1, <1>2 DEF StoreInv
<1>. QED  BY <1>1, <1>3, <1>4 DEF StoreInv

LEMMA SetDataStep ==
    ASSUME StateInv, StoreInv, NEW a \in {mMid, mClose}, NEW data, SetData(a, data), UNCHANGED mp
    PROVE  /\ StoreInv' /\ heap'[a].data = data
           /\ \A b \in Addrs \ {a} : heap'[b] = heap[b]
           /\ \A b \in Addrs : heap'[b].key = heap[b].key
<1>1. heap' = [heap EXCEPT ![a].data = data] /\ heap \in [Addrs -> Objects] /\ a \in Addrs
  BY AddressFacts DEF SetData, StateInv
<1>2. \A b \in Addrs \ {a} : heap'[b] = heap[b]
  BY <1>1
<1>3. heap'[a] = [heap[a] EXCEPT !.data = data] /\ heap[a] \in Objects
  BY <1>1
<1>4. heap'[a].key = heap[a].key /\ heap'[a].data = data
  BY <1>3 DEF Objects
<1>5. \A b \in Addrs : heap'[b].key = heap[b].key
  BY <1>2, <1>4
<1>6. StoredLive'
  BY <1>5 DEF StoreInv, StoredLive, StateInv
<1>7. \A b \in Copies : heap'[b] = heap[b]
  BY <1>2, AddressFacts
<1>. QED  BY <1>2, <1>4, <1>5, <1>6, <1>7, AddressFacts DEF StoreInv

------------------------
(* What each access does, from the place of the callback that makes it.    *)

LEMMA AtTicker ==
    ASSUME ControlInv, NEW x \in Actors, NEW module,
           NEW callback \in {"beginTicker", "endTicker"}, AtCall(x, module, callback)
    PROVE  \E i \in Threads :
               /\ x = Ticker(i) /\ InTicker(i) /\ thr[i].at = callback
               /\ thr[i].mod \in Mods /\ program[thr[i].mod] = module
               /\ Call(x)[2] = thr[i].mod
               /\ Call(x)[3] = TickerAt[thr[i].tk + 1] /\ TickerAt[thr[i].tk + 1] \in Tickers0
<1>1. MadeBy(x) /\ Call(x)[1] = callback /\ program[Call(x)[2]] = module
  BY Callers DEF AtCall
<1>2. PICK i \in Threads : /\ x = Ticker(i) /\ InTicker(i)
                           /\ Call(x) = <<thr[i].at, thr[i].mod, TickerAt[thr[i].tk + 1]>>
  BY <1>1 DEF MadeBy, BeginsAndEnds
<1>. QED  BY <1>1, <1>2, TickerPlace

LEMMA AtBeginDay ==
    ASSUME ControlInv, NEW x \in Actors, NEW module, AtCall(x, module, "beginDay")
    PROVE  /\ x = MainThread /\ pc = "beginDay" /\ k \in Mods /\ program[k] = module
           /\ Call(x) = <<"beginDay", k, 0>>
<1>1. MadeBy(x) /\ Call(x)[1] = "beginDay" /\ program[Call(x)[2]] = module
  BY Callers DEF AtCall
<1>2. x = MainThread /\ Call(x) = <<pc, k, 0>>
  BY <1>1 DEF MadeBy, InTicker
<1>. QED  BY <1>1, <1>2 DEF MadeBy

(* Module m is inside endDay, called by thread x.                          *)
EndsDay(x, m) ==
    \/ x = MainThread /\ pc = "endDay" /\ k = m /\ Alone(m)
    \/ x = EndDayOf(m) /\ eday[m] = "endDay"

LEMMA AtEndDay ==
    ASSUME ControlInv, NEW x \in Actors, NEW module, AtCall(x, module, "endDay")
    PROVE  \E m \in Mods : EndsDay(x, m) /\ program[m] = module /\ Call(x) = <<"endDay", m, 0>>
<1>1. MadeBy(x) /\ Call(x)[1] = "endDay" /\ program[Call(x)[2]] = module
  BY Callers DEF AtCall
<1>2. CASE x = MainThread /\ Call(x) = <<pc, k, 0>> /\ pc = "endDay" /\ Alone(k)
  <2>1. PICK m \in Mods : m = k
    BY <1>1, <1>2 DEF MadeBy
  <2>. QED  BY <1>1, <1>2, <2>1 DEF EndsDay
<1>3. ASSUME NEW m \in Mods, x = EndDayOf(m), eday[m] = "endDay", Call(x) = <<"endDay", m, 0>>
      PROVE  \E n \in Mods : EndsDay(x, n) /\ program[n] = module /\ Call(x) = <<"endDay", n, 0>>
  BY <1>1, <1>3 DEF EndsDay
<1>. QED  BY <1>1, <1>2, <1>3 DEF MadeBy, InTicker

LEMMA DoFields ==
    \A op, key, addr : /\ Do(op, key, addr).op = op
                       /\ Do(op, key, addr).key = key /\ Do(op, key, addr).addr = addr
BY DEF Do

(* The access at hand, by its operation.                                   *)
LEMMA Requested ==
    ASSUME Base, NEW x \in Actors, NEW op, Access(x, op)
    PROVE  /\ todo[x] # <<>>
           /\ op = "add" =>
                 /\ Len(todo[x]) = 1
                 /\ \/ AtCall(x, "MTickRead", "beginTicker") /\ Key(x) = Nbbo(Call(x)[3])
                    \/ AtCall(x, "MMakePredIndex", "beginDay") /\ Key(x) = Pred
           /\ op = "remove" =>
                 /\ Len(todo[x]) = 1
                 /\ \/ AtCall(x, "MTickRead", "endTicker") /\ Key(x) = Nbbo(Call(x)[3])
                    \/ AtCall(x, "MMakePredIndex", "endDay") /\ Key(x) = Pred
           /\ op = "get" =>
                 \/ AtCall(x, "MMakeSampleMicro", "beginTicker") /\ Key(x) \in {Nbbo(Call(x)[3]), Pred}
                 \/ AtCall(x, "MPseudoTradePrep", "beginTicker") /\ Len(todo[x]) = 2 /\ Key(x) = Nbbo(Call(x)[3])
                 \/ AtCall(x, "MFastSim", "endDay") /\ Key(x) \in {Mid, Close}
           /\ op = "clear" =>
                 \/ AtCall(x, "MPseudoTradePrep", "beginDay") /\ Addr(x) = mMid
                 \/ AtCall(x, "MPseudoTradePrep", "endDay") /\ Len(todo[x]) = 4 /\ Addr(x) = mClose
           /\ op = "fill" =>
                 /\ AtCall(x, "MPseudoTradePrep", "endDay") /\ Len(todo[x]) = 3
                 /\ Addr(x) = mClose /\ Key(x) = Close
           /\ op = "publish" =>
                 /\ AtCall(x, "MPseudoTradePrep", "endDay")
                 /\ \/ Len(todo[x]) = 2 /\ Key(x) = Close /\ Addr(x) = mClose
                    \/ Len(todo[x]) = 1 /\ Key(x) = Mid /\ Addr(x) = mMid
           /\ op = "insert" =>
                 AtCall(x, "MPseudoTradePrep", "beginTicker") /\ Len(todo[x]) = 1 /\ Key(x) = Nbbo(Call(x)[3])
<1>1. todo[x] # <<>> /\ Head(todo[x]).op = op
  BY DEF Access
<1>2. NextRequest(x)
  BY <1>1, NextAccess DEF Base
<1>3. Key(x) = Head(todo[x]).key /\ Addr(x) = Head(todo[x]).addr
  BY DEF Key, Addr
<1>. QED  BY <1>1, <1>2, <1>3, DoFields DEF NextRequest

LEMMA AddStep ==
    ASSUME Base, StoreInv, NEW x \in Actors, Add(x)
    PROVE  /\ Access(x, "add") /\ held' = held
           /\ Key(x) \in Keys \ {Mid, Close}
           /\ \/ /\ AtCall(x, "MTickRead", "beginTicker") /\ Key(x) = Nbbo(Call(x)[3])
                 /\ Call(x)[3] \in Tickers0 /\ Contents(Key(x)) = {<<idate, market>>}
              \/ /\ AtCall(x, "MMakePredIndex", "beginDay") /\ Key(x) = Pred
                 /\ Contents(Key(x)) = {<<idate>>}
           /\ Len(todo[x]) = 1
           /\ StoreInv' /\ OnlyEntry(Key(x)) /\ mp'[Key(x)] # Null
           /\ heap'[mp'[Key(x)]].data = Contents(Key(x))
<1> USE DEF Base
<1>1. Access(x, "add") /\ held' = held /\ AddCopy(Key(x), Contents(Key(x)))
      /\ todo[x] # <<>> /\ Head(todo[x]).op = "add"
  BY DEF Add, Access
<1>2. \/ AtCall(x, "MTickRead", "beginTicker") /\ Len(todo[x]) = 1 /\ Key(x) = Nbbo(Call(x)[3])
      \/ AtCall(x, "MMakePredIndex", "beginDay") /\ Len(todo[x]) = 1 /\ Key(x) = Pred
  BY <1>1, Requested
<1>3. AtCall(x, "MTickRead", "beginTicker") => Call(x)[3] \in Tickers0
  BY AtTicker
<1>4. Key(x) \in Keys \ {Mid, Close}
  BY <1>2, <1>3, KeyFacts
<1>5. /\ \A t \in Tickers0 : Contents(Nbbo(t)) = {<<idate, market>>}
      /\ Contents(Pred) = {<<idate>>}
  BY KeyFacts DEF Contents, Pred, Nbbo
<1>6. /\ StoreInv' /\ OnlyEntry(Key(x)) /\ mp'[Key(x)] # Null
      /\ heap'[mp'[Key(x)]] = [key |-> Key(x), data |-> Contents(Key(x))]
  BY <1>1, <1>4, AddCopyStep
<1>. QED  BY <1>1, <1>2, <1>3, <1>4, <1>5, <1>6

LEMMA RemoveKeyStep ==
    ASSUME Base, StoreInv, NEW x \in Actors, RemoveKey(x)
    PROVE  /\ Access(x, "remove") /\ held' = held
           /\ Key(x) \in Keys \ {Mid, Close}
           /\ \/ /\ AtCall(x, "MTickRead", "endTicker") /\ Key(x) = Nbbo(Call(x)[3])
                 /\ Call(x)[3] \in Tickers0
              \/ AtCall(x, "MMakePredIndex", "endDay") /\ Key(x) = Pred
           /\ Len(todo[x]) = 1
           /\ StoreInv' /\ OnlyEntry(Key(x)) /\ mp'[Key(x)] = Null
<1> USE DEF Base
<1>1. Access(x, "remove") /\ held' = held /\ Remove(Key(x))
      /\ todo[x] # <<>> /\ Head(todo[x]).op = "remove"
  BY DEF RemoveKey, Access
<1>2. \/ AtCall(x, "MTickRead", "endTicker") /\ Len(todo[x]) = 1 /\ Key(x) = Nbbo(Call(x)[3])
      \/ AtCall(x, "MMakePredIndex", "endDay") /\ Len(todo[x]) = 1 /\ Key(x) = Pred
  BY <1>1, Requested
<1>3. AtCall(x, "MTickRead", "endTicker") => Call(x)[3] \in Tickers0
  BY AtTicker
<1>4. Key(x) \in Keys \ {Mid, Close}
  BY <1>2, <1>3, KeyFacts
<1>. QED  BY <1>1, <1>2, <1>3, <1>4, RemoveStep

LEMMA SkipStep ==
    ASSUME Base, NEW x \in Actors, Skip(x)
    PROVE  /\ Access(x, "add") /\ UNCHANGED <<mp, heap, held>>
           /\ AtCall(x, "MMakePredIndex", "beginDay")
<1>1. Access(x, "add") /\ UNCHANGED <<mp, heap, held>> /\ Key(x) = Pred
      /\ todo[x] # <<>> /\ Head(todo[x]).op = "add"
  BY DEF Skip, Access, event
<1>2. \/ AtCall(x, "MTickRead", "beginTicker") /\ Key(x) = Nbbo(Call(x)[3])
      \/ AtCall(x, "MMakePredIndex", "beginDay")
  BY <1>1, Requested
<1>3. AtCall(x, "MTickRead", "beginTicker") => Call(x)[3] \in Tickers0
  BY AtTicker DEF Base
<1>. QED  BY <1>1, <1>2, <1>3, KeyFacts

LEMMA PublishAccess ==
    ASSUME Base, StoreInv, NEW x \in Actors, Publish(x)
    PROVE  /\ Access(x, "publish") /\ UNCHANGED <<heap, held>> /\ StoreInv'
           /\ AtCall(x, "MPseudoTradePrep", "endDay")
           /\ \/ Len(todo[x]) = 2 /\ mp' = [mp EXCEPT ![Close] = mClose]
              \/ Len(todo[x]) = 1 /\ mp' = [mp EXCEPT ![Mid] = mMid]
<1> USE DEF Base
<1>1. Access(x, "publish") /\ held' = held /\ AddPointer(Key(x), Addr(x))
      /\ todo[x] # <<>> /\ Head(todo[x]).op = "publish"
  BY DEF Publish, Access
<1>2. /\ AtCall(x, "MPseudoTradePrep", "endDay")
      /\ \/ Len(todo[x]) = 2 /\ Key(x) = Close /\ Addr(x) = mClose
         \/ Len(todo[x]) = 1 /\ Key(x) = Mid /\ Addr(x) = mMid
  BY <1>1, Requested
<1>3. StoreInv' /\ mp' = [mp EXCEPT ![Key(x)] = Addr(x)] /\ heap' = heap
  BY <1>1, <1>2, KeyFacts, PublishStep
<1>. QED  BY <1>1, <1>2, <1>3

LEMMA GetStep ==
    ASSUME Base, NEW x \in Actors, GetPointer(x)
    PROVE  /\ Access(x, "get") /\ UNCHANGED <<mp, heap>>
           /\ held' = [held EXCEPT ![x] = @ \cup {[key |-> Key(x), addr |-> mp[Key(x)]]}]
           /\ \/ /\ AtCall(x, "MMakeSampleMicro", "beginTicker") /\ Call(x)[3] \in Tickers0
                 /\ Key(x) \in {Nbbo(Call(x)[3]), Pred}
              \/ /\ AtCall(x, "MPseudoTradePrep", "beginTicker") /\ Call(x)[3] \in Tickers0
                 /\ Len(todo[x]) = 2 /\ Key(x) = Nbbo(Call(x)[3])
              \/ AtCall(x, "MFastSim", "endDay") /\ Key(x) \in {Mid, Close}
<1> USE DEF Base
<1>1. Access(x, "get") /\ UNCHANGED <<mp, heap>> /\ todo[x] # <<>> /\ Head(todo[x]).op = "get"
  BY DEF GetPointer, Access, event
<1>2. \/ AtCall(x, "MMakeSampleMicro", "beginTicker") /\ Key(x) \in {Nbbo(Call(x)[3]), Pred}
      \/ AtCall(x, "MPseudoTradePrep", "beginTicker") /\ Len(todo[x]) = 2 /\ Key(x) = Nbbo(Call(x)[3])
      \/ AtCall(x, "MFastSim", "endDay") /\ Key(x) \in {Mid, Close}
  BY <1>1, Requested
<1>3. \A module : AtCall(x, module, "beginTicker") => Call(x)[3] \in Tickers0
  BY AtTicker
<1>4. held' = [held EXCEPT ![x] = @ \cup {[key |-> Key(x), addr |-> mp[Key(x)]]}]
  BY DEF GetPointer, Get
<1>. QED  BY <1>1, <1>2, <1>3, <1>4

LEMMA ClearStep ==
    ASSUME Base, StoreInv, NEW x \in Actors, Clear(x)
    PROVE  /\ Access(x, "clear") /\ UNCHANGED <<mp, held>> /\ StoreInv'
           /\ \/ /\ AtCall(x, "MPseudoTradePrep", "beginDay")
                 /\ heap'[mMid].data = {} /\ \A b \in Addrs \ {mMid} : heap'[b] = heap[b]
              \/ /\ AtCall(x, "MPseudoTradePrep", "endDay") /\ Len(todo[x]) = 4
                 /\ \A b \in Addrs \ {mClose} : heap'[b] = heap[b]
<1> USE DEF Base
<1>1. Access(x, "clear") /\ UNCHANGED <<mp, held>> /\ SetData(Addr(x), {})
      /\ todo[x] # <<>> /\ Head(todo[x]).op = "clear"
  BY DEF Clear, Access
<1>2. \/ AtCall(x, "MPseudoTradePrep", "beginDay") /\ Addr(x) = mMid
      \/ AtCall(x, "MPseudoTradePrep", "endDay") /\ Len(todo[x]) = 4 /\ Addr(x) = mClose
  BY <1>1, Requested
<1>. QED  BY <1>1, <1>2, SetDataStep

LEMMA FillStep ==
    ASSUME Base, StoreInv, NEW x \in Actors, Fill(x)
    PROVE  /\ Access(x, "fill") /\ UNCHANGED <<mp, held>> /\ StoreInv'
           /\ AtCall(x, "MPseudoTradePrep", "endDay") /\ Len(todo[x]) = 3
           /\ heap'[mClose].data = {<<idate>>} /\ \A b \in Addrs \ {mClose} : heap'[b] = heap[b]
<1> USE DEF Base
<1>1. Access(x, "fill") /\ UNCHANGED <<mp, held>> /\ SetData(Addr(x), Contents(Key(x)))
      /\ todo[x] # <<>> /\ Head(todo[x]).op = "fill"
  BY DEF Fill, Access
<1>2. AtCall(x, "MPseudoTradePrep", "endDay") /\ Len(todo[x]) = 3 /\ Addr(x) = mClose /\ Key(x) = Close
  BY <1>1, Requested
<1>3. Contents(Close) = {<<idate>>}
  BY DEF Contents, Close
<1>. QED  BY <1>1, <1>2, <1>3, SetDataStep

LEMMA InsertStep ==
    ASSUME Base, StoreInv, NEW x \in Actors, InsertMid(x)
    PROVE  /\ Access(x, "insert") /\ UNCHANGED <<mp, held>> /\ StoreInv'
           /\ AtCall(x, "MPseudoTradePrep", "beginTicker") /\ Len(todo[x]) = 1
           /\ heap'[mMid].data = heap[mMid].data \cup {<<idate, market, Call(x)[3]>>}
           /\ \A b \in Addrs \ {mMid} : heap'[b] = heap[b]
<1> USE DEF Base
<1>1. /\ Access(x, "insert") /\ UNCHANGED <<mp, held>>
      /\ SetData(mMid, heap[mMid].data \cup {<<idate, market, Key(x)[1]>>})
      /\ todo[x] # <<>> /\ Head(todo[x]).op = "insert"
  BY DEF InsertMid, Access
<1>2. AtCall(x, "MPseudoTradePrep", "beginTicker") /\ Len(todo[x]) = 1 /\ Key(x) = Nbbo(Call(x)[3])
  BY <1>1, Requested
<1>3. Key(x)[1] = Call(x)[3]
  BY <1>2 DEF Nbbo
<1>. QED  BY <1>1, <1>2, <1>3, SetDataStep

LEMMA StoreNext ==
    ASSUME Base, StoreInv, [BlackboardNext]_allVars
    PROVE  StoreInv'
<1>1. CASE Schedule
  BY <1>1 DEF Schedule, event, StoreInv, StoredLive
<1>2. ASSUME NEW x \in Actors, AccessOf(x) PROVE StoreInv'
  <2>1. CASE Skip(x) \/ GetPointer(x)
    BY <2>1, SkipStep, GetStep DEF StoreInv, StoredLive
  <2>. QED
    BY <1>2, <2>1, AddStep, RemoveKeyStep, PublishAccess, ClearStep, FillStep, InsertStep DEF AccessOf
<1>3. CASE UNCHANGED allVars
  BY <1>3 DEF allVars, event, StoreInv, StoredLive
<1>. QED  BY <1>1, <1>2, <1>3, BlackboardSteps

LEMMA StoreInit == BlackboardInit => StoreInv
<1> SUFFICES ASSUME BlackboardInit PROVE StoreInv
  OBVIOUS
<1>1. mp = [key \in Keys |-> Null]
      /\ heap = [a \in Addrs |-> CASE a = mMid   -> [key |-> Mid, data |-> {}]
                                   [] a = mClose -> [key |-> Close, data |-> {}]
                                   [] OTHER      -> Free]
  BY DEF BlackboardInit
<1>2. heap[mMid] = [key |-> Mid, data |-> {}] /\ heap[mClose] = [key |-> Close, data |-> {}]
      /\ \A a \in Copies : heap[a] = Free
  BY <1>1, AddressFacts
<1>3. \A key \in Keys : mp[key] = Null
  BY <1>1
<1>4. StoredLive
  BY <1>3 DEF StoredLive
<1>. QED  BY <1>2, <1>4 DEF StoreInv

LEMMA StoreHolds == BlackboardSpec => [](Base /\ StoreInv)
<1>1. Base /\ StoreInv /\ [BlackboardNext]_allVars => StoreInv'
  BY StoreNext
<1>. QED  BY <1>1, StoreInit, BaseHolds, PTL DEF BlackboardSpec

(***************************************************************************)
(* Theorem: an entry of MEvent never points to an object that has been     *)
(* deleted or belongs to another key, in whatever order the modules are    *)
(* configured and their threads run: neither add nor remove ever deletes   *)
(* an object twice, or one that belongs to a module.                       *)
(***************************************************************************)
THEOREM EntriesAreLive == BlackboardSpec => []StoredLive
<1>1. StoreInv => StoredLive
  BY DEF StoreInv
<1>. QED  BY <1>1, StoreHolds, PTL

------------------------
(* How a step of the scheduler moves a ticker thread.                      *)

LEMMA OtherThreadsKept ==
    ASSUME TypeInv, NEW i \in Threads, NEW j \in Threads, TickerThread(j), i # j
    PROVE  thr'[i] = thr[i]
BY DEF TickerThread, ThreadStart, BeginTicker, EndTicker, TypeInv, TypeOK

MovesTo(i) ==
    LET th == thr[i]
    IN  \/ /\ th.at = "beginTicker" /\ th.mod < NModules
           /\ thr'[i] = Inside("beginTicker", th.tk, th.to, th.mod + 1)
        \/ /\ th.at = "beginTicker" /\ ~ (th.mod < NModules)
           /\ thr'[i] = Inside("endTicker", th.tk, th.to, 1)
        \/ /\ th.at = "endTicker" /\ th.mod < NModules
           /\ thr'[i] = Inside("endTicker", th.tk, th.to, th.mod + 1)
        \/ /\ th.at = "endTicker" /\ ~ (th.mod < NModules)
           /\ thr'[i] = FromTo(th.tk + 1, th.to)

LEMMA TickerMoves ==
    ASSUME ControlInv, Next, NEW i \in Threads, InTicker(i)
    PROVE  /\ UNCHANGED <<env, setup>>
           /\ thr'[i] = thr[i] \/ (MovesTo(i) /\ UNCHANGED <<pc, k, eday>>)
<1> USE DEF ControlInv
<1>1. pc \in {"create", "join"} /\ thr[i].at \in {"beginTicker", "endTicker"} /\ TypeInv
  BY TickerPlace DEF InTicker
<1>2. CASE CreateThread
  <2>1. k # i
    BY <1>1, <1>2, ConfFields DEF CreateThread, LifeInv, TypeInv, TypeOK, AtRest
  <2>. QED  BY <1>2, <2>1 DEF CreateThread, TypeInv, TypeOK, setup, env
<1>3. CASE LoopTickersAlone
  <2>1. k <= i
    BY <1>1, <1>3, ConfFields DEF LoopTickersAlone, LifeInv, Threads, TypeInv
  <2>2. thr[i].at = "none"
    BY <1>3, <2>1 DEF LoopTickersAlone, LifeInv
  <2>. QED  BY <1>1, <2>2
<1>4. CASE JoinThread
  <2>1. k # i
    BY <1>1, <1>4 DEF JoinThread
  <2>. QED  BY <1>4, <2>1 DEF JoinThread, TypeInv, TypeOK, setup, env
<1>5. CASE AllCreated \/ AllJoined
  BY <1>5 DEF AllCreated, AllJoined, setup, env
<1>6. ASSUME NEW j \in Threads, TickerThread(j)
      PROVE  /\ UNCHANGED <<env, setup>>
             /\ thr'[i] = thr[i] \/ (MovesTo(i) /\ UNCHANGED <<pc, k, eday>>)
  <2>1. UNCHANGED <<env, setup>> /\ UNCHANGED <<pc, k, eday>>
    BY <1>6 DEF TickerThread, ThreadStart, BeginTicker, EndTicker
  <2>2. CASE j = i
    <3>1. BeginTicker(i) \/ EndTicker(i)
      BY <1>1, <1>6, <2>2 DEF TickerThread, ThreadStart
    <3>2. MovesTo(i)
      BY <1>1, <3>1 DEF BeginTicker, EndTicker, MovesTo, TypeInv, TypeOK
    <3>. QED  BY <2>1, <3>2
  <2>. QED  BY <1>1, <1>6, <2>1, <2>2, OtherThreadsKept
<1>7. ASSUME NEW m \in Mods, EndDayThread(m)
      PROVE  UNCHANGED <<env, setup, thr>>
  BY <1>7 DEF EndDayThread, EndDayStart, EndDayReturn
<1>8. CASE Terminated
  BY <1>8 DEF Terminated, vars, env, setup
<1>9. Main => CreateThread \/ LoopTickersAlone \/ JoinThread \/ AllCreated \/ AllJoined
  BY <1>1 DEF Main, InitModule, InitError, BeginJob, BeginMarket, BeginDay, BeginMarketDay,
              EndMarketDay, EndDay, CreateEndDay, JoinEndDay, EndMarket, EndJob
<1>. QED  BY <1>2, <1>3, <1>4, <1>5, <1>6, <1>7, <1>8, <1>9 DEF Next

(* A thread that enters a callback from outside enters its first one.      *)
LEMMA TickerEnters ==
    ASSUME ControlInv, Next, NEW i \in Threads, ~ InTicker(i), InTicker(i)'
    PROVE  /\ thr'[i].at = "beginTicker" /\ thr'[i].mod = 1
           /\ UNCHANGED <<env, setup>>
<1> USE DEF ControlInv
<1>1. thr \in [Threads -> ThreadType] /\ TypeInv
  BY DEF TypeInv, TypeOK
<1>2. ASSUME NEW from, NEW to, thr'[i] = FromTo(from, to)
      PROVE  thr'[i].at = "beginTicker" /\ thr'[i].mod = 1
  BY <1>2 DEF FromTo, Inside, AtRest, InTicker
<1>3. CASE CreateThread \/ JoinThread
  <2>1. thr'[i] = thr[i] \/ thr'[i] = AtRest("created") \/ thr'[i] = AtRest("none")
    BY <1>1, <1>3 DEF CreateThread, JoinThread
  <2>. QED  BY <2>1 DEF AtRest, InTicker
<1>4. CASE LoopTickersAlone
  <2>1. thr'[i] = FromTo(0, NLoop) \/ thr'[i] = thr[i]
    BY <1>1, <1>4 DEF LoopTickersAlone
  <2>. QED  BY <1>2, <1>4, <2>1 DEF LoopTickersAlone, InTicker, setup, env
<1>5. ASSUME NEW j \in Threads, TickerThread(j)
      PROVE  thr'[i].at = "beginTicker" /\ thr'[i].mod = 1 /\ UNCHANGED <<env, setup>>
  <2>1. j = i
    BY <1>1, <1>5, OtherThreadsKept DEF InTicker
  <2>2. ThreadStart(i)
    BY <1>5, <2>1 DEF TickerThread, BeginTicker, EndTicker, InTicker
  <2>3. \E from, to : thr'[i] = FromTo(from, to)
    BY <1>1, <2>2 DEF ThreadStart
  <2>. QED  BY <1>2, <2>2, <2>3 DEF ThreadStart, setup, env
<1>6. thr' # thr
  BY DEF InTicker
<1>7. ASSUME NEW m \in Mods, EndDayThread(m) PROVE thr' = thr
  BY <1>7 DEF EndDayThread, EndDayStart, EndDayReturn
<1>8. CASE \/ InitModule \/ InitError \/ BeginJob \/ BeginMarket \/ BeginDay \/ BeginMarketDay
           \/ AllCreated \/ AllJoined
  BY <1>6, <1>8 DEF InitModule, InitError, BeginJob, BeginMarket, BeginDay, BeginMarketDay, AllCreated, AllJoined
<1>9. CASE EndMarketDay \/ EndDay \/ CreateEndDay \/ JoinEndDay \/ EndMarket \/ EndJob
  BY <1>6, <1>9 DEF EndMarketDay, EndDay, CreateEndDay, JoinEndDay, EndMarket, EndJob
<1>10. CASE Terminated
  BY <1>6, <1>10 DEF Terminated, vars
<1>. QED  BY <1>3, <1>4, <1>5, <1>6, <1>7, <1>8, <1>9, <1>10 DEF Next, Main

LEMMA CallLengthsNext == CallLengths'
BY CallLengthsHold, PTL

LEMMA TickerCalls ==
    ASSUME NEW i \in Threads, Threads' = Threads
    PROVE  Call(Ticker(i))' = IF InTicker(i)' THEN <<thr'[i].at, thr'[i].mod, TickerAt[thr'[i].tk + 1]>>
                              ELSE NoCall
BY CallTableNext DEF CallTable

(* With the accesses its callback has left.                                *)
LEMMA TickerSchedule ==
    ASSUME Base, Base', Schedule, NEW i \in Threads, InTicker(i)
    PROVE  /\ UNCHANGED <<env, setup, event, program>>
           /\ \/ /\ thr'[i] = thr[i] /\ todo'[Ticker(i)] = todo[Ticker(i)]
                 /\ held'[Ticker(i)] = held[Ticker(i)] /\ Call(Ticker(i))' = Call(Ticker(i))
              \/ /\ MovesTo(i) /\ UNCHANGED <<pc, k, eday>>
                 /\ todo[Ticker(i)] = <<>> /\ held'[Ticker(i)] = {}
                 /\ todo'[Ticker(i)] = AccessesOf(Call(Ticker(i)))'
<1>1. Next /\ Threads' = Threads /\ Ticker(i) \in Actors /\ UNCHANGED <<event, program>>
  BY ScheduleStep, ActorKinds DEF Base
<1>2. /\ UNCHANGED <<env, setup>>
      /\ thr'[i] = thr[i] \/ (MovesTo(i) /\ UNCHANGED <<pc, k, eday>>)
  BY <1>1, TickerMoves DEF Base
<1>3. Call(Ticker(i)) = <<thr[i].at, thr[i].mod, TickerAt[thr[i].tk + 1]>>
  BY TickerCall
<1>4. CASE thr'[i] = thr[i]
  <2>1. Call(Ticker(i))' = Call(Ticker(i))
    BY <1>1, <1>3, <1>4, TickerCalls DEF InTicker
  <2>. QED  BY <1>1, <1>2, <1>4, <2>1, ScheduleStep DEF Base
<1>5. CASE MovesTo(i) /\ UNCHANGED <<pc, k, eday>>
  <2>1. thr[i].mod \in Nat /\ thr[i].mod + 1 # thr[i].mod
    BY DEF Base, ControlInv, TypeInv, TypeOK, ThreadType
  <2>2. Call(Ticker(i))' # Call(Ticker(i))
    <3>1. CASE ~ InTicker(i)'
      <4>1. Call(Ticker(i))' = NoCall
        BY <1>1, <3>1, TickerCalls
      <4>. QED  BY <1>3, <4>1 DEF NoCall, InTicker
    <3>2. CASE InTicker(i)'
      <4>1. Call(Ticker(i))'[1] = thr'[i].at /\ Call(Ticker(i))'[2] = thr'[i].mod
        BY <1>1, <3>2, TickerCalls
      <4>2. Call(Ticker(i))[1] = thr[i].at /\ Call(Ticker(i))[2] = thr[i].mod
        BY <1>3
      <4>3. thr'[i].at # thr[i].at \/ thr'[i].mod # thr[i].mod
        BY <1>5, <2>1, <3>2 DEF MovesTo, Inside, FromTo, AtRest, InTicker
      <4>. QED  BY <4>1, <4>2, <4>3
    <3>. QED  BY <3>1, <3>2
  <2>. QED  BY <1>1, <1>2, <1>5, <2>2, ScheduleStep DEF Base
<1>. QED  BY <1>2, <1>4, <1>5

LEMMA TickerBegins ==
    ASSUME Base, Base', Schedule, NEW i \in Threads, ~ InTicker(i), InTicker(i)'
    PROVE  /\ thr'[i].at = "beginTicker" /\ thr'[i].mod = 1
           /\ UNCHANGED <<env, setup, event, program>>
           /\ todo'[Ticker(i)] = AccessesOf(Call(Ticker(i)))' /\ held'[Ticker(i)] = {}
<1>1. Next /\ Threads' = Threads /\ Ticker(i) \in Actors /\ UNCHANGED <<event, program>>
  BY ScheduleStep, ActorKinds DEF Base
<1>2. /\ thr'[i].at = "beginTicker" /\ thr'[i].mod = 1
      /\ UNCHANGED <<env, setup>>
  BY <1>1, TickerEnters DEF Base
<1>3. Call(Ticker(i)) = NoCall
  BY TickerCall
<1>4. Call(Ticker(i))'[1] = "beginTicker"
  BY <1>1, <1>2, TickerCalls
<1>5. Call(Ticker(i))' # Call(Ticker(i))
  BY <1>3, <1>4 DEF NoCall
<1>. QED  BY <1>1, <1>2, <1>5, ScheduleStep DEF Base

------------------------
(* A ticker's quotes are in the store only while a thread is at the ticker *)
(* and the endTicker of some MTickRead, which removes them, is ahead.      *)

EndTickerDue(i) ==
    \E m \in Mods :
        /\ program[m] = "MTickRead"
        /\ \/ thr[i].at = "beginTicker"
           \/ thr[i].mod < m
           \/ thr[i].mod = m /\ todo[Ticker(i)] # <<>>

RemovesQuotes(i, t) == InTicker(i) /\ TickerAt[thr[i].tk + 1] = t /\ EndTickerDue(i)

NbboInv == \A t \in Tickers0 : mp[Nbbo(t)] # Null => \E i \in Threads : RemovesQuotes(i, t)

LEMMA NbboAccess ==
    ASSUME Base, StoreInv, NbboInv, NEW x \in Actors, AccessOf(x)
    PROVE  NbboInv'
<1> USE DEF Base
<1>0. PICK op : Access(x, op)
  BY AccessHasOp
<1>1. /\ Threads' = Threads /\ Mods' = Mods /\ thr' = thr /\ program' = program
      /\ \A y \in Actors : y # x => todo'[y] = todo[y]
      /\ \A i : InTicker(i)' <=> InTicker(i)
      /\ todo[x] # <<>>
  BY <1>0, AccessStep DEF vars, InTicker
<1>2. ASSUME NEW t \in Tickers0, NEW i \in Threads, RemovesQuotes(i, t), mp'[Nbbo(t)] # Null
      PROVE  RemovesQuotes(i, t)'
  <2>1. PICK m \in Mods : /\ program[m] = "MTickRead"
                          /\ \/ thr[i].at = "beginTicker" \/ thr[i].mod < m
                             \/ thr[i].mod = m /\ todo[Ticker(i)] # <<>>
    BY <1>2 DEF RemovesQuotes, EndTickerDue
  <2>2. CASE thr[i].at = "beginTicker" \/ thr[i].mod < m \/ x # Ticker(i)
    <3>1. Ticker(i) \in Actors
      BY ActorKinds
    <3>. QED  BY <1>1, <1>2, <2>1, <2>2, <3>1 DEF RemovesQuotes, EndTickerDue
  <2>3. CASE thr[i].at = "endTicker" /\ thr[i].mod = m /\ x = Ticker(i)
    <3>1. AtCall(x, "MTickRead", "endTicker") /\ Call(x)[3] = t
      BY <1>2, <2>1, <2>3, TickerCall DEF AtCall, RemovesQuotes, NoCall
    <3>2. RemoveKey(x)
      <4>1. ~ Add(x) /\ ~ Skip(x) /\ ~ Publish(x) /\ ~ GetPointer(x) /\ ~ Clear(x) /\ ~ Fill(x) /\ ~ InsertMid(x)
        BY <3>1, AddStep, SkipStep, PublishAccess, GetStep, ClearStep, FillStep, InsertStep DEF AtCall
      <4>. QED  BY <4>1 DEF AccessOf
    <3>3. mp'[Nbbo(t)] = Null
      BY <3>1, <3>2, RemoveKeyStep DEF AtCall
    <3>. QED  BY <1>2, <3>3
  <2>. QED  BY <1>2, <2>1, <2>2, <2>3 DEF RemovesQuotes, InTicker
<1>3. ASSUME NEW t \in Tickers0, mp'[Nbbo(t)] # Null
      PROVE  \E i \in Threads : RemovesQuotes(i, t)'
  <2>1. CASE mp[Nbbo(t)] # Null
    BY <1>2, <1>3, <2>1 DEF NbboInv
  <2>2. CASE mp[Nbbo(t)] = Null
    <3>1. Nbbo(t) \in Keys \ {Pred, Mid, Close}
      BY KeyFacts
    <3>2. ~ Skip(x) /\ ~ GetPointer(x) /\ ~ Clear(x) /\ ~ Fill(x) /\ ~ InsertMid(x)
      BY <1>3, <2>2, SkipStep, GetStep, ClearStep, FillStep, InsertStep
    <3>3. ~ Publish(x)
      BY <1>3, <2>2, <3>1, PublishAccess DEF StateInv
    <3>4. ~ RemoveKey(x)
      BY <1>3, <2>2, <3>1, RemoveKeyStep DEF OnlyEntry
    <3>5. Add(x)
      BY <3>2, <3>3, <3>4 DEF AccessOf
    <3>6. Key(x) = Nbbo(t)
      BY <1>3, <2>2, <3>1, <3>5, AddStep DEF OnlyEntry
    <3>7. AtCall(x, "MTickRead", "beginTicker") /\ Call(x)[3] = t
      BY <3>1, <3>5, <3>6, AddStep, KeyFacts
    <3>8. PICK i \in Threads : /\ x = Ticker(i) /\ InTicker(i) /\ thr[i].at = "beginTicker"
                               /\ thr[i].mod \in Mods /\ program[thr[i].mod] = "MTickRead"
                               /\ TickerAt[thr[i].tk + 1] = t
      BY <3>7, AtTicker
    <3>. QED  BY <1>1, <3>8 DEF RemovesQuotes, EndTickerDue
  <2>. QED  BY <2>1, <2>2
<1>. QED  BY <1>1, <1>3 DEF NbboInv

LEMMA NbboSchedule ==
    ASSUME Base, Base', NbboInv, Schedule
    PROVE  NbboInv'
<1>1. Threads' = Threads /\ Mods' = Mods /\ NModules' = NModules /\ UNCHANGED <<mp, program>>
  BY ScheduleStep DEF Base, event
<1>2. ASSUME NEW t \in Tickers0, NEW i \in Threads, RemovesQuotes(i, t)
      PROVE  RemovesQuotes(i, t)'
  <2>1. InTicker(i) /\ TickerAt[thr[i].tk + 1] = t
    BY <1>2 DEF RemovesQuotes
  <2>2. PICK m \in Mods : /\ program[m] = "MTickRead"
                          /\ \/ thr[i].at = "beginTicker" \/ thr[i].mod < m
                             \/ thr[i].mod = m /\ todo[Ticker(i)] # <<>>
    BY <1>2 DEF RemovesQuotes, EndTickerDue
  <2>3. CASE thr'[i] = thr[i] /\ todo'[Ticker(i)] = todo[Ticker(i)]
    BY <1>1, <2>1, <2>2, <2>3 DEF RemovesQuotes, EndTickerDue, InTicker
  <2>4. CASE MovesTo(i) /\ todo[Ticker(i)] = <<>> /\ todo'[Ticker(i)] = AccessesOf(Call(Ticker(i)))'
    <3>1. m \in Nat /\ m <= NModules /\ m >= 1 /\ thr[i].mod \in Nat /\ NModules \in Nat
      BY BlockType DEF Mods, Base, ControlInv, TypeInv, TypeOK, ThreadType
    <3>2. thr[i].at = "beginTicker" \/ thr[i].mod < m
      BY <2>2, <2>4
    <3>3. ASSUME thr'[i].at = "endTicker", thr'[i].mod <= m, thr'[i].tk = thr[i].tk, thr'[i].mod \in Nat
          PROVE  RemovesQuotes(i, t)'
      <4>1. InTicker(i)' /\ TickerAt[thr'[i].tk + 1] = t
        BY <2>1, <3>3 DEF InTicker
      <4>2. CASE thr'[i].mod < m
        BY <1>1, <2>2, <4>1, <4>2 DEF RemovesQuotes, EndTickerDue
      <4>3. CASE thr'[i].mod = m
        <5>1. Call(Ticker(i))' = <<"endTicker", m, t>>
          BY <1>1, <3>3, <4>1, <4>3, TickerCalls
        <5>2. AtCall(Ticker(i), "MTickRead", "endTicker")'
          BY <1>1, <2>2, <5>1 DEF AtCall, NoCall
        <5>3. Ticker(i) \in Actors'
          BY <1>1, ActorKinds, ScheduleStep DEF Base
        <5>4. Len(AccessesOf(Call(Ticker(i))))' = 1
          BY <5>2, <5>3, CallLengthsNext DEF CallLengths
        <5>5. todo'[Ticker(i)] # <<>>
          <6>1. Len(todo'[Ticker(i)]) = 1
            BY <2>4, <5>4
          <6>. QED  BY ONLY <6>1
        <5>. QED  BY <1>1, <2>2, <4>1, <4>3, <5>5 DEF RemovesQuotes, EndTickerDue
      <4>. QED  BY <3>1, <3>3, <4>2, <4>3
    <3>4. CASE thr'[i] = Inside("beginTicker", thr[i].tk, thr[i].to, thr[i].mod + 1)
      BY <1>1, <2>1, <2>2, <3>4 DEF Inside, RemovesQuotes, EndTickerDue, InTicker
    <3>5. CASE thr'[i] = Inside("endTicker", thr[i].tk, thr[i].to, 1)
      BY <3>1, <3>3, <3>5 DEF Inside
    <3>6. CASE /\ thr[i].at = "endTicker" 
               /\ thr'[i] = Inside("endTicker", thr[i].tk, thr[i].to, thr[i].mod + 1)
      BY <3>1, <3>2, <3>3, <3>6 DEF Inside
    <3>7. ~ (thr[i].at = "endTicker" /\ ~ (thr[i].mod < NModules))
      BY <3>1, <3>2
    <3>. QED  BY <2>4, <3>4, <3>5, <3>6, <3>7 DEF MovesTo
  <2>. QED  BY <2>1, <2>3, <2>4, TickerSchedule
<1>. QED  BY <1>1, <1>2 DEF NbboInv

LEMMA NbboStopped ==
    ASSUME NbboInv, UNCHANGED allVars
    PROVE  NbboInv'
<1>1. UNCHANGED vars /\ UNCHANGED <<mp, program, todo>>
  BY DEF allVars, event
<1>2. Threads' = Threads /\ Mods' = Mods /\ thr' = thr
  BY <1>1, SetupKept DEF vars
<1>. QED  BY <1>1, <1>2 DEF NbboInv, RemovesQuotes, EndTickerDue, InTicker

LEMMA NbboNext ==
    ASSUME Base, Base', StoreInv, NbboInv, [BlackboardNext]_allVars
    PROVE  NbboInv'
BY BlackboardSteps, NbboAccess, NbboSchedule, NbboStopped

------------------------
(* How a step of the scheduler moves the modules through the end of a day. *)

InDay ==
    pc \in {"beginDay", "beginMarketDay", "create", "join", "endMarketDay", "endDay", "joinEndDay"}
           \cup (IF Mdt THEN {} ELSE {"beginMarket", "endMarket"})

DayIsEnding == pc \in {"endDay", "joinEndDay"}

LEMMA MainCalls ==
    Call(MainThread)' = IF pc' \in BeginsAndEnds /\ (pc' = "endDay" => Alone(k)')
                        THEN <<pc', k', 0>> ELSE NoCall
BY CallTableNext DEF CallTable

(* When the main thread's callback changes, its accesses are done.         *)
LEMMA MainSchedule ==
    ASSUME Base, Base', Schedule
    PROVE  /\ MainThread \in Actors
           /\ Call(MainThread)' = Call(MainThread) => todo'[MainThread] = todo[MainThread]
           /\ Call(MainThread)' # Call(MainThread) =>
                 todo[MainThread] = <<>> /\ todo'[MainThread] = AccessesOf(Call(MainThread))'
BY ActorKinds, ScheduleStep DEF Base

LEMMA EndDaySchedule ==
    ASSUME Base, Base', Schedule, NEW m \in Mods
    PROVE  /\ EndDayOf(m) \in Actors
           /\ eday'[m] = eday[m] => todo'[EndDayOf(m)] = todo[EndDayOf(m)]
           /\ eday'[m] # eday[m] /\ "endDay" \in {eday[m], eday'[m]} =>
                 todo[EndDayOf(m)] = <<>> /\ todo'[EndDayOf(m)] = AccessesOf(Call(EndDayOf(m)))'
<1>1. EndDayOf(m) \in Actors /\ Mods' = Mods
  BY ActorKinds, ScheduleStep DEF Base
<1>2. Call(EndDayOf(m)) = IF eday[m] = "endDay" THEN <<"endDay", m, 0>> ELSE NoCall
  BY EndDayCall
<1>3. Call(EndDayOf(m))' = IF eday'[m] = "endDay" THEN <<"endDay", m, 0>> ELSE NoCall
  BY <1>1, CallTableNext DEF CallTable
<1>4. <<"endDay", m, 0>> # NoCall
  BY DEF NoCall
<1>5. eday'[m] = eday[m] => Call(EndDayOf(m))' = Call(EndDayOf(m))
  BY <1>2, <1>3
<1>6. eday'[m] # eday[m] /\ "endDay" \in {eday[m], eday'[m]} => Call(EndDayOf(m))' # Call(EndDayOf(m))
  BY <1>2, <1>3, <1>4
<1>. QED  BY <1>1, <1>5, <1>6, ScheduleStep DEF Base

(* Module m's endDay has begun, and if it is under way, by the same thread *)
(* and with the same accesses left as before; or it begins now.            *)
StillLeft(m) ==
    /\ DayIsEnding /\ LeftDay(m)
    /\ \A x \in Actors : /\ EndsDay(x, m)' => EndsDay(x, m) /\ todo'[x] = todo[x]
                         /\ EndsDay(x, m) => EndsDay(x, m)' \/ todo[x] = <<>>

LeavesNow(m) ==
    /\ ~ (DayIsEnding /\ LeftDay(m))
    /\ \E x \in Actors : EndsDay(x, m)' /\ todo'[x] = AccessesOf(Call(x))'

LEMMA EnterEndDayLeaves ==
    ASSUME Base, Base', Schedule, ~ DayIsEnding, pc' = "endDay", k' = 1, UNCHANGED eday,
           NEW m \in Mods, LeftDay(m)'
    PROVE  LeavesNow(m)
<1>1. eday'[m] = "none"
  BY DEF Base, ControlInv, EdayInv, DayIsEnding
<1>2. m = 1 /\ Alone(1)'
  BY <1>1 DEF LeftDay, Mods
<1>3. EndsDay(MainThread, m)'
  BY <1>2 DEF EndsDay
<1>4. Call(MainThread)' = <<"endDay", 1, 0>>
  BY <1>2, MainCalls DEF BeginsAndEnds
<1>5. Call(MainThread)' # Call(MainThread)
  BY <1>4, MainCall DEF NoCall, DayIsEnding
<1>. QED  BY <1>3, <1>5, MainSchedule DEF LeavesNow

LEMMA AloneKept ==
    ASSUME UNCHANGED <<block, conf, modules>>
    PROVE  /\ Mods' = Mods /\ \A m : Alone(m)' <=> Alone(m)
           /\ \A m : Group(m)' = Group(m)
<1>1. Mods' = Mods
  BY DEF Mods, NModules
<1>2. \A m : Group(m)' = Group(m)
  BY <1>1 DEF Group
<1>. QED  BY <1>1, <1>2 DEF Alone

(* The main thread goes on to the next module, when all up to k are done.  *)
LEMMA NextModuleLeaves ==
    ASSUME Base, Base', Schedule, DayIsEnding, UNCHANGED setup, pc' = "endDay", k' = k + 1,
           \A n \in Mods : eday'[n] = "none",
           \A n \in Mods : eday[n] # "endDay" /\ (n <= k => LeftDay(n)) /\ (n = k + 1 => eday[n] = "none"),
           NEW m \in Mods, LeftDay(m)'
    PROVE  StillLeft(m) \/ LeavesNow(m)
<1>2. k \in Nat /\ m \in Nat
  BY DEF Base, ControlInv, TypeInv, TypeOK, Mods
<1>3. m <= k \/ (m = k + 1 /\ Alone(m)')
  BY <1>2 DEF LeftDay, Alone, Group
<1>4. Call(MainThread) = NoCall \/ (Call(MainThread)[1] = pc /\ Call(MainThread)[2] = k)
  BY MainCall
<1>5. Call(MainThread)' = NoCall \/ (Call(MainThread)'[1] = "endDay" /\ Call(MainThread)'[2] = k + 1)
  BY MainCalls
<1>6. k + 1 # k
  BY <1>2
<1>7. CASE m <= k
  <2>1. ASSUME NEW x \in Actors, EndsDay(x, m)' PROVE FALSE
    BY <1>2, <1>7, <2>1 DEF EndsDay
  <2>2. ASSUME NEW x \in Actors, EndsDay(x, m) PROVE todo[x] = <<>>
    <3>1. x = MainThread /\ pc = "endDay" /\ k = m /\ Alone(m)
      BY <2>2 DEF EndsDay
    <3>2. Call(MainThread) # NoCall
      BY <3>1, MainCall DEF BeginsAndEnds, NoCall
    <3>3. Call(MainThread)' # Call(MainThread)
      BY <1>4, <1>5, <1>6, <3>2
    <3>. QED  BY <3>1, <3>3, MainSchedule
  <2>3. LeftDay(m)
    BY <1>7
  <2>. QED  BY <2>1, <2>2, <2>3 DEF StillLeft
<1>8. CASE m = k + 1 /\ Alone(m)'
  <2>1. EndsDay(MainThread, m)' /\ Alone(k)'
    BY <1>8 DEF EndsDay, Alone, Group
  <2>2. Call(MainThread)' = <<"endDay", k + 1, 0>>
    BY <2>1, MainCalls DEF BeginsAndEnds
  <2>3. Call(MainThread)' # Call(MainThread)
    BY <1>4, <1>6, <2>2 DEF NoCall
  <2>4. ~ LeftDay(m)
    BY <1>2, <1>8 DEF LeftDay
  <2>. QED  BY <2>1, <2>3, <2>4, MainSchedule DEF LeavesNow
<1>. QED  BY <1>3, <1>7, <1>8

LEMMA EdayCases ==
    ASSUME ControlInv, pc = "joinEndDay", \A n \in Group(k) : eday[n] = "done"
    PROVE  /\ k \in Mods /\ \A n \in Mods : /\ eday[n] # "endDay" /\ (n <= k => LeftDay(n))
                                            /\ (n = k + 1 => eday[n] = "none")
<1>1. k \in Mods /\ LastOfGroup(k) /\ EdayInv
  BY DEF ControlInv, LifeInv
<1>2. \A n \in Mods : eday[n] # "none" => n \in Group(k)
  BY <1>1 DEF EdayInv
<1>3. k \in Group(k) /\ NModules \in Nat
  BY <1>1, BlockType DEF Group, ControlInv, TypeInv
<1>4. \A n \in Mods : n \in Group(k) \/ (eday[n] = "none" /\ n # k)
  BY <1>2, <1>3
<1>5. \A n \in Mods : n <= k => LeftDay(n)
  BY <1>1, <1>4 DEF LeftDay, Mods
<1>6. ASSUME NEW n \in Mods, n = k + 1 PROVE n \notin Group(k)
  BY <1>1, <1>3, <1>6 DEF LastOfGroup, Group, Mods
<1>. QED  BY <1>1, <1>4, <1>5, <1>6

(* Which steps of the scheduler lead to, or stay in, the end of a day.     *)
LEMMA LeavesDay ==
    ASSUME Base, Base', Schedule, pc' \in {"endDay", "joinEndDay"}, NEW m \in Mods, LeftDay(m)'
    PROVE  StillLeft(m) \/ LeavesNow(m)
<1> USE DEF Base
<1>1. Next /\ Mods' = Mods /\ NModules' = NModules
  BY ScheduleStep
<1>2. k \in Nat /\ m \in Nat /\ NModules \in Nat /\ conf.loopingOrder \in {"mdt", "dmt"}
  BY BlockType, ConfFields DEF ControlInv, TypeInv, TypeOK, Mods, ConfType
<1>3. CASE InitModule \/ InitError \/ BeginJob \/ BeginMarket \/ BeginMarketDay \/ EndJob
  BY <1>3 DEF InitModule, InitError, BeginJob, BeginMarket, BeginMarketDay, EndJob, Goto, EnterMarkets, EnterIdates
<1>4. CASE CreateThread \/ AllCreated \/ LoopTickersAlone \/ JoinThread \/ AllJoined
  BY <1>4 DEF CreateThread, AllCreated, LoopTickersAlone, JoinThread, AllJoined, Goto
<1>5. CASE BeginDay
  <2>1. pc = "beginDay" /\ pc' = "endDay" /\ k' = 1 /\ UNCHANGED eday
    BY <1>5, <1>2 DEF BeginDay, Goto, EnterMarkets
  <2>. QED  BY <2>1, EnterEndDayLeaves DEF DayIsEnding
<1>6. CASE EndMarketDay
  <2>1. pc = "endMarketDay" /\ pc' = "endDay" /\ k' = 1 /\ UNCHANGED eday
    BY <1>6, <1>2 DEF EndMarketDay, Goto
  <2>. QED  BY <2>1, EnterEndDayLeaves DEF DayIsEnding
<1>7. CASE EndMarket
  <2>1. pc = "endMarket" /\ pc' = "endDay" /\ k' = 1 /\ UNCHANGED eday
    BY <1>7, <1>2 DEF EndMarket, Goto, EnterMarkets
  <2>. QED  BY <2>1, EnterEndDayLeaves DEF DayIsEnding
<1>8. CASE EndDay
  <2>1. pc = "endDay" /\ Alone(k) /\ pc' = "endDay" /\ k' = k + 1 /\ UNCHANGED <<setup, eday>>
    BY <1>8 DEF EndDay, NextDay, EnterIdates, Goto
  <2>2. \A n \in Mods : eday[n] = "none" /\ eday'[n] = "none"
    BY <2>1, AloneNone DEF ControlInv
  <2>3. \A n \in Mods : n <= k => LeftDay(n)
    BY <1>2, <2>1, <2>2 DEF LeftDay, Mods
  <2>. QED  BY <2>1, <2>2, <2>3, NextModuleLeaves DEF DayIsEnding
<1>9. CASE JoinEndDay
  <2>1. /\ pc = "joinEndDay" /\ (\A n \in Group(k) : eday[n] = "done")
        /\ pc' = "endDay" /\ k' = k + 1 /\ UNCHANGED setup
        /\ \A n \in Mods : eday'[n] = "none"
    BY <1>9 DEF JoinEndDay, NextDay, EnterIdates, Goto
  <2>. QED  BY <2>1, EdayCases, NextModuleLeaves DEF DayIsEnding
<1>10. CASE CreateEndDay
  <2>create.
        /\ pc = "endDay" /\ ~ Alone(k) /\ UNCHANGED setup /\ k \in Mods
        /\ \A n \in Mods : eday'[n] = IF n = k THEN "created" ELSE eday[n]
        /\ (pc' = "joinEndDay" /\ k' = k) \/ (~ LastOfGroup(k) /\ pc' = "endDay" /\ k' = k + 1)
    BY <1>10 DEF CreateEndDay, Goto, ControlInv, LifeInv, TypeInv, TypeOK, Callbacks
  <2>2. m # k
    BY <2>create DEF LeftDay
  <2>kept. eday'[m] = eday[m] /\ (\A n : Alone(n)' <=> Alone(n))
    BY <2>create, <2>2, AloneKept DEF setup
  <2>4. ~ LastOfGroup(k) => ~ Alone(k + 1)
    BY <1>2, <2>create DEF LastOfGroup, Alone, Group, Mods
  <2>5. pc' = "endDay" => ~ (m = k + 1 /\ Alone(k)')
    BY <2>create, <2>4, <2>kept DEF Alone, Group
  <2>6. LeftDay(m)
    BY <1>2, <2>create, <2>2, <2>kept, <2>5 DEF LeftDay
  <2>7. ASSUME NEW x \in Actors PROVE EndsDay(x, m)' <=> EndsDay(x, m) /\ x = EndDayOf(m)
    <3>1. ~ EndsDay(MainThread, m)
      BY <2>create, <2>2, ActorsDiffer DEF EndsDay
    <3>2. ~ EndsDay(MainThread, m)'
      BY <1>2, <2>create, <2>2, <2>kept, <2>4, ActorsDiffer DEF EndsDay
    <3>. QED  BY <3>1, <3>2, <2>kept DEF EndsDay
  <2>8. ASSUME NEW x \in Actors, EndsDay(x, m) PROVE EndsDay(x, m)' 
    BY <2>create, <2>2, <2>7, <2>8 DEF EndsDay
  <2>9. todo'[EndDayOf(m)] = todo[EndDayOf(m)]
    BY <2>kept, EndDaySchedule
  <2>. QED  BY <2>create, <2>6, <2>7, <2>8, <2>9 DEF StillLeft, DayIsEnding
<1>11. ASSUME NEW i \in Threads, TickerThread(i) PROVE FALSE
  <2>1. pc' = pc /\ thr[i].at # "none"
    BY <1>11 DEF TickerThread, ThreadStart, BeginTicker, EndTicker
  <2>. QED  BY <2>1 DEF ControlInv, ThreadInv
<1>12. ASSUME NEW n \in Mods, EndDayThread(n) PROVE StillLeft(m) \/ LeavesNow(m)
  <2>1. /\ UNCHANGED <<setup, pc, k>> /\ \A j \in Mods : j # n => eday'[j] = eday[j]
        /\ \/ eday[n] = "created" /\ eday'[n] = "endDay"
           \/ eday[n] = "endDay" /\ eday'[n] = "done"
    BY <1>12 DEF EndDayThread, EndDayStart, EndDayReturn, ControlInv, TypeInv, TypeOK
  <2>2. DayIsEnding /\ \A j : Alone(j)' <=> Alone(j)
    BY <2>1, AloneKept DEF DayIsEnding, setup
  <2>3. ~ (pc = "endDay" /\ Alone(k))
    BY <2>1, AloneNone DEF ControlInv
  <2>4. pc = "endDay" /\ k = m => ~ Alone(m) /\ ~ Alone(m)'
    BY <2>2, <2>3
  <2>5. \A x : /\ EndsDay(x, m) <=> x = EndDayOf(m) /\ eday[m] = "endDay"
               /\ EndsDay(x, m)' <=> x = EndDayOf(m) /\ eday'[m] = "endDay"
    BY <2>1, <2>4 DEF EndsDay
  <2>6. CASE m # n
    <3>1. eday'[m] = eday[m] /\ LeftDay(m)
      <4>1. Alone(k)' <=> Alone(k)
        BY <2>1, <2>2 DEF Alone, Group
      <4>. QED  BY <2>1, <2>6, <4>1 DEF LeftDay
    <3>. QED  BY <2>2, <2>5, <3>1, EndDaySchedule DEF StillLeft
  <2>7. CASE m = n /\ eday[n] = "created"
    <3>1. ~ LeftDay(m) /\ EndsDay(EndDayOf(m), m)'
      BY <2>1, <2>5, <2>7 DEF LeftDay
    <3>. QED  BY <2>1, <2>7, <3>1, EndDaySchedule DEF LeavesNow
  <2>8. CASE m = n /\ eday[n] = "endDay"
    <3>1. LeftDay(m) /\ todo[EndDayOf(m)] = <<>> /\ eday'[m] = "done"
      BY <2>1, <2>8, EndDaySchedule DEF LeftDay
    <3>. QED  BY <2>2, <2>5, <3>1 DEF StillLeft
  <2>. QED  BY <2>1, <2>6, <2>7, <2>8
<1>13. CASE Terminated
  BY <1>13 DEF Terminated, vars
<1>. QED
  BY <1>1, <1>3, <1>4, <1>5, <1>6, <1>7, <1>8, <1>9, <1>10, <1>11, <1>12, <1>13 DEF Next, Main

(* A day is over only when every module's endDay has returned.             *)
LEMMA DayEnds ==
    ASSUME Base, Base', Schedule, InDay, ~ InDay' \/ idate' # idate
    PROVE  /\ DayIsEnding /\ ~ DayIsEnding'
           /\ \A m \in Mods : /\ LeftDay(m)
                              /\ \A x \in Actors : EndsDay(x, m) => todo[x] = <<>>
<1> USE DEF Base
<1>1. Next /\ Mods' = Mods /\ NModules' = NModules
  BY ScheduleStep
<1>2. /\ k \in Nat /\ NModules \in Nat /\ conf.loopingOrder \in {"mdt", "dmt"}
      /\ \A m \in Mods : m \in Nat /\ m <= NModules
  <2>1. k \in Nat /\ NModules \in Nat /\ conf.loopingOrder \in {"mdt", "dmt"}
    BY BlockType, ConfFields DEF ControlInv, TypeInv, TypeOK, ConfType
  <2>. QED  BY <2>1 DEF Mods
<1>3. Mdt' = Mdt
  BY <1>1, SetupKept DEF Mdt
<1> DEFINE Stays == InDay' /\ idate' = idate
<1>4. CASE InitModule \/ InitError \/ BeginJob \/ EndJob \/ Terminated
  BY <1>4 DEF InitModule, InitError, BeginJob, EndJob, Terminated, InDay
<1>5. CASE CreateThread \/ AllCreated \/ LoopTickersAlone \/ JoinThread \/ AllJoined
  <2>. Stays
    BY <1>5 DEF CreateThread, AllCreated, LoopTickersAlone, JoinThread, AllJoined, Goto, env, InDay
  <2>. QED  OBVIOUS
<1>6. CASE BeginMarket \/ BeginDay \/ BeginMarketDay
  <2>1. Mdt <=> conf.loopingOrder # "dmt"
    BY <1>2 DEF Mdt
  <2>2. CASE BeginMarket
    BY <1>3, <2>1, <2>2 DEF BeginMarket, Goto, InDay
  <2>3. CASE BeginDay
    BY <1>3, <2>1, <2>3, <1>2 DEF BeginDay, Goto, EnterMarkets, InDay
  <2>4. CASE BeginMarketDay
    BY <1>3, <2>1, <2>4, <1>2 DEF BeginMarketDay, Goto, InDay
  <2>. QED  BY <1>6, <2>2, <2>3, <2>4
<1>7. CASE EndMarketDay \/ EndMarket \/ CreateEndDay
  <2>1. Mdt <=> conf.loopingOrder # "dmt"
    BY <1>2 DEF Mdt
  <2>2. CASE EndMarketDay
    BY <1>3, <2>1, <2>2 DEF EndMarketDay, Goto, InDay, env
  <2>3. CASE EndMarket
    BY <1>3, <2>1, <2>3, <1>2 DEF EndMarket, Goto, EnterMarkets, InDay
  <2>4. CASE CreateEndDay
    BY <2>4 DEF CreateEndDay, Goto, InDay, env
  <2>. QED  BY <1>7, <2>2, <2>3, <2>4
<1>8. CASE EndDay
  <2>1. pc = "endDay" /\ Alone(k) /\ k \in Mods
    BY <1>8 DEF EndDay, ControlInv, LifeInv, Callbacks
  <2>2. ~ (k < NModules) /\ pc' \in {"beginDay", "endMarket", "endJob"}
    BY <1>8 DEF EndDay, NextDay, EnterIdates, Goto, InDay, env
  <2>3. \A m \in Mods : eday[m] = "none"
    BY <2>1, AloneNone DEF ControlInv
  <2>left. \A m \in Mods : LeftDay(m)
    BY <1>2, <2>1, <2>2, <2>3 DEF LeftDay
  <2>5. Call(MainThread) # NoCall /\ Call(MainThread)[1] = "endDay"
    BY <2>1, MainCall DEF BeginsAndEnds, NoCall
  <2>6. Call(MainThread)' = NoCall \/ Call(MainThread)'[1] # "endDay"
    BY <2>2, MainCalls
  <2>idle. todo[MainThread] = <<>>
    BY <2>5, <2>6, MainSchedule
  <2>. QED  BY <2>1, <2>2, <2>3, <2>left, <2>idle DEF DayIsEnding, EndsDay
<1>9. CASE JoinEndDay
  <2>1. pc = "joinEndDay" /\ \A n \in Group(k) : eday[n] = "done"
    BY <1>9 DEF JoinEndDay
  <2>2. ~ (k < NModules) /\ pc' \in {"beginDay", "endMarket", "endJob"}
    BY <1>9 DEF JoinEndDay, NextDay, EnterIdates, Goto, InDay, env
  <2>. QED  BY <1>2, <2>1, <2>2, EdayCases DEF DayIsEnding, EndsDay
<1>10. ASSUME NEW i \in Threads, TickerThread(i) PROVE Stays
  BY <1>3, <1>10 DEF TickerThread, ThreadStart, BeginTicker, EndTicker, env, InDay
<1>11. ASSUME NEW m \in Mods, EndDayThread(m) PROVE Stays
  BY <1>3, <1>11 DEF EndDayThread, EndDayStart, EndDayReturn, env, InDay
<1>. QED
  BY <1>1, <1>4, <1>5, <1>6, <1>7, <1>8, <1>9, <1>10, <1>11 DEF Next, Main

------------------------
(* A prediction is in the store only during the day it was made for, while *)
(* the endDay of some MMakePredIndex, which removes it, is ahead.          *)

EndsDayCalls == \A x, m : EndsDay(x, m) => Call(x) = <<"endDay", m, 0>>

LEMMA EndsDayCallsHold == EndsDayCalls
BY MainCall, EndDayCall DEF EndsDayCalls, EndsDay, BeginsAndEnds

LEMMA EndsDayCallsNext == EndsDayCalls'
BY EndsDayCallsHold, PTL

(* Only add and remove of its key touch the entry of a copy.               *)
LEMMA EntryKept ==
    ASSUME Base, StoreInv, NEW x \in Actors, AccessOf(x), NEW key \in Keys \ {Mid, Close}
    PROVE  \/ /\ mp'[key] = mp[key]
              /\ mp[key] # Null => heap'[mp[key]] = heap[mp[key]]
           \/ (Add(x) \/ RemoveKey(x)) /\ Key(x) = key
<1> USE DEF Base
<1>1. mp[key] # Null => mp[key] \in Addrs \ {mMid, mClose}
  BY EntriesApart, AddressFacts
<1>2. CASE Add(x) \/ RemoveKey(x)
  BY <1>2, AddStep, RemoveKeyStep DEF OnlyEntry
<1>3. CASE Skip(x) \/ GetPointer(x)
  BY <1>3, SkipStep, GetStep
<1>4. CASE Publish(x)
  BY <1>4, PublishAccess DEF StateInv
<1>5. CASE Clear(x)
  BY <1>1, <1>5, ClearStep
<1>6. CASE Fill(x)
  BY <1>1, <1>6, FillStep
<1>7. CASE InsertMid(x)
  BY <1>1, <1>7, InsertStep
<1>. QED  BY <1>2, <1>3, <1>4, <1>5, <1>6, <1>7 DEF AccessOf

(* What a step of a thread leaves alone.                                   *)
LEMMA PlacesKept ==
    ASSUME UNCHANGED vars
    PROVE  /\ (InDay' <=> InDay) /\ (DayIsEnding' <=> DayIsEnding)
           /\ \A m : LeftDay(m)' <=> LeftDay(m)
           /\ \A x, m : EndsDay(x, m)' <=> EndsDay(x, m)
           /\ \A i : InTicker(i)' <=> InTicker(i)
<1>1. \A m : Alone(m)' <=> Alone(m)
  BY AloneKept DEF vars
<1>2. Alone(k)' <=> Alone(k)
  BY <1>1 DEF vars, Alone, Group
<1>. QED  BY <1>1, <1>2 DEF vars, InDay, Mdt, DayIsEnding, LeftDay, EndsDay, InTicker

EndDayDue(m) ==
    DayIsEnding => ~ LeftDay(m) \/ \E x \in Actors : EndsDay(x, m) /\ todo[x] # <<>>

PredInv ==
    mp[Pred] # Null =>
        /\ InDay
        /\ heap[mp[Pred]].data = {<<idate>>}
        /\ \E m \in Mods : program[m] = "MMakePredIndex" /\ EndDayDue(m)

LEMMA PredAccess ==
    ASSUME Base, StoreInv, PredInv, NEW x \in Actors, AccessOf(x)
    PROVE  PredInv'
<1> USE DEF Base
<1> SUFFICES ASSUME mp'[Pred] # Null PROVE PredInv'
  BY DEF PredInv
<1>0. PICK op : Access(x, op)
  BY AccessHasOp
<1>1. /\ Actors' = Actors /\ Mods' = Mods /\ program' = program /\ UNCHANGED vars
      /\ \A y \in Actors : y # x => todo'[y] = todo[y]
  BY <1>0, AccessStep
<1>2. Pred \in Keys \ {Mid, Close}
  BY KeyFacts
<1>3. CASE Add(x) /\ Key(x) = Pred
  <2>1. AtCall(x, "MMakePredIndex", "beginDay") /\ Contents(Pred) = {<<idate>>}
        /\ heap'[mp'[Pred]].data = Contents(Pred)
    BY <1>3, AddStep, KeyFacts
  <2>2. pc = "beginDay" /\ k \in Mods /\ program[k] = "MMakePredIndex"
    BY <2>1, AtBeginDay
  <2>3. InDay /\ EndDayDue(k)' /\ idate' = idate
    BY <1>1, <2>2 DEF InDay, EndDayDue, DayIsEnding, vars
  <2>4. \E m \in Mods : program[m] = "MMakePredIndex" /\ EndDayDue(m)'
    <3>1. PICK m \in Mods : m = k
      BY <2>2
    <3>2. EndDayDue(m)'
      BY <1>1, <2>2 DEF EndDayDue, DayIsEnding, vars
    <3>. QED  BY <2>2, <3>1, <3>2
  <2>. QED  BY <1>1, <2>1, <2>3, <2>4, PlacesKept DEF PredInv
<1>4. CASE ~ (Add(x) /\ Key(x) = Pred)
  <2>1. ~ (RemoveKey(x) /\ Key(x) = Pred)
    BY RemoveKeyStep
  <2>store. mp'[Pred] = mp[Pred] /\ heap'[mp[Pred]] = heap[mp[Pred]]
    BY <1>2, <1>4, <2>1, EntryKept
  <2>3. InDay /\ heap[mp[Pred]].data = {<<idate>>} /\ idate' = idate
    BY <1>1, <2>store DEF PredInv, vars
  <2>owner. PICK m \in Mods : program[m] = "MMakePredIndex" /\ EndDayDue(m)
    BY <2>store DEF PredInv
  <2>due. EndDayDue(m)'
    <3> SUFFICES ASSUME DayIsEnding, LeftDay(m), NEW y \in Actors, EndsDay(y, m), todo[y] # <<>>
                 PROVE  todo'[y] # <<>>
      BY <1>1, <2>owner, PlacesKept DEF EndDayDue
    <3>1. CASE y # x
      BY <1>1, <3>1
    <3>2. CASE y = x
      <4>1. AtCall(x, "MMakePredIndex", "endDay")
        BY <2>owner, <3>2, EndsDayCallsHold DEF EndsDayCalls, AtCall, NoCall
      <4>2. ~ Add(x) /\ ~ Skip(x) /\ ~ Publish(x) /\ ~ GetPointer(x) /\ ~ Clear(x) /\ ~ Fill(x) /\ ~ InsertMid(x)
        BY <4>1, AddStep, SkipStep, PublishAccess, GetStep, ClearStep, FillStep, InsertStep DEF AtCall
      <4>3. RemoveKey(x)
        BY <4>2 DEF AccessOf
      <4>. QED  BY <2>1, <4>1, <4>3, RemoveKeyStep DEF AtCall
    <3>. QED  BY <3>1, <3>2
  <2>. QED  BY <1>1, <2>store, <2>3, <2>owner, <2>due, PlacesKept DEF PredInv
<1>. QED  BY <1>3, <1>4

(* A day's module that is to remove something in endDay still is to do so. *)
LEMMA EndDayDueKept ==
    ASSUME Base, Base', Schedule, InDay, NEW m \in Mods, EndDayDue(m),
           program[m] \in {"MMakePredIndex"}
    PROVE  InDay' /\ idate' = idate /\ EndDayDue(m)'
<1>0. Actors' = Actors /\ Mods' = Mods /\ UNCHANGED <<event, program>>
  BY ScheduleStep DEF Base
<1>1. InDay' /\ idate' = idate
  BY DayEnds DEF EndDayDue
<1>2. ASSUME DayIsEnding', LeftDay(m)'
      PROVE  \E x \in Actors : EndsDay(x, m)' /\ todo'[x] # <<>>
  <2>1. StillLeft(m) \/ LeavesNow(m)
    BY <1>2, LeavesDay DEF DayIsEnding
  <2>2. CASE StillLeft(m)
    BY <2>2 DEF StillLeft, EndDayDue
  <2>3. CASE LeavesNow(m)
    <3>1. PICK x \in Actors : EndsDay(x, m)' /\ todo'[x] = AccessesOf(Call(x))'
      BY <2>3 DEF LeavesNow
    <3>2. AtCall(x, "MMakePredIndex", "endDay")'
      BY <1>0, <3>1, EndsDayCallsNext DEF EndsDayCalls, AtCall, NoCall
    <3>3. Len(AccessesOf(Call(x)))' = 1
      BY <1>0, <3>2, CallLengthsNext DEF CallLengths
    <3>4. Len(todo'[x]) = 1
      BY <3>1, <3>3
    <3>5. todo'[x] # <<>>
      BY <3>4, NotEmpty
    <3>. QED  BY <3>1, <3>5
  <2>. QED  BY <2>1, <2>2, <2>3
<1>. QED  BY <1>0, <1>1, <1>2 DEF EndDayDue

LEMMA PredSchedule ==
    ASSUME Base, Base', PredInv, Schedule
    PROVE  PredInv'
<1> SUFFICES ASSUME mp'[Pred] # Null PROVE PredInv'
  BY DEF PredInv
<1>1. Mods' = Mods /\ UNCHANGED <<mp, heap, program>>
  BY ScheduleStep DEF Base, event
<1>2. /\ InDay /\ heap[mp[Pred]].data = {<<idate>>}
      /\ \E m \in Mods : program[m] = "MMakePredIndex" /\ EndDayDue(m)
  BY <1>1 DEF PredInv
<1>3. PICK m \in Mods : program[m] = "MMakePredIndex" /\ EndDayDue(m)
  BY <1>2
<1>4. InDay' /\ idate' = idate /\ EndDayDue(m)'
  BY <1>2, <1>3, EndDayDueKept
<1>. QED  BY <1>1, <1>2, <1>3, <1>4 DEF PredInv

LEMMA PredStopped ==
    ASSUME PredInv, UNCHANGED allVars
    PROVE  PredInv'
<1>1. UNCHANGED vars /\ UNCHANGED <<mp, heap, program, todo>> /\ idate' = idate
  BY DEF allVars, event, vars
<1>2. Mods' = Mods /\ Actors' = Actors
  BY <1>1, SetupKept
<1>. QED  BY <1>1, <1>2, PlacesKept DEF PredInv, EndDayDue

LEMMA PredNext ==
    ASSUME Base, Base', StoreInv, PredInv, [BlackboardNext]_allVars
    PROVE  PredInv'
BY BlackboardSteps, PredAccess, PredSchedule, PredStopped

------------------------
LEMMA NoEntries ==
    ASSUME BlackboardInit
    PROVE  NbboInv /\ PredInv
<1>1. mp = [key \in Keys |-> Null]
  BY DEF BlackboardInit
<1>. QED  BY <1>1, KeyFacts DEF NbboInv, PredInv

(* Copies that are left: quotes only inside the ticker loop, and nothing   *)
(* outside of a day.                                                       *)
LEMMA CopiesLeft ==
    ASSUME Base, StoreInv, NbboInv, PredInv
    PROVE  NothingLeft
<1> USE DEF Base
<1>1. ASSUME NEW a \in Copies, heap[a] # Free
      PROVE  \/ heap[a].key = Pred /\ mp[Pred] # Null
             \/ \E t \in Tickers0 : mp[Nbbo(t)] # Null
  <2>1. heap[a].key \in Keys \ {Mid, Close} /\ mp[heap[a].key] = a /\ a # Null
    BY <1>1, AddressFacts DEF StoreInv
  <2>. QED  BY <2>1, KeyFacts
<1>2. pc \notin {"create", "join"} => \A t \in Tickers0 : mp[Nbbo(t)] = Null
  <2> SUFFICES ASSUME NEW t \in Tickers0, mp[Nbbo(t)] # Null PROVE pc \in {"create", "join"}
    OBVIOUS
  <2>1. PICK i \in Threads : InTicker(i)
    BY DEF NbboInv, RemovesQuotes
  <2>. QED  BY <2>1, TickerPlace
<1>3. pc \in {"endJob", "end"} => mp[Pred] = Null
  BY DEF PredInv, InDay
<1>. QED  BY <1>1, <1>2, <1>3 DEF NothingLeft

LEMMA EntriesHold == BlackboardSpec => [](Base /\ StoreInv /\ NbboInv /\ PredInv)
<1>1. Base /\ Base' /\ StoreInv /\ NbboInv /\ PredInv /\ [BlackboardNext]_allVars
      => NbboInv' /\ PredInv'
  BY NbboNext, PredNext
<1>. QED  BY <1>1, NoEntries, StoreHolds, PTL DEF BlackboardSpec

(***************************************************************************)
(* Theorem: copies do not accumulate.  After a ticker loop no quotes of a  *)
(* ticker are left, and when the last day is over no copy is left at all,  *)
(* in whatever order the modules are configured, even if threads share a   *)
(* ticker or several modules store the same description.                   *)
(***************************************************************************)
THEOREM CopiesAreRemoved == BlackboardSpec => []NothingLeft
BY CopiesLeft, EntriesHold, PTL

------------------------
(* If no ticker is listed in two threads' slices, the quotes a thread put  *)
(* into the store for its ticker are there for the modules that follow.    *)

TickerOf(i) == TickerAt[thr[i].tk + 1]

LEMMA ApartKept ==
    ASSUME UNCHANGED <<conf, nTickers>>
    PROVE  TickersApart' <=> TickersApart
BY DEF TickersApart, Threads, NLoop

LEMMA OneThreadPerTicker ==
    ASSUME ControlInv, TickersApart, NEW i \in Threads, NEW j \in Threads,
           InTicker(i), InTicker(j), TickerOf(i) = TickerOf(j)
    PROVE  i = j
<1> SUFFICES ASSUME i # j PROVE FALSE
  OBVIOUS
<1>1. conf.multiThreadTicker
  BY DEF Threads
<1> DEFINE T == conf.nMaxThreadTicker
           c == TickerEachThread(NLoop, T)
<1>2. SliceOf(i) = Slice(NLoop, T, c, i) /\ SliceOf(j) = Slice(NLoop, T, c, j)
  BY <1>1 DEF SliceOf
<1>3. thr[i].tk \in Slice(NLoop, T, c, i) /\ thr[j].tk \in Slice(NLoop, T, c, j)
  BY <1>2, TickerPlace
<1>4. \A p \in Slice(NLoop, T, c, i), q \in Slice(NLoop, T, c, j) : TickerAt[p + 1] # TickerAt[q + 1]
  BY DEF TickersApart
<1>. QED  BY <1>3, <1>4 DEF TickerOf

(* The thread of a callback that adds or removes quotes is at their ticker. *)
LEMMA AddsQuotes ==
    ASSUME Base, StoreInv, NEW x \in Actors, NEW t \in Tickers0, Key(x) = Nbbo(t), Add(x) \/ RemoveKey(x)
    PROVE  \E i \in Threads : /\ x = Ticker(i) /\ InTicker(i) /\ TickerOf(i) = t
                              /\ program[thr[i].mod] = "MTickRead"
                              /\ Add(x) => /\ thr[i].at = "beginTicker"
                                           /\ mp'[Nbbo(t)] # Null
                                           /\ heap'[mp'[Nbbo(t)]].data = {<<idate, market>>}
                              /\ RemoveKey(x) => thr[i].at = "endTicker"
<1> USE DEF Base
<1>1. Nbbo(t) \notin {Pred, Mid, Close} /\ \A u \in Tickers0 : Nbbo(u) = Nbbo(t) => u = t
  BY KeyFacts
<1>2. Add(x) => /\ AtCall(x, "MTickRead", "beginTicker") /\ Call(x)[3] = t
                /\ mp'[Nbbo(t)] # Null /\ heap'[mp'[Nbbo(t)]].data = {<<idate, market>>}
  BY <1>1, AddStep
<1>3. RemoveKey(x) => AtCall(x, "MTickRead", "endTicker") /\ Call(x)[3] = t
  BY <1>1, RemoveKeyStep
<1>4. CASE Add(x)
  <2>1. ~ RemoveKey(x)
    BY <1>2, <1>3, <1>4 DEF AtCall
  <2>. QED  BY <1>2, <1>4, <2>1, AtTicker DEF TickerOf
<1>5. CASE RemoveKey(x)
  <2>1. ~ Add(x)
    BY <1>2, <1>3, <1>5 DEF AtCall
  <2>. QED  BY <1>3, <1>5, <2>1, AtTicker DEF TickerOf
<1>. QED  BY <1>4, <1>5

QuotesThere(i) ==
    mp[Nbbo(TickerOf(i))] # Null /\ heap[mp[Nbbo(TickerOf(i))]].data = {<<idate, market>>}

NbboThere ==
    TickersApart =>
        \A i \in Threads, m \in Mods :
            /\ thr[i].at = "beginTicker" /\ program[m] = "MTickRead"
            /\ m < thr[i].mod \/ (m = thr[i].mod /\ todo[Ticker(i)] = <<>>)
            => QuotesThere(i)

LEMMA ThereAccess ==
    ASSUME Base, StoreInv, NbboThere, NEW x \in Actors, AccessOf(x)
    PROVE  NbboThere'
<1> USE DEF Base
<1>0. PICK op : Access(x, op)
  BY AccessHasOp
<1>1. /\ Threads' = Threads /\ Mods' = Mods /\ program' = program /\ UNCHANGED vars
      /\ \A y \in Actors : y # x => todo'[y] = todo[y]
      /\ todo[x] # <<>>
  BY <1>0, AccessStep
<1>2. TickersApart' <=> TickersApart
  BY <1>1, ApartKept DEF vars
<1> SUFFICES ASSUME TickersApart, NEW i \in Threads, NEW m \in Mods,
                    thr[i].at = "beginTicker", program[m] = "MTickRead",
                    m < thr[i].mod \/ (m = thr[i].mod /\ todo'[Ticker(i)] = <<>>)
             PROVE  QuotesThere(i)'
  BY <1>1, <1>2 DEF NbboThere, vars
<1>3. InTicker(i) /\ TickerOf(i) \in Tickers0 /\ Ticker(i) \in Actors
  BY TickerPlace, ActorKinds DEF InTicker, TickerOf
<1>4. Nbbo(TickerOf(i)) \in Keys \ {Mid, Close}
  BY <1>3, KeyFacts
<1>5. TickerOf(i)' = TickerOf(i) /\ idate' = idate /\ market' = market
  BY <1>1 DEF TickerOf, vars
<1>6. CASE (Add(x) \/ RemoveKey(x)) /\ Key(x) = Nbbo(TickerOf(i))
  <2>1. PICK j \in Threads : /\ x = Ticker(j) /\ InTicker(j) /\ TickerOf(j) = TickerOf(i)
                             /\ Add(x) => /\ mp'[Nbbo(TickerOf(i))] # Null
                                          /\ heap'[mp'[Nbbo(TickerOf(i))]].data = {<<idate, market>>}
                             /\ RemoveKey(x) => thr[j].at = "endTicker"
    BY <1>3, <1>6, AddsQuotes
  <2>2. j = i
    BY <1>3, <2>1, OneThreadPerTicker
  <2>3. Add(x)
    BY <1>6, <2>1, <2>2
  <2>. QED  BY <1>5, <2>1, <2>3 DEF QuotesThere
<1>7. CASE ~ ((Add(x) \/ RemoveKey(x)) /\ Key(x) = Nbbo(TickerOf(i)))
  <2>1. /\ mp'[Nbbo(TickerOf(i))] = mp[Nbbo(TickerOf(i))]
        /\ mp[Nbbo(TickerOf(i))] # Null => heap'[mp[Nbbo(TickerOf(i))]] = heap[mp[Nbbo(TickerOf(i))]]
    BY <1>4, <1>7, EntryKept
  <2>2. m < thr[i].mod \/ todo[Ticker(i)] = <<>>
    <3> SUFFICES ASSUME m = thr[i].mod, x = Ticker(i) PROVE FALSE
      BY <1>1, <1>3
    <3>1. AtCall(x, "MTickRead", "beginTicker") /\ Call(x)[3] = TickerOf(i)
      BY <1>3, TickerCall DEF AtCall, NoCall, TickerOf
    <3>2. /\ ~ RemoveKey(x) /\ ~ Skip(x) /\ ~ Publish(x) /\ ~ GetPointer(x)
          /\ ~ Clear(x) /\ ~ Fill(x) /\ ~ InsertMid(x)
      BY <3>1, RemoveKeyStep, SkipStep, PublishAccess, GetStep, ClearStep, FillStep, InsertStep DEF AtCall
    <3>3. Add(x)
      BY <3>2 DEF AccessOf
    <3>4. Key(x) = Nbbo(TickerOf(i))
      BY <3>1, <3>3, AddStep DEF AtCall
    <3>. QED  BY <1>7, <3>3, <3>4
  <2>3. QuotesThere(i)
    BY <2>2 DEF NbboThere
  <2>. QED  BY <1>5, <2>1, <2>3 DEF QuotesThere
<1>. QED  BY <1>6, <1>7

LEMMA ThereSchedule ==
    ASSUME Base, Base', NbboThere, Schedule
    PROVE  NbboThere'
<1>1. Threads' = Threads /\ Mods' = Mods /\ UNCHANGED <<mp, heap, program>>
  BY ScheduleStep DEF Base, event
<1> SUFFICES ASSUME TickersApart', NEW i \in Threads, NEW m \in Mods,
                    thr'[i].at = "beginTicker", program[m] = "MTickRead",
                    m < thr'[i].mod \/ (m = thr'[i].mod /\ todo'[Ticker(i)] = <<>>)
             PROVE  QuotesThere(i)'
  BY <1>1 DEF NbboThere
<1>2. ASSUME m = thr'[i].mod, todo'[Ticker(i)] = AccessesOf(Call(Ticker(i)))' PROVE FALSE
  <2>1. Call(Ticker(i))' = <<"beginTicker", m, TickerAt[thr'[i].tk + 1]>>
    BY <1>1, <1>2, TickerCalls DEF InTicker
  <2>2. AtCall(Ticker(i), "MTickRead", "beginTicker")'
    BY <1>1, <2>1 DEF AtCall, NoCall
  <2>3. Ticker(i) \in Actors'
    BY <1>1, ActorKinds, ScheduleStep DEF Base
  <2>4. Len(AccessesOf(Call(Ticker(i))))' = 1
    BY <2>2, <2>3, CallLengthsNext DEF CallLengths
  <2>5. todo'[Ticker(i)] # <<>>
    BY <1>2, <2>4, NotEmpty
  <2>6. ~ (m < m)
    BY DEF Mods
  <2>. QED  BY <1>2, <2>5, <2>6
<1>3. m \in Nat /\ thr[i].mod \in Nat
  BY DEF Mods, Base, ControlInv, TypeInv, TypeOK, ThreadType
<1>4. InTicker(i)'
  BY DEF InTicker
<1>5. CASE ~ InTicker(i)
  <2>1. thr'[i].mod = 1 /\ todo'[Ticker(i)] = AccessesOf(Call(Ticker(i)))'
    BY <1>4, <1>5, TickerBegins
  <2>2. m = thr'[i].mod
    BY <1>3, <2>1 DEF Mods
  <2>. QED  BY <1>2, <2>1, <2>2
<1>6. CASE InTicker(i)
  <2>1. UNCHANGED <<env, setup>>
    BY <1>6, TickerSchedule
  <2>2. TickersApart /\ idate' = idate /\ market' = market
    BY <2>1, ApartKept DEF env, setup
  <2>3. thr'[i] = thr[i] /\ todo'[Ticker(i)] = todo[Ticker(i)] => QuotesThere(i)
    BY <2>2 DEF NbboThere
  <2>4. ASSUME MovesTo(i), todo[Ticker(i)] = <<>>, todo'[Ticker(i)] = AccessesOf(Call(Ticker(i)))'
        PROVE  QuotesThere(i) /\ thr'[i].tk = thr[i].tk
    <3>1. m < thr'[i].mod
      BY <1>2, <2>4
    <3>2. CASE thr[i].at = "beginTicker" /\ thr'[i] = Inside("beginTicker", thr[i].tk, thr[i].to, thr[i].mod + 1)
      <4>1. thr'[i].mod = thr[i].mod + 1 /\ thr'[i].tk = thr[i].tk
        BY <3>2 DEF Inside
      <4>2. m < thr[i].mod \/ m = thr[i].mod
        BY <1>3, <3>1, <4>1
      <4>. QED  BY <2>2, <2>4, <3>2, <4>1, <4>2 DEF NbboThere
    <3>3. CASE thr'[i] = FromTo(thr[i].tk + 1, thr[i].to)
      <4>1. thr'[i].mod = 1
        BY <3>3 DEF FromTo, Inside, AtRest
      <4>. QED  BY <1>3, <3>1, <4>1 DEF Mods
    <3>. QED  BY <2>4, <3>2, <3>3 DEF MovesTo, Inside
  <2>5. QuotesThere(i) /\ thr'[i].tk = thr[i].tk
    BY <1>6, <2>3, <2>4, TickerSchedule
  <2>. QED  BY <1>1, <2>2, <2>5 DEF QuotesThere, TickerOf
<1>. QED  BY <1>5, <1>6

LEMMA ThereStopped ==
    ASSUME NbboThere, UNCHANGED allVars
    PROVE  NbboThere'
<1>1. UNCHANGED vars /\ UNCHANGED <<mp, heap, program, todo>>
  BY DEF allVars, event
<1>2. Threads' = Threads /\ Mods' = Mods /\ UNCHANGED <<thr, idate, market, conf, nTickers>>
  BY <1>1, SetupKept DEF vars
<1>3. TickersApart' <=> TickersApart
  BY <1>2, ApartKept
<1>. QED  BY <1>1, <1>2, <1>3 DEF NbboThere, QuotesThere, TickerOf

LEMMA ThereNext ==
    ASSUME Base, Base', StoreInv, NbboThere, [BlackboardNext]_allVars
    PROVE  NbboThere'
BY BlackboardSteps, ThereAccess, ThereSchedule, ThereStopped

------------------------
(* MPseudoTradePrep's series: cleared in beginDay, one entry per ticker.   *)

EnteredView ==
    \A j, i :
        LET entered == Entered(j, i, "beginTicker")
            th == thr[i]
        IN  /\ th.at = "beginTicker" => entered = Before(i, th.tk) \cup (IF th.mod >= j THEN {th.tk} ELSE {})
            /\ th.at = "endTicker"   => entered = Before(i, th.tk) \cup {th.tk}
            /\ th.at = "done"        => entered = SliceOf(i)
            /\ th.at = "created"     => entered = {}
            /\ th.at = "none"        => entered = IF pc = "create" THEN {} ELSE SliceOf(i)

LEMMA EnteredViewHolds == EnteredView
BY DEF EnteredView, Entered

LEMMA EnteredViewNext == EnteredView'
BY EnteredViewHolds, PTL

LEMMA InLoop ==
    ASSUME ControlInv, Next, pc \in {"create", "join"}
    PROVE  /\ UNCHANGED <<env, setup, eday>>
           /\ \/ CreateThread \/ AllCreated \/ LoopTickersAlone \/ JoinThread \/ AllJoined
              \/ \E i \in Threads : TickerThread(i)
<1>1. ~ (\/ InitModule \/ InitError \/ BeginJob \/ BeginMarket \/ BeginDay \/ BeginMarketDay
         \/ EndMarketDay \/ EndDay \/ CreateEndDay \/ JoinEndDay \/ EndMarket \/ EndJob \/ Terminated)
  BY DEF InitModule, InitError, BeginJob, BeginMarket, BeginDay, BeginMarketDay,
         EndMarketDay, EndDay, CreateEndDay, JoinEndDay, EndMarket, EndJob, Terminated
<1>2. ASSUME NEW m \in Mods, EndDayThread(m) PROVE FALSE
  BY <1>2 DEF ControlInv, EdayInv, EndDayThread, EndDayStart, EndDayReturn
<1>3. CreateThread \/ AllCreated \/ LoopTickersAlone \/ JoinThread \/ AllJoined
      => UNCHANGED <<env, setup, eday>>
  BY DEF CreateThread, AllCreated, LoopTickersAlone, JoinThread, AllJoined
<1>4. ASSUME NEW i \in Threads, TickerThread(i) PROVE UNCHANGED <<env, setup, eday>>
  BY <1>4 DEF TickerThread, ThreadStart, BeginTicker, EndTicker
<1>. QED  BY <1>1, <1>2, <1>3, <1>4 DEF Next, Main

(* A thread that goes on at position from, with those before it entered.   *)
LEMMA EnteredFrom ==
    ASSUME ControlInv, NEW i \in Threads, NEW j \in Mods, NEW from \in Int, NEW to \in Int,
           \A q \in Int : q \in SliceOf(i) /\ q >= from <=> q \in from .. to - 1,
           thr'[i] = FromTo(from, to), UNCHANGED <<env, setup>>,
           NEW p \in Entered(j, i, "beginTicker")'
    PROVE  \/ p \in SliceOf(i) /\ p < from
           \/ thr'[i].at = "beginTicker" /\ thr'[i].mod = j /\ thr'[i].tk = p
<1>1. SliceOf(i)' = SliceOf(i) /\ SliceOf(i) \subseteq Int
  BY SliceOfType DEF SliceOf, NLoop, env, setup, ControlInv, TypeInv
<1>2. \A q : Before(i, q)' = {r \in SliceOf(i) : r < q}
  BY <1>1 DEF Before
<1>3. CASE from < to
  <2>1. thr'[i].at = "beginTicker" /\ thr'[i].tk = from /\ thr'[i].mod = 1
    BY <1>3 DEF FromTo, Inside
  <2>2. 1 >= j <=> j = 1
    BY DEF Mods
  <2>3. Entered(j, i, "beginTicker")' = Before(i, from)' \cup (IF 1 >= j THEN {from} ELSE {})
    BY <2>1, EnteredViewNext DEF EnteredView, Before
  <2>. QED  BY <1>2, <2>1, <2>2, <2>3
<1>4. CASE ~ (from < to)
  <2>1. thr'[i].at = "done"
    BY <1>4 DEF FromTo, AtRest
  <2>2. p \in SliceOf(i)
    BY <1>1, <2>1, EnteredViewNext DEF EnteredView
  <2>. QED  BY <1>1, <1>4, <2>2
<1>. QED  BY <1>3, <1>4

(* What a module has entered after a step of the ticker loop it had        *)
(* entered before, or a thread enters it now.                              *)
LEMMA EnteredStep ==
    ASSUME ControlInv, ControlInv', Next, pc \in {"create", "join"}, pc' \in {"create", "join"},
           NEW i \in Threads, NEW j \in Mods, NEW p \in Entered(j, i, "beginTicker")'
    PROVE  \/ p \in Entered(j, i, "beginTicker")
           \/ /\ thr'[i].at = "beginTicker" /\ thr'[i].mod = j /\ thr'[i].tk = p
              /\ ~ InTicker(i) \/ MovesTo(i)
<1>1. /\ UNCHANGED <<env, setup>> /\ TypeInv /\ thr[i].tk \in Nat
      /\ thr[i].mod \in Nat /\ j \in Nat /\ j <= NModules /\ NModules \in Nat
  <2>1. TypeOK /\ UNCHANGED <<env, setup>>
    BY InLoop DEF ControlInv, TypeInv
  <2>2. thr[i].tk \in Nat /\ thr[i].mod \in Nat
    BY <2>1 DEF TypeOK, ThreadType
  <2>3. NModules \in Nat
    BY <2>1, BlockType
  <2>. QED  BY <2>1, <2>2, <2>3 DEF Mods, ControlInv
<1>2. SliceOf(i)' = SliceOf(i) /\ SliceOf(i) \subseteq Int /\ \A q : Before(i, q)' = Before(i, q)
  BY <1>1, SliceOfType DEF SliceOf, NLoop, env, setup, TypeInv, Before
<1>3. CASE InTicker(i) /\ thr'[i] = thr[i]
  BY <1>2, <1>3, EnteredViewHolds, EnteredViewNext DEF EnteredView, InTicker
<1>4. CASE InTicker(i) /\ MovesTo(i)
  <2>1. CASE thr[i].at = "beginTicker" /\ thr[i].mod < NModules
    <3>1. thr'[i].at = "beginTicker" /\ thr'[i].tk = thr[i].tk /\ thr'[i].mod = thr[i].mod + 1
      BY <1>4, <2>1 DEF MovesTo, Inside
    <3>2. thr[i].mod + 1 >= j => thr[i].mod >= j \/ thr[i].mod + 1 = j
      BY <1>1
    <3>3. p \in Before(i, thr[i].tk) \cup (IF thr[i].mod + 1 >= j THEN {thr[i].tk} ELSE {})
      BY <1>2, <3>1, EnteredViewNext DEF EnteredView
    <3>4. Entered(j, i, "beginTicker") = Before(i, thr[i].tk) \cup (IF thr[i].mod >= j THEN {thr[i].tk} ELSE {})
      BY <2>1, EnteredViewHolds DEF EnteredView
    <3>. QED  BY <1>4, <3>1, <3>2, <3>3, <3>4
  <2>2. CASE thr[i].at = "beginTicker" /\ ~ (thr[i].mod < NModules)
    <3>1. thr'[i].at = "endTicker" /\ thr'[i].tk = thr[i].tk
      BY <1>4, <2>2 DEF MovesTo, Inside
    <3>2. thr[i].mod >= j
      BY <1>1, <2>2
    <3>3. p \in Before(i, thr[i].tk) \cup {thr[i].tk}
      BY <1>2, <3>1, EnteredViewNext DEF EnteredView
    <3>. QED  BY <2>2, <3>2, <3>3, EnteredViewHolds DEF EnteredView
  <2>3. CASE thr[i].at = "endTicker" /\ thr[i].mod < NModules
    <3>1. thr'[i].at = "endTicker" /\ thr'[i].tk = thr[i].tk
      BY <1>4, <2>3 DEF MovesTo, Inside
    <3>2. p \in Before(i, thr[i].tk) \cup {thr[i].tk}
      BY <1>2, <3>1, EnteredViewNext DEF EnteredView
    <3>. QED  BY <2>3, <3>2, EnteredViewHolds DEF EnteredView
  <2>4. CASE thr[i].at = "endTicker" /\ ~ (thr[i].mod < NModules)
    <3>1. thr'[i] = FromTo(thr[i].tk + 1, thr[i].to)
      BY <1>4, <2>4 DEF MovesTo
    <3>2. thr[i].tk \in SliceOf(i) /\ thr[i].to \in Int
          /\ \A q \in Int : q \in SliceOf(i) /\ q >= thr[i].tk <=> q \in thr[i].tk .. thr[i].to - 1
      BY <1>1, <1>4 DEF ControlInv, LifeInv, InOwnSlice, TypeInv, TypeOK, ThreadType
    <3> DEFINE from == thr[i].tk + 1
               to == thr[i].to
    <3>3. \A q \in Int : q \in SliceOf(i) /\ q >= from <=> q \in from .. to - 1
      BY <1>1, <3>2
    <3>4. from \in Int
      BY <1>1
    <3>5. \/ p \in SliceOf(i) /\ p < from
          \/ thr'[i].at = "beginTicker" /\ thr'[i].mod = j /\ thr'[i].tk = p
      <4> HIDE DEF from, to
      <4>. QED  BY <1>1, <3>1, <3>2, <3>3, <3>4, EnteredFrom DEF from, to
    <3>6. p \in SliceOf(i) /\ p < from => p \in Entered(j, i, "beginTicker")
      <4> SUFFICES ASSUME p \in SliceOf(i), p < from PROVE p \in Entered(j, i, "beginTicker")
        OBVIOUS
      <4>1. p \in Int /\ (p < thr[i].tk \/ p = thr[i].tk)
        BY <1>1, <1>2
      <4>. QED  BY <2>4, <4>1, EnteredViewHolds DEF EnteredView, Before
    <3>. QED  BY <1>4, <3>5, <3>6
  <2>. QED  BY <1>4, <2>1, <2>2, <2>3, <2>4 DEF InTicker
<1>5. CASE ~ InTicker(i)
  <2>1. thr[i].at \in {"none", "created", "done"}
    BY <1>1, <1>5 DEF InTicker, TypeInv, TypeOK, ThreadType
  <2>2. CASE CreateThread
    <3>1. thr'[i].at = "created" \/ (i # k /\ thr'[i] = thr[i] /\ pc' = pc)
      BY <1>1, <2>2 DEF CreateThread, Goto, AtRest, TypeInv, TypeOK
    <3>. QED  BY <1>2, <2>1, <3>1, EnteredViewHolds, EnteredViewNext DEF EnteredView
  <2>3. CASE AllCreated
    <3>1. thr[i].at # "none" /\ thr'[i] = thr[i]
      BY <1>1, <2>3, ConfFields DEF AllCreated, Goto, ControlInv, LifeInv, Threads, TypeInv
    <3>. QED  BY <1>2, <2>1, <3>1, EnteredViewHolds, EnteredViewNext DEF EnteredView
  <2>4. CASE LoopTickersAlone
    <3>1. i = 0 /\ thr'[i] = FromTo(0, NLoop) /\ SliceOf(i) = 0 .. NLoop - 1 /\ NLoop \in Nat
      BY <1>1, <2>4, ConfFields DEF LoopTickersAlone, Threads, SliceOf, TypeInv, TypeOK
    <3>2. \A q \in Int : q \in SliceOf(i) /\ q >= 0 <=> q \in 0 .. NLoop - 1
      BY <3>1
    <3>3. \/ p \in SliceOf(i) /\ p < 0
          \/ thr'[i].at = "beginTicker" /\ thr'[i].mod = j /\ thr'[i].tk = p
      BY <1>1, <3>1, <3>2, EnteredFrom
    <3>. QED  BY <1>5, <3>1, <3>3
  <2>5. CASE JoinThread
    <3>1. \/ thr[i].at = "done" /\ thr'[i].at = "none" /\ pc' = "join"
          \/ thr'[i] = thr[i] /\ pc' = pc
      BY <1>1, <2>5 DEF JoinThread, Goto, AtRest, TypeInv, TypeOK
    <3>. QED  BY <1>2, <2>1, <3>1, EnteredViewHolds, EnteredViewNext DEF EnteredView
  <2>6. ASSUME NEW q \in Threads, TickerThread(q), q # i
        PROVE  p \in Entered(j, i, "beginTicker")
    <3>1. thr'[i] = thr[i] /\ pc' = pc
      BY <1>1, <2>6, OtherThreadsKept DEF TickerThread, ThreadStart, BeginTicker, EndTicker
    <3>. QED  BY <1>2, <2>1, <3>1, EnteredViewHolds, EnteredViewNext DEF EnteredView
  <2>7. CASE TickerThread(i)
    <3>1. ThreadStart(i)
      BY <1>5, <2>7 DEF TickerThread, BeginTicker, EndTicker, InTicker
    <3>2. PICK from \in Int, to \in Int :
              /\ thr'[i] = FromTo(from, to)
              /\ \A q \in Int : q \in SliceOf(i) /\ q >= from <=> q \in from .. to - 1
              /\ \A q \in SliceOf(i) : q >= from
      BY <1>1, <3>1, StartInSlice
    <3>3. \/ p \in SliceOf(i) /\ p < from
          \/ thr'[i].at = "beginTicker" /\ thr'[i].mod = j /\ thr'[i].tk = p
      BY <1>1, <3>2, EnteredFrom
    <3>4. ~ (p \in SliceOf(i) /\ p < from)
      BY <1>2, <3>2
    <3>. QED  BY <1>5, <3>3, <3>4
  <2>8. ~ AllJoined
    BY DEF AllJoined, Goto
  <2>. QED  BY <2>2, <2>3, <2>4, <2>5, <2>6, <2>7, <2>8, InLoop
<1>. QED  BY <1>3, <1>4, <1>5, TickerMoves

DayBegun(j) ==
    /\ InDay
    /\ pc = "beginDay" => j < k \/ (j = k /\ todo[MainThread] = <<>>)
    /\ pc = "beginMarketDay" /\ Mdt => j <= k

InsertDue(i, j, p) ==
    p = thr[i].tk /\ thr[i].at = "beginTicker" /\ thr[i].mod = j /\ todo[Ticker(i)] # <<>>

SeriesOf(p) == <<idate, market, TickerAt[p + 1]>>

AfterLoop == pc \in {"endMarketDay", "endDay", "joinEndDay"} \/ (pc = "endMarket" /\ ~ Mdt)

DatedSeries(j) == DayBegun(j) => \A e \in heap[mMid].data : e[1] = idate

SeriesSoFar(j) ==
    pc \in {"create", "join"} =>
        \A i \in Threads : \A p \in Entered(j, i, "beginTicker") :
            SeriesOf(p) \in heap[mMid].data \/ InsertDue(i, j, p)

SeriesComplete == AfterLoop => \A p \in 0 .. NLoop - 1 : SeriesOf(p) \in heap[mMid].data

MidInv ==
    \A j \in Mods : program[j] = "MPseudoTradePrep" => DatedSeries(j) /\ SeriesSoFar(j) /\ SeriesComplete

(* In the order of dates before markets there is a day only if there is a  *)
(* market.                                                                 *)
DayMarkets == InDay /\ ~ Mdt => conf.nMarkets > 0

LEMMA MarketsNext ==
    ASSUME ControlInv, DayMarkets, [Next]_vars
    PROVE  DayMarkets'
<1>1. UNCHANGED conf /\ (Mdt' <=> Mdt) /\ conf.loopingOrder \in {"mdt", "dmt"} /\ conf.nMarkets \in Nat
  BY SetupKept, ConfFields DEF Mdt, ControlInv, TypeInv, ConfType
<1>2. SUFFICES ASSUME Next, InDay', ~ InDay, ~ Mdt PROVE conf.nMarkets > 0
  BY <1>1, PlacesKept DEF DayMarkets
<1>3. conf.loopingOrder = "dmt" /\ conf.loopingOrder # "mdt"
  BY <1>1, <1>2 DEF Mdt
<1>4. CASE BeginJob
  BY <1>1, <1>2, <1>3, <1>4 DEF BeginJob, Goto, InDay
<1>5. CASE InitModule \/ InitError \/ EndJob
  BY <1>2, <1>5 DEF InitModule, InitError, EndJob, Goto, InDay
<1>6. CASE BeginMarket \/ BeginDay \/ BeginMarketDay \/ EndMarketDay \/ EndDay \/ CreateEndDay \/ JoinEndDay \/ EndMarket
  BY <1>1, <1>2, <1>6 DEF BeginMarket, BeginDay, BeginMarketDay, EndMarketDay, EndDay, CreateEndDay,
                          JoinEndDay, EndMarket, InDay
<1>7. CASE CreateThread \/ AllCreated \/ LoopTickersAlone \/ JoinThread \/ AllJoined
  BY <1>2, <1>7 DEF CreateThread, AllCreated, LoopTickersAlone, JoinThread, AllJoined, InDay
<1>8. ASSUME NEW i \in Threads, TickerThread(i) PROVE FALSE
  BY <1>1, <1>2, <1>8 DEF TickerThread, ThreadStart, BeginTicker, EndTicker, InDay
<1>9. ASSUME NEW m \in Mods, EndDayThread(m) PROVE FALSE
  BY <1>1, <1>2, <1>9 DEF EndDayThread, EndDayStart, EndDayReturn, InDay
<1>10. CASE Terminated
  BY <1>2, <1>10 DEF Terminated, vars, InDay
<1>. QED
  BY <1>2, <1>4, <1>5, <1>6, <1>7, <1>8, <1>9, <1>10 DEF Next, Main

(* What an access does to the series.                                      *)
LEMMA MidAccess ==
    ASSUME Base, StoreInv, NEW x \in Actors, AccessOf(x)
    PROVE  \/ heap'[mMid] = heap[mMid] /\ ~ InsertMid(x) /\ ~ AtCall(x, "MPseudoTradePrep", "beginDay")
           \/ /\ InsertMid(x) /\ AtCall(x, "MPseudoTradePrep", "beginTicker") /\ Len(todo[x]) = 1
              /\ heap'[mMid].data = heap[mMid].data \cup {<<idate, market, Call(x)[3]>>}
           \/ AtCall(x, "MPseudoTradePrep", "beginDay") /\ heap'[mMid].data = {}
<1>1. CASE Add(x) \/ RemoveKey(x)
  BY <1>1, AddStep, RemoveKeyStep, InsertStep DEF OnlyEntry, AtCall
<1>2. CASE Skip(x) \/ Publish(x) \/ GetPointer(x)
  BY <1>2, SkipStep, PublishAccess, GetStep, InsertStep DEF AtCall
<1>3. CASE Clear(x)
  BY <1>3, ClearStep, InsertStep, AddressFacts DEF AtCall
<1>4. CASE Fill(x)
  BY <1>4, FillStep, InsertStep, AddressFacts DEF AtCall
<1>5. CASE InsertMid(x)
  BY <1>5, InsertStep
<1>. QED  BY <1>1, <1>2, <1>3, <1>4, <1>5 DEF AccessOf

LEMMA OneTradePrep ==
    ASSUME StateInv, NEW i \in Mods, NEW j \in Mods,
           program[i] = "MPseudoTradePrep", program[j] = "MPseudoTradePrep"
    PROVE  i = j
<1>1. program \in Programs /\ Len(program) = NModules /\ program \in Seq(ModuleNames)
  BY DEF StateInv
<1>2. i \in DOMAIN program /\ j \in DOMAIN program
  BY <1>1 DEF Mods
<1>. QED  BY <1>1, <1>2

LEMMA MidAfterAccess ==
    ASSUME Base, StoreInv, MidInv, NEW x \in Actors, AccessOf(x)
    PROVE  MidInv'
<1> USE DEF Base
<1>0. PICK op : Access(x, op)
  BY AccessHasOp
<1>1. /\ Threads' = Threads /\ Mods' = Mods /\ program' = program /\ UNCHANGED vars
      /\ \A y \in Actors : y # x => todo'[y] = todo[y]
      /\ todo[x] # <<>> /\ Len(todo'[x]) = Len(todo[x]) - 1
  BY <1>0, AccessStep
<1>2. /\ UNCHANGED <<pc, k, thr, idate, market>> /\ (Mdt' <=> Mdt) /\ NLoop' = NLoop
      /\ \A p : SeriesOf(p)' = SeriesOf(p)
      /\ \A j, i : Entered(j, i, "beginTicker")' = Entered(j, i, "beginTicker")
  BY <1>1 DEF vars, Mdt, NLoop, SeriesOf, Entered, Before, SliceOf
<1> SUFFICES ASSUME NEW j \in Mods, program[j] = "MPseudoTradePrep"
             PROVE  DatedSeries(j)' /\ SeriesSoFar(j)' /\ SeriesComplete'
  BY <1>1 DEF MidInv
<1>3. DatedSeries(j) /\ SeriesSoFar(j) /\ SeriesComplete
  BY DEF MidInv
<1>4. AtCall(x, "MPseudoTradePrep", "beginDay") => pc = "beginDay" /\ x = MainThread
  BY AtBeginDay
<1>5. DatedSeries(j)'
  <2> SUFFICES ASSUME DayBegun(j)', NEW e \in heap'[mMid].data PROVE e[1] = idate
    BY <1>2 DEF DatedSeries
  <2>1. CASE AtCall(x, "MPseudoTradePrep", "beginDay")
    BY <2>1, MidAccess DEF AtCall
  <2>2. CASE ~ AtCall(x, "MPseudoTradePrep", "beginDay")
    <3>1. DayBegun(j)
      <4>1. InDay /\ (pc = "beginMarketDay" /\ Mdt => j <= k)
        BY <1>2, <1>1, PlacesKept DEF DayBegun
      <4>2. CASE pc = "beginDay" /\ j = k
        <5>1. Call(MainThread) = <<"beginDay", j, 0>>
          BY <4>2, MainCall DEF BeginsAndEnds
        <5>2. AtCall(MainThread, "MPseudoTradePrep", "beginDay")
          BY <5>1 DEF AtCall, NoCall
        <5>3. x # MainThread /\ MainThread \in Actors
          BY <2>2, <5>2, ActorKinds
        <5>. QED  BY <1>1, <1>2, <4>1, <4>2, <5>3 DEF DayBegun
      <4>3. CASE ~ (pc = "beginDay" /\ j = k)
        BY <1>2, <4>1, <4>3 DEF DayBegun
      <4>. QED  BY <4>2, <4>3
    <3>2. \A f \in heap[mMid].data : f[1] = idate
      BY <1>3, <3>1 DEF DatedSeries
    <3>. QED  BY <2>2, <3>2, MidAccess
  <2>. QED  BY <2>1, <2>2
<1>6. ASSUME pc \in {"create", "join"} \/ AfterLoop
      PROVE  heap[mMid].data \subseteq heap'[mMid].data
  BY <1>4, <1>6, MidAccess DEF AfterLoop
<1>7. SeriesSoFar(j)'
  <2> SUFFICES ASSUME pc \in {"create", "join"}, NEW i \in Threads, NEW p \in Entered(j, i, "beginTicker"),
                      SeriesOf(p) \notin heap'[mMid].data
               PROVE  InsertDue(i, j, p)'
    BY <1>1, <1>2 DEF SeriesSoFar
  <2>1. InsertDue(i, j, p)
    BY <1>3, <1>6 DEF SeriesSoFar
  <2>2. Ticker(i) \in Actors
    BY ActorKinds
  <2>3. CASE x # Ticker(i)
    BY <1>1, <1>2, <2>1, <2>2, <2>3 DEF InsertDue
  <2>4. CASE x = Ticker(i)
    <3>1. Call(x) = <<"beginTicker", j, TickerAt[p + 1]>>
      BY <2>1, <2>4, TickerCall DEF InsertDue, InTicker
    <3>2. AtCall(x, "MPseudoTradePrep", "beginTicker") /\ Call(x)[3] = TickerAt[p + 1]
      BY <3>1 DEF AtCall, NoCall
    <3>3. ~ InsertMid(x)
      BY <3>2, MidAccess DEF SeriesOf, AtCall
    <3>4. /\ ~ Add(x) /\ ~ RemoveKey(x) /\ ~ Skip(x) /\ ~ Publish(x) /\ ~ Clear(x) /\ ~ Fill(x)
      BY <3>2, AddStep, RemoveKeyStep, SkipStep, PublishAccess, ClearStep, FillStep DEF AtCall
    <3>5. GetPointer(x)
      BY <3>3, <3>4 DEF AccessOf
    <3>6. Len(todo[x]) = 2
      BY <3>2, <3>5, GetStep DEF AtCall
    <3>7. Len(todo'[x]) = 1
      BY <1>1, <3>6
    <3>8. todo'[x] # <<>>
      BY <3>7, NotEmpty
    <3>. QED  BY <1>2, <2>1, <2>4, <3>8 DEF InsertDue
  <2>. QED  BY <2>3, <2>4
<1>8. SeriesComplete'
  <2>1. AfterLoop' <=> AfterLoop
    BY <1>2 DEF AfterLoop
  <2>. QED  BY <1>2, <1>3, <1>6, <2>1 DEF SeriesComplete
<1>. QED  BY <1>5, <1>7, <1>8

(* A step of the scheduler begins the day of a module's series only by     *)
(* entering the module's beginDay, which has yet to clear it.              *)
LEMMA DayBegins ==
    ASSUME Base, Base', Schedule, NEW j \in Mods, program[j] = "MPseudoTradePrep", DayBegun(j)'
    PROVE  DayBegun(j) /\ idate' = idate
<1> USE DEF Base
<1>1. Next /\ Mods' = Mods /\ (Mdt' <=> Mdt) /\ program' = program /\ MainThread \in Actors
  BY ScheduleStep, SetupKept, ActorKinds DEF Mdt
<1>2. /\ k \in Nat /\ j \in Nat /\ j >= 1 /\ j <= NModules /\ NModules \in Nat /\ conf.loopingOrder \in {"mdt", "dmt"}
      /\ Mdt <=> conf.loopingOrder # "dmt"
  <2>1. k \in Nat /\ NModules \in Nat /\ conf.loopingOrder \in {"mdt", "dmt"}
    BY BlockType, ConfFields DEF ControlInv, TypeInv, TypeOK, ConfType
  <2>. QED  BY <2>1 DEF Mods, Mdt
(* Module j's beginDay is entered: its accesses are all ahead.             *)
<1>3. ASSUME pc' = "beginDay", k' = j, pc # "beginDay" \/ k # j
      PROVE  FALSE
  <2>1. Call(MainThread)' = <<"beginDay", j, 0>>
    BY <1>3, MainCalls DEF BeginsAndEnds
  <2>2. Call(MainThread)' # Call(MainThread)
    BY <1>3, <2>1, MainCall DEF NoCall
  <2>3. todo'[MainThread] = AccessesOf(Call(MainThread))'
    BY <2>2, MainSchedule
  <2>4. AtCall(MainThread, "MPseudoTradePrep", "beginDay")' /\ MainThread \in Actors'
    BY <1>1, <2>1, ScheduleStep DEF AtCall, NoCall
  <2>5. Len(AccessesOf(Call(MainThread)))' = 1
    BY <2>4, CallLengthsNext DEF CallLengths
  <2>6. todo'[MainThread] # <<>>
    BY <2>3, <2>5, NotEmpty
  <2>7. k' < k' => FALSE
    BY <1>2, <1>3
  <2>. QED  BY <1>3, <2>6, <2>7 DEF DayBegun
<1>4. ASSUME pc' = "beginDay", k' = 1, pc # "beginDay" PROVE FALSE
  BY <1>2, <1>3, <1>4 DEF DayBegun
<1>5. pc = "beginDay" /\ k = j /\ pc' # "beginDay" => todo[MainThread] = <<>>
  <2> SUFFICES ASSUME pc = "beginDay", k = j, pc' # "beginDay" PROVE todo[MainThread] = <<>>
    OBVIOUS
  <2>1. Call(MainThread) # NoCall /\ Call(MainThread)[1] = "beginDay"
    BY MainCall DEF BeginsAndEnds, NoCall
  <2>2. Call(MainThread)' = NoCall \/ Call(MainThread)'[1] # "beginDay"
    BY MainCalls
  <2>. QED  BY <2>1, <2>2, MainSchedule
<1>6. pc = "beginDay" /\ k = j /\ k' # k /\ pc' = "beginDay" => todo[MainThread] = <<>>
  <2> SUFFICES ASSUME pc = "beginDay", k = j, k' # k, pc' = "beginDay" PROVE todo[MainThread] = <<>>
    OBVIOUS
  <2>1. Call(MainThread) = <<"beginDay", k, 0>> /\ Call(MainThread)' = <<"beginDay", k', 0>>
    BY MainCall, MainCalls DEF BeginsAndEnds
  <2>2. Call(MainThread)' # Call(MainThread)
    BY <2>1
  <2>. QED  BY <2>2, MainSchedule
<1>7. InDay'
  BY DEF DayBegun
<1>8. CASE BeginDay
  <2>1. pc = "beginDay" /\ InDay /\ idate' = idate
    BY <1>8 DEF BeginDay, InDay
  <2>2. CASE pc' = "beginMarketDay" /\ k' = k /\ Mdt
    <3>1. j <= k
      BY <1>1, <2>2 DEF DayBegun
    <3>. QED  BY <1>2, <1>5, <2>1, <2>2, <3>1 DEF DayBegun
  <2>3. CASE pc' = "beginDay" /\ k' = k + 1
    <3>1. j < k + 1
      BY <1>2, <1>3, <2>3 DEF DayBegun
    <3>. QED  BY <1>2, <1>6, <2>1, <2>3, <3>1 DEF DayBegun
  <2>4. CASE ~ (k < NModules) /\ pc' \in {"beginMarket", "endDay"}
    BY <1>2, <1>5, <2>1, <2>4 DEF DayBegun
  <2>. QED  BY <1>2, <1>8, <2>2, <2>3, <2>4 DEF BeginDay, Goto, EnterMarkets
<1>9. CASE BeginMarketDay
  <2>1. pc = "beginMarketDay" /\ InDay /\ idate' = idate
    BY <1>9 DEF BeginMarketDay, InDay
  <2>2. CASE Mdt /\ k < NModules
    <3>1. pc' = "beginDay" /\ k' = k + 1
      BY <1>2, <1>9, <2>2 DEF BeginMarketDay, Goto, Mdt
    <3>2. j < k + 1
      BY <1>2, <1>3, <2>1, <3>1 DEF DayBegun
    <3>. QED  BY <1>2, <2>1, <3>2 DEF DayBegun
  <2>3. CASE ~ (Mdt /\ k < NModules)
    BY <1>2, <2>1, <2>3 DEF DayBegun
  <2>. QED  BY <2>2, <2>3
<1>10. CASE BeginJob \/ BeginMarket
  <2>1. CASE BeginJob
    <3>1. pc' = "beginDay" /\ k' = 1 /\ pc # "beginDay"
      BY <1>1, <1>2, <1>7, <1>10, <2>1 DEF BeginJob, Goto, EnterMarkets, EnterIdates, InDay
    <3>. QED  BY <1>4, <3>1
  <2>2. CASE BeginMarket /\ Mdt
    <3>1. pc' = "beginDay" /\ k' = 1 /\ pc # "beginDay"
      BY <1>1, <1>2, <1>7, <2>2 DEF BeginMarket, Goto, EnterIdates, InDay, Mdt
    <3>. QED  BY <1>4, <3>1
  <2>3. CASE BeginMarket /\ ~ Mdt
    BY <1>2, <2>3 DEF BeginMarket, InDay, DayBegun, Mdt
  <2>. QED  BY <1>10, <2>1, <2>2, <2>3
<1>11. CASE EndDay \/ JoinEndDay
  <2>1. DayIsEnding /\ DayBegun(j)
    BY <1>11 DEF EndDay, JoinEndDay, DayIsEnding, DayBegun, InDay
  <2>2. \/ idate' = idate
        \/ pc' = "beginDay" /\ k' = 1
    BY <1>11 DEF EndDay, JoinEndDay, NextDay, EnterIdates, Goto, env
  <2>. QED  BY <1>4, <2>1, <2>2 DEF DayIsEnding
<1>12. CASE InitModule \/ InitError \/ EndJob \/ Terminated
  BY <1>1, <1>7, <1>12 DEF InitModule, InitError, EndJob, Terminated, vars, Goto, InDay
<1>13. CASE EndMarketDay \/ CreateEndDay
  <2>1. InDay /\ pc \in {"endMarketDay", "endDay"} /\ idate' = idate
    BY <1>13 DEF EndMarketDay, CreateEndDay, InDay, env
  <2>. QED  BY <2>1 DEF DayBegun
<1>14. CASE EndMarket
  <2>1. pc = "endMarket" /\ idate' = idate
    BY <1>14 DEF EndMarket
  <2>2. ~ Mdt
    BY <1>1, <1>2, <1>7, <1>14 DEF EndMarket, EnterMarkets, Goto, InDay, Mdt
  <2>. QED  BY <2>1, <2>2 DEF DayBegun, InDay
<1>15. CASE pc \in {"create", "join"}
  BY <1>1, <1>15, InLoop DEF DayBegun, InDay, env
<1>16. CASE CreateThread \/ AllCreated \/ LoopTickersAlone \/ JoinThread \/ AllJoined
  BY <1>15, <1>16 DEF CreateThread, AllCreated, LoopTickersAlone, JoinThread, AllJoined
<1>17. ASSUME NEW i \in Threads, TickerThread(i) PROVE pc \in {"create", "join"}
  BY <1>17 DEF TickerThread, ThreadStart, BeginTicker, EndTicker, ControlInv, ThreadInv
<1>18. ASSUME NEW m \in Mods, EndDayThread(m) PROVE DayBegun(j) /\ idate' = idate
  <2>1. pc \in {"endDay", "joinEndDay"} /\ idate' = idate
    BY <1>18 DEF EndDayThread, EndDayStart, EndDayReturn, ControlInv, EdayInv, env
  <2>. QED  BY <2>1 DEF DayBegun, InDay
<1>. QED
  BY <1>1, <1>8, <1>9, <1>10, <1>11, <1>12, <1>13, <1>14, <1>15, <1>16, <1>17, <1>18 DEF Next, Main

(* The ticker loop is the only way to where it is over.                    *)
LEMMA LoopOver ==
    ASSUME ControlInv, ControlInv', DayMarkets, Next, AfterLoop'
    PROVE  \/ AfterLoop /\ UNCHANGED <<market, idate, conf, nTickers>>
           \/ AllJoined
<1>1. Mdt' <=> Mdt
  BY SetupKept DEF Mdt
<1>2. /\ conf.loopingOrder \in {"mdt", "dmt"} /\ (Mdt <=> conf.loopingOrder # "dmt")
      /\ conf.nMarkets \in Nat /\ market \in Nat /\ k \in Nat
  BY ConfFields, DatesAreNumbers DEF ControlInv, TypeInv, TypeOK, ConfType, Mdt
<1>3. CASE InitModule \/ InitError \/ BeginJob \/ EndJob \/ Terminated \/ BeginMarketDay
  BY <1>1, <1>2, <1>3 DEF InitModule, InitError, BeginJob, EndJob, Terminated, BeginMarketDay,
                    Goto, EnterMarkets, EnterIdates, AfterLoop, vars, Mdt
<1>4. CASE BeginMarket
  BY <1>1, <1>2, <1>4 DEF BeginMarket, Goto, EnterIdates, AfterLoop, Mdt
<1>5. CASE BeginDay
  <2>1. ~ Mdt => conf.nMarkets > 0
    BY <1>5 DEF BeginDay, DayMarkets, InDay
  <2>. QED  BY <1>1, <1>2, <1>5, <2>1 DEF BeginDay, Goto, EnterMarkets, AfterLoop, Mdt
<1>6. CASE EndMarketDay \/ CreateEndDay
  BY <1>6 DEF EndMarketDay, CreateEndDay, AfterLoop, env, setup
<1>7. CASE EndDay \/ JoinEndDay
  <2>1. AfterLoop /\ conf' = conf /\ nTickers' = nTickers
    BY <1>7 DEF EndDay, JoinEndDay, AfterLoop, setup, env, NextDay
  <2>2. UNCHANGED <<market, idate>>
    BY <1>1, <1>2, <1>7 DEF EndDay, JoinEndDay, NextDay, EnterIdates, Goto, env, AfterLoop
  <2>. QED  BY <2>1, <2>2
<1>8. CASE EndMarket
  BY <1>1, <1>2, <1>8 DEF EndMarket, EnterMarkets, Goto, AfterLoop, setup
<1>9. CASE CreateThread \/ AllCreated \/ LoopTickersAlone \/ JoinThread
  BY <1>9 DEF CreateThread, AllCreated, LoopTickersAlone, JoinThread, Goto, AfterLoop
<1>10. ASSUME NEW i \in Threads, TickerThread(i) PROVE FALSE
  BY <1>10 DEF TickerThread, ThreadStart, BeginTicker, EndTicker, ControlInv, ThreadInv, AfterLoop
<1>11. ASSUME NEW m \in Mods, EndDayThread(m) PROVE AfterLoop /\ UNCHANGED <<market, idate, conf, nTickers>>
  BY <1>1, <1>11 DEF EndDayThread, EndDayStart, EndDayReturn, AfterLoop, env, setup
<1>. QED
  BY <1>3, <1>4, <1>5, <1>6, <1>7, <1>8, <1>9, <1>10, <1>11 DEF Next, Main

LEMMA EntersLoop ==
    ASSUME Next, pc \notin {"create", "join"}, pc' \in {"create", "join"}, ControlInv
    PROVE  pc' = "create" /\ \A i \in Threads : thr'[i].at = "none"
<1>1. BeginMarketDay => pc' = "create" /\ thr' = thr
  BY DEF BeginMarketDay, Goto
<1>2. ~ (\/ InitModule \/ InitError \/ BeginJob \/ BeginMarket \/ BeginDay
         \/ EndMarketDay \/ EndDay \/ CreateEndDay \/ JoinEndDay \/ EndMarket \/ EndJob \/ Terminated
         \/ CreateThread \/ AllCreated \/ LoopTickersAlone \/ JoinThread \/ AllJoined)
  BY DEF InitModule, InitError, BeginJob, BeginMarket, BeginDay, EndMarketDay, EndDay, CreateEndDay,
         JoinEndDay, EndMarket, EndJob, Terminated, CreateThread, AllCreated, LoopTickersAlone,
         JoinThread, AllJoined, Goto, EnterMarkets, EnterIdates, NextDay, vars
<1>3. ASSUME NEW i \in Threads, TickerThread(i) PROVE FALSE
  BY <1>3 DEF TickerThread, ThreadStart, BeginTicker, EndTicker
<1>4. ASSUME NEW m \in Mods, EndDayThread(m) PROVE FALSE
  BY <1>4 DEF EndDayThread, EndDayStart, EndDayReturn
<1>. QED  BY <1>1, <1>2, <1>3, <1>4 DEF Next, Main, ControlInv, ThreadInv

(* A module that enters the callback of a ticker has its series to insert. *)
LEMMA InsertBecomesDue ==
    ASSUME Base, Base', Schedule, NEW i \in Threads, NEW j \in Mods, program[j] = "MPseudoTradePrep",
           thr'[i].at = "beginTicker", thr'[i].mod = j, ~ InTicker(i) \/ MovesTo(i)
    PROVE  todo'[Ticker(i)] # <<>>
<1> USE DEF Base
<1>1. Threads' = Threads /\ Mods' = Mods /\ program' = program /\ Ticker(i) \in Actors'
  BY ScheduleStep, ActorKinds
<1>2. InTicker(i)'
  BY DEF InTicker
<1>3. todo'[Ticker(i)] = AccessesOf(Call(Ticker(i)))'
  <2>1. CASE ~ InTicker(i)
    BY <1>2, <2>1, TickerBegins
  <2>2. CASE InTicker(i)
    <3>1. thr[i].mod \in Nat
      BY DEF ControlInv, TypeInv, TypeOK, ThreadType
    <3>2. thr'[i] # thr[i]
      BY <2>2, <3>1 DEF MovesTo, Inside, FromTo, AtRest
    <3>. QED  BY <2>2, <3>2, TickerSchedule
  <2>. QED  BY <2>1, <2>2
<1>4. Call(Ticker(i))' = <<"beginTicker", j, TickerAt[thr'[i].tk + 1]>>
  BY <1>1, <1>2, TickerCalls
<1>5. AtCall(Ticker(i), "MPseudoTradePrep", "beginTicker")'
  BY <1>1, <1>4 DEF AtCall, NoCall
<1>6. Len(AccessesOf(Call(Ticker(i))))' = 2
  BY <1>1, <1>5, CallLengthsNext DEF CallLengths
<1>. QED  BY <1>3, <1>6

LEMMA MidSchedule ==
    ASSUME Base, Base', MidInv, DayMarkets, Schedule, SomeThread
    PROVE  MidInv'
<1> USE DEF Base
<1>1. /\ Next /\ Threads' = Threads /\ Mods' = Mods /\ UNCHANGED <<mp, heap, program>>
      /\ (Mdt' <=> Mdt)
  BY ScheduleStep, SetupKept DEF Mdt, event
<1> SUFFICES ASSUME NEW j \in Mods, program[j] = "MPseudoTradePrep"
             PROVE  DatedSeries(j)' /\ SeriesSoFar(j)' /\ SeriesComplete'
  BY <1>1 DEF MidInv
<1>2. DatedSeries(j) /\ SeriesSoFar(j) /\ SeriesComplete
  BY DEF MidInv
<1>3. DatedSeries(j)'
  BY <1>1, <1>2, DayBegins DEF DatedSeries
<1>4. SeriesSoFar(j)'
  <2> SUFFICES ASSUME pc' \in {"create", "join"}, NEW i \in Threads, NEW p \in Entered(j, i, "beginTicker")'
               PROVE  SeriesOf(p)' \in heap[mMid].data \/ InsertDue(i, j, p)'
    BY <1>1 DEF SeriesSoFar
  <2>1. pc \in {"create", "join"}
    <3> SUFFICES ASSUME pc \notin {"create", "join"} PROVE FALSE
      OBVIOUS
    <3>1. pc' = "create" /\ thr'[i].at = "none"
      BY <1>1, EntersLoop
    <3>. QED  BY <3>1, EnteredViewNext DEF EnteredView
  <2>2. UNCHANGED <<env, setup>>
    BY <1>1, <2>1, InLoop
  <2>3. SeriesOf(p)' = SeriesOf(p)
    BY <2>2 DEF SeriesOf, env
  <2>4. CASE thr'[i].at = "beginTicker" /\ thr'[i].mod = j /\ thr'[i].tk = p /\ (~ InTicker(i) \/ MovesTo(i))
    BY <2>4, InsertBecomesDue DEF InsertDue
  <2>5. CASE p \in Entered(j, i, "beginTicker")
    <3>1. SeriesOf(p) \in heap[mMid].data \/ InsertDue(i, j, p)
      BY <1>2, <2>1, <2>5 DEF SeriesSoFar
    <3>2. InsertDue(i, j, p) => InsertDue(i, j, p)'
      <4> SUFFICES ASSUME InsertDue(i, j, p) PROVE InsertDue(i, j, p)'
        OBVIOUS
      <4>1. InTicker(i) /\ todo[Ticker(i)] # <<>>
        BY DEF InsertDue, InTicker
      <4>2. thr'[i] = thr[i] /\ todo'[Ticker(i)] = todo[Ticker(i)]
        BY <4>1, TickerSchedule
      <4>. QED  BY <4>2 DEF InsertDue
    <3>. QED  BY <2>3, <3>1, <3>2
  <2>. QED  BY <1>1, <2>1, <2>4, <2>5, EnteredStep
<1>5. SeriesComplete'
  <2>1. CASE AfterLoop' /\ AfterLoop /\ UNCHANGED <<market, idate, conf, nTickers>>
    <3>1. NLoop' = NLoop /\ \A p : SeriesOf(p)' = SeriesOf(p)
      BY <2>1 DEF NLoop, SeriesOf
    <3>. QED  BY <1>1, <1>2, <2>1, <3>1 DEF SeriesComplete
  <2>2. CASE AllJoined
    <3>1. pc = "join" /\ k \notin Threads /\ UNCHANGED <<market, idate, conf, nTickers>>
      BY <2>2 DEF AllJoined, env, setup
    <3>2. NLoop' = NLoop /\ \A p : SeriesOf(p)' = SeriesOf(p)
      BY <3>1 DEF NLoop, SeriesOf
    <3>3. k \in Nat /\ conf.nMaxThreadTicker \in Nat /\ TypeOK
      BY ConfFields DEF ControlInv, TypeInv, TypeOK
    <3>4. ASSUME NEW i \in Threads PROVE thr[i].at = "none"
      <4>1. i < k
        BY <3>1, <3>3 DEF Threads
      <4>. QED  BY <3>1, <4>1 DEF ControlInv, ThreadInv
    <3>5. ASSUME NEW i \in Threads, NEW p \in SliceOf(i) PROVE SeriesOf(p) \in heap[mMid].data
      <4>1. p \in Entered(j, i, "beginTicker")
        BY <3>1, <3>4, <3>5, EnteredViewHolds DEF EnteredView
      <4>2. ~ InsertDue(i, j, p)
        BY <3>4, <3>5 DEF InsertDue
      <4>. QED  BY <1>2, <3>1, <4>1, <4>2 DEF SeriesSoFar
    <3>6. UNION {SliceOf(i) : i \in Threads} = 0 .. NLoop - 1
      BY <3>3, SlicesOfThreads
    <3>. QED  BY <1>1, <3>2, <3>5, <3>6 DEF SeriesComplete
  <2>. QED  BY <1>1, <2>1, <2>2, LoopOver DEF SeriesComplete
<1>. QED  BY <1>3, <1>4, <1>5

LEMMA MidStopped ==
    ASSUME MidInv, UNCHANGED allVars
    PROVE  MidInv'
<1>1. UNCHANGED vars /\ UNCHANGED <<mp, heap, program, todo>>
  BY DEF allVars, event
<1>2. /\ UNCHANGED <<pc, k, thr, idate, market>> /\ (Mdt' <=> Mdt) /\ NLoop' = NLoop
      /\ \A p : SeriesOf(p)' = SeriesOf(p)
      /\ \A j, i : Entered(j, i, "beginTicker")' = Entered(j, i, "beginTicker")
      /\ Threads' = Threads /\ Mods' = Mods
  BY <1>1, SetupKept DEF vars, Mdt, NLoop, SeriesOf, Entered, Before, SliceOf
<1>3. (InDay' <=> InDay) /\ (AfterLoop' <=> AfterLoop)
  BY <1>1, <1>2, PlacesKept DEF AfterLoop
<1>4. \A j : /\ DayBegun(j)' <=> DayBegun(j)
             /\ \A i, p : InsertDue(i, j, p)' <=> InsertDue(i, j, p)
  BY <1>1, <1>2, <1>3 DEF DayBegun, InsertDue
<1>. QED  BY <1>1, <1>2, <1>3, <1>4 DEF MidInv, DatedSeries, SeriesSoFar, SeriesComplete

LEMMA MidNext ==
    ASSUME Base, Base', StoreInv, MidInv, DayMarkets, SomeThread, [BlackboardNext]_allVars
    PROVE  MidInv'
BY BlackboardSteps, MidAfterAccess, MidSchedule, MidStopped

LEMMA MidInit ==
    ASSUME BlackboardInit
    PROVE  MidInv /\ DayMarkets
<1>1. pc = "init"
  BY DEF BlackboardInit, Init
<1>. QED  BY <1>1 DEF MidInv, DayMarkets, DatedSeries, SeriesSoFar, SeriesComplete, DayBegun, InDay, AfterLoop

------------------------
(* What MPseudoTradePrep's endDay has left behind for the modules after    *)
(* it, when at most n of its accesses are ahead.                           *)

CloseDone(j, n) ==
    DayIsEnding /\ LeftDay(j) /\ \A x \in Actors : EndsDay(x, j) => Len(todo[x]) <= n

CloseInv ==
    \A j \in Mods : program[j] = "MPseudoTradePrep" =>
        /\ CloseDone(j, 2) => heap[mClose].data = {<<idate>>}
        /\ CloseDone(j, 1) => mp[Close] = mClose
        /\ CloseDone(j, 0) => mp[Mid] = mMid

MembersKept == heap'[mClose] = heap[mClose] /\ mp'[Close] = mp[Close] /\ mp'[Mid] = mp[Mid]

LEMMA ClosingAccess ==
    ASSUME Base, StoreInv, NEW x \in Actors, AccessOf(x)
    PROVE  \/ MembersKept /\ ~ AtCall(x, "MPseudoTradePrep", "endDay")
           \/ /\ AtCall(x, "MPseudoTradePrep", "endDay")
              /\ \/ Len(todo[x]) = 4
                 \/ Len(todo[x]) = 3 /\ heap'[mClose].data = {<<idate>>}
                 \/ Len(todo[x]) = 2 /\ heap' = heap /\ mp'[Close] = mClose
                 \/ Len(todo[x]) = 1 /\ heap' = heap /\ mp'[Close] = mp[Close] /\ mp'[Mid] = mMid
<1>1. Mid \in Keys /\ Close \in Keys /\ Mid # Close /\ mMid # mClose
  BY KeyFacts
<1>2. CASE Add(x) \/ RemoveKey(x)
  BY <1>1, <1>2, AddStep, RemoveKeyStep DEF OnlyEntry, AtCall, MembersKept
<1>3. CASE Skip(x) \/ GetPointer(x)
  BY <1>3, SkipStep, GetStep DEF AtCall, MembersKept
<1>4. CASE Publish(x)
  <2>1. mp \in [Keys -> Addrs \cup {Null}]
    BY DEF Base, StateInv
  <2>. QED  BY <1>1, <1>4, <2>1, PublishAccess
<1>5. CASE Clear(x)
  BY <1>5, ClearStep, AddressFacts DEF AtCall, MembersKept
<1>6. CASE Fill(x)
  BY <1>6, FillStep
<1>7. CASE InsertMid(x)
  BY <1>7, InsertStep, AddressFacts DEF AtCall, MembersKept
<1>. QED  BY <1>2, <1>3, <1>4, <1>5, <1>6, <1>7 DEF AccessOf

LEMMA CloseAccess ==
    ASSUME Base, StoreInv, CloseInv, NEW x \in Actors, AccessOf(x)
    PROVE  CloseInv'
<1> USE DEF Base
<1>0. PICK op : Access(x, op)
  BY AccessHasOp
<1>1. /\ Mods' = Mods /\ Actors' = Actors /\ program' = program /\ UNCHANGED vars
      /\ \A y \in Actors : y # x => todo'[y] = todo[y]
      /\ Len(todo'[x]) = Len(todo[x]) - 1 /\ Len(todo[x]) \in Nat \ {0}
  BY <1>0, AccessStep
<1>2. /\ DayIsEnding' <=> DayIsEnding
      /\ \A m : LeftDay(m)' <=> LeftDay(m)
      /\ \A y, m : EndsDay(y, m)' <=> EndsDay(y, m)
      /\ idate' = idate
  BY <1>1, PlacesKept DEF vars
<1> SUFFICES ASSUME NEW j \in Mods, program[j] = "MPseudoTradePrep"
             PROVE  /\ CloseDone(j, 2)' => heap'[mClose].data = {<<idate>>}
                    /\ CloseDone(j, 1)' => mp'[Close] = mClose
                    /\ CloseDone(j, 0)' => mp'[Mid] = mMid
  BY <1>1, <1>2 DEF CloseInv
<1>3. /\ CloseDone(j, 2) => heap[mClose].data = {<<idate>>}
      /\ CloseDone(j, 1) => mp[Close] = mClose
      /\ CloseDone(j, 0) => mp[Mid] = mMid
  BY DEF CloseInv
<1>4. ASSUME NEW n \in 0 .. 2, CloseDone(j, n)', ~ EndsDay(x, j) \/ Len(todo[x]) <= n
      PROVE  CloseDone(j, n)
  <2>1. DayIsEnding /\ LeftDay(j) /\ \A y \in Actors : EndsDay(y, j) => Len(todo'[y]) <= n
    BY <1>1, <1>2, <1>4 DEF CloseDone
  <2>2. ASSUME NEW y \in Actors, EndsDay(y, j) PROVE Len(todo[y]) <= n
    <3>1. y # x => todo'[y] = todo[y]
      BY <1>1
    <3>. QED  BY <1>4, <2>1, <2>2, <3>1
  <2>. QED  BY <2>1, <2>2 DEF CloseDone
<1>5. ASSUME NEW n \in 0 .. 2, CloseDone(j, n)', EndsDay(x, j) PROVE Len(todo[x]) - 1 <= n
  BY <1>1, <1>2, <1>5 DEF CloseDone
<1>6. CASE ~ AtCall(x, "MPseudoTradePrep", "endDay")
  <2>1. MembersKept
    BY <1>6, ClosingAccess
  <2>2. ~ EndsDay(x, j)
    BY <1>6, EndsDayCallsHold DEF EndsDayCalls, AtCall, NoCall
  <2>. QED  BY <1>3, <1>4, <2>1, <2>2 DEF MembersKept
<1>7. CASE AtCall(x, "MPseudoTradePrep", "endDay")
  <2>1. EndsDay(x, j)
    <3>1. PICK m \in Mods : EndsDay(x, m) /\ program[m] = "MPseudoTradePrep"
      BY <1>7, AtEndDay
    <3>. QED  BY <3>1, OneTradePrep
  <2>fourLeft. CASE Len(todo[x]) = 4
    BY <1>5, <2>1, <2>fourLeft
  <2>threeLeft. CASE Len(todo[x]) = 3 /\ heap'[mClose].data = {<<idate>>}
    BY <1>5, <2>1, <2>threeLeft
  <2>twoLeft. CASE Len(todo[x]) = 2 /\ heap' = heap /\ mp'[Close] = mClose
    BY <1>3, <1>4, <1>5, <2>1, <2>twoLeft
  <2>oneLeft. CASE Len(todo[x]) = 1 /\ heap' = heap /\ mp'[Close] = mp[Close] /\ mp'[Mid] = mMid
    BY <1>3, <1>4, <2>1, <2>oneLeft
  <2>. QED  BY <1>7, <2>fourLeft, <2>threeLeft, <2>twoLeft, <2>oneLeft, ClosingAccess
<1>. QED  BY <1>6, <1>7

LEMMA CloseSchedule ==
    ASSUME Base, Base', CloseInv, Schedule
    PROVE  CloseInv'
<1> USE DEF Base
<1>1. Mods' = Mods /\ Actors' = Actors /\ UNCHANGED <<mp, heap, program>>
  BY ScheduleStep DEF event
<1> SUFFICES ASSUME NEW j \in Mods, program[j] = "MPseudoTradePrep", NEW n \in 0 .. 2, CloseDone(j, n)'
             PROVE  CloseDone(j, n) /\ idate' = idate
  BY <1>1 DEF CloseInv
<1>2. /\ pc' \in {"endDay", "joinEndDay"} /\ DayIsEnding' /\ LeftDay(j)'
      /\ \A x \in Actors : EndsDay(x, j)' => Len(todo'[x]) <= n
  BY <1>1 DEF CloseDone, DayIsEnding
<1>3. ~ LeavesNow(j)
  <2> SUFFICES ASSUME LeavesNow(j) PROVE FALSE
    OBVIOUS
  <2>1. PICK x \in Actors : EndsDay(x, j)' /\ todo'[x] = AccessesOf(Call(x))'
    BY DEF LeavesNow
  <2>2. AtCall(x, "MPseudoTradePrep", "endDay")'
    BY <1>1, <2>1, EndsDayCallsNext DEF EndsDayCalls, AtCall, NoCall
  <2>3. Len(AccessesOf(Call(x)))' = 4
    BY <1>1, <2>2, CallLengthsNext DEF CallLengths
  <2>4. Len(todo'[x]) = 4
    BY <2>1, <2>3
  <2>5. Len(todo'[x]) <= n
    BY <1>2, <2>1
  <2>. QED  BY <2>4, <2>5
<1>4. StillLeft(j)
  BY <1>2, <1>3, LeavesDay
<1>5. idate' = idate
  <2>1. InDay
    BY <1>4 DEF StillLeft, DayIsEnding, InDay
  <2>. QED  BY <1>2, <2>1, DayEnds
<1>6. ASSUME NEW x \in Actors, EndsDay(x, j) PROVE Len(todo[x]) <= n
  <2>1. CASE EndsDay(x, j)'
    BY <1>2, <1>4, <2>1 DEF StillLeft
  <2>2. CASE ~ EndsDay(x, j)'
    <3>1. todo[x] = <<>>
      BY <1>4, <1>6, <2>2 DEF StillLeft
    <3>. QED  BY <3>1
  <2>. QED  BY <2>1, <2>2
<1>. QED  BY <1>4, <1>5, <1>6 DEF StillLeft, CloseDone

LEMMA CloseStopped ==
    ASSUME CloseInv, UNCHANGED allVars
    PROVE  CloseInv'
<1>1. UNCHANGED vars /\ UNCHANGED <<mp, heap, program, todo>>
  BY DEF allVars, event
<1>2. Mods' = Mods /\ Actors' = Actors /\ idate' = idate
  BY <1>1, SetupKept DEF vars
<1>. QED  BY <1>1, <1>2, PlacesKept DEF CloseInv, CloseDone

LEMMA CloseNext ==
    ASSUME Base, Base', StoreInv, CloseInv, [BlackboardNext]_allVars
    PROVE  CloseInv'
BY BlackboardSteps, CloseAccess, CloseSchedule, CloseStopped

LEMMA CloseInit ==
    ASSUME BlackboardInit
    PROVE  CloseInv
<1>1. pc = "init"
  BY DEF BlackboardInit, Init
<1>. QED  BY <1>1 DEF CloseInv, CloseDone, DayIsEnding

------------------------
(* What Supplied says of a module that reads.                              *)

LEMMA QuotesSupplied ==
    ASSUME ControlInv, StateInv, Supplied, NEW m \in Mods,
           program[m] \in {"MMakeSampleMicro", "MPseudoTradePrep"}
    PROVE  \E j \in Mods : j < m /\ program[j] = "MTickRead"
<1>0. "nbbo" \in Needs[program[m]]
  BY DEF Needs
<1>1. PICK j \in 1 .. m - 1 : "nbbo" \in Supplies[program[j]]
  BY <1>0 DEF Supplied
<1>2. j \in Mods /\ j < m
  <2>1. NModules \in Nat
    BY BlockType DEF ControlInv, TypeInv, TypeOK
  <2>. QED  BY <2>1 DEF Mods
<1>3. program[j] \in ModuleNames
  BY <1>2, ProgramModules
<1>4. program[j] = "MTickRead"
  BY <1>1, <1>3 DEF Supplies, ModuleNames
<1>. QED  BY <1>2, <1>4

LEMMA ReaderSupplied ==
    ASSUME Base, Supplied, NEW x \in Actors, NEW m \in Mods, EndsDay(x, m), program[m] = "MFastSim"
    PROVE  \E j \in Mods : program[j] = "MPseudoTradePrep" /\ CloseDone(j, 0)
<1> USE DEF Base
<1>1. PICK j \in 1 .. m - 1 : /\ "mMid" \in Supplies[program[j]]
                              /\ ~ conf.multiThreadModule \/ modules[j].ord # modules[m].ord
  BY DEF Supplied, Needs
<1>2. /\ j \in Mods /\ j < m /\ m <= NModules /\ j \in Nat /\ m \in Nat /\ NModules \in Nat /\ k \in Nat
  <2>1. NModules \in Nat /\ k \in Nat
    BY BlockType DEF ControlInv, TypeInv, TypeOK
  <2>. QED  BY <2>1 DEF Mods
<1>3. program[j] = "MPseudoTradePrep"
  <2>1. program[j] \in ModuleNames
    BY <1>2, ProgramModules
  <2>. QED  BY <1>1, <2>1 DEF Supplies, ModuleNames
<1>4. pc \in {"endDay", "joinEndDay"}
  BY DEF EndsDay, ControlInv, EdayInv
<1>5. eday[m] = "endDay" => modules[j].ord # modules[m].ord
  BY <1>1 DEF ControlInv, EdayInv
<1>6. /\ x = MainThread => pc = "endDay" /\ k = m
      /\ x # MainThread => eday[m] = "endDay"
  BY ActorsDiffer DEF EndsDay
<1>7. eday[j] = "none"
  <2> SUFFICES ASSUME eday[j] # "none" PROVE FALSE
    OBVIOUS
  <2>1. conf.multiThreadModule /\ modules[j].ord # modules[m].ord
    BY <1>1, <1>2 DEF ControlInv, EdayInv
  <2>2. CASE pc = "endDay"
    <3>1. modules[j].ord = modules[k].ord
      BY <1>2, <2>2 DEF ControlInv, EdayInv
    <3>2. modules[m].ord = modules[k].ord
      BY <1>6, <2>2 DEF ControlInv, EdayInv
    <3>. QED  BY <2>1, <3>1, <3>2
  <2>3. CASE pc = "joinEndDay"
    <3>1. j \in Group(k) /\ m \in Group(k)
      BY <1>2, <1>6, <2>3 DEF ControlInv, EdayInv
    <3>. QED  BY <2>1, <3>1 DEF Group
  <2>. QED  BY <1>4, <2>2, <2>3
<1>8. j < k
  <2>1. CASE pc = "endDay"
    <3>1. m = k \/ m < k
      BY <1>6, <2>1 DEF ControlInv, EdayInv
    <3>. QED  BY <1>2, <3>1
  <2>2. CASE pc = "joinEndDay"
    <3>1. m \in Group(k) /\ LastOfGroup(k) /\ k \in Mods
      BY <1>6, <2>2 DEF ControlInv, EdayInv, LifeInv
    <3>2. m <= k
      <4> SUFFICES ASSUME k < m PROVE FALSE
        BY <1>2
      <4>1. modules[k + 1].ord # modules[k].ord /\ modules[m].ord = modules[k].ord
        BY <1>2, <3>1 DEF LastOfGroup, Group
      <4>2. Len(modules) = NModules
        BY <2>2 DEF ControlInv, ModInv
      <4>3. /\ k + 1 \in 1 .. Len(modules) /\ k \in 1 .. Len(modules) /\ m \in 1 .. Len(modules)
            /\ k < k + 1 /\ (k + 1 < m \/ k + 1 = m)
        BY <1>2, <3>1, <4>2 DEF Mods
      <4>4. modules[k].ord <= modules[k + 1].ord
        BY <4>3 DEF ControlInv, ModInv
      <4>5. modules[k + 1].ord <= modules[m].ord \/ k + 1 = m
        BY <4>3 DEF ControlInv, ModInv
      <4>6. modules[k].ord \in Int /\ modules[k + 1].ord \in Int
        <5>1. modules \in Seq([ord : Nat, id : Nat])
          BY DEF ControlInv, TypeInv, TypeOK
        <5>2. \A q \in 1 .. Len(modules) : modules[q] \in [ord : Nat, id : Nat]
          BY <5>1, ElementOfSeq
        <5>3. \A q \in 1 .. Len(modules) : modules[q].ord \in Int
          BY <5>2
        <5>. QED  BY <4>3, <5>3
      <4>. QED  BY <4>1, <4>4, <4>5, <4>6
    <3>. QED  BY <1>2, <3>2
  <2>. QED  BY <1>4, <2>1, <2>2
<1>9. LeftDay(j) /\ DayIsEnding
  BY <1>4, <1>7, <1>8 DEF LeftDay, DayIsEnding
<1>10. ASSUME NEW y \in Actors, EndsDay(y, j) PROVE FALSE
  BY <1>2, <1>7, <1>8, <1>10 DEF EndsDay
<1>. QED  BY <1>2, <1>3, <1>9, <1>10 DEF CloseDone

------------------------
(* The pointers local variables hold: a ticker callback's are still in the *)
(* store, an endDay's are MPseudoTradePrep's members.                      *)

TickerHeld(i, h) ==
    /\ thr[i].at = "beginTicker"
    /\ \/ /\ h.key = Nbbo(TickerOf(i)) /\ (TickersApart => h.addr = mp[h.key])
          /\ program[thr[i].mod] \in {"MMakeSampleMicro", "MPseudoTradePrep"}
       \/ h.key = Pred /\ h.addr = mp[Pred]

EndDayHeld(x, m, h) ==
    /\ EndsDay(x, m) /\ program[m] = "MFastSim"
    /\ h.key \in {Mid, Close}
    /\ Supplied => h.addr = IF h.key = Mid THEN mMid ELSE mClose

HeldInv ==
    \A x \in Actors : \A h \in held[x] :
        \/ \E i \in Threads : x = Ticker(i) /\ TickerHeld(i, h)
        \/ \E m \in Mods : EndDayHeld(x, m, h)

LEMMA SuppliedKept ==
    ASSUME UNCHANGED <<conf, modules, program>>, Mods' = Mods
    PROVE  Supplied' <=> Supplied
BY DEF Supplied

LEMMA ModulesKept ==
    ASSUME Next, pc # "init"
    PROVE  modules' = modules
BY DEF Next, Main, InitModule, InitError, BeginJob, BeginMarket, BeginDay, BeginMarketDay, EndMarketDay,
       EndDay, CreateEndDay, JoinEndDay, EndMarket, EndJob, Terminated, CreateThread, AllCreated,
       LoopTickersAlone, JoinThread, AllJoined, TickerThread, ThreadStart, BeginTicker, EndTicker,
       EndDayThread, EndDayStart, EndDayReturn, setup, vars

CallsEndDay == \A x \in Actors : \A m \in Mods : Call(x) = <<"endDay", m, 0>> => EndsDay(x, m)

LEMMA CallsEndDayHolds == CallsEndDay
<1> SUFFICES ASSUME NEW x \in Actors, NEW m \in Mods, Call(x) = <<"endDay", m, 0>> PROVE EndsDay(x, m)
  BY DEF CallsEndDay
<1>1. CASE x = MainThread
  BY <1>1, MainCall DEF NoCall, EndsDay
<1>2. ASSUME NEW i \in Threads, x = Ticker(i) PROVE FALSE
  BY <1>2, TickerCall DEF InTicker, NoCall
<1>3. ASSUME NEW n \in Mods, x = EndDayOf(n) PROVE EndsDay(x, m)
  BY <1>3, EndDayCall DEF NoCall, EndsDay
<1>. QED  BY <1>1, <1>2, <1>3, ActorKinds

LEMMA CallsEndDayNext == CallsEndDay'
BY CallsEndDayHolds, PTL

(* A pointer as it is got.                                                 *)
LEMMA GotPointer ==
    ASSUME Base, CloseInv, NEW x \in Actors, GetPointer(x),
           NEW h, h = [key |-> Key(x), addr |-> mp[Key(x)]]
    PROVE  \/ \E i \in Threads : x = Ticker(i) /\ TickerHeld(i, h)
           \/ \E m \in Mods : EndDayHeld(x, m, h)
<1> USE DEF Base
<1>1. h.key = Key(x) /\ h.addr = mp[h.key]
  OBVIOUS
<1>2. ASSUME NEW module \in {"MMakeSampleMicro", "MPseudoTradePrep"}, AtCall(x, module, "beginTicker"),
             Key(x) = Nbbo(Call(x)[3]) \/ Key(x) = Pred
      PROVE  \E i \in Threads : x = Ticker(i) /\ TickerHeld(i, h)
  <2>1. PICK i \in Threads : /\ x = Ticker(i) /\ thr[i].at = "beginTicker"
                             /\ program[thr[i].mod] = module /\ Call(x)[3] = TickerAt[thr[i].tk + 1]
    BY <1>2, AtTicker
  <2>. QED  BY <1>1, <1>2, <2>1 DEF TickerHeld, TickerOf
<1>3. ASSUME AtCall(x, "MFastSim", "endDay"), Key(x) \in {Mid, Close}
      PROVE  \E m \in Mods : EndDayHeld(x, m, h)
  <2>1. PICK m \in Mods : EndsDay(x, m) /\ program[m] = "MFastSim"
    BY <1>3, AtEndDay
  <2>2. ASSUME Supplied PROVE mp[Close] = mClose /\ mp[Mid] = mMid
    <3>1. PICK j \in Mods : program[j] = "MPseudoTradePrep" /\ CloseDone(j, 0)
      BY <2>1, <2>2, ReaderSupplied
    <3>2. CloseDone(j, 1)
      <4>1. todo \in [Actors -> Seq(Requests)]
        BY DEF StateInv
      <4>2. \A y \in Actors : Len(todo[y]) \in Nat
        BY <4>1
      <4>. QED  BY <3>1, <4>2 DEF CloseDone
    <3>. QED  BY <3>1, <3>2 DEF CloseInv
  <2>. QED  BY <1>1, <1>3, <2>1, <2>2 DEF EndDayHeld
<1>. QED  BY <1>2, <1>3, GetStep

(* No access of a thread takes away what another one holds.                *)
LEMMA TickerHeldKept ==
    ASSUME Base, StoreInv, NEW y \in Actors, AccessOf(y), NEW i \in Threads, NEW h, TickerHeld(i, h)
    PROVE  TickerHeld(i, h)'
<1> USE DEF Base
<1>0. PICK op : Access(y, op)
  BY AccessHasOp
<1>1. program' = program /\ UNCHANGED vars
  BY <1>0, AccessStep
<1>2. TickersApart' <=> TickersApart
  BY <1>1, ApartKept DEF vars
<1>3. TickerOf(i)' = TickerOf(i) /\ thr' = thr
  BY <1>1 DEF TickerOf, vars
<1>4. InTicker(i) /\ TickerOf(i) \in Tickers0 /\ pc \in {"create", "join"}
  BY TickerPlace DEF InTicker, TickerOf, TickerHeld
<1>5. Pred \in Keys \ {Mid, Close} /\ Nbbo(TickerOf(i)) \in Keys \ {Mid, Close}
  BY <1>4, KeyFacts
<1>6. CASE /\ h.key = Nbbo(TickerOf(i)) /\ (TickersApart => h.addr = mp[h.key])
           /\ program[thr[i].mod] \in {"MMakeSampleMicro", "MPseudoTradePrep"}
  <2>1. ASSUME TickersApart, Add(y) \/ RemoveKey(y), Key(y) = Nbbo(TickerOf(i))
        PROVE  FALSE
    <3>1. PICK j \in Threads : /\ y = Ticker(j) /\ InTicker(j) /\ TickerOf(j) = TickerOf(i)
                               /\ program[thr[j].mod] = "MTickRead"
      BY <1>4, <2>1, AddsQuotes
    <3>2. j = i
      BY <1>4, <2>1, <3>1, OneThreadPerTicker
    <3>. QED  BY <1>6, <3>1, <3>2
  <2>2. TickersApart => mp'[Nbbo(TickerOf(i))] = mp[Nbbo(TickerOf(i))]
    BY <1>5, <2>1, EntryKept
  <2>. QED  BY <1>1, <1>2, <1>3, <1>6, <2>2 DEF TickerHeld
<1>7. CASE h.key = Pred /\ h.addr = mp[Pred]
  <2>1. ASSUME Add(y) \/ RemoveKey(y), Key(y) = Pred PROVE FALSE
    <3>1. \A t : Pred # Nbbo(t) \/ t \notin Tickers0
      BY KeyFacts
    <3>2. AtCall(y, "MMakePredIndex", "beginDay") \/ AtCall(y, "MMakePredIndex", "endDay")
      BY <2>1, <3>1, AddStep, RemoveKeyStep
    <3>3. AtCall(y, "MMakePredIndex", "beginDay") => pc = "beginDay"
      BY AtBeginDay
    <3>4. AtCall(y, "MMakePredIndex", "endDay") => pc \in {"endDay", "joinEndDay"}
      BY AtEndDay DEF EndsDay, ControlInv, EdayInv
    <3>. QED  BY <1>4, <3>2, <3>3, <3>4
  <2>2. mp'[Pred] = mp[Pred]
    BY <1>5, <2>1, EntryKept
  <2>. QED  BY <1>3, <1>7, <2>2 DEF TickerHeld
<1>. QED  BY <1>6, <1>7 DEF TickerHeld

LEMMA HeldAfterAccess ==
    ASSUME Base, StoreInv, CloseInv, HeldInv, NEW y \in Actors, AccessOf(y)
    PROVE  HeldInv'
<1> USE DEF Base
<1>0. PICK op : Access(y, op)
  BY AccessHasOp
<1>1. /\ Threads' = Threads /\ Mods' = Mods /\ Actors' = Actors /\ program' = program /\ UNCHANGED vars
  BY <1>0, AccessStep
<1>2. /\ \A x, m : EndsDay(x, m)' <=> EndsDay(x, m)
      /\ Supplied' <=> Supplied
  BY <1>1, PlacesKept, SuppliedKept DEF vars, setup
<1> SUFFICES ASSUME NEW x \in Actors, NEW h \in held'[x]
             PROVE  \/ \E i \in Threads : x = Ticker(i) /\ TickerHeld(i, h)'
                    \/ \E m \in Mods : EndDayHeld(x, m, h)'
  BY <1>1 DEF HeldInv
<1>3. \/ \E i \in Threads : x = Ticker(i) /\ TickerHeld(i, h)
      \/ \E m \in Mods : EndDayHeld(x, m, h)
  <2>1. CASE h \in held[x]
    BY <2>1 DEF HeldInv
  <2>2. CASE h \notin held[x]
    <3>1. held' # held
      BY <2>2
    <3>2. GetPointer(y)
      BY <3>1, AddStep, RemoveKeyStep, SkipStep, PublishAccess, ClearStep, FillStep, InsertStep DEF AccessOf
    <3>3. held' = [held EXCEPT ![y] = @ \cup {[key |-> Key(y), addr |-> mp[Key(y)]]}]
      BY <3>2, GetStep
    <3>4. held \in [Actors -> SUBSET Pointers]
      BY DEF StateInv
    <3>5. x = y /\ h = [key |-> Key(y), addr |-> mp[Key(y)]]
      BY <2>2, <3>3, <3>4
    <3>. QED  BY <3>2, <3>5, GotPointer
  <2>. QED  BY <2>1, <2>2
<1>4. \A i \in Threads : TickerHeld(i, h) => TickerHeld(i, h)'
  BY TickerHeldKept
<1>5. \A m \in Mods : EndDayHeld(x, m, h) => EndDayHeld(x, m, h)'
  BY <1>1, <1>2 DEF EndDayHeld
<1>. QED  BY <1>3, <1>4, <1>5

LEMMA HeldSchedule ==
    ASSUME Base, Base', HeldInv, Schedule
    PROVE  HeldInv'
<1> USE DEF Base
<1>1. /\ Next /\ Threads' = Threads /\ Mods' = Mods /\ Actors' = Actors /\ UNCHANGED <<mp, heap, program>>
      /\ UNCHANGED conf
  BY ScheduleStep, SetupKept DEF event
<1> SUFFICES ASSUME NEW x \in Actors, NEW h \in held'[x]
             PROVE  \/ \E i \in Threads : x = Ticker(i) /\ TickerHeld(i, h)'
                    \/ \E m \in Mods : EndDayHeld(x, m, h)'
  BY <1>1 DEF HeldInv
<1>2. h \in held[x] /\ Call(x)' = Call(x)
  <2>1. held'[x] # {}
    OBVIOUS
  <2>. QED  BY <2>1, ScheduleStep
<1>3. ASSUME NEW i \in Threads, x = Ticker(i), TickerHeld(i, h) PROVE TickerHeld(i, h)'
  <2>1. InTicker(i) /\ held'[Ticker(i)] # {}
    BY <1>3 DEF TickerHeld, InTicker
  <2>2. UNCHANGED <<env, setup>> /\ thr'[i] = thr[i]
    BY <2>1, TickerSchedule
  <2>3. TickersApart' <=> TickersApart
    BY <2>2, ApartKept DEF env, setup
  <2>. QED  BY <1>1, <1>3, <2>2, <2>3 DEF TickerHeld, TickerOf
<1>4. ASSUME NEW m \in Mods, EndDayHeld(x, m, h) PROVE EndDayHeld(x, m, h)'
  <2>1. EndsDay(x, m) /\ pc # "init"
    BY <1>4 DEF EndDayHeld, EndsDay, ControlInv, EdayInv
  <2>2. EndsDay(x, m)'
    <3>1. Call(x)' = <<"endDay", m, 0>>
      BY <1>2, <2>1, EndsDayCallsHold DEF EndsDayCalls
    <3>. QED  BY <1>1, <3>1, CallsEndDayNext DEF CallsEndDay
  <2>3. Supplied' <=> Supplied
    BY <1>1, <2>1, ModulesKept, SuppliedKept
  <2>. QED  BY <1>1, <1>4, <2>2, <2>3 DEF EndDayHeld
<1>. QED  BY <1>2, <1>3, <1>4 DEF HeldInv

LEMMA HeldStopped ==
    ASSUME HeldInv, UNCHANGED allVars
    PROVE  HeldInv'
<1>1. UNCHANGED vars /\ UNCHANGED <<mp, heap, program, held>>
  BY DEF allVars, event
<1>2. Threads' = Threads /\ Mods' = Mods /\ Actors' = Actors /\ UNCHANGED <<thr, conf, nTickers, modules>>
  BY <1>1, SetupKept DEF vars, setup
<1>3. (TickersApart' <=> TickersApart) /\ (Supplied' <=> Supplied)
  BY <1>1, <1>2, ApartKept, SuppliedKept
<1>4. \A x, m : EndsDay(x, m)' <=> EndsDay(x, m)
  BY <1>1, PlacesKept
<1>. QED  BY <1>1, <1>2, <1>3, <1>4 DEF HeldInv, TickerHeld, EndDayHeld, TickerOf

LEMMA HeldNext ==
    ASSUME Base, Base', StoreInv, CloseInv, HeldInv, [BlackboardNext]_allVars
    PROVE  HeldInv'
BY BlackboardSteps, HeldAfterAccess, HeldSchedule, HeldStopped

LEMMA NothingHeld ==
    ASSUME BlackboardInit
    PROVE  HeldInv /\ NbboThere
<1>1. held = [x \in Actors |-> {}] /\ thr = [i \in Threads |-> AtRest("none")]
  BY DEF BlackboardInit, Init
<1>2. HeldInv
  BY <1>1 DEF HeldInv
<1>3. NbboThere
  BY <1>1 DEF NbboThere, AtRest
<1>. QED  BY <1>2, <1>3

------------------------
(* The objects are what their readers take them for.                       *)

GoodInv == Base /\ StoreInv /\ PredInv /\ NbboThere /\ MidInv /\ CloseInv /\ HeldInv

(* In endDay, after MPseudoTradePrep's, both members are complete.         *)
LEMMA MembersComplete ==
    ASSUME Base, MidInv, CloseInv, Supplied, NEW x \in Actors, NEW m \in Mods,
           EndsDay(x, m), program[m] = "MFastSim"
    PROVE  /\ heap[mClose].data = {<<idate>>}
           /\ \A e \in heap[mMid].data : e[1] = idate
           /\ \A p \in 0 .. NLoop - 1 : SeriesOf(p) \in heap[mMid].data
<1>1. PICK j \in Mods : program[j] = "MPseudoTradePrep" /\ CloseDone(j, 0)
  BY ReaderSupplied
<1>2. CloseDone(j, 2)
  <2>1. todo \in [Actors -> Seq(Requests)]
    BY DEF Base, StateInv
  <2>2. \A y \in Actors : Len(todo[y]) \in Nat
    BY <2>1
  <2>. QED  BY <1>1, <2>2 DEF CloseDone
<1>3. DayBegun(j) /\ AfterLoop
  BY <1>1 DEF CloseDone, DayIsEnding, DayBegun, InDay, AfterLoop
<1>. QED  BY <1>1, <1>2, <1>3 DEF CloseInv, MidInv, DatedSeries, SeriesComplete

LEMMA PointersGood ==
    ASSUME GoodInv
    PROVE  HeldValid
<1> USE DEF GoodInv, Base
<1> SUFFICES ASSUME Supplied, TickersApart, NEW x \in Actors, NEW h \in held[x]
             PROVE  GoodPointer(h)
  BY DEF HeldValid
<1>1. /\ mp \in [Keys -> Addrs \cup {Null}]
      /\ \A key \in Keys : mp[key] # Null => heap[mp[key]].key = key
      /\ heap[mMid].key = Mid /\ heap[mClose].key = Close /\ mMid # Null /\ mClose # Null
  BY AddressFacts DEF StateInv, StoreInv, StoredLive
<1>2. ASSUME NEW i \in Threads, TickerHeld(i, h), h.key = Nbbo(TickerOf(i)), h.addr = mp[h.key],
             program[thr[i].mod] \in {"MMakeSampleMicro", "MPseudoTradePrep"}
      PROVE  GoodPointer(h)
  <2>1. InTicker(i) /\ thr[i].at = "beginTicker"
    BY <1>2 DEF TickerHeld, InTicker
  <2>2. thr[i].mod \in Mods /\ TickerOf(i) \in Tickers0
    BY <2>1, TickerPlace DEF TickerOf
  <2>3. PICK m \in Mods : m < thr[i].mod /\ program[m] = "MTickRead"
    BY <1>2, <2>2, QuotesSupplied
  <2>4. QuotesThere(i)
    BY <2>1, <2>3 DEF NbboThere
  <2>5. h.key \in Keys /\ h.key # Mid /\ h.addr # Null /\ heap[h.addr].data = {<<idate, market>>}
    BY <1>2, <2>2, <2>4, KeyFacts DEF QuotesThere
  <2>6. Contents(h.key) = {<<idate, market>>}
    <3>1. h.key[1] # 0
      BY <1>2, <2>2, KeyFacts DEF Nbbo
    <3>. QED  BY <3>1 DEF Contents
  <2>7. \A e \in heap[h.addr].data : e[1] = idate
    BY <2>5
  <2>. QED  BY <1>1, <1>2, <2>5, <2>6, <2>7 DEF GoodPointer, Expected
<1>3. ASSUME h.key = Pred, h.addr = mp[Pred] PROVE GoodPointer(h)
  <2>1. Pred \in Keys /\ Pred # Mid
    BY KeyFacts
  <2>2. Contents(Pred) = {<<idate>>}
    BY DEF Contents, Pred
  <2>3. mp[Pred] # Null => heap[mp[Pred]].data = {<<idate>>}
    BY DEF PredInv
  <2>4. mp[Pred] # Null => \A e \in heap[mp[Pred]].data : e[1] = idate
    BY <2>3
  <2>. QED  BY <1>1, <1>3, <2>1, <2>2, <2>3, <2>4 DEF GoodPointer, Expected
<1>4. ASSUME NEW m \in Mods, EndDayHeld(x, m, h) PROVE GoodPointer(h)
  <2>1. /\ heap[mClose].data = {<<idate>>}
        /\ \A e \in heap[mMid].data : e[1] = idate
        /\ \A p \in 0 .. NLoop - 1 : SeriesOf(p) \in heap[mMid].data
    BY <1>4, MembersComplete DEF EndDayHeld
  <2>2. CASE h.key = Mid
    <3>1. h.addr = mMid
      BY <1>4, <2>2 DEF EndDayHeld
    <3>2. ASSUME NEW p \in 1 .. NLoop PROVE <<idate, market, TickerAt[p]>> \in heap[mMid].data
      <4>1. NLoop \in Nat
        BY ConfFields DEF NLoop, ControlInv, TypeInv, TypeOK
      <4>2. p - 1 \in 0 .. NLoop - 1 /\ (p - 1) + 1 = p
        BY <4>1
      <4>3. SeriesOf(p - 1) \in heap[mMid].data
        BY <2>1, <4>2
      <4>. QED  BY <4>2, <4>3 DEF SeriesOf
    <3>3. Expected(h.key) \subseteq heap[mMid].data
      BY <2>2, <3>2 DEF Expected
    <3>. QED  BY <1>1, <2>1, <2>2, <3>1, <3>3 DEF GoodPointer
  <2>3. CASE h.key = Close
    <3>1. h.addr = mClose /\ h.key # Mid
      BY <1>4, <2>3, KeyFacts DEF EndDayHeld
    <3>2. Contents(Close) = {<<idate>>}
      BY DEF Contents, Close
    <3>3. \A e \in heap[mClose].data : e[1] = idate
      BY <2>1
    <3>. QED  BY <1>1, <2>1, <2>3, <3>1, <3>2, <3>3 DEF GoodPointer, Expected
  <2>. QED  BY <1>4, <2>2, <2>3 DEF EndDayHeld
<1>5. ASSUME NEW i \in Threads, TickerHeld(i, h) PROVE GoodPointer(h)
  BY <1>2, <1>3, <1>5 DEF TickerHeld
<1>. QED  BY <1>4, <1>5 DEF HeldInv

(***************************************************************************)
(* A pointer a callback got from MEvent stays good until it returns: for   *)
(* every list of modules that supplies what each one needs, every setting  *)
(* with a thread to run the tickers, and every list of tickers not split   *)
(* so that two threads hold the same one, no module's delete or overwrite  *)
(* reaches an object another callback is using, and none reads the data of *)
(* an earlier date or market.                                              *)
(***************************************************************************)
THEOREM PointersStayGood ==
    ASSUME \A c \in Confs : c.multiThreadTicker => c.nMaxThreadTicker > 0
    PROVE  BlackboardSpec => []HeldValid
<1> DEFINE Inv == MidInv /\ DayMarkets /\ CloseInv /\ HeldInv /\ NbboThere
<1>1. BlackboardInit => Inv
  BY MidInit, CloseInit, NothingHeld
<1>2. ASSUME Base, Base', StoreInv, Inv, [BlackboardNext]_allVars PROVE Inv'
  <2>1. ControlInv /\ [Next]_vars
    BY <1>2, SchedulerSteps DEF Base, allVars, vars
  <2>2. SomeThread
    BY <2>1 DEF SomeThread, ControlInv, TypeInv, TypeOK
  <2>3. MidInv' /\ DayMarkets'
    BY <1>2, <2>1, <2>2, MidNext, MarketsNext
  <2>4. CloseInv' /\ HeldInv' /\ NbboThere'
    BY <1>2, CloseNext, HeldNext, ThereNext
  <2>. QED  BY <2>3, <2>4
<1>3. BlackboardSpec => []Inv
  <2> HIDE DEF Inv
  <2>1. BlackboardSpec => [](Base /\ StoreInv /\ NbboInv /\ PredInv)
    BY EntriesHold
  <2>2. Base /\ StoreInv /\ Inv /\ Base' /\ [BlackboardNext]_allVars => Inv'
    BY <1>2
  <2>. QED  BY <1>1, <2>1, <2>2, PTL DEF BlackboardSpec
<1>4. Base /\ StoreInv /\ NbboInv /\ PredInv /\ Inv => HeldValid
  BY PointersGood DEF GoodInv
<1> HIDE DEF Inv
<1>. QED  BY <1>3, <1>4, EntriesHold, PTL

====
