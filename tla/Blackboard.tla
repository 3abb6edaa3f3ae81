------------------------------- MODULE Blackboard ------------------------------
(***************************************************************************)
(* The scheduler of MCore together with modules that hand each other       *)
(* objects through MEvent.  MCore decides which callback each thread is    *)
(* in; here a callback is the sequence of its accesses to MEvent and to    *)
(* the module's own shared objects, one step each, and a thread leaves the *)
(* callback when it has done them all.  The modules:                       *)
(*   MTickRead         a ticker's quotes, from beginTicker to endTicker    *)
(*   MMakePredIndex    a prediction of the day, from beginDay to endDay    *)
(*   MMakeSampleMicro  uses quotes and prediction in beginTicker           *)
(*   MPseudoTradePrep  collects a series per ticker of the day in mMid_,   *)
(*                     reads mClose_ in endDay, and publishes both there   *)
(*   MFastSim          uses mMid_ and mClose_ in endDay                    *)
(***************************************************************************)
EXTENDS MCore, MEvent

CONSTANTS
    Programs,  (* sequences of modules a configuration may list            *)
    TickerAt,  (* the ticker at each position of MEnv's sorted list        *)
    mMid, mClose   (* the addresses of MPseudoTradePrep's members          *)

ASSUME MembersAssumption == Members = {mMid, mClose} /\ mMid # mClose

ModuleNames == {"MTickRead", "MMakePredIndex", "MMakeSampleMicro", "MPseudoTradePrep", "MFastSim"}

(* mMid_ and mClose_ are the members of one MPseudoTradePrep.              *)
ASSUME ProgramsAssumption ==
    \A p \in Programs :
        /\ p \in Seq(ModuleNames)
        /\ \A i, j \in DOMAIN p : p[i] = "MPseudoTradePrep" /\ p[j] = "MPseudoTradePrep" => i = j

(* Ticker names are numbers; 0 is the empty name.                          *)
ASSUME TickerAtAssumption ==
    /\ TickerAt \in Seq(Nat \ {0})
    /\ MaxTickers <= Len(TickerAt) /\ \A c \in Confs : c.nTickersDebug <= Len(TickerAt)

VARIABLES
    program,   (* the module at each position of the configuration         *)
    todo,      (* the accesses the callback each thread is in has yet to do *)
    held       (* the pointers its local variables hold                    *)

allVars == <<vars, event, program, todo, held>>

--------------------------------------------------------------------------------
(* Threads, and the callback each one is in.                               *)

Actors == {<<"main", 0>>} \cup ({"ticker"} \X Threads) \cup ({"endDay"} \X Mods)

NoCall == <<"none", 0, 0>>

BeginsAndEnds == {"beginJob", "beginMarket", "beginDay", "beginMarketDay",
                  "endMarketDay", "endDay", "endMarket", "endJob"}

(* The callback, the module and the ticker; 0 is the empty ticker name.    *)
Call(x) ==
    CASE x[1] = "main" ->
           IF pc \in BeginsAndEnds /\ (pc = "endDay" => Alone(k)) THEN <<pc, k, 0>> ELSE NoCall
      [] x[1] = "ticker" ->
           LET th == thr[x[2]]
           IN  IF th.at \in {"beginTicker", "endTicker"}
               THEN <<th.at, th.mod, TickerAt[th.tk + 1]>> ELSE NoCall
      [] x[1] = "endDay" ->
           IF eday[x[2]] = "endDay" THEN <<"endDay", x[2], 0>> ELSE NoCall

--------------------------------------------------------------------------------
(* What the callbacks do.                                                  *)

Do(op, key, addr) == [op |-> op, key |-> key, addr |-> addr]

Pred  == <<0, "pred">>
Mid   == <<0, "mMid">>
Close == <<0, "mClose">>
Nbbo(t) == <<t, "nbbo">>

ASSUME KeysAssumption == Keys = {Pred, Mid, Close} \cup {Nbbo(TickerAt[p]) : p \in DOMAIN TickerAt}

TickReadAccesses(callback, t) ==
    CASE callback = "beginTicker" -> <<Do("add", Nbbo(t), Null)>>
      [] callback = "endTicker"   -> <<Do("remove", Nbbo(t), Null)>>
      [] OTHER                    -> <<>>

PredIndexAccesses(callback) ==
    CASE callback = "beginDay" -> <<Do("add", Pred, Null)>>
      [] callback = "endDay"   -> <<Do("remove", Pred, Null)>>
      [] OTHER                 -> <<>>

(* Of a ticker that passes the filters: beginTicker reads its quotes,      *)
(* without a test for null, to sample their events, and get_prediction     *)
(* reads title_pred of an index filter, with one.                          *)
QuotesGet(t) == Do("get", Nbbo(t), Null)
PredictionGet == Do("get", Pred, Null)
SampleMicroAccesses(callback, t) ==
    IF callback = "beginTicker" THEN <<QuotesGet(t), PredictionGet>> ELSE <<>>

(* Mutant: beginDay keeps the series of the day before.                    *)
TradePrepAccessesMutant(callback, t) ==
    CASE callback = "beginTicker" -> <<Do("get", Nbbo(t), Null), Do("insert", Nbbo(t), mMid)>>
      [] callback = "endDay"      -> <<Do("clear", Close, mClose), Do("fill", Close, mClose),
                                       Do("publish", Close, mClose), Do("publish", Mid, mMid)>>
      [] OTHER                    -> <<>>

TradePrepAccesses(callback, t) ==
    CASE callback = "beginDay"    -> <<Do("clear", Mid, mMid)>>
      [] callback = "beginTicker" -> <<Do("get", Nbbo(t), Null), Do("insert", Nbbo(t), mMid)>>
      [] callback = "endDay"      -> <<Do("clear", Close, mClose), Do("fill", Close, mClose),
                                       Do("publish", Close, mClose), Do("publish", Mid, mMid)>>
      [] OTHER                    -> <<>>

FastSimAccesses(callback) ==
    IF callback = "endDay" THEN <<Do("get", Close, Null), Do("get", Mid, Null)>> ELSE <<>>

Accesses(module, callback, t) ==
    CASE module = "MTickRead"        -> TickReadAccesses(callback, t)
      [] module = "MMakePredIndex"   -> PredIndexAccesses(callback)
      [] module = "MMakeSampleMicro" -> SampleMicroAccesses(callback, t)
      [] module = "MPseudoTradePrep" -> TradePrepAccesses(callback, t)
      [] module = "MFastSim"         -> FastSimAccesses(callback)

AccessesOf(call) ==
    IF call = NoCall THEN <<>> ELSE Accesses(program[call[2]], call[1], call[3])

(* The contents of an object made now: the date, and what it is about.     *)
Contents(key) == IF key[1] = 0 THEN {<<idate>>} ELSE {<<idate, market>>}

BlackboardInit ==
    /\ Init
    /\ program \in {p \in Programs : Len(p) = NModules}
    /\ mp = [key \in Keys |-> Null]
    /\ heap = [a \in Addrs |-> CASE a = mMid   -> [key |-> Mid, data |-> {}]
                                 [] a = mClose -> [key |-> Close, data |-> {}]
                                 [] OTHER      -> Free]
    /\ todo = [x \in Actors |-> <<>>]
    /\ held = [x \in Actors |-> {}]

(* The scheduler takes threads out of callbacks that have returned and     *)
(* into new ones.                                                          *)
Schedule ==
    /\ Next
    /\ \A x \in Actors : Call(x)' # Call(x) => todo[x] = <<>>
    /\ todo' = [x \in Actors |-> IF Call(x)' = Call(x) THEN todo[x] ELSE AccessesOf(Call(x)')]
    /\ held' = [x \in Actors |-> IF Call(x)' = Call(x) THEN held[x] ELSE {}]
    /\ UNCHANGED <<event, program>>

(* The next access of x's callback.                                        *)
Access(x, op) ==
    /\ todo[x] # <<>> /\ Head(todo[x]).op = op
    /\ todo' = [todo EXCEPT ![x] = Tail(@)]
    /\ UNCHANGED <<vars, program>>

Key(x)  == Head(todo[x]).key
Addr(x) == Head(todo[x]).addr

SetData(a, data) == heap' = [heap EXCEPT ![a].data = data]

Add(x) == Access(x, "add") /\ AddCopy(Key(x), Contents(Key(x))) /\ UNCHANGED held
RemoveKey(x) == Access(x, "remove") /\ Remove(Key(x)) /\ UNCHANGED held
(* Some filter of the day has no file: no prediction is made.              *)
Skip(x) == Access(x, "add") /\ Key(x) = Pred /\ UNCHANGED <<event, held>>
Publish(x) == Access(x, "publish") /\ AddPointer(Key(x), Addr(x)) /\ UNCHANGED held

GetPointer(x) ==
    /\ Access(x, "get")
    /\ held' = [held EXCEPT ![x] = @ \cup {[key |-> Key(x), addr |-> Get(Key(x))]}]
    /\ UNCHANGED event

(* MPseudoTradePrep's members are cleared and filled in place, the entries *)
(* of mMid_ under priv_mutex_.                                             *)
Clear(x)   == Access(x, "clear") /\ SetData(Addr(x), {}) /\ UNCHANGED <<mp, held>>
Fill(x)    == Access(x, "fill") /\ SetData(Addr(x), Contents(Key(x))) /\ UNCHANGED <<mp, held>>
InsertMid(x) ==
    /\ Access(x, "insert")
    /\ SetData(mMid, heap[mMid].data \cup {<<idate, market, Key(x)[1]>>})
    /\ UNCHANGED <<mp, held>>

BlackboardNext ==
    \/ Schedule
    \/ \E x \in Actors : \/ Add(x) \/ Skip(x) \/ RemoveKey(x) \/ Publish(x)
                         \/ GetPointer(x) \/ Clear(x) \/ Fill(x) \/ InsertMid(x)

BlackboardSpec == BlackboardInit /\ [][BlackboardNext]_allVars

--------------------------------------------------------------------------------
(* What a configuration must respect for the exchange to work.             *)

Supplies == [ MTickRead |-> {"nbbo"}, MMakePredIndex |-> {"pred"}, MMakeSampleMicro |-> {},
              MPseudoTradePrep |-> {"mMid", "mClose"}, MFastSim |-> {} ]
Needs    == [ MTickRead |-> {}, MMakePredIndex |-> {}, MMakeSampleMicro |-> {"nbbo"},
              MPseudoTradePrep |-> {"nbbo"}, MFastSim |-> {"mMid", "mClose"} ]

(* Every module is configured after one that supplies what it needs and,   *)
(* if endDay hands it over, not in the same execution group.               *)
Supplied ==
    \A m \in Mods : \A desc \in Needs[program[m]] :
        \E j \in 1 .. m - 1 :
            /\ desc \in Supplies[program[j]]
            /\ desc # "nbbo" => ~ conf.multiThreadModule \/ modules[j].ord # modules[m].ord

(* No ticker is listed both in one thread's slice and in another's.        *)
TickersApart ==
    \A i, j \in Threads :
        LET T == conf.nMaxThreadTicker
            c == TickerEachThread(NLoop, T)
        IN  i # j => \A p \in Slice(NLoop, T, c, i), q \in Slice(NLoop, T, c, j) :
                         TickerAt[p + 1] # TickerAt[q + 1]

(* A pointer's object is what its reader takes it for: of its key, of the  *)
(* current date and market, complete.                                      *)
Expected(key) ==
    IF key = Mid THEN {<<idate, market, TickerAt[p]>> : p \in 1 .. NLoop} ELSE Contents(key)

GoodPointer(h) ==
    /\ h.addr = Null => h.key = Pred
    /\ h.addr # Null =>
         /\ heap[h.addr].key = h.key
         /\ Expected(h.key) \subseteq heap[h.addr].data
         /\ \A e \in heap[h.addr].data : e[1] = idate

(***************************************************************************)
(* A pointer that a callback got from MEvent stays good until the callback *)
(* returns: it is not null (but for the prediction, which its reader       *)
(* tests), its object is not deleted or replaced under it, and it holds    *)
(* the data of the current date and market, never of an earlier one.       *)
(***************************************************************************)
HeldValid ==
    pc \notin {"init", "exit"} /\ Supplied /\ TickersApart =>
        \A x \in Actors : \A h \in held[x] : GoodPointer(h)

(***************************************************************************)
(* Whatever the order of the modules, an entry never points to a deleted   *)
(* object or to one of another key: no delete in add or remove is the      *)
(* second one of its object.                                               *)
(***************************************************************************)
StoredLive ==
    \A key \in Keys : mp[key] # Null => heap[mp[key]].key = key

(***************************************************************************)
(* Copies do not accumulate: after the ticker loop no copy made for a      *)
(* ticker is left, and after the last date none at all, even if threads    *)
(* share a ticker or two modules store the same description.               *)
(***************************************************************************)
NothingLeft ==
    /\ pc \in {"endMarketDay", "endDay", "joinEndDay", "endMarket"} =>
           \A a \in Copies : heap[a] = Free \/ heap[a].key = Pred
    /\ pc \in {"endJob", "end"} => \A a \in Copies : heap[a] = Free

================================================================================
