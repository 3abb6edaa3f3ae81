--------------------------- MODULE FeeCacheProofs ---------------------------
(***************************************************************************)
(* getFees for any number of threads, markets and calls.  Reading the map  *)
(* after the mutex is released is safe because of what the mutex has       *)
(* settled by then: an entry that is not what it will be has a thread at   *)
(* work on it, which holds the mutex, so a thread that has found an entry, *)
(* or made one, leaves a finished one behind; and a finished one stays.    *)
(***************************************************************************)
EXTENDS FeeCache, TLAPS

Locked == {"count", "insert", "make", "unlock"}

\* What the entry of a location will be, and that it is.
Table(l) == IF l \in Located THEN "made" ELSE "null"
Ended(l) == l \in DOMAIN fees /\ fees[l] = Table(l)

\* An entry that is not finished is in the hands of a thread in InitFees.
NullInMake ==
    \A l \in DOMAIN fees : fees[l] # Table(l) =>
        fees[l] = "null" /\ l = Loc /\ \E t \in Threads : at[t] = "make"

\* What the map holds of the location a thread asks for.
Settled(t) ==
    /\ at[t] = "insert" => Loc \notin DOMAIN fees
    /\ at[t] = "make" => Loc \in DOMAIN fees
    /\ at[t] \in {"unlock", "read"} => Ended(Loc)
    /\ at[t] = "use" => got[t] = Table(Loc)

IInv == TypeOK /\ NullInMake /\ \A t \in Threads : Settled(t)

LEMMA InitIInv == Init => IInv
BY FeeAssumption DEF Init, IInv, TypeOK, NullInMake, Settled, Ended

\* A step of a thread that changes neither the map nor the market nor a
\* pointer or the stage of another disturbs nothing the others rely on.
LEMMA OthersSettled ==
    ASSUME IInv, NEW t \in Threads, UNCHANGED <<fees, market, got>>,
           \A u \in Threads \ {t} : at'[u] = at[u]
    PROVE  \A u \in Threads \ {t} : Settled(u)'
BY DEF IInv, Settled, Ended, Table, Loc

\* With the map unchanged, a thread that is not in InitFees hides no entry.
LEMMA StillInMake ==
    ASSUME IInv, NEW t \in Threads, at[t] # "make", UNCHANGED <<fees, market>>,
           \A u \in Threads \ {t} : at'[u] = at[u]
    PROVE  NullInMake'
<1>1. SUFFICES ASSUME NEW l \in DOMAIN fees, fees[l] # Table(l)
               PROVE  fees[l] = "null" /\ l = Loc /\ \E u \in Threads : at'[u] = "make"
  BY DEF NullInMake, Table, Loc
<1>2. PICK u \in Threads : at[u] = "make"
  BY <1>1 DEF IInv, NullInMake
<1>3. QED  BY <1>1, <1>2 DEF IInv, NullInMake

LEMMA NextIInv == IInv /\ [Next]_vars => IInv'
<1>1. SUFFICES ASSUME IInv, [Next]_vars PROVE IInv'
  OBVIOUS
<1>2. ASSUME NEW m \in Markets, NextMarket(m), up' = up PROVE IInv'
  <2>1. TypeOK'
    BY <1>1, <1>2 DEF IInv, TypeOK, NextMarket
  <2>2. \A l \in DOMAIN fees : fees[l] = Table(l)
    BY <1>1, <1>2 DEF IInv, NullInMake, NextMarket
  <2>3. NullInMake' /\ \A t \in Threads : Settled(t)'
    BY <1>2, <2>2 DEF NullInMake, Settled, Table, NextMarket
  <2>4. QED  BY <2>1, <2>3 DEF IInv
<1>call. ASSUME NEW t \in Threads, Call(t), up' = up PROVE IInv'
  <2>1. TypeOK'
    BY <1>1, <1>call DEF IInv, TypeOK, Call
  <2>2. Settled(t)'
    BY <1>1, <1>call DEF IInv, TypeOK, Settled, Call
  <2>3. at[t] # "make" /\ UNCHANGED <<fees, market, got>> /\ \A u \in Threads \ {t} : at'[u] = at[u]
    BY <1>1, <1>call DEF IInv, TypeOK, Call
  <2>4. QED  BY <1>1, <2>1, <2>2, <2>3, OthersSettled, StillInMake DEF IInv
<1>3. ASSUME NEW t \in Threads, Lock(t), up' = up PROVE IInv'
  <2>1. TypeOK'
    BY <1>1, <1>3, FeeAssumption DEF IInv, TypeOK, Lock
  <2>2. Settled(t)'
    BY <1>1, <1>3 DEF IInv, TypeOK, Settled, Ended, Table, Loc, Lock
  <2>3. at[t] # "make" /\ UNCHANGED <<fees, market, got>> /\ \A u \in Threads \ {t} : at'[u] = at[u]
    BY <1>1, <1>3 DEF IInv, TypeOK, Lock
  <2>4. QED  BY <1>1, <2>1, <2>2, <2>3, OthersSettled, StillInMake DEF IInv
<1>4. ASSUME NEW t \in Threads, Count(t), up' = up PROVE IInv'
  <2>1. TypeOK'
    BY <1>1, <1>4 DEF IInv, TypeOK, Count
  <2>2. Loc \in DOMAIN fees => Ended(Loc)
    \* A thread in InitFees would own the mutex, which t owns.
    BY <1>1, <1>4 DEF IInv, TypeOK, Locked, NullInMake, Ended, Count
  <2>3. Settled(t)'
    BY <1>1, <1>4, <2>2 DEF IInv, TypeOK, Settled, Ended, Table, Loc, Count
  <2>4. at[t] # "make" /\ UNCHANGED <<fees, market, got>> /\ \A u \in Threads \ {t} : at'[u] = at[u]
    BY <1>1, <1>4 DEF IInv, TypeOK, Count
  <2>5. QED  BY <1>1, <2>1, <2>3, <2>4, OthersSettled, StillInMake DEF IInv
<1>5. ASSUME NEW t \in Threads, Insert(t), up' = up PROVE IInv'
  <2>1. TypeOK'
    BY <1>1, <1>5 DEF IInv, TypeOK, Locked, Insert, Loc
  <2>2. /\ UNCHANGED <<market, got>> /\ at' = [at EXCEPT ![t] = "make"] /\ at[t] = "insert"
        /\ \A u \in Threads \ {t} : at[u] \notin Locked
        /\ Loc' = Loc /\ Loc \notin DOMAIN fees
    BY <1>1, <1>5 DEF IInv, TypeOK, Locked, Settled, Insert, Loc
  <2>3. /\ DOMAIN fees' = DOMAIN fees \cup {Loc} /\ fees'[Loc] = "null"
        /\ \A l \in DOMAIN fees : fees'[l] = fees[l]
    BY <1>5, <2>2 DEF Insert
  <2>4. NullInMake'
    \* The entries that were there are finished: t owned the mutex.
    <3>1. \A l \in DOMAIN fees : fees[l] = Table(l)
      BY <1>1, <2>2 DEF IInv, NullInMake, Locked
    <3>2. at'[t] = "make"
      BY <1>1, <2>2 DEF IInv, TypeOK
    <3>3. QED  BY <2>2, <2>3, <3>1, <3>2 DEF NullInMake, Table
  <2>5. \A u \in Threads : Settled(u)'
    BY <1>1, <2>2, <2>3 DEF IInv, TypeOK, Settled, Ended, Table, Locked
  <2>6. QED  BY <2>1, <2>4, <2>5 DEF IInv
<1>6. ASSUME NEW t \in Threads, Make(t), up' = up PROVE IInv'
  <2>1. TypeOK'
    BY <1>1, <1>6 DEF IInv, TypeOK, Locked, Make
  <2>2. /\ UNCHANGED <<market, got>> /\ at' = [at EXCEPT ![t] = "unlock"] /\ at[t] = "make"
        /\ \A u \in Threads \ {t} : at[u] \notin Locked
        /\ Loc' = Loc /\ Loc \in DOMAIN fees
    BY <1>1, <1>6 DEF IInv, TypeOK, Locked, Settled, Make, Loc
  <2>3. /\ DOMAIN fees' = DOMAIN fees /\ fees'[Loc] = Table(Loc)
        /\ \A l \in DOMAIN fees : l # Loc => fees'[l] = fees[l]
    BY <1>6, <2>2 DEF Make, Table
  <2>4. NullInMake'
    BY <1>1, <2>2, <2>3 DEF IInv, NullInMake, Table
  <2>5. \A u \in Threads : Settled(u)'
    BY <1>1, <2>2, <2>3 DEF IInv, TypeOK, Settled, Ended, Table, Locked
  <2>6. QED  BY <2>1, <2>4, <2>5 DEF IInv
<1>7. ASSUME NEW t \in Threads, Unlock(t), up' = up PROVE IInv'
  <2>1. TypeOK'
    BY <1>1, <1>7, FeeAssumption DEF IInv, TypeOK, Unlock
  <2>2. Settled(t)'
    BY <1>1, <1>7 DEF IInv, TypeOK, Settled, Ended, Table, Loc, Unlock
  <2>3. at[t] # "make" /\ UNCHANGED <<fees, market, got>> /\ \A u \in Threads \ {t} : at'[u] = at[u]
    BY <1>1, <1>7 DEF IInv, TypeOK, Unlock
  <2>4. QED  BY <1>1, <2>1, <2>2, <2>3, OthersSettled, StillInMake DEF IInv
<1>8. ASSUME NEW t \in Threads, Read(t), up' = up PROVE IInv'
  <2>1. Ended(Loc) /\ got' = [got EXCEPT ![t] = Table(Loc)]
    BY <1>1, <1>8 DEF IInv, Settled, Ended, Table, Loc, Read
  <2>2. TypeOK'
    BY <1>1, <1>8, <2>1 DEF IInv, TypeOK, Locked, Read
  <2>3. \A u \in Threads : Settled(u)'
    BY <1>1, <1>8, <2>1 DEF IInv, TypeOK, Settled, Ended, Table, Loc, Read
  <2>4. at[t] # "make" /\ UNCHANGED <<fees, market>> /\ \A u \in Threads \ {t} : at'[u] = at[u]
    BY <1>1, <1>8 DEF IInv, TypeOK, Read
  <2>5. QED  BY <1>1, <2>2, <2>3, <2>4, StillInMake DEF IInv
<1>9. ASSUME NEW t \in Threads, Use(t), up' = up PROVE IInv'
  <2>1. TypeOK'
    BY <1>1, <1>9 DEF IInv, TypeOK, Locked, Use
  <2>2. Settled(t)'
    BY <1>1, <1>9 DEF IInv, TypeOK, Settled, Ended, Table, Loc, Use
  <2>3. at[t] # "make" /\ UNCHANGED <<fees, market, got>> /\ \A u \in Threads \ {t} : at'[u] = at[u]
    BY <1>1, <1>9 DEF IInv, TypeOK, Use
  <2>4. QED  BY <1>1, <2>1, <2>2, <2>3, OthersSettled, StillInMake DEF IInv
<1>null. ASSUME NEW t \in Threads, UseNull(t) PROVE IInv'
  BY <1>1, <1>null DEF UseNull, IInv, TypeOK, NullInMake, Settled, Ended, Table, Loc
<1>10. CASE UNCHANGED vars
  BY <1>1, <1>10 DEF vars, IInv, TypeOK, NullInMake, Settled, Ended, Table, Loc
<1>11. QED
  BY <1>1, <1>2, <1>call, <1>3, <1>4, <1>5, <1>6, <1>7, <1>8, <1>9, <1>null, <1>10
     DEF Next, Step, Owning

LEMMA FeesInvariant == Spec => []IInv
BY InitIInv, NextIInv, PTL DEF Spec

\* Type correctness, with the mutex: it is owned by exactly the thread that
\* is between lock() and unlock() in getFees.
THEOREM FeesTypeCorrect == Spec => []TypeOK
BY FeesInvariant, PTL DEF IInv

(***************************************************************************)
(* Whatever the threads and the markets, a caller is never handed the null *)
(* pointer that the map holds while InitFees works: it computes with a     *)
(* finished table, unless getLoc has no location for the market, and then  *)
(* with the null pointer that stays.  A search of the map is one step      *)
(* here; the next theorem is why it may be.                                *)
(***************************************************************************)
THEOREM CallersGetTables == Spec => []TableReady
<1>1. IInv => TableReady
  BY DEF IInv, Settled, Table, TableReady
<1>2. QED  BY <1>1, FeesInvariant, PTL

(***************************************************************************)
(* No search of the map meets an insertion, although the search that       *)
(* returns the pointer is made without the mutex: it comes after the only  *)
(* insertion that is made for the market of all the threads.               *)
(***************************************************************************)
THEOREM SearchesDoNotRace == Spec => []NoRacingSearch
<1>1. IInv => NoRacingSearch
  <2>1. SUFFICES ASSUME IInv, NEW t \in Threads, NEW u \in Threads, t # u,
                        at[t] \in {"count", "read"}, at[u] = "insert"
                 PROVE  FALSE
    BY DEF NoRacingSearch
  <2>2. CASE at[t] = "count"
    BY <2>1, <2>2 DEF IInv, TypeOK, Locked
  <2>3. CASE at[t] = "read"
    BY <2>1, <2>3 DEF IInv, Settled, Ended
  <2>4. QED  BY <2>1, <2>2, <2>3
<1>2. QED  BY <1>1, FeesInvariant, PTL

(***************************************************************************)
(* A table that was made is never made again, nor its entry set to null:   *)
(* the pointers that getFees handed out stay the pointers of the map.      *)
(***************************************************************************)
THEOREM TablesStay == Spec => MadeOnce
<1>1. IInv /\ [Next]_vars =>
        [\A l \in DOMAIN fees : fees[l] = "made" => l \in DOMAIN fees' /\ fees'[l] = "made"]_vars
  <2>1. SUFFICES ASSUME IInv, [Next]_vars, NEW l \in DOMAIN fees, fees[l] = "made"
                 PROVE  l \in DOMAIN fees' /\ fees'[l] = "made"
    OBVIOUS
  <2>2. ASSUME NEW t \in Threads, Insert(t) PROVE l \in DOMAIN fees' /\ fees'[l] = "made"
    BY <2>1, <2>2 DEF IInv, Settled, Insert
  <2>3. ASSUME NEW t \in Threads, Make(t) PROVE l \in DOMAIN fees' /\ fees'[l] = "made"
    \* An entry that is not its table is null.
    <3>1. fees[l] = Table(l)
      BY <2>1 DEF IInv, NullInMake
    <3>2. QED  BY <2>1, <2>3, <3>1 DEF Make, Table
  <2>4. CASE UNCHANGED fees
    BY <2>1, <2>4
  <2>5. QED
    BY <2>1, <2>2, <2>3, <2>4
       DEF Next, Step, Owning, NextMarket, Call, Lock, Count, Unlock, Read, Use, UseNull, vars
<1>2. QED  BY <1>1, FeesInvariant, PTL DEF Spec, MadeOnce
=============================================================================
