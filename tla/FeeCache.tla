------------------------------ MODULE FeeCache ------------------------------
(***************************************************************************)
(* The tables of execution fees that ticker threads share (class GFee).    *)
(* getFees makes the table of a location under the mutex and reads the map *)
(* again after releasing it; the caller computes with what it read.  All   *)
(* callers of a job ask for MEnv's market or for MEnv's model, so all at a *)
(* time ask for one, and it changes only while the threads are joined.     *)
(* The insertion of a key and a search are steps that take time: a search  *)
(* that overlaps an insertion is a data race.                              *)
(***************************************************************************)
EXTENDS Sequences

CONSTANTS Threads,
          Markets,  \* the markets of the job, as sequences of letters
          Nobody

ASSUME FeeAssumption == Nobody \notin Threads

VARIABLES fees,   \* mfees_: "made" tables and "null" pointers, by location
          mutex,  \* mutex_: its owner
          market, \* MEnv's market, or its model
          at,     \* where a thread is in getFees and its caller
          got,    \* the pointer getFees returned
          up      \* the process has not been stopped by a null pointer

vars == <<fees, mutex, market, at, got, up>>

GetLoc(m) ==
    CASE m[1] = "U" -> "US"
      [] m[1] = "E" -> "EU"
      [] m[1] = "C" -> "CA"
      [] m[1] = "A" \/ SubSeq(m, 1, 2) = <<"K", "R">> -> "Asia"
      [] OTHER -> ""
Loc == GetLoc(market)

\* The locations for which getFees makes a table: the chain has no else.
Located == {"US", "CA", "EU", "Asia"}

Init ==
    /\ fees = [l \in {} |-> "null"] /\ mutex = Nobody
    /\ market \in Markets
    /\ at = [t \in Threads |-> "idle"]
    /\ got = [t \in Threads |-> "nothing"]
    /\ up = TRUE

\* The next market: no ticker thread is left.
NextMarket(m) ==
    /\ \A t \in Threads : at[t] = "idle"
    /\ market' = m
    /\ UNCHANGED <<fees, mutex, at, got>>

\* feeBpt or feeBptBidAsk is called.
Call(t) ==
    /\ at[t] = "idle"
    /\ at' = [at EXCEPT ![t] = "lock"]
    /\ UNCHANGED <<fees, mutex, market, got>>

\* Mutant: the map is asked before the mutex is taken.
LockMutant(t) ==
    \/ /\ at[t] = "lock" /\ Loc \in DOMAIN fees
       /\ at' = [at EXCEPT ![t] = "read"]
       /\ UNCHANGED <<fees, mutex, market, got>>
    \/ /\ at[t] = "lock" /\ Loc \notin DOMAIN fees /\ mutex = Nobody
       /\ mutex' = t /\ at' = [at EXCEPT ![t] = "count"]
       /\ UNCHANGED <<fees, market, got>>

Lock(t) ==
    /\ at[t] = "lock" /\ mutex = Nobody
    /\ mutex' = t
    /\ at' = [at EXCEPT ![t] = "count"]
    /\ UNCHANGED <<fees, market, got>>

\* Mutant: a thread that finds no table waits for another to make it.
CountWaitsMutant(t) ==
    /\ at[t] = "count"
    /\ IF Loc \in DOMAIN fees
       THEN at' = [at EXCEPT ![t] = "unlock"] /\ UNCHANGED mutex
       ELSE at' = [at EXCEPT ![t] = "lock"] /\ mutex' = Nobody
    /\ UNCHANGED <<fees, market, got>>

\* Mutant: the table is made again for every call.
CountMutant(t) ==
    /\ at[t] = "count"
    /\ at' = [at EXCEPT ![t] = "insert"]
    /\ UNCHANGED <<fees, mutex, market, got>>

Count(t) ==
    /\ at[t] = "count"
    /\ at' = [at EXCEPT ![t] = IF Loc \in DOMAIN fees THEN "unlock" ELSE "insert"]
    /\ UNCHANGED <<fees, mutex, market, got>>

\* The insertion by operator[] ends with a null pointer in the map.
Insert(t) ==
    /\ at[t] = "insert"
    /\ fees' = [l \in DOMAIN fees \cup {Loc} |-> IF l = Loc THEN "null" ELSE fees[l]]
    /\ at' = [at EXCEPT ![t] = "make"]
    /\ UNCHANGED <<mutex, market, got>>

\* InitFees of the location, if it is one of the four: otherwise the null
\* pointer stays.
Make(t) ==
    /\ at[t] = "make"
    /\ fees' = [fees EXCEPT ![Loc] = IF Loc \in Located THEN "made" ELSE "null"]
    /\ at' = [at EXCEPT ![t] = "unlock"]
    /\ UNCHANGED <<mutex, market, got>>

\* Mutant: the mutex is not released.
UnlockMutant(t) ==
    /\ at[t] = "unlock"
    /\ UNCHANGED mutex
    /\ at' = [at EXCEPT ![t] = "read"]
    /\ UNCHANGED <<fees, market, got>>

Unlock(t) ==
    /\ at[t] = "unlock"
    /\ mutex' = Nobody
    /\ at' = [at EXCEPT ![t] = "read"]
    /\ UNCHANGED <<fees, market, got>>

\* return mfees_[loc], without the mutex.
Read(t) ==
    /\ at[t] = "read"
    /\ got' = [got EXCEPT ![t] = IF Loc \in DOMAIN fees THEN fees[Loc] ELSE "null"]
    /\ at' = [at EXCEPT ![t] = "use"]
    /\ UNCHANGED <<fees, mutex, market>>

\* CalcNbboFees has computed with the table.
Use(t) ==
    /\ at[t] = "use"
    /\ at' = [at EXCEPT ![t] = "idle"]
    /\ UNCHANGED <<fees, mutex, market, got>>

\* CalcNbboFees was given a null pointer: it may stop the process.
UseNull(t) ==
    /\ at[t] = "use" /\ got[t] = "null"
    /\ up' = FALSE
    /\ UNCHANGED <<fees, mutex, market, at, got>>

Owning(t) == Count(t) \/ Insert(t) \/ Make(t) \/ Unlock(t)
Step(t) == Call(t) \/ Lock(t) \/ Owning(t) \/ Read(t) \/ Use(t)

Next ==
    \/ /\ up /\ up' = up
       /\ (\E t \in Threads : Step(t)) \/ (\E m \in Markets : NextMarket(m))
    \/ up /\ \E t \in Threads : UseNull(t)
    \/ ~ up /\ UNCHANGED vars

\* The threads run; a mutex that is free again and again is obtained.
Fairness == \A t \in Threads :
    /\ WF_vars(up /\ up' = up /\ (Owning(t) \/ Read(t) \/ Use(t)))
    /\ SF_vars(up /\ up' = up /\ Lock(t))

Spec == Init /\ [][Next]_vars /\ Fairness
-----------------------------------------------------------------------------
TypeOK ==
    /\ DOMAIN fees \subseteq {GetLoc(m) : m \in Markets}
    /\ \A l \in DOMAIN fees : fees[l] \in {"made", "null"}
    /\ mutex \in Threads \cup {Nobody} /\ market \in Markets /\ up \in BOOLEAN
    /\ at \in [Threads -> {"idle", "lock", "count", "insert", "make", "unlock", "read", "use"}]
    /\ got \in [Threads -> {"nothing", "made", "null"}]
    /\ \A t \in Threads : mutex = t <=> at[t] \in {"count", "insert", "make", "unlock"}

\* No thread searches the map while another inserts in it, though getFees
\* searches it without the mutex: every search comes after the insertion.
NoRacingSearch ==
    \A t, u \in Threads : t # u /\ at[t] \in {"count", "read"} => at[u] # "insert"

\* The null pointer that the map holds while a table is made never reaches a
\* caller: one is handed out for exactly the markets that have no table.
TableReady ==
    \A t \in Threads : at[t] = "use" => got[t] = IF Loc \in Located THEN "made" ELSE "null"

\* A table that was handed out is never made again under its readers.
MadeOnce == [][\A l \in DOMAIN fees : fees[l] = "made" => l \in DOMAIN fees' /\ fees'[l] = "made"]_vars

\* Every call gets its pointer, as long as none has stopped the process: no
\* path through getFees keeps the mutex.
CallReturns == \A t \in Threads : at[t] = "lock" ~> at[t] = "use" \/ ~ up
=============================================================================
