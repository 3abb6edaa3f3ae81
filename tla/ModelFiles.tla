----------------------------- MODULE ModelFiles -----------------------------
(***************************************************************************)
(* The files of the boosted trees between the jobs that fit them and the   *)
(* jobs that predict with them: MFitter, BoostedDecisionTree::writeModel,  *)
(* DTreadModel and PredFromBoostedTree.  A model is named by its udate and *)
(* fitted on earlier dates; jobs are processes of their own, which share   *)
(* the directories coef and preds, start at any time and may be killed.    *)
(*                                                                         *)
(* A model file is a header and NTrees trees; each tree is two lines here, *)
(* so that a file may end within a tree.  Dates are 1, 2, ...; udate 0     *)
(* asks for the model of each date.                                        *)
(***************************************************************************)
EXTENDS Integers, TLC

CONSTANTS Procs, MaxDate, Udates, NTrees,
          MaxJobs        \* bound: how many jobs are started

Dates == 1..MaxDate
WholeFile == 2 * NTrees

ASSUME ModelFilesAssumption ==
    /\ MaxDate \in Nat /\ Udates \subseteq Dates /\ 0 \notin Udates
    /\ NTrees \in Nat \ {0} /\ MaxJobs \in Nat

VARIABLES coef,   \* the model files: lines written (-1: no file), last date fitted on
          preds,  \* preds[u][d]: the last date the models were fitted on whose rows
                  \* stat_<u>/preds/pred<d>.txt has, or 0: no file, or no row
          job,    \* what each process does
          jobs    \* how many jobs have been started

vars == <<coef, preds, job, jobs>>

NoFile == [lines |-> -1, last |-> 0]
Files == [lines : -1..WholeFile, last : 0..MaxDate]

\* listing: the model dates the job has found; toRead: those still to be read;
\* lines: what it has of the first of them; read: mUdateFitter_.
NoLines == [lines |-> 0, last |-> 0]
NoJob == [pc |-> "none", udate |-> 0, from |-> 0, to |-> 0,
          listing |-> {}, toRead |-> {}, lines |-> NoLines, read |-> <<>>]

Init ==
    /\ coef = [u \in Udates |-> NoFile]
    /\ preds = [u \in Udates |-> [d \in Dates |-> 0]]
    /\ job = [p \in Procs |-> NoJob] /\ jobs = 0

Later(d, e) == IF d < e THEN e ELSE d
IsFirst(x, S) == x \in S /\ \A y \in S : x <= y

(***************************************************************************)
(* Which models a job uses.                                                *)
(***************************************************************************)
GetModelDates == {u \in Udates : coef[u].lines >= 0}

\* The greatest of S that is at most d, or 0.
IsRecent(u, S, d) == u <= d /\ \A v \in S : v <= d => v <= u
Recent(S, d) ==
    IF \E u \in S : IsRecent(u, S, d) THEN CHOOSE u \in S : IsRecent(u, S, d) ELSE 0
GetMinModelDate(modelDates, minFitDate) == Recent(modelDates, minFitDate)

GetUsedModelDatesMutant(modelDates, from, to) ==
    {u \in modelDates : u > GetMinModelDate(modelDates, from) /\ u <= to}
GetUsedModelDates(modelDates, from, to) ==
    {u \in modelDates : u >= GetMinModelDate(modelDates, from) /\ u <= to}

GetModelDate(j, d) ==
    IF j.udate > 0 THEN j.udate ELSE Recent(DOMAIN j.read, d)

(***************************************************************************)
(* A job starts.  Its samples are of the dates from..to; MFitter fits when *)
(* all of them are before udate, and predicts when none is.                *)
(***************************************************************************)
Writing(u) == \E p \in Procs : job[p].pc \in {"fit", "write"} /\ job[p].udate = u

StartFitMutant(p, u, from, to) ==
    /\ job[p] = NoJob /\ jobs < MaxJobs /\ jobs' = jobs + 1
    /\ u > 0 /\ from < u
    /\ ~Writing(u)
    /\ job' = [job EXCEPT ![p] = [NoJob EXCEPT !.pc = "fit", !.udate = u, !.from = from, !.to = to]]
    /\ UNCHANGED <<coef, preds>>
StartFit(p, u, from, to) ==
    /\ job[p] = NoJob /\ jobs < MaxJobs /\ jobs' = jobs + 1
    /\ u > 0 /\ to < u
    /\ ~Writing(u)   \* assumed: a model is fitted by one job at a time
    /\ job' = [job EXCEPT ![p] = [NoJob EXCEPT !.pc = "fit", !.udate = u, !.from = from, !.to = to]]
    /\ UNCHANGED <<coef, preds>>

StartPred(p, u, from, to) ==
    /\ job[p] = NoJob /\ jobs < MaxJobs /\ jobs' = jobs + 1
    /\ from >= u
    /\ LET used == IF u > 0 THEN {u} ELSE GetUsedModelDates(GetModelDates, from, to)
       IN  job' = [job EXCEPT ![p] = [pc |-> "read", udate |-> u, from |-> from, to |-> to,
                                      listing |-> GetModelDates, toRead |-> used,
                                      lines |-> NoLines, read |-> <<>>]]
    /\ UNCHANGED <<coef, preds>>

\* The ofstream of DTwriteModel truncates the file and writes the header.
OpenModel(p) ==
    /\ job[p].pc = "fit"
    /\ coef' = [coef EXCEPT ![job[p].udate] = [lines |-> 0, last |-> job[p].to]]
    /\ job' = [job EXCEPT ![p].pc = "write"]
    /\ UNCHANGED <<preds, jobs>>

WriteNode(p) ==
    /\ job[p].pc = "write"
    /\ coef' = [coef EXCEPT ![job[p].udate].lines = @ + 1]
    /\ job' = IF coef'[job[p].udate].lines = WholeFile THEN [job EXCEPT ![p] = NoJob] ELSE job
    /\ UNCHANGED <<preds, jobs>>

\* DTreadModel reads line by line while a job may truncate the file and write it
\* again: the lines it has may be of two writings, fitted up to the later date.
ReadLine(p) ==
    /\ job[p].pc = "read"
    /\ \E u \in Udates :
         /\ IsFirst(u, job[p].toRead)
         /\ coef[u].lines > job[p].lines.lines
         /\ job' = [job EXCEPT ![p].lines = [lines |-> @.lines + 1,
                                            last |-> Later(@.last, coef[u].last)]]
    /\ UNCHANGED <<coef, preds, jobs>>

\* The file, or what a truncation has left of it, has no further line.  One that
\* ends within a tree is corrupt, and exit(12); lines of two writings may be too,
\* and the job ends as if killed.
ReadModel(p) ==
    /\ job[p].pc = "read"
    /\ \E u \in Udates :
         /\ IsFirst(u, job[p].toRead)
         /\ coef[u].lines <= job[p].lines.lines
         /\ IF job[p].lines.lines % 2 = 1
            THEN job' = [job EXCEPT ![p] = NoJob]
            ELSE job' = [job EXCEPT ![p].toRead = @ \ {u}, ![p].lines = NoLines,
                                    ![p].read = [v \in DOMAIN @ \cup {u} |->
                                                   IF v = u THEN job[p].lines ELSE @[v]]]
    /\ UNCHANGED <<coef, preds, jobs>>

\* calculatePredDay of every date: exit(13) if one has no model.  A model
\* without trees has no last prediction: what the job then reads is undefined,
\* and it may end there.
HasFitter(j, d) == GetModelDate(j, d) \in DOMAIN j.read
CalculatePred(p) ==
    /\ job[p].pc = "read" /\ job[p].toRead = {}
    /\ job' = IF \A d \in job[p].from..job[p].to :
                    HasFitter(job[p], d) /\ job[p].read[GetModelDate(job[p], d)].lines > 0
              THEN [job EXCEPT ![p].pc = "pred"]
              ELSE [job EXCEPT ![p] = NoJob]
    /\ UNCHANGED <<coef, preds, jobs>>

\* One turn of the loop of writePred; "from" is the next date.  The ofstream
\* truncates the file, which another job may have open as well, and the rows follow.
OpenPred(p) ==
    /\ job[p].pc = "pred"
    /\ preds' = [preds EXCEPT ![GetModelDate(job[p], job[p].from)][job[p].from] = 0]
    /\ job' = [job EXCEPT ![p].pc = "rows"]
    /\ UNCHANGED <<coef, jobs>>

WritePred(p) ==
    /\ job[p].pc = "rows"
    /\ LET d == job[p].from
           u == GetModelDate(job[p], d)
       IN  /\ preds' = [preds EXCEPT ![u][d] = Later(@, job[p].read[u].last)]
           /\ job' = IF d = job[p].to THEN [job EXCEPT ![p] = NoJob]
                     ELSE [job EXCEPT ![p].pc = "pred", ![p].from = d + 1]
    /\ UNCHANGED <<coef, jobs>>

Kill(p) ==
    /\ job[p] # NoJob
    /\ job' = [job EXCEPT ![p] = NoJob]
    /\ UNCHANGED <<coef, preds, jobs>>

Next ==
    \E p \in Procs :
        \/ \E u \in Udates \cup {0}, from \in Dates : \E to \in from..MaxDate :
               StartFit(p, u, from, to) \/ StartPred(p, u, from, to)
        \/ OpenModel(p) \/ WriteNode(p)
        \/ ReadLine(p) \/ ReadModel(p) \/ CalculatePred(p)
        \/ OpenPred(p) \/ WritePred(p)
        \/ Kill(p)

Spec == Init /\ [][Next]_vars

Interchangeable == Permutations(Procs)

(***************************************************************************)
(* Properties.                                                             *)
(***************************************************************************)
TypeOK ==
    /\ coef \in [Udates -> Files]
    /\ preds \in [Udates -> [Dates -> 0..MaxDate]]
    /\ jobs \in 0..MaxJobs
    /\ \A p \in Procs :
         /\ job[p].pc \in {"none", "fit", "write", "read", "pred", "rows"}
         /\ job[p].udate \in Udates \cup {0}
         /\ job[p].from \in 0..MaxDate /\ job[p].to \in 0..MaxDate
         /\ job[p].listing \subseteq Udates /\ job[p].toRead \subseteq Udates
         /\ job[p].lines \in Files /\ DOMAIN job[p].read \subseteq Udates

\* A prediction on disk was made by a model fitted on earlier dates only,
\* whichever jobs fitted, refitted, read and wrote at the same time.
PredNoLookAhead ==
    \A u \in Udates, d \in Dates : preds[u][d] # 0 => preds[u][d] < d

\* A job without udate predicts each date with the latest model its listing has
\* for it, and finds a date without a model only if the listing has none.
LatestOfListing ==
    \A p \in Procs :
        job[p].pc \in {"read", "pred", "rows"} /\ job[p].udate = 0 /\ job[p].toRead = {} =>
            \A d \in job[p].from..job[p].to :
                GetModelDate(job[p], d) = Recent(job[p].listing, d)
=============================================================================
