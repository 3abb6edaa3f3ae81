-------------------------- MODULE ModelFilesProofs --------------------------
(***************************************************************************)
(* For any number of processes, dates, models and jobs: no prediction on   *)
(* disk looks ahead, and a job uses the latest model of its listing.  A    *)
(* model file is fitted on dates before its udate at every moment of its   *)
(* life, whichever job wrote it last; so is what a job has read of it, of  *)
(* two writings perhaps; and the models a job reads are enough to find the *)
(* latest of the listing for each of its dates.                            *)
(***************************************************************************)
EXTENDS ModelFiles, TLAPS

Model == [lines : Int, last : 0..MaxDate]
Reads == UNION {[S -> Model] : S \in SUBSET Udates}
JobType == [pc : {"none", "fit", "write", "read", "pred", "rows"},
            udate : Udates \cup {0}, from : 0..MaxDate, to : 0..MaxDate,
            listing : SUBSET Udates, toRead : SUBSET Udates,
            lines : Model, read : Reads]

Typed ==
    /\ coef \in [Udates -> Model]
    /\ preds \in [Udates -> [Dates -> 0..MaxDate]]
    /\ job \in [Procs -> JobType]

FittedBefore == \A u \in Udates : coef[u].last < u

JobInv(j) ==
    /\ j.pc \in {"fit", "write"} => j.udate \in Udates /\ j.to < j.udate
    /\ \A u \in DOMAIN j.read : j.read[u].last < u
    /\ \A u \in Udates : IsFirst(u, j.toRead) => j.lines.last < u
    /\ j.pc \in {"read", "pred", "rows"} =>
         /\ j.from \in Dates /\ j.udate <= j.from /\ j.from <= j.to
         /\ j.udate = 0 => \A d \in j.from..j.to :
                Recent(DOMAIN j.read \cup j.toRead, d) = Recent(j.listing, d)
    /\ j.pc \in {"pred", "rows"} => j.toRead = {} /\ \A d \in j.from..j.to : HasFitter(j, d)

IInv ==
    /\ Typed /\ FittedBefore /\ PredNoLookAhead
    /\ \A p \in Procs : JobInv(job[p])

LEMMA RecentIs ==
    ASSUME NEW S \in SUBSET Int, NEW d \in Int, NEW u \in S, IsRecent(u, S, d)
    PROVE  Recent(S, d) = u
<1> DEFINE r == Recent(S, d)
<1>1. r \in S /\ IsRecent(r, S, d)  BY DEF Recent
<1>2. r \in Int /\ u \in Int  BY <1>1
<1> HIDE DEF r
<1>3. r <= u /\ u <= r  BY <1>1 DEF IsRecent
<1>4. r = u  BY <1>2, <1>3
<1>. QED  BY <1>4 DEF r

LEMMA RecentBound ==
    ASSUME NEW S \in SUBSET Int, NEW d \in Int, 0 \notin S, Recent(S, d) \in S
    PROVE  Recent(S, d) <= d
<1>1. \E u \in S : IsRecent(u, S, d)  BY DEF Recent
<1>2. IsRecent(Recent(S, d), S, d)  BY <1>1 DEF Recent
<1>. QED  BY <1>2 DEF IsRecent

\* The models from the latest one of the first date to the last date are enough
\* for every date between.
LEMMA UsedAreEnough ==
    ASSUME NEW S \in SUBSET Udates, NEW from \in Dates, NEW to \in Dates, NEW d \in from..to
    PROVE  Recent(GetUsedModelDates(S, from, to), d) = Recent(S, d)
<1> DEFINE used == GetUsedModelDates(S, from, to)
<1> DEFINE min == GetMinModelDate(S, from)
<1>a. S \subseteq Int /\ Dates \subseteq Int /\ 0 \notin S /\ \A u \in S : u > 0
  BY ModelFilesAssumption DEF Dates
<1>b. used = {u \in S : u >= min /\ u <= to}  BY DEF GetUsedModelDates
<1>c. min = Recent(S, from)  BY DEF GetMinModelDate
<1>d. used \subseteq Int  BY <1>a, <1>b
<1> HIDE DEF used, min
<1>1. CASE \E u \in S : IsRecent(u, S, from)
  <2>1. min \in S /\ IsRecent(min, S, from)  BY <1>1, <1>c DEF Recent
  <2>2. min \in used /\ min <= d
    BY <1>a, <1>b, <2>1 DEF IsRecent
  <2>3. ASSUME NEW u \in S, IsRecent(u, S, d) PROVE u \in used /\ IsRecent(u, used, d)
    BY <1>a, <1>b, <2>1, <2>2, <2>3 DEF IsRecent
  <2>4. ASSUME NEW u \in used, IsRecent(u, used, d) PROVE u \in S /\ IsRecent(u, S, d)
    BY <1>a, <1>b, <2>1, <2>2, <2>4 DEF IsRecent
  <2>. QED
    <3>1. CASE \E u \in S : IsRecent(u, S, d)
      <4>1. PICK u \in S : IsRecent(u, S, d)  BY <3>1
      <4>2. Recent(S, d) = u  BY <1>a, <4>1, RecentIs
      <4>3. Recent(used, d) = u  BY <1>d, <2>3, <4>1, RecentIs, <1>a
      <4>. QED  BY <4>2, <4>3 DEF used
    <3>2. CASE ~\E u \in S : IsRecent(u, S, d)
      <4>1. ~\E u \in used : IsRecent(u, used, d)  BY <2>4, <3>2
      <4>. QED  BY <3>2, <4>1 DEF Recent, used
    <3>. QED  BY <3>1, <3>2
<1>2. CASE ~\E u \in S : IsRecent(u, S, from)
  <2>1. min = 0  BY <1>2, <1>c DEF Recent
  <2>2. used = {u \in S : u <= to}
    <3>1. \A u \in S : u >= min  BY <1>a, <2>1
    <3>. QED  BY <1>b, <3>1
  <2>b. d \in Int /\ to \in Int /\ d <= to  BY <1>a
  <2>3a. \A u \in S : u <= d => u \in used  BY <1>a, <2>2, <2>b
  <2>3b. used \subseteq S  BY <2>2
  <2>3. \A u : u \in S /\ IsRecent(u, S, d) <=> u \in used /\ IsRecent(u, used, d)
    BY <2>3a, <2>3b DEF IsRecent
  <2>4. CASE \E u \in S : IsRecent(u, S, d)
    <3>1. PICK u \in S : IsRecent(u, S, d)  BY <2>4
    <3>2. Recent(S, d) = u  BY <1>a, <3>1, RecentIs
    <3>3. Recent(used, d) = u  BY <1>a, <1>d, <2>3, <3>1, RecentIs
    <3>. QED  BY <3>2, <3>3 DEF used
  <2>5. CASE ~\E u \in S : IsRecent(u, S, d)
    <3>1. ~\E u \in used : IsRecent(u, used, d)  BY <2>3, <2>5
    <3>. QED  BY <2>5, <3>1 DEF Recent, used
  <2>. QED  BY <2>4, <2>5
<1>. QED  BY <1>1, <1>2

LEMMA NoJobInv == NoJob \in JobType /\ JobInv(NoJob)
<1>1. NoJob.read \in [{} -> Model]  BY DEF NoJob
<1>a. NoJob.read \in Reads  BY <1>1 DEF Reads
<1>b. NoJob.from \in 0..MaxDate /\ NoJob.to \in 0..MaxDate
  BY ModelFilesAssumption DEF NoJob
<1>c. NoLines \in Model  BY ModelFilesAssumption DEF NoLines, Model
<1>2. NoJob \in JobType  BY <1>a, <1>b, <1>c DEF NoJob, JobType
<1>3. JobInv(NoJob)  BY DEF NoJob, JobInv, IsFirst
<1>. QED  BY <1>2, <1>3

\* A process that changes only its own job.
LEMMA OneJob ==
    ASSUME IInv, NEW p \in Procs, NEW j \in JobType, JobInv(j), job' = [job EXCEPT ![p] = j]
    PROVE  job' \in [Procs -> JobType] /\ \A q \in Procs : JobInv(job'[q])
BY DEF IInv, Typed

LEMMA OneJobOnly ==
    ASSUME IInv, NEW p \in Procs, NEW j \in JobType, JobInv(j), job' = [job EXCEPT ![p] = j],
           UNCHANGED <<coef, preds>>
    PROVE  IInv'
<1>1. job' \in [Procs -> JobType] /\ \A q \in Procs : JobInv(job'[q])  BY OneJob
<1>2. Typed' /\ FittedBefore' /\ PredNoLookAhead'
  BY <1>1 DEF IInv, Typed, FittedBefore, PredNoLookAhead
<1>. QED  BY <1>1, <1>2 DEF IInv

LEMMA InitIInv == Init => IInv
<1> SUFFICES ASSUME Init PROVE IInv  OBVIOUS
<1>1. \A u \in Udates : u \in Int /\ u > 0  BY ModelFilesAssumption DEF Dates
<1>2. NoFile \in Model  BY ModelFilesAssumption DEF NoFile, Model
<1>3. Typed  BY <1>2, NoJobInv, ModelFilesAssumption DEF Init, Typed
<1>4. FittedBefore  BY <1>1 DEF Init, FittedBefore, NoFile
<1>5. PredNoLookAhead  BY DEF Init, PredNoLookAhead
<1>. QED  BY <1>3, <1>4, <1>5, NoJobInv DEF Init, IInv

LEMMA StartFitIInv ==
    ASSUME IInv, NEW p \in Procs, NEW u \in Udates \cup {0}, NEW from \in Dates,
           NEW to \in from..MaxDate, StartFit(p, u, from, to)
    PROVE  IInv'
<1> DEFINE j == [NoJob EXCEPT !.pc = "fit", !.udate = u, !.from = from, !.to = to]
<1>a. from \in 0..MaxDate /\ to \in 0..MaxDate  BY ModelFilesAssumption DEF Dates
<1>1. j \in JobType  BY <1>a, NoJobInv DEF JobType
<1>2. JobInv(j)
  <2>1. j.pc = "fit" /\ j.udate = u /\ j.to = to /\ j.read = <<>> /\ j.toRead = {}
    BY DEF NoJob
  <2>2. u \in Udates /\ to < u  BY DEF StartFit
  <2>. QED  BY <2>1, <2>2 DEF JobInv, IsFirst
<1>3. job' = [job EXCEPT ![p] = j] /\ UNCHANGED <<coef, preds>>  BY DEF StartFit
<1>. HIDE DEF j
<1>. QED  BY <1>1, <1>2, <1>3, OneJobOnly

LEMMA StartPredIInv ==
    ASSUME IInv, NEW p \in Procs, NEW u \in Udates \cup {0}, NEW from \in Dates,
           NEW to \in from..MaxDate, StartPred(p, u, from, to)
    PROVE  IInv'
<1> DEFINE used == IF u > 0 THEN {u} ELSE GetUsedModelDates(GetModelDates, from, to)
<1> DEFINE j == [pc |-> "read", udate |-> u, from |-> from, to |-> to,
                 listing |-> GetModelDates, toRead |-> used,
                 lines |-> NoLines, read |-> <<>>]
<1>1. to \in Dates /\ from <= to  BY ModelFilesAssumption DEF Dates
<1>2. GetModelDates \subseteq Udates  BY DEF GetModelDates
<1>3. used \subseteq Udates
  <2>1. GetUsedModelDates(GetModelDates, from, to) \subseteq GetModelDates
    BY DEF GetUsedModelDates
  <2>. QED  BY <1>2, <2>1
<1>4. j.read \in [{} -> Model] /\ DOMAIN j.read = {}  OBVIOUS
<1>5. j \in JobType
  <2>1. j.read \in Reads  BY <1>4 DEF Reads
  <2>2. j.lines \in Model  BY ModelFilesAssumption DEF NoLines, Model
  <2>. QED  BY <1>1, <1>2, <1>3, <2>1, <2>2, ModelFilesAssumption DEF JobType, Dates
<1>6. JobInv(j)
  <2>1. u = 0 => \A d \in from..to : Recent({} \cup used, d) = Recent(GetModelDates, d)
    <3> SUFFICES ASSUME u = 0, NEW d \in from..to
                 PROVE  Recent({} \cup used, d) = Recent(GetModelDates, d)
      OBVIOUS
    <3>1. used = GetUsedModelDates(GetModelDates, from, to)  OBVIOUS
    <3>2. {} \cup used = used  OBVIOUS
    <3>. QED  BY <1>1, <1>2, <3>1, <3>2, UsedAreEnough
  <2>2. u <= from  BY ModelFilesAssumption DEF StartPred, Dates
  <2>3. j.pc = "read" /\ j.from = from /\ j.to = to /\ j.udate = u /\ j.toRead = used
        /\ j.listing = GetModelDates /\ j.lines = NoLines
    OBVIOUS
  <2>nothing. \A v \in Udates : NoLines.last < v  BY ModelFilesAssumption DEF NoLines, Dates
  <2>. HIDE DEF used, j
  <2>. QED  BY <1>1, <1>4, <2>1, <2>2, <2>3, <2>nothing DEF JobInv
<1>7. job' = [job EXCEPT ![p] = j] /\ UNCHANGED <<coef, preds>>  BY DEF StartPred
<1>. HIDE DEF used, j
<1>. QED  BY <1>5, <1>6, <1>7, OneJobOnly

\* The job that writes a model file: its udate is after every date it is fitted on.
LEMMA OpenModelIInv ==
    ASSUME IInv, NEW p \in Procs, OpenModel(p)
    PROVE  IInv'
<1> DEFINE u == job[p].udate
<1> DEFINE j == [job[p] EXCEPT !.pc = "write"]
<1>1. job[p] \in JobType /\ JobInv(job[p])  BY DEF IInv, Typed
<1>2. u \in Udates /\ job[p].to < u /\ job[p].to \in 0..MaxDate
  BY <1>1 DEF JobInv, JobType, OpenModel
<1>3. j \in JobType  BY <1>1 DEF JobType
<1>4. JobInv(j)
  <2>1. /\ j.pc = "write" /\ j.udate = u /\ j.to = job[p].to /\ j.read = job[p].read
        /\ j.toRead = job[p].toRead /\ j.lines = job[p].lines
    BY <1>1 DEF JobType
  <2>. HIDE DEF j
  <2>. QED  BY <1>1, <1>2, <2>1 DEF JobInv
<1>5. job' = [job EXCEPT ![p] = j] /\ preds' = preds  BY DEF OpenModel
<1>. HIDE DEF j
<1>6. job' \in [Procs -> JobType] /\ \A q \in Procs : JobInv(job'[q])
  BY <1>3, <1>4, <1>5, OneJob
<1>7. Typed'
  <2>1. [lines |-> 0, last |-> job[p].to] \in Model  BY <1>2 DEF Model
  <2>. QED  BY <1>2, <1>5, <1>6, <2>1 DEF IInv, Typed, OpenModel
<1>8. FittedBefore'
  BY <1>2 DEF IInv, Typed, OpenModel, FittedBefore
<1>9. PredNoLookAhead'  BY <1>5 DEF IInv, PredNoLookAhead
<1>. QED  BY <1>6, <1>7, <1>8, <1>9 DEF IInv

LEMMA WriteNodeIInv ==
    ASSUME IInv, NEW p \in Procs, WriteNode(p)
    PROVE  IInv'
<1> DEFINE u == job[p].udate
<1>1. job[p] \in JobType /\ JobInv(job[p])  BY DEF IInv, Typed
<1>2. u \in Udates  BY <1>1 DEF JobInv, JobType, WriteNode
<1>3. coef[u] \in Model /\ coef[u].last < u
  BY <1>2 DEF IInv, Typed, FittedBefore
<1>4. job' \in [Procs -> JobType] /\ \A q \in Procs : JobInv(job'[q])
  <2>1. CASE job' = [job EXCEPT ![p] = NoJob]  BY <2>1, NoJobInv, OneJob
  <2>2. CASE job' = job  BY <2>2 DEF IInv, Typed
  <2>. QED  BY <2>1, <2>2 DEF WriteNode
<1>5. coef' = [coef EXCEPT ![u].lines = @ + 1] /\ preds' = preds  BY DEF WriteNode
<1>6. Typed'
  <2>1. [coef[u] EXCEPT !.lines = @ + 1] \in Model  BY <1>3 DEF Model
  <2>. HIDE DEF u
  <2>. QED  BY <1>2, <1>4, <1>5, <2>1 DEF IInv, Typed
<1>7. FittedBefore'
  <2>1. [coef[u] EXCEPT !.lines = @ + 1].last = coef[u].last  BY <1>3 DEF Model
  <2>. HIDE DEF u
  <2>. QED  BY <1>2, <1>3, <1>5, <2>1 DEF IInv, Typed, FittedBefore
<1>8. PredNoLookAhead'  BY <1>5 DEF IInv, PredNoLookAhead
<1>. QED  BY <1>4, <1>6, <1>7, <1>8 DEF IInv

\* Whichever writing a line is of, it was fitted before the udate of the model.
LEMMA ReadLineIInv ==
    ASSUME IInv, NEW p \in Procs, ReadLine(p)
    PROVE  IInv'
<1>1. job[p] \in JobType /\ JobInv(job[p]) /\ job[p].pc = "read"
  BY DEF IInv, Typed, ReadLine
<1>2. PICK u \in Udates :
        /\ IsFirst(u, job[p].toRead)
        /\ job' = [job EXCEPT ![p].lines = [lines |-> @.lines + 1,
                                           last |-> Later(@.last, coef[u].last)]]
  BY DEF ReadLine
<1> DEFINE r == [lines |-> job[p].lines.lines + 1,
                 last |-> Later(job[p].lines.last, coef[u].last)]
<1> DEFINE j == [job[p] EXCEPT !.lines = r]
<1>3. coef[u] \in Model /\ coef[u].last < u  BY DEF IInv, Typed, FittedBefore
<1>4. job[p].lines \in Model /\ job[p].lines.last < u  BY <1>1, <1>2 DEF JobType, JobInv
<1>5. r \in Model /\ r.last < u  BY <1>3, <1>4 DEF Model, Later
<1>6. \A v \in Udates : IsFirst(v, job[p].toRead) => v = u
  BY <1>2, ModelFilesAssumption DEF IsFirst, Dates
<1>7. job' = [job EXCEPT ![p] = j] /\ UNCHANGED <<coef, preds>>
  BY <1>2 DEF IInv, Typed, ReadLine
<1>. HIDE DEF r
<1>8. j \in JobType  BY <1>1, <1>5 DEF JobType
<1>9. /\ j.pc = "read" /\ j.udate = job[p].udate /\ j.from = job[p].from /\ j.to = job[p].to
      /\ j.listing = job[p].listing /\ j.toRead = job[p].toRead /\ j.read = job[p].read
      /\ j.lines = r
  BY <1>1 DEF JobType
<1>. HIDE DEF j
<1>10. JobInv(j)  BY <1>1, <1>5, <1>6, <1>9 DEF JobInv
<1>. QED  BY <1>7, <1>8, <1>10, OneJobOnly

\* What is read and what is still to be read stay the models of the job.
LEMMA ReadModelIInv ==
    ASSUME IInv, NEW p \in Procs, ReadModel(p)
    PROVE  IInv'
<1>1. job[p] \in JobType /\ JobInv(job[p]) /\ job[p].pc = "read"
  BY DEF IInv, Typed, ReadModel
<1> DEFINE Ends(u) == [job EXCEPT ![p].toRead = @ \ {u}, ![p].lines = NoLines,
                                  ![p].read = [v \in DOMAIN @ \cup {u} |->
                                                 IF v = u THEN job[p].lines ELSE @[v]]]
<1>2. PICK u \in Udates : /\ IsFirst(u, job[p].toRead)
                         /\ (job' = [job EXCEPT ![p] = NoJob] \/ job' = Ends(u))
  BY DEF ReadModel
<1>3. UNCHANGED <<coef, preds>>  BY DEF ReadModel
<1>4. CASE job' = [job EXCEPT ![p] = NoJob]  BY <1>3, <1>4, NoJobInv, OneJobOnly
<1>5. CASE job' = Ends(u)
  <2> DEFINE r == [v \in DOMAIN job[p].read \cup {u} |->
                     IF v = u THEN job[p].lines ELSE job[p].read[v]]
  <2> DEFINE j == [job[p] EXCEPT !.toRead = @ \ {u}, !.lines = NoLines, !.read = r]
  <2>1. job[p].lines \in Model /\ job[p].lines.last < u  BY <1>1, <1>2 DEF JobType, JobInv
  <2>2. DOMAIN job[p].read \subseteq Udates /\ \A v \in DOMAIN job[p].read : job[p].read[v] \in Model
    BY <1>1 DEF JobType, Reads
  <2>3. DOMAIN r = DOMAIN job[p].read \cup {u}  OBVIOUS
  <2>4. r \in [DOMAIN r -> Model] /\ DOMAIN r \subseteq Udates  BY <2>1, <2>2
  <2>5. \A v \in DOMAIN r : r[v].last < v  BY <1>1, <2>1 DEF JobInv
  <2>. HIDE DEF r
  <2>a. r \in Reads  BY <2>4 DEF Reads
  <2>b. NoLines \in Model /\ \A v \in Udates : NoLines.last < v
    BY ModelFilesAssumption DEF NoLines, Model, Dates
  <2>6. j \in JobType  BY <1>1, <2>a, <2>b DEF JobType
  <2>7. /\ j.pc = "read" /\ j.udate = job[p].udate /\ j.from = job[p].from /\ j.to = job[p].to
        /\ j.listing = job[p].listing /\ j.toRead = job[p].toRead \ {u} /\ j.read = r
        /\ j.lines = NoLines
    BY <1>1 DEF JobType
  <2>8. DOMAIN r \cup (job[p].toRead \ {u}) = DOMAIN job[p].read \cup job[p].toRead
    BY <1>2, <2>3 DEF IsFirst
  <2>9. JobInv(j)
    <3>. HIDE DEF j
    <3>. QED  BY <1>1, <2>5, <2>7, <2>8, <2>b DEF JobInv
  <2>10. job' = [job EXCEPT ![p] = j]  BY <1>5 DEF r, IInv, Typed
  <2>. HIDE DEF j
  <2>. QED  BY <1>3, <2>6, <2>9, <2>10, OneJobOnly
<1>. QED  BY <1>2, <1>4, <1>5

LEMMA CalculatePredIInv ==
    ASSUME IInv, NEW p \in Procs, CalculatePred(p)
    PROVE  IInv'
<1> DEFINE j == [job[p] EXCEPT !.pc = "pred"]
<1>1. job[p] \in JobType /\ JobInv(job[p]) /\ job[p].pc = "read" /\ job[p].toRead = {}
  BY DEF IInv, Typed, CalculatePred
<1>2. UNCHANGED <<coef, preds>>  BY DEF CalculatePred
<1>3. CASE job' = [job EXCEPT ![p] = NoJob]  BY <1>2, <1>3, NoJobInv, OneJobOnly
<1>4. CASE job' = [job EXCEPT ![p] = j] /\ \A d \in job[p].from..job[p].to : HasFitter(job[p], d)
  <2>1. j \in JobType  BY <1>1 DEF JobType
  <2>2. /\ j.pc = "pred" /\ j.udate = job[p].udate /\ j.from = job[p].from /\ j.to = job[p].to
        /\ j.listing = job[p].listing /\ j.toRead = {} /\ j.read = job[p].read
        /\ j.lines = job[p].lines
    BY <1>1 DEF JobType
  <2>. HIDE DEF j
  <2>3. \A d \in j.from..j.to : HasFitter(j, d)
    BY <1>4, <2>2 DEF HasFitter, GetModelDate
  <2>4. JobInv(j)  BY <1>1, <2>2, <2>3 DEF JobInv
  <2>. QED  BY <1>2, <1>4, <2>1, <2>4, OneJobOnly
<1>. QED  BY <1>3, <1>4 DEF CalculatePred

\* The model of the next date is one the job has read, and a file loses its rows.
LEMMA OpenPredIInv ==
    ASSUME IInv, NEW p \in Procs, OpenPred(p)
    PROVE  IInv'
<1> DEFINE d == job[p].from
<1> DEFINE u == GetModelDate(job[p], d)
<1> DEFINE j == [job[p] EXCEPT !.pc = "rows"]
<1>1. job[p] \in JobType /\ JobInv(job[p]) /\ job[p].pc = "pred"
  BY DEF IInv, Typed, OpenPred
<1>2. d \in d..job[p].to /\ d \in Dates
  BY <1>1, ModelFilesAssumption DEF JobInv, JobType, Dates
<1>3. u \in Udates  BY <1>1, <1>2 DEF JobInv, JobType, Reads, HasFitter
<1>4. j \in JobType  BY <1>1 DEF JobType
<1>5. /\ j.pc = "rows" /\ j.udate = job[p].udate /\ j.from = d /\ j.to = job[p].to
      /\ j.listing = job[p].listing /\ j.toRead = job[p].toRead /\ j.read = job[p].read
      /\ j.lines = job[p].lines
  BY <1>1 DEF JobType
<1>6. /\ job' = [job EXCEPT ![p] = j] /\ coef' = coef
      /\ preds' = [preds EXCEPT ![u][d] = 0]
  BY DEF OpenPred
<1>. HIDE DEF j
<1>7. JobInv(j)  BY <1>1, <1>5 DEF JobInv, HasFitter, GetModelDate
<1>8. job' \in [Procs -> JobType] /\ \A q \in Procs : JobInv(job'[q])
  BY <1>4, <1>6, <1>7, OneJob
<1>. HIDE DEF u, d
<1>9. Typed'  BY <1>2, <1>3, <1>6, <1>8, ModelFilesAssumption DEF IInv, Typed
<1>10. FittedBefore'  BY <1>6 DEF IInv, FittedBefore
<1>11. PredNoLookAhead'  BY <1>2, <1>3, <1>6 DEF IInv, Typed, PredNoLookAhead
<1>. QED  BY <1>8, <1>9, <1>10, <1>11 DEF IInv

\* The model of a date is one read, its udate is not after the date, and it was
\* fitted before its udate.
LEMMA WritePredIInv ==
    ASSUME IInv, NEW p \in Procs, WritePred(p)
    PROVE  IInv'
<1> DEFINE d == job[p].from
<1> DEFINE u == GetModelDate(job[p], d)
<1> DEFINE j == [job[p] EXCEPT !.pc = "pred", !.from = d + 1]
<1>1. job[p] \in JobType /\ JobInv(job[p]) /\ job[p].pc = "rows"
  BY DEF IInv, Typed, WritePred
<1>2. /\ d \in Dates /\ d <= job[p].to /\ job[p].udate <= d /\ job[p].toRead = {}
      /\ job[p].udate \in Udates \cup {0} /\ job[p].to \in 0..MaxDate
      /\ DOMAIN job[p].read \subseteq Udates
      /\ \A v \in DOMAIN job[p].read : job[p].read[v] \in Model /\ job[p].read[v].last < v
  BY <1>1 DEF JobInv, JobType, Reads
<1>3. d \in Int /\ job[p].to \in Int /\ MaxDate \in Nat /\ d >= 1 /\ Udates \subseteq Int /\ 0 \notin Udates
  BY <1>2, ModelFilesAssumption DEF Dates
<1>4. HasFitter(job[p], d)
  <2>1. d \in job[p].from..job[p].to  BY <1>2, <1>3
  <2>. QED  BY <1>1, <2>1 DEF JobInv
<1>5. u \in DOMAIN job[p].read /\ u \in Udates  BY <1>2, <1>4 DEF HasFitter
<1>6. u <= d
  <2>1. CASE job[p].udate > 0  BY <1>2, <2>1 DEF GetModelDate
  <2>2. CASE ~(job[p].udate > 0)
    <3> DEFINE S == DOMAIN job[p].read
    <3>1. u = Recent(S, d)  BY <2>2 DEF GetModelDate
    <3>2. S \in SUBSET Int /\ 0 \notin S /\ Recent(S, d) \in S  BY <1>2, <1>3, <1>5, <3>1
    <3>. HIDE DEF S
    <3>. QED  BY <1>3, <3>1, <3>2, RecentBound
  <2>. QED  BY <2>1, <2>2
<1>7. job[p].read[u].last < d /\ job[p].read[u].last \in 0..MaxDate
  <2>1. job[p].read[u] \in Model /\ job[p].read[u].last < u  BY <1>2, <1>5
  <2>2. job[p].read[u].last \in 0..MaxDate  BY <2>1 DEF Model
  <2>. HIDE DEF u, d
  <2>. QED  BY <1>3, <1>5, <1>6, <2>1, <2>2
<1>8. job' \in [Procs -> JobType] /\ \A q \in Procs : JobInv(job'[q])
  <2>1. CASE d = job[p].to
    <3>1. job' = [job EXCEPT ![p] = NoJob]  BY <2>1 DEF WritePred
    <3>. QED  BY <3>1, NoJobInv, OneJob
  <2>2. CASE d # job[p].to
    <3>1. job' = [job EXCEPT ![p] = j]  BY <2>2 DEF WritePred
    <3>2. d + 1 \in Dates /\ d + 1 <= job[p].to /\ d + 1 \in 0..MaxDate
      BY <1>2, <1>3, <2>2 DEF Dates
    <3>3. j \in JobType  BY <1>1, <3>2 DEF JobType
    <3>4. /\ j.pc = "pred" /\ j.udate = job[p].udate /\ j.from = d + 1 /\ j.to = job[p].to
          /\ j.listing = job[p].listing /\ j.toRead = job[p].toRead /\ j.read = job[p].read
          /\ j.lines = job[p].lines
      BY <1>1 DEF JobType
    <3>5. \A e \in (d + 1)..job[p].to : e \in d..job[p].to  BY <1>3
    <3>6. job[p].udate <= d + 1
      <4>1. job[p].udate \in Udates \cup {0}  BY <1>2
      <4>2. job[p].udate \in Int  BY <1>3, <4>1
      <4>3. d \in Int  BY <1>3
      <4>4. job[p].udate <= d  BY <1>2
      <4>. HIDE DEF d
      <4>. QED  BY <4>2, <4>3, <4>4
    <3>. HIDE DEF j
    <3>7. \A e \in j.from..j.to : HasFitter(j, e)
      BY <1>1, <3>4, <3>5 DEF JobInv, HasFitter, GetModelDate
    <3>8. j.udate = 0 => \A e \in j.from..j.to :
            Recent(DOMAIN j.read \cup j.toRead, e) = Recent(j.listing, e)
      BY <1>1, <3>4, <3>5 DEF JobInv
    <3>9. JobInv(j)
      BY <1>1, <1>2, <3>2, <3>4, <3>6, <3>7, <3>8 DEF JobInv
    <3>. QED  BY <3>1, <3>3, <3>9, OneJob
  <2>. QED  BY <2>1, <2>2
<1>9. coef' = coef /\ preds' = [preds EXCEPT ![u][d] = Later(@, job[p].read[u].last)]
  BY DEF WritePred
<1>. HIDE DEF u, d
<1> DEFINE last == Later(preds[u][d], job[p].read[u].last)
<1>later. last < d /\ last \in 0..MaxDate
  <2>1. preds[u][d] \in 0..MaxDate /\ (preds[u][d] # 0 => preds[u][d] < d)
    BY <1>2, <1>5 DEF IInv, Typed, PredNoLookAhead
  <2>2. last = preds[u][d] \/ last = job[p].read[u].last  BY DEF Later
  <2>. QED  BY <1>3, <1>7, <2>1, <2>2
<1>. HIDE DEF last
<1>10. Typed'  BY <1>2, <1>5, <1>later, <1>8, <1>9 DEF IInv, Typed, last
<1>11. FittedBefore'  BY <1>9 DEF IInv, FittedBefore
<1>12. PredNoLookAhead'
  BY <1>2, <1>5, <1>later, <1>9 DEF IInv, Typed, PredNoLookAhead, last
<1>. QED  BY <1>8, <1>10, <1>11, <1>12 DEF IInv

LEMMA NextIInv == IInv /\ [Next]_vars => IInv'
<1> SUFFICES ASSUME IInv, [Next]_vars PROVE IInv'  OBVIOUS
<1>1. ASSUME NEW p \in Procs, NEW u \in Udates \cup {0}, NEW from \in Dates,
             NEW to \in from..MaxDate, StartFit(p, u, from, to) PROVE IInv'
  BY <1>1, StartFitIInv
<1>2. ASSUME NEW p \in Procs, NEW u \in Udates \cup {0}, NEW from \in Dates,
             NEW to \in from..MaxDate, StartPred(p, u, from, to) PROVE IInv'
  BY <1>2, StartPredIInv
<1>3. ASSUME NEW p \in Procs, OpenModel(p) PROVE IInv'  BY <1>3, OpenModelIInv
<1>4. ASSUME NEW p \in Procs, WriteNode(p) PROVE IInv'  BY <1>4, WriteNodeIInv
<1>line. ASSUME NEW p \in Procs, ReadLine(p) PROVE IInv'  BY <1>line, ReadLineIInv
<1>5. ASSUME NEW p \in Procs, ReadModel(p) PROVE IInv'  BY <1>5, ReadModelIInv
<1>6. ASSUME NEW p \in Procs, CalculatePred(p) PROVE IInv'  BY <1>6, CalculatePredIInv
<1>open. ASSUME NEW p \in Procs, OpenPred(p) PROVE IInv'  BY <1>open, OpenPredIInv
<1>7. ASSUME NEW p \in Procs, WritePred(p) PROVE IInv'  BY <1>7, WritePredIInv
<1>8. ASSUME NEW p \in Procs, Kill(p) PROVE IInv'
  BY <1>8, NoJobInv, OneJobOnly DEF Kill
<1>9. CASE UNCHANGED vars
  BY <1>9 DEF vars, IInv, Typed, FittedBefore, PredNoLookAhead
<1>. QED  BY <1>1, <1>2, <1>3, <1>4, <1>line, <1>5, <1>6, <1>open, <1>7, <1>8, <1>9 DEF Next

\* At every moment each model file, what each job has read and each prediction
\* come from dates before the model's udate.
THEOREM FittedOnThePast == Spec => []IInv
<1>. QED  BY InitIInv, NextIInv, PTL DEF Spec

\* Refitting, predicting and killing jobs in any order leaves no prediction that
\* looks ahead.
THEOREM PredictionsDoNotLookAhead == Spec => []PredNoLookAhead
<1>1. IInv => PredNoLookAhead  BY DEF IInv
<1>. QED  BY <1>1, FittedOnThePast, PTL

\* A job whose udate is the date itself uses the latest model of its listing.
THEOREM LatestModelUsed == Spec => []LatestOfListing
<1>1. IInv => LatestOfListing
  <2> SUFFICES ASSUME IInv, NEW p \in Procs, job[p].pc \in {"read", "pred", "rows"},
                      job[p].udate = 0, job[p].toRead = {}, NEW d \in job[p].from..job[p].to
               PROVE  GetModelDate(job[p], d) = Recent(job[p].listing, d)
    BY DEF LatestOfListing
  <2>1. Recent(DOMAIN job[p].read \cup job[p].toRead, d) = Recent(job[p].listing, d)
    BY DEF IInv, JobInv
  <2>2. DOMAIN job[p].read \cup job[p].toRead = DOMAIN job[p].read  OBVIOUS
  <2>. QED  BY <2>1, <2>2 DEF GetModelDate
<1>. QED  BY <1>1, FittedOnThePast, PTL
=============================================================================
