------------------------------- MODULE LinMod -------------------------------
(***************************************************************************)
(* The daily estimation of the linear model: BiLinearModel as              *)
(* MMakeSampleMicro drives it with weightSource calculate, in a job whose  *)
(* dates MInitModel finds with dateAutoDetect cov.  A date's covariances   *)
(* are written to a file of their own; the model in force on a date is     *)
(* calculated from the files of the window of dates before it, whether the *)
(* process that wrote them is still running or a later one has started     *)
(* after it ended or was killed.                                           *)
(*                                                                         *)
(* Dates are 1, 2, ... in the order of allIdates.  One horizon and one     *)
(* time slice; a ticker has points on a date or has none, and a            *)
(* decomposition succeeds when it is given points.                         *)
(***************************************************************************)
EXTENDS Integers, FiniteSets, FiniteSetsExt

CONSTANTS Tickers,
          MaxDate,       \* bound: the last date of the model
          FirstToday,    \* the last known date when the first job starts
          NPast,         \* nPast of getFirstDayToWrite
          UnivFitDays,   \* om_univ_fit_days
          ErrFitDays,    \* om_err_fit_days
          MinPts,        \* minPts_, in dates with points
          MapOrder,      \* the order of the tickers in olsmovErr_
          Confs,         \* among Configurations
          MaxCrashes     \* bound: how often a job is killed

Dates == 1..MaxDate

\* excludeRange_; the tickers that have no points on a date, and those whose
\* points are not for the universal model (inUnivFit, doUniversalLinearModel_).
Configurations == [excluded : SUBSET Dates, quiet : SUBSET (Dates \X Tickers),
                   outside : SUBSET (Dates \X Tickers), doErrorCorrectionModel : BOOLEAN]

\* allIdates reaches far enough back for every window that is read.
ASSUME LinModAssumption ==
    /\ IsFiniteSet(Tickers) /\ Tickers # {}
    /\ MaxDate \in Nat /\ NPast \in Nat \ {0} /\ MaxCrashes \in Nat
    /\ UnivFitDays \in Nat \ {0} /\ ErrFitDays \in Nat \ {0}
    /\ MinPts \in Nat \ {0}
    /\ FirstToday \in Dates /\ FirstToday >= NPast + UnivFitDays /\ FirstToday >= NPast + ErrFitDays
    /\ MapOrder \in [1..Cardinality(Tickers) -> Tickers]
    /\ {MapOrder[k] : k \in DOMAIN MapOrder} = Tickers
    /\ Confs \subseteq Configurations

VARIABLES conf,     \* the configuration of every job
          today,    \* the last date of allIdates for a process that starts now
          cov,      \* the files of cov_dir_
          signals,  \* the dates whose signal file has been written
          weights,  \* the dates whose weight file has been written
          pc,       \* where the job is
          idate, d2, \* the date the job processes, and its last one
          todo,     \* tickers not processed yet
          data,     \* the accumulators of olsmov_ and olsmovErr_
          model,    \* what has been loaded into their OLS, and the flags
          crashes

job == <<pc, idate, d2, todo, data, model>>
disk == <<cov, signals, weights>>
vars == <<conf, today, cov, signals, weights, pc, idate, d2, todo, data, model, crashes>>

(***************************************************************************)
(* Files.  write_cov writes a header and the matrices of the universal     *)
(* model, a header, and for each ticker its name and its matrices: a file  *)
(* holds the first of these pieces.  Where it ends among the tickers, the  *)
(* loop that reads it goes on for all of them with the last name it got,   *)
(* and leaves empty matrices under that name.                              *)
(***************************************************************************)
NoFile == [pieces |-> -1, univ |-> {}, err |-> {}]
Whole == 3 + 2 * Cardinality(Tickers)
Exists(x) == cov[x] # NoFile
UnivData(x) == IF cov[x].pieces >= 2 THEN cov[x].univ ELSE {}
NamesRead(x) == (cov[x].pieces - 2) \div 2
ErrData(x) ==
    IF cov[x].pieces >= Whole THEN cov[x].err
    ELSE {t \in cov[x].err : \E k \in 1..(NamesRead(x) - 1) : MapOrder[k] = t}

NoData == [univ |-> {}, err |-> {}]
NoLoads == [univ |-> [x \in Dates |-> 0], err |-> [t \in Tickers |-> [x \in Dates |-> 0]]]
NewModel == [univ |-> NoLoads.univ, err |-> NoLoads.err, never |-> TRUE,
             enoughUniv |-> FALSE, enoughErr |-> FALSE, goodUniv |-> FALSE, goodErr |-> FALSE]

(***************************************************************************)
(* read_cov and calculate_coeffs.                                          *)
(***************************************************************************)
FirstDateInclusive(x, length) == x - (length - 1)
UnivWindow(x) == FirstDateInclusive(x, UnivFitDays)..x
ErrWindow(x) == FirstDateInclusive(x, ErrFitDays)..x
UnivDays(x) == {y \in UnivWindow(x) : UnivData(y) # {}}
ErrDays(x) == {y \in ErrWindow(x) : ErrData(y) # {}}

\* A header that is not there leaves the sizes of the collection as the stack
\* has them: those of the file read before, or others.
Reading(x, y, stale) ==
    CASE ~Exists(y) -> "ok"
      [] cov[y].pieces < 1 /\ ~stale -> "assert"
      [] (\E z \in UnivDays(x) : z < y) /\ UnivData(y) = {} -> "exit21"
      [] cov[y].pieces < 3 /\ ~stale -> "assert"
      [] OTHER -> "ok"

ReadOutcome(x, stale) ==
    LET failing == {y \in UnivWindow(x) \cup ErrWindow(x) : Reading(x, y, stale) # "ok"}
    IN  IF failing = {} THEN "ok" ELSE Reading(x, Min(failing), stale)

InitOLSMutant == [univ |-> model.univ, err |-> model.err]
InitOLS == NoLoads

\* loadCorrs: what read_cov(x) adds to the OLS of the model m.
LoadCorrs(m, x) ==
    [univ |-> [y \in Dates |-> m.univ[y] + IF y \in UnivDays(x) THEN 1 ELSE 0],
     err |-> [t \in Tickers |-> [y \in Dates |->
                 m.err[t][y] + IF y \in ErrDays(x) /\ t \in ErrData(y) THEN 1 ELSE 0]]]

NPts(loads, t) == Cardinality({y \in Dates : loads.err[t][y] > 0})
ValidErrWeights(loads) ==
    5 * Cardinality({t \in Tickers : NPts(loads, t) >= MinPts}) > Cardinality(Tickers)

CalculateCoeffs(loads, enoughUniv, enoughErr) ==
    [univ |-> loads.univ, err |-> loads.err, never |-> FALSE,
     enoughUniv |-> enoughUniv, enoughErr |-> enoughErr,
     goodUniv |-> enoughUniv, goodErr |-> enoughErr /\ ValidErrWeights(loads)]

ReadCov(x) ==
    CalculateCoeffs(LoadCorrs(InitOLS, x),
                    Cardinality(UnivDays(x)) = UnivFitDays,
                    Cardinality(ErrDays(x)) = ErrFitDays)

GoodModel == model.goodUniv /\ model.goodErr

(***************************************************************************)
(* MInitModel.                                                             *)
(***************************************************************************)
FinalSigDay == today - 1

\* From the first of the last NPast dates that has no file.
DatesToWriteMutant ==
    {x \in Dates \ conf.excluded :
        x < FinalSigDay /\ \E y \in (today - NPast + 1)..x : ~Exists(y)}
DatesToWrite ==
    {x \in Dates \ conf.excluded :
        x <= FinalSigDay /\ \E y \in (today - NPast + 1)..x : ~Exists(y)}

IsFirst(x, S) == x \in S /\ \A y \in S : x <= y

GetPrevIdateMutant(x) == x
GetPrevIdate(x) == x - 1

Init ==
    /\ conf \in Confs
    /\ today = FirstToday
    /\ cov = [x \in Dates |-> NoFile] /\ signals = {} /\ weights = {}
    /\ pc = "idle" /\ idate = 1 /\ d2 = 1 /\ todo = {}
    /\ data = NoData /\ model = NewModel
    /\ crashes = 0

Stopped == pc \in {"idle", "assert", "exit21"}

NextDate ==
    /\ Stopped /\ today < MaxDate
    /\ today' = today + 1
    /\ UNCHANGED <<conf, disk, job, crashes>>

StartJob ==
    /\ Stopped
    /\ \E x \in Dates : IsFirst(x, DatesToWrite) /\ idate' = x
    /\ d2' = FinalSigDay
    /\ pc' = "begin" /\ todo' = {} /\ data' = NoData /\ model' = NewModel
    /\ UNCHANGED <<conf, today, disk, crashes>>

ClearCov == NoData

\* What read_cov(x) and calculate_coeffs leave, and where the job goes on.
ReadAndCalculate(x, next) ==
    \E stale \in BOOLEAN :
        /\ pc' = IF ReadOutcome(x, stale) = "ok" THEN next ELSE ReadOutcome(x, stale)
        /\ model' = IF ReadOutcome(x, stale) = "ok" THEN ReadCov(x) ELSE NewModel

BeginDay ==
    /\ pc = "begin"
    /\ data' = ClearCov /\ todo' = Tickers
    /\ IF model.never
       THEN ReadAndCalculate(GetPrevIdate(idate), "day")
       ELSE pc' = "day" /\ UNCHANGED model
    /\ UNCHANGED <<conf, today, disk, idate, d2, crashes>>

FitsUniv(t) == <<idate, t>> \notin conf.quiet \cup conf.outside
FitsErr(t) == <<idate, t>> \notin conf.quiet /\ conf.doErrorCorrectionModel

\* get_prediction and batch_update_biLin for the points of one ticker.  Mutant:
\* residuals of no model are taken for residuals.
UpdateMutant(t) ==
    /\ pc = "day" /\ t \in todo
    /\ todo' = todo \ {t}
    /\ data' = [univ |-> IF FitsUniv(t) THEN data.univ \cup {t} ELSE data.univ,
                err |-> IF FitsErr(t) THEN data.err \cup {t} ELSE data.err]
    /\ UNCHANGED <<conf, today, disk, pc, idate, d2, model, crashes>>
Update(t) ==
    /\ pc = "day" /\ t \in todo
    /\ todo' = todo \ {t}
    /\ data' = [univ |-> IF FitsUniv(t) THEN data.univ \cup {t} ELSE data.univ,
                err |-> IF FitsErr(t) /\ model.goodUniv THEN data.err \cup {t} ELSE data.err]
    /\ UNCHANGED <<conf, today, disk, pc, idate, d2, model, crashes>>

WriteSignal ==
    /\ pc = "day" /\ todo = {}
    /\ signals' = IF GoodModel THEN signals \cup {idate} ELSE signals
    /\ pc' = "open"
    /\ UNCHANGED <<conf, today, cov, weights, idate, d2, todo, data, model, crashes>>

\* The constructor of the ofstream truncates the file.
OpenCov ==
    /\ pc = "open"
    /\ cov' = [cov EXCEPT ![idate] = [pieces |-> 0, univ |-> data.univ, err |-> data.err]]
    /\ pc' = "save"
    /\ UNCHANGED <<conf, today, signals, weights, idate, d2, todo, data, model, crashes>>

SavePiece ==
    /\ pc = "save"
    /\ cov' = [cov EXCEPT ![idate].pieces = @ + 1]
    /\ pc' = IF cov'[idate].pieces = Whole THEN "read" ELSE "save"
    /\ UNCHANGED <<conf, today, signals, weights, idate, d2, todo, data, model, crashes>>

ReadBackMutant ==
    /\ pc = "read" /\ pc' = "weights"
    /\ UNCHANGED <<conf, today, disk, idate, d2, todo, data, model, crashes>>
ReadBack ==
    /\ pc = "read"
    /\ ReadAndCalculate(idate, "weights")
    /\ UNCHANGED <<conf, today, disk, idate, d2, todo, data, crashes>>

LaterDates == {x \in Dates \ conf.excluded : idate < x /\ x <= d2}

WriteWeights ==
    /\ pc = "weights"
    /\ weights' = IF GoodModel THEN weights \cup {idate} ELSE weights
    /\ \/ LaterDates = {} /\ pc' = "idle" /\ UNCHANGED idate
       \/ pc' = "begin" /\ \E x \in Dates : IsFirst(x, LaterDates) /\ idate' = x
    /\ UNCHANGED <<conf, today, cov, signals, d2, todo, data, model, crashes>>

Crash ==
    /\ ~Stopped /\ crashes < MaxCrashes
    /\ crashes' = crashes + 1
    /\ pc' = "idle" /\ model' = NewModel /\ data' = NoData /\ todo' = {}
    /\ UNCHANGED <<conf, today, disk, idate, d2>>

JobStep ==
    \/ StartJob \/ BeginDay \/ \E t \in Tickers : Update(t)
    \/ WriteSignal \/ OpenCov \/ SavePiece \/ ReadBack \/ WriteWeights

Next == NextDate \/ JobStep \/ Crash

\* A job that is running goes on, and one is started when there are dates to
\* write.  A job is started once a date: jobs cannot keep the next date away.
Spec == Init /\ [][Next]_vars /\ WF_vars(JobStep) /\ SF_vars(NextDate)

(***************************************************************************)
(* Properties.                                                             *)
(***************************************************************************)
TypeOK ==
    /\ conf \in Confs /\ today \in FirstToday..MaxDate
    /\ cov \in [Dates -> [pieces : -1..Whole, univ : SUBSET Tickers, err : SUBSET Tickers]]
    /\ signals \subseteq Dates /\ weights \subseteq Dates
    /\ pc \in {"idle", "assert", "exit21", "begin", "day", "open", "save", "read", "weights"}
    /\ idate \in Dates /\ d2 \in Dates /\ todo \subseteq Tickers
    /\ data \in [univ : SUBSET Tickers, err : SUBSET Tickers]
    /\ DOMAIN model = DOMAIN NewModel
    /\ model.univ \in [Dates -> Nat] /\ model.err \in [Tickers -> [Dates -> Nat]]
    /\ {model.enoughUniv, model.enoughErr, model.goodUniv, model.goodErr, model.never} \subseteq BOOLEAN
    /\ crashes \in 0..MaxCrashes

\* The model in force while a date is processed, and by which its signal is
\* judged, has loaded earlier dates only, also when the files of the date and
\* of later ones are there from a job before (an excluded date makes every job
\* start over behind it).
Loaded == {x \in Dates : model.univ[x] > 0 \/ \E t \in Tickers : model.err[t][x] > 0}
NoLookAhead == pc \in {"day", "open", "save", "read"} => \A x \in Loaded : x < idate

\* A good universal model has loaded each date of a window of UnivFitDays
\* consecutive dates once and no other date, and a good error model has
\* residuals of each of ErrFitDays consecutive dates and counts none twice.
IsWindow(days, n) == \E x \in Dates : days = FirstDateInclusive(x, n)..x
GoodModelIsWindow ==
    /\ model.goodUniv =>
         /\ IsWindow({x \in Dates : model.univ[x] > 0}, UnivFitDays)
         /\ \A x \in Dates : model.univ[x] <= 1
    /\ model.goodErr =>
         /\ IsWindow({x \in Dates : \E t \in Tickers : model.err[t][x] > 0}, ErrFitDays)
         /\ \A t \in Tickers, x \in Dates : model.err[t][x] <= 1

\* Error data are residuals of a good universal model: a file has them only if
\* every date of the window before it has universal data, whatever jobs were
\* killed in between (without excluded dates).
ResidualsOfGoodModel ==
    conf.excluded = {} =>
        \A d \in Dates : ErrData(d) # {} =>
            \A x \in UnivWindow(GetPrevIdate(d)) : UnivData(x) # {}

\* A job that goes on from the date before predicts with the model that a job
\* started on the date itself would read, unless the date before is excluded.
RestartTransparent ==
    pc \in {"day", "open"} /\ GetPrevIdate(idate) \notin conf.excluded =>
        model = ReadCov(GetPrevIdate(idate))

\* If no job dies of a file, every date the last jobs look at gets its file: a
\* whole one, or one that a job was killed while writing.
Torn(x) == cov[x].pieces \in 0..(Whole - 1) /\ ~(pc = "save" /\ x = idate)
EveryDateWritten ==
    [](pc \notin {"assert", "exit21"}) => \A d \in (MaxDate - NPast + 1)..(MaxDate - 1) :
        (d \notin conf.excluded) => <>(cov[d].pieces = Whole \/ Torn(d))
=============================================================================
