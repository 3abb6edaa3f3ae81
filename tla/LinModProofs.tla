---------------------------- MODULE LinModProofs ----------------------------
(***************************************************************************)
(* For any tickers, dates, windows and configurations, and any number of   *)
(* killed jobs: the model in force has loaded nothing of the date it       *)
(* predicts or of a later one, is the one a job started on that date would *)
(* read, and is good only if it has a whole window of dates.  All three    *)
(* follow from one fact, IInv: the model in force is what read_cov makes,  *)
(* now, of the files up to some date before the one at work, because a job *)
(* writes the file of the date at work only.  The second invariant, RInv,  *)
(* is about the files themselves: the error data in them are residuals.    *)
(***************************************************************************)
EXTENDS LinMod, FiniteSetTheorems, TLAPS

FirstRead == FirstToday - NPast
Busy == {"begin", "day", "open", "save", "read"}
Pcs == Busy \cup {"idle", "assert", "exit21", "weights"}

FilesTyped ==
    /\ conf \in Configurations
    /\ today \in FirstToday..MaxDate
    /\ cov \in [Dates -> [pieces : Int, univ : SUBSET Tickers, err : SUBSET Tickers]]

JobTyped ==
    /\ pc \in Pcs
    /\ idate \in Dates /\ d2 \in Dates
    /\ pc \in Busy \cup {"weights"} => idate > FirstRead
    /\ data \in [univ : SUBSET Tickers, err : SUBSET Tickers]

\* The model is what is read from the files up to x, the last date before
\* idate that is not excluded unless the job has just started.
ReadAt(x) ==
    /\ x >= FirstRead
    /\ model = ReadCov(x)
    /\ pc \in Busy => x < idate /\ \A y \in Dates : x < y /\ y < idate => y \in conf.excluded
    /\ pc = "weights" => x = idate

ModelRead ==
    \/ model = NewModel /\ pc \in {"begin", "idle", "assert", "exit21"}
    \/ \E x \in Dates : ReadAt(x)

IInv == FilesTyped /\ JobTyped /\ ModelRead

\* A window up to a date that is read lies within the dates.
LEMMA WindowInDates ==
    ASSUME NEW x \in Dates, x >= FirstRead
    PROVE  /\ UnivWindow(x) \subseteq Dates /\ ErrWindow(x) \subseteq Dates
           /\ UnivWindow(x) = (x - (UnivFitDays - 1))..x
           /\ ErrWindow(x) = (x - (ErrFitDays - 1))..x
           /\ \A y \in UnivWindow(x) \cup ErrWindow(x) : y <= x
BY LinModAssumption DEF FirstRead, UnivWindow, ErrWindow, FirstDateInclusive, Dates

LEMMA Bounds ==
    /\ MaxDate \in Nat /\ NPast \in Nat \ {0} /\ UnivFitDays \in Nat \ {0} /\ ErrFitDays \in Nat \ {0}
    /\ FirstToday \in Dates /\ FirstToday >= NPast + UnivFitDays /\ FirstToday >= NPast + ErrFitDays
BY LinModAssumption

\* A file that stays gives the data it gave.
LEMMA DataKept ==
    ASSUME NEW y, cov'[y] = cov[y]
    PROVE  UnivData(y)' = UnivData(y) /\ ErrData(y)' = ErrData(y)
BY DEF UnivData, ErrData, NamesRead

\* What is read up to x depends on the files up to x only.
LEMMA ReadCovKept ==
    ASSUME NEW x \in Dates, x >= FirstRead,
           \A y \in Dates : y <= x => cov'[y] = cov[y]
    PROVE  ReadCov(x)' = ReadCov(x)
<1>1. \A y \in UnivWindow(x) \cup ErrWindow(x) : cov'[y] = cov[y]
  BY WindowInDates
<1>2. UnivDays(x)' = UnivDays(x)
  BY <1>1, DataKept DEF UnivDays, UnivWindow, FirstDateInclusive
<1>3. ErrDays(x)' = ErrDays(x)
  BY <1>1, DataKept DEF ErrDays, ErrWindow, FirstDateInclusive
<1>4. ASSUME NEW t, NEW y
      PROVE  (y \in ErrDays(x) /\ t \in ErrData(y))' <=> (y \in ErrDays(x) /\ t \in ErrData(y))
  BY <1>1, <1>3, DataKept DEF ErrDays
<1>5. LoadCorrs(InitOLS, x)' = LoadCorrs(InitOLS, x)
  <2>1. (LoadCorrs(InitOLS, x).univ)' = LoadCorrs(InitOLS, x).univ
    BY <1>2 DEF LoadCorrs, InitOLS, NoLoads
  <2>2. (LoadCorrs(InitOLS, x).err)' = LoadCorrs(InitOLS, x).err
    BY <1>4 DEF LoadCorrs, InitOLS, NoLoads
  <2>. QED  BY <2>1, <2>2 DEF LoadCorrs
<1>. QED  BY <1>2, <1>3, <1>5 DEF ReadCov, CalculateCoeffs, ValidErrWeights, NPts

LEMMA ReadCovFields ==
    ASSUME NEW x \in Dates
    PROVE  /\ \A y \in Dates :
                /\ ReadCov(x).univ[y] = IF y \in UnivDays(x) THEN 1 ELSE 0
                /\ \A t \in Tickers : ReadCov(x).err[t][y] =
                     IF y \in ErrDays(x) /\ t \in ErrData(y) THEN 1 ELSE 0
           /\ ReadCov(x).never = FALSE
           /\ ReadCov(x).goodUniv <=> Cardinality(UnivDays(x)) = UnivFitDays
           /\ ReadCov(x).goodErr => Cardinality(ErrDays(x)) = ErrFitDays
<1>1. ReadCov(x).univ = LoadCorrs(InitOLS, x).univ /\ ReadCov(x).err = LoadCorrs(InitOLS, x).err
  BY DEF ReadCov, CalculateCoeffs
<1>2. ASSUME NEW y \in Dates PROVE LoadCorrs(InitOLS, x).univ[y] = IF y \in UnivDays(x) THEN 1 ELSE 0
  BY DEF LoadCorrs, InitOLS, NoLoads
<1>3. ASSUME NEW y \in Dates, NEW t \in Tickers
      PROVE  LoadCorrs(InitOLS, x).err[t][y] = IF y \in ErrDays(x) /\ t \in ErrData(y) THEN 1 ELSE 0
  BY DEF LoadCorrs, InitOLS, NoLoads
<1>4. ReadCov(x).never = FALSE
  BY DEF ReadCov, CalculateCoeffs
<1>5. ReadCov(x).goodUniv <=> Cardinality(UnivDays(x)) = UnivFitDays
  BY DEF ReadCov, CalculateCoeffs
<1>6. ReadCov(x).goodErr => Cardinality(ErrDays(x)) = ErrFitDays
  BY DEF ReadCov, CalculateCoeffs
<1>. QED  BY <1>1, <1>2, <1>3, <1>4, <1>5, <1>6

LEMMA ModelFields ==
    ASSUME NEW x \in Dates, model = ReadCov(x), x >= FirstRead
    PROVE  /\ \A y \in Dates : model.univ[y] = IF y \in UnivDays(x) THEN 1 ELSE 0
           /\ \A y \in Dates, t \in Tickers :
                model.err[t][y] = IF y \in ErrDays(x) /\ t \in ErrData(y) THEN 1 ELSE 0
           /\ {y \in Dates : model.univ[y] > 0} = UnivDays(x)
           /\ {y \in Dates : \E t \in Tickers : model.err[t][y] > 0} \subseteq ErrDays(x)
           /\ model.goodUniv => Cardinality(UnivDays(x)) = UnivFitDays
           /\ model.goodErr => Cardinality(ErrDays(x)) = ErrFitDays
<1>1. \A y \in Dates : model.univ[y] = IF y \in UnivDays(x) THEN 1 ELSE 0
  BY ReadCovFields
<1>2. \A y \in Dates, t \in Tickers :
        model.err[t][y] = IF y \in ErrDays(x) /\ t \in ErrData(y) THEN 1 ELSE 0
  BY ReadCovFields
<1>3. UnivDays(x) \subseteq Dates  BY WindowInDates DEF UnivDays
<1>4. (model.goodUniv => Cardinality(UnivDays(x)) = UnivFitDays)
      /\ (model.goodErr => Cardinality(ErrDays(x)) = ErrFitDays)
  BY ReadCovFields
<1>. QED  BY <1>1, <1>2, <1>3, <1>4

\* n days of a window of n dates are all of them.
LEMMA FullWindow ==
    ASSUME NEW x \in Int, NEW n \in Nat \ {0}, NEW days \in SUBSET ((x - (n - 1))..x),
           Cardinality(days) = n
    PROVE  days = (x - (n - 1))..x
<1>1. IsFiniteSet((x - (n - 1))..x) /\ Cardinality((x - (n - 1))..x) = n
  BY FS_Interval
<1>. QED  BY <1>1, FS_Subset

\* No step disturbs what was read up to x when it writes later files only.
LEMMA ReadAtKept ==
    ASSUME NEW x \in Dates, ReadAt(x), FilesTyped, JobTyped,
           \A y \in Dates : y <= x => cov'[y] = cov[y],
           UNCHANGED <<conf, model, idate>>,
           pc' \in Busy => pc \in Busy, pc' = "weights" => pc = "weights"
    PROVE  ReadAt(x)'
<1>1. x >= FirstRead  BY DEF ReadAt
<1>2. ReadCov(x)' = ReadCov(x)  BY <1>1, ReadCovKept
<1>. QED  BY <1>2 DEF ReadAt

LEMMA InitIInv == Init => IInv
BY LinModAssumption DEF Init, IInv, FilesTyped, JobTyped, ModelRead, NoFile, NoData, Dates, Pcs, Busy

\* read_cov and calculate_coeffs in a step that leaves the files.
LEMMA ReadStep ==
    ASSUME IInv, NEW x \in Dates, x >= FirstRead, NEW next \in {"day", "weights"},
           ReadAndCalculate(x, next), UNCHANGED <<conf, cov, idate>>,
           next = "day" => x < idate /\ \A y \in Dates : x < y /\ y < idate => y \in conf.excluded,
           next = "weights" => x = idate
    PROVE  ModelRead' /\ pc' \in {next, "assert", "exit21"}
<1>1. PICK stale \in BOOLEAN :
        /\ pc' = IF ReadOutcome(x, stale) = "ok" THEN next ELSE ReadOutcome(x, stale)
        /\ model' = IF ReadOutcome(x, stale) = "ok" THEN ReadCov(x) ELSE NewModel
  BY DEF ReadAndCalculate
<1>2. ReadOutcome(x, stale) \in {"ok", "assert", "exit21"}
  BY DEF ReadOutcome, Reading
<1>3. CASE ReadOutcome(x, stale) = "ok"
  <2>1. ReadCov(x)' = ReadCov(x)  BY ReadCovKept
  <2>2. ReadAt(x)'  BY <1>1, <1>3, <2>1 DEF ReadAt, Busy
  <2>. QED  BY <1>1, <1>3, <2>2 DEF ModelRead
<1>4. CASE ReadOutcome(x, stale) # "ok"
  <2>1. model' = NewModel /\ pc' \in {"assert", "exit21"}  BY <1>1, <1>2, <1>4
  <2>2. NewModel' = NewModel  BY DEF NewModel, NoLoads
  <2>. QED  BY <2>1, <2>2 DEF ModelRead
<1>. QED  BY <1>3, <1>4

LEMMA NextIInv == IInv /\ [Next]_vars => IInv'
<1> SUFFICES ASSUME IInv, [Next]_vars PROVE IInv'  OBVIOUS
<1> USE DEF IInv
<1>a. FirstRead \in Nat /\ FirstRead >= 1 /\ FirstRead + NPast = FirstToday
  BY LinModAssumption DEF FirstRead, Dates
<1>1. CASE NextDate
  <2>1. FilesTyped' /\ JobTyped'
    BY <1>1, Bounds DEF NextDate, FilesTyped, JobTyped, disk, job, Dates, Pcs, Busy
  <2>2. ModelRead'
    <3>1. CASE model = NewModel /\ pc \in {"begin", "idle", "assert", "exit21"}
      BY <1>1, <3>1 DEF NextDate, job, ModelRead, NewModel, NoLoads
    <3>2. CASE \E x \in Dates : ReadAt(x)
      <4>1. PICK x \in Dates : ReadAt(x)  BY <3>2
      <4>2. ReadAt(x)'  BY <1>1, <4>1, ReadAtKept DEF NextDate, job, disk
      <4>. QED  BY <4>2 DEF ModelRead
    <3>. QED  BY <3>1, <3>2 DEF ModelRead
  <2>. QED  BY <2>1, <2>2
<1>2. CASE StartJob
  <2>1. PICK x \in Dates : IsFirst(x, DatesToWrite) /\ idate' = x  BY <1>2 DEF StartJob
  <2>2. x > FirstRead
    <3>1. PICK y \in (today - NPast + 1)..x : ~Exists(y)  BY <2>1 DEF IsFirst, DatesToWrite
    <3>. QED  BY <1>a, <3>1, Bounds DEF FilesTyped, FirstRead, Dates
  <2>3. d2' \in Dates
    BY <1>2, <1>a, Bounds DEF StartJob, FinalSigDay, FilesTyped, FirstRead, Dates
  <2>4. FilesTyped' /\ JobTyped'
    BY <1>2, <2>1, <2>2, <2>3 DEF StartJob, FilesTyped, JobTyped, disk, Pcs, Busy, NoData
  <2>5. ModelRead'
    BY <1>2 DEF StartJob, ModelRead, NewModel, NoLoads
  <2>. QED  BY <2>4, <2>5
<1>3. CASE BeginDay
  <2>1. FilesTyped'  BY <1>3 DEF BeginDay, FilesTyped, disk
  <2>2. CASE model.never
    <3>1. idate - 1 \in Dates /\ idate - 1 >= FirstRead /\ idate - 1 < idate
      <4>1. idate \in 1..MaxDate /\ idate > FirstRead /\ MaxDate \in Nat
        BY <1>3, Bounds DEF BeginDay, JobTyped, Busy, Dates
      <4>. QED  BY <4>1, <1>a DEF Dates
    <3>2. ReadAndCalculate(idate - 1, "day") /\ UNCHANGED <<conf, cov, idate>>
      BY <1>3, <2>2 DEF BeginDay, GetPrevIdate, disk
    <3>3. \A y \in Dates : idate - 1 < y /\ y < idate => y \in conf.excluded
      BY <3>1 DEF JobTyped, Dates
    <3>4. ModelRead' /\ pc' \in {"day", "assert", "exit21"}
      BY <3>1, <3>2, <3>3, ReadStep
    <3>5. JobTyped'  BY <1>3, <3>4 DEF BeginDay, JobTyped, ClearCov, NoData, Pcs, Busy
    <3>. QED  BY <2>1, <3>4, <3>5
  <2>3. CASE ~model.never
    <3>1. model # NewModel  BY <2>3 DEF NewModel
    <3>2. PICK x \in Dates : ReadAt(x)  BY <3>1 DEF ModelRead
    <3>3. ReadAt(x)'
      BY <1>3, <2>3, <3>2, ReadAtKept DEF BeginDay, disk, Busy
    <3>4. JobTyped'  BY <1>3, <2>3 DEF BeginDay, JobTyped, ClearCov, NoData, Pcs, Busy
    <3>. QED  BY <2>1, <3>3, <3>4 DEF ModelRead
  <2>. QED  BY <2>2, <2>3
<1>4. ASSUME NEW t \in Tickers, Update(t) PROVE IInv'
  <2>1. FilesTyped' /\ JobTyped'
    BY <1>4 DEF Update, FilesTyped, JobTyped, disk, Pcs, Busy
  <2>2. PICK x \in Dates : ReadAt(x)  BY <1>4 DEF Update, ModelRead
  <2>3. ReadAt(x)'  BY <1>4, <2>2, ReadAtKept DEF Update, disk
  <2>. QED  BY <2>1, <2>3 DEF ModelRead
<1>5. CASE WriteSignal
  <2>1. FilesTyped' /\ JobTyped'
    BY <1>5 DEF WriteSignal, FilesTyped, JobTyped, Pcs, Busy
  <2>2. PICK x \in Dates : ReadAt(x)  BY <1>5 DEF WriteSignal, ModelRead
  <2>3. ReadAt(x)'  BY <1>5, <2>2, ReadAtKept DEF WriteSignal, Busy
  <2>. QED  BY <2>1, <2>3 DEF ModelRead
<1>6. CASE OpenCov
  <2>1. FilesTyped' /\ JobTyped'
    BY <1>6 DEF OpenCov, FilesTyped, JobTyped, Pcs, Busy
  <2>2. PICK x \in Dates : ReadAt(x)  BY <1>6 DEF OpenCov, ModelRead
  <2>3. \A y \in Dates : y <= x => cov'[y] = cov[y]
    BY <1>6, <2>2 DEF OpenCov, ReadAt, Busy, FilesTyped, JobTyped, Dates
  <2>4. ReadAt(x)'  BY <1>6, <2>2, <2>3, ReadAtKept DEF OpenCov, Busy
  <2>. QED  BY <2>1, <2>4 DEF ModelRead
<1>7. CASE SavePiece
  <2>1. FilesTyped'  BY <1>7 DEF SavePiece, FilesTyped, JobTyped
  <2>2. JobTyped'  BY <1>7 DEF SavePiece, JobTyped, Pcs, Busy
  <2>3. PICK x \in Dates : ReadAt(x)  BY <1>7 DEF SavePiece, ModelRead
  <2>4. \A y \in Dates : y <= x => cov'[y] = cov[y]
    BY <1>7, <2>3 DEF SavePiece, ReadAt, Busy, FilesTyped, JobTyped, Dates
  <2>5. pc' \in {"read", "save"}  BY <1>7 DEF SavePiece
  <2>6. ReadAt(x)'  BY <1>7, <2>3, <2>4, <2>5, ReadAtKept DEF SavePiece, Busy
  <2>. QED  BY <2>1, <2>2, <2>6 DEF ModelRead
<1>8. CASE ReadBack
  <2>1. FilesTyped'  BY <1>8 DEF ReadBack, FilesTyped, disk
  <2>2. idate \in Dates /\ idate >= FirstRead
    BY <1>8, <1>a DEF ReadBack, JobTyped, Busy, Dates
  <2>3. ReadAndCalculate(idate, "weights") /\ UNCHANGED <<conf, cov, idate>>
    BY <1>8 DEF ReadBack, disk
  <2>4. ModelRead' /\ pc' \in {"weights", "assert", "exit21"}
    BY <2>2, <2>3, ReadStep
  <2>5. JobTyped'  BY <1>8, <2>4 DEF ReadBack, JobTyped, Pcs, Busy
  <2>. QED  BY <2>1, <2>4, <2>5
<1>9. CASE WriteWeights
  <2>1. FilesTyped'  BY <1>9 DEF WriteWeights, FilesTyped
  <2>2. PICK x \in Dates : ReadAt(x)  BY <1>9 DEF WriteWeights, ModelRead
  <2>3. x = idate /\ x >= FirstRead /\ model = ReadCov(x)  BY <1>9, <2>2 DEF WriteWeights, ReadAt
  <2>4. ReadCov(x)' = ReadCov(x)  BY <1>9, <2>3, ReadCovKept DEF WriteWeights
  <2>5. CASE pc' = "idle" /\ UNCHANGED idate
    <3>1. JobTyped'  BY <1>9, <2>5 DEF WriteWeights, JobTyped, Pcs, Busy
    <3>2. ReadAt(x)'  BY <1>9, <2>3, <2>4, <2>5 DEF WriteWeights, ReadAt, Busy
    <3>. QED  BY <2>1, <3>1, <3>2 DEF ModelRead
  <2>6. ASSUME pc' = "begin", NEW z \in Dates, IsFirst(z, LaterDates), idate' = z
        PROVE  JobTyped' /\ ReadAt(x)'
    <3>1. z > idate /\ z <= d2  BY <2>6 DEF IsFirst, LaterDates
    <3>2. JobTyped'
      BY <1>9, <1>a, <2>3, <2>6, <3>1 DEF WriteWeights, JobTyped, Pcs, Busy, Dates
    <3>3. ASSUME NEW y \in Dates, x < y, y < z PROVE y \in conf.excluded
      BY <2>3, <2>6, <3>1, <3>3 DEF IsFirst, LaterDates, JobTyped, Dates
    <3>4. ReadAt(x)'  BY <1>9, <2>3, <2>4, <2>6, <3>1, <3>3 DEF WriteWeights, ReadAt, Busy
    <3>. QED  BY <3>2, <3>4
  <2>. QED  BY <1>9, <2>1, <2>5, <2>6 DEF WriteWeights, ModelRead
<1>10. CASE Crash
  <2>1. FilesTyped' /\ JobTyped'
    BY <1>10 DEF Crash, FilesTyped, JobTyped, disk, Pcs, Busy, NoData
  <2>2. ModelRead'  BY <1>10 DEF Crash, ModelRead, NewModel, NoLoads
  <2>. QED  BY <2>1, <2>2
<1>11. CASE UNCHANGED vars
  <2>1. FilesTyped' /\ JobTyped'
    BY <1>11 DEF vars, FilesTyped, JobTyped
  <2>2. ModelRead'
    <3>1. CASE model = NewModel /\ pc \in {"begin", "idle", "assert", "exit21"}
      BY <1>11, <3>1 DEF vars, ModelRead, NewModel, NoLoads
    <3>2. CASE \E x \in Dates : ReadAt(x)
      <4>1. PICK x \in Dates : ReadAt(x)  BY <3>2
      <4>2. ReadAt(x)'  BY <1>11, <4>1, ReadAtKept DEF vars
      <4>. QED  BY <4>2 DEF ModelRead
    <3>. QED  BY <3>1, <3>2 DEF ModelRead
  <2>. QED  BY <2>1, <2>2
<1>. QED  BY <1>1, <1>2, <1>3, <1>4, <1>5, <1>6, <1>7, <1>8, <1>9, <1>10, <1>11 DEF Next, JobStep

\* In every reachable state, the model in force is what read_cov makes, now, of
\* the files up to an earlier date.
THEOREM ModelOfTheFiles == Spec => []IInv
BY InitIInv, NextIInv, PTL DEF Spec

\* For every choice of the constants: while a date is processed, the model has
\* loaded no file of that date or of a later one.
THEOREM PredictsFromThePast == Spec => []NoLookAhead
<1>1. IInv => NoLookAhead
  <2> SUFFICES ASSUME IInv, pc \in {"day", "open", "save", "read"}, NEW y \in Loaded
               PROVE  y < idate
    BY DEF NoLookAhead
  <2>1. PICK x \in Dates : ReadAt(x)  BY DEF IInv, ModelRead
  <2>2. x >= FirstRead /\ x < idate /\ model = ReadCov(x)  BY <2>1 DEF ReadAt, Busy
  <2>3. y \in UnivDays(x) \cup ErrDays(x)  BY <2>2, ModelFields DEF Loaded
  <2>4. y <= x  BY <2>2, <2>3, WindowInDates DEF UnivDays, ErrDays
  <2>. QED  BY <2>2, <2>4 DEF IInv, JobTyped, Loaded, Dates
<1>. QED  BY <1>1, ModelOfTheFiles, PTL

\* A good model has loaded a whole window of dates, each once.
THEOREM GoodModelsAreWhole == Spec => []GoodModelIsWindow
<1>1. IInv => GoodModelIsWindow
  <2> SUFFICES ASSUME IInv PROVE GoodModelIsWindow  OBVIOUS
  <2>1. CASE model = NewModel  BY <2>1 DEF NewModel, GoodModelIsWindow
  <2>2. CASE model # NewModel
    <3>1. PICK x \in Dates : ReadAt(x)  BY <2>2 DEF IInv, ModelRead
    <3>2. x >= FirstRead /\ model = ReadCov(x)  BY <3>1 DEF ReadAt
    <3>3. ASSUME model.goodUniv
          PROVE  /\ IsWindow({y \in Dates : model.univ[y] > 0}, UnivFitDays)
                 /\ \A y \in Dates : model.univ[y] <= 1
      <4>1. UnivDays(x) \subseteq (x - (UnivFitDays - 1))..x /\ Cardinality(UnivDays(x)) = UnivFitDays
        BY <3>2, <3>3, ModelFields, WindowInDates DEF UnivDays
      <4>2. UnivDays(x) = (x - (UnivFitDays - 1))..x
        BY <4>1, FullWindow, Bounds DEF Dates
      <4>3. {y \in Dates : model.univ[y] > 0} = (x - (UnivFitDays - 1))..x
        BY <3>2, <4>2, ModelFields
      <4>4. \A y \in Dates : model.univ[y] <= 1  BY <3>2, ModelFields
      <4>. QED  BY <4>3, <4>4 DEF IsWindow, FirstDateInclusive
    <3>4. ASSUME model.goodErr
          PROVE  /\ IsWindow({y \in Dates : \E t \in Tickers : model.err[t][y] > 0}, ErrFitDays)
                 /\ \A t \in Tickers, y \in Dates : model.err[t][y] <= 1
      <4>1. ErrDays(x) \subseteq (x - (ErrFitDays - 1))..x /\ Cardinality(ErrDays(x)) = ErrFitDays
        BY <3>2, <3>4, ModelFields, WindowInDates DEF ErrDays
      <4>2. ErrDays(x) = (x - (ErrFitDays - 1))..x
        BY <4>1, FullWindow, Bounds DEF Dates
      <4>3. ASSUME NEW y \in ErrDays(x)
            PROVE  y \in Dates /\ \E t \in Tickers : model.err[t][y] > 0
        <5>1. y \in Dates  BY <3>2, WindowInDates DEF ErrDays
        <5>2. ErrData(y) # {}  BY DEF ErrDays
        <5>3. ErrData(y) \subseteq Tickers  BY <5>1 DEF IInv, FilesTyped, ErrData
        <5>4. PICK t \in Tickers : t \in ErrData(y)  BY <5>2, <5>3
        <5>5. model.err[t][y] = 1  BY <3>2, <5>1, <5>4, ModelFields
        <5>. QED  BY <5>1, <5>5
      <4>4. {y \in Dates : \E t \in Tickers : model.err[t][y] > 0} = (x - (ErrFitDays - 1))..x
        BY <3>2, <4>2, <4>3, ModelFields
      <4>5. \A t \in Tickers, y \in Dates : model.err[t][y] <= 1
        BY <3>2, ModelFields
      <4>. QED  BY <4>4, <4>5 DEF IsWindow, FirstDateInclusive
    <3>. QED  BY <3>3, <3>4 DEF GoodModelIsWindow
  <2>. QED  BY <2>1, <2>2
<1>. QED  BY <1>1, ModelOfTheFiles, PTL

\* A job that has gone on from the date before has the model that a job started
\* on the date would read, however many jobs have been killed.
THEOREM RestartsChangeNothing == Spec => []RestartTransparent
<1>1. IInv => RestartTransparent
  <2> SUFFICES ASSUME IInv, pc \in {"day", "open"}, idate - 1 \notin conf.excluded
               PROVE  model = ReadCov(idate - 1)
    BY DEF RestartTransparent, GetPrevIdate
  <2>1. PICK x \in Dates : ReadAt(x)  BY DEF IInv, ModelRead
  <2>2. x < idate /\ \A y \in Dates : x < y /\ y < idate => y \in conf.excluded
    BY <2>1 DEF ReadAt, Busy
  <2>3. x = idate - 1  BY <2>2, Bounds DEF IInv, JobTyped, Dates
  <2>. QED  BY <2>1, <2>3 DEF ReadAt
<1>. QED  BY <1>1, ModelOfTheFiles, PTL

(***************************************************************************)
(* The residuals.  Without excluded dates a job goes from the first missing*)
(* file to the last date: it writes no file that is there, and none behind *)
(* which there is a later one, but for dates that jobs no longer look at.  *)
(* So no job touches the window before a file that has error data, and the *)
(* data were residuals of what the window still holds.                     *)
(***************************************************************************)
NoFileBehind ==
    \A y, z \in Dates : y < z /\ Exists(z) /\ ~Exists(y) => y <= today - NPast

AtWork ==
    pc \in Busy \cup {"weights"} =>
        /\ d2 = today - 1 /\ idate <= d2
        /\ \A z \in Dates : z > idate => ~Exists(z)
        /\ \A y \in Dates : today - NPast < y /\ y < idate => Exists(y)
        /\ pc \in {"begin", "day", "open"} => ~Exists(idate)
        /\ pc \in {"save", "read", "weights"} => cov[idate].pieces >= 0

WindowThere(d) == \A x \in UnivWindow(GetPrevIdate(d)) : UnivData(x) # {}
ErrorsFollow ==
    /\ \A d \in Dates : cov[d].err # {} => d > FirstRead /\ WindowThere(d)
    /\ pc \in {"day", "open"} /\ data.err # {} => WindowThere(idate)

FilesOpened == \A d \in Dates : cov[d] = NoFile \/ cov[d].pieces >= 0

RInv == FilesOpened /\ (conf.excluded = {} => NoFileBehind /\ AtWork /\ ErrorsFollow)

LEMMA InitRInv == Init => RInv
BY DEF Init, RInv, FilesOpened, NoFileBehind, AtWork, ErrorsFollow, Exists, NoFile, Busy

\* The window before d holds what it held if no earlier file has changed.
LEMMA WindowKept ==
    ASSUME NEW d \in Dates, d > FirstRead, WindowThere(d),
           \A y \in Dates : y < d => cov'[y] = cov[y]
    PROVE  WindowThere(d)'
<1>1. d - 1 \in Dates /\ d - 1 >= FirstRead
  BY LinModAssumption DEF FirstRead, Dates
<1>2. \A x \in UnivWindow(d - 1) : x \in Dates /\ x < d
  BY <1>1, WindowInDates DEF Dates
<1>3. UnivWindow(d - 1)' = UnivWindow(d - 1)  BY DEF UnivWindow, FirstDateInclusive
<1>4. \A x \in UnivWindow(d - 1) : UnivData(x)' = UnivData(x)  BY <1>2 DEF UnivData
<1>. QED  BY <1>3, <1>4 DEF WindowThere, GetPrevIdate

\* A date whose model is good has a window with universal data before it.
LEMMA GoodModelHasWindow ==
    ASSUME IInv, conf.excluded = {}, pc = "day", model.goodUniv
    PROVE  WindowThere(idate)
<1>1. PICK x \in Dates : ReadAt(x)  BY DEF IInv, ModelRead
<1>2. x = idate - 1 /\ x >= FirstRead /\ model = ReadCov(x)
  BY <1>1, Bounds DEF ReadAt, Busy, IInv, JobTyped, Dates
<1>3. Cardinality(UnivDays(x)) = UnivFitDays  BY <1>2, ModelFields
<1>4. UnivDays(x) \subseteq (x - (UnivFitDays - 1))..x  BY <1>2, WindowInDates DEF UnivDays
<1>5. UnivDays(x) = (x - (UnivFitDays - 1))..x
  BY <1>3, <1>4, FullWindow, Bounds DEF Dates
<1>6. UnivDays(x) = UnivWindow(x)  BY <1>2, <1>5, WindowInDates
<1>. QED  BY <1>2, <1>6 DEF UnivDays, WindowThere, GetPrevIdate

\* A step that leaves the files and the date leaves the conjuncts about files.
LEMMA FilesKept ==
    ASSUME RInv, FilesTyped, UNCHANGED <<conf, today, cov>>
    PROVE  /\ FilesOpened' /\ (conf.excluded = {} => NoFileBehind')
           /\ conf.excluded = {} =>
                \A d \in Dates : cov'[d].err # {} => d > FirstRead /\ WindowThere(d)'
           /\ \A d \in Dates : Exists(d)' = Exists(d)
           /\ \A d : WindowThere(d)' = WindowThere(d)
<1>1. \A d : WindowThere(d)' = WindowThere(d)
  BY DEF WindowThere, UnivWindow, FirstDateInclusive, GetPrevIdate, UnivData
<1>2. \A d \in Dates : Exists(d)' = Exists(d)  BY DEF Exists, NoFile
<1>3. FilesOpened' /\ (conf.excluded = {} => NoFileBehind')
  BY <1>2 DEF RInv, FilesOpened, NoFileBehind, NoFile
<1>. QED  BY <1>1, <1>2, <1>3 DEF RInv, ErrorsFollow

\* A step that writes the file of the date at work.
LEMMA FileWritten ==
    ASSUME IInv, RInv, pc \in {"open", "save"}, UNCHANGED <<conf, today, idate, d2>>,
           \A y \in Dates \ {idate} : cov'[y] = cov[y],
           cov'[idate].pieces >= 0,
           conf.excluded = {} /\ cov'[idate].err # {} => WindowThere(idate),
           pc' \in {"save", "read"}
    PROVE  RInv'
<1>1. idate \in Dates /\ idate > FirstRead /\ pc \in Busy
  BY DEF IInv, JobTyped, Busy
<1>2. \A y \in Dates \ {idate} : cov'[y] = cov[y]  OBVIOUS
<1>3. cov'[idate] # NoFile  BY DEF NoFile
<1>4. FilesOpened'  BY <1>2 DEF RInv, FilesOpened, NoFile
<1>5. ASSUME conf.excluded = {} PROVE NoFileBehind' /\ AtWork' /\ ErrorsFollow'
  <2>1. NoFileBehind /\ AtWork /\ ErrorsFollow  BY <1>5 DEF RInv
  <2>ahead. \A z \in Dates : z > idate => ~Exists(z)  BY <1>1, <2>1 DEF AtWork
  <2>behind. \A y \in Dates : today - NPast < y /\ y < idate => Exists(y)
    BY <1>1, <2>1 DEF AtWork
  <2>here. Exists(idate)' /\ \A y \in Dates \ {idate} : Exists(y)' = Exists(y)
    BY <1>2, <1>3 DEF Exists, NoFile
  <2>5. today \in Int /\ NPast \in Int /\ \A y \in Dates : y \in Int
    BY LinModAssumption DEF IInv, FilesTyped, Dates
  <2>6. NoFileBehind'
    <3> SUFFICES ASSUME NEW y \in Dates, NEW z \in Dates, y < z, Exists(z)', ~Exists(y)'
                 PROVE  y <= today - NPast
      BY DEF NoFileBehind
    <3>1. y # idate /\ ~Exists(y)  BY <2>here
    <3>2. z <= idate  BY <2>ahead, <2>here, <2>5, <1>1
    <3>. QED  BY <2>behind, <2>5, <3>1, <3>2, <1>1
  <2>7. AtWork'
    BY <1>1, <1>2, <2>1, <2>ahead, <2>behind, <2>here, <2>5 DEF AtWork, Busy
  <2>8. ASSUME NEW d \in Dates, cov'[d].err # {} PROVE d > FirstRead /\ WindowThere(d)'
    <3>1. d <= idate
      <4>1. d # idate => cov[d] # NoFile  BY <1>2, <2>8 DEF NoFile
      <4>. QED  BY <4>1, <2>ahead, <2>5, <1>1 DEF Exists
    <3>2. d > FirstRead /\ WindowThere(d)
      <4>1. CASE d = idate  BY <4>1, <1>1, <1>5, <2>8
      <4>2. CASE d # idate  BY <4>2, <1>2, <2>1, <2>8 DEF ErrorsFollow
      <4>. QED  BY <4>1, <4>2
    <3>3. \A y \in Dates : y < d => cov'[y] = cov[y]  BY <1>1, <1>2, <2>5, <3>1
    <3>. QED  BY <3>2, <3>3, WindowKept
  <2>. QED  BY <2>6, <2>7, <2>8 DEF ErrorsFollow
<1>. QED  BY <1>4, <1>5 DEF RInv

LEMMA NextRInv == IInv /\ RInv /\ [Next]_vars => RInv'
<1> SUFFICES ASSUME IInv, RInv, [Next]_vars PROVE RInv'  OBVIOUS
<1>a. NPast \in Nat \ {0} /\ today \in Int /\ MaxDate \in Nat /\ \A y \in Dates : y \in Int
  BY LinModAssumption DEF IInv, FilesTyped, Dates
<1>1. CASE NextDate
  <2>1. today' = today + 1 /\ UNCHANGED <<conf, cov, pc, idate, d2, data>> /\ pc \notin Busy \cup {"weights"}
    BY <1>1 DEF NextDate, disk, job, Stopped, Busy
  <2>2. \A d \in Dates : Exists(d)' = Exists(d) /\ WindowThere(d)' = WindowThere(d)
    BY <2>1 DEF WindowThere, UnivWindow, FirstDateInclusive, GetPrevIdate, UnivData, Exists, NoFile
  <2>3. FilesOpened'  BY <2>1 DEF RInv, FilesOpened, NoFile
  <2>4. ASSUME conf.excluded = {} PROVE NoFileBehind'
    BY <1>a, <2>1, <2>2, <2>4 DEF RInv, NoFileBehind
  <2>5. AtWork'  BY <2>1 DEF AtWork
  <2>6. ASSUME conf.excluded = {} PROVE ErrorsFollow'
    BY <2>1, <2>2, <2>6 DEF RInv, ErrorsFollow, Busy
  <2>. QED  BY <2>1, <2>3, <2>4, <2>5, <2>6 DEF RInv
<1>2. CASE StartJob
  <2>1. PICK x \in Dates : IsFirst(x, DatesToWrite) /\ idate' = x  BY <1>2 DEF StartJob
  <2>2. pc' = "begin" /\ d2' = today - 1 /\ data' = NoData /\ UNCHANGED <<conf, today, cov>>
    BY <1>2 DEF StartJob, FinalSigDay, disk
  <2>3. ASSUME conf.excluded = {} PROVE AtWork'
    <3>0. NoFileBehind  BY <2>3 DEF RInv
    <3>1. x <= today - 1 /\ \E y \in (today - NPast + 1)..x : ~Exists(y)
      BY <2>1 DEF IsFirst, DatesToWrite, FinalSigDay
    <3>2. \A y \in Dates : today - NPast < y /\ y < x => Exists(y)
      <4> SUFFICES ASSUME NEW y \in Dates, today - NPast < y, y < x, ~Exists(y) PROVE FALSE
        OBVIOUS
      <4>1. y \in (today - NPast + 1)..y /\ y <= today - 1  BY <1>a, <3>1
      <4>2. y \in DatesToWrite  BY <2>3, <4>1 DEF DatesToWrite, FinalSigDay
      <4>. QED  BY <1>a, <2>1, <4>2 DEF IsFirst
    <3>3. ~Exists(x) /\ x > today - NPast
      <4>1. PICK y \in (today - NPast + 1)..x : ~Exists(y)  BY <3>1
      <4>2. y \in Dates /\ y > today - NPast /\ y <= x
        BY <1>a, <4>1, Bounds DEF IInv, FilesTyped, Dates
      <4>. QED  BY <1>a, <3>2, <4>1, <4>2
    <3>4. \A z \in Dates : z > x => ~Exists(z)  BY <1>a, <3>0, <3>3 DEF NoFileBehind
    <3>. QED  BY <2>1, <2>2, <3>1, <3>2, <3>3, <3>4, FilesKept DEF AtWork, IInv
  <2>4. ASSUME conf.excluded = {} PROVE ErrorsFollow'
    BY <2>2, <2>4, FilesKept DEF ErrorsFollow, NoData, IInv
  <2>. QED  BY <2>2, <2>3, <2>4, FilesKept DEF RInv, IInv
<1>3. CASE BeginDay
  <2>1. UNCHANGED <<conf, today, cov, idate, d2>> /\ data' = NoData /\ pc = "begin"
    BY <1>3 DEF BeginDay, ClearCov, disk
  <2>2. pc' \in {"day", "assert", "exit21"}
    BY <1>3 DEF BeginDay, ReadAndCalculate, ReadOutcome, Reading
  <2>3. ASSUME conf.excluded = {} PROVE AtWork' /\ ErrorsFollow'
    <3>1. AtWork'  BY <1>a, <2>1, <2>2, <2>3, FilesKept DEF AtWork, RInv, IInv, Busy, JobTyped
    <3>2. ErrorsFollow'  BY <2>1, <2>3, FilesKept DEF ErrorsFollow, NoData, IInv
    <3>. QED  BY <3>1, <3>2
  <2>. QED  BY <2>1, <2>3, FilesKept DEF RInv, IInv
<1>4. ASSUME NEW t \in Tickers, Update(t) PROVE RInv'
  <2>1. UNCHANGED <<conf, today, cov, pc, idate, d2>> /\ pc = "day"
        /\ (data'.err # {} => data.err # {} \/ model.goodUniv)
    BY <1>4 DEF Update, disk
  <2>2. ASSUME conf.excluded = {} PROVE AtWork' /\ ErrorsFollow'
    <3>1. AtWork'  BY <2>1, <2>2, FilesKept DEF AtWork, RInv, IInv, Busy, JobTyped
    <3>2. data'.err # {} => WindowThere(idate)
      BY <2>1, <2>2, GoodModelHasWindow DEF RInv, ErrorsFollow
    <3>3. ErrorsFollow'  BY <2>1, <2>2, <3>2, FilesKept DEF ErrorsFollow, IInv
    <3>. QED  BY <3>1, <3>3
  <2>. QED  BY <2>1, <2>2, FilesKept DEF RInv, IInv
<1>5. CASE WriteSignal
  <2>1. UNCHANGED <<conf, today, cov, idate, d2, data>> /\ pc = "day" /\ pc' = "open"
    BY <1>5 DEF WriteSignal
  <2>2. ASSUME conf.excluded = {} PROVE AtWork' /\ ErrorsFollow'
    <3>1. AtWork'  BY <2>1, <2>2, FilesKept DEF AtWork, RInv, IInv, Busy, JobTyped
    <3>2. ErrorsFollow'  BY <2>1, <2>2, FilesKept DEF ErrorsFollow, RInv, IInv
    <3>. QED  BY <3>1, <3>2
  <2>. QED  BY <2>1, <2>2, FilesKept DEF RInv, IInv
<1>6. CASE OpenCov
  <2>1. cov' = [cov EXCEPT ![idate] = [pieces |-> 0, univ |-> data.univ, err |-> data.err]]
        /\ pc = "open" /\ pc' = "save" /\ UNCHANGED <<conf, today, idate, d2>>
    BY <1>6 DEF OpenCov
  <2>here. idate \in Dates /\ cov'[idate] = [pieces |-> 0, univ |-> data.univ, err |-> data.err]
        /\ \A y \in Dates \ {idate} : cov'[y] = cov[y]
    BY <2>1 DEF IInv, FilesTyped, JobTyped
  <2>err. cov'[idate].pieces >= 0 /\ cov'[idate].err = data.err  BY <2>here
  <2>4. conf.excluded = {} /\ data.err # {} => WindowThere(idate)
    BY <2>1 DEF RInv, ErrorsFollow
  <2>. QED  BY <2>1, <2>here, <2>err, <2>4, FileWritten
<1>7. CASE SavePiece
  <2>1. pc = "save" /\ pc' \in {"save", "read"} /\ UNCHANGED <<conf, today, idate, d2>>
        /\ cov' = [cov EXCEPT ![idate].pieces = @ + 1]
    BY <1>7 DEF SavePiece
  <2>2. idate \in Dates /\ cov[idate] \in [pieces : Int, univ : SUBSET Tickers, err : SUBSET Tickers]
    BY DEF IInv, FilesTyped, JobTyped
  <2>3. cov'[idate].pieces = cov[idate].pieces + 1 /\ cov'[idate].err = cov[idate].err
        /\ \A y \in Dates \ {idate} : cov'[y] = cov[y]
    BY <2>1, <2>2 DEF IInv, FilesTyped
  <2>4. cov'[idate].pieces >= 0
    <3>1. cov[idate].pieces >= -1  BY <2>2 DEF RInv, FilesOpened, NoFile
    <3>. QED  BY <2>2, <2>3, <3>1
  <2>5. conf.excluded = {} /\ cov[idate].err # {} => WindowThere(idate)
    BY <2>2 DEF RInv, ErrorsFollow
  <2>. QED  BY <2>1, <2>3, <2>4, <2>5, FileWritten
<1>8. CASE ReadBack
  <2>1. UNCHANGED <<conf, today, cov, idate, d2, data>> /\ pc = "read"
    BY <1>8 DEF ReadBack, disk
  <2>2. pc' \in {"weights", "assert", "exit21"}
    BY <1>8 DEF ReadBack, ReadAndCalculate, ReadOutcome, Reading
  <2>3. ASSUME conf.excluded = {} PROVE AtWork' /\ ErrorsFollow'
    <3>1. AtWork'  BY <2>1, <2>2, <2>3, FilesKept DEF AtWork, RInv, IInv, Busy, JobTyped
    <3>2. ErrorsFollow'  BY <2>1, <2>2, <2>3, FilesKept DEF ErrorsFollow, IInv
    <3>. QED  BY <3>1, <3>2
  <2>. QED  BY <2>1, <2>3, FilesKept DEF RInv, IInv
<1>9. CASE WriteWeights
  <2>1. UNCHANGED <<conf, today, cov, d2, data>> /\ pc = "weights" /\ pc' \in {"idle", "begin"}
    BY <1>9 DEF WriteWeights
  <2>2. ASSUME conf.excluded = {} PROVE AtWork' /\ ErrorsFollow'
    <3>1. ErrorsFollow'  BY <2>1, <2>2, FilesKept DEF ErrorsFollow, IInv
    <3>2. CASE pc' = "idle"  BY <3>1, <3>2 DEF AtWork, Busy
    <3>3. CASE pc' = "begin"
      <4>1. PICK x \in Dates : IsFirst(x, LaterDates) /\ idate' = x
        BY <1>9, <3>3 DEF WriteWeights
      <4>2. idate \in Dates /\ idate < x /\ x <= d2
            /\ \A y \in Dates : idate < y /\ y <= d2 => x <= y
        BY <2>2, <4>1 DEF IsFirst, LaterDates, IInv, JobTyped
      <4>3. /\ d2 = today - 1 /\ \A z \in Dates : z > idate => ~Exists(z)
            /\ \A y \in Dates : today - NPast < y /\ y < idate => Exists(y)
            /\ cov[idate].pieces >= 0
        BY <2>1, <2>2 DEF RInv, AtWork, Busy
      <4>4. Exists(idate)  BY <4>3 DEF Exists, NoFile
      <4>5. \A y \in Dates : y < x => y <= idate  BY <1>a, <4>2, <4>3
      <4>6. \A y \in Dates : today - NPast < y /\ y < x => Exists(y)
        BY <1>a, <4>2, <4>3, <4>4, <4>5
      <4>7. \A z \in Dates : z >= x => ~Exists(z)  BY <1>a, <4>2, <4>3
      <4>8. AtWork'
        BY <1>a, <2>1, <3>3, <4>1, <4>2, <4>3, <4>6, <4>7, FilesKept DEF AtWork, IInv
      <4>. QED  BY <3>1, <4>8
    <3>. QED  BY <2>1, <3>2, <3>3
  <2>. QED  BY <2>1, <2>2, FilesKept DEF RInv, IInv
<1>10. CASE Crash
  <2>1. UNCHANGED <<conf, today, cov>> /\ pc' = "idle"  BY <1>10 DEF Crash, disk
  <2>2. AtWork' /\ (conf.excluded = {} => ErrorsFollow')
    BY <2>1, FilesKept DEF AtWork, Busy, ErrorsFollow, IInv
  <2>. QED  BY <2>1, <2>2, FilesKept DEF RInv, IInv
<1>11. CASE UNCHANGED vars
  <2>1. UNCHANGED <<conf, today, cov, pc, idate, d2, data>>  BY <1>11 DEF vars
  <2>2. ASSUME conf.excluded = {} PROVE AtWork' /\ ErrorsFollow'
    <3>1. AtWork'  BY <2>1, <2>2, FilesKept DEF AtWork, RInv, IInv, Busy, JobTyped
    <3>2. ErrorsFollow'  BY <2>1, <2>2, FilesKept DEF ErrorsFollow, RInv, IInv
    <3>. QED  BY <3>1, <3>2
  <2>. QED  BY <2>1, <2>2, FilesKept DEF RInv, IInv
<1>. QED  BY <1>1, <1>2, <1>3, <1>4, <1>5, <1>6, <1>7, <1>8, <1>9, <1>10, <1>11 DEF Next, JobStep

\* Without excluded dates, a file has error data only if every date of the
\* window before it has universal data, however many jobs have been killed.
THEOREM ErrorsAreResiduals == Spec => []ResidualsOfGoodModel
<1>1. IInv /\ RInv => ResidualsOfGoodModel
  <2> SUFFICES ASSUME IInv, RInv, conf.excluded = {}, NEW d \in Dates, ErrData(d) # {}
               PROVE  WindowThere(d)
    BY DEF ResidualsOfGoodModel, WindowThere
  <2>1. cov[d].err # {}  BY DEF ErrData
  <2>. QED  BY <2>1 DEF RInv, ErrorsFollow
<1>2. Spec => []RInv  BY ModelOfTheFiles, InitRInv, NextRInv, PTL DEF Spec
<1>. QED  BY <1>1, <1>2, ModelOfTheFiles, PTL
=============================================================================
