------------------------------ MODULE MCLinMod ------------------------------
EXTENDS LinMod

CONSTANTS t1, t2
MCOrder == <<t1, t2>>

\* All dates; one date excluded; one date on which no ticker has points; one
\* on which one ticker has none, and another one whose points do not enter the
\* universal model; no error model.
All == [excluded |-> {}, quiet |-> {}, outside |-> {}, doErrorCorrectionModel |-> TRUE]
MCConfs ==
    {All,
     [All EXCEPT !.excluded = {6}],
     [All EXCEPT !.quiet = {6} \X Tickers],
     [All EXCEPT !.quiet = {<<5, t1>>, <<6, t2>>}, !.outside = {<<7, t1>>}],
     [All EXCEPT !.doErrorCorrectionModel = FALSE]}
=============================================================================
