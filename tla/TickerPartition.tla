---------------------------- MODULE TickerPartition ----------------------------
(***************************************************************************)
(* How MCore::loop_tickers_thread shares the n tickers of a market day     *)
(* among T ticker threads: thread i runs the positions Offset1 up to, but  *)
(* not including, Offset2 of the ticker vector.  Positions and threads are *)
(* counted from 0, as in the code.                                         *)
(***************************************************************************)
EXTENDS Integers

(***************************************************************************)
(* The chunk length, ceil((float)n / T) in the code.  For n below 2^24 the *)
(* conversion to float is exact and the quotient rounds to the right side; *)
(* beyond that the code may compute a neighbouring value, which is why the *)
(* operators below take the chunk as an argument of its own.               *)
(***************************************************************************)
TickerEachThread(n, T) == (n + T - 1) \div T

Offset1(c, i) == i * c

(* Mutant: the end of a slice is one too far.                              *)
Offset2Mutant(n, T, c, i) ==
    IF (i + 1) * c > n \/ i = T - 1 THEN n ELSE (i + 1) * c + 1

Offset2(n, T, c, i) ==
    IF (i + 1) * c > n \/ i = T - 1 THEN n ELSE (i + 1) * c

(* The positions thread i processes; none when it starts past the end.     *)
Slice(n, T, c, i) ==
    IF Offset1(c, i) < n THEN Offset1(c, i) .. (Offset2(n, T, c, i) - 1) ELSE {}

================================================================================
