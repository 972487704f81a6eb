------------------------------ MODULE Extension ------------------------------
(***************************************************************************)
(* Micro-controllers count with few bits; the host extends what it         *)
(* receives with the last value that it knows.                             *)
(***************************************************************************)
EXTENDS Integers

\* (n - last) & (turn - 1)
Ahead(last, n, turn) == (n - last) % turn

\* The next value not below the last one.
ExtendForward(last, n, turn) == last + Ahead(last, n, turn)

\* The value nearest to the last one: a difference of half a turn or more is
\* negative.
ExtendNearest(last, n, turn) ==
  last + Ahead(last, n, turn)
       - (IF Ahead(last, n, turn) >= turn \div 2 THEN turn ELSE 0)
=============================================================================
