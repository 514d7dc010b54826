------------------------------- MODULE MCRtc --------------------------------
(***************************************************************************)
(* Every day from 1970 to 2037, the last whole year whose seconds fit      *)
(* TLC's integers (TimerProofs covers the years up to 2069).  The program  *)
(* is started from the 27th to the end of every month, in years around the *)
(* leap day rules, in every phase of a second that ends a day, an hour, a  *)
(* minute or none; the chip's guard is as short as it may be.              *)
(***************************************************************************)
EXTENDS Rtc

MCBootDates ==
  { <<y, m, d>> : y \in {1970, 1972, 1999, 2000, 2001, 2036}, m \in 1 .. 12, d \in 27 .. 31 }

MCTimes ==
  { [hour |-> 9, min |-> 10, sec |-> 39], [hour |-> 9, min |-> 10, sec |-> 59],
    [hour |-> 9, min |-> 59, sec |-> 59], [hour |-> 23, min |-> 59, sec |-> 59] }
=============================================================================
