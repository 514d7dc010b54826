------------------------------ MODULE MCClock -------------------------------
(***************************************************************************)
(* Five-bit counters, rates of 1 (a failed measurement) to 19, and        *)
(* microseconds that wrap at 22: seven milliseconds, three and a half      *)
(* seconds.                                                                *)
(***************************************************************************)
EXTENDS Clock

With(level, family, vendor) ==
  [ac |-> TRUE, id |-> TRUE, keepsflags |-> FALSE,
   level |-> level, family |-> family, vendor |-> vendor, hastsc |-> TRUE]

\* A 386, a 486 and a Cyrix without CPUID, with it a 486 and a Cyrix of
\* family 5 without the counter, and CPUs that have it.
MCCpus ==
  { [With(0, 0, "other") EXCEPT !.ac = FALSE, !.id = FALSE, !.hastsc = FALSE],
    [With(0, 0, "other") EXCEPT !.id = FALSE, !.hastsc = FALSE],
    [With(0, 0, "Cyrix") EXCEPT !.id = FALSE, !.keepsflags = TRUE, !.hastsc = FALSE],
    [With(1, 4, "AMD") EXCEPT !.hastsc = FALSE],
    [With(1, 5, "Cyrix") EXCEPT !.hastsc = FALSE],
    With(0, 0, "other"), With(1, 4, "Intel"), With(1, 6, "Intel"), With(2, 5, "Cyrix"),
    With(1, 15, "other"), With(2, 6, "other") }
=============================================================================
