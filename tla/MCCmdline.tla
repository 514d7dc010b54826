----------------------------- MODULE MCCmdline ------------------------------
(***************************************************************************)
(* Four slots.  Every line of up to four words over a vocabulary that      *)
(* holds each option, a repeated key, a value of each kind and malformed   *)
(* words ("=", "mode", "mode=dod=test", "junk"); and lines of five and six *)
(* words, of which the fifth is stored beyond the array and the sixth is   *)
(* lost.                                                                   *)
(***************************************************************************)
EXTENDS Cmdline

Short == { <<"test">>, <<"skip", "DATA">>, <<"mode", "dod">>, <<"mode", "slow">>,
           <<"mode", "dod", "test">>, <<>> }

Words ==
  Short \cup
  { <<"mbr">>, <<"force_chs">>, <<"check">>, <<"skip", "OTHER">>, <<"debug", "99">>,
    <<"debug", "15">>, <<"mode">>, <<"mode", "OCD">>, <<"junk">> }

\* The words of these tokens, and the numbers and modes among them.
MCWord == {"test", "skip", "DATA", "OTHER", "mode", "dod", "slow", "OCD", "mbr",
           "force_chs", "check", "debug", "99", "15", "junk"}

MCatoi(s) == CASE s = "15" -> 15 [] s = "99" -> 99 [] OTHER -> 0
MCstricmp(s, t) == IF s = t \/ <<s, t>> = <<"dod", "DOD">> THEN 0 ELSE 1

MCLines ==
  (UNION { [1 .. n -> Words] : n \in 0 .. 4 })
    \cup [1 .. 5 -> Short] \cup [1 .. 6 -> {<<"test">>, <<"mode", "dod">>, <<>>}]
=============================================================================
