------------------------------ MODULE MCVersions ------------------------------
(***************************************************************************)
(* Versions for TLC: short and long texts, texts that mean the same, one   *)
(* that is no version, and policies of three revisions with any latest and *)
(* minimum version among them.                                             *)
(***************************************************************************)
EXTENDS Versions

Plain(number)  == <<0, number>>
Padded(number) == <<1, number>>

AllTexts ==
  { <<Plain(0)>>,                                    \* 0
    <<Plain(0), Plain(9)>>,                          \* 0.9, which does not parse
    <<Plain(1)>>,                                    \* 1
    <<Plain(1), Plain(2)>>,                          \* 1.2
    <<Plain(1), Padded(2), Plain(0)>>,               \* 1.02.0
    <<Plain(1), Plain(10)>>,                         \* 1.10
    <<Plain(1), Plain(2), Plain(0), Plain(1)>>,      \* 1.2.0.1
    <<Plain(2), Plain(0), Plain(0), Plain(0), Plain(1)>> }  \* one part too many

AllPolicies ==
  [latest : AllTexts, minimum : AllTexts, current : {<<Plain(1)>>}, revision : -1 .. 1,
   sound : {TRUE}]
  \cup [latest : {<<Plain(1)>>}, minimum : {<<Plain(1)>>}, current : {<<Plain(1)>>},
        revision : {1}, sound : {FALSE}]
=============================================================================
