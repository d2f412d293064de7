-------------------------- MODULE MC_SubspaceRelay --------------------------
(* Small instance of SubspaceRelay for TLC.                                 *)
EXTENDS SubspaceRelay

\* Operation names, names, ops-specs and rules spelled as character
\* sequences; a word without "=" or "," is one character.
MC_Spell ==
  [s \in {"", "post", "vote", "model", "g", "gp", "=", "p=", "p=,", "e"} |->
     CASE s = ""    -> <<>>
       [] s = "gp"  -> <<"g", "p">>
       [] s = "p="  -> <<"p", "=">>
       [] s = "p=," -> <<"p", "=", ",">>
       [] OTHER     -> <<s>>]

MC_Vals == {"", "x"}
MC_Builders == {"b1"}
MC_Names == {"g"}
MC_OpsSpecs == {"p=", "p=,"}
MC_RulesStrs == {"", "e"}
MC_OpNames == {"post", "vote", "model"}
MC_VoteVals == {"yes", "maybe"}

\* Smaller inputs for the runs that also enumerate relay contents.
MC_ParseVals == {"x"}
MC_ParseVoteVals == {"maybe"}
MC_ParseOpNames == {"post", "vote"}
MC_ParseRulesStrs == {""}
MC_ParseOpsSpecs == {"p="}

\* The fail-closed run: a well-formed and a malformed ops-spec, and the vote
\* operation with a legal and an illegal vote value, so that Create, Join and
\* Op parses are each accepted and each rejected.
MC_FailOpsSpecs == {"p=", "p=,"}
MC_FailOpNames == {"vote"}
MC_FailVoteVals == {"yes", "maybe"}

\* Names and ops-specs whose concatenations coincide: "g" + "p=" = "gp" + "=".
MC_CollideNames == {"g", "gp"}
MC_CollideOpsSpecs == {"p=", "="}
=============================================================================
