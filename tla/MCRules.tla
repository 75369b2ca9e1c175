------------------------------ MODULE MCRules ------------------------------
(***************************************************************************)
(* Rules with messages that have no arguments.                             *)
(***************************************************************************)
EXTENDS Rules

TwoArgKeys == <<"arg0", "arg1">>
NoFields == {NoMatch.fields}
SamePath == [v \in RuleValues |-> v]

RulesSpec == RulesInit /\ [][AnyArgsNext]_ruleVars
=============================================================================
