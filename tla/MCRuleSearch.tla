----------------------------- MODULE MCRuleSearch -----------------------------
(* Rules of up to five hashes among six. *)
EXTENDS RuleSearch

SixHashes == 2..7
===============================================================================
