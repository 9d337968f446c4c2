----------------------------- MODULE MCFrontEnd -----------------------------
(***************************************************************************)
(* Instances of FrontEnd for TLC: rules without a pipe, and pipes whose    *)
(* processes have simple rules.                                            *)
(***************************************************************************)
EXTENDS FrontEnd, PipePrograms

AllPrograms == RuleFamily \union PipeFamily
TwoWriters  == WithChild
ArrayRules  == {OneRule(s) : s \in OnArray}

=============================================================================
