---------------------------- MODULE MCGovernance ----------------------------
(* Model-checking instances of Governance.                                 *)
EXTENDS Governance, TLC

\* Proposals, values and workers are interchangeable.
GovernanceSymmetry ==
    Permutations(Traces) \cup Permutations(Values) \cup Permutations(Workers)
=============================================================================
