-------------------------- MODULE MCHLiquityStore --------------------------
(* Small instances of HLiquityStore.                                       *)
EXTENDS HLiquityStore, TLC

MCTrove == "troveBeforeRedistribution"
MCAllowance == "hchfTokenAllowanceOfHchfContract"
MCAssociation == "userHasAssociatedWithHchf"

MCBaseField == {MCTrove, MCAllowance, MCAssociation}
MCDerivedFrom == [d \in {"trove"} |-> {MCTrove}]

\* Two base properties are enough where associations play no part.
MCTwoFields == {MCTrove, MCAllowance}

MCSymmetry == Permutations(Request) \cup Permutations(Listener)
=============================================================================
