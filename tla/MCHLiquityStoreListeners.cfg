CONSTANTS
    BaseField <- MCTwoFields
    DerivedField = {"trove"}
    DerivedFrom <- MCDerivedFrom
    ByIdentity = {"hchfTokenAllowanceOfHchfContract"}
    Allowance = {"hchfTokenAllowanceOfHchfContract"}
    Association = {}
    Request = {r1, r2}
    Listener = {l1, l2}
    MaxVersion = 2
SPECIFICATION FairSpec
INVARIANTS ListenersUpToDate StateChangeSuffices
PROPERTY EventuallyCurrent
