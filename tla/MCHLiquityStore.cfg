CONSTANTS
    BaseField <- MCBaseField
    DerivedField = {"trove"}
    DerivedFrom <- MCDerivedFrom
    ByIdentity = {"hchfTokenAllowanceOfHchfContract"}
    Allowance = {"hchfTokenAllowanceOfHchfContract"}
    Association = {"userHasAssociatedWithHchf"}
    Request = {r1, r2}
    Listener = {l1}
    MaxVersion = 2
SPECIFICATION Spec
SYMMETRY MCSymmetry
INVARIANT ShowsRealValues
PROPERTIES ApprovalShownOnReturn ImplementsDataStore
