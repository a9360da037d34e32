CONSTANTS
    Token = {hchf}
    Request = {c1, c2}
    MaxVersion = 3
SPECIFICATION AssociationFairSpec
PROPERTIES AssociationShown WaitEnds EventuallyShown
