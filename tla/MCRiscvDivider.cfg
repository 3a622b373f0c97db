SPECIFICATION DivideSpec
CONSTANTS
    MSB <- MCMSB
    OneHot <- MCOneHot
INVARIANTS
    RestoringDivision
PROPERTIES
    ResultIsIsa
    ImplementsDividerSpec
