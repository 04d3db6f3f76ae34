SPECIFICATION FairSpec
CONSTANTS
    A1 = A1
    A2 = A2
    A3 = A3
    B1 = B1
    PlanA = PlanA
    PlanB = PlanB
    Nobody = Nobody
    Attempts = {A1, A2, A3, B1}
    Plans = {PlanA, PlanB}
    PlanOf <- MCPlanOf
    Fragile = {A1, A3, B1}
INVARIANTS OnePost ReceiptsAgree
PROPERTIES LandedIsFinalized ImplementsSlot
\* Every attempt ends with a receipt or an error.
CHECK_DEADLOCK FALSE
