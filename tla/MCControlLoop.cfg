\* Two runs on one session, two goals.
CONSTANTS
    Runs = {r1, r2}
    Goals = {g1, g2}
    Plans = {p1, p2}
    NoGoal = NoGoal
    NoPlan = NoPlan
    MaxRepair = 2
    Memorable = {}
    KeepsTemp = TRUE
SPECIFICATION Spec
INVARIANTS
    ExecutesLicensed
PROPERTIES
    SuccessIsOwn
SYMMETRY Symmetry
CHECK_DEADLOCK FALSE
