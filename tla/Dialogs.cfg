\* Two users or userbots to choose from, two updates under way.
SPECIFICATION Spec
CONSTANTS
    Target = {"t1", "t2"}
    Slot = {u1, u2}
    None = None
CONSTRAINT Bound
SYMMETRY SlotSymmetry
INVARIANTS
    DataIsThere
    ViewerIsHeard
    TapsActOnWhatIsShown
    OnlyAdminsAct
CHECK_DEADLOCK FALSE
