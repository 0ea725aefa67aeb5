SPECIFICATION Spec
CONSTANTS
    MaxId = 2
    Inlets <- MCInlets
    Practice = {"links", "busses", "bus groups"}
INVARIANT NeedsShown
