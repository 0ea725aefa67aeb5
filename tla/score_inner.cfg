SPECIFICATION Spec
CONSTANTS
    MaxId = 2
    Inlets <- MCInlets
    Practice = {"delay", "inner delay"}
INVARIANT NeedsShown
