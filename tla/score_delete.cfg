SPECIFICATION Spec
CONSTANTS
    MaxId = 2
    Inlets <- MCInlets
    Practice = {"links", "delete moved"}
INVARIANT NeedsShown
