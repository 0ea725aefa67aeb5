SPECIFICATION Spec
CONSTANTS
    MaxId = 2
    Inlets <- MCInlets
    Practice = {"links", "negative start"}
INVARIANT NeedsShown
