SPECIFICATION Spec
CONSTANTS
    MaxId = 2
    Inlets <- MCInlets
    Practice = {"links", "align groups"}
INVARIANT NeedsShown
