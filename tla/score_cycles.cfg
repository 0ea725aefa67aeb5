SPECIFICATION Spec
CONSTANTS
    MaxId = 2
    Inlets <- MCInlets
    Practice = {"cycles"}
INVARIANT SaveRestores
