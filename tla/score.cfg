SPECIFICATION Spec
CONSTANTS
    MaxId = 2
    Inlets <- MCInlets
    Practice = {"links", "delay", "busses"}
INVARIANTS
    TablesAgree
    NeedsShown
    AutomaticMeansDone
    SaveRestores
    UpdateButtonSuffices
