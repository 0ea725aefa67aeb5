SPECIFICATION Spec
CONSTANTS
  Threads = {t1, t2}
  NoThread = NoThread
  Printers = {t1}
  MaxTokens = 4
INVARIANTS CollectsAlone
