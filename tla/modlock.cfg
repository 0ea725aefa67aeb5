SPECIFICATION FairSpec
CONSTANTS
  Threads = {t1, t2, t3}
  NoThread = NoThread
  Printers = {t1}
  MaxTokens = 3
INVARIANTS CollectsAloneUnlessPrinting CountersExact
PROPERTIES BottleneckOpens
