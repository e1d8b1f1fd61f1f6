\* One thread, a PDF of one page, an OCR call that never returns.
CONSTANTS
  w1 = w1
  e1 = e1
  None = None
  Threads = {w1}
  Engines = {e1}
  NumHosts = 1
  OcrTimeout = 1
  MaxPages = 1
  MaxRuns = 1
SPECIFICATION FairSpec
PROPERTY EveryRunEnds
