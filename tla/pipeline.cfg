\* Two threads, three hosts, PDFs of up to two pages, three runs.
CONSTANTS
  w1 = w1
  w2 = w2
  e1 = e1
  e2 = e2
  None = None
  Threads = {w1, w2}
  Engines = {e1, e2}
  NumHosts = 3
  OcrTimeout = 1
  MaxPages = 2
  MaxRuns = 3
SPECIFICATION FairSpec
INVARIANT TypeOK
INVARIANT EngineExclusive
INVARIANT AllHostsAsked
INVARIANT CorrectionMatches
PROPERTY OnlyPoolHolds
