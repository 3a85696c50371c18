SPECIFICATION ReportsSpec
CONSTANTS
  Callers <- MCCallers
  Size <- MCSize
  Ceilings <- MCCeilings
  Voice <- MCVoice
  Readers = {r1, r2}
  SUMMARY_TTL = 2
  Span = 1
  PageSize = 1
INVARIANTS
  ReportsTypeOK
  SummaryCoherent
  SummaryFresh
  PagesMissNothing
