CONSTANTS
  Forms <- MCForms
  RawQueries <- MCRawQueries
  Times <- MCTimes
SPECIFICATION Spec
INVARIANTS
  PairsAsSent
  PoolHoldsThePairs
  PageShowsPairs
  EscapesFitAndReadBack
  DateTrue
