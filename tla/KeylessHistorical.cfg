SPECIFICATION KeylessSpec
CONSTANTS
  Attested <- MCAttested
  ServiceLists <- MCServices
  Bodies <- MCBodies
  Events <- MCEvents
  Voices <- MCVoices
  LastKey = 2
  MaxWords = 2
  KeylessEnd = 2
INVARIANT HistoricalReceiptPlacesNothing
CHECK_DEADLOCK FALSE
