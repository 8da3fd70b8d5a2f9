CONSTANTS
  Requests = {r1, r2}
  Drivers = {"memory", "postgres"}
  StoreFaults = TRUE
  Calls <- CatalogCalls
  InitialRows <- SeedRows
  JSONValues <- Values
SPECIFICATION ServerSpec
INVARIANTS ServerTypeOK AnswersFitEffects GracefulStop
PROPERTIES ImplementsRecords AnswersShowStore StopsAfterSignal
