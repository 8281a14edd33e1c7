SPECIFICATION FairSpec
CONSTANT RetryCount = 10
INVARIANTS TypeOK ResultsAccounted PerformedAsReported TriesBounded OnlySchemaFinishes
PROPERTIES LostConnectionReplaced CallReturns
CHECK_DEADLOCK FALSE
