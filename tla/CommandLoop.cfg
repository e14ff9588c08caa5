SPECIFICATION FairSpec
CONSTANTS
  MaxCmd = 2
  Scripts <- TwoCommands
  MaxTroubles = 2
INVARIANTS TypeOK RebootsPaidFor AppliedWasExecuted VerifiedIsInEffect OutcomeOnRecord
PROPERTIES WritesInOrder EventuallyAcked
