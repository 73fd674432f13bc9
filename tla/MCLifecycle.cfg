\* The attempts of ConnectDatabase are the code's; one signal at a time waits in
\* sigCh, and a second one is sent when the first was received.
SPECIFICATION FairSpec
CONSTANTS
  DbAttempts = 3
  SigBuffer = 1
  MaxRequests = 1
INVARIANTS TypeOK ServesUnderLock NothingLeft LockLeftOnFailure ExitTellsFailure
PROPERTY StopsWhenTold
CHECK_DEADLOCK FALSE
