SPECIFICATION FairSpec
CONSTANTS
  Process = {old, new1, new2}
  old = old
  new1 = new1
  new2 = new2
  NoProcess = NoProcess
  MaxVersion = 3
  Required <- Releases
  Downgraders <- NoneOrOld
  Refused <- RefusedFiles
  NoDown <- NoDownFiles
INVARIANTS RecordedIsSchema ReadyIsCovered LoneDowngrade
PROPERTIES NewestStarts
CHECK_DEADLOCK FALSE
