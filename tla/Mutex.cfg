\* Jobs of one key come in any order and finish in any way.
SPECIFICATION FairSpec
CONSTANTS
  j1 = j1  j2 = j2  j3 = j3  j4 = j4
  video = video  call = call
  Jobs = {j1, j2, j3, j4}
  Keys = {video, call}
  KeyOf <- Keyed
  NoJob = NoJob
INVARIANT OneAtATime
PROPERTIES ImplementsLock EveryoneServed
CHECK_DEADLOCK FALSE
