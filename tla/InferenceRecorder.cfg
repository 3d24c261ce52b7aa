SPECIFICATION RecorderFairSpec
CONSTANTS
  Queues = {q1, q2}
  MaxPointer = 2
CHECK_DEADLOCK FALSE
INVARIANTS SleepsInPeace
PROPERTIES KeepsPromise EveryPointerRecorded ShutdownEnds
