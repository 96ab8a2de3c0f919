\* Three timers.
SPECIFICATION TimerLiveSpec
CONSTANTS
  Timer = {t1, t2, t3}
  NoTimer = NoTimer
INVARIANTS
  DeletedIsQuiet
  OneTimeFiresOnce
PROPERTIES
  TimerIsServed
\* All timers may be done, and threads may block each other.
CHECK_DEADLOCK FALSE
