\* Two lines and a stranger's message, two faults, a buffer at its limit; two
\* calls of the console, which may be started again.
SPECIFICATION ConsoleLiveSpec
CONSTANTS
  Text <- MCText
  MaxSent = 2
  MaxStray = 1
  MaxFaults = 2
  SubResults = {TRUE, FALSE}
  OverLimit = {TRUE, FALSE}
  Pts = {p1}
  Prog = Prog
  Typed <- MCTyped
  NoPts = NoPts
  MaxCalls = 2
  MaxStarts = 2
INVARIANTS
  LinesAccountedFor
  CommandsAreCalled
PROPERTIES
  LinesGetTheirTurn
\* All lines are stored and nobody types.
CHECK_DEADLOCK FALSE
