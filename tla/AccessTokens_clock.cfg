SPECIFICATION ClockSpec
CONSTANTS
  Token = {t1, t2}
  Revoker = {r1, r2}
  TicksPerSecond = 2
  Life = 2
  Horizon = 7
SYMMETRY Symmetry
INVARIANTS EndsEverySession LastSecondOnly
CHECK_DEADLOCK FALSE
