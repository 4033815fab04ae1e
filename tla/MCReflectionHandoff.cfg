SPECIFICATION MCSpec
CHECK_DEADLOCK FALSE
SYMMETRY Processes
CONSTANTS
  Nothing = Nothing
  Versions = {1, 2, 3}
  Timed = {1}
  Steady = {t1}
  SteadyDrafts = 3
  Texts = {t1, t2}
  Operators = {o1, o2}
  MaxTime = 3
  MaxDrafts = 4
  MaxFaults = 1
  MaxKills = 1
  Indexes = {1, 2, 3, 4, 5}
  Analysts = {strategist}
  Critic = critic
  Cio = cio
  Optional = {scout}
  e1 = e1
  e2 = e2
  Evidence = {e1, e2}
  Returns <- FirstReturns
  OtherReturns <- RestReturns
  Percentiles = {95}
  Published = {1, 3, 4}
  Cutoff = 1
  Close = 3
INVARIANT SoundInTurn StoredOnce FindingsFair
