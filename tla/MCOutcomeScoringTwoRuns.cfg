SPECIFICATION MCSpec
CHECK_DEADLOCK FALSE
CONSTANTS
  Nothing = Nothing
  f1 = f1
  f2 = f2
  fd = fd
  r1 = r1
  r2 = r2
  rd = rd
  i1 = i1
  q1 = q1
  q2 = q2
  b1 = b1
  b2 = b2
  Up <- Directions
  Requests = {q1, q2}
  Forecasts = {f1, f2, fd}
  RunOf <- RunsOfForecasts
  IndexOf <- IndexOfForecasts
  LiveRuns = {r1, r2}
  Bundles = {b1, b2}
  Close <- Closes
  Returns = {0, 1}
  Actors = {a1}
  Blind = {q1}
  Writers = {w1}
  Operators = {o1}
  MaxJudgments = 1
  CommandJudgments = 2
  MaxCrashes = 0
  Crowds = {"requests", "commands"}
  macro = macro
  news = news
  t1 = t1
  t2 = t2
  e1 = e1
  e2 = e2
  e3 = e3
  Absent = Absent
  Researchers = {macro, news}
  Targets = {t1, t2}
  Items = {e1, e2, e3}
  Scope <- Scopes
  Ingested <- IngestTimes
  Snapshots <- SnapshotFiles
  Editions = {4, 9}
  Drafts <- DraftKinds
  Runtimes = {current, other}
  Scale = 1000
  Tie = 6
  RankTie = 33
  MaxAttempts = 3
  Demo = FALSE
INVARIANT Reflectable
