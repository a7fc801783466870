\* Two callers, two containers, pids that are reused.
SPECIFICATION FairSpec
CONSTANTS
  Pids = {1}
  Cids = {a, b}
  Host = Host
  Callers = {s, t}
  MaxStarts = 2
INVARIANTS
  TypeOK
  LiveNotForeign
PROPERTIES
  AnswersWereThere
  RemovedForgotten
