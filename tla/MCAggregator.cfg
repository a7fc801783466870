\* Ingestion, windows, a full channel and shutdown.
SPECIFICATION FairSpec
CONSTANTS
  Cids = {a}
  Host = Host
  Metrics = {"exits"}
  BufferSize = 1
  MaxIngests = 2
  MaxTicks = 3
INVARIANTS
  TypeOK
  CountedOnce
  VectorsKept
PROPERTIES
  WindowsTile
  NamesImprove
  IngestedIsWritten
  StopEndsRun
  RowsNotPostponed
