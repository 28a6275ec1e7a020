CONSTANT MaxSeg = 2
SPECIFICATION FairSpec
INVARIANT NothingDropped
PROPERTY LeaveReleasesHandler
PROPERTY NoDataAfterFin
