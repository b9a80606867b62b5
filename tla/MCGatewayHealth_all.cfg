SPECIFICATION FairSpec
INVARIANTS
  OneFaultReported
  ClosedWhenReported
  QuietAfterFaultTick
PROPERTY HandlerFaultDisables
