SPECIFICATION EngineSpec
CONSTANTS
  p1 = p1
  p2 = p2
  h1 = h1
  c1 = c1
  o1 = o1
  o2 = o2
  a1 = a1
  d1 = d1
  d2 = d2
  k1 = k1
  b1 = b1
  x1 = x1
  x2 = x2
  Absent = Absent
  Nobody = Nobody
  NoRow = NoRow
  Processes <- OneProcess
  Handlers <- OneHandler
  Couriers <- OneCourier
  Orders <- TwoOrders
  Rings <- NearAndFar
  MaxOrders = 1
  MaxRowRetries = 2
  MaxAsked = 2
  MaxWaits = 2
  MaxFaults = 1
  Admins <- OneAdmin
  DecayJobs <- TwoDecays
  CalibrationJobs <- OneCalibration
  NewZones <- NewZone
  Patches <- SomePatches
  Poisson <- DensityRadius
  PeakTimes = 70
  InitialPlatform = 3
  InitialStore = 87
  TargetPlatform = 6
  TargetStore = 84
  StepPlatform = 2
  StepStore <- MinusTwo
  StepMonths = 2
  MaxMonth = 5
  MaxEdits = 2
  TurnsDuringRun = FALSE
  Batches <- OneBatch
  BatchOrders <- OneOrder
  BatchCouriers <- TwoProcesses
  BatchAdmins <- TwoBatchers
  NoBatch = NoBatch
  NoCourier = NoCourier
  ExpireAction = "cancelled"
  MaxBatchCalls = 4
  MaxJobFaults = 1
INVARIANTS
  DispatchInv
  ZonesKept
PROPERTIES
  BatchesKept
  JobsKeepUp
  NoOrderForgotten
CHECK_DEADLOCK FALSE
