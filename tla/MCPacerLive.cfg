CONSTANTS
  p1 = p1
  p2 = p2
  p3 = p3
  Scans <- MCScans
  CPUCap = 1
SPECIFICATION PFairSpec
PROPERTY PaceReturns
