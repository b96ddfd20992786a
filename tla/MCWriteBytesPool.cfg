CONSTANTS
  r1 = r1
  r2 = r2
  o1 = o1
  o2 = o2
  NilWB = NilWB
  Req <- MCReq
  Objs <- MCObjs
  ByteVals = {0, 1}
SPECIFICATION BSpec
INVARIANT DoneBytesMatchWrites
