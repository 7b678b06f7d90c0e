SPECIFICATION FairSpec
CONSTANTS
  c1 = c1
  c2 = c2
  c3 = c3
  a1 = a1
  a2 = a2
  Cores = {c1, c2}
  Addrs = {a1, a2}
  L1Size = 1
  L2Size = 1
  NoAddr = NoAddr
  NoCore = NoCore
  Workloads <- Progress
PROPERTIES
  RequestsComplete
