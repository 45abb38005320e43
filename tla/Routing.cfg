\* Three servers of different weights that leave the pool and come back.
CONSTANTS
  Servers <- ThreeServers
  weight <- Weights
  MaxPicks = 8
SPECIFICATION Spec
INVARIANTS
  TypeOK
  FairShares
