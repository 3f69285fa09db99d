SPECIFICATION CogSpec
CONSTANTS
  Roster <- ThreeThinkers
  Positions = {yes, no}
  Projects = {famille, atelier}
  Clients = {house, guest}
  MaxFilings = 3
  Claims <- SomeClaims
  MaxMemory = 3
  MaxRecords = 5
  MaxDirect = 1
  MaxSyntheses = 2
SYMMETRY Names
INVARIANTS CogTypeOK IndependentFirst VerdictIsSettled ConsensusIsLocal DissentTravels
