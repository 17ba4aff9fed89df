SPECIFICATION Spec
CONSTANTS
  Programs = {"netboot", "bsdp", "bsdp0"}
  Retries = 1
  FDs <- MCFDs
  MaxPackets = 2
  Offers <- MCOffers
  Routes <- MCRoutes
INVARIANTS
  AnswersMatch
  NoLeakedSocket
  Configured
  Acknowledged
PROPERTIES
  OnlyStaleSteals
  
CHECK_DEADLOCK FALSE
