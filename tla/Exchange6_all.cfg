CONSTANTS
  Plans <- MCPlans
  ClientHw <- MCClientHw
SPECIFICATION Spec
INVARIANTS
  RelayPath
  AnswerForRequest
  ExactAnswer
  
  ClientMAC
  
\* The network boot ends.
CHECK_DEADLOCK FALSE
