SPECIFICATION FairSpec
CONSTANTS
  MAX_PACKET_ID = 2
  MAX_MESSAGE_HANDLERS = 3
  Surroundings = {{"refuse"}, {"merge", "cut"}}
  MaxOut = 2
  MaxFifo = 2
  MaxWhole = 1
  MaxCredits = 2
INVARIANTS  HandlersMatch
 
