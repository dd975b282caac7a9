SPECIFICATION Spec
CONSTANTS
  MAX_PACKET_ID = 2
  MAX_MESSAGE_HANDLERS = 3
  Surroundings = {{"refuse"}}
  MaxOut = 2
  MaxFifo = 3
  MaxWhole = 3
  MaxCredits = 2
INVARIANTS DeviceActionsHandled
