SPECIFICATION FairSpec
CONSTANTS
  Wifi = wifi
  Drivers = {wifi, wired}
  MaxTx = 2
  MaxRx = 2
INVARIANTS
  TypeOK
  RxBufOwned
  TxBufOwned
  FramesInOrder
PROPERTIES
  RxHandsOff
  RxDrains
  TxReaches
