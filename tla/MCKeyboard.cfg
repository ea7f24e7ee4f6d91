SPECIFICATION FairSpec
CONSTANTS
  KeySize = 3
  RawSize = 2
  Codes <- MCCodes
  MaxEvents = 4
PROPERTIES
  ImplementsQueues
  KeyEndsWait
