SPECIFICATION FairSpec
CONSTANTS
  Setups <- Everything
  Channels <- LineChannels
INVARIANTS
  NoPanic
  CreditsExact
  NothingForgotten
PROPERTIES
  ImplementsCreditFlow
  ImplementsPacketNet
