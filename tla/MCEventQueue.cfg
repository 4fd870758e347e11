SPECIFICATION FairSpec
CONSTANTS
  Peers <- MCPeers
  MaxCount = 3
  MaxBytes = 3
  MaxPayload = 2
  MaxSequence = 4
INVARIANTS
  Gapless
  Accounted
  StoppedAfterDrain
PROPERTIES
  OverflowIsTerminal
  TerminalIsReported
