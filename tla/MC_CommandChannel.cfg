SPECIFICATION ChannelSpec
CONSTANTS
  c1 = c1
  c2 = c2
  Clients = {c1, c2}
  ChannelClients = {c1}
  Blocks <- MCBlocks
  Requests <- MCRequests
  Pages = {5, 6}
  Contents <- MCContents
  Packets <- MCPackets
  BlockBytes = 2
  CORE_CMD_GO = 22
  CORE_CMD_MAX_LEN = 8
  Workloads <- MCWorkloads
  MaxSignals = 1
INVARIANT CommandsComeBack
INVARIANT NothingBehindStructural
INVARIANT PakAnswerIsTrue
PROPERTY EmulationAnswersCrc
CHECK_DEADLOCK FALSE
