SPECIFICATION Spec
CONSTANTS
  p1 = p1
  p2 = p2
  p3 = p3
  h1 = h1
  h2 = h2
  None = None
  Peers = {p1, p2, p3}
  TxHashes = {h1, h2}
  Preferred = {p1}
  RelayPeers = {p2}
  TXID_RELAY_DELAY = 1
  NONPREF_PEER_TX_DELAY = 1
  OVERLOADED_PEER_TX_DELAY = 1
  GETDATA_TX_INTERVAL = 2
  MAX_PEER_TX_ANNOUNCEMENTS = 1
  MAX_PEER_TX_REQUEST_IN_FLIGHT = 1
  MaxBack = 1
  Worlds <- MCWorlds
INVARIANTS IndexSane WithinLimits
PROPERTY FollowsRules EveryoneAsked
