SPECIFICATION Spec
CONSTANTS
  bulk = bulk
  gas = gas
  Kind = {bulk, gas}
  Full = {bulk}
  Open = {gas}
  Cell = {0, 1, 2}
  Singular = {0}
  Pos = {0, 1, 2}
  Setups <- AllSetups
  MaxUpdates = 3
  Tiled <- MCTiled
  Near <- MCNear
  Pairs <- MCPairs
  None = None
INVARIANTS TypeOK Faithful HostNeverStale
