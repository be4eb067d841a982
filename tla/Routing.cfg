SPECIFICATION Spec
CONSTANTS
  Client = {c1, c2}
  Coin = {btc}
  typed = typed
  lowered = lowered
  User <- MCUser
  Lower <- MCLower
  Agg = {sf3}
  Levels = {20, 5}
  Default = 20
  None = None
  MaxKeys = 2
INVARIANTS TypeOK CarriedOnce RuleFitsChannel
PROPERTY RoutedHome
