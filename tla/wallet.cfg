SPECIFICATION MCFairSpec
CONSTANTS
  Utxo = {"u1"}
  Caller = {"c1", "c2"}
  MaxTxs = 2
  MaxTip = 2
  MaxStops = 1
  Enforcer = {"enforcer"}
  SyncTask = {"sync"}
  TxHook = {"hook"}
  Scanner = {"scan"}
  Sender = {"send"}
  Unlocker = {"unlock"}
  MaxCalls = 1
INVARIANTS
  SyncedWalletComplete
  
  
PROPERTIES
  
  StaleBidsReleased
  CallsEnd
CHECK_DEADLOCK FALSE
