SPECIFICATION VaultSpec
CONSTANTS
  Tabs = {t1}
  MaxKeys = 1
  MaxSockets = 2
  MaxSecrets = 1
  MaxInbox = 2
INVARIANTS RecoveryCodesRecover
CHECK_DEADLOCK FALSE
