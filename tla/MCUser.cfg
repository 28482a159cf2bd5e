SPECIFICATION UserSpec
CONSTANTS
  Turns = {1, 2, 3, 4}
  Review = Review
  MAX_TURNS = 3
  PRESERVE_RECENT_MESSAGES = 3
  MAX_LLM_MESSAGES = 14
  MaxToolCalls = 1
  MaxClears = 1
  MaxSaveFailures = 1
  MaxRestarts = 1
  Tabs = {t1, t2}
  MaxKeys = 2
  MaxSockets = 2
  MaxSecrets = 1
  MaxInbox = 2
SYMMETRY Symmetry
INVARIANTS UserTypeOK SameKnowledge ToolsFollowTheirCalls SessionHasAHolder KeysAgree
PROPERTIES RecentMessagesKept CompactionBoundsTurns
CHECK_DEADLOCK FALSE
