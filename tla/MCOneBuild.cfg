SPECIFICATION AgenticSpec
CONSTANTS
  Requests = {r1}
  Builds = {b1, b2}
INVARIANTS OneBuild
CHECK_DEADLOCK FALSE
