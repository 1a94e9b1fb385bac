\* Two threads submit; the owner also calls Finish, up to three times, and destroys.
CONSTANTS
  Clients = {owner, other}
  Owner = owner
  Finishers = {owner}
  Jobs = {j1, j2, j3}
  Clear = Clear
  Finalize = Finalize
  MaxFinish = 3
SPECIFICATION ThreadSpec
INVARIANTS NeverIdle WakeupComing
PROPERTY Promise
CHECK_DEADLOCK FALSE
