SPECIFICATION FairSpec
CONSTANTS
  t1 = t1
  t2 = t2
  g1 = g1
  Tasks = {t1, t2}
  Groups = {g1}
  GroupOf <- OneGroup
  Policies <- MCPolicies
  Operations = {"recycle", "command", "session", "byHand", "interrupt", "store", "crash"}
  MaxHappenings = 1
  MaxDeliveries = 1
INVARIANTS TypeOK RecycledAreStopped ConsumedIsDelivered
PROPERTIES RecordsOnlyAdvance LastFinisherWakes
CHECK_DEADLOCK FALSE
