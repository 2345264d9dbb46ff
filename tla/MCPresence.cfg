SPECIFICATION FairPresenceSpec
CONSTANTS
  alice = alice
  bob = bob
  t1 = t1
  t2 = t2
  b1 = b1
  User = {alice, bob}
  Tab = {t1, t2}
  Block = {b1}
  UserOf <- OneTabEach
  Listening = {t1}
  NoUser = NoUser
  NoBlock = NoBlock
  NoEntry = NoEntry
  Away = Away
  LockTTL = 1
  PresenceTTL = 2
  MaxInFlight = 2
  MaxStream = 1
INVARIANTS
  ShownIsRecorded
PROPERTIES
  LockStaysPut
  DepartedForgotten
CHECK_DEADLOCK FALSE
