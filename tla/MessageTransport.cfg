SPECIFICATION Spec
CONSTANTS
  a = a  b = b  m1 = m1  m2 = m2  m3 = m3
  None = None
  Agents = {a, b}
  Messages = {m1, m2, m3}
  From <- Senders
  To <- Recipients
  Key <- Keys
  Ttl = 1
  MaxInbox = 1
  RateLimit = 2
  RateWindow = 1
  Subscriptions = {1}
  MaxTime = 2
CHECK_DEADLOCK FALSE
INVARIANTS InboxBounded NoneOverdue OneShot
PROPERTIES NeverUndone
