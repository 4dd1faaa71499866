CONSTANTS
  Subs = {s1}
  Threads = {t1}
  SubscriberQueue = 1
  MaxEvents = 4
  s1 = s1
  t1 = t1
SPECIFICATION FairSpec
PROPERTY PublishAlwaysReturns
CHECK_DEADLOCK FALSE
