CONSTANTS
  Subs = {s1, s2}
  Threads = {t1}
  SubscriberQueue = 1
  MaxEvents = 4
  s1 = s1
  s2 = s2
  t1 = t1
SPECIFICATION FairSpec
INVARIANTS TypeOK Delivery RegistryMatchesHandlers
PROPERTIES NoSendAfterClose 
CHECK_DEADLOCK FALSE
