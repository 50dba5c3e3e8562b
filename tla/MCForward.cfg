CONSTANTS
  Thread = {t1, t2}
  Subscriber = {s1}
  Senders <- MCSenders
  Timeout = 6
  MaxDelay = 1
  MaxMessages = 3
SPECIFICATION ForwardSpec
INVARIANT ForwardTypeOK
PROPERTIES
  FeedImplemented
  NoneMissed
  LeaversForgotten
  EveryoneServed
CHECK_DEADLOCK FALSE
