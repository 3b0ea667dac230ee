SPECIFICATION Spec
CONSTANTS
  Tab = {1}
  Topic = {notifications, projectCount}
  NoFetch = NoFetch
  MaxSubscribes = 2
  MaxEvents = 0
INVARIANTS
  NoTopicWaits
CHECK_DEADLOCK FALSE
