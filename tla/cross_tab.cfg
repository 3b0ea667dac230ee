SPECIFICATION FairSpec
CONSTANTS
  Tab = {1, 2}
  Topic = {notifications}
  NoFetch = NoFetch
  MaxSubscribes = 2
  MaxEvents = 2
INVARIANTS
  TypeOK
  FollowersWatch
  OnlyLeadersPoll
  PollsWhileVisible
CHECK_DEADLOCK FALSE
PROPERTIES
  OneLeaderInTheEnd
  ShowsLatestInTheEnd
