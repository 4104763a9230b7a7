SPECIFICATION FairSpec
CONSTANTS
  s1 = s1
  s2 = s2
  Sessions = {s1, s2}
  max_recent_msgs = 2
  MaxMessages = 3
INVARIANTS RecentAreLast StreamsFollowRoom ParticipantsAreServed
PROPERTY MessagesArrive
CHECK_DEADLOCK FALSE
