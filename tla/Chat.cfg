CONSTANTS
  Agent = {c1, c2}
  Msg = {m1, m2, m3}
  NoSession = NoSession
  MaxPending = 2
SPECIFICATION ChatSpec
INVARIANTS ChatsHearEvents
PROPERTIES AcceptedAreHandled PublishersGoOn
CHECK_DEADLOCK FALSE
