CONSTANTS
  InitDelay = 1
  MaxDelay = 1
  Friend = "u1"
  Stranger = "u2"
  Workers = {"w1", "w2"}
  NoTask = NoTask
  Commands = {"login", "privateChat", "groupChat", "blockFriend", "addSomeoneToGroup", "receivefile"}
  MaxEvents = 1
SPECIFICATION FairSpec
INVARIANT TypeOK AlwaysTrying CreditBalance ChatsWithFriends
PROPERTY KickedLeaves WaitsAnswered
CHECK_DEADLOCK FALSE
