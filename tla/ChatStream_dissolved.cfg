\* Two chats and a device that is away.
SPECIFICATION ChatSpec
CONSTANTS
  Chats = {c1, c2}
  MaxEvents = 3
  PageSize = 2
  NoPage = NoPage
INVARIANT RemovedChatsAreDropped
CHECK_DEADLOCK FALSE
