CONSTANTS
  Room = 4
  MaxPosts = 2
  FilterBetweenSongs = FALSE
SPECIFICATION FairSpec
INVARIANTS TypeOK OneSideSends StatesRespected NoMutualWait MessagesUnderstood ReadyForNext CleanAtEnd
PROPERTY CallsReturn
