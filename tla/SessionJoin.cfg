CONSTANTS
  Room = 4
  MaxPosts = 2
  FilterBetweenSongs = FALSE
SPECIFICATION FairSpec
PROPERTY JoinReturns
