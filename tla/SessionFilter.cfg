CONSTANTS
  Room = 4
  MaxPosts = 2
  FilterBetweenSongs = TRUE
SPECIFICATION Spec
INVARIANT MessagesUnderstood
