CONSTANTS
  Chips = {"B"}
  ClockChips = {}
  Div = 2
  Byte = 2
  IntMod = 22
  Line = 2
  Rows = 1
  WordMod = 3
  Periods = {1, 2}
  Lengths = {1}
  Highs = {0}
  Lows = {0}
  Sources = {"exter", "aud", "vertb", "soft"}
  Masks = {0, 3}
  Programs = {"timers", "audio", "interrupts"}
  MaxAccesses <- MCFew
SPECIFICATION FairSpec
PROPERTIES UnderflowComes StopsWhenOff InterruptsTaken
CHECK_DEADLOCK FALSE
