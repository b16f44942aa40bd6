CONSTANTS
  Chips = {"A", "B"}
  ClockChips = {"A"}
  Div = 2
  Byte = 2
  IntMod = 22
  Line = 3
  Rows = 2
  WordMod = 3
  Periods = {1, 2}
  Lengths = {0, 1}
  Highs = {0, 1}
  Lows = {0}
  Sources = {"exter", "aud", "vertb", "ports", "soft"}
  Masks = {0, 2, 7}
  Programs = {"timers", "clock", "audio", "interrupts"}
  MaxAccesses <- MCAny
SPECIFICATION Spec
INVARIANTS TypeOK ClockTrue CountsSuffice EventsInTime TodReadWhole PlayedInOrder InterruptAtEnd NoInterruptLost
CHECK_DEADLOCK FALSE
