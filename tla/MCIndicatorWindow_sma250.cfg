CONSTANTS
  MaxDay = 409
  OpenDays <- MCOpenDays
  FirstLoad = 399
  Patchy = {}
  Behind = {0}
  FreshDays = 2
  BufferDays = 7
  WarmupDays = 350
  FullDays = 730
  Window = 250
SPECIFICATION IndicatorSpec
INVARIANTS
  NewestRowHasFullWindow
