SPECIFICATION FairSpec
CONSTANTS
  Clockless = {"WAV_SRC", "WAV_SINK"}
  Tasks = {"shell", "slave"}
  MaxCommands = 3
INVARIANTS CallbackHasDomain
