SPECIFICATION FairSpec
CONSTANTS
  Clockless = {"WAV_SRC"}
  Tasks = {"shell", "slave"}
  MaxCommands = 3
INVARIANTS TypeOK OneDomain ArrivedIsStored
PROPERTIES SystemServed
