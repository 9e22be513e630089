CONSTANTS
  Peer = {a, b}
  Kind = {"screenshare", "youtube"}
  NoStage = NoStage
  NoPeer = NoPeer
  MaxStamps = 3
  MaxSyncs = 1
  Trouble = {"interrupt", "unavailable", "drop", "leave"}
  MaxTrouble = 1
  MaxBoth = 3
SPECIFICATION Spec
SYMMETRY Symmetry
INVARIANTS TypeOK OneOwner Agreed ScreenOnStage NotStuck
CHECK_DEADLOCK FALSE
