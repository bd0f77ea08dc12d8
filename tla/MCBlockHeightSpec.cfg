CONSTANTS
  Base = 4
  Genesis = 99
  Inputs <- MCAnyScripts
SPECIFICATION Spec
INVARIANT HeightMatchesSpec
CHECK_DEADLOCK FALSE
