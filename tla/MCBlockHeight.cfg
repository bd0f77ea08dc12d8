CONSTANTS
  Base = 4
  Genesis = 99
  Inputs <- MCHeightScripts
SPECIFICATION Spec
INVARIANT HeightRoundTrip
CHECK_DEADLOCK FALSE
