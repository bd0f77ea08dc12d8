CONSTANTS
  Base <- MCBase
  Headers <- MCHeaders
  Tails <- MCTails
SPECIFICATION Spec
INVARIANT HeaderRoundTrip
INVARIANT TruncatedHeaderRejected
