CONSTANTS
  Bits = 4
  N = 16
  Half = 128
  Limit = 5
  Xor <- MCXor
  Negative <- MCNegative
  Requests <- Requests16
  NoRequest = NoRequest
  NoAnswer = NoAnswer
  ResetAnswer = ResetAnswer
SPECIFICATION Spec
INVARIANT ProductIsCayleyDickson
INVARIANT VerdictExact
INVARIANT ZeroFlagSound
PROPERTY ImplementsService
PROPERTY DoneFalls
