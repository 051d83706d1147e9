CONSTANTS
  Bits = 2
  N = 4
  Half = 128
  Limit = 5
  Xor <- MCXor
  Negative <- MCNegative
  Requests <- Requests4
  NoRequest = NoRequest
  NoAnswer = NoAnswer
  ResetAnswer = ResetAnswer
SPECIFICATION Spec
INVARIANT TypeOK
INVARIANT Ledger
