CONSTANTS
  Slots = 3
  MaxInt = 2
  LamportMax = 3
  MaxOps = 4
  MaxSent = 2
SPECIFICATION CounterSpec
INVARIANT CounterTypeOK
INVARIANT CounterConverges
INVARIANT ValueCountsTheSeen
