SPECIFICATION Spec
CONSTANTS
  Scripts <- MCScripts
  InitialSize = 4
  BigSize = 20
  OutMax = 5
  DataSizeMax = 3
  SeqMax = 3
INVARIANTS TypeOK WriteBufferInBounds DecoderInBounds StreamIsWhole ExchangeIsComplete
