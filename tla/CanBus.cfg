CONSTANTS
  Highs = {0, 1}
  Lows = {0, 1}
  NoHigh = 0
  Bytes = {0, 1}
  Pad = 0
  MaxData = 1
  Senders = {a}
  Requests <- SomeRequests
  BusFrames <- RemoteRequest
  Bus = other
  History = 2
  TxQueueLen = 1
  RcvBuf = 1
  MaxArrivals = 3
SPECIFICATION FairSpec
INVARIANTS TypeOK NewestFirst EchoMatches ErrorMeansUnsent
PROPERTIES SamplesBus ReaderRecovers ReaderEnds SendIsAnswered
