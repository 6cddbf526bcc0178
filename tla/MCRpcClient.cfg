\* A Call and two Gos on one connection, Done with room for both: every
\* interleaving of send, receive, cancellation, Close and a lost connection.
CONSTANTS
  SyncCalls = {s1}
  AsyncCalls = {a1, a2}
  DoneCap = 2
  None = None
  Receiver = Receiver
SPECIFICATION FairSpec
INVARIANTS
  TypeOK
  CompletedAtMostOnce
  NoLostCall
  ReplyMatches
  DoneNeverBlocks
PROPERTIES
  EveryCallEnds
  ImplementsAtMostOnce
