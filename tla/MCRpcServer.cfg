\* Two known requests and one for an unknown service; methods may hang, both
\* timeouts are set.  Client and server agree on gob and each knows one codec
\* more, or neither does.
CONSTANTS
  Requests = {r1, r2, u}
  Unknown = {u}
  HandleTimeout = TRUE
  MethodsReturn = FALSE
  MaxReadAhead = 2
  Codecs = {gob, json, own}
  ServerCodecs = {gob}
  ClientCodecs = {gob, own}
  Protocols = {"http", "tcp"}
  Listeners = {"http", "option", "mute"}
  ConnectTimeout = TRUE
  None = None
SPECIFICATION FairSpec
INVARIANTS
  AnsweredOnce
  WholeResponses
  AnsweredBeforeClose
  OptionArrives
PROPERTIES
  EveryRequestAnswered
  HangUpCloses
  DialReturns
