\* A request for an unknown service leaves its body in the stream.
CONSTANTS
  Requests = {r1, u}
  Unknown = {u}
  HandleTimeout = FALSE
  MethodsReturn = TRUE
  MaxReadAhead = 0
  Codecs = {gob}
  ServerCodecs = {gob}
  ClientCodecs = {gob}
  Protocols = {"tcp"}
  Listeners = {"option"}
  ConnectTimeout = TRUE
  None = None
SPECIFICATION Spec
INVARIANT ServesUntilHangUp
