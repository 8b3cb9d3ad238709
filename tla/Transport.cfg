CONSTANTS
  Uids = {0, 33}
  RequiredUid = 0
  HdrLen = 2
  MaxBody = 2
  RequestLens <- Lens
  Buffer = 3
  MaxStream = 5
SPECIFICATION LiveSpec
INVARIANTS
  TypeOK
  ReplyIsWhole
  AtMostOneLateCall
  SocketIsClosed
  UnsentErrorsAreTrue
PROPERTIES
  ImplementsExchange
  Returns
