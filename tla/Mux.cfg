CONSTANTS
  Requests = {r1, r2}
  Nobody = Nobody
  Encodings <- AllEncodings
  Spares <- NoneOrTwo
  Endpoints <- AllEndpoints
SPECIFICATION Spec
INVARIANTS AnsweredOnce SentAsBuilt RefusalsReadable GatedStaysPrivate EndpointUnchanged
SYMMETRY Interchangeable
CHECK_DEADLOCK FALSE
