\* Authentication among the other filters, for every kind of request.
SPECIFICATION Spec
CONSTANTS
  v1 = v1
  v2 = v2
  c1 = c1
  c2 = c2
  get = get
  post = post
  root = root
  other = other
  Accept = Accept
  Cache = Cache
  ContentType = ContentType
  Authenticate = Authenticate
  Authorization = Authorization
  NoValue = NoValue
  HeaderName = {ContentType, Authenticate, Cache}
  HeaderValue = {v1, v2}
  Chunk = {c1, c2}
  Method = {get, post}
  Path = {root, other}
  Field = {Authorization, Accept}
  Explanation <- MCExplanation
  Bearer = v1
  Mac = v2
  Filter <- AuthFilter
  Program <- MCSafe
  Requests <- AuthRequests
  Later = {}
  MaxRounds = 1
  Secret <- MCSecret
  Gate <- MCGate
  Safe <- MCSafe
INVARIANTS
  UnauthorizedHasChallenge
  AuthenticatedOnly
