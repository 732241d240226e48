\* Every expression of depth two over six leaves, call by call and by its meaning.
SPECIFICATION FairSpec
CONSTANTS
  v1 = v1
  v2 = v2
  c1 = c1
  c2 = c2
  get = get
  post = post
  root = root
  other = other
  Accept = Accept
  Cache = Cache
  ContentType = ContentType
  Authenticate = Authenticate
  Authorization = Authorization
  NoValue = NoValue
  HeaderName = {ContentType, Authenticate, Cache}
  HeaderValue = {v1, v2}
  Chunk = {c1, c2}
  Method = {get, post}
  Path = {root, other}
  Field = {Authorization, Accept}
  Explanation <- MCExplanation
  Bearer = v1
  Mac = v2
  Filter <- MCFilter
  Program <- MCFilter
  Requests <- MCRequests
  Later <- MCLater
  MaxRounds = 2
  Meaning <- MCMeaning
INVARIANTS
  NothingIsLost
  CompletionIsFinal
  GuardedNeverFails
PROPERTIES
  ComputesMeaning
  EveryEvaluationEnds
