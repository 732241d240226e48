\* A Host header without a port, through a proxy.
SPECIFICATION Spec
CONSTANTS
  a = a
  A = A
  b = b
  get = get
  Get = Get
  post = post
  app = app
  path = path
  query = query
  t = t
  u = u
  Colon = Colon
  Space = Space
  Mark = Mark
  NoField = NoField
  MaxHost = 4
  Letter = {a, A, b}
  LowerCase <- MCLowerCase
  TokenChar = {t, u}
  MaxToken = 2
  Key <- MCKey
  Value <- MCValue
  NoChars = ""
  TooLong <- MCTooLong
  WordPart <- MCWordPart
  Number <- MCNumber
  Method = {get, Get, post}
  UpperCase <- MCUpperCase
  Segment = {app, path, query}
  SchemePort = 80
  Mounts <- MCMounts
  ClientRequests <- ProxyClientRequests
  Internals <- ProxyInternals
INVARIANT
  DefaultPort
