CONSTANTS
  url1 = url1
  url2 = url2
  Half = 8
  Number <- Numbers
  Fallback = 3
  Garbage = Garbage
  Url <- TwoUrls
  DefaultUrl = DefaultUrl
  Empty = Empty
  Unset = Unset
SPECIFICATION Spec
INVARIANTS PoolAsAsked SameDatabase
