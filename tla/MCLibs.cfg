SPECIFICATION Spec
CONSTANTS
  ItemMax = 5
  LenMax = 4
  Patterns <- MCPatterns
  Strings <- MCStrings
  PathMax = 6
  NameMax = 4
  PathBytes <- MCPathBytes
  PathLen = 5
  ParamMax = 2
  UrlBytes <- MCUrlBytes
  UrlLen = 9
  AddrBytes <- MCAddrBytes
  AddrLen = 11
  NumberLimit = 100
  NumberBytes <- MCNumberBytes
  NumberLen = 5
  HashBytes <- MCHashBytes
  HashLen = 5
  FilterPaths <- MCFilterPaths
  Hash <- PathHash
  Uploads <- MCUploads
  BufSize = 6
  PieceSize = 2
  FolderNames <- MCNames
  Folders <- MCFolders
  Offers <- MCOffers
  Micro = 10
  Timeouts <- MCTimeouts
  ClockLen = 130
INVARIANTS
  MatchIsLongest   NoFalseNegative  ListingInOrder
  
CHECK_DEADLOCK FALSE
