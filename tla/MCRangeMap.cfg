\* Look-ups in one of two maps, while nodes are added, flushed and deleted.
SPECIFICATION Spec
CONSTANTS
  a1 = a1
  a2 = a2
  m1 = m1
  m2 = m2
  Maps = {m1, m2}
  MapMax = 1
  Hashes <- MCHashes
  Keys <- MCKeys
  Addrs = {a1, a2}
  MyAddrs = {}
  Buckets = {}
  Flags = {{}}
  Readers = {r1}
  NodeMax = 3
  Local = Local
  NoNode = NoNode
  NoBucket = NoBucket
SYMMETRY Symmetry
INVARIANTS
  LookupIsLongestPrefix
  ReaderOnLivingNodes
