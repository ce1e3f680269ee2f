CONSTANTS
  ProjectIds <- Ids
  ValidIds <- Ids
  Lower <- ToLower
  Requests = {q1, q2}
  Digests = {b1, b2}
  Configs <- MCConfigs
  Junk = Junk
  NoFile = NoFile
  AnyProject = AnyProject
SPECIFICATION Spec
SYMMETRY Symmetry
INVARIANTS
  TypeOK
  VerifiedBody
  NoHalfFile
  ProjectsApart
  CacheSparesFetch
  NoLitter
PROPERTY ImplementsBodyStore
CHECK_DEADLOCK FALSE
