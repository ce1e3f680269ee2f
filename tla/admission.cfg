CONSTANTS
  Parts <- MCParts
  ProjectIds <- Ids
  ValidIds <- RealIds
  Lower <- ToLower
  TenantIds <- Uuids
  Slugs <- MCSlugs
  ClaimNames <- MCClaimNames
  Upper <- MCUpper
  Sha <- MCSha
  LowerName <- MCLowerName
  HostOwned <- MCHostOwned
  Deployments <- MCDeployments
  HTTPRequests <- MCRequests
  CanonicalIds <- Uuids
  DigestHex <- MCDigestHex
  MaxRuns = 2
SPECIFICATION Spec
INVARIANTS
  TypeOK
  OneSecretPerProject
  AnsweredUnderOneKey
  ChatKeyOpensNothing
  PoolsApart
  EnvironmentIsWhole
CHECK_DEADLOCK FALSE
