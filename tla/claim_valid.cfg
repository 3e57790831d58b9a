CONSTANTS
  p1 = p1  p2 = p2  id1 = id1  id2 = id2  dev1 = dev1  dev2 = dev2
  body = body  u1 = u1  u2 = u2
  NULL = NULL  Unset = Unset  Fresh = Fresh
  Pairs <- MCPairs
  RawBodies <- MCRawBodies
  Urls <- MCUrls
  UrlParams <- MCUrlParams
  Ids <- MCIds
  DefaultIds <- MCDefaultIds
  DeviceIds <- MCDeviceIds
  Requests <- ClaimRequests
  Options <- ClaimOptions
  Calls = {c1}
  MayFail = {"digest"}
  MaxTime = 0
  Word = 4
SPECIFICATION Spec
CHECK_DEADLOCK FALSE
INVARIANT
  OkMeansValid
