SPECIFICATION Spec
CONSTANTS
  TargetWidth = 10
  TargetHeight = 4
  DepthOffset = 2
  MaxRows = 4
  MaxOffset = 5
  MaxSourceSide = 100
  MaxSourcePixels = 1000
  MaxOutputPixels = 1000
  Handler <- MCHandler
  RequestId <- MCRequestId
  Draft <- MCDraft
  RemoteSource = {url}
  Trees <- MCTrees
  Pictures <- MCPictures
  FirstTree <- MCFirstTree
  FirstPictures <- MCFirstPictures
  Root = above
  Nothing = Nothing
  MaxOpenRuns = 1
  MaxListed = 1
  MaxFaults = 1
  MaxInputs = 4
  above = above
  p = p
  file = file
  url = url
INVARIANTS OneRunPerWish CreatedAsPreviewed UnfinishedRunsLimited AnsweredAsAsked
PROPERTIES ListsNeverGoBack
CHECK_DEADLOCK FALSE
