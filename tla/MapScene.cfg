SPECIFICATION FairSpec
CONSTANTS
  Scenes <- MCScenes
  Payloads <- MCPayloads
  MaxRetries = 2
  MaxLeaks = 1
  MaxOrphans = 1
  MaxFailures = 1
INVARIANTS MapShowsProps VisibilityFollowsZoom HandlersHaveMarkers
PROPERTY InitialLayersAppear
