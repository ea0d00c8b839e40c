CONSTANTS
  v1 = v1
  v2 = v2
  s1 = s1
  s2 = s2
  Vehicles = {v2}
  Tank <- MCTank
  Reserves = {4}
  Routes = {"g1", "g2"}
  MaxRuns = 2
  None = None
  Texts = {"x", "elm", "Elm St"}
  Short = {"x"}
  Formatted <- MCFormatted
  Trucks = {v1, v2}
  Positioned = {v1}
  Origin = "30, -97"
  Label <- MCLabel
  Shipments = {s1, s2}
  Stop <- MCStop
  MaxInputs = 2
  NoOne = NoOne
  Polylines <- MCPolylines
  Responses <- MCResponses
  Pickups = {3, 5, 11}
  Reserve = 1
  PerGallon = 2
  InitialFuel = 3
  MaxTurns = 5
  MaxAsks = 1
  Nobody = Nobody
SPECIFICATION MCSpec
CHECK_DEADLOCK FALSE
INVARIANTS OneTripPerRun SuggestionFits MarkerFits PanelMatchesMap PickupKeepsOrder SpanIsDrawn ConversationIsCurrent
PROPERTIES OptimizesShownRoute SearchEnds ThinkingEnds
