SPECIFICATION Spec
CONSTANTS
  Names <- KnownNames
  Folded <- MCFolded
  Padded <- MCPadded
  Position <- MCPosition
  Frames = {}
  Images = {}
  Levels = {}
  Trackers = {}
  Stereo = {}
  Recordings <- MCRecordings
  SensorMaps = {}
  Videos = {}
  Tracks = {}
  Palettes = {}
  Thresholds = {}
  CellSizes = {}
  DirectionBins = {}
  SampleRates = {}
  HsvRequests = {}
  Operations = {"erosion", " Erosion ", "dilation", "closing"}
  Radii = {0, 2}
  OutputSizes = {1, 3}
  Samples = {}
  Rates = {}
  MaxCalls = 1
  MaxListed = 3
INVARIANT SpectrumIsTheDft
CHECK_DEADLOCK FALSE
