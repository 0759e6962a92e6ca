SPECIFICATION Spec
CONSTANTS
  Names <- KnownNames
  Folded <- MCFolded
  Padded <- MCPadded
  Position <- MCPosition
  Frames <- MCFrames
  Images <- MCImages
  Levels <- MCLevels
  Trackers <- MCTrackers
  Stereo <- MCStereo
  Recordings <- MCRecordings
  SensorMaps <- MCSensorMaps
  Videos <- MCVideos
  Tracks <- MCTracks
  Palettes <- MCPalettes
  Thresholds <- MCThresholds
  CellSizes <- MCCellSizes
  DirectionBins = {2, 7, 8}
  SampleRates = {500, 2000, 16000}
  HsvRequests <- MCHsvRequests
  Operations = {"erosion", " Erosion ", "dilation", "closing"}
  Radii = {0, 2}
  OutputSizes = {1, 3}
  Samples <- MCSamples
  Rates <- MCRates
  MaxCalls = 3
  MaxListed = 3
INVARIANTS
  TypeOK
  ImageKernelsKeepTheirLaws
  KernelsInventNothing
  KalmanIsTheBatchEstimate
  ShiftsAreFound
  NormalizationKeepsTheMeaning
  SteeringIsFair
CHECK_DEADLOCK FALSE
