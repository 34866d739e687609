SPECIFICATION HostsSpec
CONSTANTS
  None = None
  Bad = Bad
  NotText = NotText
  Callers = {c1, c2}
  Empty <- MCEmpty
  Grain = 10
  Doublings = 2
  Halvings = 6
  bytes_per_ray = 50
  bytes_per_spilled_ray = 28
  IR_BYTES_PER_SEGMENT = 192
  BYTES_PER_WORKER = 65536
  EXTRACTION_BYTES_PER_PLANE_CORNER = 130
  Asks <- MCAsks
  Programs <- RetractingPrograms
  Tools <- MCTools
  Stocks <- MCStocks
  Nominals = {"part"}
  ToolIds = {}
  Resolutions = {278}
  Ceilings = {95000}
  Envelopes <- MCEnvelopes
  MaxCalls = 3
  GenerationEnd = 3
  BROWSER_CEILING_BYTES = 200000
  BROWSER_SEGMENT_CAP = 3
INVARIANTS RetractsAreUnchecked
CHECK_DEADLOCK FALSE
