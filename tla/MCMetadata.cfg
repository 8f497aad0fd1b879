CONSTANTS
  MaxOps = 4
  MaxNSPs = 2
  NameBytes = 3
  NoDoorbell = 1000
  MinimumZeroRegion = 1
  NSPCounts = {1, 2}
  SizeChoices <- SizeChoice
  NetworkNames = {"net"}
  SemaphoreCounts = {2}
  SemaphoreValues = {1}
  ImageSizes = {1, 5}
  Bytes = {1}
  Words <- WordChoices
  Requests <- RequestChoices
  NSPEntries = {"e"}
  HostEntries = {"h"}
  Threads = {"t"}
  Mappings <- MappingChoices
  Ports = {"p"}
  SectionOrders <- Orders
  ExtraFields = {"futureField"}
  Platforms <- PlatformChoices
  MaxCalls = 5
  MaxFinals = 2
SPECIFICATION MetadataSpec
INVARIANTS ReadersAgree RegionsReproduceImage PlatformsUnderstand ExecContextFits
CONSTRAINT ReadersApart
CHECK_DEADLOCK FALSE
