\* SPI and I2C handles over two descriptors; LEDs; MMIO with 4-bit addresses; a poll.
SPECIFICATION Spec
CONSTANTS
  Fds = {f1, f2}
  NoFd = NoFd
  Nobody = Nobody
  SpiHandles = {s1, s2}
  LowFlags = {"cs_high"}
  HighFlags = {"tx_dual"}
  SpiOpenArgs <- MCSpiOpenArgs
  SpiModes = {3, 4}
  SpiOrders = {"msb", "lsb", "none"}
  SpiSpeeds = {1, 2}
  SpiWords = {8}
  SpiFlags8 <- MCSpiFlags8
  SpiFlags32 <- MCSpiFlags32
  Mode32Builds = {TRUE, FALSE}
  I2cHandles = {i1}
  LedHandles = {l1}
  Leds = {"lamp", "strip"}
  MaxOf <- MCMaxOf
  Triggers <- MCTriggers
  TriggerArgs = {"timer", "bogus"}
  Brightnesses = {0, 2, 4}
  Indices = {0, 1, 2, 3, 4}
  MaxStreams = 1
  MmioHandles = {m1}
  Word = 16
  Page = 4
  Bases <- MCBases
  Sizes <- MCSizes
  Offsets <- MCOffsets
  Lens <- MCLens
  Count = 3
  SysfsOnes = {1, 3}
SYMMETRY Symmetry
INVARIANTS SpiTypeOK SpiFilesOwned I2cFilesOwned LedTypeOK MmioTypeOK MappingsOwned PollHonest
PROPERTIES SpiCallExact OtherSettingsKept TrueIsMax StreamsClosed ListRead BoundsExact
