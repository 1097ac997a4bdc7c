CONSTANTS
  a1 = a1
  a2 = a2
  g1 = g1
  g2 = g2
  w = w
  Mng = mng
  Gpio = gpio
  Callers = {g1, g2, w}
  Works = {w}
  MaxPinOps = 2
  Spi = spi
  SpiRm = spirm
  None = None
  Threads = {a1, a2, mng, gpio, spi, spirm}
  Adapters = {a1, a2}
  Cmds = {"MNG_RESET_NOTIFY", "MNG_ENUM_GPIO", "MNG_ENUM_I2C", "MNG_ENUM_SPI",
    "I2C_INIT", "I2C_START", "I2C_STOP", "I2C_READ", "I2C_WRITE",
    "GPIO_READ", "GPIO_WRITE", "GPIO_CONFIG", "GPIO_INT_UNMASK", "SPI_INIT", "SPI_DEINIT", "SPI_READ", "SPI_WRITE", "SPI_WRITEREAD"}
  MaxCalls = 6
  StubOf <- MCStubOf
  Boards <- MCBoards
  Ready <- MCReady
  TypeOf <- MCTypeOf
  I2cXfers <- MCI2cXfers
  MaxI2c = 2
  MaxWrite = 57
  ByteMod = 256
  SpiXfers <- MCSpiXfers
  MaxSpi = 2
  MaxChunk = 2
  IdMod = 2
  ShortMod = 8
  MaxFails = 1
  MaxOpen = 2
SPECIFICATION DeviceSpec
INVARIANTS TypeOKDevice  DevicesServed XferComplete ConfigAgrees ChunksWhole ValueNotStale
CONSTRAINT OneMessage
SYMMETRY Symmetry
CHECK_DEADLOCK FALSE
