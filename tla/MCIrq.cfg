SPECIFICATION IrqSpec
CONSTANTS
  Banks = 2
  BankBits = 2
  CascadeBit = 1
  DmaBase = 4
  DmaHalf = 1
  uart = uart
  mouse = mouse
  key = key
  rx = rx
  tx = tx
  Devices = {uart, mouse, key, rx, tx}
  IrqOf <- MCIrqOf
  BootEnable <- MCReset
  MaxRaise <- MCMaxRaise
INVARIANTS
  ActionFound
  EnableKept
  DmaKept
PROPERTIES
  Served
CHECK_DEADLOCK FALSE
