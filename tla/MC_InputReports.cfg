SPECIFICATION InputSpec
CONSTANTS
  a1 = a1
  a2 = a2
  a3 = a3
  c1 = c1
  c2 = c2
  Adapters = {a1, a2, a3}
  Clients = {c1, c2}
  InstanceId <- MCInstanceId
  Keys = {4, 5}
  Modifiers = {224}
  CORE_HID_KEYS_REPORTED = 1
  CORE_HID_KEYS_MAX = 3
  CORE_HID_MOUSE_BUTTONS = 2
  AddressReused = FALSE
  Scenarios <- MCScenarios
INVARIANT HostInSync
INVARIANT EnumerationComplete
PROPERTY TuneLeavesOnFreshPress
CHECK_DEADLOCK FALSE
