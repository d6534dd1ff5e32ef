\* The service manager: reading init.rc and running its services.
CONSTANTS
  Configs <- MCConfigs
  Builtin <- MCBuiltin
  Stream = {"s", "t", "u"}
  MaxServices = 4
  MaxStreams = 2
  MaxSources = 2
  DefaultRetries = 1
  MaxRetries = 1
  MaskBits = 64
  MaxSpawnFails = 2
SPECIFICATION Spec
INVARIANTS
  BindingsCounted
  StreamsWork
  ServicesTracked
PROPERTIES
  BootEnds
  DaemonKept
CHECK_DEADLOCK FALSE
