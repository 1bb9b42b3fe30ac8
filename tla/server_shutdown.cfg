SPECIFICATION Spec
CONSTANTS
  Hosts = {"run", "probe", "source"}
CHECK_DEADLOCK FALSE
INVARIANT CleanStop
PROPERTY Stops
