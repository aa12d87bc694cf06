SPECIFICATION HostSpec
CHECK_DEADLOCK FALSE
CONSTANTS
  Addr = {a1, a2}
  NoAddr = NoAddr
  HostName = {h1, h2}
  Extra = {"hinfo"}
  JoinOK = {TRUE}
INVARIANT RecordsBearName
