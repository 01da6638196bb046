SPECIFICATION ClientSpec
CONSTANTS
  Client = {main}
  Own = own
  Plugin = {plugin}
  Device = {device}
  Epoch = 2
  Reply = 1
  Period = 1
  Never = Never
  None = None
  MaxTime = 4
CHECK_DEADLOCK FALSE
INVARIANTS
  ClientTypeOK
  AllowsAreFresh
  NothingOutlivesItsRun
