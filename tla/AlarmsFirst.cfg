CONSTANTS
  N = 2
  W = 8
  MinDt = 0
  Dts = {0, 1, 4, 5, 7}
  MaxBack = 1
  Latency = 1
  HandlerTime = 1
  NApps = 2
  U32 = 4
  Moduli = {4, 8}
  AppDts = {0, 1, 2}
  AppBack = 1
  AppLatency = 1
  MaxArmed = 3
SPECIFICATION AlarmsSpec
INVARIANT FirstAlarmIsSet
