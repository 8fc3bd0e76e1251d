SPECIFICATION FairSpec
CONSTANTS
  Threads = {t1, t2}
  Nobody = nobody
  OutDevices = {"speaker", "hdmi", "sco"}
  InDevices = {"mic", "sco"}
  Rate <- BoardRate
INVARIANTS
  TypeOK
  TransferSafe
  NoFreedStream
PROPERTIES
  ArbiterSpec
  DeviceReleased
