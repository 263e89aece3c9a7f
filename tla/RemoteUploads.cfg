SPECIFICATION DestSpec
CONSTANTS
  Backends = {"sftp", "nextcloud", "rsync"}
  Length = 3
  SampleLength = 1
  MaxBreakdowns = 3
PROPERTY WholeCopyIsAccepted
CHECK_DEADLOCK FALSE
