SPECIFICATION Spec
CONSTANTS
  Size = 3
  Chars = {"eol", "ping", "x"}
  MaxSent = 5
  MaxRestarts = 1
  Names <- InstNames
  Base <- InstBase
  Inet = {"eth0", "eth0:1"}
  Addresses = {"a", "b"}
  BlockSize = 1
  MaxSize = 3
  MaxChanges = 1
  Ids = {0, 1, 2}
  Passwd <- InstPasswd
  Procs = {p1, p2}
  Uids = {0, 1, 64512}
  Ports = {0, 1023, 7000, 72536, 65536}
  NumLeds = 3
  Colors = {"off", "red"}
  Room = 4
  Backlog = 1
  MaxBreaks = 1
  Kerning = 20
  Windows <- InstWindows
INVARIANTS WithinBuffer LinesOfStream SteadyDeviceFound SteadyInterfacesShown NothingKept
  OrphansExplained OneJob InStep LedsFollowCursor UpAndDown StripFollowsScreen CrashesExplained
PROPERTIES FullBufferIsTheEnd AllIsRead DarkAfterQuit
CHECK_DEADLOCK FALSE
