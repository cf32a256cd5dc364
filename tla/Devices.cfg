\* The process table, the loading of drivers, the keyboard, the screen, TaskDEV, TaskFS
\* and the disk.
CONSTANTS
  Parts = {"table", "kbd", "dev", "fs", "order", "disk", "screen"}
  CorePages = 3
  TaskCount = 3
  WordBits = 8
  Words = 2
  MaxProcs = 7
  Line = {1}
  Size = 8
  Presses = {"shift", "a", "ctrl_r", "printscreen", "pause"}
  MaxMoves = 3
  App = {1, 2}
  Driver = {3, 4}
  Dev = 5
  Proc = {1, 2, 3, 4, 5}
  Anybody = 20
  Interrupt = 21
  Payload = {}
  Event = {}
  Nothing <- MCNothing
  Puts <- MCPuts
  Requests <- MCRequests
  SectorSize = 2
  PerFat = 4
  Boot <- MCBoot
  Fat <- MCFat
  Dirs <- MCDirs
  Upper <- MCUpper
  Paths <- MCPaths
  Reads <- MCReads
  DriverCount = 5
  Level <- MCLevel
  SECTOR_SIZE = 2
  Counts = 3
  PART_PER_DRIVE = 3
  SUB_PER_PART = 3
  Capacity = 14
  Tables <- MCTables
  Transfers <- MCTransfers
  MaxOpens = 2
  disp_width = 20
  disp_height = 40
  LOGO_Y = 8
  Font = {"a", "b"}
  Text = {"a", "b", "tab", "newline", "backspace"}
  MaxText = 6
SPECIFICATION MCFair
INVARIANTS SlotsListed LinesHeldByLive NeverSpins BytesInOrder LettersAsTyped
  AnswersMatch PutOffKept ReadsTheFile FindsTheFile StartedInOrder
  DiskExact ShowsTheText
PROPERTY RequestsAnswered
CHECK_DEADLOCK FALSE
