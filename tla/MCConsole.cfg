SPECIFICATION PartsSpec
CONSTANTS
  Threads = {t1, t2}
  Capacity = 2
  LineLength = 3
  MaxCalls = 4
  Families = {v4, v6}
  Ports = {7, 8}
  NoFamily = none
  MaxHelpers = 2
  MaxLines = 2
  Roles = {"host", "join", "joinspectate", "spectate"}
  MaxAsk = 2
CHECK_DEADLOCK FALSE
INVARIANTS ConsoleSafe MailboxSafe PromptsSafe
PROPERTIES ConsoleLive
