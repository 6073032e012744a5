SPECIFICATION PartsSpec
CONSTANTS
    MaxSpins = 3
    MaxRooms = 3
    Slots = 2
    Odd = "odd"
    MaxStarts = 2
    MaxListens = 1
    MaxTrouble = 2
    NoValue = noValue
CHECK_DEADLOCK FALSE
INVARIANTS RoomsSafe AttachSafe PreferenceSafe
PROPERTIES RowsShown MenusLive EditorShowsPreference
