SPECIFICATION MCSpec
CONSTANTS
    Windows <- All
    Users <- Everyone
    Width = 4
    TextMax = 2
    RamMax = 1
    FirstNotes <- AnyNotes
    Keys = {"esc", "enter", "back", "s", "t"}
INVARIANTS KeysFollowFocus ScreenIsTrue Autosaved
CHECK_DEADLOCK FALSE
