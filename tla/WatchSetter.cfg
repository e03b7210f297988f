\* The last watchpoint of a property goes; its setter stays.
SPECIFICATION WatchSpec
CONSTANTS
    WatchedProps = {"x", "y"}
    WatchPoints = {1, 2, 3}
    MaxHandlers = 3
INVARIANTS SettersRestored
CHECK_DEADLOCK FALSE
