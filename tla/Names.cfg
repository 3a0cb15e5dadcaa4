\* Every text of up to three characters before a dot.
CONSTANTS
    MaxText = 3
SPECIFICATION NamesSpec
INVARIANTS
    UnderscoreHandled
CHECK_DEADLOCK FALSE
