\* Two exports to one destination, and nothing that fails.
SPECIFICATION Spec
CONSTANTS
    Command = {p1, p2}
    MaxRows = 1
    MaxEdits = 0
    MaxFaults = 0
INVARIANTS
    DestinationIsComplete
