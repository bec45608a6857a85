SPECIFICATION Spec
CONSTANTS
    Width = 2
    Targets <- MCTargets
    Modes = {"forward", "client"}
    Patient = {"client"}
    Freed <- MCFreed
    MaxBytes = 2
    BufferSize = 2
    Capacity = 3
INVARIANTS RightTarget
PROPERTIES CarriesDown CarriesUp TornDown
CHECK_DEADLOCK FALSE
