\* Two goroutines, calls inside calls inside calls.
SPECIFICATION Spec
CONSTANTS
    Goroutines = {"g", "h"}
    MaxDepth = 3
PROPERTIES
    EveryCallEnds
