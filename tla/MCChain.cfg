\* Three AddAdvice calls, so that the array is moved three times, and two readers.
SPECIFICATION Spec
CONSTANTS
    Appenders = {"w1", "w2", "w3"}
    Readers = {"r1", "r2"}
INVARIANTS
    NothingLost
    ReaderComplete
    TornOnlyDuringAppend
\* Every call has ended.
CHECK_DEADLOCK FALSE
