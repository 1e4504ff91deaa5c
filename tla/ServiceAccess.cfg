SPECIFICATION Spec
CONSTANTS
    Cases <- MCCases
    Values = {1, 2}
    New = New
    Absent = Absent
    Zero = 0
    Full = 3
    MaxCalls = 2
    MaxForeign = 1
    MaxFaults = 2
    MaxRefreshes = 1
INVARIANT TypeOK
INVARIANT QuietIsCurrent
INVARIANT RangeStaysValid
PROPERTY UndisturbedWriteKeepsOthers
PROPERTY RepeatChangesNothing
PROPERTY ImplementsSharedRecord
CHECK_DEADLOCK FALSE
