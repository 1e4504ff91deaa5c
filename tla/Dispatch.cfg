SPECIFICATION Spec
CONSTANTS
    message = message
    scenario = scenario
    arming = arming
    alarm = alarm
    state = state
    a = a
    b = b
    Emma = emma
    Flavours <- MCFlavours
    Messages <- MCMessages
    Scenarios <- MCScenarios
    Parts <- MCParts
    States <- MCStates
    Callbacks <- MCCallbacks
    MaxChanges = 2
    MaxSubs = 3
    MaxFaults = 1
    MaxReads = 1
SYMMETRY Symmetry
INVARIANT TypeOK
INVARIANT HeldIsCurrent
INVARIANT EagerMissesNothing
INVARIANT HeardAsFound
CHECK_DEADLOCK FALSE
