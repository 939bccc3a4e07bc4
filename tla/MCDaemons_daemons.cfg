SPECIFICATION Spec
CONSTANTS
    one = one
    other = other
    Clients <- TwoClients
    Scenes <- Scenes7
    MaxDaemons = 3
    MaxReturns = 1
\* The system stops when every client is through and no daemon is left.
CHECK_DEADLOCK FALSE
INVARIANTS
    ClientsMeetTheDaemon
PROPERTIES
    OnlyTheRightOnesEnd
    StopsAndReturns
