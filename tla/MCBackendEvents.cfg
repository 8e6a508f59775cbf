\* The event path holds together, with restarts of the bus daemons.
SPECIFICATION FairSpec
CONSTANTS
    system = system
    session = session
    power = power
    network = network
    display = display
    Buses <- MCBuses
    Domains <- MCDomains
    BusOf <- MCBusOf
    Tray <- MCTray
    Watched <- MCWatched
    Wanted <- MCWanted
    MaxChanges = 3
    MaxRestarts = 1
INVARIANTS ChangeNotLost
PROPERTIES DirtyIsRead
