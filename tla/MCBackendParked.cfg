\* A signal parked by a call waits for another to arrive.
SPECIFICATION FairSpec
CONSTANTS
    system = system
    session = session
    power = power
    network = network
    display = display
    Buses <- MCBuses
    Domains <- MCDomains
    BusOf <- MCBusOf
    Tray <- MCTray
    Watched <- MCWatched
    Wanted <- MCWanted
    MaxChanges = 2
    MaxRestarts = 0
PROPERTIES ReceivedIsShown
