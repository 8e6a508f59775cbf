\* The start-up snapshot is taken before the match rules are installed.
SPECIFICATION Spec
CONSTANTS
    system = system
    session = session
    power = power
    network = network
    display = display
    Buses <- MCBuses
    Domains <- MCDomains
    BusOf <- MCBusOf
    Tray <- MCTray
    Watched <- MCWatched
    Wanted <- MCWanted
    MaxChanges = 1
    MaxRestarts = 0
INVARIANTS TrayNotFrozen
