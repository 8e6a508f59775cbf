\* Two checks, two packages, two PackageKit processes; the GUI thread is fair.
SPECIFICATION GuiSpec
CONSTANTS
    Packages = {k1, k2}
    MaxChecks = 2
    MaxProcesses = 2
INVARIANTS CompleteReading OwnerLossNoticed
PROPERTIES VerdictIsFinal ObservationEnds CheckEnds
CHECK_DEADLOCK FALSE
