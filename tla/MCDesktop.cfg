\* Every part of the desktop.
SPECIFICATION Spec
CONSTANTS
    Parts = {"prefs", "clipboard", "notifications", "explorer", "gamebar", "settings", "processes", "startup", "devices", "wire", "services"}
    Entries = {"a", "b"}
    Contents <- AutostartFiles
    MaxStartupOthers = 2
    Switches = {"transparency", "animation"}
    UnknownKey = "other"
    MaxHandEdits = 1
    ClipTexts = {"a", "b", "blank"}
    BlankText = "blank"
    Limit = 2
    MaxImages = 2
    Apps = {"mail", "chat"}
    MaxNotified = 2
    MaxSessions = 2
    PlainFiles = {"f1", "f2"}
    Links = {}
    MaxMade = 2
    MaxHistory = 1
    MaxOther = 1
    MaxFiles = 2
    MaxDepth = 2
    Pids = {2, 3}
    ProcessNames = {1, 2}
    MaxNow = 2
    MaxBirths = 2
    MaxClicks = 2
    Screens <- DeskScreens
    Profiles <- DeskProfiles
    Users <- DeskUsers
    AskingApps <- DeskApps
    Devices <- DeskPointers
    NameOf <- DeskNames
    KindsOf <- DeskKinds
    Me = "me"
    MaxRowClicks = 2
    MaxMeanwhile = 1
    Units <- PciUnits
    MaxPlugs = 2
    Paths <- DeskPaths
    Root <- DeskRoot
    Interfaces = {"Block"}
    Properties = {"label"}
    PropertyValues = {1, 2, 9}
    Unsendable = {9}
    Questions <- DeskQuestions
    Before <- DeskBefore
    MaxChanges = 2
    MaxCalls = 1
    MaxFaults = 1
INVARIANTS PinsArePersistent AnswerIsHonest SharesAreEarned
INVARIANTS TogglesTake BrokenIsSeen
INVARIANTS RoundTrip
INVARIANTS RememberedIsTrue ChangeIsTold
PROPERTIES  OnlyTheSwitchChanges OnlyWhoNamesItReplaces NothingIsLost
PROPERTIES OnlyWhatIsNamed
CHECK_DEADLOCK FALSE
