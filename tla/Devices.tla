-------------------------------- MODULE Devices --------------------------------
(* The Device Manager: the kernel's lists as a tree of categories           *)
(* (devices.py), flattened into rows that open and close (model.DeviceModel). *)
EXTENDS Integers, Sequences, SequencesExt, FiniteSetsExt
CONSTANTS Units,      \* places where something may be plugged in, by source and name
          MaxPlugs   \* bound: times the hardware changes or the user opens or closes
VARIABLES hardware,   \* unit |-> what the kernel shows there
          buses,      \* sources whose directory (or tool) exists at all
          tree,       \* DeviceModel._tree: the categories of the last enumeration
          deviceRows, \* DeviceModel._rows
          expanded, problems, rescanned,
          closed,     \* history: categories the user closed since the last enumeration
          changes
deviceVars == <<hardware, buses, tree, deviceRows, expanded, problems, rescanned, closed, changes>>

(* What stands behind an entry: nothing; an entry the readers skip (an       *)
(* interface, a partition, lo, an unplugged socket, a nameless input); a     *)
(* device with a driver or a running queue; one without.                     *)
UnitStates == {"absent", "skipped", "bound", "unbound"}
Sources == {"pci-net", "usb", "net", "block", "sound", "camera", "display", "input", "printer",
            "cpu", "memory", "board"}
(* The kernel lists a finite number of devices; names are their ranks in the  *)
(* order of the names.                                                        *)
ASSUME UnitsAreNamed == Units \subseteq Sources \X Nat /\ IsFiniteSet(Units)

CATEGORY_ORDER == <<"processors", "memory", "board", "disks", "network", "sound", "usb",
                    "cameras", "input", "displays", "printers">>
CategoryOf == [source \in Sources |->
    CASE source \in {"pci-net", "net"} -> "network"
      [] source = "usb" -> "usb" [] source = "block" -> "disks"
      [] source = "sound" -> "sound" [] source = "camera" -> "cameras"
      [] source = "display" -> "displays" [] source = "input" -> "input"
      [] source = "printer" -> "printers" [] source = "cpu" -> "processors"
      [] source = "memory" -> "memory" [] source = "board" -> "board"]
_ALWAYS_SHOWN == {"network", "disks", "usb", "cameras", "displays", "printers", "sound"}

Device(unit, working) == [source |-> unit[1], name |-> unit[2], working |-> working]
pci_devices == {Device(u, hardware[u] = "bound") : u \in
                  {v \in Units : v[1] = "pci-net" /\ hardware[v] \in {"bound", "unbound"}}}
usb_devices == {Device(u, hardware[u] = "bound") : u \in
                  {v \in Units : v[1] = "usb" /\ hardware[v] \in {"bound", "unbound"}}}
network_devices == {Device(u, hardware[u] = "bound") : u \in
                  {v \in Units : v[1] = "net" /\ hardware[v] \in {"bound", "unbound"}}}
printers == IF "printer" \notin buses THEN {}
            ELSE {Device(u, hardware[u] = "bound") : u \in
                    {v \in Units : v[1] = "printer" /\ hardware[v] \in {"bound", "unbound"}}}
Working(source) == {Device(u, TRUE) : u \in
                  {v \in Units : v[1] = source /\ hardware[v] \in {"bound", "unbound"}}}
block_devices == Working("block")
sound_cards == Working("sound")
cameras == Working("camera")
displays == Working("display")
input_devices == Working("input")
processors == Working("cpu")
memory == Working("memory")
board == Working("board")
devices == processors \cup memory \cup board \cup pci_devices \cup usb_devices
           \cup network_devices \cup block_devices \cup sound_cards \cup cameras
           \cup displays \cup input_devices \cup printers

(* DevicesFacet.tree: categories in order, members by name, and a reason for *)
(* an empty category that is shown all the same.                             *)
_reason(category) ==
    IF \E source \in buses : CategoryOf[source] = category THEN "none found" ELSE "not visible"
InCategory(category) == {d \in devices : CategoryOf[d.source] = category}
Node(category) ==
    [category |-> category, devices |-> InCategory(category),
     reason |-> IF InCategory(category) = {} THEN _reason(category) ELSE ""]
Tree == FlattenSeq([i \in DOMAIN CATEGORY_ORDER |->
            LET category == CATEGORY_ORDER[i]
            IN  IF InCategory(category) # {} \/ category \in _ALWAYS_SHOWN THEN <<Node(category)>> ELSE <<>>])

(* DeviceModel._flatten: a row for a category, and its devices if it is open: *)
(* sorted by name, those of one name in the order they were found in.         *)
SortsBefore(a, b) ==
    a.name < b.name \/ (a.name = b.name /\ a.source = "pci-net" /\ b.source # "pci-net")
Members(node) ==
    CHOOSE s \in [1 .. Cardinality(node.devices) -> node.devices] :
        \A i, j \in DOMAIN s : i < j => SortsBefore(s[i], s[j])
NodeRows(node, open) ==
    <<[kind |-> "category", category |-> node.category]>>
    \o IF node.category \notin open THEN <<>>
       ELSE [i \in DOMAIN Members(node) |->
               [kind |-> "device", category |-> node.category, device |-> Members(node)[i]]]
_flatten(nodes, open) == FlattenSeq([i \in DOMAIN nodes |-> NodeRows(nodes[i], open)])

(* refresh: enumerate, count what is broken, open the categories it is in. *)
Broken(node) == {d \in node.devices : ~d.working}
BrokenIn(nodes) == UNION {{i} \X Broken(nodes[i]) : i \in DOMAIN nodes}

\* Mutant: the categories stay as they were.
EnumeratedQuietly ==
    /\ tree' = Tree
    /\ problems' = Cardinality(BrokenIn(tree'))
    /\ deviceRows' = _flatten(tree', expanded)
    /\ closed' = {} /\ UNCHANGED expanded
Enumerated ==
    /\ tree' = Tree
    /\ problems' = Cardinality(BrokenIn(tree'))
    /\ expanded' = expanded \cup {tree'[p[1]].category : p \in BrokenIn(tree')}
    /\ deviceRows' = _flatten(tree', expanded')
    /\ closed' = {}

DevicesInit ==
    /\ hardware \in [Units -> {"absent", "skipped", "bound"}]
    /\ buses \in {Sources, Sources \ {"pci-net", "printer"}}
    /\ \A u \in Units : u[1] \notin buses => hardware[u] = "absent"
    /\ tree = <<>> /\ deviceRows = <<>> /\ expanded = {} /\ problems = 0
    /\ rescanned = "none" /\ closed = {} /\ changes = 0

refreshDevices == Enumerated /\ UNCHANGED <<hardware, buses, rescanned, changes>>
toggleDevices(index) ==
    LET category == deviceRows[index].category IN
    /\ changes < MaxPlugs /\ changes' = changes + 1
    /\ deviceRows[index].kind = "category"
    /\ expanded' = IF category \in expanded THEN expanded \ {category} ELSE expanded \cup {category}
    /\ deviceRows' = _flatten(tree, expanded')
    /\ closed' = IF category \in expanded THEN closed \cup {category} ELSE closed \ {category}
    /\ UNCHANGED <<hardware, buses, tree, problems, rescanned>>
(* rescan writes to the PCI bus: without one, without root, or with an answer; *)
(* what the kernel finds then is Plug's business.                              *)
RescanAnswers == IF "pci-net" \in buses THEN {"ok", "denied"} ELSE {"no bus"}
rescan ==
    /\ rescanned' \in RescanAnswers
    /\ Enumerated /\ UNCHANGED <<hardware, buses, changes>>
(* The hardware changes: something appears, goes, or loses or finds a driver. *)
Plug(unit) ==
    /\ changes < MaxPlugs /\ changes' = changes + 1
    /\ unit[1] \in buses
    /\ \E state \in UnitStates \ {hardware[unit]} : hardware' = [hardware EXCEPT ![unit] = state]
    /\ UNCHANGED <<buses, tree, deviceRows, expanded, problems, rescanned, closed>>
DevicesNext ==
    \/ refreshDevices \/ rescan
    \/ \E index \in DOMAIN deviceRows : toggleDevices(index)
    \/ \E unit \in Units : Plug(unit)
DevicesSpec == DevicesInit /\ [][DevicesNext]_deviceVars
-----------------------------------------------------------------------------
(* What is broken is counted and seen: the number in the header is that of   *)
(* the devices of the tree that do not work, and each of them has a row      *)
(* unless the user closed its category after it was found (DeviceModel).     *)
BrokenIsSeen ==
    LET broken == UNION {Broken(tree[i]) : i \in DOMAIN tree}
        Seen(d) == \E i \in DOMAIN deviceRows :
                       deviceRows[i].kind = "device" /\ deviceRows[i].device = d
    IN  /\ problems = Cardinality(broken)
        /\ \A d \in broken : Seen(d) \/ CategoryOf[d.source] \in closed
=============================================================================
