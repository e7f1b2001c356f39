SPECIFICATION Spec
CONSTANTS
    VM = {v1, v2}
    Disk = {d1}
    ConfVol = {c1, c2, c3}
    Node = {n1, n2}
    Proc = {p1, p2}
    None = None
    Absent = Absent
    Torn = Torn
    Ops = {"create_vm", "delete_vm", "attach_disk", "detach_disk", "create_disk", "delete_disk", "cleanup"}
    Ephemeral = {FALSE}
    MaxFaults = 0
    Lossy = FALSE
    Crashes = FALSE
    Overlap = FALSE
SYMMETRY Symmetry
INVARIANTS DetachedIsFree OneCopy
PROPERTIES PersistentDiskSafe
CHECK_DEADLOCK FALSE
