SPECIFICATION Spec
CONSTANTS
    VM = {v1, v2}
    Disk = {d1}
    ConfVol = {c1, c2, c3, c4}
    Node = {n1, n2}
    Proc = {p1, p2}
    None = None
    Absent = Absent
    Torn = Torn
    Ops = {"create_vm", "delete_vm", "attach_disk", "detach_disk", "create_disk", "delete_disk"}
    Ephemeral = {FALSE, TRUE}
    MaxFaults = 1
    Lossy = TRUE
    Crashes = TRUE
    Overlap = FALSE
SYMMETRY Symmetry
PROPERTIES KeepsContract RollbackComplete DetachKeepsOthers
CHECK_DEADLOCK FALSE
