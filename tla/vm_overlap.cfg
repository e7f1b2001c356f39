SPECIFICATION Spec
CONSTANTS
    VM = {v1}
    Disk = {d1, d2}
    ConfVol = {c1, c2, c3, c4}
    Node = {n1}
    Proc = {p1, p2}
    None = None
    Absent = Absent
    Torn = Torn
    Ops = {"create_vm", "create_disk", "attach_disk", "detach_disk", "delete_disk", "delete_vm"}
    Ephemeral = {FALSE}
    MaxFaults = 0
    Lossy = FALSE
    Crashes = FALSE
    Overlap = TRUE
SYMMETRY Symmetry
INVARIANTS EnvSlotsDistinct
PROPERTY AttachKeepsOthers
CHECK_DEADLOCK FALSE
