SPECIFICATION Spec
CONSTANTS
    VM = {v1}
    Disk = {d1,d2}
    ConfVol = {c1, c2}
    Node = {n1}
    Proc = {p1}
    None = None
    Absent = Absent
    Torn = Torn
    Ops = {"create_vm", "delete_vm", "attach_disk", "detach_disk", "create_disk", "delete_disk", "cleanup"}
    Ephemeral = {TRUE, FALSE}
    MaxFaults = 2
    Lossy = TRUE
    Crashes = TRUE
    Overlap = FALSE
SYMMETRY Symmetry
INVARIANTS TypeOK AgentSeesRecord AttachedIsRecorded
CHECK_DEADLOCK FALSE
