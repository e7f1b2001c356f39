SPECIFICATION FairSpec
CONSTANTS
    VM = {v1}
    Disk = {d1}
    ConfVol = {c1, c2}
    Node = {n1}
    Proc = {p1}
    None = None
    Absent = Absent
    Torn = Torn
    Ops = {"create_vm", "delete_vm", "attach_disk", "detach_disk", "create_disk", "delete_disk", "cleanup"}
    Ephemeral = {FALSE}
    MaxFaults = 1
    Lossy = FALSE
    Crashes = FALSE
    Overlap = FALSE
PROPERTIES CallsEnd ConfigCollected
CHECK_DEADLOCK FALSE
