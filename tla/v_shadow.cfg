SPECIFICATION Spec
CONSTANTS
    VM = {v1, v2}
    Disk = {d1}
    ConfVol = {c1, c2, c3}
    Node = {n1}
    Proc = {p1, p2}
    None = None
    Absent = Absent
    Torn = Torn
    Ops = {"create_vm", "delete_vm"}
    Ephemeral = {TRUE}
    MaxFaults = 1
    Lossy = FALSE
    Crashes = FALSE
    Overlap = FALSE
SYMMETRY Symmetry
INVARIANT CreateRollsBack
CHECK_DEADLOCK FALSE
