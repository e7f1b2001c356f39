SPECIFICATION Spec
CONSTANTS
    Proc = {p1, p2}
    VM = {v1, v2}
    Disk = {d1}
    Node = {m1, m2}
    Size = {small, large}
    Snap = {s1}
    Adapters = {"lxd", "incus"}
    WithEphemeral = {v1}
    None = None
    MaxFaults = 1
SYMMETRY Symmetry
INVARIANTS TypeOK  SnapshotsKept SnapshotsGone
PROPERTY MetadataKeepsDevices
