SPECIFICATION HistorySpec
CONSTANTS
    Proc = {p1, p2}
    VM = {v1, v2}
    Name = {n1, n2}
    Setting = {s1, s2}
    Kinds = {"FAT32", "CDROM"}
    Absent = Absent
    Torn = Torn
    None = None
    Left = Left
    MaxFaults = 2
SYMMETRY Symmetry
INVARIANTS TypeOK NoLeftover
PROPERTIES RemovesOwn KeepsStore
