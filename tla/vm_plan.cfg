SPECIFICATION Spec
CONSTANTS
    Network = {n1, n2}
    Target = {t1, t2}
    Line = {jammy, noble}
    None = None
SYMMETRY Symmetry
INVARIANTS TypeOK TargetReconciled NicsAgree ConfigOfLine
CHECK_DEADLOCK FALSE
