CONSTANTS
    Thread = {t1}
    Db = {d1}
    Language = {"node"}
SPECIFICATION Spec
INVARIANTS
    BuffersFreed
SYMMETRY Symmetry
