SPECIFICATION Spec
CONSTANTS
    Keys = {k1, k2}
    Database = Database
    None = None
SYMMETRY Symmetry
INVARIANTS
    IncompleteOnlyIfRewritten
    RestoredIsWhole
    OkBackupRestores
