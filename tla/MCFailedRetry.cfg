SPECIFICATION StorageSpec
CONSTANTS
    Jobs = {j1, j2}
    Capturers = {}
    Nobody = Nobody
PROPERTIES
    ActiveJobsProtected
CHECK_DEADLOCK FALSE
