SPECIFICATION StorageFairSpec
CONSTANTS
    Jobs = {j1, j2}
    Capturers = {j1}
    Nobody = Nobody
INVARIANTS
    StorageTypeOK
    CheckpointIsBacked
PROPERTIES
    CollectionSparesCaptures
    QueueMovesOn
