SPECIFICATION Spec
CONSTANTS
    Scripts <- ScriptsOf
    Revisions <- AnyRevisions
    MaxRuns = 2
INVARIANTS
    TypeOK
    RepairPasses
    TablesAgree
    PassSettlesEach
PROPERTIES
    ImplementsContract
    RunsEnd
