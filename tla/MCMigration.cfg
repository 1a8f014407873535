\* Three steps: the second leaves nothing SQLite's parity check looks for, the third
\* cannot be run twice.
CONSTANTS
    old = old
    new = new
    migrate = migrate
    migrateOld = migrateOld
    Servers = {old, new}
    Commands = {migrate, migrateOld}
    Required <- MCRequired
    Local = {new}
    External = {migrate}
    Visible <- MCVisible
    Repeatable = {1, 2}
    LastStep = 3
    NoProcess = NoProcess
SPECIFICATION Spec
INVARIANTS SchemaNotOverstated DirtyIsExplained
