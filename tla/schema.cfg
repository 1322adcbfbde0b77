\* The admin tools over small documents and tables, then a unit's parser.
SPECIFICATION Spec
CONSTANTS
    DbName <- MCDbName
    BadNames <- MCBadNames
    Alias <- MCAlias
    Docs <- MCDocs
    Tables <- MCTables
    Sample <- MCSample
    Content <- MCContent
INVARIANTS
    FieldsInPlace
    FieldsAsSaid
    LatestFilter
    KeysReach
    DecodedRight
    FileInRecords
CHECK_DEADLOCK FALSE
