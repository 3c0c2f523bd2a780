SPECIFICATION Spec
CONSTANTS
    notes = notes
    script = script
    Contents = {notes, script}
    Text <- MCText
    FileType <- MCFileType
    ChunkSize = 2
    Models = {A, B}
    NoModel = NoModel
    Loop = Loop
    Workers = {w1}
    NoThread = NoThread
    MaxDocs = 3
    Crashes = 1
SYMMETRY Renamings
INVARIANTS
    TypeOK
    VectorsComplete
    TextIsIndexed
    OneModel
    
    DuplicatesOnlyByRebuild
    RecordedFilesExist
CHECK_DEADLOCK FALSE
