\* Two jobs of any kind, one failure, crash or act of the user.
SPECIFICATION FairJobsSpec
CONSTANTS
    MaxJobs = 2
    Slots <- MCSlots
    MaxStalls = 1
    UserKeys <- MCUserKeys
    MaxOutside = 1
    FolderEntries <- MCFolderEntries
    EntryConcurrency = 2
    MaxEntries = 3
    MaxCopies = 3
    Tree <- MCTree
    Folders <- MCFolders
    CreateMaxFiles = 2
    Workloads <- MCWorkloads
INVARIANTS
    CompleteIsQuiet
    LeakOnlyByNavigation
PROPERTIES
    NothingKnownIsReplaced
    EveryJobIsAnswered
CHECK_DEADLOCK FALSE
