\* An upload that is not awaited fails.
SPECIFICATION JobsSpec
CONSTANTS
    MaxJobs = 2
    Slots <- MCSlots
    MaxStalls = 1
    UserKeys <- MCUserKeys
    MaxOutside = 1
    FolderEntries <- MCFolderEntries
    EntryConcurrency = 2
    MaxEntries = 3
    MaxCopies = 3
    Tree <- MCTree
    Folders <- MCFolders
    CreateMaxFiles = 2
    Workloads <- MCWorkloads
INVARIANT
    CompleteMeansExtracted
CHECK_DEADLOCK FALSE
