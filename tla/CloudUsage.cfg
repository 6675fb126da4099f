\* Two requests interleave and fail, with a counter that expires; two listings
\* and two changes interleave.
SPECIFICATION StorageSpec
CONSTANTS
    Files = {f1, f2}
    Sizes = {1, 2}
    Requests = {r1, r2}
    NoFile = NoFile
    Limit = 2
    MaxUpload = 1
    MaxOps = 3
    MaxRaced = 2
    docs = docs
    media = media
    Top = Top
    v1 = v1
    v2 = v2
    c1 = c1
    c2 = c2
    Objects = {1, 2, 3, 4, 5, 6, 7}
    Folders = {docs, media}
    Here = Top
    FolderOf <- MCFolderOf
    GroupOf <- MCGroupOf
    Images = {2, 3, 4, 6}
    Placeholders = {1, 5}
    Matching = {3, 6, 7}
    MaxListObjects = 2
    MaxProcessed = 3
    MaxScan = 3
    ThumbnailLimit = 2
    ThumbnailFolders = 2
    Viewers = {v1, v2}
    Changers = {c1, c2}
    Absent = Absent
    Old = Old
    NoAnswer = NoAnswer
    ListWorkloads <- MCListWorkloads
SYMMETRY UsageSymmetry
INVARIANTS
    CountsStorage
    UploadsFitExactly
    AnswersAreSlices
    ListingsAreCurrent
    PicturesAreDealt
CHECK_DEADLOCK FALSE
