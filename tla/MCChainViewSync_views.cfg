\* One reader while a chain is published, reorganized and cleaned up, with a
\* watch that breaks.
SPECIFICATION ViewSpec
CONSTANTS
    r1 = r1
    Null = Null
    Reader = {r1}
    Task = {}
    StartingBlock = 0
    MaxBlock = 0
    MaxPublications = 3
    MaxGeneration = 1
    MaxInbox = 2
    MaxBreaks = 1
INVARIANTS
    ViewTypeOK
    QuietViewIsCurrent
PROPERTIES
    ViewIsSent
    SentSnapshotIsShown
