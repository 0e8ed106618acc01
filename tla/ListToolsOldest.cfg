SPECIFICATION Spec
CONSTANTS
    Byte <- MCByte
    Marker <- MCMarker
    CountText <- MCCountText
    NoneText <- MCNoneText
    SkippedText <- MCSkippedText
    Entries <- MCEntries
    Units <- MCUnits
    Packages <- MCPackages
    Changes <- MCChanges
    MaxBody = 6
    MaxReply = 2
    MaxLogs = 2
    kMaxFailedServices = 2
    kMaxEnabledServices = 2
    kMaxUnits = 2
    kMaxPackageListRows = 2
    kMaxCollectedChanges = 3
    kMaxPackageChanges = 2
    kMaxEntries = 2
INVARIANT NewestAreShown
CHECK_DEADLOCK FALSE
