SPECIFICATION SSpec
CONSTANTS
    Byte <- MCByte
    Marker <- MCMarker
    Texts <- MCTexts
    MaxBody = 9
    MaxCalls = 8
    CountText <- MCCountText
    NoneText <- MCNoneText
    RowText <- MCRowText
    MaxChanges = 2
    Names = {1, 2, 3}
    Contents = {"blank", "up"}
    Empty = "blank"
    Unknown = "unknown"
    Ifaddrs <- MCIfaddrs
    RouteTables <- MCRouteTables
    NoHost = "none"
    kMaxNetworkRows = 2
    kMaxAddressesPerFamily = 2
    kMaxPowerRows = 2
    Machines <- MCMachines
    CardNames = {1, 3}
    WithDevice = {1, 3}
    ScalarText <- MCScalarText
    CpuText <- MCCpuText
    kMaxHardwareInputBytes = 12
    kMaxGpuRows = 1
    Mounts = {"root", "tmp", "empty", "quota", "disk"}
    Root = "root"
    MountPoint <- MCMountPoint
    Candidates = {"root", "empty", "quota", "disk"}
    Space <- MCSpace
    kMaxDiskUsageRows = 3
INVARIANTS BodyIsBounded BodyIsFaithful RowsWereTrue StayingIsReported MarkIsTrue
           RowsAreEnriched CountsAreHonest DiskRowsWereTrue SteadyMountIsReported
CHECK_DEADLOCK FALSE
