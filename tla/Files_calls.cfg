SPECIFICATION Spec
CONSTANTS
    alt_dev_null = alt_dev_null
    uart = uart
    hostfs = hostfs
    None = None
    Device <- MCDevice
    FileSystem <- MCFileSystem
    Name <- MCName
    Named <- MCNamed
    Provides <- MCProvides
    StdioName <- MCStdioName
    Access <- MCAccess
    Used <- MCUsed
    ALT_MAX_FD = 5
INVARIANTS
    ReturnedToPool
    KeepsMeaning
    OpensMatchCloses
PROPERTIES
    LockKeepsOut
CHECK_DEADLOCK FALSE
