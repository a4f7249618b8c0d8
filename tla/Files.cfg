SPECIFICATION FilesSpec
CONSTANTS
    k1 = k1  k2 = k2
    SealKeys = {k1, k2}
    MasterKeys = {1, 2}
    ProviderKinds = {"local", "command", "vault", "aws", "gcp"}
    NoncePrefixes = {1, 2}
    MaxFiles = 3
    MaxModules = 2
    MaxReopens = 1
    BackupKeys = {k1, k2}
    Targets = {"dir", "s3", "gs", "az"}
    PageLimit = 2
    MaxWrites = 2
    MaxHomeFiles = 2
    MaxBackups = 2
    MaxMerges = 1
    MaxDamage = 1
    Days = 20000
    ByteBits = 2  WordBytes = 2
    Layouts <- BlockLayouts
    MaxPaxRows = 2
    ColTypes = {"text", "int8"}
    RowsPerBlock = 3  BlocksPerSst = 1  Workers = 2
    QuietFlush = TRUE
    MaxClock = 3  MaxSstId = 3
SYMMETRY FilesSymmetry
 
 
INVARIANT CivilIsCalendar
INVARIANT BlockReadsBack
INVARIANT SstReadsExactUnlessEmpty
CHECK_DEADLOCK FALSE
