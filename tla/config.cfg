\* Two readers and two writers; EpochMod exceeds the notifications of a run.
CONSTANTS
    None = None
    Readers = {r1, r2}
    Writers = {w1, w2}
    EcThreads = {r1, r2, w1, w2}
    EpochMod = 16
    WaiterMod = 5
    Size = size
    Backup = backup
    Unknown = unknown
    Misc = misc
    Keys = {size, backup}
    OtherKeys = {unknown}
    Values = {0, 1}
    Default = 0
    Log = log
    OtherSections = {misc}
    NoSection = nosection
    Files <- FilesMC
    MaxReads = 1
    MaxUpdates = 1
SPECIFICATION FairSpec
CHECK_DEADLOCK FALSE
INVARIANTS CountsExact HoldersCurrent NoForgottenWriter IInv LoadFollowsFile
PROPERTIES HeldConfigStable UpdateReturns AcquireReturns ImplementsRegister
