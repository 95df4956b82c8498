\* A table of three threads: the consumer and two that log, and the main
\* thread, which logs too; a queue of two entries.
CONSTANTS
    Nil = Nil
    Main = main
    Workers = {w1, w2}
    Logger = logger
    EcThreads = {main, w1, w2, logger}
    EpochMod = 8
    WaiterMod = 8
    Cap = 2
    MaxLogs = 3
SPECIFICATION FairSpec
INVARIANTS IInv DeliveredInOrder DrainedOnExit NoForgottenSleeper NobodyInsideWhenFreed
PROPERTIES EveryEntryDelivered StopReturns
