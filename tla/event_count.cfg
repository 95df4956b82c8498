\* Two posters and two takers; MaxPosts < EpochMod, so no epoch repeats.
CONSTANTS
    Posters = {p1, p2}
    Takers = {t1, t2}
    EcThreads = {p1, p2, t1, t2}
    EpochMod = 4
    WaiterMod = 5
    MaxPosts = 3
SPECIFICATION FairSpec
INVARIANTS WaitersCounted NoLostWakeup IInv
PROPERTIES AllTaken
