CONSTANTS
    d1 = d1
    d2 = d2
    img = img
    c1 = c1
    Builds = {b1, b2}
    Dests <- MCDests
    Images <- MCImages
    CacheIds <- MCCacheIds
    NoDest = NoDest
    NoImage = NoImage
    NoId = NoId
    NoOwner = NoOwner
    BadVolume = BadVolume
    Contexts = {TRUE}
    MayCrash = {b1}
    MountBatches <- LockBatches
    VolumeBatches <- LockVolumes
SPECIFICATION Spec
PROPERTY Termination
CHECK_DEADLOCK FALSE
