CONSTANTS
    d1 = d1
    d2 = d2
    img = img
    c1 = c1
    Builds = {b1}
    Dests <- MCDests
    Images <- MCImages
    CacheIds <- MCCacheIds
    NoDest = NoDest
    NoImage = NoImage
    NoId = NoId
    NoOwner = NoOwner
    BadVolume = BadVolume
    Contexts = {TRUE}
    MayCrash = {}
    MountBatches <- ResolveBatches
    VolumeBatches <- ResolveVolumes
SPECIFICATION Spec
INVARIANT CacheDirHasRequestedOwner
