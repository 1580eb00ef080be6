----------------------------- MODULE MCVolumes -----------------------------
(***************************************************************************)
(* Model-checking instances of Volumes: the --mount entries a batch is     *)
(* built from, chosen so that every resolver branch, every collaborator    *)
(* failure and every cleanup path is taken, over two destinations, one     *)
(* image and one explicit cache id.                                        *)
(***************************************************************************)
EXTENDS Volumes

CONSTANTS d1, d2, img, c1

\* Entry constructors: the tokens of one --mount string.
BindE(typ, d, from, rd, fault, isDir) ==
    [typ |-> typ, dest |-> d, src |-> TRUE, from |-> from, rd |-> rd,
     id |-> NoId, sharing |-> "", attr |-> "default", fault |-> fault, isDir |-> isDir]
CacheAttrE(d, id, sharing, attr, fault) ==
    [typ |-> "cache", dest |-> d, src |-> FALSE, from |-> NoImage, rd |-> <<>>,
     id |-> id, sharing |-> sharing, attr |-> attr, fault |-> fault, isDir |-> TRUE]
CacheE(d, id, sharing, fault) == CacheAttrE(d, id, sharing, "default", fault)
TmpfsE(d, src) ==
    [typ |-> "tmpfs", dest |-> d, src |-> src, from |-> NoImage, rd |-> <<>>,
     id |-> NoId, sharing |-> "", attr |-> "default", fault |-> "none", isDir |-> TRUE]

\* type=bind,src=...,target=d1,rw with every outcome of the overlay setup.
RwBinds ==
    {BindE("bind", d1, NoImage, <<"rw">>, f, dir) :
        f \in {"none", "eval", "opts", "tempdir", "stat", "overlaymount", "notbind"},
        dir \in BOOLEAN}
\* type=bind,from=img,target=d1 with every outcome of the image mount.
ImageBinds ==
    {BindE("bind", d1, img, <<>>, f, TRUE) :
        f \in {"none", "lookup", "imagemount", "opts", "stat"}}
OtherBinds ==
    {BindE("bind", d2, NoImage, <<>>, "none", TRUE),
     \* ValidateVolumeOpts rejects a conflicting rw/ro pair
     BindE("bind", d2, NoImage, <<"ro", "rw">>, "opts", TRUE),
     BindE("bind", NoDest, img, <<>>, "none", TRUE),
     [BindE("bind", d2, NoImage, <<>>, "none", TRUE) EXCEPT !.src = FALSE],
     [BindE("bind", d2, NoImage, <<>>, "none", TRUE) EXCEPT !.attr = "custom"],
     BindE("none", d2, NoImage, <<>>, "none", TRUE),
     BindE("malformed", d2, NoImage, <<>>, "none", TRUE),
     BindE("bogus", d2, NoImage, <<>>, "none", TRUE)}
Caches ==
    {CacheE(d2, NoId, "locked", f) : f \in {"none", "getlock", "opts"}} \cup
    {CacheE(d1, c1, "", "none"), CacheE(d1, c1, "other", "none"),
     CacheE(d2, NoId, "", "mkdir"), CacheE(d2, NoId, "", "lockdir"), CacheE(NoDest, c1, "", "none"),
     CacheAttrE(d2, c1, "", "custom", "none"), CacheAttrE(d2, c1, "", "invalid", "none")}
Tmpfses == {TmpfsE(d2, FALSE), TmpfsE(d1, TRUE)}

AllEntries == RwBinds \cup ImageBinds \cup OtherBinds \cup Caches \cup Tmpfses

\* A fixed order on lock files; a batch that locks them in increasing order
\* cannot wait for a lock it or a later lock's holder already needs.
KeyOrder == <<c1, d1, d2>>
Rank(k) == CHOOSE i \in DOMAIN KeyOrder : KeyOrder[i] = k
LockedKeys(s) ==
    SelectSeq([i \in DOMAIN s |-> IF s[i].typ = "cache" /\ s[i].sharing = "locked"
                                  THEN CacheKey(s[i]) ELSE NoKey],
              LAMBDA k : k # NoKey)
LockOrderOK(s) ==
    \A i, j \in DOMAIN LockedKeys(s) : i < j => Rank(LockedKeys(s)[i]) < Rank(LockedKeys(s)[j])

\* One build: every batch of up to two entries.
\* Three entries holding one resource each, or failing after them, so that
\* a failure meets an image mount, an overlay and a lock taken before it.
TripleEntries ==
    {BindE("bind", d1, img, <<>>, "none", TRUE),
     BindE("bind", d2, NoImage, <<"rw">>, "none", TRUE),
     CacheE(d2, c1, "locked", "none"), CacheE(d1, NoId, "locked", "opts"),
     BindE("bind", d1, NoImage, <<"rw">>, "stat", TRUE), TmpfsE(d1, FALSE)}
ResolveBatches ==
    {s \in BoundedSeq(AllEntries, 2) \cup [1..3 -> TripleEntries] : LockOrderOK(s)}
ResolveVolumes == {<<>>, <<d1>>, <<d2, d2>>, <<BadVolume>>}

\* Concurrent builds contending on cache locks.
LockEntries ==
    {CacheE(d1, c1, "locked", "none"), CacheE(d2, NoId, "locked", "none"),
     CacheE(d2, NoId, "locked", "opts"), CacheE(d1, c1, "", "none"),
     BindE("bind", d1, img, <<>>, "none", TRUE),
     \* id=d2 names the same cache entry as a destination d2 without id=
     CacheE(d1, d2, "locked", "none")}
LockBatches == {s \in BoundedSeq(LockEntries, 2) : LockOrderOK(s)}
LockVolumes == {<<>>, <<d1>>}
\* Three builds, one entry each: two of them can wait on one lock at once.
ContendBatches == BoundedSeq(LockEntries, 1)

\* Two builds taking locks and image mounts, with failures after either.
TxnEntries ==
    {CacheE(d1, c1, "locked", "none"), CacheE(d2, NoId, "locked", "opts"),
     BindE("bind", d1, img, <<>>, "none", TRUE),
     BindE("bind", d2, img, <<>>, "none", TRUE),
     BindE("bind", d2, img, <<>>, "opts", TRUE)}
TxnBatches == {s \in BoundedSeq(TxnEntries, 2) : LockOrderOK(s)}

\* The same cache entry mounted twice with sharing=locked in one batch.
SameLockBatches ==
    {<<CacheE(d1, NoId, "locked", "none"), CacheE(d1, NoId, "locked", "none")>>,
     <<CacheE(d1, c1, "locked", "none"), CacheE(d2, c1, "locked", "none")>>,
     <<CacheE(d1, d2, "locked", "none"), CacheE(d2, NoId, "locked", "none")>>}

MCDests == {d1, d2}
MCImages == {img}
MCCacheIds == {c1}
====
