------------------------------ MODULE Volumes ------------------------------
(***************************************************************************)
(* Mount resolution of internal/volumes/volumes.go: GetVolumes and         *)
(* getMounts walking a batch of --mount entries, the three resolvers       *)
(* GetBindMount (with convertToOverlay), GetCacheMount and GetTmpfsMount,  *)
(* getVolumeMounts for the legacy --volume entries, and the rollback of    *)
(* the side resources (mounted images, overlay temporary directories,      *)
(* cache locks) acquired on the way.                                       *)
(*                                                                         *)
(* Several builds run concurrently as separate processes.  They share the  *)
(* image store's mount counts, the overlay temporary directories on disk,  *)
(* the persistent cache directories and the cache lock files.  Each        *)
(* resolver call is one atomic step except GetCacheMount with              *)
(* sharing=locked, which blocks in lockfile.Lock() until the lock is free. *)
(* Environment failures (image lookup, stat, overlay mount, mkdir, ...) are *)
(* part of each entry's input, so every step is deterministic given it.    *)
(***************************************************************************)
EXTENDS Integers, SequencesExt

CONSTANTS
    Builds,        \* concurrent build processes, each running GetVolumes once
    Dests,         \* container destinations (already joined with workDir)
    Images,        \* image references usable in from=<image>
    CacheIds,      \* values of id=<id> that are not a destination path
    NoDest,        \* no target=/dst=/destination= token
    NoImage,       \* no from= token
    NoId,          \* no id= token
    NoOwner,       \* a lock file nobody holds
    BadVolume,     \* a --volume string internalParse.Volume rejects
    Contexts,      \* subset of BOOLEAN: whether contextDir passed to GetVolumes is not ""
    MayCrash,      \* builds whose process may be killed
    MountBatches,  \* possible --mount lists, sequences of Entry records
    VolumeBatches  \* possible --volume lists, sequences of Dests \cup {BadVolume}

(* A cache directory (and its lock file) is named after the digest of the  *)
(* id, or of the destination when no id is given (volumes.go:464-474).     *)
(* Ids and destinations are both strings, so an id may equal a path.       *)
Keys == CacheIds \cup Dests

(* What getMounts reads from the type= token: a type, none, a token that   *)
(* is not key=value ("type=a=b", or fewer than two tokens), or an unknown  *)
(* type.                                                                   *)
TypTokens == {"bind", "cache", "tmpfs", "none", "malformed", "bogus"}

(* Environment outcomes of the collaborators each resolver calls.  For a  *)
(* cache mount, mkdir is MkdirAll(cacheParent) or MkdirAllAndChownNew      *)
(* failing (the cache directory is not made), lockdir is the lock-file     *)
(* directory's MkdirAll failing after the cache directory was made.        *)
Faults == {"none", "lookup", "imagemount", "eval", "opts", "tempdir", "stat",
           "overlaymount", "notbind", "mkdir", "lockdir", "getlock"}

(* The mode=, uid= and gid= tokens of a cache mount: none ("default",      *)
(* 0755/0/0), values that parse ("custom"), or a value strconv rejects.    *)
AttrTokens == {"default", "custom", "invalid"}
(* The mode and ownership a cache directory can have on disk.              *)
CacheAttrs == {"default", "custom"}

(* One --mount entry, abstracted to the tokens the resolvers tell apart.   *)
(* rd is the sequence of readability tokens rw/ro in the order given.      *)
Entry == [typ: TypTokens, dest: Dests \cup {NoDest}, src: BOOLEAN,
          from: Images \cup {NoImage}, rd: Seq({"rw", "ro"}),
          id: Keys \cup {NoId}, sharing: {"", "shared", "locked", "other"},
          attr: AttrTokens, fault: Faults, isDir: BOOLEAN]

NoKey == NoId
(* A resolved specs.Mount: its kind, where its source points, the cache    *)
(* lock it relies on, and the index of the entry it came from (0 for a     *)
(* --volume entry).                                                        *)
MountRec == [dest: Dests, kind: {"bind", "cache", "tmpfs", "volume"},
             src: {"overlay", "image", "context", "host", "cachedir", "tmpfs"},
             lock: Keys \cup {NoKey}, entry: Nat]

ASSUME MountBatches \subseteq Seq(Entry)
ASSUME VolumeBatches \subseteq Seq(Dests \cup {BadVolume})
ASSUME Contexts \subseteq BOOLEAN
ASSUME MayCrash \subseteq Builds

VARIABLES
    batch,        \* [Builds -> Seq(Entry)]: the mounts argument of GetVolumes
    vols,         \* [Builds -> Seq]: the volumes argument of GetVolumes
    ctx,          \* [Builds -> BOOLEAN]: contextDir argument is not ""
    pc,           \* where each build's GetVolumes call is
    next,         \* index of the --mount entry getMounts is resolving
    mountType,    \* getMounts' mountType, declared once before the loop
    plan,         \* finalMounts / unifiedMounts: set of MountRec
    images,       \* getMounts' mountedImages list
    overlays,     \* getMounts' overlayDirs list (entry indices)
    locks,        \* getMounts' targetLocks list (cache keys)
    imageMounts,  \* [Builds -> [Images -> Nat]]: store mount counts by taker
    tmpDirs,      \* overlay temporary directories on disk, <<build, entry>>
    cacheDirs,    \* [Keys -> CacheAttrs \cup {"absent"}]: cache dirs under CacheParent()
    lockHolder    \* [Keys -> Builds \cup {NoOwner}]: holder of each lock file

vars == <<batch, vols, ctx, pc, next, mountType, plan, images, overlays, locks,
          imageMounts, tmpDirs, cacheDirs, lockHolder>>

Phases == {"mounts", "lockwait", "running", "done", "failed", "crashed"}

-----------------------------------------------------------------------------
(* Helpers                                                                 *)

Cur(b) == batch[b][next[b]]

CountIn(s, x) == Cardinality({i \in DOMAIN s : s[i] = x})

(* Variant that drops the handle instead of recording it.                 *)
AppendIfDropped(s, cond, x) == s

(* getMounts records a handle a resolver returned only when it is set.     *)
AppendIf(s, cond, x) == IF cond THEN Append(s, x) ELSE s

DestTaken(P, d) == \E m \in P : m.dest = d

(* mountIsReadWrite: in case of conflicts the last of rw/ro wins, and a    *)
(* mount with neither is read-write.                                       *)
MountIsReadWrite(opts) ==
    FoldLeft(LAMBDA rw, o : IF o = "rw" THEN TRUE
                            ELSE IF o = "ro" THEN FALSE ELSE rw,
             TRUE, opts)

(* The resolver getMounts dispatches an entry to: the type= token sets     *)
(* mountType, an entry without one reuses whatever mountType holds.        *)
TypeAfter(b, e) == IF e.typ = "none" THEN mountType[b] ELSE e.typ

(* The cleanup of the lists (deferred in getMounts and in GetVolumes):     *)
(* overlay.RemoveTemp of every overlay dir, store.UnmountImage of every    *)
(* image, Unlock of every lock.  dirs, cnt and holder are the shared state *)
(* as the failing call left it.                                            *)
RemoveOverlays(b, dirs, ovs) == dirs \ {<<b, k>> : k \in ToSet(ovs)}
(* Variant that unmounts each image of the list once, however many times   *)
(* the list names it.                                                      *)
UnmountImagesOnce(cnt, imgs) ==
    [i \in Images |-> IF i \in ToSet(imgs) /\ cnt[i] > 0 THEN cnt[i] - 1 ELSE cnt[i]]
UnmountImages(cnt, imgs) ==
    [i \in Images |-> IF cnt[i] > CountIn(imgs, i) THEN cnt[i] - CountIn(imgs, i) ELSE 0]
(* Variant that forgets to unlock.                                         *)
UnlockLockArrayNoop(holder, lks) == holder
UnlockLockArray(holder, lks) ==
    [k \in Keys |-> IF k \in ToSet(lks) THEN NoOwner ELSE holder[k]]

ReleaseAll(b, imgs, ovs, lks, dirs, cnt, holder) ==
    /\ tmpDirs' = RemoveOverlays(b, dirs, ovs)
    /\ imageMounts' = [imageMounts EXCEPT ![b] = UnmountImages(cnt, imgs)]
    /\ lockHolder' = UnlockLockArray(holder, lks)

(* getMounts returns an error: its deferred cleanup runs, GetVolumes       *)
(* returns the error without a plan.                                       *)
MountsFail(b, imgs, ovs, lks, dirs, cnt, holder) ==
    /\ ReleaseAll(b, imgs, ovs, lks, dirs, cnt, holder)
    /\ pc' = [pc EXCEPT ![b] = "failed"]
    /\ UNCHANGED <<next, plan, images, overlays, locks>>

(* After a resolver returned: record its side resources, then reject a     *)
(* destination already in finalMounts, else add the mount and go on.       *)
Accept(b, m, imgs, ovs, lks, dirs, cnt, holder) ==
    IF DestTaken(plan[b], m.dest)
    THEN MountsFail(b, imgs, ovs, lks, dirs, cnt, holder)
    ELSE /\ plan' = [plan EXCEPT ![b] = @ \cup {m}]
         /\ images' = [images EXCEPT ![b] = imgs]
         /\ overlays' = [overlays EXCEPT ![b] = ovs]
         /\ locks' = [locks EXCEPT ![b] = lks]
         /\ tmpDirs' = dirs
         /\ imageMounts' = [imageMounts EXCEPT ![b] = cnt]
         /\ lockHolder' = holder
         /\ next' = [next EXCEPT ![b] = @ + 1]
         /\ pc' = [pc EXCEPT ![b] = "mounts"]

-----------------------------------------------------------------------------
(* GetBindMount                                                            *)

(* Keys the bind option scan rejects with errBadMntOption.                 *)
BindScanError(e) == e.id # NoId \/ e.sharing # "" \/ e.attr # "default"

(* Readability options after the scan: the rw/ro tokens as given, and "ro" *)
(* appended when there was none.                                           *)
BindOptions(e) == IF e.rd = <<>> THEN <<"ro">> ELSE e.rd

(* from=<name>: additionalMountPoints is nil when called from getMounts,   *)
(* so the name is looked up and mounted as an image.                       *)
BindMountsImage(e) == e.from # NoImage
BindImageFails(e) == BindMountsImage(e) /\ e.fault \in {"lookup", "imagemount"}

(* Errors after the image mount and before the overlay: no destination,   *)
(* copier.Eval under the context or image mount point, or without one a   *)
(* missing or illegal host source, then ValidateVolumeOpts.                *)
BindUsesContext(b, e) == ctx[b] \/ BindMountsImage(e)
(* Variant without the errBadVolDest check.                               *)
BindResolveFailsNoDest(b, e) ==
    \/ BindUsesContext(b, e) /\ e.fault = "eval"
    \/ ~BindUsesContext(b, e) /\ (~e.src \/ e.fault = "eval")
    \/ e.fault = "opts"

BindResolveFails(b, e) ==
    \/ e.dest = NoDest
    \/ BindUsesContext(b, e) /\ e.fault = "eval"
    \/ ~BindUsesContext(b, e) /\ (~e.src \/ e.fault = "eval")
    \/ e.fault = "opts"

NeedsOverlay(e) == BindMountsImage(e) \/ MountIsReadWrite(BindOptions(e))

(* convertToOverlay: err, and whether overlay.TempDir's directory is still *)
(* on disk afterwards.  Only the non-directory branch whose overlay is not *)
(* a bind mount removes it before failing.                                 *)
ConvertToOverlay(e) ==
    CASE e.fault = "tempdir" -> [err |-> TRUE, dirLeft |-> FALSE]
      [] e.fault \in {"stat", "overlaymount"} -> [err |-> TRUE, dirLeft |-> TRUE]
      [] e.fault = "notbind" /\ ~e.isDir -> [err |-> TRUE, dirLeft |-> FALSE]
      [] OTHER -> [err |-> FALSE, dirLeft |-> TRUE]

(* The deferred store.UnmountImage runs unless the call succeeded.         *)
(* Variant without the deferred unmount.                                   *)
BindImageHeldNoDefer(mounted, succeeded) == mounted

BindImageHeld(mounted, succeeded) == mounted /\ succeeded

ResolveBind(b) ==
    /\ pc[b] = "mounts"
    /\ next[b] <= Len(batch[b])
    /\ Cur(b).typ # "malformed"
    /\ TypeAfter(b, Cur(b)) = "bind"
    /\ mountType' = [mountType EXCEPT ![b] = "bind"]
    /\ LET e == Cur(b)
           k == next[b]
           scanned == ~BindScanError(e)
           mounted == scanned /\ BindMountsImage(e) /\ ~BindImageFails(e)
           resolved == scanned /\ ~BindImageFails(e) /\ ~BindResolveFails(b, e)
           converted == resolved /\ NeedsOverlay(e)
           ov == ConvertToOverlay(e)
           ok == resolved /\ ~(converted /\ ov.err)
           dirs == IF converted /\ ov.dirLeft THEN tmpDirs \cup {<<b, k>>} ELSE tmpDirs
           cnt == IF BindImageHeld(mounted, ok)
                  THEN [imageMounts[b] EXCEPT ![e.from] = @ + 1] ELSE imageMounts[b]
           m == [dest |-> e.dest, kind |-> "bind", lock |-> NoKey, entry |-> k,
                 src |-> IF converted THEN "overlay"
                         ELSE IF mounted THEN "image"
                         ELSE IF BindUsesContext(b, e) THEN "context" ELSE "host"]
       IN IF ~ok
          THEN MountsFail(b, images[b], overlays[b], locks[b], dirs, cnt, lockHolder)
          ELSE Accept(b, m,
                      AppendIf(images[b], mounted, e.from),
                      AppendIf(overlays[b], converted, k),
                      locks[b], dirs, cnt, lockHolder)
    /\ UNCHANGED <<batch, vols, ctx, cacheDirs>>

-----------------------------------------------------------------------------
(* GetCacheMount                                                           *)

CacheKey(e) == IF e.id # NoId THEN e.id ELSE e.dest

(* Everything before the lock: the destination check, the from=<stage>    *)
(* lookup (additionalMountPoints is nil here, so it always fails), the     *)
(* cache and lock-file directories, lockfile.GetLockFile, and the sharing *)
(* value.  With sharing=locked the call goes on to block in Lock().        *)
CacheFailsBeforeLock(e) ==
    \/ e.attr = "invalid"
    \/ e.dest = NoDest
    \/ e.from # NoImage
    \/ e.fault \in {"mkdir", "lockdir"}
    \/ e.sharing = "locked" /\ e.fault = "getlock"
    \/ e.sharing = "other"

(* idtools.MkdirAllAndChownNew: mode and ownership are applied only when  *)
(* the directory is created.                                               *)
MkdirAllAndChownNew(dirs, key, attr) ==
    IF dirs[key] = "absent" THEN [dirs EXCEPT ![key] = attr] ELSE dirs

CacheMount(e, k, lock) ==
    [dest |-> e.dest, kind |-> "cache", src |-> "cachedir", lock |-> lock, entry |-> k]

CachePrepare(b) ==
    /\ pc[b] = "mounts"
    /\ next[b] <= Len(batch[b])
    /\ Cur(b).typ # "malformed"
    /\ TypeAfter(b, Cur(b)) = "cache"
    /\ mountType' = [mountType EXCEPT ![b] = "cache"]
    /\ LET e == Cur(b)
           reachesDirs == e.attr # "invalid" /\ e.dest # NoDest /\ e.from = NoImage
           dirs == IF reachesDirs /\ e.fault # "mkdir"
                   THEN MkdirAllAndChownNew(cacheDirs, CacheKey(e), e.attr)
                   ELSE cacheDirs
       IN /\ cacheDirs' = dirs
          /\ IF CacheFailsBeforeLock(e) \/ (e.sharing # "locked" /\ e.fault = "opts")
             THEN MountsFail(b, images[b], overlays[b], locks[b],
                             tmpDirs, imageMounts[b], lockHolder)
             ELSE IF e.sharing = "locked"
             THEN /\ pc' = [pc EXCEPT ![b] = "lockwait"]
                  /\ UNCHANGED <<next, plan, images, overlays, locks,
                                 imageMounts, tmpDirs, lockHolder>>
             ELSE Accept(b, CacheMount(e, next[b], NoKey), images[b], overlays[b],
                         locks[b], tmpDirs, imageMounts[b], lockHolder)
    /\ UNCHANGED <<batch, vols, ctx>>

(* The deferred Unlock of targetLock runs unless the call succeeded.       *)
(* Variant whose deferred Unlock ignores succeeded.                        *)
CacheDeferUnlockAlways(holder, key, succeeded) == [holder EXCEPT ![key] = NoOwner]

CacheDeferUnlock(holder, key, succeeded) ==
    IF succeeded THEN holder ELSE [holder EXCEPT ![key] = NoOwner]

(* lockfile.Lock() returns once no process holds the lock file, this one  *)
(* included; then the options are completed and validated.                 *)
CacheAcquireLock(b) ==
    /\ pc[b] = "lockwait"
    /\ LET e == Cur(b)
           key == CacheKey(e)
           ok == e.fault # "opts"
           holder == CacheDeferUnlock([lockHolder EXCEPT ![key] = b], key, ok)
       IN /\ lockHolder[key] = NoOwner
          /\ IF ~ok
             THEN MountsFail(b, images[b], overlays[b], locks[b],
                             tmpDirs, imageMounts[b], holder)
             ELSE Accept(b, CacheMount(e, next[b], key), images[b], overlays[b],
                         AppendIf(locks[b], TRUE, key), tmpDirs, imageMounts[b], holder)
    /\ UNCHANGED <<batch, vols, ctx, mountType, cacheDirs>>

-----------------------------------------------------------------------------
(* GetTmpfsMount: no side resources; src= and every key it does not know  *)
(* (from, id, sharing, rw) are rejected, and a destination is required.    *)

TmpfsRejects(e) ==
    \/ e.src
    \/ e.from # NoImage \/ e.id # NoId \/ e.sharing # "" \/ e.attr # "default"
    \/ "rw" \in ToSet(e.rd)
    \/ e.dest = NoDest

ResolveTmpfs(b) ==
    /\ pc[b] = "mounts"
    /\ next[b] <= Len(batch[b])
    /\ Cur(b).typ # "malformed"
    /\ TypeAfter(b, Cur(b)) = "tmpfs"
    /\ mountType' = [mountType EXCEPT ![b] = "tmpfs"]
    /\ LET e == Cur(b)
           m == [dest |-> e.dest, kind |-> "tmpfs", src |-> "tmpfs",
                 lock |-> NoKey, entry |-> next[b]]
       IN IF TmpfsRejects(e)
          THEN MountsFail(b, images[b], overlays[b], locks[b],
                          tmpDirs, imageMounts[b], lockHolder)
          ELSE Accept(b, m, images[b], overlays[b], locks[b],
                      tmpDirs, imageMounts[b], lockHolder)
    /\ UNCHANGED <<batch, vols, ctx, cacheDirs>>

-----------------------------------------------------------------------------
(* getMounts' own checks: fewer than two tokens or a type= token that is   *)
(* not key=value fail with errInvalidSyntax before dispatch; an unknown    *)
(* type is stored in mountType and fails in the switch's default.          *)
RejectMount(b) ==
    /\ pc[b] = "mounts"
    /\ next[b] <= Len(batch[b])
    /\ \/ Cur(b).typ = "malformed" /\ UNCHANGED mountType
       \/ Cur(b).typ # "malformed" /\ TypeAfter(b, Cur(b)) = "bogus"
          /\ mountType' = [mountType EXCEPT ![b] = "bogus"]
    /\ MountsFail(b, images[b], overlays[b], locks[b], tmpDirs, imageMounts[b], lockHolder)
    /\ UNCHANGED <<batch, vols, ctx, cacheDirs>>

-----------------------------------------------------------------------------
(* GetVolumes after getMounts succeeded                                    *)

(* getVolumeMounts: internalParse.Volume of every entry, and no            *)
(* destination twice among the volumes.                                    *)
VolumeMountsFail(v) ==
    \/ BadVolume \in ToSet(v)
    \/ \E i, j \in DOMAIN v : i < j /\ v[i] = v[j]

(* GetVolumes' own deferred cleanup, armed once getMounts has succeeded.   *)
VolumesRollback(b) ==
    ReleaseAll(b, images[b], overlays[b], locks[b], tmpDirs, imageMounts[b], lockHolder)

MergeVolumes(b) ==
    /\ pc[b] = "mounts"
    /\ next[b] > Len(batch[b])
    /\ IF VolumeMountsFail(vols[b]) \/ \E d \in ToSet(vols[b]) : DestTaken(plan[b], d)
       THEN /\ VolumesRollback(b)
            /\ pc' = [pc EXCEPT ![b] = "failed"]
            /\ UNCHANGED plan
       ELSE /\ plan' = [plan EXCEPT ![b] = @ \cup
                          {[dest |-> d, kind |-> "volume", src |-> "host",
                            lock |-> NoKey, entry |-> 0] : d \in ToSet(vols[b])}]
            /\ pc' = [pc EXCEPT ![b] = "running"]
            /\ UNCHANGED <<imageMounts, tmpDirs, lockHolder>>
    /\ UNCHANGED <<batch, vols, ctx, next, mountType, images, overlays, locks, cacheDirs>>

(* The caller of GetVolumes runs the step, then removes the overlays,      *)
(* unmounts the images and unlocks the locks it was handed.                *)
RunStep(b) ==
    /\ pc[b] = "running"
    /\ ReleaseAll(b, images[b], overlays[b], locks[b], tmpDirs, imageMounts[b], lockHolder)
    /\ pc' = [pc EXCEPT ![b] = "done"]
    /\ UNCHANGED <<batch, vols, ctx, next, mountType, plan, images, overlays, locks, cacheDirs>>

(* The build's process is killed while resolving or running its step.     *)
(* The kernel drops its fcntl locks on the cache lock files; the image     *)
(* store's mount counts and the overlay directories stay as they were, and *)
(* no code of this package runs to release them.                           *)
Crash(b) ==
    /\ pc[b] \in {"mounts", "lockwait", "running"}
    /\ pc' = [pc EXCEPT ![b] = "crashed"]
    /\ lockHolder' = [k \in Keys |-> IF lockHolder[k] = b THEN NoOwner ELSE lockHolder[k]]
    /\ UNCHANGED <<batch, vols, ctx, next, mountType, plan, images, overlays, locks,
                   imageMounts, tmpDirs, cacheDirs>>

-----------------------------------------------------------------------------
(* Specification                                                           *)

Init ==
    /\ batch \in [Builds -> MountBatches]
    /\ vols \in [Builds -> VolumeBatches]
    /\ ctx \in [Builds -> Contexts]
    /\ pc = [b \in Builds |-> "mounts"]
    /\ next = [b \in Builds |-> 1]
    /\ mountType = [b \in Builds |-> "bind"]
    /\ plan = [b \in Builds |-> {}]
    /\ images = [b \in Builds |-> <<>>]
    /\ overlays = [b \in Builds |-> <<>>]
    /\ locks = [b \in Builds |-> <<>>]
    /\ imageMounts = [b \in Builds |-> [i \in Images |-> 0]]
    /\ tmpDirs = {}
    /\ cacheDirs = [k \in Keys |-> "absent"]
    /\ lockHolder = [k \in Keys |-> NoOwner]

Finished(b) == pc[b] \in {"done", "failed", "crashed"}

(* Every build has returned from GetVolumes and its step is over.          *)
Terminated == \A b \in Builds : Finished(b) /\ UNCHANGED vars

BuildStep(b) ==
    \/ ResolveBind(b)
    \/ CachePrepare(b)
    \/ CacheAcquireLock(b)
    \/ ResolveTmpfs(b)
    \/ RejectMount(b)
    \/ MergeVolumes(b)
    \/ RunStep(b)

Next == (\E b \in Builds : BuildStep(b)) \/ (\E b \in MayCrash : Crash(b)) \/ Terminated

(* Each build is its own process, scheduled by the OS: none stops while it *)
(* can take a step.                                                        *)
Fairness == \A b \in Builds : WF_vars(BuildStep(b))

Spec == Init /\ [][Next]_vars /\ Fairness

-----------------------------------------------------------------------------
(* Invariants                                                              *)

TypeOK ==
    /\ batch \in [Builds -> MountBatches]
    /\ vols \in [Builds -> VolumeBatches]
    /\ ctx \in [Builds -> Contexts]
    /\ pc \in [Builds -> Phases]
    /\ next \in [Builds -> Nat \ {0}]
    /\ mountType \in [Builds -> {"bind", "cache", "tmpfs", "bogus"}]
    /\ plan \in [Builds -> SUBSET MountRec]
    /\ images \in [Builds -> Seq(Images)]
    /\ overlays \in [Builds -> Seq(Nat)]
    /\ locks \in [Builds -> Seq(Keys)]
    /\ imageMounts \in [Builds -> [Images -> Nat]]
    /\ tmpDirs \subseteq Builds \X Nat
    /\ cacheDirs \in [Keys -> CacheAttrs \cup {"absent"}]
    /\ lockHolder \in [Keys -> Builds \cup {NoOwner}]

(* What a build holds in the shared state: overlay directories on disk    *)
(* made for it, image mounts it took, lock files it holds.                 *)
HeldDirs(b) == {x[2] : x \in {y \in tmpDirs : y[1] = b}}
HeldLocks(b) == {k \in Keys : lockHolder[k] = b}

(* While GetVolumes runs and while its caller runs the step, the lists    *)
(* getMounts keeps (and GetVolumes returns) are exactly what the build    *)
(* holds: every overlay directory, image mount and lock taken on its      *)
(* behalf is in a list, and nothing in a list has been released.  A       *)
(* resolver that drops a handle on some path, or a cleanup that releases   *)
(* too early, breaks it.                                                   *)
HandlesMatchResources ==
    \A b \in Builds : pc[b] \in {"mounts", "lockwait", "running"} =>
        /\ HeldDirs(b) = ToSet(overlays[b])
        /\ \A i \in Images : imageMounts[b][i] = CountIn(images[b], i)
        /\ HeldLocks(b) = ToSet(locks[b])

(* Once GetVolumes has failed, the build holds no image mount and no lock:*)
(* the resolvers' own defers and the getMounts/GetVolumes rollbacks        *)
(* released everything, whichever entry or volume failed.                  *)
FailedReleasesImagesAndLocks ==
    \A b \in Builds : pc[b] = "failed" =>
        /\ \A i \in Images : imageMounts[b][i] = 0
        /\ HeldLocks(b) = {}

(* The spec's all-or-nothing promise for overlays: after a failed batch no *)
(* overlay temporary directory made for it remains on disk.                *)
FailedRemovesOverlayDirs ==
    \A b \in Builds : pc[b] = "failed" => HeldDirs(b) = {}

(* Two builds never run their steps at the same time on the same cache    *)
(* entry when both mounted it with sharing=locked.                         *)
LockedCacheExclusive ==
    \A b1, b2 \in Builds : b1 # b2 /\ pc[b1] = "running" /\ pc[b2] = "running" =>
        \A m1 \in plan[b1], m2 \in plan[b2] :
            m1.lock # NoKey => m1.lock # m2.lock

(* Every --mount entry is resolved as the type it declares, bind when it   *)
(* declares none (spec 4.1, 4.6).                                          *)
DeclaredType(e) == IF e.typ = "none" THEN "bind" ELSE e.typ
DeclaredTypeHonoured ==
    \A b \in Builds : \A m \in plan[b] :
        m.entry > 0 => m.kind = DeclaredType(batch[b][m.entry])

(* The comment at volumes.go:479 ("change uid and gid if specified"): the  *)
(* directory of every cache mount handed to a running step has the mode,  *)
(* uid and gid its --mount entry asked for.                                 *)
CacheDirHasRequestedOwner ==
    \A b \in Builds : pc[b] = "running" =>
        \A m \in plan[b] : m.kind = "cache" =>
            cacheDirs[CacheKey(batch[b][m.entry])] = batch[b][m.entry].attr

(* Refinement mapping to VolumesTxn: a build waiting in Lock() is still   *)
(* resolving; the lists, the plan and the overlay directories are hidden.  *)
(* VolumesTxn has no process death: a crashed build maps to a failed one,  *)
(* which the refinement holds only with MayCrash empty, since a crash      *)
(* leaves image mounts behind.                                             *)
TxnStatus ==
    [b \in Builds |-> CASE pc[b] \in {"mounts", "lockwait"} -> "resolving"
                        [] pc[b] = "crashed" -> "failed"
                        [] OTHER -> pc[b]]

Txn == INSTANCE VolumesTxn WITH status <- TxnStatus, owner <- lockHolder, mounts <- imageMounts

(* GetVolumes and its caller implement VolumesTxn: locks and image mounts *)
(* are taken one at a time and only while resolving, a failed call and a   *)
(* finished step give back everything the build took, and (under the       *)
(* builds' fairness) every call returns and every step ends.               *)
TxnRefinement == Txn!TxnSpec

(* Every build's GetVolumes call returns, and a successful one's step ends *)
(* with its resources released.                                            *)
Termination == \A b \in Builds : <>Finished(b)

====
