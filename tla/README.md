# TLA+ models of buildah's mount resolution (`internal/volumes`)

This project models `src/internal/volumes/volumes.go`. That code turns the `--volume` and
`--mount` flags of one build step into OCI mounts. Along the way it acquires side resources:
mounted images, overlay temporary directories and cache lock files. It must return all of them
to the caller on success and release all of them on failure. Several builds may run at once as
separate processes. They share the image store, the overlay scratch space, the persistent cache
directories and the cache lock files.

## Inventory

| Component | Code | State it keeps | Operations |
|---|---|---|---|
| Token parser / dispatch | `getMounts` loop, 640-698 | `mountType` (declared once, before the loop) | split into tokens, check that there are at least 2, scan for `type=`, dispatch |
| Bind resolver | `GetBindMount` 122-297 | none of its own; mounts an image in the store | scan the options, default to `ro`, mount the `from=` image, check destination and source, validate the options, decide on an overlay |
| Overlay synthesizer | `convertToOverlay` 77-116 | a temporary directory on disk | `overlay.TempDir`, `os.Stat`, mount a directory or the parent of a non-directory, `RemoveTemp` on one error path |
| Cache resolver | `GetCacheMount` 302-538, `CacheParent` | the cache directory and lock-file directory on disk; the lock file | scan the options, check destination and stage, create directories named by a digest, honour `sharing`, block in `Lock()`, deferred unlock |
| Tmpfs resolver | `GetTmpfsMount` 706-763 | none | scan the options, require a destination |
| Aggregator | `GetVolumes` 569-607, `getMounts`, `getVolumeMounts` 541-555, `UnlockLockArray` | `finalMounts`, and the `mountedImages`, `overlayDirs` and `targetLocks` lists | reject duplicate destinations, merge the volumes, roll back in two deferred closures |
| Caller (not under `src/`) | the run step | the returned handles | run the step, then remove overlays, unmount images and unlock |
| Collaborators (outside the repo) | image store, `pkg/overlay`, `lockfile`, `parse.ValidateVolumeOpts`, `internalParse.Volume`, `copier.Eval` | store mount counts, files | modelled only through their failures, which are part of each entry's input |
| CI scripts | `tests/validate/git-validation.sh`, `unnamed/part_000` | none | not modelled: shell wrappers around `git-validation` |

How the components interact:
- `GetVolumes` calls `getMounts`. `getMounts` calls one resolver per entry and appends the handle
  the resolver returns to one of its lists.
- The duplicate-destination check runs **after** that append.
- A failure inside `getMounts` triggers its deferred cleanup. A failure after `getMounts`
  returned (a bad volume, or a duplicate between volumes and mounts) triggers `GetVolumes`'
  deferred cleanup.
- `GetBindMount` and `GetCacheMount` each have their own deferred release: of the image, and of
  the lock.

The hard behaviours:
- **Partial failure.** Every resolver can fail after it acquired something.
- **Interleaving across processes.** Locked cache entries must exclude other builds, and
  `Lock()` blocks with no timeout.
- **Loop-carried state** in `getMounts`.
- **Deadlock.** A lock can be requested while the same process already holds it, or two builds
  can request locks in opposite orders.

What makes each component correct:
- Every handle acquired is either returned or released.
- A failed batch holds nothing.
- A locked cache entry is used by one build at a time.
- Every entry is resolved as the type it declares.
- Every build finishes.
- A cache mount gets a directory with the mode and owner it asked for. This fails: see
  `cache_owner`.

## Modules

- `Volumes.tla`: the whole resolution of one `GetVolumes` call per build, for a set of
  concurrent `Builds`.
  - **Per-build state:** `batch`/`vols` (the arguments), `pc`, `next` (the loop index),
    `mountType`, `plan` (`finalMounts`), and `images`/`overlays`/`locks` (the code's three lists).
  - **Per-build input:** `ctx`, whether `contextDir` is non-empty. With none, a bind without
    `from=` takes its source from the host, and one with no `src=` fails with `errBadVolSrc`.
  - **Shared state:**
    - `imageMounts`: the store's mount counts, attributed to the build that took them;
    - `tmpDirs`: overlay directories on disk;
    - `cacheDirs`: the mode and owner of each cache directory, or `"absent"`;
    - `lockHolder`: one holder per lock file.
  - **Actions:**
    - `ResolveBind` is one whole `GetBindMount` call, including `convertToOverlay`, its deferred
      unmount, and getMounts' append, duplicate check and rollback.
    - `CachePrepare` is `GetCacheMount` up to the blocking `Lock()`. When sharing is not
      `locked` it completes the whole call.
    - `CacheAcquireLock` is `Lock()` returning and the rest of the call.
    - `ResolveTmpfs` is `GetTmpfsMount`.
    - `RejectMount` covers getMounts' syntax and unknown-type errors.
    - `MergeVolumes` is the rest of `GetVolumes`.
    - `RunStep` is the caller, modelled from the spec.
    - `Crash` is the environment killing a build's process (`MayCrash`). The kernel drops the
      process's fcntl locks on the lock files. The store's mount counts and the overlay
      directories stay.
  - **Entries:** an `Entry` record abstracts one `--mount` string to what the resolvers tell
    apart. The `fault` field is the collaborator failure it will meet. Every step is therefore
    deterministic given the input. The `attr` field is the cache entry's `mode=`/`uid=`/`gid=`
    tokens: none (`default`, 0755/0/0), values that parse (`custom`), or values that
    `strconv` rejects (`invalid`).
  - `MkdirAllAndChownNew` sets a directory's attributes only when it is `"absent"`.
  - A cache entry's `mkdir` fault is a failure before the cache directory exists (line 459 or
    480). Its `lockdir` fault is the lock-file directory failing after it was made (line 487).
  - **Refinement:** `TxnStatus` and `Txn == INSTANCE VolumesTxn WITH ...` map the state onto
    the abstract specification.
- `VolumesTxn.tla`: the abstract specification of what `GetVolumes` and its caller promise about
  locks and image mounts.
  - **State:** each build's `status` (resolving, running, done, failed), the `owner` of each lock
    file, and each build's image `mounts`.
  - **Actions:** a resolving build takes a free lock (`TakeLock`) or an image mount
    (`TakeImage`). It then either fails, giving everything back (`Fail`), or is handed what it
    took (`Return`). `Finish` gives it back when the step ends.
  - **Fairness:** weak fairness on ending a resolution and on ending a step.
  - **Refinement mapping:** `pc` maps to `status`, with `lockwait` counted as resolving.
    `lockHolder` maps to `owner` and `imageMounts` to `mounts`. The lists, the plan and the
    overlay directories are hidden. Overlays are left out because of the `overlay_leak`
    finding.
  - **Deferred cleanups** are part of the step that returns the error. They are not separate
    actions.
- `MCVolumes.tla`: the entry templates and batches for TLC.
  - `ResolveBatches`: every batch of up to 2 entries from 33 templates. The templates cover
    every fault of every resolver, both overlay branches, duplicate destinations, missing
    destinations, an entry without `type=`, and malformed and unknown types.
  - Four volume lists: empty, a clash with a mount, an internal duplicate, and unparsable.
  - `LockBatches`: cache entries for two builds.
  - `SameLockBatches`: the self-deadlocking batches.

## Runs

| Run | Expect | Checks | Shows |
|---|---|---|---|
| `resolve` (1 build, with and without a context directory, ~34k states) | pass | `TypeOK`, `HandlesMatchResources`, `FailedReleasesImagesAndLocks` | The returned lists always equal what is held. A failure anywhere in a batch of two or three entries, or in the `--volume` merge, releases every image mount and lock taken before it. |
| `locking` (2 builds, ~60k states) | pass | `LockedCacheExclusive`, `Termination` | Two builds never run on the same locked cache entry at once, also when an `id=` names another mount's destination. Both finish, provided each batch takes its locked entries in one common key order (`LockOrderOK`). |
| `contend` (3 builds, ~149k states) | pass | `Termination` | With one entry per build, two builds can wait in `Lock()` on the lock the third holds; both get it in turn and every build finishes. |
| `crash` (2 builds, b1 may be killed, ~100k states) | pass | `Termination` | A build waiting in `Lock()` on a cache entry whose holder was killed, while resolving or while running its step, still gets the lock and finishes. |
| `txn` (2 builds, ~37k states) | pass | `TxnRefinement` | `Volumes` implements `VolumesTxn`, including its liveness: locks and image mounts are taken only while resolving, a failure or a finished step gives back everything (also when one image was mounted twice), and every call and step ends. |
| `overlay_leak` | violation | `FailedRemovesOverlayDirs` | An image-backed or read-write bind whose `os.Stat` (line 83) or overlay mount fails leaves the overlay temporary directory on disk, and nobody removes it. |
| `type_carryover` | violation | `DeclaredTypeHonoured` | `type=cache,...` followed by an entry without `type=` resolves the second as a cache mount: `mountType` is not reset (line 618). |
| `cache_owner` | violation | `CacheDirHasRequestedOwner` | Two cache mounts of one id with different `uid=`/`gid=`: the second is handed a directory with the first one's owner. The comment at line 479 says "change uid and gid if specified"; `MkdirAllAndChownNew` only does so for a new directory (spec 4.4 says "if absent"). |
| `same_lock` | violation | `Termination` | Two `sharing=locked` mounts of one cache entry in a batch: the second `Lock()` never returns (line 508). With one destination the spec expects DuplicateDestination. With an `id=` equal to the other mount's destination (the trace TLC finds), the destinations differ and no error is due, yet the batch still hangs. |

Each property of a passing run has a mutant in `PROJECT.json`. The mutant is a variant of the
mapped code with one plausible bug, and TLC finds it. The bugs are:
- the `errBadVolDest` check dropped;
- a handle not recorded in its list;
- the deferred image unmount missing;
- the deferred unlock ignoring `succeeded`;
- `UnlockLockArray` doing nothing;
- the rollback unmounting each image once, however many times it was mounted.

**Bounds.**
- Two destinations are enough for every duplicate case. One image and one cache id, together
  with the two destinations, give three lock files.
- Batches of 2 entries reach every ordered pair: a failure after an earlier entry's resources,
  a duplicate after a resource-holding entry, and an untyped entry after a typed one. A third
  entry adds no new control path.
- Two builds are enough for exclusion. The `contend` run adds a third, with one entry each, so
  that two waiters queue on one lock; three builds with two-entry batches are beyond five
  minutes.
- The `txn` batches mount the one image from two entries, so a double mount followed by a
  failure is reached.
- Two cache attributes (`default`, `custom`) are enough to tell "kept" from "changed".
- The locking entries include a mount with `id=d2` on `d1`. It names the same cache entry and
  lock as a mount on `d2` without an id (the digest naming at line 466).
- `ResolveBatches` adds batches of three, drawn from six entries. Each entry holds one kind of
  resource (an image, an overlay, a lock) or fails after the others (a failed stat, a failed
  option validation with the lock held, a duplicate tmpfs).

**Fairness.** Each build is its own OS process, so each gets weak fairness on its steps.
`Lock()` is an fcntl lock behind an in-process mutex, and a freed lock is continuously enabled for a
waiter. Builds run once, so no build can be starved by another re-acquiring the lock. The
`locking`, `contend` and `crash` runs set `CHECK_DEADLOCK FALSE` because there every stuck build is a deadlock, and
`Termination` is the statement that none occurs. The `resolve` run checks for deadlock.
`Terminated` is the stuttering step once every build has finished.
`Crash` has no fairness, because a build need never be killed. A killed build counts as
finished in `Termination`, as in the usual statement of termination with crash-stop
processes.

## Not modelled (yet)

- Option wording: propagation, `rbind`, relabel, `nosuid`, tmpfs `mode=`/`size=`.
- `parse.ValidateVolumeOpts`'s counting rules. These are outside the repository, so a
  validation failure is an input. Because of those rules, `rw` on a cache mount, or
  `bind-propagation` on one, probably fails validation, but this cannot be checked from here.
- The values of cache mode/uid/gid. Only whether they parse is kept; negative ids and extra
  mode bits go to a collaborator outside the repository.
- `GetCacheMount` with `from=<stage>`. `getMounts` passes no stage map (line 676), so `from=`
  always fails there. The relative lock path that other callers would reach is listed as a
  hazard.
- Builds that take locks in opposite orders. The spec (section 5) leaves bounding the wait to
  callers, so the `locking` and `txn` runs assume one common key order (`LockOrderOK`).
- The contents of the overlay's merged view.
- The steps inside `idtools.MkdirAllAndChownNew`: the existence check, the mkdir and the
  chown. Two first users of one cache id can race between them (spec section 5 asks for
  race-tolerant creation). That code is outside the repository, so the call is one atomic
  check-and-create, and the race is a hazard without a property.
- Conflicting `rw`/`ro` tokens in one bind. `ValidateVolumeOpts` (line 281) rejects them
  before the overlay decision. The one bind template with both carries that validation
  failure.
- What happens after a process dies: nothing in this package reclaims the image mounts or the
  overlay directories a killed build leaves, and the spec says nothing about it.

## Plan

1. Done: `Volumes` with the three resolvers, the aggregator and the rollbacks; the resolve and
   locking runs; three findings.
2. Done: cache directory attributes (the `cache_owner` finding); a
   per-build context directory; `VolumesTxn` and the
   `txn` refinement run.
3. Done: process death (`Crash`, the `crash` run); three-entry batches; the id/destination
   key collision in the locking runs.
4. Review: dropped three properties that only restated the check they were about. One was
   the overlay decision at line 288. The other two were `MkdirAllAndChownNew`'s "only when
   absent" check, for one build and for two.
5. What remains is listed under "Not modelled": collaborator behaviour (negative ids, the
   stage lock path) and the meaning of mixed shared/locked users, which the spec leaves open.
