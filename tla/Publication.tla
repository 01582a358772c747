---------------------------- MODULE Publication ----------------------------
(***************************************************************************)
(* Publication of the generated C++ (codegen/common_artifacts.rs).  With   *)
(* the common layout a suite is a set of files and a manifest that lists   *)
(* them; whoever finds the manifest may build from the files.  Several     *)
(* compilers may publish into one output directory, one after the other    *)
(* or at the same time, and any of them may fail, be killed, or lose power *)
(* at any point.                                                           *)
(*                                                                         *)
(* A version of the suite has a manifest and the contents of its files.    *)
(* Two versions may have the same manifest: it names the files, the        *)
(* interface and the build profile, not the bodies of the tests.  Besides  *)
(* the manifest there are two sidecar files: the recovery manifest (the    *)
(* manifest that was valid before) and the pending journal (every manifest *)
(* whose files may be lying around).                                       *)
(*                                                                         *)
(* A directory operation is visible at once and durable at the next        *)
(* sync_directory().  For every name, x<name> is the set of what power     *)
(* loss may leave there.  Contents need no such set: stage_file() syncs a  *)
(* file before it gets its final name.                                     *)
(***************************************************************************)
EXTENDS Naturals

CONSTANTS
    Procs,      \* compilers that use the output directory
    Files,      \* names of artifacts, numbered in the order of the plans
    Versions,   \* versions of the suite
    Manifest,   \* the contents of each version's manifest
    Owned,      \* the files that a manifest lists
    Content,    \* what a version puts into each of its files
    NoFile,     \* the name is not there
    Foreign,    \* a manifest that parse_manifest() does not trust
    User,       \* what somebody else writes into a file
    MaxFaults   \* bound: failures, power losses and foreign edits

Idents == {Manifest[v] : v \in Versions}

ASSUME FilesAssumption == Files \subseteq Nat
ASSUME VersionsAssumption == Versions # {}
ASSUME OwnedAssumption == \A v \in Versions : Owned[Manifest[v]] \subseteq Files
ASSUME FaultsAssumption == MaxFaults \in Nat
ASSUME NamesAssumption ==
    /\ {NoFile, Foreign} \cap Idents = {} /\ NoFile # Foreign
    /\ NoFile \notin Procs
    /\ \A v \in Versions, f \in Files : Content[v][f] \notin {NoFile, User}

VARIABLES
    file, manifest, recovery, pending,      \* the directory as processes see it
    xfile, xmanifest, xrecovery, xpending,  \* what power loss may leave
    lock,       \* who holds the lock of the directory, NoFile if nobody
    pc,         \* where each process is in its publication
    ver,        \* the version it publishes
    snap,       \* manifest_snapshot: the manifest found by begin_publication
    found,      \* a recovery manifest or journal was found there
    owned,      \* ownership_manifests
    delivered,  \* artifacts handed to write()
    staged,     \* artifacts waiting in a temporary file
    stale,      \* artifacts still to be removed
    faults,     \* faults so far
    unsynced,   \* history: files others wrote since the last sync of the directory
    late,       \* history: the same since the last revalidation
    edited      \* history: the same since the manifest's publisher did

disk == <<file, manifest, recovery, pending>>
xdisk == <<xfile, xmanifest, xrecovery, xpending, unsynced>>
job == <<ver, snap, found, owned, delivered, staged, stale>>
vars == <<disk, xdisk, lock, pc, job, faults, late, edited>>

Stages == {"idle", "deliver", "journal", "journaled", "invalidate", "retire",
           "retired", "install", "publish", "published", "forget", "clear",
           "cleared", "done"}

\* What a file holds that no publication put there.
Outside == {NoFile, User}

Contents == {Content[v][f] : v \in Versions, f \in Files} \cup Outside

TypeOK ==
    /\ file \in [Files -> Contents]
    /\ manifest \in Idents \cup {NoFile, Foreign}
    /\ recovery \in Idents \cup {NoFile}
    /\ pending \in SUBSET Idents
    /\ xfile \in [Files -> SUBSET Contents]
    /\ xmanifest \in SUBSET (Idents \cup {NoFile, Foreign})
    /\ xrecovery \in SUBSET (Idents \cup {NoFile})
    /\ xpending \in SUBSET SUBSET Idents
    /\ lock \in Procs \cup {NoFile}
    /\ pc \in [Procs -> Stages]
    /\ ver \in [Procs -> Versions]
    /\ snap \in [Procs -> Idents \cup {NoFile, Foreign}]
    /\ found \in [Procs -> BOOLEAN]
    /\ owned \in [Procs -> SUBSET Idents]
    /\ delivered \in [Procs -> SUBSET Files]
    /\ staged \in [Procs -> SUBSET Files]
    /\ stale \in [Procs -> SUBSET Files]
    /\ faults \in 0 .. MaxFaults
    /\ unsynced \in SUBSET Files
    /\ late \in SUBSET Files
    /\ edited \in SUBSET Files

AnyVersion == CHOOSE v \in Versions : TRUE

\* The directory is empty or holds files of the same names that somebody else
\* put there, and perhaps a manifest of another compiler's schema.
Init ==
    /\ file \in [Files -> Outside]
    /\ manifest \in {NoFile, Foreign}
    /\ recovery = NoFile
    /\ pending = {}
    /\ xfile = [f \in Files |-> {file[f]}]
    /\ xmanifest = {manifest}
    /\ xrecovery = {NoFile}
    /\ xpending = {{}}
    /\ lock = NoFile
    /\ pc = [p \in Procs |-> "idle"]
    /\ ver = [p \in Procs |-> AnyVersion]
    /\ snap = [p \in Procs |-> NoFile]
    /\ found = [p \in Procs |-> FALSE]
    /\ owned = [p \in Procs |-> {}]
    /\ delivered = [p \in Procs |-> {}]
    /\ staged = [p \in Procs |-> {}]
    /\ stale = [p \in Procs |-> {}]
    /\ faults = 0
    /\ unsynced = {}
    /\ late = {}
    /\ edited = {}
-----------------------------------------------------------------------------

Mine(p) == Owned[Manifest[ver[p]]]

\* The next of several artifacts, in the order of the plan.
IsFirst(f, fs) == f \in fs /\ \A g \in fs : f <= g

Goto(p, stage) == pc' = [pc EXCEPT ![p] = stage]

Fault == faults < MaxFaults /\ faults' = faults + 1

SyncDirectory ==
    /\ xfile' = [f \in Files |-> {file[f]}]
    /\ xmanifest' = {manifest}
    /\ xrecovery' = {recovery}
    /\ xpending' = {pending}
    /\ unsynced' = {}

\* The manifests whose files may be in the directory: those of the journal,
\* unless there is a manifest that nobody trusts, and the last valid one.
Cover(m, r, journal) ==
    (IF m = Foreign THEN {} ELSE journal)
    \cup ((IF m = NoFile THEN {r} ELSE {m}) \cap Idents)

Ownership(v) == Cover(manifest, recovery, pending) \cup {Manifest[v]}

\* begin_publication_with_manifest(): lock, look at what is there.
Begin(p) ==
    /\ pc[p] = "idle"
    /\ lock = NoFile
    /\ lock' = p
    /\ \E v \in Versions :
        /\ ver' = [ver EXCEPT ![p] = v]
        /\ owned' = [owned EXCEPT ![p] = Ownership(v)]
    /\ snap' = [snap EXCEPT ![p] = manifest]
    /\ found' = [found EXCEPT ![p] = recovery # NoFile \/ pending # {}]
    /\ Goto(p, "deliver")
    /\ UNCHANGED <<disk, xdisk, delivered, staged, stale, faults, late, edited>>

\* Publication::write(), in any order and from several threads: an artifact is
\* delivered once, and staged unless the file has these contents already.
Write(p, f) ==
    /\ pc[p] = "deliver"
    /\ f \in Mine(p) \ delivered[p]
    /\ delivered' = [delivered EXCEPT ![p] = @ \cup {f}]
    /\ staged' = [staged EXCEPT ![p] =
                    IF file[f] = Content[ver[p]][f] THEN @ ELSE @ \cup {f}]
    /\ UNCHANGED <<disk, xdisk, lock, pc, ver, snap, found, owned, stale, faults, late, edited>>

\* revalidate_reused_artifacts(): reused files that changed in the meantime.
Changed(p) == {f \in Mine(p) \ staged[p] : file[f] # Content[ver[p]][f]}

\* The process is done with its publication and with the lock.
Leave(p) ==
    /\ Goto(p, "idle")
    /\ lock' = IF lock = p THEN NoFile ELSE lock
    /\ ver' = [ver EXCEPT ![p] = AnyVersion]
    /\ snap' = [snap EXCEPT ![p] = NoFile]
    /\ found' = [found EXCEPT ![p] = FALSE]
    /\ owned' = [owned EXCEPT ![p] = {}]
    /\ delivered' = [delivered EXCEPT ![p] = {}]
    /\ staged' = [staged EXCEPT ![p] = {}]
    /\ stale' = [stale EXCEPT ![p] = {}]
    /\ late' = {}

\* commit(), up to the decision whether there is anything to do at all.  If
\* not, it returns without a sync: what others wrote back may still be lost.
Commit(p) ==
    LET restage == staged[p] \cup Changed(p)
        old == (UNION {Owned[m] : m \in owned[p]}) \ Mine(p)
    IN  /\ pc[p] = "deliver"
        /\ delivered[p] = Mine(p)
        /\ staged' = [staged EXCEPT ![p] = restage]
        /\ stale' = [stale EXCEPT ![p] = old]
        /\ late' = {}
        /\ IF restage = {} /\ old = {} /\ snap[p] = Manifest[ver[p]] /\ ~ found[p]
              THEN Goto(p, "done") /\ edited' = unsynced
              ELSE Goto(p, "journal") /\ edited' = edited
        /\ UNCHANGED <<disk, xdisk, lock, ver, snap, found, owned, delivered, faults>>

\* The temporary files are made durable, then the journal gets its name.
Journal(p) ==
    /\ pc[p] = "journal"
    /\ pending' = owned[p]
    /\ xfile' = [f \in Files |-> {file[f]}]
    /\ xmanifest' = {manifest}
    /\ xrecovery' = {recovery}
    /\ xpending' = {pending, pending'}
    /\ unsynced' = {}
    /\ Goto(p, "journaled")
    /\ UNCHANGED <<file, manifest, recovery, lock, job, faults, late, edited>>

\* Mutant of SyncJournal: no sync between the journal and the invalidation.
SyncJournalForgotten(p) ==
    /\ pc[p] = "journaled"
    /\ Goto(p, "invalidate")
    /\ UNCHANGED <<disk, xdisk, lock, job, faults, late, edited>>

SyncJournal(p) ==
    /\ pc[p] = "journaled"
    /\ SyncDirectory
    /\ Goto(p, "invalidate")
    /\ UNCHANGED <<disk, lock, job, faults, late, edited>>

\* Mutant of Invalidate: without a manifest there must be a recovery manifest.
InvalidateNeedsRecovery(p) ==
    /\ pc[p] = "invalidate"
    /\ manifest = snap[p]
    /\ \/ /\ manifest = NoFile
          /\ recovery # NoFile
          /\ Goto(p, "retired")
          /\ UNCHANGED <<manifest, recovery, xmanifest, xrecovery>>
       \/ /\ manifest = Foreign
          /\ manifest' = NoFile
          /\ xmanifest' = xmanifest \cup {NoFile}
          /\ Goto(p, "retired")
          /\ UNCHANGED <<recovery, xrecovery>>
       \/ /\ manifest \in Idents
          /\ recovery' = NoFile
          /\ xrecovery' = xrecovery \cup {NoFile}
          /\ Goto(p, "retire")
          /\ UNCHANGED <<manifest, xmanifest>>
    /\ UNCHANGED <<file, pending, xfile, xpending, unsynced, lock, job, faults, late, edited>>

\* invalidate_canonical_manifest(): the manifest must be the one that was found
\* (or commit() fails, which is Abort); a trusted manifest becomes the recovery
\* manifest (whose name is cleared first), an untrusted one is removed.
Invalidate(p) ==
    /\ pc[p] = "invalidate"
    /\ manifest = snap[p]
    /\ \/ /\ manifest = NoFile
          /\ Goto(p, "retired")
          /\ UNCHANGED <<manifest, recovery, xmanifest, xrecovery>>
       \/ /\ manifest = Foreign
          /\ manifest' = NoFile
          /\ xmanifest' = xmanifest \cup {NoFile}
          /\ Goto(p, "retired")
          /\ UNCHANGED <<recovery, xrecovery>>
       \/ /\ manifest \in Idents
          /\ recovery' = NoFile
          /\ xrecovery' = xrecovery \cup {NoFile}
          /\ Goto(p, "retire")
          /\ UNCHANGED <<manifest, xmanifest>>
    /\ UNCHANGED <<file, pending, xfile, xpending, unsynced, lock, job, faults, late, edited>>

Retire(p) ==
    /\ pc[p] = "retire"
    /\ recovery' = manifest
    /\ xrecovery' = xrecovery \cup {manifest}
    /\ manifest' = NoFile
    /\ xmanifest' = xmanifest \cup {NoFile}
    /\ Goto(p, "retired")
    /\ UNCHANGED <<file, pending, xfile, xpending, unsynced, lock, job, faults, late, edited>>

\* Mutant of SyncRetired: no sync before the first file changes.
SyncRetiredForgotten(p) ==
    /\ pc[p] = "retired"
    /\ Goto(p, "install")
    /\ UNCHANGED <<disk, xdisk, lock, job, faults, late, edited>>

SyncRetired(p) ==
    /\ pc[p] = "retired"
    /\ SyncDirectory
    /\ Goto(p, "install")
    /\ UNCHANGED <<disk, lock, job, faults, late, edited>>

\* A staged artifact is promoted to its final name.
Promote(p) ==
    /\ pc[p] = "install"
    /\ \E f \in Files :
        /\ IsFirst(f, staged[p])
        /\ file' = [file EXCEPT ![f] = Content[ver[p]][f]]
        /\ xfile' = [xfile EXCEPT ![f] = @ \cup {Content[ver[p]][f]}]
        /\ staged' = [staged EXCEPT ![p] = @ \ {f}]
    /\ UNCHANGED <<manifest, recovery, pending, xmanifest, xrecovery, xpending, lock, pc,
                   ver, snap, found, owned, delivered, stale, faults, unsynced, late, edited>>

\* A file that only an earlier version had is removed.
Remove(p) ==
    /\ pc[p] = "install"
    /\ staged[p] = {}
    /\ \E f \in Files :
        /\ IsFirst(f, stale[p])
        /\ file' = [file EXCEPT ![f] = NoFile]
        /\ xfile' = [xfile EXCEPT ![f] = @ \cup {NoFile}]
        /\ stale' = [stale EXCEPT ![p] = @ \ {f}]
    /\ UNCHANGED <<manifest, recovery, pending, xmanifest, xrecovery, xpending, lock, pc,
                   ver, snap, found, owned, delivered, staged, faults, unsynced, late, edited>>

SyncInstalled(p) ==
    /\ pc[p] = "install"
    /\ staged[p] = {}
    /\ stale[p] = {}
    /\ SyncDirectory
    /\ Goto(p, "publish")
    /\ UNCHANGED <<disk, lock, job, faults, late, edited>>

\* The manifest gets its name: from now on the set may be trusted.
Publish(p) ==
    /\ pc[p] = "publish"
    /\ manifest' = Manifest[ver[p]]
    /\ xmanifest' = xmanifest \cup {Manifest[ver[p]]}
    /\ edited' = late
    /\ Goto(p, "published")
    /\ UNCHANGED <<file, recovery, pending, xfile, xrecovery, xpending, unsynced, lock, job,
                   faults, late>>

\* Mutant of SyncPublished: no sync between the manifest and the clearing of
\* the sidecar files.
SyncPublishedForgotten(p) ==
    /\ pc[p] = "published"
    /\ Goto(p, "forget")
    /\ UNCHANGED <<disk, xdisk, lock, job, faults, late, edited>>

SyncPublished(p) ==
    /\ pc[p] = "published"
    /\ SyncDirectory
    /\ Goto(p, "forget")
    /\ UNCHANGED <<disk, lock, job, faults, late, edited>>

ClearRecovery(p) ==
    /\ pc[p] = "forget"
    /\ recovery' = NoFile
    /\ xrecovery' = xrecovery \cup {NoFile}
    /\ Goto(p, "clear")
    /\ UNCHANGED <<file, manifest, pending, xfile, xmanifest, xpending, unsynced, lock,
                   job, faults, late, edited>>

ClearPending(p) ==
    /\ pc[p] = "clear"
    /\ pending' = {}
    /\ xpending' = xpending \cup {{}}
    /\ Goto(p, "cleared")
    /\ UNCHANGED <<file, manifest, recovery, xfile, xmanifest, xrecovery, unsynced, lock,
                   job, faults, late, edited>>

SyncCleared(p) ==
    /\ pc[p] = "cleared"
    /\ SyncDirectory
    /\ Goto(p, "done")
    /\ UNCHANGED <<disk, lock, job, faults, late, edited>>

\* commit() returns Ok; the lock is released.
Return(p) ==
    /\ pc[p] = "done"
    /\ Leave(p)
    /\ UNCHANGED <<disk, xdisk, faults, edited>>

\* An operation fails and commit() or write() returns an error, or the process
\* is killed.  What is under the final names stays.  A temporary file is dropped
\* after an error and left behind by a kill, under a name that no manifest lists.
Abort(p) ==
    /\ pc[p] \notin {"idle", "done"}
    /\ Fault
    /\ Leave(p)
    /\ UNCHANGED <<disk, xdisk, edited>>

\* Power loss: every name has one of the values it had since the last sync.
PowerLoss ==
    /\ Fault
    /\ file' \in {c \in [Files -> Contents] : \A f \in Files : c[f] \in xfile[f]}
    /\ manifest' \in xmanifest
    /\ recovery' \in xrecovery
    /\ pending' \in xpending
    /\ xfile' = [f \in Files |-> {file'[f]}]
    /\ xmanifest' = {manifest'}
    /\ xrecovery' = {recovery'}
    /\ xpending' = {pending'}
    /\ unsynced' = {}
    /\ lock' = NoFile
    /\ pc' = [p \in Procs |-> "idle"]
    /\ ver' = [p \in Procs |-> AnyVersion]
    /\ snap' = [p \in Procs |-> NoFile]
    /\ found' = [p \in Procs |-> FALSE]
    /\ owned' = [p \in Procs |-> {}]
    /\ delivered' = [p \in Procs |-> {}]
    /\ staged' = [p \in Procs |-> {}]
    /\ stale' = [p \in Procs |-> {}]
    /\ late' = {}
    /\ edited' = edited

\* What somebody else may write to f: something else, or again what the
\* publisher of the manifest had put there.
Writable(f) ==
    Outside \cup {Content[v][f] : v \in {w \in Versions : Manifest[w] = manifest
                                                       /\ f \in Owned[manifest]}}

\* Somebody writes, deletes or restores a generated file, without the lock and
\* without a sync, as `harc sim` does with the runtime headers of the
\* self-contained layout.
Edit(f) ==
    \E c \in Writable(f) :
        /\ Fault
        /\ file' = [file EXCEPT ![f] = c]
        /\ xfile' = [xfile EXCEPT ![f] = @ \cup {c}]
        /\ unsynced' = unsynced \cup {f}
        /\ late' = late \cup {f}
        /\ edited' = edited \cup {f}
        /\ UNCHANGED <<manifest, recovery, pending, xmanifest, xrecovery, xpending,
                       lock, pc, job>>

Step(p) ==
    \/ \E f \in Files : Write(p, f)
    \/ Commit(p) \/ Journal(p) \/ SyncJournal(p) \/ Invalidate(p) \/ Retire(p)
    \/ SyncRetired(p) \/ Promote(p) \/ Remove(p) \/ SyncInstalled(p) \/ Publish(p)
    \/ SyncPublished(p) \/ ClearRecovery(p) \/ ClearPending(p) \/ SyncCleared(p)
    \/ Return(p)

Next ==
    \/ \E p \in Procs : Begin(p) \/ Step(p) \/ Abort(p)
    \/ PowerLoss
    \/ \E f \in Files : Edit(f)

Spec == Init /\ [][Next]_vars /\ \A p \in Procs : WF_vars(Step(p))
-----------------------------------------------------------------------------

\* The set of files is that of one version with this manifest, apart from
\* files that others wrote after the publisher had checked them.
Complete(m, contents) ==
    \E v \in Versions :
        /\ Manifest[v] = m
        /\ \A f \in Owned[m] \ edited : contents[f] = Content[v][f]

\* A manifest that can be trusted never stands over a mixed or partial set of
\* files, whatever failed, was killed or lost power, and whoever else publishes:
\* the comment in commit() calls the manifest the trust boundary.
ManifestHonest == manifest \in Idents => Complete(manifest, file)

\* When a manifest is valid and no journal is left, no file of an earlier or an
\* abandoned version is left either: stale files are found across crashes.
NoOrphans ==
    manifest \in Idents /\ pending = {} =>
        \A f \in Files \ Owned[manifest] : file[f] \in Outside

\* A publication that reports success survives power loss: its manifest and its
\* files are durable when commit() returns.  Not so a file that somebody else
\* restored: commit() reuses it, and syncs only when it has something to do.
DurableSuccess ==
    \A p \in Procs :
        pc[p] = "done" =>
            /\ xmanifest = {Manifest[ver[p]]}
            /\ \A f \in Mine(p) \ (late \cup unsynced) : xfile[f] = {Content[ver[p]][f]}

\* The inductive invariant.  Member: what is visible may also survive.  Quiet:
\* without a journal nothing that a publication wrote is waiting for a sync.
\* Trusted: every manifest that may survive stands over files of one version
\* that survive with it.  Accounted: whatever survives of the manifest and the
\* sidecar files, they own every published file that may survive.  Vouched: and
\* they know the manifest that is there.
Member ==
    /\ \A f \in Files : file[f] \in xfile[f]
    /\ manifest \in xmanifest
    /\ recovery \in xrecovery
    /\ pending \in xpending

Settled(f) == file[f] \in Outside \/ xfile[f] = {file[f]}

Quiet ==
    pending = {} => xmanifest = {manifest} /\ \A f \in Files \ unsynced : Settled(f)

Trusted ==
    \A m \in xmanifest \cap Idents : \E v \in Versions :
        /\ Manifest[v] = m
        /\ \A f \in Owned[m] \ edited : xfile[f] = {Content[v][f]}

OwnedBy(f, ms) == xfile[f] \subseteq Outside \/ \E m \in ms : f \in Owned[m]

Accounted ==
    \A f \in Files, m \in xmanifest, r \in xrecovery, journal \in xpending :
        OwnedBy(f, Cover(m, r, journal))

Vouched ==
    manifest \in Idents =>
        \A m \in xmanifest, r \in xrecovery, journal \in xpending :
            manifest \in Cover(m, r, journal)

\* The lock and what its holder knows at each stage.
Locked ==
    /\ \A p \in Procs : pc[p] # "idle" <=> lock = p
    /\ \A p \in Procs : pc[p] = "idle" => staged[p] = {}
    /\ lock # NoFile =>
        /\ Manifest[ver[lock]] \in owned[lock]
        /\ staged[lock] \subseteq Mine(lock)
        /\ \A f \in Files : OwnedBy(f, owned[lock])
        /\ manifest \in Idents => manifest \in owned[lock]

\* Every artifact of p is staged or in place, every other one is known.
Prepared(p) ==
    /\ \A f \in Mine(p) \ (staged[p] \cup late) : file[f] = Content[ver[p]][f]
    /\ \A f \in Files : file[f] \in Outside \/ f \in Mine(p) \/ f \in stale[p]
    /\ stale[p] \cap Mine(p) = {}

\* All artifacts of the manifests that p knows of are on its lists.
Listed(p) == \A m \in owned[p] : Owned[m] \subseteq Mine(p) \cup stale[p]

\* The artifacts of p, and no others, are in place and survive, apart from what
\* others wrote.
Installed(p, others) ==
    /\ \A f \in Mine(p) \ others : xfile[f] = {Content[ver[p]][f]}
    /\ \A f \in Files \ Mine(p) : xfile[f] \subseteq Outside
    /\ \A f \in Files \ unsynced : Settled(f)

AtStage(p) ==
    /\ pc[p] = "deliver" => found[p] = (recovery # NoFile \/ pending # {})
    /\ pc[p] \in {"deliver", "journal", "journaled", "invalidate", "retire"} =>
          manifest = snap[p]
    /\ pc[p] = "journaled" => pending = owned[p]
    /\ pc[p] = "retire" => manifest \in Idents
    /\ pc[p] = "retired" => manifest = NoFile
    /\ pc[p] \in {"journal", "journaled", "invalidate", "retire", "retired", "install"} =>
          Prepared(p)
    /\ pc[p] \in {"journal", "journaled", "invalidate", "retire"} => Listed(p)
    /\ pc[p] \in {"invalidate", "retire", "retired", "install", "publish",
                  "published", "forget", "clear"} => xpending = {owned[p]}
    /\ pc[p] \in {"install", "publish"} => xmanifest = {NoFile}
    /\ pc[p] \in {"published", "forget", "clear", "cleared", "done"} =>
          manifest = Manifest[ver[p]]
    /\ pc[p] \in {"forget", "clear", "cleared", "done"} => xmanifest = {manifest}
    /\ pc[p] \in {"publish", "published", "forget", "clear", "cleared"} =>
          Installed(p, late)
    /\ pc[p] = "done" => Installed(p, late \cup unsynced)

IInv ==
    /\ TypeOK
    /\ Member
    /\ Quiet
    /\ Trusted
    /\ Accounted
    /\ Vouched
    /\ Locked
    /\ lock # NoFile => AtStage(lock)

\* A publication that is not interrupted gives the directory back: a crash, a
\* failed retry or somebody else's edits never leave a state that blocks it.
Finishes == \A p \in Procs : pc[p] = "deliver" ~> pc[p] = "idle"
=============================================================================
