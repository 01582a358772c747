------------------------- MODULE PublicationProofs -------------------------
(***************************************************************************)
(* For every set of compilers, versions and files, and any number of       *)
(* faults: a manifest that can be trusted stands over the files of one     *)
(* version (ManifestHonest), nothing that was ever published is left       *)
(* behind unaccounted for (NoOrphans), and what commit() reports survives  *)
(* power loss (DurableSuccess).                                            *)
(*                                                                         *)
(* IInv speaks of everything that power loss may leave, not only of what   *)
(* is visible: that is what makes it inductive.  A lemma for every action  *)
(* shows that the action preserves it, conjunct by conjunct.               *)
(***************************************************************************)
EXTENDS Publication, TLAPS

-----------------------------------------------------------------------------
(* What the holder of the lock knows, and the steps that leave the visible *)
(* files alone, from begin_publication() to the journal.                   *)

\* An empty directory, or one that holds only other people's files.
LEMMA InitInv == Init => IInv
<1> SUFFICES ASSUME Init PROVE IInv
  OBVIOUS
<1> USE DEF Init, Outside
<1>0. AnyVersion \in Versions
  BY Zenon, VersionsAssumption DEF AnyVersion
<1>1. TypeOK
  BY <1>0, FaultsAssumption DEF TypeOK, Contents, Stages
<1>2. Member /\ Quiet
  BY Zenon DEF Member, Quiet, Settled
<1>3. Trusted
  BY Zenon, NamesAssumption DEF Trusted
<1>4. Accounted /\ Vouched
  BY Zenon, NamesAssumption DEF Accounted, OwnedBy, Vouched
<1>5. Locked /\ lock = NoFile
  BY Zenon, NamesAssumption DEF Locked
<1> QED
  BY Zenon, <1>1, <1>2, <1>3, <1>4, <1>5 DEF IInv

\* Whoever is at work holds the lock.
LEMMA HasLock ==
    ASSUME IInv, NEW p \in Procs, pc[p] # "idle"
    PROVE  lock = p /\ lock # NoFile /\ AtStage(p)
BY Zenon, NamesAssumption DEF IInv, Locked

\* What p knows of its job at every stage.
LEMMA JobFacts ==
    ASSUME IInv, NEW p \in Procs, pc[p] # "idle"
    PROVE  /\ ver[p] \in Versions /\ Manifest[ver[p]] \in Idents
           /\ Mine(p) \subseteq Files /\ staged[p] \subseteq Mine(p)
           /\ Manifest[ver[p]] \in owned[p] /\ owned[p] # {}
           /\ \A f \in Files : OwnedBy(f, owned[p])
           /\ manifest \in Idents => manifest \in owned[p]
<1>1. lock = p /\ lock # NoFile
  BY Zenon, HasLock
<1>2. ver[p] \in Versions
  BY Zenon DEF IInv, TypeOK
<1>3. Manifest[ver[p]] \in Idents /\ Mine(p) \subseteq Files
  BY Zenon, <1>2, OwnedAssumption DEF Idents, Mine
<1> QED
  BY Zenon, <1>1, <1>2, <1>3 DEF IInv, Locked

\* While files and manifests change, the journal survives.
LEMMA JournalFacts ==
    ASSUME IInv, NEW p \in Procs,
           pc[p] \in {"invalidate", "retire", "retired", "install", "publish",
                     "published", "forget", "clear"}
    PROVE  xpending = {owned[p]} /\ pending = owned[p] /\ owned[p] # {}
<1>1. AtStage(p) /\ owned[p] # {}
  BY Zenon, HasLock, JobFacts
<1>2. xpending = {owned[p]}
  BY Zenon, <1>1 DEF AtStage
<1> QED
  BY Zenon, <1>1, <1>2 DEF IInv, Member

\* A step of p that keeps its job and the lock keeps Locked.
LEMMA LockedKept ==
    ASSUME IInv, NEW p \in Procs, pc[p] # "idle", UNCHANGED <<lock, ver, owned, staged>>,
           NEW stage \in Stages \ {"idle"}, pc' = [pc EXCEPT ![p] = stage],
           manifest' \in {manifest, NoFile, Manifest[ver[p]]},
           \A f \in Files : OwnedBy(f, owned[p]) => OwnedBy(f, owned[p])'
    PROVE  Locked' /\ pc'[p] = stage
<1>1. lock = p /\ \A f \in Files : OwnedBy(f, owned[p])
  BY Zenon, HasLock, JobFacts
<1>2. pc'[p] = stage /\ \A q \in Procs : q # p => pc'[q] = pc[q]
  BY Zenon DEF IInv, TypeOK
<1>3. \A f \in Files : OwnedBy(f, owned[lock])'
  BY Zenon, <1>1 DEF OwnedBy
<1>4. /\ \A q \in Procs : pc'[q] # "idle" <=> lock' = q
      /\ \A q \in Procs : pc'[q] = "idle" => staged'[q] = {}
  BY Zenon, <1>1, <1>2 DEF IInv, Locked
<1>5. Manifest[ver'[lock']] \in owned'[lock'] /\ staged'[lock'] \subseteq Mine(lock)'
  BY Zenon, <1>1, JobFacts DEF Mine
<1>6. manifest' \in Idents => manifest' \in owned'[lock']
  BY Zenon, <1>1, JobFacts, NamesAssumption
<1> QED
  BY Zenon, <1>2, <1>3, <1>4, <1>5, <1>6 DEF Locked

\* An invariant stays one when nothing is written that it speaks of.
LEMMA DiskKept ==
    ASSUME IInv, UNCHANGED <<disk, xdisk>>
    PROVE  /\ Member' /\ Quiet' /\ Accounted' /\ Vouched' /\ (edited' = edited => Trusted')
           /\ \A f \in Files : \A ms : OwnedBy(f, ms)' = OwnedBy(f, ms)
<1> USE DEF disk, xdisk
<1>1. Member' /\ Quiet'
  BY Zenon DEF IInv, Member, Quiet, Settled
<1>2. edited' = edited => Trusted'
  BY DEF IInv, Trusted
<1>3. \A f \in Files : \A ms : OwnedBy(f, ms)' = OwnedBy(f, ms)
  BY Zenon DEF OwnedBy
<1>4. Accounted' /\ Vouched'
  BY Zenon DEF IInv, Accounted, OwnedBy, Vouched
<1> QED
  BY Zenon, <1>1, <1>2, <1>3, <1>4

\* A trusted file stays trusted while disk and records stay.
LEMMA TrustedKept ==
    ASSUME Trusted, UNCHANGED <<xmanifest, xfile, edited>> PROVE Trusted'
BY DEF Trusted

\* The lock and the snapshot: what the directory holds is what p knows of it.
LEMMA BeginInv == ASSUME IInv, NEW p \in Procs, Begin(p) PROVE IInv'
<1>0. /\ pc[p] = "idle" /\ lock = NoFile /\ lock' = p /\ p # NoFile
      /\ pc' = [pc EXCEPT ![p] = "deliver"] /\ snap' = [snap EXCEPT ![p] = manifest]
      /\ found' = [found EXCEPT ![p] = recovery # NoFile \/ pending # {}]
      /\ UNCHANGED <<disk, xdisk, delivered, staged, stale, faults, late, edited>>
  BY Zenon, NamesAssumption DEF Begin, Goto
<1>1. PICK v \in Versions :
          /\ ver' = [ver EXCEPT ![p] = v]
          /\ owned' = [owned EXCEPT ![p] = Ownership(v)]
  BY Zenon DEF Begin
<1>2. Ownership(v) \subseteq Idents /\ Manifest[v] \in Ownership(v)
  BY Zenon DEF Ownership, Cover, Idents, IInv, TypeOK
<1>3. TypeOK'
  <2>1. found' \in [Procs -> BOOLEAN]
    BY Zenon, <1>0 DEF IInv, TypeOK
  <2> QED
    BY Zenon, <1>0, <1>1, <1>2, <2>1 DEF IInv, TypeOK, Stages, disk, xdisk
<1>4. /\ Member' /\ Quiet' /\ Trusted' /\ Accounted' /\ Vouched'
      /\ \A f \in Files : \A ms : OwnedBy(f, ms)' = OwnedBy(f, ms)
  BY Zenon, <1>0, DiskKept
<1>5. ver'[p] = v /\ owned'[p] = Ownership(v) /\ pc'[p] = "deliver" /\ snap'[p] = manifest
  BY Zenon, <1>0, <1>1 DEF IInv, TypeOK
<1>6. found'[p] = (recovery # NoFile \/ pending # {})
  BY Zenon, <1>0 DEF IInv, TypeOK
<1>7. Locked'
  <2>1. \A q \in Procs : (pc'[q] # "idle" <=> lock' = q) /\ (pc'[q] = "idle" => staged'[q] = {})
    BY <1>0, NamesAssumption DEF IInv, Locked, TypeOK
  <2>2. staged'[p] \subseteq Owned[Manifest[ver'[p]]]
    BY Zenon, <1>0 DEF IInv, Locked
  <2>3. \A f \in Files : OwnedBy(f, Cover(manifest, recovery, pending))
    BY Zenon DEF IInv, Accounted, Member
  <2>4. \A f \in Files : OwnedBy(f, owned[p])'
    BY Zenon, <1>0, <1>5, <2>3 DEF OwnedBy, Ownership, xdisk
  <2>5. Manifest[ver'[p]] \in owned'[p]
    BY Zenon, <1>2, <1>5
  <2>6. manifest' \in Idents => manifest' \in owned'[p]
    BY Zenon, <1>0, <1>5 DEF Ownership, IInv, Vouched, Member, disk
  <2> QED
    BY Zenon, <1>0, <2>1, <2>2, <2>4, <2>5, <2>6 DEF Locked, Mine
<1>8. AtStage(p)'
  BY <1>0, <1>5, <1>6 DEF AtStage, disk
<1> QED
  BY Zenon, <1>0, <1>3, <1>4, <1>7, <1>8 DEF IInv

\* Delivering artifacts changes nothing in the directory.
LEMMA WriteInv ==
    ASSUME IInv, NEW p \in Procs, NEW f \in Files, Write(p, f) PROVE IInv'
<1>0. lock = p /\ lock # NoFile /\ AtStage(p) /\ pc[p] = "deliver"
  BY Zenon, HasLock DEF Write
<1>1. TypeOK'
  BY DEF Write, IInv, TypeOK, disk, xdisk
<1>2. /\ Member' /\ Quiet' /\ Trusted' /\ Accounted' /\ Vouched'
      /\ \A g \in Files : \A ms : OwnedBy(g, ms)' = OwnedBy(g, ms)
  BY Zenon, DiskKept DEF Write
<1>3. staged'[p] \subseteq Mine(p) /\ \A q \in Procs : q # p => staged'[q] = staged[q]
  BY JobFacts DEF Write, IInv, TypeOK
<1>4. Locked'
  BY <1>0, <1>2, <1>3 DEF Write, IInv, Locked, Mine, disk
<1>5. AtStage(p)'
  BY Zenon, <1>0 DEF Write, AtStage, disk
<1> QED
  BY Zenon, <1>0, <1>1, <1>2, <1>4, <1>5 DEF Write, IInv

\* Revalidation: every artifact of p is staged or has its contents in place,
\* and every other published file is on the list of what is to be removed.
LEMMA CommitInv == ASSUME IInv, NEW p \in Procs, Commit(p) PROVE IInv'
<1> DEFINE restage == staged[p] \cup Changed(p)
           old == (UNION {Owned[m] : m \in owned[p]}) \ Mine(p)
           Idle == restage = {} /\ old = {} /\ snap[p] = Manifest[ver[p]] /\ ~ found[p]
<1>0. lock = p /\ lock # NoFile /\ AtStage(p) /\ pc[p] = "deliver"
  BY Zenon, HasLock DEF Commit
<1>1. /\ ver[p] \in Versions /\ Mine(p) \subseteq Files /\ Manifest[ver[p]] \in Idents
      /\ staged[p] \subseteq Mine(p) /\ \A f \in Files : OwnedBy(f, owned[p])
      /\ Manifest[ver[p]] \in owned[p] /\ (manifest \in Idents => manifest \in owned[p])
  BY Zenon, <1>0, JobFacts
<1>2. restage \subseteq Mine(p) /\ old \subseteq Files /\ old \cap Mine(p) = {}
  BY <1>1, OwnedAssumption DEF IInv, Changed, TypeOK, Idents
<1>3. \A f \in Mine(p) \ restage : file[f] = Content[ver[p]][f]
  BY Zenon DEF Changed
<1>4. ASSUME NEW f \in Files, file[f] \notin Outside, f \notin Mine(p) PROVE f \in old
  <2>1. PICK m \in owned[p] : f \in Owned[m]
    BY Zenon, <1>1, <1>4 DEF IInv, OwnedBy, Member
  <2>2. f \in UNION {Owned[n] : n \in owned[p]}
    BY Zenon, <2>1
  <2> QED
    BY Zenon, <1>4, <2>2
<1>l. \A m \in owned[p] : Owned[m] \subseteq Mine(p) \cup old
  BY Zenon
<1>5. /\ staged' = [staged EXCEPT ![p] = restage] /\ stale' = [stale EXCEPT ![p] = old]
      /\ late' = {} /\ UNCHANGED <<disk, xdisk, lock, ver, snap, found, owned, delivered, faults>>
      /\ \/ Idle /\ pc' = [pc EXCEPT ![p] = "done"] /\ edited' = unsynced
         \/ ~ Idle /\ pc' = [pc EXCEPT ![p] = "journal"] /\ edited' = edited
  BY Zenon DEF Commit, Goto
<1> HIDE DEF restage, old
<1>6. /\ Member' /\ Quiet' /\ Accounted' /\ Vouched' /\ (edited' = edited => Trusted')
      /\ \A f \in Files : \A ms : OwnedBy(f, ms)' = OwnedBy(f, ms)
  BY Zenon, <1>5, DiskKept
<1>7. TypeOK'
  <2>1. pc' \in [Procs -> Stages] /\ edited' \in SUBSET Files
    BY Zenon, <1>5 DEF IInv, TypeOK, Stages
  <2>2. staged' \in [Procs -> SUBSET Files] /\ stale' \in [Procs -> SUBSET Files]
    BY Zenon, <1>1, <1>2, <1>5 DEF IInv, TypeOK
  <2> QED
    BY Zenon, <1>5, <2>1, <2>2 DEF IInv, TypeOK, disk, xdisk
<1>8. /\ pc'[p] \in {"done", "journal"} /\ staged'[p] = restage /\ stale'[p] = old
      /\ \A q \in Procs : q # p => pc'[q] = pc[q] /\ staged'[q] = staged[q]
  BY Zenon, <1>5 DEF IInv, TypeOK
<1>9. Locked'
  BY <1>0, <1>1, <1>2, <1>5, <1>6, <1>8 DEF IInv, Locked, Mine, disk
<1>10. CASE ~ Idle
  <2>1. pc'[p] = "journal" /\ edited' = edited
    BY Zenon, <1>5, <1>10 DEF IInv, TypeOK
  <2>2. Prepared(p)'
    BY Zenon, <1>2, <1>3, <1>4, <1>5, <1>8 DEF Prepared, Mine, disk
  <2>3. manifest' = snap'[p]
    BY Zenon, <1>0, <1>5 DEF AtStage, disk
  <2>4. Listed(p)'
    BY Zenon, <1>5, <1>8, <1>l DEF Listed, Mine
  <2>5. AtStage(p)'
    BY Zenon, <2>1, <2>2, <2>3, <2>4 DEF AtStage
  <2> QED
    BY Zenon, <1>0, <1>5, <1>6, <1>7, <1>9, <2>1, <2>5 DEF IInv
<1>11. CASE Idle
  <2>1. pc'[p] = "done" /\ edited' = unsynced
    BY Zenon, <1>5, <1>11 DEF IInv, TypeOK
  <2>2. pending = {} /\ recovery = NoFile /\ manifest = Manifest[ver[p]]
    BY Zenon, <1>0, <1>11 DEF AtStage
  <2>3. xmanifest = {manifest} /\ \A f \in Files \ unsynced : Settled(f)
    BY Zenon, <2>2 DEF IInv, Quiet
  <2>4. \A f \in Mine(p) \ unsynced : xfile[f] = {Content[ver[p]][f]}
    BY Zenon, <1>1, <1>3, <1>11, <2>3, NamesAssumption DEF Settled, Outside
  <2>5. \A f \in Files \ Mine(p) : xfile[f] \subseteq Outside
    <3> SUFFICES ASSUME NEW f \in Files \ Mine(p) PROVE xfile[f] \subseteq Outside
      OBVIOUS
    <3>1. OwnedBy(f, Cover(manifest, recovery, {}))
      BY Zenon, <2>2 DEF IInv, Accounted, Member
    <3>2. Cover(manifest, recovery, {}) \subseteq {Manifest[ver[p]]}
      BY Zenon, <1>1, <2>2, NamesAssumption DEF Cover
    <3> QED
      BY Zenon, <3>1, <3>2 DEF OwnedBy, Mine
  <2>6. Trusted'
    BY Zenon, <1>1, <1>5, <2>1, <2>2, <2>3, <2>4 DEF Trusted, Mine, xdisk
  <2>7. Installed(p, late \cup unsynced)'
    BY Zenon, <1>5, <2>3, <2>4, <2>5 DEF Installed, Mine, Settled, disk, xdisk
  <2>8. AtStage(p)'
    BY Zenon, <1>5, <2>1, <2>2, <2>3, <2>7 DEF AtStage, disk, xdisk
  <2> QED
    BY Zenon, <1>0, <1>5, <1>6, <1>7, <1>9, <2>6, <2>8 DEF IInv
<1> QED
  BY Zenon, <1>10, <1>11

\* Once only what is visible may survive, a surviving manifest is still to be trusted.
LEMMA NarrowedTrusted ==
    ASSUME IInv, xmanifest' = {manifest}, edited' = edited,
           xfile' = [f \in Files |-> {file[f]}]
    PROVE  Trusted'
<1>1. ASSUME manifest \in Idents
      PROVE  \E v \in Versions :
               /\ Manifest[v] = manifest
               /\ \A f \in Owned[manifest] \ edited : xfile'[f] = {Content[v][f]}
  <2>1. PICK v \in Versions :
          /\ Manifest[v] = manifest
          /\ \A f \in Owned[manifest] \ edited : xfile[f] = {Content[v][f]}
    BY Zenon, <1>1 DEF IInv, Trusted, Member
  <2>2. Owned[manifest] \subseteq Files
    BY Zenon, <2>1, OwnedAssumption
  <2>3. \A f \in Owned[manifest] \ edited : xfile'[f] = {Content[v][f]}
    BY Zenon, <2>1, <2>2 DEF IInv, Member
  <2> QED
    BY Zenon, <2>1, <2>3
<1> QED
  BY Zenon, <1>1 DEF Trusted

\* The journal owns everything that p found and everything that p will add.
LEMMA JournalInv == ASSUME IInv, NEW p \in Procs, Journal(p) PROVE IInv'
<1> USE DEF Journal, Goto, job
<1>0. lock = p /\ lock # NoFile /\ AtStage(p) /\ pc[p] = "journal"
  BY Zenon, HasLock
<1>1. owned[p] # {} /\ owned[p] \in SUBSET Idents /\ \A f \in Files : OwnedBy(f, owned[p])
  BY Zenon, <1>0, JobFacts DEF IInv, TypeOK
<1>2. TypeOK'
  BY <1>1 DEF IInv, TypeOK, Stages
<1>3. Member' /\ Quiet'
  BY Zenon, <1>1 DEF Member, Quiet, Settled
<1>4. Trusted'
  <2>1. /\ xmanifest' = {manifest} /\ edited' = edited
        /\ xfile' = [f \in Files |-> {file[f]}]
    BY Zenon
  <2> QED
    BY Zenon, <2>1, NarrowedTrusted
<1>5. \A f \in Files : \A ms : OwnedBy(f, ms) => OwnedBy(f, ms)'
  BY Zenon DEF IInv, OwnedBy, Member
<1>6. Accounted'
  <2>2. \A f \in Files : OwnedBy(f, Cover(manifest, recovery, owned[p]))
    BY Zenon, <1>1 DEF IInv, Accounted, Member, OwnedBy, Cover
  <2>3. \A f \in Files, journal \in {pending, owned[p]} :
            OwnedBy(f, Cover(manifest, recovery, journal))
    BY Zenon, <2>2 DEF IInv, Accounted, Member
  <2> QED
    BY Zenon, <1>5, <2>3 DEF Accounted, OwnedBy
<1>7. Locked' /\ pc'[p] = "journaled"
  BY Zenon, <1>0, <1>5, LockedKept DEF Stages
<1>8. Prepared(p)' /\ Listed(p)'
  BY Zenon, <1>0 DEF AtStage, Prepared, Listed, Mine
<1>9. AtStage(p)'
  BY Zenon, <1>0, <1>7, <1>8 DEF AtStage
<1>10. Vouched'
  <2>1. manifest \in Idents => manifest \in Cover(manifest, recovery, pending)
    BY Zenon DEF IInv, Vouched, Member
  <2> QED
    BY Zenon, <2>1, NamesAssumption DEF Vouched, Cover
<1> QED
  BY Zenon, <1>0, <1>2, <1>3, <1>4, <1>6, <1>7, <1>9, <1>10 DEF IInv

\* A sync narrows what may survive to what is visible.
LEMMA SyncKeeps ==
    ASSUME IInv, SyncDirectory, UNCHANGED <<disk, edited>>
    PROVE  /\ Member' /\ Quiet' /\ Trusted' /\ Accounted' /\ Vouched'
           /\ \A f \in Files : \A ms : OwnedBy(f, ms) => OwnedBy(f, ms)'
<1>1. Member' /\ Quiet'
  BY Zenon DEF SyncDirectory, disk, IInv, Member, Quiet, Settled
<1>2. Trusted'
  BY Zenon, NarrowedTrusted DEF SyncDirectory
<1>3. Accounted'
  BY DEF SyncDirectory, disk, IInv, Accounted, OwnedBy, Member, Cover
<1>4. \A f \in Files : \A ms : OwnedBy(f, ms) => OwnedBy(f, ms)'
  BY Zenon DEF SyncDirectory, disk, IInv, OwnedBy, Member
<1>5. Vouched'
  BY Zenon DEF SyncDirectory, disk, IInv, Vouched, Member
<1> QED
  BY Zenon, <1>1, <1>2, <1>3, <1>4, <1>5

\* The part of a sync step that is the same at every stage.
LEMMA SyncStep ==
    ASSUME IInv, NEW p \in Procs, pc[p] # "idle", SyncDirectory,
           UNCHANGED <<disk, lock, job, faults, late, edited>>,
           NEW stage \in Stages \ {"idle"}, Goto(p, stage)
    PROVE  /\ lock = p /\ lock # NoFile /\ AtStage(p) /\ pc'[p] = stage
           /\ AtStage(p)' => IInv'
<1>1. lock = p /\ lock # NoFile /\ AtStage(p)
  BY Zenon, HasLock
<1>2. TypeOK'
  BY DEF IInv, TypeOK, SyncDirectory, disk, job, Goto
<1>3. /\ Member' /\ Quiet' /\ Trusted' /\ Accounted' /\ Vouched'
      /\ \A f \in Files : \A ms : OwnedBy(f, ms) => OwnedBy(f, ms)'
  BY Zenon, SyncKeeps
<1>4. \A f \in Files : OwnedBy(f, owned[p]) => OwnedBy(f, owned[p])'
  BY Zenon, <1>3 DEF OwnedBy, job
<1>5. Locked' /\ pc'[p] = stage
  BY Zenon, <1>4, LockedKept DEF Goto, job, disk
<1> QED
  BY Zenon, <1>1, <1>2, <1>3, <1>5 DEF IInv

-----------------------------------------------------------------------------
(* The steps that change files, manifests and sidecar files.               *)

\* While the journal survives, a manifest or a recovery manifest may vanish.
LEMMA JournalOwns ==
    ASSUME IInv, NEW p \in Procs, pc[p] # "idle", NEW f \in Files, NEW m, NEW r, m # Foreign
    PROVE  OwnedBy(f, Cover(m, r, owned[p]))
BY Zenon, JobFacts DEF OwnedBy, Cover

\* The journal stands in for whatever becomes of the manifests.
LEMMA InvalidateInv == ASSUME IInv, NEW p \in Procs, Invalidate(p) PROVE IInv'
<1>0. lock = p /\ lock # NoFile /\ AtStage(p) /\ pc[p] = "invalidate"
  BY Zenon, HasLock DEF Invalidate
<1>1. xpending = {owned[p]} /\ pending = owned[p] /\ owned[p] # {}
  BY Zenon, <1>0, JournalFacts
<1>2. /\ \/ pc' = [pc EXCEPT ![p] = "retired"] /\ manifest' = NoFile
         \/ pc' = [pc EXCEPT ![p] = "retire"] /\ manifest' = manifest /\ manifest \in Idents
      /\ manifest' \in {manifest, NoFile} /\ recovery' \in {recovery, NoFile}
      /\ xmanifest' \subseteq xmanifest \cup {NoFile} /\ xrecovery' \subseteq xrecovery \cup {NoFile}
      /\ manifest = snap[p]
  BY Zenon DEF Invalidate, Goto
<1>3. UNCHANGED <<file, pending, xfile, xpending, unsynced, lock, job, faults, late, edited>>
  BY Zenon DEF Invalidate
<1>4. TypeOK'
  BY Zenon, <1>2, <1>3 DEF IInv, TypeOK, Stages, job
<1>5. Member'
  BY Zenon DEF Invalidate, IInv, Member
<1>6. Quiet' /\ Trusted'
  BY <1>1, <1>2, <1>3, NamesAssumption DEF IInv, Quiet, Trusted
<1>7. Accounted'
  <2> SUFFICES ASSUME NEW f \in Files, NEW m \in xmanifest', NEW r \in xrecovery'
               PROVE  OwnedBy(f, Cover(m, r, owned[p]))
    BY Zenon, <1>1, <1>3 DEF Accounted, OwnedBy
  <2>1. CASE m = Foreign
    <3>1. m \in xmanifest /\ OwnedBy(f, Cover(m, recovery, owned[p]))
      BY Zenon, <1>1, <1>2, <2>1, NamesAssumption DEF IInv, Member, Accounted
    <3> QED
      BY Zenon, <2>1, <3>1, NamesAssumption DEF OwnedBy, Cover
  <2>2. CASE m # Foreign
    BY Zenon, <1>0, <2>2, JournalOwns
  <2> QED
    BY Zenon, <2>1, <2>2
<1>8. Locked'
  <2>1. \A f \in Files : OwnedBy(f, owned[p]) => OwnedBy(f, owned[p])'
    BY Zenon, <1>3 DEF OwnedBy, job
  <2> QED
    BY Zenon, <1>0, <1>2, <1>3, <2>1, LockedKept DEF Stages, job
<1>9. Prepared(p)' /\ Listed(p)'
  BY Zenon, <1>0, <1>3 DEF AtStage, Prepared, Listed, Mine, job
<1>10. \/ pc'[p] = "retired" /\ manifest' = NoFile
       \/ pc'[p] = "retire" /\ manifest' = manifest /\ manifest \in Idents
  BY Zenon, <1>2 DEF IInv, TypeOK
<1>11. AtStage(p)'
  BY Zenon, <1>1, <1>2, <1>3, <1>9, <1>10 DEF AtStage, job
<1>12. Vouched'
  <2> SUFFICES ASSUME manifest' \in Idents, NEW m \in xmanifest', NEW r \in xrecovery'
               PROVE  manifest' \in Cover(m, r, owned[p])
    BY Zenon, <1>1, <1>3 DEF Vouched
  <2>1. manifest' = manifest /\ manifest \in owned[p]
    BY Zenon, <1>0, <1>2, JobFacts, NamesAssumption
  <2>2. m # Foreign
    <3>1. Foreign \notin xmanifest
      BY Zenon, <2>1, NamesAssumption DEF IInv, Vouched, Member, Cover
    <3> QED
      BY Zenon, <1>2, <3>1, NamesAssumption
  <2> QED
    BY Zenon, <2>1, <2>2 DEF Cover
<1> QED
  BY Zenon, <1>0, <1>3, <1>4, <1>5, <1>6, <1>7, <1>8, <1>11, <1>12 DEF IInv

\* Retiring an owned file keeps the invariant.
LEMMA RetireInv == ASSUME IInv, NEW p \in Procs, Retire(p) PROVE IInv'
<1> USE DEF Retire, Goto, job
<1>0. lock = p /\ lock # NoFile /\ AtStage(p) /\ pc[p] = "retire"
  BY Zenon, HasLock
<1>1. xpending = {owned[p]} /\ pending = owned[p] /\ owned[p] # {}
  BY Zenon, <1>0, JournalFacts
<1>2. manifest \in Idents /\ Prepared(p)
  BY Zenon, <1>0 DEF AtStage
<1>3. TypeOK'
  BY Zenon, <1>2 DEF IInv, TypeOK, Stages
<1>4. Member'
  BY Zenon DEF IInv, Member
<1>5. Quiet' /\ Trusted' /\ Vouched'
  <2>1. Quiet' /\ Trusted'
    BY <1>1, NamesAssumption DEF IInv, Quiet, Trusted
  <2> QED
    BY Zenon, <2>1, NamesAssumption DEF Vouched
<1>6. Accounted'
  <2> SUFFICES ASSUME NEW f \in Files, NEW m \in xmanifest', NEW r \in xrecovery'
               PROVE  OwnedBy(f, Cover(m, r, owned[p]))
    BY Zenon, <1>1 DEF Accounted, OwnedBy
  <2>1. CASE m = Foreign
    <3>1. m \in xmanifest /\ OwnedBy(f, Cover(m, recovery, owned[p]))
      BY Zenon, <1>1, <2>1, NamesAssumption DEF IInv, Member, Accounted
    <3> QED
      BY Zenon, <2>1, <3>1, NamesAssumption DEF OwnedBy, Cover
  <2>2. CASE m # Foreign
    BY Zenon, <1>0, <2>2, JournalOwns
  <2> QED
    BY Zenon, <2>1, <2>2
<1>7. Locked' /\ pc'[p] = "retired"
  <2>1. \A f \in Files : OwnedBy(f, owned[p]) => OwnedBy(f, owned[p])'
    BY Zenon DEF OwnedBy
  <2> QED
    BY Zenon, <1>0, <2>1, LockedKept DEF Stages
<1>8. Prepared(p)'
  BY Zenon, <1>2 DEF Prepared, Mine
<1>9. AtStage(p)'
  BY Zenon, <1>1, <1>7, <1>8 DEF AtStage
<1> QED
  BY Zenon, <1>0, <1>3, <1>4, <1>5, <1>6, <1>7, <1>9 DEF IInv

\* Files change only while no manifest can survive, and the journal owns them.
LEMMA PromoteInv == ASSUME IInv, NEW p \in Procs, Promote(p) PROVE IInv'
<1>0. lock = p /\ lock # NoFile /\ AtStage(p) /\ pc[p] = "install"
  BY Zenon, HasLock DEF Promote
<1>1. PICK f \in Files :
        /\ f \in staged[p]
        /\ file' = [file EXCEPT ![f] = Content[ver[p]][f]]
        /\ xfile' = [xfile EXCEPT ![f] = @ \cup {Content[ver[p]][f]}]
        /\ staged' = [staged EXCEPT ![p] = @ \ {f}]
  BY Zenon DEF Promote, IsFirst
<1>2. UNCHANGED <<manifest, recovery, pending, xmanifest, xrecovery, xpending, unsynced, lock, pc,
                  ver, snap, found, owned, delivered, stale, faults, late, edited>>
  BY Zenon DEF Promote
<1>3. /\ ver[p] \in Versions /\ Mine(p) \subseteq Files /\ f \in Mine(p)
      /\ staged[p] \subseteq Mine(p)
      /\ Manifest[ver[p]] \in owned[p] /\ owned[p] # {}
      /\ \A g \in Files : OwnedBy(g, owned[p])
  BY Zenon, <1>0, <1>1, JobFacts
<1>4. xpending = {owned[p]} /\ pending = owned[p]
  BY Zenon, <1>0, JournalFacts
<1>5. xmanifest = {NoFile} /\ Prepared(p) /\ Member
  BY Zenon, <1>0 DEF AtStage, IInv
<1>6. /\ \A g \in Files : g # f => file'[g] = file[g] /\ xfile'[g] = xfile[g]
      /\ file'[f] = Content[ver[p]][f]
      /\ xfile'[f] = xfile[f] \cup {Content[ver[p]][f]}
      /\ staged'[p] = staged[p] \ {f}
      /\ \A q \in Procs : q # p => staged'[q] = staged[q]
  BY Zenon, <1>1 DEF IInv, TypeOK
<1>7. TypeOK'
  <2>1. Content[ver[p]][f] \in Contents
    BY <1>3 DEF Contents
  <2>2. /\ file' \in [Files -> Contents] /\ xfile' \in [Files -> SUBSET Contents]
        /\ staged' \in [Procs -> SUBSET Files]
    BY Zenon, <1>1, <2>1 DEF IInv, TypeOK
  <2> QED
    BY Zenon, <1>2, <2>2 DEF IInv, TypeOK
<1>8. Member'
  BY Zenon, <1>2, <1>5, <1>6 DEF Member
<1>9. Quiet' /\ Trusted' /\ Vouched'
  BY Zenon, <1>2, <1>3, <1>4, <1>5, NamesAssumption DEF Quiet, Trusted, Vouched, Member
<1>10. \A g \in Files : OwnedBy(g, owned[p])'
  BY Zenon, <1>2, <1>3, <1>6 DEF OwnedBy, Mine
<1>11. Accounted'
  BY Zenon, <1>2, <1>4, <1>5, <1>10, NamesAssumption DEF Accounted, OwnedBy, Cover
<1>12. Locked'
  <2>1. \A q \in Procs : (pc'[q] # "idle" <=> lock' = q) /\ (pc'[q] = "idle" => staged'[q] = {})
    BY Zenon, <1>0, <1>2, <1>6 DEF IInv, Locked
  <2>2. staged'[p] \subseteq Mine(p)'
    BY Zenon, <1>2, <1>3, <1>6 DEF Mine
  <2> QED
    BY Zenon, <1>0, <1>2, <1>3, <1>10, <2>1, <2>2 DEF IInv, Locked
<1>13. Prepared(p)'
  BY Zenon, <1>2, <1>3, <1>5, <1>6 DEF Prepared, Mine
<1>14. AtStage(p)'
  BY Zenon, <1>0, <1>2, <1>4, <1>5, <1>13 DEF AtStage
<1> QED
  BY Zenon, <1>0, <1>2, <1>7, <1>8, <1>9, <1>11, <1>12, <1>14 DEF IInv

\* Removing it does too.
LEMMA RemoveInv == ASSUME IInv, NEW p \in Procs, Remove(p) PROVE IInv'
<1>0. lock = p /\ lock # NoFile /\ AtStage(p) /\ pc[p] = "install"
  BY Zenon, HasLock DEF Remove
<1>1. PICK f \in Files :
        /\ f \in stale[p]
        /\ file' = [file EXCEPT ![f] = NoFile]
        /\ xfile' = [xfile EXCEPT ![f] = @ \cup {NoFile}]
        /\ stale' = [stale EXCEPT ![p] = @ \ {f}]
  BY Zenon DEF Remove, IsFirst
<1>2. UNCHANGED <<manifest, recovery, pending, xmanifest, xrecovery, xpending, unsynced, lock, pc,
                  ver, snap, found, owned, delivered, staged, faults, late, edited>>
  BY Zenon DEF Remove
<1>3. /\ Mine(p) \subseteq Files /\ owned[p] # {}
      /\ \A g \in Files : OwnedBy(g, owned[p])
  BY Zenon, <1>0, JobFacts
<1>4. xpending = {owned[p]} /\ pending = owned[p]
  BY Zenon, <1>0, JournalFacts
<1>5. xmanifest = {NoFile} /\ Prepared(p) /\ Member
  BY Zenon, <1>0 DEF AtStage, IInv
<1>6. /\ \A g \in Files : g # f => file'[g] = file[g] /\ xfile'[g] = xfile[g]
      /\ file'[f] = NoFile
      /\ xfile'[f] = xfile[f] \cup {NoFile}
      /\ stale'[p] = stale[p] \ {f}
  BY Zenon, <1>1 DEF IInv, TypeOK
<1>7. TypeOK'
  <2>1. /\ file' \in [Files -> Contents] /\ xfile' \in [Files -> SUBSET Contents]
        /\ stale' \in [Procs -> SUBSET Files]
    BY <1>1 DEF IInv, TypeOK, Contents, Outside
  <2> QED
    BY Zenon, <1>2, <2>1 DEF IInv, TypeOK
<1>8. Member'
  BY Zenon, <1>2, <1>5, <1>6 DEF Member
<1>9. Quiet' /\ Trusted' /\ Vouched'
  BY Zenon, <1>2, <1>3, <1>4, <1>5, NamesAssumption DEF Quiet, Trusted, Vouched, Member
<1>10. \A g \in Files : OwnedBy(g, owned[p])'
  BY Zenon, <1>2, <1>3, <1>6 DEF OwnedBy, Outside
<1>11. Accounted'
  BY Zenon, <1>2, <1>4, <1>5, <1>10, NamesAssumption DEF Accounted, OwnedBy, Cover
<1>12. Locked'
  BY Zenon, <1>0, <1>2, <1>10 DEF IInv, Locked, Mine
<1>13. Prepared(p)'
  BY <1>1, <1>2, <1>3, <1>5, <1>6 DEF Prepared, Mine, Outside
<1>14. AtStage(p)'
  BY Zenon, <1>0, <1>2, <1>4, <1>5, <1>13 DEF AtStage
<1> QED
  BY Zenon, <1>0, <1>2, <1>7, <1>8, <1>9, <1>11, <1>12, <1>14 DEF IInv

\* The manifest names files that are all in place and all survive.
LEMMA PublishInv == ASSUME IInv, NEW p \in Procs, Publish(p) PROVE IInv'
<1> USE DEF Publish, Goto, job
<1>0. lock = p /\ lock # NoFile /\ AtStage(p) /\ pc[p] = "publish"
  BY Zenon, HasLock
<1>1. /\ ver[p] \in Versions /\ Manifest[ver[p]] \in Idents /\ owned[p] # {}
      /\ \A f \in Files : OwnedBy(f, owned[p])
  BY Zenon, <1>0, JobFacts
<1>2. xpending = {owned[p]} /\ pending = owned[p]
  BY Zenon, <1>0, JournalFacts
<1>3. xmanifest = {NoFile} /\ Installed(p, late) /\ Member
  BY Zenon, <1>0 DEF AtStage, IInv
<1>4. TypeOK'
  BY Zenon, <1>1 DEF IInv, TypeOK, Stages
<1>5. Member' /\ Quiet' /\ Vouched'
  <2>1. Member' /\ Quiet'
    BY Zenon, <1>1, <1>2, <1>3 DEF Member, Quiet
  <2>2. Manifest[ver[p]] \in owned[p]
    BY Zenon, <1>0, JobFacts
  <2>3. Vouched'
    BY Zenon, <1>1, <1>2, <1>3, <2>2, NamesAssumption DEF Vouched, Cover
  <2> QED
    BY Zenon, <2>1, <2>3
<1>6. Trusted'
  BY Zenon, <1>1, <1>3, NamesAssumption DEF Trusted, Installed, Mine
<1>7. Accounted'
  BY Zenon, <1>1, <1>2, <1>3, NamesAssumption DEF Accounted, OwnedBy, Cover
<1>8. Locked' /\ pc'[p] = "published"
  <2>1. \A f \in Files : OwnedBy(f, owned[p]) => OwnedBy(f, owned[p])'
    BY Zenon DEF OwnedBy
  <2> QED
    BY Zenon, <1>0, <2>1, LockedKept DEF Stages
<1>9. Installed(p, late)'
  BY Zenon, <1>3 DEF Installed, Mine, Settled
<1>10. AtStage(p)'
  BY Zenon, <1>2, <1>8, <1>9 DEF AtStage
<1> QED
  BY Zenon, <1>0, <1>4, <1>5, <1>6, <1>7, <1>8, <1>10 DEF IInv

\* The recovery manifest is not needed while the journal is there.
LEMMA ClearRecoveryInv == ASSUME IInv, NEW p \in Procs, ClearRecovery(p) PROVE IInv'
<1> USE DEF ClearRecovery, Goto, job
<1>0. lock = p /\ lock # NoFile /\ AtStage(p) /\ pc[p] = "forget"
  BY Zenon, HasLock
<1>1. /\ Manifest[ver[p]] \in Idents /\ owned[p] # {}
      /\ \A f \in Files : OwnedBy(f, owned[p])
  BY Zenon, <1>0, JobFacts
<1>2. xpending = {owned[p]} /\ pending = owned[p]
  BY Zenon, <1>0, JournalFacts
<1>3. /\ xmanifest = {manifest} /\ manifest = Manifest[ver[p]] /\ Installed(p, late)
      /\ Member /\ Trusted
  BY Zenon, <1>0 DEF AtStage, IInv
<1>4. TypeOK'
  BY Zenon DEF IInv, TypeOK, Stages
<1>5. Member' /\ Quiet' /\ Trusted' /\ Vouched'
  <2>1. Member' /\ Quiet'
    BY Zenon, <1>1, <1>2, <1>3 DEF Member, Quiet
  <2>2. Trusted'
    BY Zenon, <1>3, TrustedKept
  <2>3. Vouched'
    BY Zenon, <1>1, <1>3, NamesAssumption DEF Vouched, Cover
  <2> QED
    BY Zenon, <2>1, <2>2, <2>3
<1>6. Accounted'
  BY <1>1, <1>2, <1>3, NamesAssumption DEF Accounted, OwnedBy, Cover
<1>7. Locked' /\ pc'[p] = "clear"
  <2>1. \A f \in Files : OwnedBy(f, owned[p]) => OwnedBy(f, owned[p])'
    BY Zenon DEF OwnedBy
  <2> QED
    BY Zenon, <1>0, <2>1, LockedKept DEF Stages
<1>8. Installed(p, late)'
  BY Zenon, <1>3 DEF Installed, Mine, Settled
<1>9. AtStage(p)'
  BY Zenon, <1>2, <1>3, <1>7, <1>8 DEF AtStage
<1> QED
  BY Zenon, <1>0, <1>4, <1>5, <1>6, <1>7, <1>9 DEF IInv

\* The journal is not needed once no file is left that the manifest lacks.
LEMMA ClearPendingInv == ASSUME IInv, NEW p \in Procs, ClearPending(p) PROVE IInv'
<1> USE DEF ClearPending, Goto, job
<1>0. lock = p /\ lock # NoFile /\ AtStage(p) /\ pc[p] = "clear"
  BY Zenon, HasLock
<1>1. Manifest[ver[p]] \in Idents /\ \A f \in Files : OwnedBy(f, owned[p])
  BY Zenon, <1>0, JobFacts
<1>2. xpending = {owned[p]} /\ pending = owned[p]
  BY Zenon, <1>0, JournalFacts
<1>3. /\ xmanifest = {manifest} /\ manifest = Manifest[ver[p]] /\ Installed(p, late)
      /\ Member /\ Trusted
  BY Zenon, <1>0 DEF AtStage, IInv
<1>4. TypeOK'
  BY Zenon DEF IInv, TypeOK, Stages
<1>5. Member' /\ Quiet' /\ Trusted' /\ Vouched'
  <2>1. Member'
    BY Zenon, <1>2, <1>3 DEF Member
  <2>2. Quiet'
    BY Zenon, <1>3 DEF Quiet, Installed, Settled
  <2>3. Trusted'
    BY Zenon, <1>3, TrustedKept
  <2>4. Vouched'
    BY Zenon, <1>1, <1>3, NamesAssumption DEF Vouched, Cover
  <2> QED
    BY Zenon, <2>1, <2>2, <2>3, <2>4
<1>6. Accounted'
  BY Zenon, <1>1, <1>2, <1>3, NamesAssumption DEF Accounted, OwnedBy, Cover, Installed, Mine
<1>7. Locked' /\ pc'[p] = "cleared"
  <2>1. \A f \in Files : OwnedBy(f, owned[p]) => OwnedBy(f, owned[p])'
    BY Zenon DEF OwnedBy
  <2> QED
    BY Zenon, <1>0, <2>1, LockedKept DEF Stages
<1>8. Installed(p, late)'
  BY Zenon, <1>3 DEF Installed, Mine, Settled
<1>9. AtStage(p)'
  BY Zenon, <1>3, <1>7, <1>8 DEF AtStage
<1> QED
  BY Zenon, <1>0, <1>4, <1>5, <1>6, <1>7, <1>9 DEF IInv

-----------------------------------------------------------------------------
(* The syncs, the faults, and the theorems.                                *)

\* From now on the journal survives.
LEMMA SyncJournalInv == ASSUME IInv, NEW p \in Procs, SyncJournal(p) PROVE IInv'
<1>1. AtStage(p) /\ pc[p] = "journaled" /\ pc'[p] = "invalidate" /\ (AtStage(p)' => IInv')
  BY Zenon, SyncStep DEF SyncJournal, Stages
<1>2. Prepared(p)' /\ Listed(p)'
  BY Zenon, <1>1 DEF SyncJournal, AtStage, Prepared, Listed, Mine, disk, job
<1>3. AtStage(p)'
  BY Zenon, <1>1, <1>2 DEF SyncJournal, SyncDirectory, AtStage, disk, job
<1> QED
  BY Zenon, <1>1, <1>3

\* The old manifest is gone for good before the first file changes.
LEMMA SyncRetiredInv == ASSUME IInv, NEW p \in Procs, SyncRetired(p) PROVE IInv'
<1>1. AtStage(p) /\ pc[p] = "retired" /\ pc'[p] = "install" /\ (AtStage(p)' => IInv')
  BY Zenon, SyncStep DEF SyncRetired, Stages
<1>2. Prepared(p)'
  BY Zenon, <1>1 DEF SyncRetired, AtStage, Prepared, Mine, disk, job
<1>3. pending = owned[p] /\ manifest = NoFile
  BY Zenon, <1>1, JournalFacts DEF AtStage
<1>4. AtStage(p)'
  BY Zenon, <1>1, <1>2, <1>3 DEF SyncRetired, SyncDirectory, AtStage, disk, job
<1> QED
  BY Zenon, <1>1, <1>4

\* All files are in place and survive before the manifest names them.
LEMMA SyncInstalledInv == ASSUME IInv, NEW p \in Procs, SyncInstalled(p) PROVE IInv'
<1>1. AtStage(p) /\ pc[p] = "install" /\ pc'[p] = "publish" /\ (AtStage(p)' => IInv')
  BY Zenon, SyncStep DEF SyncInstalled, Stages
<1>2. Mine(p) \subseteq Files /\ pending = owned[p]
  BY Zenon, <1>1, JobFacts, JournalFacts
<1>3. manifest = NoFile /\ Prepared(p)
  BY Zenon, <1>1 DEF IInv, Member, AtStage
<1>4. Installed(p, late)'
  BY Zenon, <1>2, <1>3 DEF SyncInstalled, SyncDirectory, Prepared, Installed, Settled, Mine, disk, job
<1>5. AtStage(p)'
  BY Zenon, <1>1, <1>2, <1>3, <1>4 DEF SyncInstalled, SyncDirectory, AtStage, disk, job
<1> QED
  BY Zenon, <1>1, <1>5

\* Files that survive still do after another sync.
LEMMA SyncInstalledKept ==
    ASSUME IInv, NEW p \in Procs, pc[p] # "idle", Installed(p, late), SyncDirectory,
           UNCHANGED <<disk, job, late>>
    PROVE  Installed(p, late)'
<1>1. Mine(p) \subseteq Files
  BY Zenon, JobFacts
<1> QED
  BY <1>1 DEF IInv, Member, SyncDirectory, Installed, Settled, Mine, disk, job

\* The manifest survives before the sidecar files are cleared.
LEMMA SyncPublishedInv == ASSUME IInv, NEW p \in Procs, SyncPublished(p) PROVE IInv'
<1>1. AtStage(p) /\ pc[p] = "published" /\ pc'[p] = "forget" /\ (AtStage(p)' => IInv')
  BY Zenon, SyncStep DEF SyncPublished, Stages
<1>2. pending = owned[p] /\ manifest = Manifest[ver[p]] /\ Installed(p, late)
  BY Zenon, <1>1, JournalFacts DEF AtStage
<1>3. Installed(p, late)'
  BY Zenon, <1>1, <1>2, SyncInstalledKept DEF SyncPublished
<1>4. AtStage(p)'
  BY Zenon, <1>1, <1>2, <1>3 DEF SyncPublished, SyncDirectory, AtStage, disk, job
<1> QED
  BY Zenon, <1>1, <1>4

\* The last sync of a publication.
LEMMA SyncClearedInv == ASSUME IInv, NEW p \in Procs, SyncCleared(p) PROVE IInv'
<1>1. AtStage(p) /\ pc[p] = "cleared" /\ pc'[p] = "done" /\ (AtStage(p)' => IInv')
  BY Zenon, SyncStep DEF SyncCleared, Stages
<1>2. manifest = Manifest[ver[p]] /\ Installed(p, late)
  BY Zenon, <1>1 DEF AtStage
<1>3. Installed(p, late)'
  BY Zenon, <1>1, <1>2, SyncInstalledKept DEF SyncCleared
<1>4. Installed(p, late \cup unsynced)'
  BY Zenon, <1>3 DEF Installed
<1>5. AtStage(p)'
  BY Zenon, <1>1, <1>2, <1>4 DEF SyncCleared, SyncDirectory, AtStage, disk, job
<1> QED
  BY Zenon, <1>1, <1>5

\* Whoever leaves, successfully or not, leaves a directory that others can use.
LEMMA LeaveInv ==
    ASSUME IInv, NEW p \in Procs, pc[p] # "idle", Leave(p),
           UNCHANGED <<disk, xdisk, edited>>, faults' \in 0 .. MaxFaults
    PROVE  IInv'
<1>0. lock = p /\ lock # NoFile /\ lock' = NoFile
  BY Zenon, HasLock DEF Leave
<1>1. TypeOK'
  <2>1. AnyVersion \in Versions
    BY Zenon, VersionsAssumption DEF AnyVersion
  <2> QED
    BY Zenon, <2>1 DEF IInv, TypeOK, Stages, Leave, Goto, disk, xdisk
<1>2. Member' /\ Quiet' /\ Trusted' /\ Accounted' /\ Vouched'
  BY Zenon, DiskKept
<1>3. /\ pc'[p] = "idle" /\ staged'[p] = {}
      /\ \A q \in Procs : q # p => pc'[q] = pc[q] /\ staged'[q] = staged[q]
  BY Zenon DEF Leave, Goto, IInv, TypeOK
<1>4. Locked'
  BY Zenon, <1>0, <1>3 DEF IInv, Locked
<1> QED
  BY Zenon, <1>0, <1>1, <1>2, <1>4 DEF IInv

\* Leaving is a step of one process.
LEMMA ReturnInv == ASSUME IInv, NEW p \in Procs, Return(p) PROVE IInv'
BY Zenon, LeaveInv DEF Return, IInv, TypeOK

\* Faults are counted up to their bound.
LEMMA FaultCounted == ASSUME IInv, Fault PROVE faults' \in 0 .. MaxFaults
<1>1. faults \in 0 .. MaxFaults /\ faults < MaxFaults /\ faults' = faults + 1
  BY Zenon DEF Fault, IInv, TypeOK
<1> QED
  BY <1>1, FaultsAssumption

\* A process that dies or fails releases its lock.
LEMMA AbortInv == ASSUME IInv, NEW p \in Procs, Abort(p) PROVE IInv'
<1>1. faults' \in 0 .. MaxFaults
  BY Zenon, FaultCounted DEF Abort
<1> QED
  BY Zenon, <1>1, LeaveInv DEF Abort

\* Any combination of what may survive is a directory that others can use.
LEMMA PowerLossInv == ASSUME IInv, PowerLoss PROVE IInv'
<1>0. /\ file' \in [Files -> Contents] /\ \A f \in Files : file'[f] \in xfile[f]
      /\ lock' = NoFile
  BY Zenon DEF PowerLoss
<1>1. /\ manifest' \in xmanifest /\ recovery' \in xrecovery /\ pending' \in xpending
      /\ xfile' = [f \in Files |-> {file'[f]}]
      /\ xmanifest' = {manifest'} /\ xrecovery' = {recovery'} /\ xpending' = {pending'}
      /\ edited' = edited /\ unsynced' = {}
  BY Zenon DEF PowerLoss
<1>2. TypeOK'
  <2>1. AnyVersion \in Versions
    BY Zenon, VersionsAssumption DEF AnyVersion
  <2>2. faults' \in 0 .. MaxFaults
    BY Zenon, FaultCounted DEF PowerLoss
  <2>3. /\ manifest' \in Idents \cup {NoFile, Foreign} /\ recovery' \in Idents \cup {NoFile}
        /\ pending' \in SUBSET Idents
        /\ xfile' \in [Files -> SUBSET Contents]
        /\ xmanifest' \in SUBSET (Idents \cup {NoFile, Foreign})
        /\ xrecovery' \in SUBSET (Idents \cup {NoFile}) /\ xpending' \in SUBSET SUBSET Idents
    BY <1>0, <1>1 DEF IInv, TypeOK
  <2>4. late' \in SUBSET Files /\ edited' \in SUBSET Files /\ unsynced' \in SUBSET Files
    BY Zenon, <1>1 DEF PowerLoss, IInv, TypeOK
  <2>5. /\ pc' \in [Procs -> Stages] /\ ver' \in [Procs -> Versions]
        /\ snap' \in [Procs -> Idents \cup {NoFile, Foreign}] /\ found' \in [Procs -> BOOLEAN]
        /\ owned' \in [Procs -> SUBSET Idents] /\ delivered' \in [Procs -> SUBSET Files]
        /\ staged' \in [Procs -> SUBSET Files] /\ stale' \in [Procs -> SUBSET Files]
    BY Zenon, <2>1 DEF PowerLoss, Stages
  <2> QED
    BY Zenon, <1>0, <2>2, <2>3, <2>4, <2>5 DEF TypeOK
<1>3. Member' /\ Quiet'
  BY Zenon, <1>0, <1>1 DEF Member, Quiet, Settled
<1>4. Trusted'
  <2> SUFFICES ASSUME manifest' \in Idents
               PROVE  \E v \in Versions :
                        /\ Manifest[v] = manifest'
                        /\ \A f \in Owned[manifest'] \ edited : xfile'[f] = {Content[v][f]}
    BY Zenon, <1>1 DEF Trusted
  <2>1. PICK v \in Versions :
          /\ Manifest[v] = manifest'
          /\ \A f \in Owned[manifest'] \ edited : xfile[f] = {Content[v][f]}
    BY Zenon, <1>1 DEF IInv, Trusted
  <2>2. Owned[manifest'] \subseteq Files
    BY Zenon, <2>1, OwnedAssumption
  <2> QED
    BY <1>0, <1>1, <2>1, <2>2
<1>5. Accounted' /\ Vouched'
  <2>1. Accounted'
    BY <1>0, <1>1 DEF IInv, Accounted, OwnedBy, Cover
  <2>2. Vouched'
    BY Zenon, <1>1, NamesAssumption DEF Vouched, Cover
  <2> QED
    BY Zenon, <2>1, <2>2
<1>6. Locked'
  BY Zenon, <1>0, NamesAssumption DEF PowerLoss, Locked
<1> QED
  BY Zenon, <1>0, <1>2, <1>3, <1>4, <1>5, <1>6 DEF IInv

\* What others write is theirs or of a manifest that is there: nothing else
\* is claimed about it.
LEMMA EditInv == ASSUME IInv, NEW f \in Files, Edit(f) PROVE IInv'
<1>1. PICK c \in Writable(f) :
        /\ Fault /\ late' = late \cup {f} /\ edited' = edited \cup {f}
        /\ unsynced' = unsynced \cup {f}
        /\ file' = [file EXCEPT ![f] = c]
        /\ xfile' = [xfile EXCEPT ![f] = @ \cup {c}]
        /\ UNCHANGED <<manifest, recovery, pending, xmanifest, xrecovery, xpending, lock, pc, job>>
  BY Zenon DEF Edit
<1>c. /\ c \in Contents
      /\ c \in Outside \/ (manifest \in Idents /\ f \in Owned[manifest])
  <2>1. CASE c \in Outside
    BY <2>1 DEF Contents
  <2>2. ASSUME NEW v \in Versions, Manifest[v] = manifest, f \in Owned[manifest],
               c = Content[v][f]
        PROVE  c \in Contents /\ manifest \in Idents
    BY <2>2 DEF Contents, Idents
  <2> QED
    BY Zenon, <2>1, <2>2 DEF Writable
<1>2. /\ \A g \in Files : g # f => file'[g] = file[g] /\ xfile'[g] = xfile[g]
      /\ file'[f] = c /\ xfile'[f] = xfile[f] \cup {c}
  BY Zenon, <1>1 DEF IInv, TypeOK
<1>3. TypeOK'
  <2>1. faults' \in 0 .. MaxFaults
    BY Zenon, <1>1, FaultCounted
  <2>2. /\ file' \in [Files -> Contents] /\ xfile' \in [Files -> SUBSET Contents]
        /\ unsynced' \in SUBSET Files
    BY <1>1, <1>c DEF IInv, TypeOK
  <2> QED
    BY Zenon, <1>1, <2>1, <2>2 DEF IInv, TypeOK, job
<1>4. \A g \in Files \ unsynced' : Settled(g) => Settled(g)'
  BY Zenon, <1>1, <1>2 DEF Settled
<1>5. Member' /\ Quiet'
  BY Zenon, <1>1, <1>2, <1>4 DEF IInv, Member, Quiet
<1>6. Trusted'
  <2> SUFFICES ASSUME NEW m \in xmanifest \cap Idents
               PROVE  \E v \in Versions :
                        /\ Manifest[v] = m
                        /\ \A g \in Owned[m] \ (edited \cup {f}) : xfile'[g] = {Content[v][g]}
    BY <1>1 DEF Trusted
  <2>1. PICK v \in Versions :
          Manifest[v] = m /\ \A g \in Owned[m] \ edited : xfile[g] = {Content[v][g]}
    BY Zenon DEF IInv, Trusted
  <2>2. Owned[m] \subseteq Files
    BY Zenon, <2>1, OwnedAssumption
  <2>3. \A g \in Owned[m] \ (edited \cup {f}) : xfile'[g] = {Content[v][g]}
    BY Zenon, <1>2, <2>1, <2>2
  <2> QED
    BY Zenon, <2>1, <2>3
<1>7. \A g \in Files : \A ms :
          OwnedBy(g, ms) /\ (manifest \in Idents => manifest \in ms) => OwnedBy(g, ms)'
  BY Zenon, <1>2, <1>c DEF OwnedBy
<1>8. Accounted' /\ Vouched'
  <2>1. Accounted'
    <3> SUFFICES ASSUME NEW g \in Files, NEW m \in xmanifest, NEW r \in xrecovery,
                        NEW journal \in xpending
                 PROVE  OwnedBy(g, Cover(m, r, journal))'
      BY Zenon, <1>1 DEF Accounted
    <3>1. /\ OwnedBy(g, Cover(m, r, journal))
          /\ manifest \in Idents => manifest \in Cover(m, r, journal)
      BY Zenon DEF IInv, Accounted, Vouched
    <3> QED
      BY Zenon, <1>7, <3>1 DEF Cover
  <2> QED
    BY Zenon, <1>1, <2>1 DEF IInv, Vouched
<1>9. Locked'
  <2>1. lock # NoFile => \A g \in Files : OwnedBy(g, owned[lock])'
    BY Zenon, <1>1, <1>7 DEF IInv, Locked, OwnedBy, job
  <2> QED
    BY Zenon, <1>1, <2>1 DEF IInv, Locked, Mine, job
<1>10. ASSUME lock # NoFile PROVE AtStage(lock)'
  <2>1. lock \in Procs /\ pc[lock] # "idle" /\ AtStage(lock)
    BY Zenon, <1>10 DEF IInv, Locked, TypeOK
  <2>2. Mine(lock) \subseteq Files /\ (manifest \in Idents => manifest \in owned[lock])
    BY Zenon, <2>1, JobFacts
  <2>3. Prepared(lock) /\ (Listed(lock) \/ manifest \notin Idents) => Prepared(lock)'
    <3> SUFFICES ASSUME Prepared(lock), Listed(lock) \/ manifest \notin Idents
                 PROVE  Prepared(lock)'
      OBVIOUS
    <3>1. c \in Outside \/ f \in Mine(lock) \/ f \in stale[lock]
      BY Zenon, <1>c, <2>2 DEF Listed
    <3> QED
      BY <1>1, <1>2, <2>2, <3>1 DEF Prepared, Mine, job
  <2>4. /\ Listed(lock) => Listed(lock)'
        /\ pc[lock] \in {"retired", "install"} => manifest \notin Idents
    BY Zenon, <1>1, <2>1, NamesAssumption DEF Listed, Mine, job, AtStage, IInv, Member
  <2>5. ASSUME manifest \in Idents => manifest = Manifest[ver[lock]]
        PROVE  /\ Installed(lock, late) => Installed(lock, late)'
               /\ Installed(lock, late \cup unsynced) => Installed(lock, late \cup unsynced)'
    <3>1. c \in Outside \/ f \in Mine(lock)
      BY Zenon, <1>c, <2>5 DEF Mine
    <3> QED
      BY <1>1, <1>2, <1>4, <2>2, <3>1 DEF Installed, Mine, job
  <2>6. pc[lock] \in {"publish", "published", "forget", "clear", "cleared", "done"} =>
            (manifest \in Idents => manifest = Manifest[ver[lock]])
    BY Zenon, <2>1, NamesAssumption DEF AtStage, IInv, Member
  <2> QED
    BY Zenon, <1>1, <2>1, <2>3, <2>4, <2>5, <2>6 DEF AtStage, job
<1> QED
  BY Zenon, <1>1, <1>3, <1>5, <1>6, <1>8, <1>9, <1>10 DEF IInv

\* Every step of a process.
LEMMA StepInv == ASSUME IInv, NEW p \in Procs, Step(p) PROVE IInv'
BY Zenon, WriteInv, CommitInv, JournalInv, SyncJournalInv, InvalidateInv, RetireInv,
   SyncRetiredInv, PromoteInv, RemoveInv, SyncInstalledInv, PublishInv,
   SyncPublishedInv, ClearRecoveryInv, ClearPendingInv, SyncClearedInv, ReturnInv
   DEF Step

\* No step.
LEMMA StutterInv == ASSUME IInv, UNCHANGED vars PROVE IInv'
<1>1. UNCHANGED <<disk, xdisk, lock, pc, job, faults, late, edited>>
  BY Zenon DEF vars
<1>2. TypeOK'
  BY Zenon, <1>1 DEF IInv, TypeOK, disk, xdisk, job
<1>3. Member' /\ Quiet' /\ Trusted' /\ Accounted' /\ Vouched'
  BY Zenon, <1>1, DiskKept
<1>4. Locked'
  BY Zenon, <1>1 DEF IInv, Locked, OwnedBy, Mine, disk, xdisk, job
<1>5. lock' # NoFile => AtStage(lock)'
  BY Zenon, <1>1 DEF IInv, AtStage, Prepared, Listed, Installed, Mine, Settled, disk, xdisk, job
<1> QED
  BY Zenon, <1>2, <1>3, <1>4, <1>5 DEF IInv

\* The invariant holds in every state, for any number of compilers, versions,
\* files and faults: it is what the later publications and every power loss
\* find in the directory.
THEOREM Invariance == Spec => []IInv
<1>1. Init => IInv
  BY Zenon, InitInv
<1>2. IInv /\ [Next]_vars => IInv'
  <2> SUFFICES ASSUME IInv, [Next]_vars PROVE IInv'
    OBVIOUS
  <2>1. ASSUME NEW p \in Procs, Begin(p) \/ Step(p) \/ Abort(p) PROVE IInv'
    BY Zenon, <2>1, BeginInv, StepInv, AbortInv
  <2>2. CASE UNCHANGED vars
    BY Zenon, <2>2, StutterInv
  <2> QED
    BY Zenon, <2>1, <2>2, PowerLossInv, EditInv DEF Next
<1> QED
  BY <1>1, <1>2, PTL DEF Spec

\* Whenever a manifest can be trusted, the files it lists are those of one
\* version, apart from what others overwrote after commit() had checked them.
THEOREM HonestManifest == Spec => []ManifestHonest
<1>1. IInv => ManifestHonest
  <2> SUFFICES ASSUME IInv, manifest \in Idents PROVE Complete(manifest, file)
    BY Zenon DEF ManifestHonest
  <2>1. PICK v \in Versions :
          /\ Manifest[v] = manifest
          /\ \A f \in Owned[manifest] \ edited : xfile[f] = {Content[v][f]}
    BY Zenon DEF IInv, Member, Trusted
  <2>2. Owned[manifest] \subseteq Files
    BY Zenon, <2>1, OwnedAssumption
  <2> QED
    BY Zenon, <2>1, <2>2 DEF IInv, Member, Complete
<1> QED
  BY <1>1, Invariance, PTL

\* With a valid manifest and no journal, no file is left of any version that
\* was published or abandoned before.
THEOREM NothingLeftBehind == Spec => []NoOrphans
<1>1. IInv => NoOrphans
  <2> SUFFICES ASSUME IInv, manifest \in Idents, pending = {},
                      NEW f \in Files \ Owned[manifest]
               PROVE  file[f] \in Outside
    BY Zenon DEF NoOrphans
  <2>1. OwnedBy(f, Cover(manifest, recovery, {}))
    BY Zenon DEF IInv, Member, Accounted
  <2>2. Cover(manifest, recovery, {}) = {manifest}
    BY Zenon, NamesAssumption DEF Cover
  <2> QED
    BY Zenon, <2>1, <2>2 DEF IInv, Member, OwnedBy
<1> QED
  BY <1>1, Invariance, PTL

\* What commit() reports as published is there after power loss, apart from
\* files that others wrote after the last sync.
THEOREM SuccessIsDurable == Spec => []DurableSuccess
<1>1. IInv => DurableSuccess
  <2> SUFFICES ASSUME IInv, NEW p \in Procs, pc[p] = "done"
               PROVE  /\ xmanifest = {Manifest[ver[p]]}
                      /\ \A f \in Mine(p) \ (late \cup unsynced) : xfile[f] = {Content[ver[p]][f]}
    BY Zenon DEF DurableSuccess
  <2> QED
    BY Zenon, HasLock DEF AtStage, Installed
<1> QED
  BY <1>1, Invariance, PTL
=============================================================================
