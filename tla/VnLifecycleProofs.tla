------------------------- MODULE VnLifecycleProofs -------------------------
(***************************************************************************)
(* Proofs about the life of a volume, for any processes and any number of  *)
(* commits, under the assumption that one process at a time opens it.      *)
(***************************************************************************)
EXTENDS VnLifecycle, TLAPS

AllDown == \A p \in Process : phase[p] = "down"

\* At most one process has the volume open.
Lone ==
    \A p, q \in Process : phase[p] # "down" /\ phase[q] # "down" => p = q

\* How far a running mkfs.vn has come, and that it only ever works on a
\* volume that was blank.
Making(p) ==
    /\ phase[p] = "mk_meta" => families = {}
    /\ phase[p] = "mk_data" => families = {"meta_cf"}
    /\ phase[p] \in {"mk_put", "mk_flush", "mk_exit"} => families = Family
    /\ phase[p] \in {"mk_flush", "mk_exit"} => Formatted(db)
    /\ phase[p] \in {"mk_meta", "mk_data", "mk_put", "mk_flush", "mk_exit"}
           => ~reported /\ acked = 0

\* The inductive invariant.
Sound ==
    /\ TypeOK
    /\ Lone
    /\ AllDown => recoverable = {db}
    /\ families = {} => ~reported /\ acked = 0
    /\ \A p \in Process : Making(p)
    /\ MountOnlyFormatted

\* What the invariant says of durability needs flushes that do not fail.
Durable == FormatDurable /\ AckedSurvive

----------------------------------------------------------------------------
\* The end of a process leaves one database, of those that could be left.
LEMMA EndsEffect ==
    ASSUME NEW p \in Process, NEW result \in Outcome, NEW survivors,
           TypeOK, Lone, phase[p] # "down" \/ AllDown,
           survivors \subseteq recoverable,
           Ends(p, result, survivors)
    PROVE  /\ db' \in survivors
           /\ recoverable' = {db'}
           /\ db' \in Database
           /\ phase' = [q \in Process |-> "down"]
           /\ last' \in [Process -> Outcome]
           /\ cancelled' \subseteq Process
<1>1. phase' = [q \in Process |-> "down"]
  BY DEF TypeOK, Ends, Lone, AllDown
<1> QED  BY <1>1 DEF TypeOK, Ends

\* What ~ViveFsContext leaves: one of the recoverable databases, and the
\* current one unless a call fails unnoticed.
LEMMA DestroyEffect ==
    ASSUME NEW p \in Process, NEW result \in Outcome,
           TypeOK, Lone, phase[p] # "down" \/ AllDown,
           Destroy(p, result)
    PROVE  /\ db' \in recoverable
           /\ ~SilentFails => db' = db
           /\ recoverable' = {db'}
           /\ db' \in Database
           /\ phase' = [q \in Process |-> "down"]
           /\ last' \in [Process -> Outcome]
           /\ cancelled' \subseteq Process
<1>1. PICK survivors \in Flushed : Ends(p, result, survivors)
  BY DEF Destroy
<1>2. survivors \subseteq recoverable /\ (~SilentFails => survivors = {db})
  BY <1>1 DEF Flushed, TypeOK
<1> QED  BY <1>1, <1>2, EndsEffect

\* A process that has ended leaves the invariant intact if the volume's
\* families, promises and report are as they were.
LEMMA EndKeepsSound ==
    ASSUME Sound,
           db' \in recoverable, recoverable' = {db'}, db' \in Database,
           phase' = [q \in Process |-> "down"],
           last' \in [Process -> Outcome], cancelled' \subseteq Process,
           UNCHANGED <<families, acked, reported>>
    PROVE  Sound'
<1>1. TypeOK'  BY DEF Sound, TypeOK, Phase
<1>2. Lone' /\ (AllDown => recoverable = {db})' BY DEF Lone, AllDown
<1>3. \A q \in Process : Making(q)'  BY DEF Making
<1>4. MountOnlyFormatted'  BY DEF MountOnlyFormatted, Mounted
<1> QED  BY <1>1, <1>2, <1>3, <1>4 DEF Sound

\* A step of one process inside of its phases.
LEMMA GoesEffect ==
    ASSUME NEW p \in Process, NEW to \in Phase, TypeOK, Lone,
           phase[p] # "down" \/ AllDown,
           phase' = [phase EXCEPT ![p] = to]
    PROVE  /\ phase' \in [Process -> Phase]
           /\ phase'[p] = to
           /\ \A q \in Process \ {p} : phase'[q] = "down"
           /\ Lone'
BY DEF TypeOK, Lone, AllDown

\* Who may open the volume finds it closed.
LEMMA OpenerAlone ==
    ASSUME Exclusive, NEW p \in Process, CanOpen(p)
    PROVE  AllDown
BY DEF CanOpen, AllDown

\* A call that returns without touching the volume.
LEMMA ReturnKeepsSound ==
    ASSUME Sound, NEW p \in Process, NEW result \in Outcome,
           last' = [last EXCEPT ![p] = result],
           UNCHANGED <<phase, cancelled, store, reported>>
    PROVE  Sound'
<1>1. TypeOK'  BY DEF Sound, TypeOK, store
<1>2. Lone' /\ (AllDown => recoverable = {db})' /\ MountOnlyFormatted'
  BY DEF Sound, Lone, AllDown, MountOnlyFormatted, store
<1>3. \A q \in Process : Making(q)'  BY DEF Sound, Making, store
<1> QED  BY <1>1, <1>2, <1>3 DEF Sound, store

\* mkfs.vn keeps the invariant.
LEMMA MkfsSound ==
    ASSUME Exclusive, Sound, NEW p \in Process, Mkfs(p)
    PROVE  Sound'
<1>1. CASE MkfsOpen(p)
  <2>1. AllDown  BY <1>1, OpenerAlone DEF MkfsOpen
  <2>2. CASE OpensWith({}) /\ Goes(p, "mk_meta") /\ UNCHANGED <<store, reported>>
    <3>1. "mk_meta" \in Phase  BY DEF Phase
    <3>2. /\ phase' \in [Process -> Phase]
          /\ phase'[p] = "mk_meta"
          /\ \A q \in Process \ {p} : phase'[q] = "down"
          /\ Lone'
      BY <2>1, <2>2, <3>1, GoesEffect DEF Goes, Sound
    <3>3. TypeOK'  BY <2>2, <3>2 DEF Sound, TypeOK, Goes, store
    <3>4. \A q \in Process : Making(q)'
      BY <2>2, <3>2 DEF Sound, Making, OpensWith, store
    <3>5. MountOnlyFormatted'
      BY <3>2 DEF MountOnlyFormatted, Mounted
    <3>6. ~AllDown'  BY <3>2 DEF AllDown
    <3> QED  BY <2>2, <3>2, <3>3, <3>4, <3>5, <3>6 DEF Sound, store
  <2>3. CASE /\ last' = [last EXCEPT ![p] = "format_segv"]
             /\ UNCHANGED <<phase, cancelled, store, reported>>
    <3>1. "format_segv" \in Outcome  BY DEF Outcome
    <3> QED  BY <2>3, <3>1, ReturnKeepsSound
  <2> QED  BY <1>1, <2>2, <2>3 DEF MkfsOpen
<1>2. ASSUME NEW at \in Phase, NEW to \in Phase, NEW f \in Family,
             CreateFamily(p, at, f, to),
             \/ at = "mk_meta" /\ f = "meta_cf" /\ to = "mk_data"
             \/ at = "mk_data" /\ f = "data_cf" /\ to = "mk_put"
      PROVE  Sound'
  <2>1. phase[p] # "down"  BY <1>2 DEF CreateFamily
  <2>2. CASE CreateFails(p)
    <3>1. "format_failed" \in Outcome  BY DEF Outcome
    <3> QED
      BY <2>1, <2>2, <3>1, DestroyEffect, EndKeepsSound DEF CreateFails, Sound
  <2>3. CASE /\ families' = families \cup {f}
             /\ Goes(p, to)
             /\ UNCHANGED <<db, recoverable, acked, reported>>
    <3>1. /\ phase' \in [Process -> Phase]
          /\ phase'[p] = to
          /\ \A q \in Process \ {p} : phase'[q] = "down"
          /\ Lone'
      BY <2>1, <2>3, GoesEffect DEF Goes, Sound
    <3>2. TypeOK'  BY <2>3, <3>1 DEF Sound, TypeOK, Goes
    <3>3. Making(p)  BY DEF Sound
    <3>4. Making(p)'
      BY <1>2, <2>3, <3>1, <3>3 DEF Making, CreateFamily, Family
    <3>5. \A q \in Process : Making(q)'
      BY <3>1, <3>4 DEF Making
    <3>6. MountOnlyFormatted'
      BY <1>2, <3>1 DEF MountOnlyFormatted, Mounted
    <3>7. ~AllDown' /\ families' # {}
      BY <1>2, <2>3, <3>1 DEF AllDown
    <3> QED  BY <3>1, <3>2, <3>5, <3>6, <3>7 DEF Sound
  <2> QED  BY <1>2, <2>2, <2>3 DEF CreateFamily
<1>3. CASE MkfsCreateMeta(p)
  BY <1>2, <1>3 DEF MkfsCreateMeta, Phase, Family
<1>4. CASE MkfsCreateData(p)
  BY <1>2, <1>4 DEF MkfsCreateData, Phase, Family
<1>5. CASE MkfsPut(p)
  <2>1. phase[p] = "mk_put" /\ Making(p)  BY <1>5 DEF MkfsPut, Sound
  <2>2. CASE Ends(p, "format_failed", recoverable) /\ UNCHANGED <<families, acked, reported>>
    <3>1. "format_failed" \in Outcome  BY DEF Outcome
    <3> QED
      BY <2>1, <2>2, <3>1, EndsEffect, EndKeepsSound DEF Sound
  <2>3. CASE /\ db' = [db EXCEPT !.sb = "ours", !.seed = TRUE]
             /\ recoverable' = recoverable \cup {db'}
             /\ Goes(p, "mk_flush")
             /\ UNCHANGED <<families, acked, reported>>
    <3>1. "mk_flush" \in Phase  BY DEF Phase
    <3>2. /\ phase' \in [Process -> Phase]
          /\ phase'[p] = "mk_flush"
          /\ \A q \in Process \ {p} : phase'[q] = "down"
          /\ Lone'
      BY <2>1, <2>3, <3>1, GoesEffect DEF Goes, Sound
    <3>3. db' \in Database /\ Formatted(db')
      BY <2>3 DEF Sound, TypeOK, Database, Formatted
    <3>4. TypeOK'  BY <2>3, <3>2, <3>3 DEF Sound, TypeOK, Goes
    <3>5. Making(p)'  BY <2>1, <2>3, <3>2, <3>3 DEF Making
    <3>6. \A q \in Process : Making(q)'  BY <3>2, <3>5 DEF Making
    <3>7. MountOnlyFormatted'  BY <3>2 DEF MountOnlyFormatted, Mounted
    <3>8. ~AllDown'  BY <3>2 DEF AllDown
    <3> QED  BY <2>3, <3>2, <3>4, <3>6, <3>7, <3>8 DEF Sound
  <2> QED  BY <1>5, <2>2, <2>3 DEF MkfsPut
<1>6. CASE MkfsFlush(p)
  <2>1. "mk_exit" \in Phase  BY DEF Phase
  <2>2. /\ phase' \in [Process -> Phase]
        /\ phase'[p] = "mk_exit"
        /\ \A q \in Process \ {p} : phase'[q] = "down"
        /\ Lone'
    BY <1>6, <2>1, GoesEffect DEF MkfsFlush, Goes, Sound
  <2>3. recoverable' \subseteq recoverable /\ db' \in recoverable' /\ db' = db
    BY <1>6 DEF MkfsFlush, Flushed, Sound, TypeOK
  <2>4. TypeOK'  BY <1>6, <2>2, <2>3 DEF MkfsFlush, Sound, TypeOK, Goes
  <2>5. \A q \in Process : Making(q)'
    BY <1>6, <2>2, <2>3 DEF MkfsFlush, Making, Sound
  <2>6. MountOnlyFormatted'  BY <2>2 DEF MountOnlyFormatted, Mounted
  <2>7. ~AllDown'  BY <2>2 DEF AllDown
  <2> QED  BY <1>6, <2>2, <2>4, <2>5, <2>6, <2>7 DEF Sound, MkfsFlush
<1>7. CASE MkfsExit(p)
  <2>1. "formatted" \in Outcome  BY DEF Outcome
  <2>2. phase[p] = "mk_exit" /\ families = Family
    BY <1>7 DEF MkfsExit, Sound, Making
  <2>3. /\ db' \in recoverable
        /\ recoverable' = {db'}
        /\ db' \in Database
        /\ phase' = [q \in Process |-> "down"]
        /\ last' \in [Process -> Outcome]
        /\ cancelled' \subseteq Process
    BY <1>7, <2>1, <2>2, DestroyEffect DEF MkfsExit, Sound
  <2>4. TypeOK'  BY <1>7, <2>3 DEF MkfsExit, Sound, TypeOK, Phase
  <2>5. Lone' /\ (AllDown => recoverable = {db})'  BY <2>3 DEF Lone, AllDown
  <2>6. \A q \in Process : Making(q)'  BY <2>3 DEF Making
  <2>7. MountOnlyFormatted'  BY <2>3 DEF MountOnlyFormatted, Mounted
  <2>8. families' # {}  BY <1>7, <2>2 DEF MkfsExit, Family
  <2> QED  BY <2>4, <2>5, <2>6, <2>7, <2>8 DEF Sound
<1>8. CASE DebugRun(p)
  <2>1. "debugged" \in Outcome /\ AllDown
    BY <1>8, OpenerAlone DEF Outcome, DebugRun
  <2> QED
    BY <1>8, <2>1, DestroyEffect, EndKeepsSound DEF DebugRun, Sound
<1> QED  BY <1>1, <1>3, <1>4, <1>5, <1>6, <1>7, <1>8 DEF Mkfs

\* A step of a mounted server: it stays the only process, on a complete
\* format, and the promises it makes are about commits that exist.
LEMMA ServingKeepsSound ==
    ASSUME Sound, NEW p \in Process, phase[p] \in Mounted,
           NEW to \in Mounted, phase' = [phase EXCEPT ![p] = to],
           last' \in [Process -> Outcome], cancelled' \subseteq Process,
           db' \in Database, recoverable' \subseteq Database,
           db' \in recoverable', acked' \in 0..MaxCommit,
           \A r \in recoverable' : Formatted(r),
           UNCHANGED <<families, reported>>
    PROVE  Sound'
<1>1. to \in Phase /\ to # "down" /\ phase[p] # "down" /\ families = Family
  BY DEF Phase, Mounted, Sound, MountOnlyFormatted
<1>2. /\ phase' \in [Process -> Phase]
      /\ phase'[p] = to
      /\ \A q \in Process \ {p} : phase'[q] = "down"
      /\ Lone'
  BY <1>1, GoesEffect DEF Sound
<1>3. TypeOK'  BY <1>2 DEF Sound, TypeOK
<1>4. \A q \in Process : Making(q)'  BY <1>2 DEF Making, Mounted
<1>5. MountOnlyFormatted'  BY <1>1 DEF MountOnlyFormatted
<1>6. ~AllDown' /\ families' # {}  BY <1>1, <1>2 DEF AllDown, Family
<1> QED  BY <1>2, <1>3, <1>4, <1>5, <1>6 DEF Sound

\* The server keeps the invariant.
LEMMA ServerSound ==
    ASSUME Exclusive, Sound, NEW p \in Process, Server(p)
    PROVE  Sound'
<1> USE ConstantsAssumption
<1>1. CASE Mount(p)
  <2>1. AllDown /\ recoverable = {db}
    BY <1>1, OpenerAlone DEF Mount, Sound
  <2>2. CASE /\ OpensWith(Family) /\ MountChecks
             /\ phase' = [phase EXCEPT ![p] = "up"]
             /\ last' = [last EXCEPT ![p] = "mounted"]
             /\ UNCHANGED <<cancelled, db, recoverable, families, acked, reported>>
    <3>1. "up" \in Phase  BY DEF Phase
    <3>2. /\ phase' \in [Process -> Phase]
          /\ phase'[p] = "up"
          /\ \A q \in Process \ {p} : phase'[q] = "down"
          /\ Lone'
      BY <2>1, <2>2, <3>1, GoesEffect DEF Sound
    <3>3. last' \in [Process -> Outcome]
      BY <2>2 DEF Sound, TypeOK, Outcome
    <3>4. TypeOK'  BY <2>2, <3>2, <3>3 DEF Sound, TypeOK
    <3>5. \A q \in Process : Making(q)'  BY <3>2 DEF Making
    <3>6. families' = Family /\ \A r \in recoverable' : Formatted(r)
      BY <2>1, <2>2 DEF OpensWith, MountChecks, Formatted
    <3>7. ~AllDown' /\ families' # {}  BY <3>2, <3>6 DEF AllDown, Family
    <3> QED
      BY <3>2, <3>4, <3>5, <3>6, <3>7 DEF Sound, MountOnlyFormatted
  <2>3. CASE /\ last' = [last EXCEPT ![p] = "mount_segv"]
             /\ UNCHANGED <<phase, cancelled, db, recoverable, families, acked, reported>>
    <3>1. "mount_segv" \in Outcome  BY DEF Outcome
    <3> QED  BY <2>3, <3>1, ReturnKeepsSound DEF store
  <2>4. CASE Destroy(p, "mount_null") /\ UNCHANGED <<families, acked, reported>>
    <3>1. "mount_null" \in Outcome  BY DEF Outcome
    <3> QED  BY <2>1, <2>4, <3>1, DestroyEffect, EndKeepsSound DEF Sound
  <2> QED  BY <1>1, <2>2, <2>3, <2>4 DEF Mount
<1>2. ASSUME NEW sync \in BOOLEAN, Commit(p, sync)
      PROVE  Sound'
  <2>1. phase[p] \in Mounted /\ phase' = [phase EXCEPT ![p] = phase[p]]
    BY <1>2 DEF Commit, Sound, TypeOK
  <2>2. db' \in Database /\ db'.n \in 0..MaxCommit
    BY <1>2 DEF Commit, Sound, TypeOK, Database
  <2>3. \A r \in recoverable \cup {db} : Formatted(r)
    BY <2>1 DEF Sound, MountOnlyFormatted, TypeOK
  <2>4. Formatted(db')
    BY <1>2, <2>3 DEF Commit, Formatted, Sound, TypeOK, Database
  <2>5. /\ recoverable' \subseteq Database
        /\ db' \in recoverable'
        /\ \A r \in recoverable' : Formatted(r)
    BY <1>2, <2>2, <2>3, <2>4 DEF Commit, Sound, TypeOK
  <2>6. acked' \in 0..MaxCommit
    BY <1>2, <2>2 DEF Commit, Sound, TypeOK
  <2>7. /\ last' \in [Process -> Outcome] /\ cancelled' \subseteq Process
        /\ UNCHANGED <<families, reported>>
    BY <1>2 DEF Commit, Sound, TypeOK
  <2> QED  BY <2>1, <2>2, <2>5, <2>6, <2>7, ServingKeepsSound
<1>3. CASE FlushFs(p)
  <2>1. phase[p] = "up" /\ "up" \in Mounted /\ "flushing" \in Mounted
    BY <1>3 DEF FlushFs, Mounted
  <2>2. \A r \in recoverable : Formatted(r)
    BY <2>1 DEF Sound, MountOnlyFormatted
  <2>3. CASE /\ recoverable' = {db} /\ acked' = db.n /\ Goes(p, "flushing")
             /\ UNCHANGED <<families, db, reported>>
    <3>1. /\ db' \in Database /\ recoverable' \subseteq Database
          /\ db' \in recoverable' /\ acked' \in 0..MaxCommit
          /\ \A r \in recoverable' : Formatted(r)
      BY <2>2, <2>3 DEF Sound, TypeOK, Database
    <3>2. /\ phase' = [phase EXCEPT ![p] = "flushing"]
          /\ last' \in [Process -> Outcome] /\ cancelled' \subseteq Process
      BY <2>3 DEF Goes, Sound, TypeOK
    <3> QED  BY <2>1, <2>3, <3>1, <3>2, ServingKeepsSound
  <2>4. CASE /\ last' = [last EXCEPT ![p] = "flush_eio"]
             /\ UNCHANGED <<phase, cancelled, recoverable, acked, families, db, reported>>
    <3>1. "flush_eio" \in Outcome  BY DEF Outcome
    <3> QED  BY <2>4, <3>1, ReturnKeepsSound DEF store
  <2> QED  BY <1>3, <2>3, <2>4 DEF FlushFs
<1>4. CASE FlushFsReturn(p)
  <2>1. /\ phase[p] = "flushing" /\ phase' = [phase EXCEPT ![p] = "up"]
        /\ "up" \in Mounted /\ "flushing" \in Mounted
        /\ UNCHANGED <<families, db, recoverable, acked, reported>>
    BY <1>4 DEF FlushFsReturn, Mounted, store
  <2>2. last' \in [Process -> Outcome] /\ cancelled' \subseteq Process
    BY <1>4 DEF FlushFsReturn, Sound, TypeOK, Outcome
  <2>3. \A r \in recoverable' : Formatted(r)
    BY <2>1 DEF Sound, MountOnlyFormatted
  <2>4. /\ db' \in Database /\ recoverable' \subseteq Database
        /\ db' \in recoverable' /\ acked' \in 0..MaxCommit
    BY <2>1 DEF Sound, TypeOK
  <2> QED  BY <2>1, <2>2, <2>3, <2>4, ServingKeepsSound
<1>5. CASE UmountFlush(p)
  <2>1. /\ phase[p] = "up" /\ phase' = [phase EXCEPT ![p] = "closing"]
        /\ "up" \in Mounted /\ "closing" \in Mounted
        /\ UNCHANGED <<last, families, db, acked, reported>>
    BY <1>5 DEF UmountFlush, Mounted
  <2>2. recoverable' \subseteq recoverable /\ db' \in recoverable'
    BY <1>5, <2>1 DEF UmountFlush, Flushed, Sound, TypeOK
  <2>3. cancelled' \subseteq Process  BY <1>5 DEF UmountFlush, Sound, TypeOK
  <2>4. \A r \in recoverable' : Formatted(r)
    BY <2>1, <2>2 DEF Sound, MountOnlyFormatted
  <2>5. /\ db' \in Database /\ recoverable' \subseteq Database
        /\ acked' \in 0..MaxCommit /\ last' \in [Process -> Outcome]
    BY <2>1, <2>2 DEF Sound, TypeOK
  <2> QED  BY <2>1, <2>2, <2>3, <2>4, <2>5, ServingKeepsSound
<1>6. CASE UmountDelete(p)
  <2>1. "unmounted" \in Outcome  BY DEF Outcome
  <2>2. phase[p] = "closing" /\ families = Family
    BY <1>6 DEF UmountDelete, Sound, MountOnlyFormatted, Mounted
  <2>3. /\ recoverable' = {db'}
        /\ db' \in Database
        /\ phase' = [q \in Process |-> "down"]
        /\ last' \in [Process -> Outcome]
        /\ cancelled' \subseteq Process
    BY <1>6, <2>1, <2>2, DestroyEffect DEF UmountDelete, Sound
  <2>4. acked' \in 0..MaxCommit
    BY <1>6 DEF UmountDelete, Sound, TypeOK, Database
  <2>5. TypeOK'  BY <1>6, <2>3, <2>4 DEF UmountDelete, Sound, TypeOK, Phase
  <2>6. Lone' /\ (AllDown => recoverable = {db})'  BY <2>3 DEF Lone, AllDown
  <2>7. \A q \in Process : Making(q)'  BY <2>3 DEF Making
  <2>8. MountOnlyFormatted'  BY <2>3 DEF MountOnlyFormatted, Mounted
  <2>9. families' # {}  BY <1>6, <2>2 DEF UmountDelete, Family
  <2> QED  BY <2>5, <2>6, <2>7, <2>8, <2>9 DEF Sound
<1> QED  BY <1>1, <1>2, <1>3, <1>4, <1>5, <1>6 DEF Server

\* An empty volume and one of another version are sound.
LEMMA SoundInit == Init => Sound
<1> SUFFICES ASSUME Init PROVE Sound  OBVIOUS
<1> USE ConstantsAssumption
<1>1. TypeOK
  <2>1. Blank \in Database /\ Foreign \in Database
    BY DEF Database, Blank, Foreign
  <2>2. db \in Database /\ families \subseteq Family
    BY <2>1 DEF Init
  <2>3. phase \in [Process -> Phase] /\ last \in [Process -> Outcome]
    BY DEF Init, Phase, Outcome
  <2>4. cancelled \subseteq Process /\ recoverable = {db}
    BY DEF Init
  <2>5. acked \in 0..MaxCommit  BY DEF Init
  <2>6. reported \in BOOLEAN  BY DEF Init
  <2> QED  BY <2>2, <2>3, <2>4, <2>5, <2>6 DEF TypeOK
<1>2. Lone /\ (AllDown => recoverable = {db}) /\ MountOnlyFormatted
  BY DEF Init, Lone, AllDown, MountOnlyFormatted, Mounted
<1>3. \A p \in Process : Making(p)  BY DEF Init, Making
<1> QED  BY <1>1, <1>2, <1>3 DEF Sound, Init

\* Every step of mkfs.vn and of a server, and every crash, keeps Sound.
LEMMA SoundNext ==
    ASSUME Exclusive, Sound, [Next]_vars
    PROVE  Sound'
<1>1. ASSUME NEW p \in Process, Crash(p)
      PROVE  Sound'
  <2>1. "none" \in Outcome  BY DEF Outcome
  <2> QED  BY <1>1, <2>1, EndsEffect, EndKeepsSound DEF Crash, Sound
<1>2. CASE UNCHANGED vars
  <2>1. TypeOK'  BY <1>2 DEF Sound, TypeOK, vars
  <2>2. Lone' /\ (AllDown => recoverable = {db})' /\ MountOnlyFormatted'
    BY <1>2 DEF Sound, Lone, AllDown, MountOnlyFormatted, vars
  <2>3. \A p \in Process : Making(p)'  BY <1>2 DEF Sound, Making, vars
  <2> QED  BY <1>2, <2>1, <2>2, <2>3 DEF Sound, vars
<1> QED  BY <1>1, <1>2, MkfsSound, ServerSound DEF Next

\* Type correctness and the rest of the invariant.
THEOREM LifecycleInvariant ==
    ASSUME Exclusive PROVE Spec => []Sound
<1>1. Sound /\ [Next]_vars => Sound'  BY SoundNext
<1> QED  BY <1>1, SoundInit, PTL DEF Spec

\* vn_mount's checks: a server only works on a complete format, even if the
\* flushes whose status the code ignores fail.
THEOREM ServersOnlyOnFormats ==
    ASSUME Exclusive PROVE Spec => []MountOnlyFormatted
<1>1. Sound => MountOnlyFormatted  BY DEF Sound
<1> QED  BY <1>1, LifecycleInvariant, PTL

----------------------------------------------------------------------------
\* Steps after which no database can be left that could not be left before.
LEMMA ShrinkKeepsDurable ==
    ASSUME Durable, recoverable' \subseteq recoverable,
           UNCHANGED <<families, acked, reported>>
    PROVE  Durable'
BY DEF Durable, FormatDurable, AckedSurvive

\* No step breaks a reported format or a promise.
LEMMA DurableNext ==
    ASSUME Exclusive, ~SilentFails, Sound, Durable, [Next]_vars
    PROVE  Durable'
<1> USE ConstantsAssumption
<1>1. ASSUME NEW p \in Process, MkfsOpen(p)
      PROVE  Durable'
  BY <1>1, ShrinkKeepsDurable DEF MkfsOpen, store
<1>2. ASSUME NEW p \in Process, NEW at, NEW to, NEW f \in Family,
             at \in {"mk_meta", "mk_data"}, CreateFamily(p, at, f, to)
      PROVE  Durable'
  <2>1. phase[p] \in {"mk_meta", "mk_data"} /\ Making(p)
    BY <1>2 DEF CreateFamily, Sound
  <2>2. CASE CreateFails(p)
    <3>1. "format_failed" \in Outcome  BY DEF Outcome
    <3>2. recoverable' = {db'} /\ db' \in recoverable
      BY <2>1, <2>2, <3>1, DestroyEffect DEF CreateFails, Sound
    <3> QED  BY <2>2, <3>2, ShrinkKeepsDurable DEF CreateFails
  <2>3. CASE UNCHANGED <<db, recoverable, acked, reported>>
    BY <2>1, <2>3 DEF Durable, FormatDurable, AckedSurvive, Making
  <2> QED  BY <1>2, <2>2, <2>3 DEF CreateFamily
<1>3. ASSUME NEW p \in Process, MkfsPut(p)
      PROVE  Durable'
  <2>1. phase[p] = "mk_put" /\ ~reported /\ acked = 0
    BY <1>3 DEF MkfsPut, Sound, Making
  <2>2. ~reported' /\ acked' = 0  BY <1>3, <2>1 DEF MkfsPut
  <2>3. recoverable' \subseteq Database
    BY <1>3, SoundNext DEF Next, Mkfs, Sound, TypeOK
  <2> QED
    BY <2>2, <2>3 DEF Durable, FormatDurable, AckedSurvive, Database
<1>4. ASSUME NEW p \in Process, MkfsFlush(p)
      PROVE  Durable'
  <2>1. recoverable' \subseteq recoverable
    BY <1>4 DEF MkfsFlush, Flushed, Sound, TypeOK
  <2> QED  BY <1>4, <2>1, ShrinkKeepsDurable DEF MkfsFlush
<1>5. ASSUME NEW p \in Process, MkfsExit(p)
      PROVE  Durable'
  <2>1. "formatted" \in Outcome  BY DEF Outcome
  <2>2. phase[p] = "mk_exit" /\ Making(p)  BY <1>5 DEF MkfsExit, Sound
  <2>3. recoverable' = {db} /\ db \in Database
    BY <1>5, <2>1, <2>2, DestroyEffect DEF MkfsExit, Sound, TypeOK
  <2>4. families' = Family /\ Formatted(db) /\ acked' = 0
    BY <1>5, <2>2 DEF MkfsExit, Making
  <2> QED
    BY <2>3, <2>4 DEF Durable, FormatDurable, AckedSurvive, Database
<1>6. ASSUME NEW p \in Process, NEW result \in Outcome,
             CanOpen(p), Destroy(p, result),
             UNCHANGED <<families, acked, reported>>
      PROVE  Durable'
  <2>1. AllDown  BY <1>6, OpenerAlone
  <2>2. recoverable' = {db'} /\ db' \in recoverable
    BY <1>6, <2>1, DestroyEffect DEF Sound
  <2> QED  BY <1>6, <2>2, ShrinkKeepsDurable
<1>7. ASSUME NEW p \in Process, DebugRun(p)
      PROVE  Durable'
  BY <1>6, <1>7 DEF DebugRun, Outcome
<1>8. ASSUME NEW p \in Process, Mount(p)
      PROVE  Durable'
  <2>1. CASE UNCHANGED recoverable
    BY <1>8, <2>1, ShrinkKeepsDurable DEF Mount
  <2>2. CASE Destroy(p, "mount_null")
    BY <1>6, <1>8, <2>2 DEF Mount, Outcome
  <2> QED  BY <1>8, <2>1, <2>2 DEF Mount
<1>9. ASSUME NEW p \in Process, NEW sync \in BOOLEAN, Commit(p, sync)
      PROVE  Durable'
  <2>1. /\ families = Family
        /\ \A r \in recoverable : Formatted(r)
        /\ db \in recoverable
        /\ acked \in Nat
        /\ db \in Database
    BY <1>9 DEF Commit, Sound, MountOnlyFormatted, TypeOK
  <2>2. db'.n = db.n + 1 /\ db.n \in Nat /\ Formatted(db')
    BY <1>9, <2>1 DEF Commit, Formatted, Database
  <2>3. FormatDurable'
    BY <1>9, <2>1, <2>2 DEF Commit, FormatDurable
  <2>4. CASE sync
    <3>1. recoverable' = {db'} /\ acked' = db'.n  BY <1>9, <2>4 DEF Commit
    <3>2. db'.n \in Nat  BY <2>2
    <3> QED  BY <2>3, <3>1, <3>2 DEF Durable, AckedSurvive
  <2>5. CASE ~sync
    <3>1. acked <= db.n  BY <2>1 DEF Durable, AckedSurvive
    <3>2. acked <= db'.n  BY <2>1, <2>2, <3>1
    <3> QED
      BY <1>9, <2>3, <2>5, <3>2 DEF Commit, Durable, AckedSurvive
  <2> QED  BY <2>4, <2>5
<1>10. ASSUME NEW p \in Process, FlushFs(p)
       PROVE  Durable'
  <2>1. db \in recoverable /\ db.n \in Nat
    BY DEF Sound, TypeOK, Database
  <2>2. CASE recoverable' = {db} /\ acked' = db.n
    BY <1>10, <2>1, <2>2
       DEF FlushFs, Durable, FormatDurable, AckedSurvive
  <2>3. CASE UNCHANGED <<recoverable, acked>>
    BY <1>10, <2>3, ShrinkKeepsDurable DEF FlushFs
  <2> QED  BY <1>10, <2>2, <2>3 DEF FlushFs
<1>11. ASSUME NEW p \in Process, FlushFsReturn(p)
       PROVE  Durable'
  BY <1>11, ShrinkKeepsDurable DEF FlushFsReturn, store
<1>12. ASSUME NEW p \in Process, UmountFlush(p)
       PROVE  Durable'
  <2>1. recoverable' \subseteq recoverable
    BY <1>12 DEF UmountFlush, Flushed, Sound, TypeOK
  <2> QED  BY <1>12, <2>1, ShrinkKeepsDurable DEF UmountFlush
<1>13. ASSUME NEW p \in Process, UmountDelete(p)
       PROVE  Durable'
  <2>1. "unmounted" \in Outcome /\ phase[p] # "down"
    BY <1>13 DEF Outcome, UmountDelete
  <2>2. recoverable' = {db} /\ db \in recoverable /\ db.n \in Nat
    BY <1>13, <2>1, DestroyEffect
       DEF UmountDelete, Sound, TypeOK, Database
  <2> QED
    BY <1>13, <2>2
       DEF UmountDelete, Durable, FormatDurable, AckedSurvive
<1>14. ASSUME NEW p \in Process, Crash(p)
       PROVE  Durable'
  <2>1. "none" \in Outcome  BY DEF Outcome
  <2>2. recoverable' = {db'} /\ db' \in recoverable
    BY <1>14, <2>1, EndsEffect DEF Crash, Sound
  <2> QED  BY <1>14, <2>2, ShrinkKeepsDurable DEF Crash
<1>15. CASE UNCHANGED vars
  BY <1>15, ShrinkKeepsDurable DEF vars
<1>16. ASSUME NEW p \in Process, Mkfs(p)
       PROVE  Durable'
  <2>1. CASE MkfsCreateMeta(p)
    BY <1>2, <2>1 DEF MkfsCreateMeta, Family
  <2>2. CASE MkfsCreateData(p)
    BY <1>2, <2>2 DEF MkfsCreateData, Family
  <2> QED
    BY <1>1, <1>3, <1>4, <1>5, <1>7, <1>16, <2>1, <2>2 DEF Mkfs
<1>17. ASSUME NEW p \in Process, Server(p)
       PROVE  Durable'
  BY <1>8, <1>9, <1>10, <1>11, <1>12, <1>13, <1>17 DEF Server
<1> QED  BY <1>14, <1>15, <1>16, <1>17 DEF Next

\* Reported formats and promised commits are always durable.
LEMMA DurableAlways ==
    ASSUME Exclusive, ~SilentFails
    PROVE  Spec => []Durable
<1>1. Init => Durable
  BY ConstantsAssumption
     DEF Init, Durable, FormatDurable, AckedSurvive, Blank, Foreign
<1>2. Sound /\ Durable /\ [Next]_vars => Durable'  BY DurableNext
<1> QED  BY <1>1, <1>2, LifecycleInvariant, PTL DEF Spec

\* A format that was reported survives every crash, if the flushes whose
\* status vn_mkfs_vivefs ignores do not fail.
THEOREM FormatSurvives ==
    ASSUME Exclusive, ~SilentFails
    PROVE  Spec => []FormatDurable
<1>1. Durable => FormatDurable  BY DEF Durable
<1> QED  BY <1>1, DurableAlways, PTL

\* So do the commits that a synced commit, vn_flush_fs or vn_umount promised.
THEOREM PromisesAreKept ==
    ASSUME Exclusive, ~SilentFails
    PROVE  Spec => []AckedSurvive
<1>1. Durable => AckedSurvive  BY DEF Durable
<1> QED  BY <1>1, DurableAlways, PTL

\* An interrupted format stays what it is: mkfs.vn refuses a volume that has
\* a family and vn_mount one without the records.
THEOREM HalfFormatsStay ==
    ASSUME Exclusive PROVE Spec => HalfFormatFinal
<1>1. ASSUME Sound, Half, [Next]_vars
      PROVE  Half'
  <2>1. AllDown /\ recoverable = {db}
    BY <1>1 DEF Half, AllDown, Sound
  <2>2. ASSUME NEW p \in Process, NEW result \in Outcome,
               Destroy(p, result), UNCHANGED families
        PROVE  Half'
    <3>1. /\ db' \in recoverable
          /\ phase' = [q \in Process |-> "down"]
      BY <1>1, <2>1, <2>2, DestroyEffect DEF Sound
    <3> QED  BY <1>1, <2>1, <2>2, <3>1 DEF Half
  <2>3. ASSUME NEW p \in Process, Mkfs(p)
        PROVE  Half'
    <3>1. MkfsOpen(p) \/ DebugRun(p)
      BY <2>1, <2>3
         DEF Mkfs, AllDown, MkfsCreateMeta, MkfsCreateData, CreateFamily,
             MkfsPut, MkfsFlush, MkfsExit
    <3>2. CASE MkfsOpen(p)
      BY <1>1, <3>2 DEF MkfsOpen, Half, OpensWith, store
    <3>3. CASE DebugRun(p)
      BY <2>2, <3>3 DEF DebugRun, Outcome
    <3> QED  BY <3>1, <3>2, <3>3
  <2>4. ASSUME NEW p \in Process, Server(p)
        PROVE  Half'
    <3>1. Mount(p)
      BY <2>1, <2>4
         DEF Server, AllDown, Commit, Mounted, FlushFs, FlushFsReturn,
             UmountFlush, UmountDelete
    <3>2. ~MountChecks  BY <1>1 DEF Half, Formatted, MountChecks
    <3>3. CASE Destroy(p, "mount_null")
      BY <2>2, <3>1, <3>3 DEF Mount, Outcome
    <3>4. CASE UNCHANGED <<phase, db>>
      BY <1>1, <3>1, <3>4 DEF Mount, Half
    <3> QED  BY <3>1, <3>2, <3>3, <3>4 DEF Mount
  <2>5. CASE UNCHANGED vars  BY <1>1, <2>5 DEF Half, vars
  <2> QED
    BY <1>1, <2>1, <2>3, <2>4, <2>5 DEF Next, Crash, AllDown
<1>2. Sound /\ [Next]_vars => [Half => Half']_vars  BY <1>1
<1> QED  BY <1>2, LifecycleInvariant, PTL DEF Spec, HalfFormatFinal
----------------------------------------------------------------------------
\* The end of a process keeps the types, whoever else has the volume open: the
\* next database is one of those that could be left.
LEMMA EndTyped ==
    ASSUME TypeOK, NEW p \in Process, NEW result \in Outcome,
           Ends(p, result, recoverable) \/ Destroy(p, result),
           UNCHANGED families, acked' \in 0..MaxCommit, reported' \in BOOLEAN
    PROVE  TypeOK'
<1>1. PICK survivors \in SUBSET recoverable : Ends(p, result, survivors)
  BY DEF Destroy, Flushed, TypeOK
<1>2. db' \in recoverable /\ recoverable' = {db'}
  BY <1>1 DEF Ends
<1>3. /\ phase' \in [Process -> Phase] /\ last' \in [Process -> Outcome]
      /\ cancelled' \subseteq Process
  BY <1>1 DEF Ends, TypeOK, Phase
<1> QED  BY <1>2, <1>3 DEF TypeOK

\* A step inside of a process's phases that keeps the current database among
\* those that may be left.
LEMMA StepTyped ==
    ASSUME TypeOK, NEW p \in Process, NEW to \in Phase, NEW result \in Outcome,
           phase' = [phase EXCEPT ![p] = to] \/ UNCHANGED phase,
           last' = [last EXCEPT ![p] = result] \/ UNCHANGED last,
           cancelled' \subseteq Process, families' \subseteq Family,
           db' \in Database, recoverable' \subseteq recoverable \cup {db'},
           db' \in recoverable', acked' \in 0..MaxCommit, UNCHANGED reported
    PROVE  TypeOK'
BY DEF TypeOK

\* A flush, whether or not it fails, leaves the current database among those
\* that may be left.
LEMMA FlushedTyped ==
    ASSUME TypeOK
    PROVE  \A left \in Flushed : left \subseteq recoverable /\ db \in left
BY DEF TypeOK, Flushed

\* mkfs.vn keeps the types, also next to other processes.
LEMMA MkfsTyped ==
    ASSUME TypeOK, NEW p \in Process, Mkfs(p)
    PROVE  TypeOK'
<1> USE DEF Phase, Outcome
<1>0. /\ db \in Database /\ db \in recoverable /\ cancelled \subseteq Process
      /\ families \subseteq Family /\ acked \in 0..MaxCommit /\ reported \in BOOLEAN
  BY DEF TypeOK
<1>1. CASE MkfsOpen(p)
  BY <1>0, <1>1, StepTyped DEF MkfsOpen, Goes, store
<1>2. ASSUME NEW at, NEW f \in Family, NEW to \in Phase, CreateFamily(p, at, f, to)
      PROVE  TypeOK'
  <2>1. CASE CreateFails(p)
    BY <1>0, <2>1, EndTyped DEF CreateFails
  <2>2. CASE ~CreateFails(p)
    BY <1>0, <1>2, <2>2, StepTyped DEF CreateFamily, Goes
  <2> QED  BY <2>1, <2>2
<1>3. CASE MkfsPut(p)
  <2>1. CASE Ends(p, "format_failed", recoverable)
    BY <1>0, <1>3, <2>1, EndTyped DEF MkfsPut
  <2>2. CASE ~Ends(p, "format_failed", recoverable)
    <3>1. db' \in Database
      BY <1>0, <1>3, <2>2 DEF MkfsPut, Database
    <3> QED  BY <1>0, <1>3, <2>2, <3>1, StepTyped DEF MkfsPut, Goes
  <2> QED  BY <2>1, <2>2
<1>4. CASE MkfsFlush(p)
  BY <1>0, <1>4, StepTyped, FlushedTyped DEF MkfsFlush, Goes
<1>5. CASE MkfsExit(p)
  BY <1>0, <1>5, EndTyped DEF MkfsExit
<1>6. CASE DebugRun(p)
  BY <1>0, <1>6, EndTyped DEF DebugRun
<1> QED  BY <1>1, <1>2, <1>3, <1>4, <1>5, <1>6
            DEF Mkfs, MkfsCreateMeta, MkfsCreateData, Family

\* A server keeps the types, also next to other processes.
LEMMA ServerTyped ==
    ASSUME TypeOK, NEW p \in Process, Server(p)
    PROVE  TypeOK'
<1> USE DEF Phase, Outcome
<1>0. /\ db \in Database /\ db \in recoverable /\ cancelled \subseteq Process
      /\ families \subseteq Family /\ acked \in 0..MaxCommit /\ reported \in BOOLEAN
  BY DEF TypeOK
<1>1. CASE Mount(p)
  <2>1. CASE Destroy(p, "mount_null")
    BY <1>0, <1>1, <2>1, EndTyped DEF Mount
  <2>2. CASE ~Destroy(p, "mount_null")
    BY <1>0, <1>1, <2>2, StepTyped DEF Mount
  <2> QED  BY <2>1, <2>2
<1>2. ASSUME NEW sync \in BOOLEAN, Commit(p, sync)
      PROVE  TypeOK'
  <2>1. db' \in Database /\ db'.n \in 0..MaxCommit
    BY <1>0, <1>2, ConstantsAssumption DEF Commit, Database
  <2>2. recoverable' \subseteq recoverable \cup {db'} /\ db' \in recoverable'
    BY <1>2 DEF Commit
  <2>3. acked' \in 0..MaxCommit
    BY <1>0, <1>2, <2>1 DEF Commit
  <2> QED  BY <1>0, <1>2, <2>1, <2>2, <2>3, StepTyped DEF Commit
<1>n. db.n \in 0..MaxCommit
  BY <1>0 DEF Database
<1>3. CASE FlushFs(p)
  BY <1>0, <1>3, <1>n, StepTyped DEF FlushFs, Goes
<1>4. CASE FlushFsReturn(p)
  BY <1>0, <1>4, StepTyped DEF FlushFsReturn, store
<1>5. CASE UmountFlush(p)
  <2>1. recoverable' \subseteq recoverable /\ db \in recoverable'
    BY <1>0, <1>5, FlushedTyped DEF UmountFlush
  <2> QED  BY <1>0, <1>5, <2>1, StepTyped DEF UmountFlush
<1>6. CASE UmountDelete(p)
  BY <1>0, <1>6, <1>n, EndTyped DEF UmountDelete
<1> QED  BY <1>1, <1>2, <1>3, <1>4, <1>5, <1>6 DEF Server

\* Type correctness, and that the database in use is always one of those that
\* the death of a process may leave, even if several processes open it at once.
THEOREM TypeCorrect == Spec => []TypeOK
<1>1. Init => TypeOK
  BY SoundInit DEF Sound
<1>2. ASSUME TypeOK, [Next]_vars PROVE TypeOK'
  <2>1. ASSUME NEW p \in Process, Crash(p) PROVE TypeOK'
    BY <1>2, <2>1, EndTyped DEF Crash, Outcome, TypeOK
  <2>2. CASE UNCHANGED vars
    BY <1>2, <2>2 DEF TypeOK, vars
  <2> QED  BY <1>2, <2>1, <2>2, MkfsTyped, ServerTyped DEF Next
<1> QED  BY <1>1, <1>2, PTL DEF Spec
=============================================================================
