------------------------- MODULE ConfigStore_proofs -------------------------
(***************************************************************************)
(* Proofs of the safety properties of ConfigStore for every set of         *)
(* entries, static sections and callers, any length of a request and any   *)
(* number of faults.                                                       *)
(*                                                                         *)
(* None of the properties is inductive: that a rename stores a whole and   *)
(* current configuration depends on what the holder of mu has done in the  *)
(* steps before.  Core says it: mu is held exactly by the caller inside    *)
(* the save, and each phase of the save knows what finalConfig and the     *)
(* temporary file are.                                                     *)
(***************************************************************************)
EXTENDS ConfigStore, TLAPS

Built == {"create", "encode", "sync", "rename", "unlock"}

\* mu is held by the caller that is between Lock and Unlock, and nobody is
\* anywhere when the process does not run.
LockInv ==
  \A p \in Caller :
    /\ pc[p] \in Locked <=> lock = p
    /\ ~up => pc[p] = "idle"

\* What the holder of mu may rely on.
SaveInv ==
  \A p \in Caller :
    /\ pc[p] \in Built => final \in Content /\ final.dyn = mem.dyn
    /\ pc[p] \in {"encode", "sync", "rename"} => tmp # None
    /\ pc[p] \in {"sync", "rename"} => tmp.data = final
    /\ pc[p] = "rename" => tmp.synced

Core == TypeOK /\ LockInv /\ SaveInv

-----------------------------------------------------------------------------
\* The callers' local state when nothing runs: after a start and a stop.
LEMMA InitIdle ==
  ASSUME Init
  PROVE  /\ up = TRUE /\ final = None /\ tmp = None /\ lock = NoCaller
         /\ unsaved = {} /\ damaged = FALSE /\ raced = FALSE
         /\ failed = FALSE /\ faults = 0
         /\ pc \in [Caller -> Phase]
         /\ touched \in [Caller -> SUBSET Entry]
         /\ snap \in [Caller -> SUBSET Backed]
         /\ seen \in [Caller -> {None} \cup SUBSET Backed]
<1>1. /\ pc = [p \in Caller |-> "idle"]
      /\ touched = [p \in Caller |-> {}]
      /\ snap = [p \in Caller |-> {}]
      /\ seen = [p \in Caller |-> None]
  BY DEF Init
<1>2. pc \in [Caller -> Phase]
  BY <1>1 DEF Phase
<1>3. touched \in [Caller -> SUBSET Entry]
  BY <1>1
<1>4. snap \in [Caller -> SUBSET Backed]
  BY <1>1
<1>5. seen \in [Caller -> {None} \cup SUBSET Backed]
  BY <1>1
<1>6. /\ up = TRUE /\ final = None /\ tmp = None /\ lock = NoCaller
      /\ unsaved = {} /\ damaged = FALSE /\ raced = FALSE
      /\ failed = FALSE /\ faults = 0
  BY DEF Init
<1> QED BY <1>2, <1>3, <1>4, <1>5, <1>6

LEMMA DieIdle ==
  ASSUME Die
  PROVE  /\ up' = FALSE /\ lock' = NoCaller /\ unsaved' = {} /\ final' = None
         /\ UNCHANGED <<mem, remote, committed, edit, raced, failed>>
         /\ pc' \in [Caller -> Phase]
         /\ touched' \in [Caller -> SUBSET Entry]
         /\ snap' \in [Caller -> SUBSET Backed]
         /\ seen' \in [Caller -> {None} \cup SUBSET Backed]
<1>1. pc' \in [Caller -> Phase]
  BY DEF Die, Phase
<1>2. touched' \in [Caller -> SUBSET Entry]
  BY DEF Die
<1>3. snap' \in [Caller -> SUBSET Backed]
  BY DEF Die
<1>4. seen' \in [Caller -> {None} \cup SUBSET Backed]
  BY DEF Die
<1>5. /\ up' = FALSE /\ lock' = NoCaller /\ unsaved' = {} /\ final' = None
      /\ UNCHANGED <<mem, remote, committed, edit, raced, failed>>
  BY DEF Die
<1> QED BY <1>1, <1>2, <1>3, <1>4, <1>5

\* The initial states.
LEMMA CoreInit == Init => Core
<1> SUFFICES ASSUME NEW c \in Content, Init,
                    mem = c, path = c, survivors = {c}, edit = c.static,
                    remote \in {None, c.dyn \cap Backed},
                    committed = {c.dyn \cap Backed}
             PROVE  Core
  BY DEF Init
<1>1. TypeOK
  <2>1. c.dyn \cap Backed \in SUBSET Backed /\ c.static \in Static
    BY DEF Content
  <2> QED BY <2>1, InitIdle DEF TypeOK
<1>2. LockInv /\ SaveInv
  BY StoreAssumption DEF Init, LockInv, SaveInv, Locked, Saving, Built
<1> QED BY <1>1, <1>2 DEF Core

\* A record of the temporary file has its fields.
LEMMA TmpType ==
  ASSUME TypeOK, tmp # None
  PROVE  /\ tmp \in [data : Content \cup {Unreadable}, synced : BOOLEAN]
         /\ tmp.data \in Content \cup {Unreadable}
  BY DEF TypeOK

\* Every step keeps the types.
LEMMA TypeStep == Core /\ [Next]_vars => TypeOK'
<1> SUFFICES ASSUME TypeOK, LockInv, SaveInv, [Next]_vars PROVE TypeOK'
  BY DEF Core
<1> USE StoreAssumption DEF Phase, Locked, Saving, Content
<1>1. ASSUME NEW p \in Caller, Request(p) PROVE TypeOK'
  <2>1. CASE Begin(p)
    BY <2>1 DEF Begin, Goto, TypeOK, store, ghost
  <2>2. CASE \E e \in Entry : AddEntry(p, e) \/ RemoveEntry(p, e)
    BY <2>2 DEF AddEntry, RemoveEntry, Line, TypeOK, ghost
  <2> QED BY <1>1, <2>1, <2>2 DEF Request
<1>2. ASSUME NEW p \in Caller, Acquire(p) PROVE TypeOK'
  BY <1>2 DEF Acquire, Goto, TypeOK, store, ghost
<1>3. ASSUME NEW p \in Caller, Save(p) PROVE TypeOK'
  <2>1. CASE ReadStatic(p)
    BY <2>1 DEF ReadStatic, StaticOnDisk, Goto, TypeOK, store, ghost
  <2>2. CASE CreateTmp(p)
    BY <2>2 DEF CreateTmp, Goto, TypeOK, ghost
  <2>3. CASE EncodeTmp(p)
    BY <2>3 DEF EncodeTmp, Goto, TypeOK, ghost, SaveInv, Built
  <2>4. CASE SyncTmp(p)
    <3>1. tmp # None
      BY <2>4 DEF SyncTmp, Goto, SaveInv
    <3>2. tmp' \in [data : Content \cup {Unreadable}, synced : BOOLEAN]
      BY <2>4, <3>1, TmpType DEF SyncTmp
    <3> QED BY <2>4, <3>2 DEF SyncTmp, Goto, TypeOK, ghost
  <2>5. CASE RenameTmp(p)
    <3>1. tmp # None
      BY <2>5 DEF RenameTmp, Goto, SaveInv
    <3>2. final \in Content
      BY <2>5 DEF RenameTmp, Goto, SaveInv, Built
    <3>3. path' \in Content \cup {Unreadable} /\ tmp' = None /\ unsaved' = {}
      BY <2>5, <3>1, TmpType DEF RenameTmp
    <3>4. AfterCut(tmp) \in Content \cup {Unreadable}
      BY <3>1, TmpType DEF AfterCut
    <3>5. survivors' \in SUBSET (Content \cup {Unreadable})
      BY <2>5, <3>4 DEF RenameTmp, TypeOK
    <3>6. committed' \in SUBSET SUBSET Backed
      BY <2>5, <3>2 DEF RenameTmp, TypeOK
    <3>7. pc' \in [Caller -> Phase]
      BY <2>5 DEF RenameTmp, Goto, TypeOK
    <3>8. UNCHANGED <<up, mem, lock, touched, final, snap, seen, remote,
                      damaged, edit, raced, failed, faults>>
      BY <2>5 DEF RenameTmp
    <3> HIDE DEF Phase, Content
    <3> QED BY <3>3, <3>5, <3>6, <3>7, <3>8 DEF TypeOK
  <2>6. CASE Abort(p)
    BY <2>6 DEF Abort, TypeOK
  <2>7. CASE Unlock(p)
    BY <2>7 DEF Unlock, Goto, TypeOK, store, ghost
  <2>8. CASE GetContents(p)
    BY <2>8 DEF GetContents, Goto, TypeOK, store, ghost
  <2>9. CASE PutSucceeds(p) \/ PutFails(p)
    <3>1. /\ remote' \in {remote, snap[p]} /\ failed' \in {failed, TRUE}
          /\ \E to \in {"ok", "err"} : Goto(p, "put", to)
          /\ UNCHANGED <<up, store, lock, touched, final, snap, seen,
                         unsaved, committed, damaged, edit, raced, faults>>
      BY <2>9 DEF PutSucceeds, PutFails, ghost
    <3>2. pc' \in [Caller -> Phase]
      BY <3>1 DEF Goto, TypeOK, Phase
    <3>3. remote' \in {None} \cup SUBSET Backed
      BY <3>1 DEF TypeOK
    <3>4. failed' \in BOOLEAN
      BY <3>1 DEF TypeOK
    <3> QED BY <3>1, <3>2, <3>3, <3>4 DEF TypeOK, store
  <2>10. CASE Finish(p)
    BY <2>10 DEF Finish, TypeOK, store, ghost
  <2> QED BY <1>3, <2>1, <2>2, <2>3, <2>4, <2>5, <2>6, <2>7, <2>8, <2>9,
             <2>10 DEF Save
<1>4. CASE Environment
  <2>1. CASE Crash
    <3>1. Die /\ UNCHANGED <<tmp, path, survivors, damaged>>
      BY <2>1 DEF Crash
    <3>2. faults' \in Nat
      BY <2>1 DEF Crash, Fault, TypeOK
    <3> QED BY <3>1, <3>2, DieIdle DEF TypeOK
  <2>2. CASE PowerCut
    <3>1. Die /\ tmp' \in {tmp, None} /\ survivors' = {path'}
      BY <2>2 DEF PowerCut
    <3>2. damaged' \in BOOLEAN
      BY <2>2 DEF PowerCut, TypeOK
    <3>3. path' \in Content \cup {Unreadable}
      BY <2>2 DEF PowerCut, TypeOK
    <3>4. faults' \in Nat
      BY <2>2 DEF PowerCut, Fault, TypeOK
    <3> QED BY <3>1, <3>2, <3>3, <3>4, DieIdle DEF TypeOK
  <2>3. CASE Restart
    BY <2>3 DEF Restart, TypeOK, local, ghost
  <2>4. CASE FlushDir
    BY <2>4 DEF FlushDir, TypeOK, local
  <2>5. CASE Damage
    BY <2>5 DEF Damage, Fault, TypeOK, local
  <2>6. ASSUME NEW s \in Static, EditStatic(s) PROVE TypeOK'
    <3>1. raced' \in BOOLEAN
      BY <2>6, Zenon DEF EditStatic, InWindow
    <3>2. path \in Content /\ path' \in Content
      BY <2>6 DEF EditStatic, TypeOK
    <3>3. /\ survivors' = {path'} /\ edit' = s /\ damaged' = FALSE
          /\ UNCHANGED <<up, mem, tmp, local, remote, unsaved, committed,
                         failed>>
      BY <2>6 DEF EditStatic
    <3>4. faults' \in Nat
      BY <2>6 DEF EditStatic, Fault, TypeOK
    <3>5. survivors' \in SUBSET (Content \cup {Unreadable})
      BY <3>2, <3>3
    <3>6. path' \in Content \cup {Unreadable} /\ edit' \in Static /\ damaged' \in BOOLEAN
      BY <3>2, <3>3
    <3>7. UNCHANGED <<up, mem, final, lock, pc, touched, tmp, snap, seen, remote,
                      unsaved, committed, failed>>
      BY <3>3 DEF local
    <3> HIDE DEF Phase, Content
    <3> QED BY <3>1, <3>4, <3>5, <3>6, <3>7 DEF TypeOK
  <2> QED BY <1>4, <2>1, <2>2, <2>3, <2>4, <2>5, <2>6 DEF Environment
<1>5. CASE UNCHANGED vars
  BY <1>5 DEF TypeOK, vars, store, local, ghost
<1> QED BY <1>1, <1>2, <1>3, <1>4, <1>5 DEF Next

-----------------------------------------------------------------------------
\* Every step keeps mu with the caller inside the save.
LEMMA LockStep == Core /\ [Next]_vars => LockInv'
<1> SUFFICES ASSUME TypeOK, LockInv, [Next]_vars PROVE LockInv'
  BY DEF Core
<1> USE StoreAssumption DEF Locked, Saving
<1>1. ASSUME NEW p \in Caller, Request(p) PROVE LockInv'
  BY <1>1 DEF Request, Begin, AddEntry, RemoveEntry, Line, Goto, LockInv, TypeOK
<1>2. ASSUME NEW p \in Caller, Acquire(p) PROVE LockInv'
  BY <1>2 DEF Acquire, Goto, LockInv, TypeOK
<1>3. ASSUME NEW p \in Caller, Save(p) PROVE LockInv'
  <2>1. CASE ReadStatic(p) \/ CreateTmp(p) \/ EncodeTmp(p) \/ SyncTmp(p)
    BY <2>1 DEF ReadStatic, CreateTmp, EncodeTmp, SyncTmp, Goto, LockInv,
                TypeOK
  <2>2. CASE RenameTmp(p)
    BY <2>2 DEF RenameTmp, Goto, LockInv, TypeOK
  <2>3. CASE Abort(p)
    BY <2>3 DEF Abort, LockInv, TypeOK
  <2>4. CASE Unlock(p)
    BY <2>4 DEF Unlock, Goto, LockInv, TypeOK
  <2>5. CASE GetContents(p)
    BY <2>5 DEF GetContents, Goto, LockInv, TypeOK
  <2>6. CASE PutSucceeds(p) \/ PutFails(p)
    BY <2>6 DEF PutSucceeds, PutFails, Goto, LockInv, TypeOK
  <2>7. CASE Finish(p)
    BY <2>7 DEF Finish, LockInv, TypeOK
  <2> QED BY <1>3, <2>1, <2>2, <2>3, <2>4, <2>5, <2>6, <2>7 DEF Save
<1>4. CASE Environment
  <2>1. CASE Crash \/ PowerCut
    BY <2>1 DEF Crash, PowerCut, Die, LockInv
  <2>2. CASE \/ Restart \/ FlushDir \/ Damage
             \/ \E s \in Static : EditStatic(s)
    BY <2>2 DEF Restart, FlushDir, Damage, EditStatic, local, LockInv
  <2> QED BY <1>4, <2>1, <2>2 DEF Environment
<1>5. CASE UNCHANGED vars
  BY <1>5 DEF vars, local, LockInv
<1> QED BY <1>1, <1>2, <1>3, <1>4, <1>5 DEF Next

\* What a step of one caller leaves alone cannot disturb another that holds
\* mu: only the holder writes mem, finalConfig or the temporary file.
LEMMA SaveStep == Core /\ [Next]_vars => SaveInv'
<1> SUFFICES ASSUME TypeOK, LockInv, SaveInv, [Next]_vars PROVE SaveInv'
  BY DEF Core
<1> USE StoreAssumption DEF Locked, Saving, Built
<1>1. ASSUME NEW p \in Caller, Request(p) PROVE SaveInv'
  <2>1. CASE Begin(p)
    BY <2>1 DEF Begin, Goto, store, SaveInv, TypeOK
  <2>2. CASE \E e \in Entry : AddEntry(p, e) \/ RemoveEntry(p, e)
    <3>1. \A q \in Caller : pc'[q] = pc[q] /\ pc[q] \notin Locked
      BY <2>2 DEF AddEntry, RemoveEntry, Line, LockInv
    <3> QED BY <3>1 DEF SaveInv
  <2> QED BY <1>1, <2>1, <2>2 DEF Request
<1>2. ASSUME NEW p \in Caller, Acquire(p) PROVE SaveInv'
  BY <1>2 DEF Acquire, Goto, store, SaveInv, TypeOK
<1>3. ASSUME NEW p \in Caller, Save(p) PROVE SaveInv'
  <2>1. ASSUME pc[p] \in Locked
        PROVE  \A q \in Caller \ {p} : pc[q] \notin Locked
    BY <2>1 DEF LockInv
  <2>2. CASE ReadStatic(p)
    <3>1. final' \in Content /\ final'.dyn = mem.dyn
      BY <2>2 DEF ReadStatic, StaticOnDisk, TypeOK, Content
    <3> QED BY <2>1, <2>2, <3>1 DEF ReadStatic, Goto, store, SaveInv, TypeOK
  <2>3. CASE CreateTmp(p)
    <3>1. tmp' # None
      BY <2>3, FileAssumption DEF CreateTmp
    <3> QED BY <2>1, <2>3, <3>1 DEF CreateTmp, Goto, SaveInv, TypeOK
  <2>4. CASE EncodeTmp(p)
    <3>1. final \in Content
      BY <2>4 DEF EncodeTmp, Goto, SaveInv
    <3>2. tmp' # None /\ tmp'.data = final
      BY <2>4, <3>1, FileAssumption DEF EncodeTmp
    <3> QED BY <2>1, <2>4, <3>2 DEF EncodeTmp, Goto, SaveInv, TypeOK
  <2>5. CASE SyncTmp(p)
    <3>1. tmp # None /\ tmp.data = final
      BY <2>5 DEF SyncTmp, Goto, SaveInv
    <3>2. /\ tmp.data \in Content \cup {Unreadable}
          /\ tmp' = [data |-> tmp.data, synced |-> TRUE]
      BY <2>5, <3>1, TmpType DEF SyncTmp
    <3>3. tmp' # None /\ tmp'.data = final /\ tmp'.synced
      BY <3>1, <3>2, FileAssumption
    <3> QED BY <2>1, <2>5, <3>3 DEF SyncTmp, Goto, SaveInv, TypeOK
  <2>6. CASE RenameTmp(p)
    BY <2>1, <2>6 DEF RenameTmp, Goto, SaveInv, TypeOK
  <2>7. CASE Abort(p)
    BY <2>1, <2>7 DEF Abort, SaveInv, TypeOK
  <2>8. CASE Unlock(p)
    BY <2>1, <2>8 DEF Unlock, Goto, SaveInv, TypeOK
  <2>9. CASE GetContents(p)
    BY <2>9 DEF GetContents, Goto, store, SaveInv, TypeOK
  <2>10. CASE PutSucceeds(p) \/ PutFails(p)
    BY <2>10 DEF PutSucceeds, PutFails, Goto, store, SaveInv, TypeOK
  <2>11. CASE Finish(p)
    BY <2>11 DEF Finish, store, SaveInv, TypeOK
  <2> QED BY <1>3, <2>2, <2>3, <2>4, <2>5, <2>6, <2>7, <2>8, <2>9, <2>10,
             <2>11 DEF Save
<1>4. CASE Environment
  <2>1. CASE Crash \/ PowerCut
    BY <2>1 DEF Crash, PowerCut, Die, SaveInv
  <2>2. CASE Restart
    <3>1. \A q \in Caller : pc'[q] = pc[q] /\ pc[q] = "idle"
      BY <2>2 DEF Restart, local, LockInv
    <3> QED BY <3>1 DEF SaveInv
  <2>3. CASE FlushDir \/ Damage \/ \E s \in Static : EditStatic(s)
    BY <2>3 DEF FlushDir, Damage, EditStatic, local, SaveInv
  <2> QED BY <1>4, <2>1, <2>2, <2>3 DEF Environment
<1>5. CASE UNCHANGED vars
  BY <1>5 DEF vars, store, local, SaveInv
<1> QED BY <1>1, <1>2, <1>3, <1>4, <1>5 DEF Next

\* The types, the lock and the phases of the save, in every reachable state.
THEOREM CoreInvariant == Spec => []Core
<1>1. Core /\ [Next]_vars => Core'
  BY TypeStep, LockStep, SaveStep DEF Core
<1> QED BY CoreInit, <1>1, PTL DEF Spec

\* Every variable of the configuration store keeps its type.
THEOREM TypeCorrect == Spec => []TypeOK
<1>1. Core => TypeOK
  BY DEF Core
<1> QED BY CoreInvariant, <1>1, PTL

\* mu is free whenever no caller is inside the save.
THEOREM MuReleased == Spec => []MuHeldInside
<1>1. Core => MuHeldInside
  BY StoreAssumption DEF Core, TypeOK, LockInv, MuHeldInside, Locked, Saving
<1> QED BY CoreInvariant, <1>1, PTL

-----------------------------------------------------------------------------
(* The steps that write config.json or what a power cut may find there.    *)

\* The rename stores finalConfig, whole, synced and with the live rules.
LEMMA RenameStores ==
  ASSUME Core, NEW p \in Caller, RenameTmp(p)
  PROVE  /\ final \in Content /\ final.dyn = mem.dyn
         /\ path' = final /\ survivors' = survivors \cup {final}
<1>1. /\ final \in Content /\ final.dyn = mem.dyn
      /\ tmp.data = final /\ tmp.synced
  BY DEF Core, SaveInv, Built, RenameTmp, Goto
<1> QED BY <1>1 DEF RenameTmp, AfterCut

\* Only a rename and the environment write the file.
LEMMA FileSteps ==
  ASSUME [Next]_vars
  PROVE  \/ UNCHANGED <<path, survivors, damaged>>
         \/ \E p \in Caller : RenameTmp(p)
         \/ PowerCut \/ FlushDir \/ Damage \/ \E s \in Static : EditStatic(s)
<1>1. ASSUME NEW p \in Caller, Request(p) \/ Acquire(p)
      PROVE  UNCHANGED <<path, survivors, damaged>>
  BY <1>1 DEF Request, Begin, AddEntry, RemoveEntry, Line, Acquire, store, ghost
<1>2. ASSUME NEW p \in Caller, Save(p), ~RenameTmp(p)
      PROVE  UNCHANGED <<path, survivors, damaged>>
  BY <1>2 DEF Save, ReadStatic, CreateTmp, EncodeTmp, SyncTmp, Abort, Unlock,
     GetContents, PutSucceeds, PutFails, Finish, store, ghost
<1>3. CASE Crash \/ Restart
  BY <1>3 DEF Crash, Restart, ghost
<1>4. CASE UNCHANGED vars
  BY <1>4 DEF vars, store, ghost
<1> QED BY <1>1, <1>2, <1>3, <1>4 DEF Next, Environment

\* config.json and everything a power cut may leave in its place is a whole
\* configuration, whatever the interleaving of saves and faults.
THEOREM Loadable == Spec => []ConfigFileLoadable
<1>1. Init => ConfigFileLoadable
  BY DEF Init, ConfigFileLoadable
<1>2. Core /\ ConfigFileLoadable /\ [Next]_vars => ConfigFileLoadable'
  <2> SUFFICES ASSUME Core, ConfigFileLoadable, [Next]_vars
               PROVE  ConfigFileLoadable'
    OBVIOUS
  <2>1. CASE UNCHANGED <<path, survivors, damaged>>
    BY <2>1 DEF ConfigFileLoadable
  <2>2. ASSUME NEW p \in Caller, RenameTmp(p) PROVE ConfigFileLoadable'
    BY <2>2, RenameStores DEF RenameTmp, ConfigFileLoadable
  <2>3. CASE PowerCut
    BY <2>3 DEF PowerCut, ConfigFileLoadable, Core, TypeOK
  <2>4. CASE FlushDir
    BY <2>4 DEF FlushDir, ConfigFileLoadable, Core, TypeOK
  <2>5. CASE Damage
    BY <2>5 DEF Damage, ConfigFileLoadable
  <2>6. ASSUME NEW s \in Static, EditStatic(s) PROVE ConfigFileLoadable'
    <3>1. path \in Content
      BY <2>6 DEF EditStatic, Core, TypeOK
    <3>2. path' \in Content
      BY <2>6, <3>1 DEF EditStatic, Content
    <3> QED BY <2>6, <3>2 DEF EditStatic, ConfigFileLoadable
  <2> QED BY FileSteps, <2>1, <2>2, <2>3, <2>4, <2>5, <2>6
<1> QED BY CoreInvariant, <1>1, <1>2, PTL DEF Spec

\* Memory and file differ only on entries that a running or a refused request
\* has touched.
THEOREM Accounted == Spec => []UnsavedAccounted
<1>1. Init => UnsavedAccounted
  BY DEF Init, UnsavedAccounted, Differ
<1>2. Core /\ UnsavedAccounted /\ [Next]_vars => UnsavedAccounted'
  <2> SUFFICES ASSUME Core, UnsavedAccounted, [Next]_vars
               PROVE  UnsavedAccounted'
    OBVIOUS
  <2> USE DEF Saving
  <2>t. TypeOK
    BY DEF Core
  <2>1. ASSUME NEW p \in Caller, Request(p) PROVE UnsavedAccounted'
    <3>1. CASE Begin(p)
      BY <2>t, <3>1 DEF Begin, Goto, store, UnsavedAccounted, Pending, TypeOK
    <3>2. ASSUME NEW e \in Entry, AddEntry(p, e) \/ RemoveEntry(p, e)
          PROVE  UnsavedAccounted'
      <4>1. /\ Pending' = Pending /\ p \in Pending
            /\ touched'[p] = touched[p] \cup {e}
            /\ \A q \in Caller \ {p} : touched'[q] = touched[q]
        BY <2>t, <3>2 DEF AddEntry, RemoveEntry, Line, Pending, TypeOK
      <4>2. Differ(mem'.dyn, path.dyn) \subseteq Differ(mem.dyn, path.dyn) \cup {e}
        BY <2>t, <3>2 DEF AddEntry, RemoveEntry, Differ, TypeOK, Content
      <4>3. Pending \subseteq Caller
        BY DEF Pending
      <4>4. e \in touched'[p] /\ \A q \in Pending : touched[q] \subseteq touched'[q]
        BY <4>1, <4>3
      <4>5. UNCHANGED <<up, path, unsaved>>
        BY <3>2 DEF AddEntry, RemoveEntry, Line, ghost
      <4> QED BY <4>1, <4>2, <4>4, <4>5 DEF UnsavedAccounted
    <3> QED BY <2>1, <3>1, <3>2 DEF Request
  <2>2. ASSUME NEW p \in Caller, Acquire(p) PROVE UnsavedAccounted'
    BY <2>t, <2>2 DEF Acquire, Goto, store, ghost, UnsavedAccounted, Pending,
       TypeOK
  <2>3. ASSUME NEW p \in Caller, Save(p) PROVE UnsavedAccounted'
    <3>1. CASE ReadStatic(p) \/ CreateTmp(p) \/ EncodeTmp(p) \/ SyncTmp(p)
      <4>1. Pending' = Pending
        BY <2>t, <3>1 DEF ReadStatic, CreateTmp, EncodeTmp, SyncTmp, Goto,
           Pending, TypeOK
      <4> QED BY <3>1, <4>1 DEF ReadStatic, CreateTmp, EncodeTmp, SyncTmp,
              store, ghost, UnsavedAccounted
    <3>2. CASE RenameTmp(p)
      <4>1. path'.dyn = mem'.dyn
        BY <3>2, RenameStores DEF RenameTmp
      <4> QED BY <4>1 DEF UnsavedAccounted, Differ
    <3>3. CASE Abort(p)
      <4>1. /\ Pending \subseteq Pending' \cup {p} /\ Pending \subseteq Caller
            /\ unsaved' = unsaved \cup touched[p]
            /\ UNCHANGED <<up, mem, path, touched>>
        BY <2>t, <3>3 DEF Abort, Pending, TypeOK
      <4> QED BY <4>1 DEF UnsavedAccounted
    <3>4. CASE \/ Unlock(p) \/ GetContents(p) \/ PutSucceeds(p) \/ PutFails(p)
      <4>1. /\ Pending' = Pending
            /\ UNCHANGED <<up, mem, path, touched, unsaved>>
        BY <2>t, <3>4 DEF Unlock, GetContents, PutSucceeds, PutFails, Goto,
           Pending, TypeOK, store, ghost
      <4> QED BY <4>1 DEF UnsavedAccounted
    <3>5. CASE Finish(p)
      <4>1. /\ Pending' = Pending /\ p \notin Pending
            /\ \A q \in Pending : touched'[q] = touched[q]
            /\ UNCHANGED <<up, mem, path, unsaved>>
        BY <2>t, <3>5 DEF Finish, Pending, TypeOK, store, ghost
      <4> QED BY <4>1 DEF UnsavedAccounted
    <3> QED BY <2>3, <3>1, <3>2, <3>3, <3>4, <3>5 DEF Save
  <2>4. CASE Environment
    <3>1. CASE Crash \/ PowerCut
      BY <3>1 DEF Crash, PowerCut, Die, UnsavedAccounted
    <3>2. CASE Restart \/ Damage
      BY <3>2 DEF Restart, Damage, UnsavedAccounted, Differ
    <3>3. CASE FlushDir
      BY <3>3 DEF FlushDir, local, UnsavedAccounted, Pending
    <3>4. ASSUME NEW s \in Static, EditStatic(s) PROVE UnsavedAccounted'
      <4>1. path'.dyn = path.dyn /\ path # Unreadable
        BY <2>t, <3>4 DEF EditStatic, TypeOK, Content
      <4> QED BY <3>4, <4>1 DEF EditStatic, local, UnsavedAccounted, Pending
    <3> QED BY <2>4, <3>1, <3>2, <3>3, <3>4 DEF Environment
  <2>5. CASE UNCHANGED vars
    BY <2>5 DEF vars, store, local, ghost, UnsavedAccounted, Pending
  <2> QED BY <2>1, <2>2, <2>3, <2>4, <2>5 DEF Next
<1> QED BY CoreInvariant, <1>1, <1>2, PTL DEF Spec

-----------------------------------------------------------------------------
(* The GitHub copy.                                                        *)

\* A caller that talks to GitHub carries a copy of a configuration that was in
\* config.json; and when it is about to take that copy from memory, memory is
\* what has just been stored there.
BackupInv ==
  /\ BackupIsSavedVersion
  /\ \A p \in Caller :
       /\ pc[p] = "unlock" => mem.dyn \cap Backed \in committed
       /\ pc[p] \in {"get", "put"} => snap[p] \in committed

\* Every step keeps it: only RenameTmp and Unlock have something to show.
LEMMA BackupStep == Core /\ BackupInv /\ [Next]_vars => BackupInv'
<1> SUFFICES ASSUME TypeOK, LockInv, SaveInv, BackupInv, [Next]_vars
             PROVE  BackupInv'
  BY DEF Core
<1> USE DEF BackupIsSavedVersion
<1>1. ASSUME NEW p \in Caller, Request(p) PROVE BackupInv'
  <2>1. CASE Begin(p)
    BY <2>1 DEF Begin, Goto, store, BackupInv, TypeOK
  <2>2. CASE \E e \in Entry : AddEntry(p, e) \/ RemoveEntry(p, e)
    <3>1. \A q \in Caller : pc'[q] = pc[q] /\ pc[q] # "unlock"
      BY <2>2, StoreAssumption DEF AddEntry, RemoveEntry, Line, LockInv, Locked
    <3>2. UNCHANGED <<snap, committed>>
      BY <2>2 DEF AddEntry, RemoveEntry, Line, ghost
    <3>3. UNCHANGED remote
      BY <2>2 DEF AddEntry, RemoveEntry, Line, ghost
    <3> QED BY <3>1, <3>2, <3>3 DEF BackupInv
  <2> QED BY <1>1, <2>1, <2>2 DEF Request
<1>2. ASSUME NEW p \in Caller, Acquire(p) PROVE BackupInv'
  BY <1>2 DEF Acquire, Goto, store, ghost, BackupInv, TypeOK
<1>3. ASSUME NEW p \in Caller, Save(p) PROVE BackupInv'
  <2>1. CASE ReadStatic(p) \/ CreateTmp(p) \/ EncodeTmp(p) \/ SyncTmp(p)
    BY <2>1 DEF ReadStatic, CreateTmp, EncodeTmp, SyncTmp, Goto, store, ghost,
                BackupInv, TypeOK
  <2>2. CASE RenameTmp(p)
    <3>1. final.dyn = mem.dyn
      BY <2>2 DEF RenameTmp, Goto, SaveInv, Built
    <3>2. /\ committed' = committed \cup {mem.dyn \cap Backed}
          /\ UNCHANGED <<mem, snap, remote>>
          /\ pc' = [pc EXCEPT ![p] = "unlock"]
      BY <2>2, <3>1 DEF RenameTmp, Goto
    <3> QED BY <3>2 DEF BackupInv, TypeOK
  <2>3. CASE Abort(p)
    BY <2>3 DEF Abort, BackupInv, TypeOK
  <2>4. CASE Unlock(p)
    <3>1. mem.dyn \cap Backed \in committed
      BY <2>4 DEF Unlock, Goto, BackupInv
    <3> QED BY <2>4, <3>1 DEF Unlock, Goto, store, ghost, BackupInv, TypeOK
  <2>5. CASE GetContents(p)
    BY <2>5 DEF GetContents, Goto, store, ghost, BackupInv, TypeOK
  <2>6. CASE PutSucceeds(p) \/ PutFails(p)
    <3>1. snap[p] \in committed /\ remote' \in {remote, snap[p]}
      BY <2>6 DEF PutSucceeds, PutFails, Goto, BackupInv
    <3> QED BY <2>6, <3>1 DEF PutSucceeds, PutFails, Goto, store, ghost,
            BackupInv, TypeOK
  <2>7. CASE Finish(p)
    BY <2>7 DEF Finish, store, ghost, BackupInv, TypeOK
  <2> QED BY <1>3, <2>1, <2>2, <2>3, <2>4, <2>5, <2>6, <2>7 DEF Save
<1>4. CASE Environment
  <2>1. CASE Crash \/ PowerCut
    <3>1. /\ \A q \in Caller : pc'[q] = "idle"
          /\ UNCHANGED <<remote, committed>>
      BY <2>1 DEF Crash, PowerCut, Die
    <3> QED BY <3>1 DEF BackupInv
  <2>2. CASE Restart
    <3>1. \A q \in Caller : pc'[q] = pc[q] /\ pc[q] = "idle"
      BY <2>2 DEF Restart, local, LockInv
    <3> QED BY <2>2, <3>1 DEF Restart, local, ghost, BackupInv
  <2>3. CASE FlushDir \/ Damage \/ \E s \in Static : EditStatic(s)
    BY <2>3 DEF FlushDir, Damage, EditStatic, local, BackupInv
  <2> QED BY <1>4, <2>1, <2>2, <2>3 DEF Environment
<1>5. CASE UNCHANGED vars
  BY <1>5 DEF vars, store, local, ghost, BackupInv
<1> QED BY <1>1, <1>2, <1>3, <1>4, <1>5 DEF Next

\* What is on GitHub was in config.json at some time, for any number of
\* requests whose copies overtake each other or get lost.
THEOREM SavedVersion == Spec => []BackupIsSavedVersion
<1>1. Init => BackupInv
  BY DEF Init, BackupInv, BackupIsSavedVersion
<1>2. BackupInv => BackupIsSavedVersion
  BY DEF BackupInv
<1> QED BY CoreInvariant, BackupStep, <1>1, <1>2, PTL DEF Spec

\* When requests come one at a time, the copy on its way to GitHub is that of
\* config.json: nobody changes the rules in the file meanwhile.
Alone == \A p, q \in Caller : p = q

CopyInv ==
  path # Unreadable =>
    \A p \in Caller :
      /\ pc[p] = "unlock" => path.dyn = mem.dyn
      /\ pc[p] \in {"get", "put"} => snap[p] = path.dyn \cap Backed

LEMMA CopyStep == Alone /\ Core /\ CopyInv /\ [Next]_vars => CopyInv'
<1> SUFFICES ASSUME Alone, Core, CopyInv, [Next]_vars PROVE CopyInv'
  OBVIOUS
<1>t. TypeOK /\ LockInv
  BY DEF Core
<1>1. ASSUME NEW p \in Caller, Request(p) PROVE CopyInv'
  <2>1. \A q \in Caller : pc'[q] \in {"idle", "lines"}
    BY <1>t, <1>1 DEF Request, Begin, AddEntry, RemoveEntry, Line, Goto, TypeOK, Alone
  <2> QED BY <2>1 DEF CopyInv
<1>2. ASSUME NEW p \in Caller, Acquire(p) PROVE CopyInv'
  <2>1. \A q \in Caller : pc'[q] = "read"
    BY <1>t, <1>2 DEF Acquire, Goto, TypeOK, Alone
  <2> QED BY <2>1 DEF CopyInv
<1>3. ASSUME NEW p \in Caller, Save(p) PROVE CopyInv'
  <2>1. CASE RenameTmp(p)
    <3>1. path' = final /\ final.dyn = mem.dyn /\ mem' = mem
      BY <2>1, RenameStores DEF RenameTmp
    <3>2. \A q \in Caller : pc'[q] = "unlock"
      BY <1>t, <2>1 DEF RenameTmp, Goto, TypeOK, Alone
    <3> QED BY <3>1, <3>2 DEF CopyInv
  <2>2. CASE Unlock(p)
    <3>1. /\ path' = path /\ pc[p] = "unlock"
          /\ snap'[p] = mem.dyn \cap Backed
          /\ \A q \in Caller : q = p /\ pc'[q] # "unlock"
      BY <1>t, <2>2 DEF Unlock, Goto, TypeOK, Alone, store
    <3> QED BY <3>1 DEF CopyInv
  <2>3. CASE GetContents(p)
    <3>1. /\ UNCHANGED <<path, snap>> /\ pc[p] = "get"
          /\ \A q \in Caller : q = p /\ pc'[q] = "put"
      BY <1>t, <2>3 DEF GetContents, Goto, TypeOK, Alone, store
    <3> QED BY <3>1 DEF CopyInv
  <2>4. CASE ~(RenameTmp(p) \/ Unlock(p) \/ GetContents(p))
    <3>1. \A q \in Caller : pc'[q] \notin {"unlock", "get", "put"}
      BY <1>t, <1>3, <2>4 DEF Save, ReadStatic, CreateTmp, EncodeTmp, SyncTmp, Abort,
         PutSucceeds, PutFails, Finish, Goto, TypeOK, Alone
    <3> QED BY <3>1 DEF CopyInv
  <2> QED BY <2>1, <2>2, <2>3, <2>4
<1>4. CASE Environment
  <2>1. CASE Crash \/ PowerCut
    <3>1. \A q \in Caller : pc'[q] = "idle"
      BY <2>1 DEF Crash, PowerCut, Die
    <3> QED BY <3>1 DEF CopyInv
  <2>2. CASE Restart
    <3>1. \A q \in Caller : pc'[q] = "idle"
      BY <1>t, <2>2 DEF Restart, local, LockInv
    <3> QED BY <3>1 DEF CopyInv
  <2>3. CASE FlushDir \/ Damage
    BY <2>3 DEF FlushDir, Damage, local, CopyInv
  <2>4. ASSUME NEW s \in Static, EditStatic(s) PROVE CopyInv'
    <3>1. path'.dyn = path.dyn /\ path # Unreadable /\ UNCHANGED <<mem, pc, snap>>
      BY <1>t, <2>4 DEF EditStatic, TypeOK, Content, local
    <3> QED BY <3>1 DEF CopyInv
  <2> QED BY <1>4, <2>1, <2>2, <2>3, <2>4 DEF Environment
<1>5. CASE UNCHANGED vars
  BY <1>5 DEF vars, store, local, CopyInv
<1> QED BY <1>1, <1>2, <1>3, <1>4, <1>5 DEF Next

\* A save that is answered "ok" has then made the GitHub copy that of
\* config.json, through any number of faults: overlapping requests are all
\* that can make it older.
THEOREM CurrentWhenAlone == ASSUME Alone PROVE Spec => BackupCurrent
<1>1. Init => CopyInv
  BY DEF Init, CopyInv
<1>2. Core /\ CopyInv /\ [Next]_vars => CopyInv'
  BY CopyStep
<1>3. Core /\ CopyInv /\ [Next]_vars =>
        [\A p \in Caller :
           /\ pc[p] = "put" /\ pc'[p] = "ok"
           /\ \A q \in Caller \ {p} : pc[q] = "idle"
           /\ ~failed /\ path # Unreadable
           => remote' = path.dyn \cap Backed]_vars
  <2> SUFFICES ASSUME Core, CopyInv, [Next]_vars, NEW p \in Caller,
                      pc[p] = "put", pc'[p] = "ok", path # Unreadable
               PROVE  remote' = path.dyn \cap Backed
    OBVIOUS
  <2>1. snap[p] = path.dyn \cap Backed
    BY DEF CopyInv
  <2>2. PutSucceeds(p)
    <3>1. \A q \in Caller : q = p
      BY DEF Alone
    <3>2. TypeOK
      BY DEF Core
    <3>3. ~ UNCHANGED pc
      OBVIOUS
    <3>4. ~ Request(p) /\ ~ Acquire(p) /\ ~ Finish(p)
      BY <3>2 DEF Request, Begin, AddEntry, RemoveEntry, Line, Acquire, Finish, Goto, TypeOK
    <3>5. ~ ReadStatic(p) /\ ~ CreateTmp(p) /\ ~ EncodeTmp(p) /\ ~ SyncTmp(p)
      BY <3>2 DEF ReadStatic, CreateTmp, EncodeTmp, SyncTmp, Goto, TypeOK
    <3>6. ~ RenameTmp(p) /\ ~ Abort(p) /\ ~ Unlock(p) /\ ~ GetContents(p)
      BY <3>2 DEF RenameTmp, Abort, Unlock, GetContents, Goto, TypeOK
    <3>7. ~ PutFails(p)
      BY <3>2 DEF PutFails, Goto, TypeOK
    <3>8. ~ Environment
      <4>1. ~ Crash /\ ~ PowerCut
        BY DEF Crash, PowerCut, Die
      <4>2. ~ Restart /\ ~ FlushDir /\ ~ Damage /\ \A s \in Static : ~ EditStatic(s)
        BY <3>3 DEF Restart, FlushDir, Damage, EditStatic, local
      <4> QED BY <4>1, <4>2 DEF Environment
    <3> QED BY <3>1, <3>3, <3>4, <3>5, <3>6, <3>7, <3>8 DEF Next, Save, vars, local
  <2> QED BY <2>1, <2>2 DEF PutSucceeds
<1> QED BY CoreInvariant, <1>1, <1>2, <1>3, PTL DEF Spec, BackupCurrent

-----------------------------------------------------------------------------
(* The operator's edits.                                                   *)

\* As long as the last edit did not fall into a save, that edit is all that
\* can be found: in the file, after a power cut, and in a finalConfig that is
\* on its way to the file.
EditInv ==
  ~raced =>
    /\ path \in Content /\ path.static = edit
    /\ \A c \in survivors : c \in Content /\ c.static = edit
    /\ \A p \in Caller : pc[p] \in Saving \ {"read"} => final.static = edit

\* Every step keeps it: ReadStatic takes the edit from the file, RenameTmp
\* puts it back, and EditStatic changes it with no save in between.
LEMMA EditStep == Core /\ EditInv /\ [Next]_vars => EditInv'
<1> SUFFICES ASSUME Core, TypeOK, LockInv, SaveInv, EditInv, [Next]_vars
             PROVE  EditInv'
  BY DEF Core
<1> USE DEF Saving
<1>1. ASSUME NEW p \in Caller, Request(p) PROVE EditInv'
  BY <1>1 DEF Request, Begin, AddEntry, RemoveEntry, Line, Goto, store, ghost,
              EditInv, TypeOK
<1>2. ASSUME NEW p \in Caller, Acquire(p) PROVE EditInv'
  BY <1>2 DEF Acquire, Goto, store, ghost, EditInv, TypeOK
<1>3. ASSUME NEW p \in Caller, Save(p) PROVE EditInv'
  <2>1. ASSUME pc[p] \in Locked
        PROVE  \A q \in Caller \ {p} : pc[q] \notin Locked
    BY <2>1, StoreAssumption DEF LockInv
  <2>2. CASE ReadStatic(p)
    <3>1. ASSUME ~raced PROVE final'.static = edit
      <4>1. path # Unreadable /\ path.static = edit
        BY <3>1, FileAssumption DEF EditInv
      <4> QED BY <2>2, <4>1 DEF ReadStatic, StaticOnDisk
    <3>2. \A q \in Caller \ {p} : pc'[q] \notin Saving
      BY <2>1, <2>2 DEF ReadStatic, Goto, Locked, TypeOK
    <3> QED BY <2>2, <3>1, <3>2 DEF ReadStatic, store, ghost, EditInv
  <2>3. CASE CreateTmp(p) \/ EncodeTmp(p) \/ SyncTmp(p)
    BY <2>3 DEF CreateTmp, EncodeTmp, SyncTmp, Goto, ghost, EditInv, TypeOK
  <2>4. CASE RenameTmp(p)
    <3>1. /\ final \in Content
          /\ path' = final /\ survivors' = survivors \cup {final}
      BY <2>4, RenameStores
    <3>2. ~raced => final.static = edit
      BY <2>4 DEF RenameTmp, Goto, EditInv
    <3>3. UNCHANGED <<raced, edit, final>> /\ pc' = [pc EXCEPT ![p] = "unlock"]
      BY <2>4 DEF RenameTmp, Goto
    <3> QED BY <3>1, <3>2, <3>3 DEF EditInv, TypeOK
  <2>5. CASE Abort(p)
    <3>1. \A q \in Caller : pc'[q] \notin Saving
      BY <2>1, <2>5 DEF Abort, Locked, TypeOK
    <3> QED BY <2>5, <3>1 DEF Abort, EditInv
  <2>6. CASE Unlock(p)
    <3>1. \A q \in Caller : pc'[q] \notin Saving
      BY <2>1, <2>6 DEF Unlock, Goto, Locked, TypeOK
    <3> QED BY <2>6, <3>1 DEF Unlock, store, ghost, EditInv
  <2>7. CASE GetContents(p)
    BY <2>7 DEF GetContents, Goto, store, ghost, EditInv, TypeOK
  <2>8. CASE PutSucceeds(p) \/ PutFails(p)
    BY <2>8 DEF PutSucceeds, PutFails, Goto, store, ghost, EditInv, TypeOK
  <2>9. CASE Finish(p)
    BY <2>9 DEF Finish, store, ghost, EditInv, TypeOK
  <2> QED BY <1>3, <2>2, <2>3, <2>4, <2>5, <2>6, <2>7, <2>8, <2>9 DEF Save
<1>4. CASE Environment
  <2>1. CASE Crash \/ PowerCut
    <3>1. /\ \A q \in Caller : pc'[q] = "idle"
          /\ UNCHANGED <<raced, edit>>
      BY <2>1 DEF Crash, PowerCut, Die
    <3> QED BY <2>1, <3>1 DEF Crash, PowerCut, EditInv
  <2>2. CASE Restart
    BY <2>2 DEF Restart, local, ghost, EditInv
  <2>3. CASE FlushDir
    BY <2>3 DEF FlushDir, local, EditInv
  <2>4. CASE Damage
    BY <2>4 DEF Damage, EditInv
  <2>5. ASSUME NEW s \in Static, EditStatic(s) PROVE EditInv'
    <3>1. path' \in Content /\ path'.static = s
      BY <2>5 DEF EditStatic, TypeOK, Content
    <3>2. ~raced' => \A q \in Caller : pc[q] \notin Saving \ {"read"}
      BY <2>5, Zenon DEF EditStatic, InWindow
    <3>3. survivors' = {path'} /\ edit' = s /\ UNCHANGED <<pc, final>>
      BY <2>5 DEF EditStatic, local
    <3> QED BY <3>1, <3>2, <3>3 DEF EditInv
  <2> QED BY <1>4, <2>1, <2>2, <2>3, <2>4, <2>5 DEF Environment
<1>5. CASE UNCHANGED vars
  BY <1>5 DEF vars, store, local, ghost, EditInv
<1> QED BY <1>1, <1>2, <1>3, <1>4, <1>5 DEF Next

\* An operator's edit outlives any number of saves that do not overlap it.
THEOREM Edits == Spec => []EditsSurvive
<1>1. Init => EditInv
  <2> SUFFICES ASSUME NEW c \in Content, Init,
                      path = c, survivors = {c}, edit = c.static
               PROVE  EditInv
    BY DEF Init
  <2> QED BY DEF Init, EditInv, Saving
<1>2. EditInv => EditsSurvive
  BY DEF EditInv, EditsSurvive
<1> QED BY CoreInvariant, EditStep, <1>1, <1>2, PTL DEF Spec

-----------------------------------------------------------------------------
(* The refinement.                                                         *)

\* A step of the store is a step of the one-step file, or changes nothing of
\* what that specification sees.
LEMMA AtomicStep == Core /\ [Next]_vars => [Atomic!Next]_(Atomic!vars)
<1> SUFFICES ASSUME Core, [Next]_vars
             PROVE  Atomic!Next \/ UNCHANGED Atomic!vars
  OBVIOUS
<1> USE DEF Atomic!vars, store
<1>1. ASSUME NEW p \in Caller, Request(p)
      PROVE  Atomic!Next \/ UNCHANGED Atomic!vars
  <2>1. CASE Begin(p)
    BY <2>1 DEF Begin
  <2>2. ASSUME NEW e \in Entry, AddEntry(p, e) \/ RemoveEntry(p, e)
        PROVE  Atomic!Next
    <3>1. Atomic!Change(e)
      BY <2>2 DEF AddEntry, RemoveEntry, Line, Atomic!Change
    <3> QED BY <3>1 DEF Atomic!Next
  <2> QED BY <1>1, <2>1, <2>2 DEF Request
<1>2. ASSUME NEW p \in Caller, Acquire(p) PROVE UNCHANGED Atomic!vars
  BY <1>2 DEF Acquire
<1>3. ASSUME NEW p \in Caller, Save(p)
      PROVE  Atomic!Next \/ UNCHANGED Atomic!vars
  <2>1. CASE RenameTmp(p)
    <3>1. /\ final \in Content /\ final.dyn = mem.dyn /\ path' = final
          /\ survivors' = survivors \cup {final}
      BY <2>1, RenameStores
    <3>2. up /\ UNCHANGED <<up, mem>>
      BY <2>1 DEF RenameTmp, Goto
    <3>3. final = [dyn |-> mem.dyn, static |-> final.static]
          /\ final.static \in Static
      BY <3>1 DEF Content
    <3>4. Atomic!Commit
      BY <3>1, <3>2, <3>3 DEF Atomic!Commit
    <3> QED BY <3>4 DEF Atomic!Next
  <2>2. CASE ~RenameTmp(p)
    BY <1>3, <2>2 DEF Save, ReadStatic, CreateTmp, EncodeTmp, SyncTmp, Abort,
       Unlock, GetContents, PutSucceeds, PutFails, Finish
  <2> QED BY <2>1, <2>2
<1>4. CASE Environment
  <2>1. CASE Crash \/ PowerCut
    <3>1. Atomic!Stop
      BY <2>1 DEF Crash, PowerCut, Die, Atomic!Stop
    <3> QED BY <3>1 DEF Atomic!Next
  <2>2. CASE Restart
    <3>1. Atomic!Start
      BY <2>2 DEF Restart, Atomic!Start
    <3> QED BY <3>1 DEF Atomic!Next
  <2>3. CASE FlushDir
    <3>1. Atomic!Settle
      BY <2>3 DEF FlushDir, Atomic!Settle
    <3> QED BY <3>1 DEF Atomic!Next
  <2>4. CASE Damage
    <3>1. Atomic!Destroy
      BY <2>4 DEF Damage, Atomic!Destroy
    <3> QED BY <3>1 DEF Atomic!Next
  <2>5. ASSUME NEW s \in Static, EditStatic(s) PROVE Atomic!Next
    <3>1. Atomic!Edit(s)
      BY <2>5 DEF EditStatic, Atomic!Edit
    <3> QED BY <3>1 DEF Atomic!Next
  <2> QED BY <1>4, <2>1, <2>2, <2>3, <2>4, <2>5 DEF Environment
<1>5. CASE UNCHANGED vars
  BY <1>5 DEF vars
<1> QED BY <1>1, <1>2, <1>3, <1>4, <1>5 DEF Next

\* config.json behaves as if every save were one step that stores the live
\* rules whole.
THEOREM Refinement == Spec => ImplementsAtomic
<1>1. Init => Atomic!Init
  <2> SUFFICES ASSUME Init PROVE Atomic!Init
    OBVIOUS
  <2>1. PICK c \in Content : up = TRUE /\ mem = c /\ path = c /\ survivors = {c}
    BY DEF Init
  <2> QED BY <2>1 DEF Atomic!Init, Atomic!Content, Content
<1> QED BY CoreInvariant, <1>1, AtomicStep, PTL
        DEF Spec, ImplementsAtomic, Atomic!Spec
=============================================================================
