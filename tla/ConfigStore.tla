---------------------------- MODULE ConfigStore ----------------------------
(***************************************************************************)
(* The configuration of dns-box and the way it is made durable:            *)
(* internal/config/config.go (the Config guarded by mu, its Add and Remove *)
(* operations, SaveConfig, LoadConfig) and internal/github/client.go       *)
(* (SaveFile).                                                             *)
(*                                                                         *)
(* A caller is a goroutine that ends in SaveConfig: an HTTP handler that   *)
(* first applies the lines of its request, or run() when it shuts down,    *)
(* which has no lines.  SaveConfig is taken apart at every call that can   *)
(* fail, that a crash can separate from the next one, or that another      *)
(* caller can get in between.                                              *)
(***************************************************************************)
EXTENDS Naturals, FiniteSets

CONSTANTS
  Entry,       \* one value of one list of ipset, rules or blocklist.urls
  Backed,      \* the entries that belong in the GitHub copy (HostsConfig)
  Static,      \* values of the server, dns and github_backup sections
  BackupOn,    \* those of them with github_backup.enabled
  Caller,      \* goroutines that call SaveConfig
  NoCaller,    \* mu is free
  Unreadable,  \* a file that is missing, empty, torn or not JSON
  None,        \* no such file, on disk or on GitHub; no finalConfig
  MaxLines,    \* bound: lines of one request
  MaxFaults    \* bound: crashes, power cuts, operator edits and damages

ASSUME StoreAssumption ==
  /\ Backed \subseteq Entry
  /\ BackupOn \subseteq Static
  /\ NoCaller \notin Caller
  /\ MaxLines \in Nat /\ MaxFaults \in Nat

(***************************************************************************)
(* dyn is the part that the API changes (IPSet, Rules, BlockList), static  *)
(* the part that SaveConfig takes over from the file on disk.              *)
(***************************************************************************)
Content == [dyn : SUBSET Entry, static : Static]

ASSUME FileAssumption ==
  /\ \A c \in Content : c # Unreadable /\ c # None
  /\ \A c \in Content \cup {Unreadable}, b \in BOOLEAN :
       [data |-> c, synced |-> b] # None
  /\ \A S \in SUBSET Backed : S # None

VARIABLES
  up,         \* the process runs
  mem,        \* the Config in memory
  lock,       \* the holder of mu
  pc,         \* where each caller is
  touched,    \* the entries a caller's request has added or removed so far
  final,      \* finalConfig of the caller that holds mu, if it has built it
  tmp,        \* config.json.tmp
  path,       \* config.json, as the running system sees it
  survivors,  \* what config.json may be after a power cut
  snap,       \* hostsConfig of each caller
  seen,       \* the file each caller's GetContents returned (its blob SHA)
  remote,     \* hosts_config.json on GitHub
  \* history, read by no guard of the code
  unsaved,    \* entries of requests answered 500 since the last rename
  committed,  \* what of each renamed file belongs in the GitHub copy
  damaged,    \* config.json was damaged from outside and a power cut may find it so
  edit,       \* static sections of the last operator edit
  raced,      \* that edit fell into a running save, or the file was damaged
  failed,     \* a save has failed since the last moment without requests
  faults      \* number of faults so far

store == <<mem, tmp, path, survivors>>
local == <<lock, pc, touched, final, snap, seen>>
ghost == <<unsaved, committed, damaged, edit, raced, failed, faults>>
vars  == <<up, store, local, remote, ghost>>

Saving == {"read", "create", "encode", "sync", "rename"}
Locked == Saving \cup {"unlock"}
Phase  == {"idle", "lines"} \cup Locked \cup {"get", "put", "ok", "err"}

TypeOK ==
  /\ up \in BOOLEAN
  /\ mem \in Content /\ final \in {None} \cup Content
  /\ lock \in Caller \cup {NoCaller}
  /\ pc \in [Caller -> Phase]
  /\ touched \in [Caller -> SUBSET Entry]
  /\ tmp \in {None} \cup [data : Content \cup {Unreadable}, synced : BOOLEAN]
  /\ path \in Content \cup {Unreadable}
  /\ survivors \in SUBSET (Content \cup {Unreadable})
  /\ snap \in [Caller -> SUBSET Backed]
  /\ seen \in [Caller -> {None} \cup SUBSET Backed]
  /\ remote \in {None} \cup SUBSET Backed
  /\ unsaved \in SUBSET Entry
  /\ committed \in SUBSET SUBSET Backed
  /\ damaged \in BOOLEAN /\ raced \in BOOLEAN /\ failed \in BOOLEAN
  /\ edit \in Static
  /\ faults \in Nat

Init ==
  \E c \in Content :
    /\ up = TRUE /\ mem = c /\ final = None /\ path = c /\ survivors = {c}
    /\ edit = c.static
    /\ tmp = None
    /\ lock = NoCaller
    /\ pc = [p \in Caller |-> "idle"]
    /\ touched = [p \in Caller |-> {}]
    /\ snap = [p \in Caller |-> {}]
    /\ seen = [p \in Caller |-> None]
    /\ remote \in {None, c.dyn \cap Backed}
    /\ committed = {c.dyn \cap Backed}
    /\ unsaved = {} /\ damaged = FALSE /\ raced = FALSE
    /\ failed = FALSE /\ faults = 0

-----------------------------------------------------------------------------
(* The lines of a request.  Every mutator locks mu for its own duration.   *)

Goto(p, from, to) ==
  /\ up
  /\ pc[p] = from
  /\ pc' = [pc EXCEPT ![p] = to]

Begin(p) ==
  /\ Goto(p, "idle", "lines")
  /\ failed' = (failed /\ \E q \in Caller : pc[q] # "idle")
  /\ UNCHANGED <<up, store, lock, touched, final, snap, seen, remote,
                 unsaved, committed, damaged, edit, raced, faults>>

Line(p, e) ==
  /\ up /\ pc[p] = "lines" /\ lock = NoCaller
  /\ Cardinality(touched[p] \cup {e}) <= MaxLines
  /\ touched' = [touched EXCEPT ![p] = @ \cup {e}]
  /\ UNCHANGED <<up, tmp, path, survivors, lock, pc, final, snap, seen,
                 remote, ghost>>

\* AddDomain, AddSuffix, AddBlockListURL, AddDomainToList, AddSuffixToList,
\* AddCIDRToNetList: append unless present.
AddEntry(p, e) ==
  /\ Line(p, e)
  /\ mem' = [mem EXCEPT !.dyn = @ \cup {e}]

\* RemoveDomain and its companions: every occurrence goes.
RemoveEntry(p, e) ==
  /\ Line(p, e)
  /\ mem' = [mem EXCEPT !.dyn = @ \ {e}]

-----------------------------------------------------------------------------
(* SaveConfig up to the rename, under mu.                                  *)

\* Variant: a save that finds another one under way leaves the work to it.
AcquireOrSkip(p) ==
  \/ /\ Goto(p, "lines", "read")
     /\ lock = NoCaller /\ lock' = p
     /\ UNCHANGED <<up, store, touched, final, snap, seen, remote, ghost>>
  \/ /\ Goto(p, "lines", "ok")
     /\ lock # NoCaller
     /\ UNCHANGED <<up, store, lock, touched, final, snap, seen, remote, ghost>>

Acquire(p) ==
  /\ Goto(p, "lines", "read")
  /\ lock = NoCaller /\ lock' = p
  /\ UNCHANGED <<up, store, touched, final, snap, seen, remote, ghost>>

\* Variant: the file on disk is not consulted.
StaticInMemory == mem.static

\* Variant: a file that does not decode has empty static sections.
StaticOrEmpty == IF path = Unreadable THEN None ELSE path.static

\* The static sections come from the file when it decodes, otherwise from
\* memory; either way the rest comes from memory.
StaticOnDisk == IF path = Unreadable THEN mem.static ELSE path.static

ReadStatic(p) ==
  /\ Goto(p, "read", "create")
  /\ final' = [dyn |-> mem.dyn, static |-> StaticOnDisk]
  /\ UNCHANGED <<up, store, lock, touched, snap, seen, remote, ghost>>

\* Variant: config.json is truncated and written in place.
CreateInPlace(p) ==
  /\ Goto(p, "create", "encode")
  /\ path' = Unreadable /\ survivors' = survivors \cup {Unreadable}
  /\ tmp' = [data |-> Unreadable, synced |-> FALSE]
  /\ UNCHANGED <<up, mem, lock, touched, final, snap, seen, remote, ghost>>

CreateTmp(p) ==
  /\ Goto(p, "create", "encode")
  /\ tmp' = [data |-> Unreadable, synced |-> FALSE]
  /\ UNCHANGED <<up, mem, path, survivors, lock, touched, final, snap, seen,
                 remote, ghost>>

EncodeTmp(p) ==
  /\ Goto(p, "encode", "sync")
  /\ tmp' = [data |-> final, synced |-> FALSE]
  /\ UNCHANGED <<up, mem, path, survivors, lock, touched, final, snap, seen,
                 remote, ghost>>

\* Variant: no fsync before the rename.
SkipSync(p) ==
  /\ Goto(p, "sync", "rename")
  /\ UNCHANGED <<up, store, lock, touched, final, snap, seen, remote, ghost>>

SyncTmp(p) ==
  /\ Goto(p, "sync", "rename")
  /\ tmp' = [tmp EXCEPT !.synced = TRUE]
  /\ UNCHANGED <<up, mem, path, survivors, lock, touched, final, snap, seen,
                 remote, ghost>>

\* What a power cut finds of a file that has been renamed into place: the
\* directory is never fsynced, so the earlier file may come back, and data
\* that was not fsynced may be lost.
AfterCut(t) == IF t.synced THEN t.data ELSE Unreadable

RenameTmp(p) ==
  /\ Goto(p, "rename", "unlock")
  /\ path' = tmp.data
  /\ survivors' = survivors \cup {AfterCut(tmp)}
  /\ tmp' = None
  /\ unsaved' = {}
  /\ committed' = committed \cup {final.dyn \cap Backed}
  /\ UNCHANGED <<up, mem, lock, touched, final, snap, seen, remote,
                 damaged, edit, raced, failed, faults>>

\* Variant: a failure on disk is logged and the GitHub copy made all the same.
AbortIgnored(p) ==
  /\ up /\ pc[p] \in Saving
  /\ pc' = [pc EXCEPT ![p] = "unlock"]
  /\ tmp' = IF pc[p] \in {"read", "create"} THEN tmp ELSE None
  /\ unsaved' = unsaved \cup touched[p]
  /\ failed' = TRUE
  /\ UNCHANGED <<up, mem, path, survivors, lock, touched, final, snap, seen,
                 remote, committed, damaged, edit, raced, faults>>

\* Variant: an error return that forgets to unlock.
AbortLocked(p) ==
  /\ up /\ pc[p] \in Saving
  /\ pc' = [pc EXCEPT ![p] = "err"]
  /\ tmp' = IF pc[p] \in {"read", "create"} THEN tmp ELSE None
  /\ final' = None
  /\ unsaved' = unsaved \cup touched[p]
  /\ failed' = TRUE
  /\ UNCHANGED <<up, mem, path, survivors, lock, touched, snap, seen, remote,
                 committed, damaged, edit, raced, faults>>

\* The error returns: a failed open or create leaves the disk alone, a later
\* failure removes the temporary file; all of them unlock.
Abort(p) ==
  /\ up /\ pc[p] \in Saving
  /\ pc' = [pc EXCEPT ![p] = "err"]
  /\ lock' = NoCaller
  /\ tmp' = IF pc[p] \in {"read", "create"} THEN tmp ELSE None
  /\ final' = None
  /\ unsaved' = unsaved \cup touched[p]
  /\ failed' = TRUE
  /\ UNCHANGED <<up, mem, path, survivors, touched, snap, seen, remote,
                 committed, damaged, edit, raced, faults>>

\* The GitHub copy is taken before mu is released; whether there is one is
\* decided by the configuration in memory.
Unlock(p) ==
  /\ Goto(p, "unlock", IF mem.static \in BackupOn THEN "get" ELSE "ok")
  /\ lock' = NoCaller
  /\ final' = None
  /\ snap' = [snap EXCEPT ![p] = mem.dyn \cap Backed]
  /\ UNCHANGED <<up, store, touched, seen, remote, ghost>>

-----------------------------------------------------------------------------
(* SaveFile, without mu.  GitHub names a file version by the hash of its    *)
(* content, so a version is its content.  GetContents may fail for any      *)
(* reason; SaveFile then tries to create the file.                          *)

GetContents(p) ==
  /\ Goto(p, "get", "put")
  /\ \E f \in {remote, None} : seen' = [seen EXCEPT ![p] = f]
  /\ UNCHANGED <<up, store, lock, touched, final, snap, remote, ghost>>

\* GitHub updates a file only over the version the caller has read, and
\* creates one only where there is none.
Accepts(p) == seen[p] = remote

PutSucceeds(p) ==
  /\ Goto(p, "put", "ok")
  /\ Accepts(p)
  /\ remote' = snap[p]
  /\ UNCHANGED <<up, store, lock, touched, final, snap, seen, ghost>>

\* Variant: a save that GitHub does not take is tried again.
PutRetries(p) ==
  /\ Goto(p, "put", "get")
  /\ failed' = TRUE
  /\ UNCHANGED <<up, store, lock, touched, final, snap, seen, remote,
                 unsaved, committed, damaged, edit, raced, faults>>

\* Refused, not sent, or applied with the answer lost (a timeout).
PutFails(p) ==
  /\ Goto(p, "put", "err")
  /\ \/ UNCHANGED remote
     \/ Accepts(p) /\ remote' = snap[p]
  /\ failed' = TRUE
  /\ UNCHANGED <<up, store, lock, touched, final, snap, seen,
                 unsaved, committed, damaged, edit, raced, faults>>

\* The handler answers "ok" or 500 and ends.
Finish(p) ==
  /\ up /\ pc[p] \in {"ok", "err"}
  /\ pc' = [pc EXCEPT ![p] = "idle"]
  /\ touched' = [touched EXCEPT ![p] = {}]
  /\ snap' = [snap EXCEPT ![p] = {}]
  /\ seen' = [seen EXCEPT ![p] = None]
  /\ UNCHANGED <<up, store, lock, final, remote, ghost>>

-----------------------------------------------------------------------------
(* Faults and the outside world.                                           *)

Fault == faults < MaxFaults /\ faults' = faults + 1

\* The memory of the process is gone; files are not.
Die ==
  /\ up /\ up' = FALSE
  /\ lock' = NoCaller
  /\ pc' = [p \in Caller |-> "idle"]
  /\ touched' = [p \in Caller |-> {}]
  /\ snap' = [p \in Caller |-> {}]
  /\ seen' = [p \in Caller |-> None]
  /\ unsaved' = {}
  /\ final' = None
  /\ UNCHANGED <<mem, remote, committed, edit, raced, failed>>

Crash ==
  /\ Fault /\ Die
  /\ UNCHANGED <<tmp, path, survivors, damaged>>

PowerCut ==
  /\ Fault /\ Die
  /\ path' \in survivors
  /\ survivors' = {path'}
  /\ tmp' \in {tmp, None}
  /\ damaged' = (damaged /\ path' = Unreadable)

\* run: LoadConfig, which fails on a file it cannot decode.
Restart ==
  /\ ~up /\ path # Unreadable
  /\ up' = TRUE
  /\ mem' = path
  /\ UNCHANGED <<tmp, path, survivors, local, remote, ghost>>

\* The kernel writes the directory back.
FlushDir ==
  /\ survivors # {path}
  /\ survivors' = {path}
  /\ damaged' = (damaged /\ path = Unreadable)
  /\ UNCHANGED <<up, mem, tmp, path, local, remote, unsaved, committed, edit,
                 raced, failed, faults>>

\* A save has read the static sections and not yet renamed its file.
InWindow == \E p \in Caller : pc[p] \in Saving \ {"read"}

\* An operator edits the static sections of config.json.
EditStatic(s) ==
  /\ Fault
  /\ path # Unreadable
  /\ path' = [path EXCEPT !.static = s]
  /\ survivors' = {path'}
  /\ edit' = s
  /\ raced' = InWindow
  /\ damaged' = FALSE
  /\ UNCHANGED <<up, mem, tmp, local, remote, unsaved, committed, failed>>

\* config.json is lost or overwritten with something that is not JSON.
Damage ==
  /\ Fault
  /\ path' = Unreadable
  /\ survivors' = {Unreadable}
  /\ damaged' = TRUE /\ raced' = TRUE
  /\ UNCHANGED <<up, mem, tmp, local, remote, unsaved, committed, edit,
                 failed>>

-----------------------------------------------------------------------------
Request(p) ==
  \/ Begin(p)
  \/ \E e \in Entry : AddEntry(p, e) \/ RemoveEntry(p, e)

Save(p) ==
  \/ ReadStatic(p) \/ CreateTmp(p) \/ EncodeTmp(p) \/ SyncTmp(p)
  \/ RenameTmp(p) \/ Abort(p) \/ Unlock(p)
  \/ GetContents(p) \/ PutSucceeds(p) \/ PutFails(p) \/ Finish(p)

Environment ==
  \/ Crash \/ PowerCut \/ Restart \/ FlushDir \/ Damage
  \/ \E s \in Static : EditStatic(s)

Next ==
  \/ \E p \in Caller : Request(p) \/ Acquire(p) \/ Save(p)
  \/ Environment

Spec == Init /\ [][Next]_vars

(***************************************************************************)
(* A goroutine that has work to do is run, a file operation returns, and   *)
(* an HTTP exchange ends within its ten seconds; sync.RWMutex hands the    *)
(* lock over to a writer that has waited long enough, hence the strong     *)
(* fairness.  Nothing obliges a client to send a request or a fault to     *)
(* happen.                                                                 *)
(***************************************************************************)
Fairness == \A p \in Caller : WF_vars(Save(p)) /\ SF_vars(Acquire(p))

FairSpec == Spec /\ Fairness

-----------------------------------------------------------------------------
(* Properties.                                                             *)

\* config.json is always a complete configuration, whatever save is under
\* way, and so is everything a power cut may leave in its place: the promise
\* of the comment on the atomic write in SaveConfig.
ConfigFileLoadable ==
  ~damaged => path \in Content /\ survivors \subseteq Content

\* The callers whose changes are in memory and still on their way to disk.
Pending == {p \in Caller : pc[p] \in {"lines"} \cup Saving}

Differ(A, B) == (A \ B) \cup (B \ A)

\* Memory and config.json disagree on an entry only while a request that
\* changed this very entry has still to rename its file, or after such a
\* request was answered 500: an answered "ok" is on disk, whatever the other
\* callers did in between.
UnsavedAccounted ==
  up /\ path # Unreadable =>
    Differ(mem.dyn, path.dyn) \subseteq
      unsaved \cup UNION {touched[p] : p \in Pending}

\* An operator's edit of the server, dns or github_backup section of the file
\* outlives every later save of the running process, unless it was made while
\* a save was between reading those sections and renaming its file.
EditsSurvive == ~raced /\ path # Unreadable => path.static = edit

\* mu is held by the caller that is between Lock and Unlock of SaveConfig, and
\* by nobody else: every error return releases it, no two saves are inside
\* together, and a process that has stopped leaves no lock behind.  It is what
\* RequestsAnswered rests on.
MuHeldInside ==
  /\ \A p \in Caller : lock = p <=> pc[p] \in Locked
  /\ lock # NoCaller => up

\* The GitHub copy is always the copy of some configuration that was in
\* config.json: a save that failed on disk never reaches GitHub, and no copy
\* mixes the changes of two saves.
BackupIsSavedVersion == remote \in {None} \cup committed

\* When a save is answered "ok", no other request is running, and none of
\* those it overlapped with has failed, the GitHub copy is the copy of
\* config.json.  README.md promises it of every change made through the API.
BackupCurrent ==
  [][\A p \in Caller :
       /\ pc[p] = "put" /\ pc'[p] = "ok"
       /\ \A q \in Caller \ {p} : pc[q] = "idle"
       /\ ~failed /\ path # Unreadable
       => remote' = path.dyn \cap Backed]_vars

\* For its readers and across restarts the file behaves as if every save were
\* one step: AtomicConfig, with the memory and the files as they are.
Atomic == INSTANCE AtomicConfig
            WITH running <- up, live <- mem, stored <- path,
                 fallback <- survivors

ImplementsAtomic == Atomic!Spec

\* Every request is answered or dies with the process: no error return of
\* SaveConfig keeps mu, and no caller is passed over for ever.
RequestsAnswered == \A p \in Caller : pc[p] # "idle" ~> pc[p] = "idle"
=============================================================================
