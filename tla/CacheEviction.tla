----------------------------- MODULE CacheEviction -----------------------------
(***************************************************************************)
(* save_ir's write and the evict_lru that follows it.  Processes share the *)
(* directory of .lir files; each save creates or truncates a file, writes  *)
(* it, then brings the directory under LIRIEN_CACHE_MAX_MB by removing the *)
(* oldest files.  Nothing is locked between listing, stat and removal, so  *)
(* saves and evictions of other processes come between any two of them.    *)
(* The write is one step: save_ir holds the exclusive flock around it.  It *)
(* may stop half-way, and so may an eviction; these faults are actions of  *)
(* their own.                                                              *)
(***************************************************************************)
EXTENDS Integers, FiniteSets

CONSTANTS
  Proc,      \* processes
  File,      \* .lir file names
  Sizes,     \* sizes of serialized payloads
  MaxBytes,  \* LIRIEN_CACHE_MAX_MB
  MaxClock   \* bound on the file system's clock

ASSUME EvictionAssumption ==
  Sizes \subseteq Nat /\ MaxBytes \in Nat /\ MaxClock \in Nat

VARIABLES
  dir,     \* the files that exist: name to [size, mtime, holders]
  clock,   \* what the file system stamps
  pc,      \* where a process is in save_ir and evict_lru
  own,     \* the file a process saves, or NoFile
  unseen,  \* names read_dir returned that have no metadata yet
  infos,   \* file_infos still to be looked at: name to [size, mtime]
  need,    \* overshoot - evicted
  debt,    \* history: bytes were written and their eviction did not, or not
           \* wholly, take place; the next one makes up for it
  alone    \* history: a process during whose save no other one did anything
           \* and no call failed

vars == <<dir, clock, pc, own, unseen, infos, need, debt, alone>>

Exists(f) == f \in DOMAIN dir

Drop(files, f) == [g \in DOMAIN files \ {f} |-> files[g]]

Put(files, f, e) ==
  [g \in DOMAIN files \cup {f} |-> IF g = f THEN e ELSE files[g]]

(* The bytes of the files, and how many they are.                          *)
BytesOf(files) == UNION {{f} \X (1 .. files[f].size) : f \in DOMAIN files}
TotalSize(files) == Cardinality(BytesOf(files))

NoFiles == [f \in {} |-> 0]
NoFile == "none"

Goto(p, from, to) == pc[p] = from /\ pc' = [pc EXCEPT ![p] = to]
Return(p) == own' = [own EXCEPT ![p] = NoFile]
-----------------------------------------------------------------------------
Init ==
  /\ dir = NoFiles
  /\ clock = 0
  /\ pc = [p \in Proc |-> "idle"]
  /\ own = [p \in Proc |-> NoFile]
  /\ unseen = [p \in Proc |-> {}]
  /\ infos = [p \in Proc |-> NoFiles]
  /\ need = [p \in Proc |-> 0]
  /\ debt = FALSE
  /\ alone = {}

(* Two stamps may be equal: the clock of the file system is coarse.        *)
Tick == clock' \in {clock, clock + 1} /\ clock' <= MaxClock

(* open(create, write, truncate).  holders are the processes whose handle  *)
(* is this file and not a removed one of the same name.                    *)
Open(p, f) ==
  /\ Goto(p, "idle", "opened")
  /\ own' = [own EXCEPT ![p] = f]
  /\ Tick
  /\ dir' = Put(dir, f, [size |-> 0, mtime |-> clock',
                         holders |-> {p} \cup IF Exists(f) THEN dir[f].holders ELSE {}])
  /\ UNCHANGED <<unseen, infos, need, debt>>

(* write_all at offset 0: a longer payload that another process wrote      *)
(* after the truncation keeps its tail.  A removed file takes the bytes    *)
(* with it.                                                                *)
Write(p, n) ==
  LET f == own[p]
      held == Exists(f) /\ p \in dir[f].holders
  IN /\ Goto(p, "opened", "written")
     /\ IF held THEN /\ Tick
                     /\ dir' = Put(dir, f, [size |-> IF n > dir[f].size THEN n
                                                     ELSE dir[f].size,
                                            mtime |-> clock',
                                            holders |-> dir[f].holders \ {p}])
        ELSE UNCHANGED <<dir, clock>>
     /\ UNCHANGED <<own, unseen, infos, need, debt>>

(* The lock fails, or the write before its first byte: save_ir returns     *)
(* without an eviction.                                                    *)
SaveError(p) ==
  /\ Goto(p, "opened", "idle")
  /\ Return(p)
  /\ dir' = [f \in DOMAIN dir |-> [dir[f] EXCEPT !.holders = @ \ {p}]]
  /\ UNCHANGED <<clock, unseen, infos, need, debt>>

(* read_dir.                                                               *)
List_Others(p) ==   \* mutant: the file just saved is not counted
  /\ Goto(p, "written", "stat")
  /\ unseen' = [unseen EXCEPT ![p] = DOMAIN dir \ {own[p]}]
  /\ infos' = [infos EXCEPT ![p] = NoFiles]
  /\ debt' = FALSE
  /\ UNCHANGED <<dir, clock, own, need>>

List(p) ==
  /\ Goto(p, "written", "stat")
  /\ unseen' = [unseen EXCEPT ![p] = DOMAIN dir]
  /\ infos' = [infos EXCEPT ![p] = NoFiles]
  /\ debt' = FALSE
  /\ UNCHANGED <<dir, clock, own, need>>

(* entry.metadata() of one file; an error skips it, when the file is gone. *)
Stat(p) ==
  /\ pc[p] = "stat"
  /\ \E f \in unseen[p] :
       /\ unseen' = [unseen EXCEPT ![p] = @ \ {f}]
       /\ infos' = IF Exists(f)
                   THEN [infos EXCEPT ![p] = Put(@, f,
                          [size |-> dir[f].size, mtime |-> dir[f].mtime])]
                   ELSE infos
  /\ UNCHANGED <<dir, clock, pc, own, need, debt>>

(* total_size, and overshoot when it is over the limit.                    *)
Overshoot_All(files) == TotalSize(files)   \* mutant: the limit is not subtracted
Overshoot(files) == TotalSize(files) - MaxBytes

Sum(p) ==
  /\ Goto(p, "stat", "remove")
  /\ unseen[p] = {}
  /\ need' = [need EXCEPT ![p] =
                IF TotalSize(infos[p]) <= MaxBytes THEN 0 ELSE Overshoot(infos[p])]
  /\ UNCHANGED <<dir, clock, own, unseen, infos, debt>>

(* The next of file_infos in the order of the sort.                        *)
IsNext_Newest(files, f) ==   \* mutant: sorted the other way round
  \A g \in DOMAIN files : files[g].mtime <= files[f].mtime
IsNext(files, f) == \A g \in DOMAIN files : files[f].mtime <= files[g].mtime

(* fs::remove_file by path, whatever the name refers to by now; only a     *)
(* removal that succeeds counts.                                           *)
Remove(p) ==
  /\ pc[p] = "remove"
  /\ need[p] > 0
  /\ \E f \in DOMAIN infos[p] :
       /\ IsNext(infos[p], f)
       /\ infos' = [infos EXCEPT ![p] = Drop(@, f)]
       /\ dir' = Drop(dir, f)
       /\ need' = IF Exists(f) THEN [need EXCEPT ![p] = @ - infos[p][f].size]
                  ELSE need
  /\ UNCHANGED <<clock, pc, own, unseen, debt>>

Done(p) ==
  /\ Goto(p, "remove", "idle")
  /\ need[p] <= 0 \/ DOMAIN infos[p] = {}
  /\ Return(p)
  /\ infos' = [infos EXCEPT ![p] = NoFiles]
  /\ need' = [need EXCEPT ![p] = 0]
  /\ UNCHANGED <<dir, clock, unseen, debt>>

(* invalidate, or load_ir on a stale file.                                 *)
Invalidate(p, f) ==
  /\ pc[p] = "idle" /\ Exists(f)
  /\ dir' = Drop(dir, f)
  /\ UNCHANGED <<clock, pc, own, unseen, infos, need, debt>>

(* The process dies between two calls; its successor starts idle.          *)
Crash(p) ==
  /\ pc[p] # "idle"
  /\ pc' = [pc EXCEPT ![p] = "idle"]
  /\ Return(p)
  /\ dir' = [f \in DOMAIN dir |-> [dir[f] EXCEPT !.holders = @ \ {p}]]
  /\ unseen' = [unseen EXCEPT ![p] = {}]
  /\ infos' = [infos EXCEPT ![p] = NoFiles]
  /\ need' = [need EXCEPT ![p] = 0]
  /\ debt' = (debt \/ pc[p] # "opened")
  /\ UNCHANGED clock

(* write_all fails, or the process dies in it, after k of n bytes.  What is *)
(* written stays, and no eviction follows.                                 *)
PartialWrite(p, n, k) ==
  LET f == own[p]
  IN /\ Goto(p, "opened", "idle")
     /\ Return(p)
     /\ Exists(f) /\ p \in dir[f].holders
     /\ Tick
     /\ dir' = Put(dir, f, [size |-> IF k > dir[f].size THEN k ELSE dir[f].size,
                            mtime |-> clock',
                            holders |-> dir[f].holders \ {p}])
     /\ UNCHANGED <<unseen, infos, need>>

(* read_dir fails: no eviction.                                            *)
ListError(p) ==
  /\ Goto(p, "written", "idle")
  /\ Return(p)
  /\ UNCHANGED <<dir, clock, unseen, infos, need>>

(* remove_file fails for a file that is there; the next one goes instead.  *)
RemoveError(p) ==
  /\ pc[p] = "remove"
  /\ need[p] > 0
  /\ \E f \in DOMAIN infos[p] :
       /\ IsNext(infos[p], f)
       /\ infos' = [infos EXCEPT ![p] = Drop(@, f)]
  /\ UNCHANGED <<dir, clock, pc, own, unseen, need>>

(* A call of p that fails, after which the limit is not seen to.           *)
Fault(p) ==
  /\ \/ \E n \in Sizes : \E k \in 1 .. n - 1 : PartialWrite(p, n, k)
     \/ ListError(p) \/ RemoveError(p)
  /\ debt' = TRUE

(* One step of p in save_ir, evict_lru or invalidate.                       *)
Step(p) ==
  \/ \E f \in File : Open(p, f) \/ Invalidate(p, f)
  \/ \E n \in Sizes : Write(p, n)
  \/ SaveError(p) \/ List(p) \/ Stat(p) \/ Sum(p) \/ Remove(p) \/ Done(p)
  \/ Crash(p)

Next ==
  \E p \in Proc :
    \/ /\ Step(p)
       /\ alone' = IF pc[p] = "idle" THEN IF pc'[p] = "opened" THEN {p} ELSE {}
                   ELSE alone \cap {p}
    \/ Fault(p) /\ alone' = {}

Spec == Init /\ [][Next]_vars
-----------------------------------------------------------------------------
Evicting == {"written", "stat", "remove"}

(* However saves and evictions of several processes interleave, and        *)
(* although files grow, go and come back between their listing, their stat *)
(* and their removal: once no save is in its eviction, and none has died   *)
(* or failed over its write or its eviction since the directory was last   *)
(* listed, the files are within the limit.  A save that stops half-way     *)
(* leaves its bytes above the limit until the next one (cache.rs:433).     *)
WithinLimit ==
  (~debt /\ \A p \in Proc : pc[p] \notin Evicting) => TotalSize(dir) <= MaxBytes

Removes(p, f) ==
  p \in alone \cap alone' /\ pc[p] = "remove" /\ Exists(f) /\ ~(Exists(f))'

(* A process that is alone with the directory from its save on evicts only *)
(* while there is too much in it.                                          *)
NoNeedlessEviction ==
  [][\A p \in Proc, f \in File : Removes(p, f) => TotalSize(dir) > MaxBytes]_vars

(* A process that is alone with the directory keeps the file it has just   *)
(* saved, unless that file and those stamped with the same time are too    *)
(* large by themselves.                                                    *)
NewestKept ==
  [][\A p \in Proc, f \in File : f = own[p] /\ Removes(p, f) =>
       LET as_new == {g \in DOMAIN dir : dir[g].mtime >= dir[f].mtime}
       IN TotalSize([g \in as_new |-> dir[g]]) > MaxBytes]_vars
=============================================================================
