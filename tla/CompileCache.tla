---------------------------- MODULE CompileCache ----------------------------
(***************************************************************************)
(* verify_and_compile with its caches: the function registry and the L1    *)
(* native-code cache of each process, and the directory of .lir files that *)
(* processes share.  Calls of one process are serialised by Python's GIL   *)
(* (the bridge never releases it), so a process is in at most one call;    *)
(* calls of different processes interleave at every file operation, take   *)
(* and drop flock locks, fail at any fallible step, and a process may die  *)
(* at any point of a call.                                                 *)
(*                                                                         *)
(* One function stands for the group of a main function and its lambdas.   *)
(* A cache key is the pair of a definition and the verify flag: the        *)
(* 64-bit hash is taken to be injective here; CacheKey examines it.        *)
(***************************************************************************)
EXTENDS FiniteSets

CONSTANTS
  Proc, Name, Source, Contract, NoSig, NoEntry,
  NameOf, Callees, ContractOf, Provable,
  Modes,      \* the values of the verify flag that requests use
  Inode,      \* file-system inodes
  NoInode,    \* no file
  Torn,       \* file content that does not deserialize
  NoPayload   \* no payload, no request

VARIABLES
  registry,   \* GLOBAL_REGISTRY of each process
  bound,      \* the code whose pointer Python last got for each name
  l1,         \* NATIVE_CODE_CACHE of each process
  dir,        \* the cache directory: key to inode
  content,    \* what an inode holds
  pc,         \* where a process is in verify_and_compile
  key,        \* the request it serves
  fd,         \* the file it has open
  bytes,      \* what it read
  ir          \* the IR it loaded or built

vars == <<registry, bound, l1, dir, content, pc, key, fd, bytes, ir>>
inProc == <<registry, bound, l1>>
disk == <<dir, content>>

View == [Name -> Contract \cup {NoSig}]
IR == [src : Source, mode : BOOLEAN, view : View]
Code == [ir : IR, linked : View]
Request == [src : Source, mode : Modes]

(* The .lir file name and the L1 key: the hash of everything in the        *)
(* request, with the verify flag mixed in last.                            *)
KeyOf_NoMode(r) == <<r.src, TRUE>>   \* mutant: the flag is not hashed
KeyOf(r) == <<r.src, r.mode>>
Key == {KeyOf(r) : r \in Request}

Payload == [ir : IR, deps : View]          \* CachedPayload
NativePayload == [code : Code, deps : View] \* NativeCachePayload

ASSUME CacheAssumption ==
  /\ Modes \subseteq BOOLEAN
  /\ NoInode \notin Inode
  /\ Torn \notin Payload
  /\ NoPayload \notin Payload \cup {Torn}
  /\ NoPayload \notin NativePayload \cup IR \cup Request
  /\ NoSig \notin Contract
  /\ NoEntry \notin Code
  /\ NameOf \in [Source -> Name]
  /\ Callees \in [Source -> SUBSET Name]
  /\ ContractOf \in [Source \X BOOLEAN \X View -> Contract]
  /\ Provable \subseteq Source \X View
-----------------------------------------------------------------------------
(* SerializedSignature::from of a registry entry.                          *)
Sig(e) == IF e = NoEntry THEN NoSig
          ELSE ContractOf[<<e.ir.src, e.ir.mode, e.ir.view>>]

Others(s) == Callees[s] \ {NameOf[s]}

(* The signatures p's registry has for the names in ns.                    *)
SigsOf(p, ns) ==
  [n \in Name |-> IF n \in ns THEN Sig(registry[p][n]) ELSE NoSig]

(* collect_dependencies: every Call target that is registered, the         *)
(* function's own name included when an older definition is registered.    *)
Dependencies_None(p, s) == SigsOf(p, {})   \* mutant: nothing recorded
Dependencies(p, s) == SigsOf(p, Callees[s])

(* Each recorded dependency is registered with the same signature; a name  *)
(* that was not registered when the dependencies were collected is not     *)
(* recorded and not looked at.                                             *)
DepsCurrent_ByName(p, deps) ==   \* mutant: presence, not the signature
  \A n \in Name : deps[n] # NoSig => registry[p][n] # NoEntry
DepsCurrent(p, deps) ==
  \A n \in Name : deps[n] # NoSig => Sig(registry[p][n]) = deps[n]

Register(p, e) ==
  registry' = [registry EXCEPT ![p][NameOf[e.ir.src]] = e]

(* Python receives the main function's pointer.                            *)
Return(p, e) == bound' = [bound EXCEPT ![p][NameOf[e.ir.src]] = e]

Goto(p, from, to) == pc[p] = from /\ pc' = [pc EXCEPT ![p] = to]

(* fs::remove_file by path: whatever file the name now refers to.          *)
Unlink(ks) == dir' = [k \in Key |-> IF k \in ks THEN NoInode ELSE dir[k]]

Path(p) == KeyOf(key[p])

(* invalidate and native_cache_invalidate.                                 *)
InvalidateBoth(p) ==
  /\ Unlink({Path(p)})
  /\ l1' = [l1 EXCEPT ![p][Path(p)] = NoPayload]

Finish(p) ==
  /\ key' = [key EXCEPT ![p] = NoPayload]
  /\ fd' = [fd EXCEPT ![p] = NoInode]
  /\ bytes' = [bytes EXCEPT ![p] = NoPayload]
  /\ ir' = [ir EXCEPT ![p] = NoPayload]

Free(i) == /\ \A k \in Key : dir[k] # i
           /\ \A p \in Proc : fd[p] # i

Readers(i) == {p \in Proc : pc[p] = "reading" /\ fd[p] = i}
Writers(i) == {p \in Proc : pc[p] = "writing" /\ fd[p] = i}
-----------------------------------------------------------------------------
Init ==
  /\ registry = [p \in Proc |-> [n \in Name |-> NoEntry]]
  /\ bound = [p \in Proc |-> [n \in Name |-> NoEntry]]
  /\ l1 = [p \in Proc |-> [k \in Key |-> NoPayload]]
  /\ dir = [k \in Key |-> NoInode]
  /\ content = [i \in Inode |-> Torn]
  /\ pc = [p \in Proc |-> "idle"]
  /\ key = [p \in Proc |-> NoPayload]
  /\ fd = [p \in Proc |-> NoInode]
  /\ bytes = [p \in Proc |-> NoPayload]
  /\ ir = [p \in Proc |-> NoPayload]

(* native_cache_lookup finds a payload whose dependencies are current: its *)
(* entries are registered again and the old pointer is returned.           *)
L1Valid_NoDeps(p, k) == l1[p][k] # NoPayload   \* mutant: no recheck
L1Valid(p, k) == l1[p][k] # NoPayload /\ DepsCurrent(p, l1[p][k].deps)

CallHit_NoRegister(p, r) ==   \* mutant: the pointer only
  /\ pc[p] = "idle"
  /\ L1Valid(p, KeyOf(r))
  /\ Return(p, l1[p][KeyOf(r)].code)
  /\ UNCHANGED <<registry, l1, disk, pc, key, fd, bytes, ir>>

CallHit(p, r) ==
  /\ pc[p] = "idle"
  /\ L1Valid(p, KeyOf(r))
  /\ Register(p, l1[p][KeyOf(r)].code)
  /\ Return(p, l1[p][KeyOf(r)].code)
  /\ UNCHANGED <<l1, disk, pc, key, fd, bytes, ir>>

(* No payload, or a stale one, which stays where it is.                    *)
CallMiss(p, r) ==
  /\ Goto(p, "idle", "opening")
  /\ ~L1Valid(p, KeyOf(r))
  /\ key' = [key EXCEPT ![p] = r]
  /\ UNCHANGED <<inProc, disk, fd, bytes, ir>>

(* load_ir: exists() and File::open.                                       *)
OpenForLoad(p) ==
  /\ Goto(p, "opening", "lockShared")
  /\ dir[Path(p)] # NoInode
  /\ fd' = [fd EXCEPT ![p] = dir[Path(p)]]
  /\ UNCHANGED <<inProc, disk, key, bytes, ir>>

(* No file, or it cannot be opened.                                        *)
NoFile(p) ==
  /\ Goto(p, "opening", "building")
  /\ UNCHANGED <<inProc, disk, key, fd, bytes, ir>>

LockShared(p) ==
  /\ Goto(p, "lockShared", "reading")
  /\ Writers(fd[p]) = {}
  /\ UNCHANGED <<inProc, disk, key, fd, bytes, ir>>

(* read_to_end, unlock.                                                    *)
Read_Dropped(p) ==   \* mutant: the buffer is not handed on
  /\ Goto(p, "reading", "loaded")
  /\ UNCHANGED <<inProc, disk, key, fd, bytes, ir>>

Read(p) ==
  /\ Goto(p, "reading", "loaded")
  /\ bytes' = [bytes EXCEPT ![p] = content[fd[p]]]
  /\ UNCHANGED <<inProc, disk, key, fd, ir>>

(* flock or read failed: the file is left alone.                           *)
LoadError(p) ==
  /\ pc[p] \in {"lockShared", "reading"}
  /\ pc' = [pc EXCEPT ![p] = "building"]
  /\ fd' = [fd EXCEPT ![p] = NoInode]
  /\ UNCHANGED <<inProc, disk, key, bytes, ir>>

Usable(p) == bytes[p] # Torn /\ DepsCurrent(p, bytes[p].deps)

LoadHit(p) ==
  /\ Goto(p, "loaded", "compiling")
  /\ Usable(p)
  /\ ir' = [ir EXCEPT ![p] = bytes[p].ir]
  /\ fd' = [fd EXCEPT ![p] = NoInode]
  /\ bytes' = [bytes EXCEPT ![p] = NoPayload]
  /\ UNCHANGED <<inProc, disk, key>>

(* Corrupt or stale: the file of that name is removed.                     *)
LoadReject(p) ==
  /\ Goto(p, "loaded", "building")
  /\ ~Usable(p)
  /\ Unlink({Path(p)})
  /\ fd' = [fd EXCEPT ![p] = NoInode]
  /\ bytes' = [bytes EXCEPT ![p] = NoPayload]
  /\ UNCHANGED <<inProc, content, key, ir>>

(* The source does not parse: an error before anything is invalidated.     *)
ParseError(p) ==
  /\ Goto(p, "building", "idle")
  /\ Finish(p)
  /\ UNCHANGED <<inProc, disk>>

(* transform, or verify (refuted, or the solver timed out), fails.         *)
BuildError(p) ==
  /\ Goto(p, "building", "idle")
  /\ InvalidateBoth(p)
  /\ Finish(p)
  /\ UNCHANGED <<registry, bound, content>>

(* transform and, when asked for, the proof, under the signatures that the *)
(* registry has for the callees now.                                       *)
Build(p) ==
  LET s == key[p].src
      view == SigsOf(p, Others(s))
  IN /\ Goto(p, "building", "saving")
     /\ key[p].mode => <<s, view>> \in Provable
     /\ ir' = [ir EXCEPT ![p] = [src |-> s, mode |-> key[p].mode, view |-> view]]
     /\ UNCHANGED <<inProc, disk, key, fd, bytes>>

(* save_ir: open(create, truncate).  An existing file loses its content    *)
(* here, before any lock is taken.                                         *)
OpenForSave(p) ==
  /\ Goto(p, "saving", "lockExclusive")
  /\ \E i \in Inode :
       /\ IF dir[Path(p)] = NoInode THEN Free(i) ELSE i = dir[Path(p)]
       /\ dir' = [dir EXCEPT ![Path(p)] = i]
       /\ content' = [content EXCEPT ![i] = Torn]
       /\ fd' = [fd EXCEPT ![p] = i]
  /\ UNCHANGED <<inProc, key, bytes, ir>>

LockExclusive_Sole(p) ==   \* mutant: wait until no one else has it open
  /\ Goto(p, "lockExclusive", "writing")
  /\ \A q \in Proc \ {p} : fd[q] # fd[p]
  /\ UNCHANGED <<inProc, disk, key, fd, bytes, ir>>

LockExclusive(p) ==
  /\ Goto(p, "lockExclusive", "writing")
  /\ Readers(fd[p]) \cup Writers(fd[p]) = {}
  /\ UNCHANGED <<inProc, disk, key, fd, bytes, ir>>

Write(p) ==
  /\ Goto(p, "writing", "evicting")
  /\ content' = [content EXCEPT ![fd[p]] =
                   [ir |-> ir[p], deps |-> Dependencies(p, ir[p].src)]]
  /\ fd' = [fd EXCEPT ![p] = NoInode]
  /\ UNCHANGED <<inProc, dir, key, bytes, ir>>

(* What an interrupted write leaves: nothing new, or bytes that no longer  *)
(* deserialize.                                                            *)
PartialWrite(p) ==
  \/ UNCHANGED content
  \/ pc[p] = "writing" /\ content' = [content EXCEPT ![fd[p]] = Torn]

(* The directory, the file, the lock or the write fails: the compilation   *)
(* goes on without a usable file.                                          *)
SaveError(p) ==
  /\ pc[p] \in {"saving", "lockExclusive", "writing"}
  /\ pc' = [pc EXCEPT ![p] = "compiling"]
  /\ PartialWrite(p)
  /\ fd' = [fd EXCEPT ![p] = NoInode]
  /\ UNCHANGED <<inProc, dir, key, bytes, ir>>

(* evict_lru: some files go, by size and age (CacheEviction has both).     *)
Evict(p) ==
  /\ Goto(p, "evicting", "compiling")
  /\ \E ks \in SUBSET Key : Unlink(ks)
  /\ UNCHANGED <<inProc, content, key, fd, bytes, ir>>

(* Cranelift resolves each callee by name in the registry; the function    *)
(* itself resolves to the definition being compiled.                       *)
Linkable_Always(p) == TRUE   \* mutant: a null pointer for a missing callee
Linkable(p) == \A n \in Others(ir[p].src) : registry[p][n] # NoEntry

(* Lowering succeeds: register, fill the L1 cache with the dependencies    *)
(* collected before the registration, return the pointer.                  *)
Compile(p) ==
  LET code == [ir |-> ir[p], linked |-> SigsOf(p, Others(ir[p].src))]
  IN /\ Goto(p, "compiling", "idle")
     /\ Linkable(p)
     /\ Register(p, code)
     /\ Return(p, code)
     /\ l1' = [l1 EXCEPT ![p][Path(p)] =
                 [code |-> code, deps |-> Dependencies(p, ir[p].src)]]
     /\ Finish(p)
     /\ UNCHANGED disk

CompileError(p) ==
  /\ Goto(p, "compiling", "idle")
  /\ InvalidateBoth(p)
  /\ Finish(p)
  /\ UNCHANGED <<registry, bound, content>>

(* An unresolved callee panics inside the JIT: the call unwinds to Python  *)
(* without invalidating anything.                                          *)
LinkPanic(p) ==
  /\ Goto(p, "compiling", "idle")
  /\ ~Linkable(p)
  /\ Finish(p)
  /\ UNCHANGED <<inProc, disk>>

(* The process dies, locks and open files with it; another takes its place.*)
Crash(p) ==
  /\ registry' = [registry EXCEPT ![p] = [n \in Name |-> NoEntry]]
  /\ bound' = [bound EXCEPT ![p] = [n \in Name |-> NoEntry]]
  /\ l1' = [l1 EXCEPT ![p] = [k \in Key |-> NoPayload]]
  /\ pc' = [pc EXCEPT ![p] = "idle"]
  /\ Finish(p)
  /\ PartialWrite(p)
  /\ UNCHANGED dir

Locking(p) == LockShared(p) \/ LockExclusive(p)

IOError(p) == LoadError(p) \/ SaveError(p)

Working(p) ==
  \/ OpenForLoad(p) \/ NoFile(p) \/ Read(p) \/ LoadHit(p) \/ LoadReject(p)
  \/ ParseError(p) \/ BuildError(p) \/ Build(p)
  \/ OpenForSave(p) \/ Write(p) \/ Evict(p)
  \/ Compile(p) \/ CompileError(p) \/ LinkPanic(p)

Next ==
  \E p \in Proc :
    \/ \E r \in Request : CallHit(p, r) \/ CallMiss(p, r)
    \/ Locking(p)
    \/ Working(p)
    \/ IOError(p)
    \/ Crash(p)

Spec == Init /\ [][Next]_vars

(* A process that is in a call keeps running, and a lock that is free      *)
(* again and again is eventually granted (flock wakes its waiters in       *)
(* turn).  Nothing makes Python call, an input or output operation fail,   *)
(* or a process die.                                                       *)
Fairness ==
  \A p \in Proc : WF_vars(Working(p)) /\ SF_vars(Locking(p))

FairSpec == Spec /\ Fairness
-----------------------------------------------------------------------------
Opened == {"lockShared", "reading", "lockExclusive", "writing"}
Built == {"saving", "lockExclusive", "writing", "evicting", "compiling"}

(* Every variable holds values of its kind; a process that locks, reads or *)
(* writes has the file open (save_ir creates it), one that saves or        *)
(* compiles has an IR built from the definition it was asked for.          *)
TypeOK ==
  /\ registry \in [Proc -> [Name -> Code \cup {NoEntry}]]
  /\ bound \in [Proc -> [Name -> Code \cup {NoEntry}]]
  /\ l1 \in [Proc -> [Key -> NativePayload \cup {NoPayload}]]
  /\ dir \in [Key -> Inode \cup {NoInode}]
  /\ content \in [Inode -> Payload \cup {Torn}]
  /\ pc \in [Proc -> Opened \cup Built \cup
                     {"idle", "opening", "loaded", "building"}]
  /\ key \in [Proc -> Request \cup {NoPayload}]
  /\ fd \in [Proc -> Inode \cup {NoInode}]
  /\ bytes \in [Proc -> Payload \cup {Torn, NoPayload}]
  /\ ir \in [Proc -> IR \cup {NoPayload}]
  /\ \A p \in Proc :
       /\ pc[p] # "idle" => key[p] \in Request
       /\ pc[p] \in Opened => fd[p] \in Inode
       /\ pc[p] = "loaded" => bytes[p] # NoPayload
       /\ pc[p] \in Built => ir[p] \in IR

(* All code a process holds, callable by name or kept by the L1 cache.     *)
Held(p) == ({registry[p][n] : n \in Name} \ {NoEntry})
           \cup {l1[p][k].code : k \in {k \in Key : l1[p][k] # NoPayload}}

(* No code calls a function under a contract other than the one its proof  *)
(* used, through whatever mixture of fresh builds, .lir files written by   *)
(* other processes, L1 hits and redefinitions of the callee it came to be: *)
(* load_ir and native_cache_lookup compare the recorded signatures.  A     *)
(* callee that had no signature when the IR was built is excepted.         *)
LinkedAsAssumed ==
  \A p \in Proc : \A e \in Held(p) : \A n \in Others(e.ir.src) :
    e.ir.view[n] \in {NoSig, e.linked[n]}

(* The same without the exception: the proof of a cached function covers   *)
(* the contract of every function it calls.                                *)
ProvedAgainstLinked ==
  \A p \in Proc : \A e \in Held(p) : e.ir.mode =>
    \A n \in Others(e.ir.src) : e.ir.view[n] = e.linked[n]

(* A request with verify=true never ends in code that no proof accepted:   *)
(* verified and unverified compilations of one source share no cache key.  *)
VerifiedIsProved ==
  \A p \in Proc, r \in Request : l1[p][KeyOf(r)] # NoPayload =>
    LET x == l1[p][KeyOf(r)].code.ir
    IN x.src = r.src /\ (r.mode => <<x.src, x.view>> \in Provable)

(* What a file says about itself is true, whichever process wrote it and   *)
(* under whatever interleaving of truncation, locks and removals: its IR   *)
(* is the requested definition's and its recorded dependencies are the     *)
(* signatures the proof used.                                              *)
DiskFaithful ==
  \A r \in Request : LET i == dir[KeyOf(r)] IN
    (i # NoInode /\ content[i] # Torn) =>
      LET c == content[i] IN
        /\ c.ir.src = r.src /\ c.ir.mode = r.mode
        /\ \A n \in Others(r.src) : c.deps[n] = c.ir.view[n]
        /\ r.mode => <<r.src, c.ir.view>> \in Provable

(* Python and compiled code agree on what a name means: the pointer that   *)
(* verify_and_compile last returned for it is the one later compilations   *)
(* link to, also when an old definition comes back out of the L1 cache.    *)
OneMeaning == bound = registry

(* A function enters the registry only linked to functions whose present   *)
(* signatures are those of the code it calls: a hit rechecks dependencies. *)
BoundToCurrent ==
  [][\A p \in Proc, n \in Name :
       (registry'[p][n] # registry[p][n] /\ registry'[p][n] # NoEntry) =>
         LET e == registry'[p][n] IN
           \A c \in Others(e.ir.src) : e.linked[c] = Sig(registry[p][c])]_vars

(* The caches are invisible: see VerifiedRegistry.                         *)
Uncached == INSTANCE VerifiedRegistry
RefinesVerifiedRegistry == Uncached!Spec

(* A call returns to Python: no process waits for a file lock for ever.    *)
CallReturns == \A p \in Proc : pc[p] # "idle" ~> pc[p] = "idle"
=============================================================================
