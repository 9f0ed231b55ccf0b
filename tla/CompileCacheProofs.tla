------------------------- MODULE CompileCacheProofs -------------------------
(***************************************************************************)
(* Proofs about CompileCache for any processes, names, definitions and     *)
(* contracts.  TypeOK comes first, action by action; then the inductive    *)
(* invariant that follows a contract from the moment a proof uses it,      *)
(* through the file, the bytes read and the IR, to the code it ends in.    *)
(* Then names and paths: what Python last got for a name is what is        *)
(* registered under it, and whatever is found under a key (a file, the     *)
(* bytes read from it, an IR, native code) was made for a request with     *)
(* that key, although files are truncated, removed and created again under *)
(* a path while other processes have them open.                            *)
(***************************************************************************)
EXTENDS CompileCache, TLAPS

-----------------------------------------------------------------------------
(* Signatures and views are well typed.                                    *)
LEMMA SigType ==
  ASSUME TypeOK, NEW p \in Proc, NEW n \in Name
  PROVE  /\ registry[p][n] # NoEntry => Sig(registry[p][n]) \in Contract
         /\ Sig(registry[p][n]) \in Contract \cup {NoSig}
  BY CacheAssumption DEF TypeOK, Sig, Code, IR, CacheAssumption

LEMMA SigsOfType ==
  ASSUME TypeOK, NEW p \in Proc, NEW ns
  PROVE  SigsOf(p, ns) \in View
  BY SigType, CacheAssumption DEF SigsOf, View, CacheAssumption

LEMMA KeyType == ASSUME NEW r \in Request PROVE KeyOf(r) \in Key
  BY DEF Key

LEMMA PathType ==
  ASSUME TypeOK, NEW p \in Proc, pc[p] # "idle"
  PROVE  Path(p) \in Key /\ key[p] \in Request
<1>1. key[p] \in Request
  BY DEF TypeOK
<1> QED BY <1>1, KeyType DEF Path

LEMMA UnlinkType ==
  ASSUME TypeOK, NEW ks, Unlink(ks)
  PROVE  dir' \in [Key -> Inode \cup {NoInode}]
  BY DEF TypeOK, Unlink

LEMMA CodeName ==
  ASSUME NEW e \in Code
  PROVE  NameOf[e.ir.src] \in Name
  BY CacheAssumption DEF Code, IR, CacheAssumption

-----------------------------------------------------------------------------
LEMMA InitTypeOK == Init => TypeOK
  BY DEF Init, TypeOK, Opened, Built

LEMMA CallTypeOK ==
  ASSUME TypeOK, NEW p \in Proc, NEW r \in Request,
         CallHit(p, r) \/ CallMiss(p, r)
  PROVE  TypeOK'
<1>1. CASE CallHit(p, r)
  <2> DEFINE e == l1[p][KeyOf(r)].code
  <2>1. e \in Code
    BY <1>1, KeyType DEF CallHit, L1Valid, TypeOK, NativePayload
  <2>2. /\ registry' \in [Proc -> [Name -> Code \cup {NoEntry}]]
        /\ bound' \in [Proc -> [Name -> Code \cup {NoEntry}]]
    BY <1>1, <2>1, CodeName DEF CallHit, Register, Return, TypeOK
  <2> QED BY <1>1, <2>2 DEF CallHit, TypeOK, disk
<1>2. CASE CallMiss(p, r)
  BY <1>2 DEF CallMiss, Goto, TypeOK, inProc, disk, Opened, Built
<1> QED BY <1>1, <1>2

LEMMA LoadTypeOK ==
  ASSUME TypeOK, NEW p \in Proc,
         \/ OpenForLoad(p) \/ NoFile(p) \/ LockShared(p) \/ Read(p)
         \/ LoadError(p) \/ LoadHit(p) \/ LoadReject(p)
  PROVE  TypeOK'
<1>1. CASE OpenForLoad(p)
  BY <1>1, PathType DEF OpenForLoad, Goto, TypeOK, inProc, disk, Opened, Built
<1>2. CASE NoFile(p)
  BY <1>2 DEF NoFile, Goto, TypeOK, inProc, disk, Opened, Built
<1>3. CASE LockShared(p)
  BY <1>3 DEF LockShared, Goto, TypeOK, inProc, disk, Opened, Built
<1>4. CASE Read(p)
  <2>1. content[fd[p]] \in Payload \cup {Torn}
    BY <1>4 DEF Read, Goto, TypeOK, Opened
  <2>2. content[fd[p]] # NoPayload
    BY <2>1, CacheAssumption DEF CacheAssumption
  <2> QED BY <1>4, <2>1, <2>2
          DEF Read, Goto, TypeOK, inProc, disk, Opened, Built
<1>5. CASE LoadError(p)
  BY <1>5 DEF LoadError, TypeOK, inProc, disk, Opened, Built
<1>6. CASE LoadHit(p)
  <2>1. bytes[p].ir \in IR
    BY <1>6 DEF LoadHit, Usable, Goto, TypeOK, Payload
  <2>2. /\ pc[p] = "loaded" /\ pc' = [pc EXCEPT ![p] = "compiling"]
        /\ ir' = [ir EXCEPT ![p] = bytes[p].ir]
        /\ fd' = [fd EXCEPT ![p] = NoInode]
        /\ bytes' = [bytes EXCEPT ![p] = NoPayload]
        /\ UNCHANGED <<registry, bound, l1, dir, content, key>>
    BY <1>6 DEF LoadHit, Goto, inProc, disk
  <2> QED BY <2>1, <2>2 DEF TypeOK, Opened, Built
<1>7. CASE LoadReject(p)
  <2>1. dir' \in [Key -> Inode \cup {NoInode}]
    BY <1>7, UnlinkType DEF LoadReject
  <2> QED BY <1>7, <2>1 DEF LoadReject, Goto, TypeOK, inProc, Opened, Built
<1> QED BY <1>1, <1>2, <1>3, <1>4, <1>5, <1>6, <1>7

LEMMA BuildTypeOK ==
  ASSUME TypeOK, NEW p \in Proc,
         ParseError(p) \/ BuildError(p) \/ Build(p)
  PROVE  TypeOK'
<1>1. CASE ParseError(p)
  BY <1>1 DEF ParseError, Finish, Goto, TypeOK, inProc, disk, Opened, Built
<1>2. CASE BuildError(p)
  <2>1. dir' \in [Key -> Inode \cup {NoInode}]
    BY <1>2, UnlinkType DEF BuildError, InvalidateBoth
  <2>2. l1' \in [Proc -> [Key -> NativePayload \cup {NoPayload}]]
    BY <1>2 DEF BuildError, InvalidateBoth, TypeOK
  <2> QED BY <1>2, <2>1, <2>2
          DEF BuildError, Finish, Goto, TypeOK, Opened, Built
<1>3. CASE Build(p)
  <2>1. key[p] \in Request
    BY <1>3, PathType DEF Build, Goto
  <2>2. [src |-> key[p].src, mode |-> key[p].mode,
         view |-> SigsOf(p, Others(key[p].src))] \in IR
    BY <2>1, SigsOfType, CacheAssumption DEF IR, Request, CacheAssumption
  <2> QED BY <1>3, <2>1, <2>2
          DEF Build, Goto, TypeOK, inProc, disk, Opened, Built
<1> QED BY <1>1, <1>2, <1>3

LEMMA SaveTypeOK ==
  ASSUME TypeOK, NEW p \in Proc,
         \/ OpenForSave(p) \/ LockExclusive(p) \/ Write(p) \/ SaveError(p)
         \/ Evict(p)
  PROVE  TypeOK'
<1>1. CASE OpenForSave(p)
  <2>1. PICK i \in Inode : /\ dir' = [dir EXCEPT ![Path(p)] = i]
                           /\ content' = [content EXCEPT ![i] = Torn]
                           /\ fd' = [fd EXCEPT ![p] = i]
    BY <1>1 DEF OpenForSave
  <2> QED BY <1>1, <2>1
          DEF OpenForSave, Goto, TypeOK, inProc, Opened, Built
<1>2. CASE LockExclusive(p)
  BY <1>2 DEF LockExclusive, Goto, TypeOK, inProc, disk, Opened, Built
<1>3. CASE Write(p)
  <2>1. ir[p] \in IR /\ fd[p] \in Inode
    BY <1>3 DEF Write, Goto, TypeOK, Opened, Built
  <2>2. [ir |-> ir[p], deps |-> Dependencies(p, ir[p].src)] \in Payload
    BY <2>1, SigsOfType DEF Payload, Dependencies
  <2> QED BY <1>3, <2>1, <2>2 DEF Write, Goto, TypeOK, inProc, Opened, Built
<1>4. CASE SaveError(p)
  BY <1>4 DEF SaveError, PartialWrite, TypeOK, inProc, Opened, Built
<1>5. CASE Evict(p)
  <2>1. dir' \in [Key -> Inode \cup {NoInode}]
    BY <1>5, UnlinkType DEF Evict
  <2> QED BY <1>5, <2>1 DEF Evict, Goto, TypeOK, inProc, Opened, Built
<1> QED BY <1>1, <1>2, <1>3, <1>4, <1>5

(* The code that Compile registers.                                        *)
NewCode(p) == [ir |-> ir[p], linked |-> SigsOf(p, Others(ir[p].src))]

LEMMA NewCodeType ==
  ASSUME TypeOK, NEW p \in Proc, pc[p] = "compiling"
  PROVE  /\ ir[p] \in IR
         /\ NewCode(p) \in Code
         /\ [code |-> NewCode(p), deps |-> Dependencies(p, ir[p].src)]
              \in NativePayload
         /\ NameOf[ir[p].src] \in Name
<1>1. ir[p] \in IR
  BY DEF TypeOK, Built
<1>2. NewCode(p) \in Code
  BY <1>1, SigsOfType DEF NewCode, Code
<1> QED BY <1>1, <1>2, SigsOfType, CodeName
        DEF NativePayload, Dependencies, NewCode

LEMMA CompileTypeOK ==
  ASSUME TypeOK, NEW p \in Proc,
         Compile(p) \/ CompileError(p) \/ LinkPanic(p) \/ Crash(p)
  PROVE  TypeOK'
<1>1. CASE Compile(p)
  <2>1. /\ pc[p] = "compiling"
        /\ registry' = [registry EXCEPT ![p][NameOf[ir[p].src]] = NewCode(p)]
        /\ bound' = [bound EXCEPT ![p][NameOf[ir[p].src]] = NewCode(p)]
        /\ l1' = [l1 EXCEPT ![p][Path(p)] =
              [code |-> NewCode(p), deps |-> Dependencies(p, ir[p].src)]]
    BY <1>1 DEF Compile, NewCode, Goto, Register, Return
  <2>2. Path(p) \in Key
    BY <2>1, PathType
  <2>3. /\ registry' \in [Proc -> [Name -> Code \cup {NoEntry}]]
        /\ bound' \in [Proc -> [Name -> Code \cup {NoEntry}]]
        /\ l1' \in [Proc -> [Key -> NativePayload \cup {NoPayload}]]
    BY <2>1, <2>2, NewCodeType DEF TypeOK
  <2> QED BY <1>1, <2>3
          DEF Compile, Finish, Goto, TypeOK, disk, Opened, Built
<1>2. CASE CompileError(p)
  <2>1. dir' \in [Key -> Inode \cup {NoInode}]
    BY <1>2, UnlinkType DEF CompileError, InvalidateBoth
  <2>2. l1' \in [Proc -> [Key -> NativePayload \cup {NoPayload}]]
    BY <1>2 DEF CompileError, InvalidateBoth, TypeOK
  <2> QED BY <1>2, <2>1, <2>2
          DEF CompileError, Finish, Goto, TypeOK, Opened, Built
<1>3. CASE LinkPanic(p)
  BY <1>3 DEF LinkPanic, Finish, Goto, TypeOK, inProc, disk, Opened, Built
<1>4. CASE Crash(p)
  BY <1>4 DEF Crash, Finish, PartialWrite, TypeOK, Opened, Built
<1> QED BY <1>1, <1>2, <1>3, <1>4

LEMMA NextTypeOK == TypeOK /\ [Next]_vars => TypeOK'
<1> SUFFICES ASSUME TypeOK, [Next]_vars PROVE TypeOK'
  OBVIOUS
<1>1. CASE UNCHANGED vars
  BY <1>1 DEF vars, TypeOK
<1>2. CASE Next
  <2>1. PICK p \in Proc :
          \/ \E r \in Request : CallHit(p, r) \/ CallMiss(p, r)
          \/ Locking(p) \/ Working(p) \/ IOError(p) \/ Crash(p)
    BY <1>2 DEF Next
  <2> QED BY <2>1, CallTypeOK, LoadTypeOK, BuildTypeOK, SaveTypeOK,
             CompileTypeOK DEF Locking, Working, IOError
<1> QED BY <1>1, <1>2

(* Every variable of the compilation pipeline keeps its type, and a        *)
(* process has the file and the IR that its place in the call needs.       *)
THEOREM TypeCorrect == Spec => []TypeOK
  BY InitTypeOK, NextTypeOK, PTL DEF Spec

-----------------------------------------------------------------------------
(***************************************************************************)
(* The inductive invariant.  LinkedAsAssumed speaks of finished code only; *)
(* to be kept by LoadHit and Compile it needs the same fact at every stage *)
(* a contract passes through on its way there.                             *)
(***************************************************************************)
Accepted(x) == x.mode => <<x.src, x.view>> \in Provable

Recorded(c) == /\ Accepted(c.ir)
               /\ \A n \in Others(c.ir.src) : c.deps[n] = c.ir.view[n]

Consistent(e) == /\ Accepted(e.ir)
                 /\ \A n \in Others(e.ir.src) :
                      e.ir.view[n] \in {NoSig, e.linked[n]}

FilesRecorded == \A i \in Inode : content[i] # Torn => Recorded(content[i])

BytesRecorded ==
  \A p \in Proc : bytes[p] \notin {Torn, NoPayload} => Recorded(bytes[p])

BuiltUnderCurrent ==
  \A p \in Proc : pc[p] \in Built =>
    /\ Accepted(ir[p])
    /\ \A n \in Others(ir[p].src) :
         ir[p].view[n] \in {NoSig, Sig(registry[p][n])}

UnsavedIsExact ==
  \A p \in Proc : pc[p] \in {"saving", "lockExclusive", "writing"} =>
    \A n \in Others(ir[p].src) : ir[p].view[n] = Sig(registry[p][n])

L1Consistent ==
  \A p \in Proc, k \in Key : l1[p][k] # NoPayload =>
    /\ Consistent(l1[p][k].code)
    /\ \A n \in Others(l1[p][k].code.ir.src) :
         /\ l1[p][k].deps[n] = l1[p][k].code.linked[n]
         /\ l1[p][k].deps[n] # NoSig

RegistryConsistent ==
  \A p \in Proc, n \in Name : registry[p][n] # NoEntry =>
    Consistent(registry[p][n])

IInv == /\ TypeOK
        /\ FilesRecorded
        /\ BytesRecorded
        /\ BuiltUnderCurrent
        /\ UnsavedIsExact
        /\ L1Consistent
        /\ RegistryConsistent

-----------------------------------------------------------------------------
LEMMA OthersName ==
  ASSUME NEW s \in Source
  PROVE  /\ Others(s) \subseteq Name
         /\ Others(s) \subseteq Callees[s]
  BY CacheAssumption DEF Others, CacheAssumption

LEMMA SigsOfValue ==
  ASSUME NEW p, NEW ns, NEW n \in ns, ns \subseteq Name
  PROVE  SigsOf(p, ns)[n] = Sig(registry[p][n])
  BY DEF SigsOf

LEMMA InitIInv == Init => IInv
<1> SUFFICES ASSUME Init PROVE IInv
  OBVIOUS
<1>1. TypeOK
  BY InitTypeOK
<1>2. FilesRecorded /\ BytesRecorded /\ RegistryConsistent /\ L1Consistent
  BY DEF Init, FilesRecorded, BytesRecorded, RegistryConsistent, L1Consistent
<1>3. BuiltUnderCurrent /\ UnsavedIsExact
  BY DEF Init, BuiltUnderCurrent, UnsavedIsExact, Built
<1> QED BY <1>1, <1>2, <1>3 DEF IInv

(* Frame lemmas: what a step must leave alone for each conjunct.           *)
LEMMA FilesFrame ==
  ASSUME FilesRecorded, \A i \in Inode : content'[i] \in {content[i], Torn}
  PROVE  FilesRecorded'
  BY DEF FilesRecorded, Recorded, Accepted

LEMMA BytesFrame ==
  ASSUME BytesRecorded,
         \A p \in Proc : bytes'[p] \in {bytes[p], Torn, NoPayload}
  PROVE  BytesRecorded'
  BY DEF BytesRecorded, Recorded, Accepted

LEMMA L1Frame ==
  ASSUME L1Consistent,
         \A p \in Proc, k \in Key : l1'[p][k] \in {l1[p][k], NoPayload}
  PROVE  L1Consistent'
  BY DEF L1Consistent, Consistent, Accepted

LEMMA RegistryFrame ==
  ASSUME RegistryConsistent,
         \A p \in Proc, n \in Name : registry'[p][n] \in {registry[p][n], NoEntry}
  PROVE  RegistryConsistent'
  BY DEF RegistryConsistent, Consistent, Accepted

LEMMA BuiltFrame ==
  ASSUME BuiltUnderCurrent, UnsavedIsExact,
         \A p \in Proc : pc'[p] \in Built =>
           /\ pc[p] \in Built
           /\ ir'[p] = ir[p]
           /\ registry'[p] = registry[p]
           /\ pc'[p] \in {"saving", "lockExclusive", "writing"} =>
                pc[p] \in {"saving", "lockExclusive", "writing"}
  PROVE  BuiltUnderCurrent' /\ UnsavedIsExact'
<1>1. BuiltUnderCurrent'
  BY DEF BuiltUnderCurrent, Accepted, Sig, Built
<1>2. UnsavedIsExact'
  BY DEF UnsavedIsExact, Sig, Built
<1> QED BY <1>1, <1>2

(* Steps that only lose data: files and bytes torn or dropped, L1 and      *)
(* registry entries cleared, IRs kept or abandoned.                        *)
LEMMA LosingStep ==
  ASSUME IInv, TypeOK',
         \A i \in Inode : content'[i] \in {content[i], Torn},
         \A p \in Proc : bytes'[p] \in {bytes[p], Torn, NoPayload},
         \A p \in Proc, k \in Key : l1'[p][k] \in {l1[p][k], NoPayload},
         \A p \in Proc, n \in Name :
           registry'[p][n] \in {registry[p][n], NoEntry},
         \A p \in Proc : pc'[p] \in Built =>
           /\ pc[p] \in Built
           /\ ir'[p] = ir[p]
           /\ registry'[p] = registry[p]
           /\ pc'[p] \in {"saving", "lockExclusive", "writing"} =>
                pc[p] \in {"saving", "lockExclusive", "writing"}
  PROVE  IInv'
  BY FilesFrame, BytesFrame, L1Frame, RegistryFrame, BuiltFrame DEF IInv

LEMMA CallMissStep ==
  ASSUME IInv, TypeOK', NEW p \in Proc, NEW r \in Request, CallMiss(p, r)
  PROVE  IInv'
  BY LosingStep DEF CallMiss, IInv, TypeOK, Goto, inProc, disk, Built

LEMMA LoadLosing ==
  ASSUME IInv, TypeOK', NEW p \in Proc,
         \/ OpenForLoad(p) \/ NoFile(p) \/ LockShared(p) \/ LoadError(p)
         \/ LoadReject(p) \/ ParseError(p) \/ BuildError(p)
  PROVE  IInv'
<1> USE DEF IInv, TypeOK, Goto, Finish, inProc, disk, Built
<1>2. CASE OpenForLoad(p)
  BY <1>2, LosingStep DEF OpenForLoad
<1>3. CASE NoFile(p)
  BY <1>3, LosingStep DEF NoFile
<1>4. CASE LockShared(p)
  BY <1>4, LosingStep DEF LockShared
<1>5. CASE LoadError(p)
  BY <1>5, LosingStep DEF LoadError
<1>6. CASE LoadReject(p)
  BY <1>6, LosingStep DEF LoadReject
<1>7. CASE ParseError(p)
  BY <1>7, LosingStep DEF ParseError
<1>8. CASE BuildError(p)
  BY <1>8, LosingStep DEF BuildError, InvalidateBoth
<1> QED BY <1>2, <1>3, <1>4, <1>5, <1>6, <1>7, <1>8

LEMMA SaveLosing ==
  ASSUME IInv, TypeOK', NEW p \in Proc,
         \/ OpenForSave(p) \/ LockExclusive(p) \/ SaveError(p) \/ Evict(p)
         \/ CompileError(p) \/ LinkPanic(p) \/ Crash(p)
  PROVE  IInv'
<1> USE DEF IInv, TypeOK, Goto, Finish, inProc, disk, Built
<1>1. CASE OpenForSave(p)
  <2>1. PICK i \in Inode : content' = [content EXCEPT ![i] = Torn]
    BY <1>1 DEF OpenForSave
  <2> QED BY <1>1, <2>1, LosingStep DEF OpenForSave
<1>2. CASE LockExclusive(p)
  BY <1>2, LosingStep DEF LockExclusive
<1>3. CASE SaveError(p)
  BY <1>3, LosingStep DEF SaveError, PartialWrite
<1>4. CASE Evict(p)
  BY <1>4, LosingStep DEF Evict
<1>5. CASE CompileError(p)
  BY <1>5, LosingStep DEF CompileError, InvalidateBoth
<1>6. CASE LinkPanic(p)
  BY <1>6, LosingStep DEF LinkPanic
<1>7. CASE Crash(p)
  BY <1>7, LosingStep DEF Crash, PartialWrite
<1> QED BY <1>1, <1>2, <1>3, <1>4, <1>5, <1>6, <1>7

(* The L1 cache hands back code that was consistent when it was stored.    *)
LEMMA CallHitStep ==
  ASSUME IInv, TypeOK', NEW p \in Proc, NEW r \in Request, CallHit(p, r)
  PROVE  IInv'
<1> DEFINE e == l1[p][KeyOf(r)].code
<1>1. Consistent(e) /\ e \in Code
  BY KeyType DEF IInv, L1Consistent, CallHit, L1Valid, TypeOK, NativePayload
<1>2. registry' = [registry EXCEPT ![p][NameOf[e.ir.src]] = e]
  BY DEF CallHit, Register
<1>3. RegistryConsistent'
  <2> SUFFICES ASSUME NEW q \in Proc, NEW n \in Name,
                      registry'[q][n] # NoEntry
               PROVE  Consistent(registry'[q][n])
    BY DEF RegistryConsistent, Consistent, Accepted
  <2>1. CASE q = p /\ n = NameOf[e.ir.src]
    <3>1. registry'[q][n] = e
      BY <1>2, <2>1 DEF IInv, TypeOK
    <3> QED BY <1>1, <3>1
  <2>2. CASE ~(q = p /\ n = NameOf[e.ir.src])
    <3>1. registry'[q][n] = registry[q][n]
      BY <1>2, <2>2 DEF IInv, TypeOK
    <3> QED BY <3>1 DEF IInv, RegistryConsistent
  <2> QED BY <2>1, <2>2
<1>4. \A q \in Proc : pc[q] # "idle" => registry'[q] = registry[q]
  BY <1>2 DEF CallHit, IInv, TypeOK
<1>5. BuiltUnderCurrent' /\ UnsavedIsExact'
  BY <1>4, BuiltFrame DEF CallHit, IInv, Built
<1>6. FilesRecorded' /\ BytesRecorded' /\ L1Consistent'
  BY FilesFrame, BytesFrame, L1Frame DEF CallHit, IInv, disk
<1> QED BY <1>3, <1>5, <1>6 DEF IInv

LEMMA ReadStep ==
  ASSUME IInv, TypeOK', NEW p \in Proc, Read(p)
  PROVE  IInv'
<1>1. fd[p] \in Inode
  BY DEF Read, Goto, IInv, TypeOK, Opened
<1>2. BytesRecorded'
  <2> SUFFICES ASSUME NEW q \in Proc, bytes'[q] \notin {Torn, NoPayload}
               PROVE  Recorded(bytes'[q])
    BY DEF BytesRecorded, Recorded, Accepted
  <2>1. CASE q = p
    <3>1. bytes'[q] = content[fd[p]]
      BY <2>1 DEF Read, IInv, TypeOK
    <3> QED BY <1>1, <3>1 DEF IInv, FilesRecorded
  <2>2. CASE q # p
    <3>1. bytes'[q] = bytes[q]
      BY <2>2 DEF Read, IInv, TypeOK
    <3> QED BY <3>1 DEF IInv, BytesRecorded
  <2> QED BY <2>1, <2>2
<1>3. \A q \in Proc : pc'[q] \in Built =>
         pc[q] = pc'[q] /\ ir'[q] = ir[q] /\ registry'[q] = registry[q]
  BY DEF Read, Goto, IInv, TypeOK, Built, inProc
<1>4. BuiltUnderCurrent' /\ UnsavedIsExact'
  BY <1>3, BuiltFrame DEF IInv
<1>5. FilesRecorded' /\ L1Consistent' /\ RegistryConsistent'
  BY FilesFrame, L1Frame, RegistryFrame DEF Read, IInv, inProc, disk
<1> QED BY <1>2, <1>4, <1>5 DEF IInv

(* A built IR is entered at Build, from the registry, or at LoadHit, from  *)
(* bytes whose dependencies were compared with the registry.               *)
LEMMA BuildStep ==
  ASSUME IInv, TypeOK', NEW p \in Proc, Build(p) \/ LoadHit(p)
  PROVE  IInv'
<1>1. ir'[p] \in IR /\ pc'[p] \in Built /\ registry' = registry
  BY DEF Build, LoadHit, Goto, IInv, TypeOK, Built, inProc
<1>2. Others(ir'[p].src) \subseteq Name
  BY <1>1, OthersName DEF IR
<1>3. Accepted(ir'[p]) /\ \A n \in Others(ir'[p].src) :
         \/ ir'[p].view[n] = Sig(registry[p][n])
         \/ LoadHit(p) /\ ir'[p].view[n] = NoSig
  <2>1. CASE Build(p)
    <3>1. ir'[p] = [src |-> key[p].src, mode |-> key[p].mode,
                    view |-> SigsOf(p, Others(key[p].src))]
      BY <2>1 DEF Build, IInv, TypeOK
    <3>2. Accepted(ir'[p])
      BY <2>1, <3>1 DEF Build, Accepted
    <3>3. \A n \in Others(ir'[p].src) :
            ir'[p].view[n] = Sig(registry[p][n])
      BY <1>2, <3>1 DEF SigsOf
    <3> QED BY <3>2, <3>3
  <2>2. CASE LoadHit(p)
    <3>1. ir'[p] = bytes[p].ir /\ Usable(p) /\ bytes[p] # NoPayload
      BY <2>2 DEF LoadHit, Goto, IInv, TypeOK
    <3>2. Recorded(bytes[p])
      BY <3>1 DEF Usable, IInv, BytesRecorded
    <3>3. ASSUME NEW n \in Others(ir'[p].src)
          PROVE  ir'[p].view[n] \in {NoSig, Sig(registry[p][n])}
      BY <1>2, <3>1, <3>2 DEF Recorded, Usable, DepsCurrent
    <3> QED BY <2>2, <3>1, <3>2, <3>3 DEF Recorded
  <2> QED BY <2>1, <2>2
<1>4. \A q \in Proc \ {p} : pc'[q] = pc[q] /\ ir'[q] = ir[q]
  BY DEF Build, LoadHit, Goto, IInv, TypeOK
<1>5. BuiltUnderCurrent'
  <2> SUFFICES ASSUME NEW q \in Proc, pc'[q] \in Built
               PROVE  /\ Accepted(ir'[q])
                      /\ \A n \in Others(ir'[q].src) :
                           ir'[q].view[n] \in {NoSig, Sig(registry[q][n])}
    BY <1>1 DEF BuiltUnderCurrent, Accepted, Sig, Built
  <2>1. CASE q = p
    BY <1>3, <2>1
  <2>2. CASE q # p
    BY <1>4, <2>2 DEF IInv, BuiltUnderCurrent
  <2> QED BY <2>1, <2>2
<1>6. UnsavedIsExact'
  <2> SUFFICES ASSUME NEW q \in Proc,
                      pc'[q] \in {"saving", "lockExclusive", "writing"}
               PROVE  \A n \in Others(ir'[q].src) :
                        ir'[q].view[n] = Sig(registry[q][n])
    BY <1>1 DEF UnsavedIsExact, Sig
  <2>1. CASE q = p
    <3>1. pc'[p] # "compiling"
      BY <2>1
    <3>2. ~LoadHit(p)
      BY <3>1 DEF LoadHit, Goto, IInv, TypeOK
    <3> QED BY <1>3, <2>1, <3>2
  <2>2. CASE q # p
    BY <1>4, <2>2 DEF IInv, UnsavedIsExact
  <2> QED BY <2>1, <2>2
<1>7. FilesRecorded' /\ L1Consistent' /\ RegistryConsistent'
  BY FilesFrame, L1Frame, RegistryFrame DEF Build, LoadHit, IInv, inProc, disk
<1>8. \A q \in Proc : bytes'[q] \in {bytes[q], NoPayload}
  BY DEF Build, LoadHit, IInv, TypeOK
<1>9. BytesRecorded'
  BY <1>8, BytesFrame DEF IInv
<1> QED BY <1>5, <1>6, <1>7, <1>9 DEF IInv

(* What Write stores is what the proof used: nothing this process holds    *)
(* changes between Build and Write.                                        *)
LEMMA WriteStep ==
  ASSUME IInv, TypeOK', NEW p \in Proc, Write(p)
  PROVE  IInv'
<1> DEFINE c == [ir |-> ir[p], deps |-> Dependencies(p, ir[p].src)]
<1>1. ir[p] \in IR /\ fd[p] \in Inode /\ pc[p] = "writing"
  BY DEF Write, Goto, IInv, TypeOK, Opened, Built
<1>2. Recorded(c)
  <2>1. Accepted(ir[p])
    BY <1>1 DEF IInv, BuiltUnderCurrent, Built
  <2>2. ASSUME NEW n \in Others(ir[p].src)
        PROVE  Dependencies(p, ir[p].src)[n] = ir[p].view[n]
    <3>1. n \in Name /\ n \in Callees[ir[p].src]
      BY <1>1, OthersName DEF IR
    <3>2. Dependencies(p, ir[p].src)[n] = Sig(registry[p][n])
      BY <3>1 DEF Dependencies, SigsOf
    <3> QED BY <1>1, <3>2 DEF IInv, UnsavedIsExact
  <2> QED BY <2>1, <2>2 DEF Recorded
<1>3. FilesRecorded'
  <2> SUFFICES ASSUME NEW i \in Inode, content'[i] # Torn
               PROVE  Recorded(content'[i])
    BY DEF FilesRecorded, Recorded, Accepted
  <2>1. content'[i] = c \/ content'[i] = content[i]
    BY DEF Write, IInv, TypeOK
  <2> QED BY <1>2, <2>1 DEF IInv, FilesRecorded
<1>4. BuiltUnderCurrent' /\ UnsavedIsExact'
  <2>1. \A q \in Proc : pc'[q] \in Built =>
          /\ pc[q] \in Built /\ ir'[q] = ir[q] /\ registry'[q] = registry[q]
          /\ pc'[q] \in {"saving", "lockExclusive", "writing"} =>
               pc[q] \in {"saving", "lockExclusive", "writing"}
    BY DEF Write, Goto, IInv, TypeOK, Built, inProc
  <2> QED BY <2>1, BuiltFrame DEF IInv
<1>5. BytesRecorded' /\ L1Consistent' /\ RegistryConsistent'
  BY BytesFrame, L1Frame, RegistryFrame DEF Write, IInv, inProc
<1> QED BY <1>3, <1>4, <1>5 DEF IInv

(* The code Compile registers is linked to the signatures now registered,  *)
(* which are those its proof used, or the proof used none.                 *)
LEMMA CompileStep ==
  ASSUME IInv, TypeOK', NEW p \in Proc, Compile(p)
  PROVE  IInv'
<1> DEFINE e == NewCode(p)
           d == Dependencies(p, ir[p].src)
<1>1. /\ pc[p] = "compiling"
      /\ ir[p] \in IR
      /\ Others(ir[p].src) \subseteq Name \cap Callees[ir[p].src]
  BY NewCodeType, OthersName DEF Compile, Goto, IInv, IR
<1>2. \A n \in Others(ir[p].src) : /\ e.linked[n] = Sig(registry[p][n])
                                   /\ d[n] = Sig(registry[p][n])
                                   /\ Sig(registry[p][n]) # NoSig
  <2> SUFFICES ASSUME NEW n \in Others(ir[p].src)
               PROVE  /\ e.linked[n] = Sig(registry[p][n])
                      /\ d[n] = Sig(registry[p][n])
                      /\ Sig(registry[p][n]) # NoSig
    OBVIOUS
  <2>1. e.linked[n] = Sig(registry[p][n]) /\ d[n] = Sig(registry[p][n])
    BY <1>1 DEF NewCode, Dependencies, SigsOf
  <2>2. registry[p][n] # NoEntry
    BY DEF Compile, Linkable
  <2>3. Sig(registry[p][n]) # NoSig
    BY <1>1, <2>2, SigType, CacheAssumption DEF CacheAssumption, IInv
  <2> QED BY <2>1, <2>3
<1>3. e.ir = ir[p] /\ Consistent(e)
  BY <1>1, <1>2 DEF NewCode, Consistent, IInv, BuiltUnderCurrent, Built
<1>4. /\ registry' = [registry EXCEPT ![p][NameOf[ir[p].src]] = e]
      /\ l1' = [l1 EXCEPT ![p][Path(p)] = [code |-> e, deps |-> d]]
  BY DEF Compile, NewCode, Register
<1>5. RegistryConsistent'
  <2> SUFFICES ASSUME NEW q \in Proc, NEW n \in Name,
                      registry'[q][n] # NoEntry
               PROVE  Consistent(registry'[q][n])
    BY DEF RegistryConsistent, Consistent, Accepted
  <2>1. registry'[q][n] = e \/ registry'[q][n] = registry[q][n]
    BY <1>4 DEF IInv, TypeOK
  <2> QED BY <1>3, <2>1 DEF IInv, RegistryConsistent
<1>6. L1Consistent'
  <2> SUFFICES ASSUME NEW q \in Proc, NEW k \in Key, l1'[q][k] # NoPayload
               PROVE  LET x == l1'[q][k] IN
                      /\ Consistent(x.code)
                      /\ \A n \in Others(x.code.ir.src) :
                           /\ x.deps[n] = x.code.linked[n]
                           /\ x.deps[n] # NoSig
    BY DEF L1Consistent, Consistent, Accepted
  <2>1. CASE l1'[q][k] = [code |-> e, deps |-> d]
    BY <1>2, <1>3, <2>1
  <2>2. CASE l1'[q][k] = l1[q][k]
    BY <2>2 DEF IInv, L1Consistent
  <2>3. l1'[q][k] = [code |-> e, deps |-> d] \/ l1'[q][k] = l1[q][k]
    BY <1>4 DEF IInv, TypeOK
  <2> QED BY <2>1, <2>2, <2>3
<1>7. BuiltUnderCurrent' /\ UnsavedIsExact'
  <2>1. \A q \in Proc : pc'[q] \in Built =>
          /\ pc[q] = pc'[q] /\ ir'[q] = ir[q] /\ registry'[q] = registry[q]
    BY <1>4 DEF Compile, Goto, Finish, IInv, TypeOK, Built
  <2> QED BY <2>1, BuiltFrame DEF IInv
<1>8. FilesRecorded' /\ BytesRecorded'
  BY FilesFrame, BytesFrame DEF Compile, Finish, disk, IInv, TypeOK
<1> QED BY <1>5, <1>6, <1>7, <1>8 DEF IInv

LEMMA NextIInv == IInv /\ [Next]_vars => IInv'
<1> SUFFICES ASSUME IInv, [Next]_vars PROVE IInv'
  OBVIOUS
<1>1. TypeOK'
  BY NextTypeOK DEF IInv
<1>2. CASE UNCHANGED vars
  BY <1>1, <1>2, LosingStep DEF vars
<1>3. CASE Next
  <2>1. PICK p \in Proc :
          \/ \E r \in Request : CallHit(p, r) \/ CallMiss(p, r)
          \/ Locking(p) \/ Working(p) \/ IOError(p) \/ Crash(p)
    BY <1>3 DEF Next
  <2>2. CASE \E r \in Request : CallHit(p, r) \/ CallMiss(p, r)
    BY <1>1, <2>2, CallHitStep, CallMissStep
  <2>3. CASE Locking(p) \/ IOError(p) \/ Crash(p)
    BY <1>1, <2>3, LoadLosing, SaveLosing DEF Locking, IOError
  <2>4. CASE Working(p)
    BY <1>1, <2>4, LoadLosing, SaveLosing, ReadStep, BuildStep, WriteStep,
       CompileStep DEF Working
  <2> QED BY <2>1, <2>2, <2>3, <2>4
<1> QED BY <1>2, <1>3

THEOREM InductiveInvariant == Spec => []IInv
  BY InitIInv, NextIInv, PTL DEF Spec

(* For any programs, processes, crashes and interleavings: code that a     *)
(* process may call was proved under the very contracts its calls were     *)
(* linked to, except for callees the proof knew no signature of.           *)
THEOREM ContractsFollowCode == Spec => []LinkedAsAssumed
<1>1. IInv => LinkedAsAssumed
  BY DEF IInv, RegistryConsistent, L1Consistent, Consistent, LinkedAsAssumed,
         Held
<1> QED BY <1>1, InductiveInvariant, PTL

-----------------------------------------------------------------------------
(* The refinement: the abstract registry binds where CallHit and Compile   *)
(* register, exits where a process dies, and stutters everywhere else.     *)
LEMMA Binds ==
  ASSUME IInv, NEW p \in Proc, NEW e \in Code,
         Consistent(e),
         \A n \in Others(e.ir.src) :
           registry[p][n] # NoEntry /\ e.linked[n] = Sig(registry[p][n]),
         Register(p, e)
  PROVE  Uncached!Next
<1>1. Uncached!Admissible(p, e)
  BY DEF Consistent, Accepted, Uncached!Admissible, Uncached!Others, Others,
         Uncached!Sig, Sig
<1>2. Uncached!Bind(p, e)
  BY <1>1 DEF Uncached!Bind, Register
<1>3. e \in Uncached!Code
  BY DEF Code, IR, View, Uncached!Code, Uncached!IR, Uncached!View
<1> QED BY <1>2, <1>3 DEF Uncached!Next

LEMMA CallHitBinds ==
  ASSUME IInv, NEW p \in Proc, NEW r \in Request, CallHit(p, r)
  PROVE  Uncached!Next
<1> DEFINE x == l1[p][KeyOf(r)]
           e == x.code
<1>1. /\ x # NoPayload /\ KeyOf(r) \in Key /\ DepsCurrent(p, x.deps)
      /\ Register(p, e)
  BY KeyType DEF CallHit, L1Valid
<1>2. e \in Code
  BY <1>1 DEF IInv, TypeOK, NativePayload
<1>3. Consistent(e) /\ \A n \in Others(e.ir.src) :
                          x.deps[n] = e.linked[n] /\ x.deps[n] # NoSig
  BY <1>1 DEF IInv, L1Consistent
<1>4. Others(e.ir.src) \subseteq Name
  BY <1>2, OthersName DEF Code, IR
<1>5. \A n \in Others(e.ir.src) :
        registry[p][n] # NoEntry /\ e.linked[n] = Sig(registry[p][n])
  BY <1>1, <1>3, <1>4 DEF DepsCurrent, Sig
<1> QED BY <1>1, <1>2, <1>3, <1>5, Binds

LEMMA CompileBinds ==
  ASSUME IInv, NEW p \in Proc, Compile(p)
  PROVE  Uncached!Next
<1> DEFINE e == NewCode(p)
<1>1. pc[p] = "compiling" /\ ir[p] \in IR /\ e \in Code /\ e.ir = ir[p]
  BY NewCodeType DEF Compile, Goto, IInv, NewCode
<1>2. Others(ir[p].src) \subseteq Name
  BY <1>1, OthersName DEF IR
<1>3. \A n \in Others(ir[p].src) :
        registry[p][n] # NoEntry /\ e.linked[n] = Sig(registry[p][n])
  BY <1>2 DEF Compile, Linkable, NewCode, SigsOf
<1>4. Consistent(e)
  BY <1>1, <1>3 DEF Consistent, IInv, BuiltUnderCurrent, Built
<1>5. Register(p, e)
  BY DEF Compile, NewCode
<1> QED BY <1>1, <1>3, <1>4, <1>5, Binds

LEMMA StepRefines ==
  IInv /\ [Next]_vars => [Uncached!Next]_registry
<1> SUFFICES ASSUME IInv, [Next]_vars, registry' # registry
             PROVE  Uncached!Next
  OBVIOUS
<1>1. PICK p \in Proc :
        \/ \E r \in Request : CallHit(p, r) \/ CallMiss(p, r)
        \/ Locking(p) \/ Working(p) \/ IOError(p) \/ Crash(p)
  BY DEF Next, vars
<1>2. \/ \E r \in Request : CallHit(p, r)
      \/ Compile(p)
      \/ Crash(p)
  BY <1>1 DEF CallMiss, Locking, LockShared, LockExclusive, IOError,
     LoadError, SaveError, Working, OpenForLoad, NoFile, Read, LoadHit,
     LoadReject, ParseError, BuildError, Build, OpenForSave, Write, Evict,
     CompileError, LinkPanic, inProc
<1>3. CASE Crash(p)
  BY <1>3 DEF Crash, Uncached!Exit, Uncached!Next
<1> QED BY <1>2, <1>3, CallHitBinds, CompileBinds

(* The caches are invisible to a caller: whatever the L1 cache, the files  *)
(* and other processes do to them, the registry evolves as if every        *)
(* request were built, proved and linked on the spot.                      *)
THEOREM ImplementsVerifiedRegistry == Spec => RefinesVerifiedRegistry
<1>1. Init => Uncached!Init
  BY DEF Init, Uncached!Init
<1> QED BY <1>1, StepRefines, InductiveInvariant, PTL
        DEF Spec, Uncached!Spec, RefinesVerifiedRegistry
-----------------------------------------------------------------------------
(* What a name means.                                                      *)

\* The registry and Python's pointers change together, or not at all.
LEMMA OneMeaningStep == OneMeaning /\ [Next]_vars => OneMeaning'
<1> SUFFICES ASSUME OneMeaning, [Next]_vars PROVE OneMeaning'
  OBVIOUS
<1> USE DEF OneMeaning, Register, Return
<1>1. CASE UNCHANGED vars
  BY <1>1 DEF vars
<1>2. CASE Next
  <2>1. PICK p \in Proc :
          \/ \E r \in Request : CallHit(p, r) \/ CallMiss(p, r)
          \/ Locking(p) \/ Working(p) \/ IOError(p) \/ Crash(p)
    BY <1>2 DEF Next
  <2>2. CASE \E r \in Request : CallHit(p, r) \/ CallMiss(p, r)
    BY <2>2 DEF CallHit, CallMiss, inProc
  <2>3. CASE Locking(p) \/ IOError(p)
    BY <2>3 DEF Locking, LockShared, LockExclusive, IOError, LoadError, SaveError, inProc
  <2>4. CASE Crash(p)
    BY <2>4 DEF Crash
  <2>5. CASE Compile(p)
    BY <2>5 DEF Compile
  <2>6. CASE Working(p) /\ ~Compile(p)
    BY <2>6 DEF Working, OpenForLoad, NoFile, Read, LoadHit, LoadReject,
       ParseError, BuildError, Build, OpenForSave, Write, Evict,
       CompileError, LinkPanic, inProc
  <2> QED BY <2>1, <2>2, <2>3, <2>4, <2>5, <2>6
<1> QED BY <1>1, <1>2

(* For any sequence of calls, hits, failures and crashes: the pointer that *)
(* Python last got for a name is the one later compilations link to.       *)
THEOREM NamesMeanOneThing == Spec => []OneMeaning
<1>1. Init => OneMeaning
  BY DEF Init, OneMeaning
<1> QED BY <1>1, OneMeaningStep, PTL DEF Spec

\* What BoundToCurrent says of a step.
BindsToCurrent ==
  \A p \in Proc, n \in Name :
    (registry'[p][n] # registry[p][n] /\ registry'[p][n] # NoEntry) =>
      LET e == registry'[p][n] IN
        \A c \in Others(e.ir.src) : e.linked[c] = Sig(registry[p][c])

\* A step that registers e for p, which is linked to what is registered.
LEMMA RegisterBinds ==
  ASSUME IInv, NEW p \in Proc, NEW e \in Code, Register(p, e),
         \A c \in Others(e.ir.src) : e.linked[c] = Sig(registry[p][c])
  PROVE  BindsToCurrent
<1> SUFFICES ASSUME NEW q \in Proc, NEW n \in Name,
                    registry'[q][n] # registry[q][n]
             PROVE  q = p /\ registry'[q][n] = e
  BY DEF BindsToCurrent
<1> QED BY CodeName DEF Register, IInv, TypeOK

LEMMA BindsStep == IInv /\ [Next]_vars => [BindsToCurrent]_vars
<1> SUFFICES ASSUME IInv, Next PROVE BindsToCurrent
  OBVIOUS
<1>1. PICK p \in Proc :
        \/ \E r \in Request : CallHit(p, r) \/ CallMiss(p, r)
        \/ Locking(p) \/ Working(p) \/ IOError(p) \/ Crash(p)
  BY DEF Next
<1>2. ASSUME NEW r \in Request, CallHit(p, r) PROVE BindsToCurrent
  <2> DEFINE x == l1[p][KeyOf(r)]
  <2>1. x # NoPayload /\ KeyOf(r) \in Key /\ DepsCurrent(p, x.deps) /\ Register(p, x.code)
    BY <1>2, KeyType DEF CallHit, L1Valid
  <2>2. x.code \in Code /\ Others(x.code.ir.src) \subseteq Name
    BY <2>1, OthersName DEF IInv, TypeOK, NativePayload, Code, IR
  <2>3. \A n \in Others(x.code.ir.src) : x.deps[n] = x.code.linked[n] /\ x.deps[n] # NoSig
    BY <2>1 DEF IInv, L1Consistent
  <2>4. \A n \in Others(x.code.ir.src) : x.code.linked[n] = Sig(registry[p][n])
    BY <2>1, <2>2, <2>3 DEF DepsCurrent
  <2> QED BY <2>1, <2>2, <2>4, RegisterBinds
<1>3. CASE Compile(p)
  <2> DEFINE e == NewCode(p)
  <2>1. ir[p] \in IR /\ e \in Code /\ e.ir = ir[p] /\ Register(p, e)
    BY <1>3, NewCodeType DEF Compile, Goto, IInv, NewCode
  <2>2. Others(ir[p].src) \subseteq Name
    BY <2>1, OthersName DEF IR
  <2>3. \A n \in Others(e.ir.src) : e.linked[n] = Sig(registry[p][n])
    BY <2>1, <2>2 DEF NewCode, SigsOf
  <2> QED BY <2>1, <2>3, RegisterBinds
<1>4. CASE Crash(p)
  BY <1>4 DEF Crash, BindsToCurrent, IInv, TypeOK
<1>5. CASE UNCHANGED registry
  BY <1>5 DEF BindsToCurrent
<1>6. \/ \E r \in Request : CallHit(p, r)
      \/ Compile(p)
      \/ Crash(p)
      \/ UNCHANGED registry
  BY <1>1 DEF CallMiss, Locking, LockShared, LockExclusive, IOError,
     LoadError, SaveError, Working, OpenForLoad, NoFile, Read, LoadHit,
     LoadReject, ParseError, BuildError, Build, OpenForSave, Write, Evict,
     CompileError, LinkPanic, inProc
<1> QED BY <1>2, <1>3, <1>4, <1>5, <1>6

(* A function enters the registry linked to functions whose signatures at  *)
(* that moment are those its code calls, from L1 or freshly compiled.      *)
THEOREM EntersLinkedToCurrent == Spec => BoundToCurrent
<1>1. [BindsToCurrent]_vars => [\A p \in Proc, n \in Name :
       (registry'[p][n] # registry[p][n] /\ registry'[p][n] # NoEntry) =>
         LET e == registry'[p][n] IN
           \A c \in Others(e.ir.src) : e.linked[c] = Sig(registry[p][c])]_vars
  BY DEF BindsToCurrent
<1> QED BY <1>1, InductiveInvariant, BindsStep, PTL DEF Spec, BoundToCurrent
-----------------------------------------------------------------------------
(* Keys and paths.                                                         *)

\* The names an inode has, and the paths under which processes opened it.
Paths(i) ==
  {k \in Key : dir[k] = i} \cup {Path(p) : p \in {q \in Proc : fd[q] = i}}

\* Only a process in a call has a file open.
OpenInCall == \A p \in Proc : fd[p] # NoInode => pc[p] # "idle"

\* An inode is one path's: it is used for another one only when neither the
\* directory nor a process has it.
OnePath == \A i \in Inode : \A j, k \in Paths(i) : j = k

\* What is found under a key was made for it.
FilesServe ==
  \A i \in Inode : content[i] # Torn =>
    \A k \in Paths(i) : KeyOf(content[i].ir) = k

BytesServe ==
  \A p \in Proc :
    pc[p] = "loaded" /\ bytes[p] # Torn => KeyOf(bytes[p].ir) = Path(p)

IRsServe == \A p \in Proc : pc[p] \in Built => KeyOf(ir[p]) = Path(p)

L1Serves ==
  \A p \in Proc, k \in Key :
    l1[p][k] # NoPayload => KeyOf(l1[p][k].code.ir) = k

Serves == /\ OpenInCall
          /\ OnePath
          /\ FilesServe
          /\ BytesServe
          /\ IRsServe
          /\ L1Serves

FInv == IInv /\ Serves

LEMMA InitServes == Init => Serves
<1> SUFFICES ASSUME Init PROVE Serves
  OBVIOUS
<1>1. \A i \in Inode : Paths(i) = {}
  BY CacheAssumption DEF Init, Paths, CacheAssumption
<1>2. OpenInCall /\ OnePath /\ FilesServe
  BY <1>1 DEF Init, OpenInCall, OnePath, FilesServe
<1>3. BytesServe /\ IRsServe /\ L1Serves
  BY DEF Init, BytesServe, IRsServe, L1Serves, Built
<1> QED BY <1>2, <1>3 DEF Serves

\* Inodes that get no new path and no new content.
LEMMA PathsFrame ==
  ASSUME OnePath, FilesServe,
         \A i \in Inode : Paths(i)' \subseteq Paths(i),
         \A i \in Inode : content'[i] \in {content[i], Torn}
  PROVE  OnePath' /\ FilesServe'
<1>1. OnePath'
  BY DEF OnePath
<1>2. FilesServe'
  BY DEF FilesServe, KeyOf
<1> QED BY <1>1, <1>2

\* Directory entries that go, and files that are closed or stay open for
\* the same request, give no inode a new path.
LEMMA FewerPaths ==
  ASSUME \A k \in Key : dir'[k] \in {dir[k], NoInode},
         \A p \in Proc : \/ fd'[p] = NoInode
                         \/ fd'[p] = fd[p] /\ key'[p] = key[p]
  PROVE  \A i \in Inode : Paths(i)' \subseteq Paths(i)
BY CacheAssumption DEF Paths, Path, KeyOf, CacheAssumption

\* Processes that keep what they have, or lose it.
LEMMA HoldingsFrame ==
  ASSUME BytesServe, IRsServe, L1Serves,
         \A p \in Proc : pc'[p] = "loaded" =>
           pc[p] = "loaded" /\ bytes'[p] = bytes[p] /\ key'[p] = key[p],
         \A p \in Proc : pc'[p] \in Built =>
           pc[p] \in Built /\ ir'[p] = ir[p] /\ key'[p] = key[p],
         \A p \in Proc, k \in Key : l1'[p][k] \in {l1[p][k], NoPayload}
  PROVE  BytesServe' /\ IRsServe' /\ L1Serves'
<1>1. BytesServe'
  BY DEF BytesServe, Path, KeyOf
<1>2. IRsServe'
  BY DEF IRsServe, Path, KeyOf, Built
<1>3. L1Serves'
  BY DEF L1Serves, KeyOf
<1> QED BY <1>1, <1>2, <1>3

\* Steps that open nothing and make nothing.
LEMMA QuietStep ==
  ASSUME Serves, OpenInCall',
         \A k \in Key : dir'[k] \in {dir[k], NoInode},
         \A p \in Proc : \/ fd'[p] = NoInode
                         \/ fd'[p] = fd[p] /\ key'[p] = key[p],
         \A i \in Inode : content'[i] \in {content[i], Torn},
         \A p \in Proc : pc'[p] = "loaded" =>
           pc[p] = "loaded" /\ bytes'[p] = bytes[p] /\ key'[p] = key[p],
         \A p \in Proc : pc'[p] \in Built =>
           pc[p] \in Built /\ ir'[p] = ir[p] /\ key'[p] = key[p],
         \A p \in Proc, k \in Key : l1'[p][k] \in {l1[p][k], NoPayload}
  PROVE  Serves'
<1>1. OnePath' /\ FilesServe'
  BY FewerPaths, PathsFrame DEF Serves
<1>2. BytesServe' /\ IRsServe' /\ L1Serves'
  BY HoldingsFrame DEF Serves
<1> QED BY <1>1, <1>2 DEF Serves

LEMMA CallServes ==
  ASSUME TypeOK, Serves, NEW p \in Proc, NEW r \in Request,
         CallHit(p, r) \/ CallMiss(p, r)
  PROVE  Serves'
<1> USE DEF TypeOK, Serves, OpenInCall, Goto, inProc, disk, Built
<1>1. CASE CallHit(p, r)
  BY <1>1, QuietStep DEF CallHit
<1>2. CASE CallMiss(p, r)
  BY <1>2, QuietStep DEF CallMiss
<1> QED BY <1>1, <1>2

LEMMA QuietLoads ==
  ASSUME TypeOK, Serves, NEW p \in Proc,
         \/ NoFile(p) \/ LockShared(p) \/ LoadError(p)
         \/ LoadReject(p) \/ ParseError(p) \/ BuildError(p)
  PROVE  Serves'
<1> USE DEF TypeOK, Serves, OpenInCall, Goto, Finish, Unlink, inProc, disk, Built
<1>1. CASE NoFile(p)
  BY <1>1, QuietStep DEF NoFile
<1>2. CASE LockShared(p)
  BY <1>2, QuietStep DEF LockShared
<1>3. CASE LoadError(p)
  BY <1>3, QuietStep DEF LoadError
<1>4. CASE LoadReject(p)
  BY <1>4, QuietStep DEF LoadReject
<1>5. CASE ParseError(p)
  BY <1>5, QuietStep DEF ParseError
<1>6. CASE BuildError(p)
  BY <1>6, QuietStep DEF BuildError, InvalidateBoth
<1> QED BY <1>1, <1>2, <1>3, <1>4, <1>5, <1>6

LEMMA QuietSaves ==
  ASSUME TypeOK, Serves, NEW p \in Proc,
         \/ LockExclusive(p) \/ SaveError(p) \/ Evict(p)
         \/ CompileError(p) \/ LinkPanic(p) \/ Crash(p)
  PROVE  Serves'
<1> USE DEF TypeOK, Serves, OpenInCall, Goto, Finish, Unlink, inProc, disk, Built
<1>1. CASE LockExclusive(p)
  BY <1>1, QuietStep DEF LockExclusive
<1>2. CASE SaveError(p)
  BY <1>2, QuietStep DEF SaveError, PartialWrite
<1>3. CASE Evict(p)
  BY <1>3, QuietStep DEF Evict
<1>4. CASE CompileError(p)
  BY <1>4, QuietStep DEF CompileError, InvalidateBoth
<1>5. CASE LinkPanic(p)
  BY <1>5, QuietStep DEF LinkPanic
<1>6. CASE Crash(p)
  BY <1>6, QuietStep DEF Crash, PartialWrite
<1> QED BY <1>1, <1>2, <1>3, <1>4, <1>5, <1>6

\* A process opens the file its path names: no new path for that inode.
LEMMA OpenForLoadServes ==
  ASSUME TypeOK, Serves, NEW p \in Proc, OpenForLoad(p)
  PROVE  Serves'
<1>1. Path(p) \in Key /\ pc[p] = "opening" /\ fd'[p] = dir[Path(p)]
  BY PathType DEF OpenForLoad, Goto, TypeOK
<1>2. \A q \in Proc : /\ Path(q)' = Path(q)
                      /\ q # p => fd'[q] = fd[q]
  BY DEF OpenForLoad, Path, KeyOf, TypeOK
<1>3. ASSUME NEW i \in Inode PROVE Paths(i)' \subseteq Paths(i)
  BY <1>1, <1>2 DEF Paths, OpenForLoad, disk
<1>4. OnePath' /\ FilesServe'
  BY <1>3, PathsFrame DEF Serves, OpenForLoad, disk
<1>5. BytesServe' /\ IRsServe' /\ L1Serves'
  BY HoldingsFrame DEF OpenForLoad, Goto, Serves, TypeOK, Built, inProc
<1>6. OpenInCall'
  BY <1>1, <1>2 DEF OpenInCall, Serves, OpenForLoad, Goto, TypeOK
<1> QED BY <1>4, <1>5, <1>6 DEF Serves

\* A process creates its file in an inode that nobody has, or truncates the
\* one its path names.
LEMMA OpenForSaveServes ==
  ASSUME TypeOK, Serves, NEW p \in Proc, OpenForSave(p)
  PROVE  Serves'
<1>1. PICK i \in Inode :
        /\ IF dir[Path(p)] = NoInode THEN Free(i) ELSE i = dir[Path(p)]
        /\ dir' = [dir EXCEPT ![Path(p)] = i]
        /\ content' = [content EXCEPT ![i] = Torn]
        /\ fd' = [fd EXCEPT ![p] = i]
  BY DEF OpenForSave
<1>2. Path(p) \in Key /\ pc[p] = "saving" /\ \A q \in Proc : Path(q)' = Path(q)
  BY PathType DEF OpenForSave, Goto, Path, KeyOf
<1>3. Paths(i) \subseteq {Path(p)}
  <2>1. CASE dir[Path(p)] = NoInode
    BY <1>1, <2>1 DEF Free, Paths
  <2>2. CASE dir[Path(p)] # NoInode
    <3>1. Path(p) \in Paths(i)
      BY <1>1, <1>2, <2>2 DEF Paths
    <3> QED BY <3>1 DEF Serves, OnePath
  <2> QED BY <2>1, <2>2
<1>4. Paths(i)' \subseteq {Path(p)}
  <2>1. \A k \in Key : dir'[k] = i => k = Path(p) \/ dir[k] = i
    BY <1>1, <1>2 DEF TypeOK
  <2>2. \A q \in Proc : fd'[q] = i => q = p \/ fd[q] = i
    BY <1>1 DEF TypeOK
  <2>3. \A k \in Key : dir'[k] = i => k = Path(p)
    BY <1>3, <2>1 DEF Paths
  <2>4. \A q \in Proc : fd'[q] = i => Path(q) = Path(p)
    BY <1>3, <2>2 DEF Paths
  <2> QED BY <1>2, <2>3, <2>4 DEF Paths
<1>5. \A j \in Inode \ {i} : Paths(j)' \subseteq Paths(j)
  BY <1>1, <1>2 DEF Paths, TypeOK
<1>6. OnePath'
  BY <1>4, <1>5 DEF Serves, OnePath
<1>7. FilesServe'
  <2> SUFFICES ASSUME NEW j \in Inode, content'[j] # Torn
               PROVE  \A k \in Paths(j)' : KeyOf(content'[j].ir) = k
    BY DEF FilesServe, KeyOf
  <2>1. j # i /\ content'[j] = content[j]
    BY <1>1 DEF TypeOK
  <2> QED BY <1>5, <2>1 DEF Serves, FilesServe
<1>8. BytesServe' /\ IRsServe' /\ L1Serves'
  BY HoldingsFrame DEF OpenForSave, Goto, Serves, TypeOK, Built, inProc
<1>9. OpenInCall'
  BY <1>1, <1>2 DEF OpenInCall, Serves, OpenForSave, Goto, TypeOK
<1> QED BY <1>6, <1>7, <1>8, <1>9 DEF Serves

\* What is read from a file is what its one path promises.
LEMMA ReadServes ==
  ASSUME TypeOK, Serves, NEW p \in Proc, Read(p)
  PROVE  Serves'
<1>1. /\ pc[p] = "reading" /\ fd[p] \in Inode
      /\ bytes' = [bytes EXCEPT ![p] = content[fd[p]]]
      /\ pc' = [pc EXCEPT ![p] = "loaded"]
      /\ UNCHANGED <<registry, bound, l1, dir, content, key, fd, ir>>
  BY DEF Read, Goto, TypeOK, Opened, inProc, disk
<1>2. \A q \in Proc : Path(q)' = Path(q)
  BY <1>1 DEF Path, KeyOf
<1>3. OnePath' /\ FilesServe'
  BY <1>1, FewerPaths, PathsFrame DEF Serves
<1>4. BytesServe'
  <2> SUFFICES ASSUME NEW q \in Proc, pc'[q] = "loaded", bytes'[q] # Torn
               PROVE  KeyOf(bytes'[q].ir) = Path(q)
    BY <1>2 DEF BytesServe, KeyOf
  <2>1. CASE q = p
    <3>1. bytes'[q] = content[fd[p]] /\ Path(p) \in Paths(fd[p])
      BY <1>1, <2>1 DEF TypeOK, Paths
    <3> QED BY <1>1, <2>1, <3>1 DEF Serves, FilesServe
  <2>2. CASE q # p
    BY <1>1, <2>2 DEF Serves, BytesServe, TypeOK
  <2> QED BY <2>1, <2>2
<1>5. IRsServe' /\ L1Serves' /\ OpenInCall'
  BY <1>1, <1>2 DEF Serves, IRsServe, L1Serves, OpenInCall, Built, TypeOK, KeyOf
<1> QED BY <1>3, <1>4, <1>5 DEF Serves

\* An IR is what the bytes held, or is built for the request.
LEMMA BuildServes ==
  ASSUME TypeOK, Serves, NEW p \in Proc, Build(p) \/ LoadHit(p)
  PROVE  Serves'
<1>1. /\ UNCHANGED <<registry, bound, l1, dir, content, key>>
      /\ \A q \in Proc \ {p} : pc'[q] = pc[q] /\ ir'[q] = ir[q] /\ bytes'[q] = bytes[q]
      /\ \A q \in Proc : fd'[q] \in {fd[q], NoInode}
      /\ pc'[p] \notin {"loaded", "idle"} /\ pc[p] # "idle"
  BY DEF Build, LoadHit, Goto, TypeOK, inProc, disk
<1>2. \A q \in Proc : Path(q)' = Path(q)
  BY <1>1 DEF Path, KeyOf
<1>3. OnePath' /\ FilesServe'
  BY <1>1, FewerPaths, PathsFrame DEF Serves
<1>4. KeyOf(ir'[p]) = Path(p)
  <2>1. CASE Build(p)
    <3>1. /\ ir'[p].src = key[p].src
          /\ ir'[p].mode = key[p].mode
      BY <2>1 DEF Build, TypeOK
    <3> QED BY <3>1 DEF Path, KeyOf
  <2>2. CASE LoadHit(p)
    <3>1. ir'[p] = bytes[p].ir /\ pc[p] = "loaded" /\ bytes[p] # Torn
      BY <2>2 DEF LoadHit, Goto, Usable, TypeOK
    <3> QED BY <3>1 DEF Serves, BytesServe
  <2> QED BY <2>1, <2>2
<1>5. IRsServe'
  BY <1>1, <1>2, <1>4 DEF Serves, IRsServe, Built, KeyOf
<1>6. BytesServe' /\ L1Serves' /\ OpenInCall'
  BY <1>1, <1>2 DEF Serves, BytesServe, L1Serves, OpenInCall, KeyOf
<1> QED BY <1>3, <1>5, <1>6 DEF Serves

\* The file a process writes to is still that of its path, or has no name.
LEMMA WriteServes ==
  ASSUME TypeOK, Serves, NEW p \in Proc, Write(p)
  PROVE  Serves'
<1> DEFINE c == [ir |-> ir[p], deps |-> Dependencies(p, ir[p].src)]
<1>1. /\ pc[p] = "writing" /\ pc[p] \in Built /\ fd[p] \in Inode
      /\ content' = [content EXCEPT ![fd[p]] = c]
      /\ fd' = [fd EXCEPT ![p] = NoInode]
      /\ pc' = [pc EXCEPT ![p] = "evicting"]
      /\ UNCHANGED <<registry, bound, l1, dir, key, bytes, ir>>
  BY DEF Write, Goto, TypeOK, Opened, Built, inProc
<1>2. \A q \in Proc : Path(q)' = Path(q)
  BY <1>1 DEF Path, KeyOf
<1>3. \A i \in Inode : Paths(i)' \subseteq Paths(i)
  BY <1>1, FewerPaths DEF TypeOK
<1>4. OnePath'
  BY <1>3 DEF Serves, OnePath
<1>5. FilesServe'
  <2> SUFFICES ASSUME NEW i \in Inode, content'[i] # Torn, NEW k \in Paths(i)
               PROVE  KeyOf(content'[i].ir) = k
    BY <1>3 DEF FilesServe, KeyOf
  <2>1. CASE i = fd[p]
    <3>1. k = Path(p)
      BY <2>1 DEF Serves, OnePath, Paths
    <3>2. content'[i].ir = ir[p]
      BY <1>1, <2>1 DEF TypeOK
    <3> QED BY <1>1, <3>1, <3>2 DEF Serves, IRsServe
  <2>2. CASE i # fd[p]
    <3>1. content'[i] = content[i]
      BY <1>1, <2>2 DEF TypeOK
    <3> QED BY <3>1 DEF Serves, FilesServe
  <2> QED BY <2>1, <2>2
<1>6. BytesServe' /\ IRsServe' /\ L1Serves'
  BY <1>1, HoldingsFrame DEF Serves, Built, TypeOK
<1>7. OpenInCall'
  BY <1>1 DEF Serves, OpenInCall, TypeOK
<1> QED BY <1>4, <1>5, <1>6, <1>7 DEF Serves

LEMMA CompileServes ==
  ASSUME TypeOK, Serves, NEW p \in Proc, Compile(p)
  PROVE  Serves'
<1>1. /\ pc[p] = "compiling" /\ pc' = [pc EXCEPT ![p] = "idle"]
      /\ fd' = [fd EXCEPT ![p] = NoInode]
      /\ key' = [key EXCEPT ![p] = NoPayload]
      /\ bytes' = [bytes EXCEPT ![p] = NoPayload]
      /\ ir' = [ir EXCEPT ![p] = NoPayload]
      /\ l1' = [l1 EXCEPT ![p][Path(p)] =
              [code |-> NewCode(p), deps |-> Dependencies(p, ir[p].src)]]
      /\ UNCHANGED <<dir, content>>
  BY DEF Compile, NewCode, Goto, Finish, disk
<1>2. OnePath' /\ FilesServe'
  BY <1>1, FewerPaths, PathsFrame DEF Serves, TypeOK
<1>3. BytesServe' /\ IRsServe'
  <2>1. \A q \in Proc : pc'[q] # "idle" =>
          /\ q # p /\ pc'[q] = pc[q] /\ key'[q] = key[q]
          /\ bytes'[q] = bytes[q] /\ ir'[q] = ir[q]
    BY <1>1 DEF TypeOK
  <2>2. BytesServe'
    BY <2>1 DEF Serves, BytesServe, Path, KeyOf
  <2>3. IRsServe'
    BY <2>1 DEF Serves, IRsServe, Path, KeyOf, Built
  <2> QED BY <2>2, <2>3
<1>4. L1Serves'
  <2> SUFFICES ASSUME NEW q \in Proc, NEW k \in Key, l1'[q][k] # NoPayload
               PROVE  KeyOf(l1'[q][k].code.ir) = k
    BY DEF L1Serves, KeyOf
  <2>1. CASE q = p /\ k = Path(p)
    <3>1. l1'[q][k].code.ir = ir[p]
      BY <1>1, <2>1 DEF TypeOK, NewCode
    <3> QED BY <1>1, <2>1, <3>1 DEF Serves, IRsServe, Built
  <2>2. CASE ~(q = p /\ k = Path(p))
    <3>1. l1'[q][k] = l1[q][k]
      BY <1>1, <2>2 DEF TypeOK
    <3> QED BY <3>1 DEF Serves, L1Serves
  <2> QED BY <2>1, <2>2
<1>5. OpenInCall'
  BY <1>1 DEF Serves, OpenInCall, TypeOK
<1> QED BY <1>2, <1>3, <1>4, <1>5 DEF Serves

LEMMA NextServes == TypeOK /\ Serves /\ [Next]_vars => Serves'
<1> SUFFICES ASSUME TypeOK, Serves, [Next]_vars PROVE Serves'
  OBVIOUS
<1>1. CASE UNCHANGED vars
  BY <1>1, QuietStep DEF vars, Serves, OpenInCall
<1>2. CASE Next
  <2>1. PICK p \in Proc :
          \/ \E r \in Request : CallHit(p, r) \/ CallMiss(p, r)
          \/ Locking(p) \/ Working(p) \/ IOError(p) \/ Crash(p)
    BY <1>2 DEF Next
  <2>2. CASE \E r \in Request : CallHit(p, r) \/ CallMiss(p, r)
    BY <2>2, CallServes
  <2>3. CASE Locking(p) \/ IOError(p) \/ Crash(p)
    BY <2>3, QuietLoads, QuietSaves DEF Locking, IOError
  <2>4. CASE Working(p)
    BY <2>4, QuietLoads, QuietSaves, OpenForLoadServes, OpenForSaveServes,
       ReadServes, BuildServes, WriteServes, CompileServes DEF Working
  <2> QED BY <2>1, <2>2, <2>3, <2>4
<1> QED BY <1>1, <1>2

\* Whatever is found under a key was made for a request with that key, and
\* what it says of its proof is so.
THEOREM KeysAreServed == Spec => []FInv
<1>1. Init => FInv
  BY InitIInv, InitServes DEF FInv
<1>2. FInv /\ [Next]_vars => FInv'
  BY NextIInv, NextServes DEF FInv, IInv
<1> QED BY <1>1, <1>2, PTL DEF Spec

(* Unproved code is never returned for a request with verify=true: the     *)
(* flag is a part of the key, and code is stored and found under its key.  *)
THEOREM ProofOnRequest == Spec => []VerifiedIsProved
<1>1. FInv => VerifiedIsProved
  <2> SUFFICES ASSUME FInv, NEW p \in Proc, NEW r \in Request,
                      l1[p][KeyOf(r)] # NoPayload
               PROVE  LET x == l1[p][KeyOf(r)].code.ir
                      IN x.src = r.src /\ (r.mode => <<x.src, x.view>> \in Provable)
    BY DEF VerifiedIsProved
  <2> DEFINE x == l1[p][KeyOf(r)].code.ir
  <2>1. KeyOf(x) = KeyOf(r) /\ Accepted(x)
    BY KeyType DEF FInv, Serves, L1Serves, IInv, L1Consistent, Consistent
  <2> QED BY <2>1 DEF KeyOf, Accepted
<1> QED BY <1>1, KeysAreServed, PTL

(* A file found by its name is torn, or holds the IR of the definition and *)
(* the flag the name is made of, with the signatures its proof used,       *)
(* whichever processes have truncated, written or removed files under that *)
(* name meanwhile, or died doing it.                                       *)
THEOREM FilesAreFaithful == Spec => []DiskFaithful
<1>1. FInv => DiskFaithful
  <2> SUFFICES ASSUME FInv, NEW r \in Request,
                      dir[KeyOf(r)] # NoInode, content[dir[KeyOf(r)]] # Torn
               PROVE  LET c == content[dir[KeyOf(r)]] IN
                        /\ c.ir.src = r.src /\ c.ir.mode = r.mode
                        /\ \A n \in Others(r.src) : c.deps[n] = c.ir.view[n]
                        /\ r.mode => <<r.src, c.ir.view>> \in Provable
    BY DEF DiskFaithful
  <2> DEFINE i == dir[KeyOf(r)]
             c == content[i]
  <2>1. i \in Inode /\ KeyOf(r) \in Paths(i)
    BY KeyType DEF FInv, IInv, TypeOK, Paths
  <2>2. KeyOf(c.ir) = KeyOf(r) /\ Recorded(c)
    BY <2>1 DEF FInv, Serves, FilesServe, IInv, FilesRecorded
  <2> QED BY <2>2 DEF KeyOf, Recorded, Accepted
<1> QED BY <1>1, KeysAreServed, PTL
=============================================================================
