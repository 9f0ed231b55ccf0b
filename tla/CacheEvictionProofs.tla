------------------------ MODULE CacheEvictionProofs ------------------------
(***************************************************************************)
(* Proofs about CacheEviction, for any number of processes and files, any  *)
(* sizes and any limit.                                                    *)
(***************************************************************************)
EXTENDS CacheEviction, FiniteSetTheorems, TLAPS

-----------------------------------------------------------------------------
(* Sizes                                                                   *)

Sized(files) ==
  IsFiniteSet(DOMAIN files) /\ \A f \in DOMAIN files : files[f].size \in Nat

\* The bytes of one file.
LEMMA OneFile ==
  ASSUME NEW f, NEW n \in Nat
  PROVE  IsFiniteSet({f} \X (1 .. n)) /\ Cardinality({f} \X (1 .. n)) = n
<1>1. IsFiniteSet(1 .. n) /\ Cardinality(1 .. n) = n
  BY FS_Interval
<1>2. IsFiniteSet({f}) /\ Cardinality({f}) = 1
  BY FS_Singleton
<1>. QED  BY <1>1, <1>2, FS_Product

LEMMA TotalIsNat ==
  ASSUME NEW files, Sized(files)
  PROVE  IsFiniteSet(BytesOf(files)) /\ TotalSize(files) \in Nat
<1>. DEFINE bytes == [f \in DOMAIN files |-> {f} \X (1 .. files[f].size)]
            parts == {bytes[f] : f \in DOMAIN files}
<1>1. IsFiniteSet(DOMAIN files)
  BY DEF Sized
<1>2. bytes \in Surjection(DOMAIN files, parts)
  BY DEF Surjection
<1>3. IsFiniteSet(parts)
  <2>. HIDE DEF bytes, parts
  <2>. QED  BY <1>1, <1>2, FS_Surjection
<1>4. ASSUME NEW part \in parts PROVE IsFiniteSet(part)
  <2>1. PICK f \in DOMAIN files : part = {f} \X (1 .. files[f].size)
    OBVIOUS
  <2>. QED  BY <2>1, OneFile DEF Sized
<1>5. BytesOf(files) = UNION parts
  BY DEF BytesOf
<1>6. IsFiniteSet(BytesOf(files))
  <2>. HIDE DEF parts
  <2>. QED  BY <1>3, <1>4, <1>5, FS_UNION
<1>. QED  BY <1>6, FS_CardinalityType DEF TotalSize

\* Files that are not smaller have not fewer bytes.
LEMMA MoreIsLarger ==
  ASSUME NEW few, NEW many, Sized(few), Sized(many),
         \A f \in DOMAIN few :
           few[f].size > 0 => f \in DOMAIN many /\ few[f].size <= many[f].size
  PROVE  TotalSize(few) <= TotalSize(many)
<1>1. ASSUME NEW byte \in BytesOf(few) PROVE byte \in BytesOf(many)
  <2>1. PICK f \in DOMAIN few : byte \in {f} \X (1 .. few[f].size)
    BY DEF BytesOf
  <2>2. few[f].size > 0
    BY <2>1 DEF Sized
  <2>3. f \in DOMAIN many /\ 1 .. few[f].size \subseteq 1 .. many[f].size
    BY <2>2 DEF Sized
  <2>4. byte \in {f} \X (1 .. many[f].size)
    BY <2>1, <2>3
  <2>. QED  BY <2>3, <2>4 DEF BytesOf
<1>. QED  BY <1>1, TotalIsNat, FS_Subset DEF TotalSize

LEMMA DroppedIsSmaller ==
  ASSUME NEW files, Sized(files), NEW f \in DOMAIN files
  PROVE  /\ Sized(Drop(files, f))
         /\ TotalSize(Drop(files, f)) = TotalSize(files) - files[f].size
<1>. DEFINE rest == Drop(files, f)
            part == {f} \X (1 .. files[f].size)
<1>1. DOMAIN rest = DOMAIN files \ {f} /\ \A g \in DOMAIN rest : rest[g] = files[g]
  BY DEF Drop
<1>2. Sized(rest)
  <2>1. IsFiniteSet(DOMAIN rest)
    BY <1>1, FS_RemoveElement DEF Sized
  <2>. QED  BY <1>1, <2>1 DEF Sized
<1>3. BytesOf(files) = BytesOf(rest) \cup part /\ BytesOf(rest) \cap part = {}
  BY <1>1 DEF BytesOf
<1>4. /\ IsFiniteSet(BytesOf(rest)) /\ TotalSize(rest) \in Nat
      /\ IsFiniteSet(part) /\ Cardinality(part) = files[f].size /\ files[f].size \in Nat
  BY <1>2, TotalIsNat, OneFile DEF Sized
<1>5. Cardinality(BytesOf(files)) = Cardinality(BytesOf(rest)) + Cardinality(part)
  <2>. HIDE DEF rest, part
  <2>1. Cardinality(BytesOf(rest) \cup part)
          = Cardinality(BytesOf(rest)) + Cardinality(part) - Cardinality(BytesOf(rest) \cap part)
    BY <1>4, FS_Union
  <2>2. Cardinality(BytesOf(rest) \cap part) = 0
    BY <1>3, FS_EmptySet
  <2>3. Cardinality(BytesOf(rest)) \in Nat /\ Cardinality(part) \in Nat
    BY <1>4 DEF TotalSize
  <2>. QED  BY <1>3, <2>1, <2>2, <2>3
<1>. QED  BY <1>2, <1>4, <1>5 DEF TotalSize

LEMMA NoneIsEmpty ==
  ASSUME NEW files, DOMAIN files = {}
  PROVE  Sized(files) /\ TotalSize(files) = 0
<1>1. BytesOf(files) = {}
  BY DEF BytesOf
<1>. QED  BY <1>1, FS_EmptySet DEF Sized, TotalSize
-----------------------------------------------------------------------------
(* The inductive invariant                                                 *)

Places == {"idle", "opened", "written", "stat", "remove"}
Stamped == [size : Nat, mtime : Nat]
Entries == [size : Nat, mtime : Nat, holders : SUBSET Proc]

\* Names that have metadata, finitely many.
Table(files, kinds) == IsFiniteSet(DOMAIN files) /\ files \in [DOMAIN files -> kinds]

TypeInv ==
  /\ Table(dir, Entries)
  /\ clock \in Nat
  /\ pc \in [Proc -> Places]
  /\ own = [p \in Proc |-> own[p]]
  /\ unseen = [p \in Proc |-> unseen[p]]
  /\ infos = [p \in Proc |-> infos[p]]
  /\ \A p \in Proc : Table(infos[p], Stamped)
  /\ need \in [Proc -> Int]
  /\ debt \in BOOLEAN

\* What there is, `p` has still to look at, or has seen no smaller.
Covers(p) ==
  \A f \in DOMAIN dir :
    dir[f].size > 0 =>
      \/ f \in unseen[p]
      \/ f \in DOMAIN infos[p] /\ dir[f].size <= infos[p][f].size

\* When its eviction is over the directory is within the limit, unless
\* another process writes in the meantime.
Responsible(p) ==
  \/ pc[p] = "written"
  \/ pc[p] = "stat" /\ Covers(p)
  \/ /\ pc[p] = "remove" /\ Covers(p) /\ unseen[p] = {}
     /\ TotalSize(infos[p]) <= MaxBytes + need[p]

SomeoneIs ==
  ~debt => TotalSize(dir) <= MaxBytes \/ \E p \in Proc : Responsible(p)

\* What a process that is alone has seen is what there is.
Agree(p) ==
  \A f \in DOMAIN infos[p] :
    infos[p][f].size = dir[f].size /\ infos[p][f].mtime = dir[f].mtime

AloneInv ==
  \A p \in alone \cap Proc :
    /\ pc[p] = "stat" =>
         /\ DOMAIN dir = unseen[p] \cup DOMAIN infos[p]
         /\ Agree(p)
    /\ pc[p] = "remove" =>
         /\ DOMAIN dir = DOMAIN infos[p]
         /\ Agree(p)
         /\ need[p] > 0 => TotalSize(dir) = MaxBytes + need[p]

IInv == TypeInv /\ SomeoneIs /\ AloneInv
-----------------------------------------------------------------------------
(* Types                                                                   *)

LEMMA TableIsSized ==
  /\ \A files : Table(files, Entries) => Sized(files)
  /\ \A files : Table(files, Stamped) => Sized(files)
BY DEF Table, Sized, Entries, Stamped

LEMMA DropTable ==
  ASSUME NEW files, NEW kinds, Table(files, kinds), NEW f
  PROVE  Table(Drop(files, f), kinds)
<1>1. DOMAIN Drop(files, f) = DOMAIN files \ {f}
  BY DEF Drop
<1>2. IsFiniteSet(DOMAIN Drop(files, f))
  BY <1>1, FS_RemoveElement DEF Table
<1>. QED  BY <1>2 DEF Table, Drop

LEMMA PutTable ==
  ASSUME NEW files, NEW kinds, Table(files, kinds), NEW f, NEW e \in kinds
  PROVE  Table(Put(files, f, e), kinds)
<1>1. DOMAIN Put(files, f, e) = DOMAIN files \cup {f}
  BY DEF Put
<1>2. IsFiniteSet(DOMAIN Put(files, f, e))
  BY <1>1, FS_AddElement DEF Table
<1>. QED  BY <1>2 DEF Table, Put

LEMMA NoFilesTable == \A kinds : Table(NoFiles, kinds) /\ DOMAIN NoFiles = {}
BY FS_EmptySet DEF Table, NoFiles

LEMMA InitInv == ASSUME EvictionAssumption, Init PROVE IInv
<1>1. dir = NoFiles /\ \A p \in Proc : infos[p] = NoFiles /\ pc[p] = "idle"
  BY DEF Init
<1>2. TypeInv
  <2>1. Table(dir, Entries) /\ \A p \in Proc : Table(infos[p], Stamped)
    BY <1>1, NoFilesTable
  <2>2. clock \in Nat /\ own = [p \in Proc |-> own[p]] /\ debt \in BOOLEAN
    BY DEF Init
  <2>3. pc \in [Proc -> Places]
    BY DEF Init, Places
  <2>4. need \in [Proc -> Int]
    BY DEF Init
  <2>5. unseen = [p \in Proc |-> unseen[p]] /\ infos = [p \in Proc |-> infos[p]]
    BY DEF Init
  <2>. QED  BY <2>1, <2>2, <2>3, <2>4, <2>5 DEF TypeInv
<1>3. SomeoneIs
  <2>1. TotalSize(dir) = 0
    BY <1>1, NoFilesTable, NoneIsEmpty
  <2>. QED  BY <2>1 DEF SomeoneIs, EvictionAssumption
<1>4. AloneInv
  BY DEF Init, AloneInv
<1>. QED  BY <1>2, <1>3, <1>4 DEF IInv

\* Handles go; what a file holds stays.
LEMMA ReleaseTable ==
  ASSUME Table(dir, Entries), NEW p,
         dir' = [f \in DOMAIN dir |-> [dir[f] EXCEPT !.holders = @ \ {p}]]
  PROVE  /\ Table(dir', Entries) /\ DOMAIN dir' = DOMAIN dir
         /\ \A f \in DOMAIN dir : dir'[f].size = dir[f].size
<1>1. \A f \in DOMAIN dir : dir[f] \in Entries
  BY DEF Table
<1>2. \A f \in DOMAIN dir :
        /\ [dir[f] EXCEPT !.holders = @ \ {p}] \in Entries
        /\ [dir[f] EXCEPT !.holders = @ \ {p}].size = dir[f].size
  BY <1>1 DEF Entries
<1>. QED  BY <1>2 DEF Table

LEMMA TypeStep ==
  ASSUME EvictionAssumption, TypeInv, NEW p \in Proc, Step(p)
  PROVE  TypeInv'
<1>1. ASSUME NEW f \in File, Open(p, f) PROVE TypeInv'
  <2>1. clock' \in Nat
    BY <1>1 DEF Open, Tick, TypeInv
  <2>. DEFINE e == [size |-> 0, mtime |-> clock',
                    holders |-> {p} \cup IF Exists(f) THEN dir[f].holders ELSE {}]
  <2>2. e \in Entries
    BY <2>1 DEF Entries, TypeInv, Table, Exists
  <2>3. Table(dir', Entries)
    BY <1>1, <2>2, PutTable DEF Open, TypeInv
  <2>. QED  BY <1>1, <2>1, <2>3 DEF Open, Goto, TypeInv, Places
<1>2. ASSUME NEW n \in Sizes, Write(p, n) PROVE TypeInv'
  <2>. DEFINE f == own[p]
  <2>1. CASE UNCHANGED <<dir, clock>>
    BY <1>2, <2>1 DEF Write, Goto, TypeInv, Places
  <2>2. CASE Exists(f) /\ Tick
             /\ dir' = Put(dir, f, [size |-> IF n > dir[f].size THEN n ELSE dir[f].size,
                                    mtime |-> clock', holders |-> dir[f].holders \ {p}])
    <3>1. clock' \in Nat /\ n \in Nat
      BY <2>2 DEF Tick, TypeInv, EvictionAssumption
    <3>2. [size |-> IF n > dir[f].size THEN n ELSE dir[f].size,
           mtime |-> clock', holders |-> dir[f].holders \ {p}] \in Entries
      BY <2>2, <3>1 DEF Entries, TypeInv, Table, Exists
    <3>3. Table(dir', Entries)
      BY <2>2, <3>2, PutTable DEF TypeInv
    <3>. QED  BY <1>2, <3>1, <3>3 DEF Write, Goto, TypeInv, Places
  <2>. QED  BY <1>2, <2>1, <2>2 DEF Write
<1>3. ASSUME SaveError(p) PROVE TypeInv'
  BY <1>3, ReleaseTable DEF SaveError, Goto, Return, TypeInv, Places
<1>4. ASSUME List(p) PROVE TypeInv'
  BY <1>4, NoFilesTable DEF List, Goto, TypeInv, Places
<1>5. ASSUME Stat(p) PROVE TypeInv'
  <2>1. PICK f \in unseen[p] :
          infos' = IF Exists(f)
                   THEN [infos EXCEPT ![p] = Put(@, f,
                          [size |-> dir[f].size, mtime |-> dir[f].mtime])]
                   ELSE infos
    BY <1>5 DEF Stat
  <2>2. CASE Exists(f)
    <3>1. [size |-> dir[f].size, mtime |-> dir[f].mtime] \in Stamped
      BY <2>2 DEF TypeInv, Table, Entries, Stamped, Exists
    <3>2. Table(Put(infos[p], f, [size |-> dir[f].size, mtime |-> dir[f].mtime]), Stamped)
      BY <3>1, PutTable DEF TypeInv
    <3>. QED  BY <1>5, <2>1, <2>2, <3>2 DEF Stat, TypeInv
  <2>3. CASE ~Exists(f)
    BY <1>5, <2>1, <2>3 DEF Stat, TypeInv
  <2>. QED  BY <2>2, <2>3
<1>6. ASSUME Sum(p) PROVE TypeInv'
  <2>1. TotalSize(infos[p]) \in Nat
    BY TotalIsNat, TableIsSized DEF TypeInv
  <2>. QED  BY <1>6, <2>1 DEF Sum, Goto, TypeInv, Places, Overshoot, EvictionAssumption
<1>7. ASSUME Remove(p) PROVE TypeInv'
  <2>1. PICK f \in DOMAIN infos[p] :
          /\ infos' = [infos EXCEPT ![p] = Drop(@, f)]
          /\ dir' = Drop(dir, f)
          /\ need' = IF Exists(f) THEN [need EXCEPT ![p] = @ - infos[p][f].size] ELSE need
    BY <1>7 DEF Remove
  <2>2. Table(dir', Entries) /\ Table(Drop(infos[p], f), Stamped)
    BY <2>1, DropTable DEF TypeInv
  <2>3. infos[p][f].size \in Nat
    BY <2>1 DEF TypeInv, Table, Stamped
  <2>. QED  BY <1>7, <2>1, <2>2, <2>3 DEF Remove, TypeInv
<1>8. ASSUME Done(p) PROVE TypeInv'
  <2>1. /\ infos' = [q \in Proc |-> infos'[q]]
        /\ \A q \in Proc : Table(infos'[q], Stamped)
    BY <1>8, NoFilesTable DEF Done, TypeInv
  <2>2. need' \in [Proc -> Int] /\ pc' \in [Proc -> Places]
    BY <1>8 DEF Done, Goto, TypeInv, Places
  <2>. QED  BY <1>8, <2>1, <2>2 DEF Done, Return, TypeInv
<1>9. ASSUME NEW f \in File, Invalidate(p, f) PROVE TypeInv'
  BY <1>9, DropTable DEF Invalidate, TypeInv
<1>10. ASSUME Crash(p) PROVE TypeInv'
  <2>1. /\ infos' = [q \in Proc |-> infos'[q]] /\ unseen' = [q \in Proc |-> unseen'[q]]
        /\ \A q \in Proc : Table(infos'[q], Stamped)
    BY <1>10, NoFilesTable DEF Crash, TypeInv
  <2>2. need' \in [Proc -> Int] /\ pc' \in [Proc -> Places] /\ debt' \in BOOLEAN
    BY <1>10 DEF Crash, TypeInv, Places
  <2>3. Table(dir', Entries)
    BY <1>10, ReleaseTable DEF Crash, TypeInv
  <2>. QED  BY <1>10, <2>1, <2>2, <2>3 DEF Crash, Return, TypeInv
<1>. QED  BY <1>1, <1>2, <1>3, <1>4, <1>5, <1>6, <1>7, <1>8, <1>9, <1>10 DEF Step

LEMMA FaultTypes ==
  ASSUME EvictionAssumption, TypeInv, NEW p \in Proc, Fault(p)
  PROVE  TypeInv'
<1>0. debt' \in BOOLEAN
  BY DEF Fault
<1>1. ASSUME NEW n \in Sizes, NEW k \in 1 .. n - 1, PartialWrite(p, n, k) PROVE TypeInv'
  <2>. DEFINE f == own[p]
              e == [size |-> IF k > dir[f].size THEN k ELSE dir[f].size,
                    mtime |-> clock', holders |-> dir[f].holders \ {p}]
  <2>1. clock' \in Nat /\ k \in Nat
    BY <1>1 DEF PartialWrite, Tick, TypeInv, EvictionAssumption
  <2>2. e \in Entries
    BY <1>1, <2>1 DEF PartialWrite, Entries, TypeInv, Table, Exists
  <2>3. Table(dir', Entries)
    BY <1>1, <2>2, PutTable DEF PartialWrite, TypeInv
  <2>. QED  BY <1>0, <1>1, <2>1, <2>3 DEF PartialWrite, Goto, Return, TypeInv, Places
<1>2. ASSUME ListError(p) PROVE TypeInv'
  BY <1>0, <1>2 DEF ListError, Goto, Return, TypeInv, Places
<1>3. ASSUME RemoveError(p) PROVE TypeInv'
  <2>1. PICK f \in DOMAIN infos[p] : infos' = [infos EXCEPT ![p] = Drop(@, f)]
    BY <1>3 DEF RemoveError
  <2>2. Table(Drop(infos[p], f), Stamped)
    BY DropTable DEF TypeInv
  <2>. QED  BY <1>0, <1>3, <2>1, <2>2 DEF RemoveError, TypeInv
<1>. QED  BY <1>1, <1>2, <1>3 DEF Fault
-----------------------------------------------------------------------------
(* Somebody sees to the limit                                              *)

\* Nothing has grown.
Shrinks ==
  \A f \in DOMAIN dir' :
    dir'[f].size > 0 => f \in DOMAIN dir /\ dir'[f].size <= dir[f].size

Stays(p) ==
  /\ pc'[p] = pc[p] /\ unseen'[p] = unseen[p]
  /\ infos'[p] = infos[p] /\ need'[p] = need[p]

LEMMA CoversStays ==
  ASSUME TypeInv, TypeInv', Shrinks, NEW p \in Proc, Covers(p),
         unseen'[p] = unseen[p], infos'[p] = infos[p]
  PROVE  Covers(p)'
<1>1. ASSUME NEW f \in DOMAIN dir', dir'[f].size > 0
      PROVE  \/ f \in unseen[p]
             \/ f \in DOMAIN infos[p] /\ dir'[f].size <= infos[p][f].size
  <2>1. f \in DOMAIN dir /\ dir'[f].size <= dir[f].size
    BY <1>1 DEF Shrinks
  <2>2. dir'[f].size \in Nat /\ dir[f].size \in Nat
    BY <2>1 DEF TypeInv, Table, Entries
  <2>3. f \in DOMAIN infos[p] => infos[p][f].size \in Nat
    BY DEF TypeInv, Table, Stamped
  <2>4. dir[f].size > 0
    BY <1>1, <2>1, <2>2
  <2>. QED  BY <2>1, <2>2, <2>3, <2>4 DEF Covers
<1>. QED  BY <1>1 DEF Covers

LEMMA ResponsibleStays ==
  ASSUME TypeInv, TypeInv', Shrinks, NEW p \in Proc, Stays(p), Responsible(p)
  PROVE  Responsible(p)'
<1>1. Covers(p) => Covers(p)'
  BY CoversStays DEF Stays
<1>. QED  BY <1>1 DEF Stays, Responsible

LEMMA ShrinksTotal ==
  ASSUME TypeInv, TypeInv', Shrinks
  PROVE  TotalSize(dir') <= TotalSize(dir)
<1>1. Sized(dir) /\ Sized(dir')
  BY TableIsSized DEF TypeInv
<1>. QED  BY <1>1, MoreIsLarger DEF Shrinks

\* A step that makes nothing larger and takes nobody responsible further.
LEMMA OthersStay ==
  ASSUME EvictionAssumption, TypeInv, TypeInv', SomeoneIs, Shrinks, debt' = debt,
         \A p \in Proc : Responsible(p) => Stays(p)
  PROVE  SomeoneIs'
<1>1. CASE debt
  BY <1>1 DEF SomeoneIs
<1>2. CASE TotalSize(dir) <= MaxBytes
  <2>1. TotalSize(dir) \in Nat /\ TotalSize(dir') \in Nat
    BY TableIsSized, TotalIsNat DEF TypeInv
  <2>2. TotalSize(dir') <= MaxBytes
    BY <1>2, <2>1, ShrinksTotal DEF EvictionAssumption
  <2>. QED  BY <2>2 DEF SomeoneIs
<1>3. ASSUME NEW p \in Proc, Responsible(p) PROVE SomeoneIs'
  <2>1. Responsible(p)'
    BY <1>3, ResponsibleStays
  <2>. QED  BY <2>1 DEF SomeoneIs
<1>. QED  BY <1>1, <1>2, <1>3 DEF SomeoneIs

\* What a finished eviction leaves is not more than what it has kept.
LEMMA SeenIsAll ==
  ASSUME TypeInv, NEW p \in Proc, Covers(p), unseen[p] = {}
  PROVE  TotalSize(dir) <= TotalSize(infos[p])
<1>1. Sized(dir) /\ Sized(infos[p])
  BY TableIsSized DEF TypeInv
<1>2. \A f \in DOMAIN dir :
        dir[f].size > 0 => f \in DOMAIN infos[p] /\ dir[f].size <= infos[p][f].size
  BY DEF Covers
<1>. QED  BY <1>1, <1>2, MoreIsLarger

\* An action of another process than the one that sees to the limit.
LEMMA FrameOf ==
  ASSUME TypeInv, NEW q \in Proc, Step(q), NEW p \in Proc, p # q
  PROVE  Stays(p)
<1>1. pc'[p] = pc[p]
  BY DEF Step, Open, Write, SaveError, List, Stat, Sum, Remove, Done, Invalidate, Crash,
         Goto, Return, TypeInv
<1>2. unseen'[p] = unseen[p]
  BY DEF Step, Open, Write, SaveError, List, Stat, Sum, Remove, Done, Invalidate, Crash,
         TypeInv
<1>3. infos'[p] = infos[p]
  BY DEF Step, Open, Write, SaveError, List, Stat, Sum, Remove, Done, Invalidate, Crash,
         TypeInv
<1>4. need'[p] = need[p]
  BY DEF Step, Open, Write, SaveError, List, Stat, Sum, Remove, Done, Invalidate, Crash,
         TypeInv
<1>. QED  BY <1>1, <1>2, <1>3, <1>4 DEF Stays

LEMMA ReleaseShrinks ==
  ASSUME Table(dir, Entries), NEW p,
         dir' = [f \in DOMAIN dir |-> [dir[f] EXCEPT !.holders = @ \ {p}]]
  PROVE  Shrinks
<1>1. DOMAIN dir' = DOMAIN dir /\ \A f \in DOMAIN dir : dir'[f].size = dir[f].size
  BY ReleaseTable
<1>. QED  BY <1>1 DEF Shrinks, Table, Entries

LEMMA SomeoneStep ==
  ASSUME EvictionAssumption, TypeInv, TypeInv', SomeoneIs, NEW q \in Proc, Step(q)
  PROVE  SomeoneIs'
<1>0. \A p \in Proc \ {q} : Stays(p)
  BY FrameOf
<1>a. ASSUME Responsible(q)' PROVE SomeoneIs'
  BY <1>a DEF SomeoneIs
<1>b. ASSUME Shrinks, debt' = debt, ~Responsible(q) PROVE SomeoneIs'
  BY <1>b, <1>0, OthersStay
\* What is left to show when q's responsibility has to be followed.
<1>c. ASSUME Shrinks, debt' = debt,
             Responsible(q) => Responsible(q)' \/ TotalSize(dir') <= MaxBytes
      PROVE  SomeoneIs'
  <2>1. CASE Responsible(q)
    BY <1>c, <2>1 DEF SomeoneIs
  <2>2. CASE ~Responsible(q)
    BY <1>b, <1>c, <2>2
  <2>. QED  BY <2>1, <2>2
<1>1. ASSUME NEW f \in File, Open(q, f) PROVE SomeoneIs'
  <2>1. pc[q] = "idle" /\ debt' = debt
    BY <1>1 DEF Open, Goto
  <2>2. DOMAIN dir' = DOMAIN dir \cup {f} /\ dir'[f].size = 0
    BY <1>1 DEF Open, Put
  <2>3. \A g \in DOMAIN dir' : g # f => g \in DOMAIN dir /\ dir'[g] = dir[g]
    BY <1>1 DEF Open, Put
  <2>4. Shrinks
    BY <2>2, <2>3 DEF Shrinks, TypeInv, Table, Entries
  <2>. QED  BY <1>b, <2>1, <2>4 DEF Responsible
<1>2. ASSUME NEW n \in Sizes, Write(q, n) PROVE SomeoneIs'
  <2>1. pc'[q] = "written"
    BY <1>2 DEF Write, Goto, TypeInv
  <2>. QED  BY <1>a, <2>1 DEF Responsible
<1>3. ASSUME SaveError(q) PROVE SomeoneIs'
  <2>1. pc[q] = "opened" /\ debt' = debt
    BY <1>3 DEF SaveError, Goto
  <2>2. Shrinks
    BY <1>3, ReleaseShrinks DEF SaveError, TypeInv
  <2>. QED  BY <1>b, <2>1, <2>2 DEF Responsible
<1>4. ASSUME List(q) PROVE SomeoneIs'
  <2>1. pc'[q] = "stat" /\ unseen'[q] = DOMAIN dir /\ dir' = dir
    BY <1>4 DEF List, Goto, TypeInv
  <2>2. Covers(q)'
    BY <2>1 DEF Covers
  <2>. QED  BY <1>a, <2>1, <2>2 DEF Responsible
<1>5. ASSUME Stat(q) PROVE SomeoneIs'
  <2>1. PICK f \in unseen[q] :
          /\ unseen' = [unseen EXCEPT ![q] = @ \ {f}]
          /\ infos' = IF Exists(f)
                      THEN [infos EXCEPT ![q] = Put(@, f,
                             [size |-> dir[f].size, mtime |-> dir[f].mtime])]
                      ELSE infos
    BY <1>5 DEF Stat
  <2>2. /\ pc[q] = "stat" /\ pc'[q] = "stat" /\ dir' = dir /\ debt' = debt
        /\ unseen'[q] = unseen[q] \ {f}
    BY <1>5, <2>1 DEF Stat, TypeInv
  <2>3. Shrinks
    BY <2>2 DEF Shrinks, TypeInv, Table, Entries
  <2>4. infos'[q] = IF Exists(f)
                    THEN Put(infos[q], f, [size |-> dir[f].size, mtime |-> dir[f].mtime])
                    ELSE infos[q]
    BY <2>1 DEF TypeInv
  <2>5. ASSUME Covers(q) PROVE Covers(q)'
    <3>1. ASSUME NEW g \in DOMAIN dir, dir[g].size > 0
          PROVE  \/ g \in unseen'[q]
                 \/ g \in DOMAIN infos'[q] /\ dir[g].size <= infos'[q][g].size
      <4>1. CASE g = f
        <5>1. g \in DOMAIN infos'[q] /\ infos'[q][g].size = dir[g].size
          BY <2>4, <4>1 DEF Put, Exists
        <5>. QED  BY <5>1 DEF TypeInv, Table, Entries
      <4>2. CASE g # f
        <5>1. g \in DOMAIN infos[q] => g \in DOMAIN infos'[q] /\ infos'[q][g] = infos[q][g]
          BY <2>4, <4>2 DEF Put
        <5>. QED  BY <2>2, <2>5, <3>1, <4>2, <5>1 DEF Covers
      <4>. QED  BY <4>1, <4>2
    <3>. QED  BY <2>2, <3>1 DEF Covers
  <2>6. Responsible(q) => Responsible(q)'
    BY <2>2, <2>5 DEF Responsible
  <2>. QED  BY <1>c, <2>2, <2>3, <2>6
<1>6. ASSUME Sum(q) PROVE SomeoneIs'
  <2>1. /\ pc[q] = "stat" /\ pc'[q] = "remove" /\ dir' = dir /\ debt' = debt
        /\ unseen' = unseen /\ unseen[q] = {} /\ infos' = infos
    BY <1>6 DEF Sum, Goto, TypeInv
  <2>2. need'[q] = IF TotalSize(infos[q]) <= MaxBytes THEN 0 ELSE TotalSize(infos[q]) - MaxBytes
    BY <1>6 DEF Sum, Overshoot, TypeInv
  <2>3. TotalSize(infos[q]) \in Nat
    BY TotalIsNat, TableIsSized DEF TypeInv
  <2>4. TotalSize(infos[q]) <= MaxBytes + need'[q]
    BY <2>2, <2>3 DEF EvictionAssumption
  <2>5. Shrinks
    BY <2>1 DEF Shrinks, TypeInv, Table, Entries
  <2>6. Covers(q) => Covers(q)'
    BY <2>1 DEF Covers
  <2>7. Responsible(q) => Responsible(q)'
    BY <2>1, <2>4, <2>6 DEF Responsible
  <2>. QED  BY <1>c, <2>1, <2>5, <2>7
<1>7. ASSUME Remove(q) PROVE SomeoneIs'
  <2>1. PICK f \in DOMAIN infos[q] :
          /\ infos' = [infos EXCEPT ![q] = Drop(@, f)]
          /\ dir' = Drop(dir, f)
          /\ need' = IF Exists(f) THEN [need EXCEPT ![q] = @ - infos[q][f].size] ELSE need
    BY <1>7 DEF Remove
  <2>2. /\ pc[q] = "remove" /\ pc' = pc /\ debt' = debt /\ unseen' = unseen
        /\ infos'[q] = Drop(infos[q], f)
    BY <1>7, <2>1 DEF Remove, TypeInv
  <2>3. DOMAIN dir' = DOMAIN dir \ {f} /\ \A g \in DOMAIN dir' : dir'[g] = dir[g]
    BY <2>1 DEF Drop
  <2>4. Shrinks
    BY <2>3 DEF Shrinks, TypeInv, Table, Entries
  <2>5. ASSUME Covers(q) PROVE Covers(q)'
    <3>1. \A g \in DOMAIN infos[q] : g # f => g \in DOMAIN infos'[q] /\ infos'[q][g] = infos[q][g]
      BY <2>2 DEF Drop
    <3>. QED  BY <2>2, <2>3, <2>5, <3>1 DEF Covers
  <2>6. ASSUME TotalSize(infos[q]) <= MaxBytes + need[q]
        PROVE  TotalSize(infos'[q]) <= MaxBytes + need'[q]
    <3>1. Sized(infos[q])
      BY TableIsSized DEF TypeInv
    <3>2. TotalSize(infos'[q]) = TotalSize(infos[q]) - infos[q][f].size
      BY <2>2, <3>1, DroppedIsSmaller
    <3>3. TotalSize(infos[q]) \in Nat /\ infos[q][f].size \in Nat /\ need[q] \in Int
      BY <3>1, TotalIsNat DEF Sized, TypeInv
    <3>4. need'[q] = need[q] - infos[q][f].size \/ need'[q] = need[q]
      BY <2>1 DEF TypeInv
    <3>. QED  BY <2>6, <3>2, <3>3, <3>4 DEF EvictionAssumption
  <2>7. Responsible(q) => Responsible(q)'
    BY <2>2, <2>5, <2>6 DEF Responsible
  <2>. QED  BY <1>c, <2>2, <2>4, <2>7
<1>8. ASSUME Done(q) PROVE SomeoneIs'
  <2>1. /\ pc[q] = "remove" /\ dir' = dir /\ debt' = debt
        /\ need[q] <= 0 \/ DOMAIN infos[q] = {}
    BY <1>8 DEF Done, Goto
  <2>2. Shrinks
    BY <2>1 DEF Shrinks, TypeInv, Table, Entries
  <2>3. ASSUME Responsible(q) PROVE TotalSize(dir') <= MaxBytes
    <3>1. Covers(q) /\ unseen[q] = {} /\ TotalSize(infos[q]) <= MaxBytes + need[q]
      BY <2>1, <2>3 DEF Responsible
    <3>2. TotalSize(dir) <= TotalSize(infos[q])
      BY <3>1, SeenIsAll
    <3>3. TotalSize(dir) \in Nat /\ TotalSize(infos[q]) \in Nat /\ need[q] \in Int
      BY TotalIsNat, TableIsSized DEF TypeInv
    <3>4. DOMAIN infos[q] = {} => TotalSize(infos[q]) = 0
      BY NoneIsEmpty
    <3>. QED  BY <2>1, <3>1, <3>2, <3>3, <3>4 DEF EvictionAssumption
  <2>. QED  BY <1>c, <2>1, <2>2, <2>3
<1>9. ASSUME NEW f \in File, Invalidate(q, f) PROVE SomeoneIs'
  <2>1. pc[q] = "idle" /\ debt' = debt /\ dir' = Drop(dir, f)
    BY <1>9 DEF Invalidate
  <2>2. Shrinks
    BY <2>1 DEF Shrinks, Drop, TypeInv, Table, Entries
  <2>. QED  BY <1>b, <2>1, <2>2 DEF Responsible
<1>10. ASSUME Crash(q) PROVE SomeoneIs'
  <2>1. CASE pc[q] = "opened"
    <3>1. debt' = debt
      BY <1>10, <2>1 DEF Crash, TypeInv
    <3>2. Shrinks
      BY <1>10, ReleaseShrinks DEF Crash, TypeInv
    <3>. QED  BY <1>b, <2>1, <3>1, <3>2 DEF Responsible
  <2>2. CASE pc[q] # "opened"
    BY <1>10, <2>2 DEF Crash, SomeoneIs
  <2>. QED  BY <2>1, <2>2
<1>. QED  BY <1>1, <1>2, <1>3, <1>4, <1>5, <1>6, <1>7, <1>8, <1>9, <1>10 DEF Step
-----------------------------------------------------------------------------
(* A process alone with the directory                                      *)

\* Who is alone after a step is the one who took it, within its save.
LEMMA OnlyTheActor ==
  ASSUME NEW q \in Proc, NEW p \in alone',
         alone' = IF pc[q] = "idle" THEN IF pc'[q] = "opened" THEN {q} ELSE {}
                  ELSE alone \cap {q}
  PROVE  p = q /\ (pc'[q] = "opened" \/ (pc[q] # "idle" /\ q \in alone))
OBVIOUS

\* The same names with the same sizes.
LEMMA SameTotal ==
  ASSUME TypeInv, NEW p \in Proc, DOMAIN dir = DOMAIN infos[p], Agree(p)
  PROVE  TotalSize(dir) = TotalSize(infos[p])
<1>1. Sized(dir) /\ Sized(infos[p])
  BY TableIsSized DEF TypeInv
<1>2. \A f \in DOMAIN dir : infos[p][f].size = dir[f].size /\ dir[f].size \in Nat
  BY <1>1 DEF Agree, Sized
<1>3. TotalSize(dir) <= TotalSize(infos[p])
  BY <1>1, <1>2, MoreIsLarger
<1>4. TotalSize(infos[p]) <= TotalSize(dir)
  BY <1>1, <1>2, MoreIsLarger
<1>. QED  BY <1>1, <1>3, <1>4, TotalIsNat

\* What AloneInv says of one process.
Knows(p) ==
  /\ pc[p] = "stat" => DOMAIN dir = unseen[p] \cup DOMAIN infos[p] /\ Agree(p)
  /\ pc[p] = "remove" =>
       /\ DOMAIN dir = DOMAIN infos[p]
       /\ Agree(p)
       /\ need[p] > 0 => TotalSize(dir) = MaxBytes + need[p]

LEMMA KnowsStep ==
  ASSUME EvictionAssumption, TypeInv, NEW q \in Proc, Step(q), Knows(q), pc[q] # "idle"
  PROVE  Knows(q)'
<1>0. ASSUME pc'[q] \notin {"stat", "remove"} PROVE Knows(q)'
  BY <1>0 DEF Knows
<1>1. ASSUME NEW f \in File, Open(q, f) \/ Invalidate(q, f) PROVE Knows(q)'
  BY <1>1 DEF Open, Invalidate, Goto
<1>2. ASSUME NEW n \in Sizes, Write(q, n) PROVE Knows(q)'
  BY <1>0, <1>2 DEF Write, Goto, TypeInv
<1>3. ASSUME SaveError(q) \/ Done(q) \/ Crash(q) PROVE Knows(q)'
  BY <1>0, <1>3 DEF SaveError, Done, Crash, Goto, TypeInv
<1>4. ASSUME List(q) PROVE Knows(q)'
  <2>1. pc'[q] = "stat" /\ unseen'[q] = DOMAIN dir /\ dir' = dir /\ DOMAIN infos'[q] = {}
    BY <1>4, NoFilesTable DEF List, Goto, TypeInv
  <2>2. Agree(q)'
    BY <2>1 DEF Agree
  <2>. QED  BY <2>1, <2>2 DEF Knows
<1>5. ASSUME Stat(q) PROVE Knows(q)'
  <2>1. PICK f \in unseen[q] :
          /\ unseen' = [unseen EXCEPT ![q] = @ \ {f}]
          /\ infos' = IF Exists(f)
                      THEN [infos EXCEPT ![q] = Put(@, f,
                             [size |-> dir[f].size, mtime |-> dir[f].mtime])]
                      ELSE infos
    BY <1>5 DEF Stat
  <2>2. /\ pc[q] = "stat" /\ pc'[q] = "stat" /\ dir' = dir
        /\ unseen'[q] = unseen[q] \ {f}
    BY <1>5, <2>1 DEF Stat, TypeInv
  <2>3. DOMAIN dir = unseen[q] \cup DOMAIN infos[q] /\ Agree(q)
    BY <2>2 DEF Knows
  <2>4. infos'[q] = Put(infos[q], f, [size |-> dir[f].size, mtime |-> dir[f].mtime])
    BY <2>1, <2>3 DEF TypeInv, Exists
  <2>5. DOMAIN infos'[q] = DOMAIN infos[q] \cup {f}
    BY <2>4 DEF Put
  <2>6. Agree(q)'
    BY <2>2, <2>3, <2>4 DEF Agree, Put
  <2>. QED  BY <2>2, <2>3, <2>5, <2>6 DEF Knows
<1>6. ASSUME Sum(q) PROVE Knows(q)'
  <2>1. /\ pc[q] = "stat" /\ pc'[q] = "remove" /\ dir' = dir
        /\ unseen[q] = {} /\ infos' = infos
    BY <1>6 DEF Sum, Goto, TypeInv
  <2>2. DOMAIN dir = DOMAIN infos[q] /\ Agree(q)
    BY <2>1 DEF Knows
  <2>3. TotalSize(dir) = TotalSize(infos[q]) /\ TotalSize(infos[q]) \in Nat
    BY <2>2, SameTotal, TotalIsNat, TableIsSized DEF TypeInv
  <2>4. need'[q] = IF TotalSize(infos[q]) <= MaxBytes THEN 0 ELSE TotalSize(infos[q]) - MaxBytes
    BY <1>6 DEF Sum, Overshoot, TypeInv
  <2>5. need'[q] > 0 => TotalSize(dir) = MaxBytes + need'[q]
    BY <2>3, <2>4 DEF EvictionAssumption
  <2>6. Agree(q)'
    BY <2>1, <2>2 DEF Agree
  <2>. QED  BY <2>1, <2>2, <2>5, <2>6 DEF Knows
<1>7. ASSUME Remove(q) PROVE Knows(q)'
  <2>1. PICK f \in DOMAIN infos[q] :
          /\ infos' = [infos EXCEPT ![q] = Drop(@, f)]
          /\ dir' = Drop(dir, f)
          /\ need' = IF Exists(f) THEN [need EXCEPT ![q] = @ - infos[q][f].size] ELSE need
    BY <1>7 DEF Remove
  <2>2. /\ pc[q] = "remove" /\ pc' = pc /\ need[q] > 0
        /\ infos'[q] = Drop(infos[q], f)
    BY <1>7, <2>1 DEF Remove, TypeInv
  <2>3. /\ DOMAIN dir = DOMAIN infos[q] /\ Agree(q)
        /\ TotalSize(dir) = MaxBytes + need[q]
    BY <2>2 DEF Knows
  <2>4. Sized(dir) /\ f \in DOMAIN dir
    BY <2>1, <2>3, TableIsSized DEF TypeInv
  <2>5. TotalSize(dir') = TotalSize(dir) - dir[f].size
    BY <2>1, <2>4, DroppedIsSmaller
  <2>6. need'[q] = need[q] - dir[f].size
    BY <2>1, <2>3, <2>4 DEF TypeInv, Agree, Exists
  <2>7. TotalSize(dir') = MaxBytes + need'[q]
    BY <2>3, <2>4, <2>5, <2>6 DEF TypeInv, Sized, EvictionAssumption
  <2>8. DOMAIN dir' = DOMAIN infos'[q] /\ Agree(q)'
    BY <2>1, <2>2, <2>3 DEF Agree, Drop
  <2>. QED  BY <2>2, <2>7, <2>8 DEF Knows
<1>. QED  BY <1>1, <1>2, <1>3, <1>4, <1>5, <1>6, <1>7 DEF Step

LEMMA AloneStep ==
  ASSUME EvictionAssumption, TypeInv, AloneInv, NEW q \in Proc, Step(q),
         alone' = IF pc[q] = "idle" THEN IF pc'[q] = "opened" THEN {q} ELSE {}
                  ELSE alone \cap {q}
  PROVE  AloneInv'
<1>1. ASSUME NEW p \in alone', p \in Proc PROVE Knows(p)'
  <2>1. p = q /\ (pc'[q] = "opened" \/ (pc[q] # "idle" /\ q \in alone))
    BY <1>1, OnlyTheActor
  <2>2. CASE pc'[q] = "opened"
    BY <2>1, <2>2 DEF Knows
  <2>3. CASE pc[q] # "idle" /\ q \in alone
    <3>1. Knows(q)
      BY <2>3 DEF AloneInv, Knows
    <3>. QED  BY <2>1, <2>3, <3>1, KnowsStep
  <2>. QED  BY <2>1, <2>2, <2>3
<1>. QED  BY <1>1 DEF AloneInv, Knows
-----------------------------------------------------------------------------
(* The theorems                                                            *)

\* The strengthening the three theorems rest on.
THEOREM InductiveInvariant == Spec => []IInv
<1>. USE EvictionAssumption
<1>1. Init => IInv
  BY InitInv
<1>2. IInv /\ [Next]_vars => IInv'
  <2>. SUFFICES ASSUME IInv, [Next]_vars PROVE IInv'
    OBVIOUS
  <2>1. CASE UNCHANGED vars
    BY <2>1 DEF vars, IInv, TypeInv, SomeoneIs, Responsible, Covers, AloneInv, Agree
  <2>2. CASE Next
    <3>1. ASSUME NEW q \in Proc, Step(q),
                 alone' = IF pc[q] = "idle" THEN IF pc'[q] = "opened" THEN {q} ELSE {}
                          ELSE alone \cap {q}
          PROVE  IInv'
      <4>1. TypeInv'
        BY <3>1, TypeStep DEF IInv
      <4>2. SomeoneIs'
        BY <3>1, <4>1, SomeoneStep DEF IInv
      <4>3. AloneInv'
        BY <3>1, AloneStep DEF IInv
      <4>. QED  BY <4>1, <4>2, <4>3 DEF IInv
    <3>2. ASSUME NEW q \in Proc, Fault(q), alone' = {} PROVE IInv'
      <4>1. TypeInv'
        BY <3>2, FaultTypes DEF IInv
      <4>2. SomeoneIs' /\ AloneInv'
        BY <3>2 DEF Fault, SomeoneIs, AloneInv
      <4>. QED  BY <4>1, <4>2 DEF IInv
    <3>. QED  BY <2>2, <3>1, <3>2 DEF Next
  <2>. QED  BY <2>1, <2>2
<1>. QED  BY <1>1, <1>2, PTL DEF Spec

\* evict_lru keeps the directory within its limit: when no save is in its
\* eviction, and the last listing came after any write or eviction that died
\* or failed, the files take no more than MaxBytes, whatever other processes
\* saved, removed and evicted in between.
THEOREM EvictionKeepsLimit == Spec => []WithinLimit
<1>1. IInv => WithinLimit
  BY DEF IInv, SomeoneIs, Responsible, WithinLimit, Evicting
<1>. QED  BY <1>1, InductiveInvariant, PTL

\* The step that removes a file while a process is alone is its own, and
\* what it goes by is what there is.
LEMMA RemovalIsItsOwn ==
  ASSUME EvictionAssumption, IInv, Next, NEW p \in Proc, NEW f, Removes(p, f)
  PROVE  /\ f \in DOMAIN infos[p] /\ IsNext(infos[p], f) /\ f \in DOMAIN dir
         /\ DOMAIN dir = DOMAIN infos[p] /\ Agree(p)
         /\ TotalSize(dir) > MaxBytes
<1>1. PICK q \in Proc :
        /\ Step(q)
        /\ alone' = IF pc[q] = "idle" THEN IF pc'[q] = "opened" THEN {q} ELSE {}
                    ELSE alone \cap {q}
  BY DEF Next, Removes
<1>2. p = q /\ pc[q] = "remove" /\ q \in alone
  BY <1>1, OnlyTheActor DEF Removes
<1>3. f \in DOMAIN dir /\ f \notin DOMAIN dir'
  BY DEF Removes, Exists
<1>4. Remove(q)
  <2>1. dir' = dir \/ DOMAIN dir' = DOMAIN dir \/ Remove(q)
    BY <1>1, <1>2 DEF Step, Open, Write, SaveError, List, Stat, Sum, Done, Invalidate, Crash, Goto
  <2>. QED  BY <1>3, <2>1
<1>5. /\ DOMAIN dir = DOMAIN infos[q] /\ Agree(q)
      /\ need[q] > 0 => TotalSize(dir) = MaxBytes + need[q]
  BY <1>2 DEF IInv, AloneInv
<1>6. TotalSize(dir) > MaxBytes
  BY <1>4, <1>5 DEF Remove, IInv, TypeInv, EvictionAssumption
<1>7. PICK g \in DOMAIN infos[q] : IsNext(infos[q], g) /\ dir' = Drop(dir, g)
  BY <1>4 DEF Remove
<1>8. g = f
  BY <1>3, <1>7 DEF Drop
<1>. QED  BY <1>2, <1>3, <1>5, <1>6, <1>7, <1>8

\* A process alone with the directory evicts only while there is too much.
THEOREM EvictsOnlyOverLimit == Spec => NoNeedlessEviction
<1>1. IInv /\ [Next]_vars =>
        [\A p \in Proc, f \in File : Removes(p, f) => TotalSize(dir) > MaxBytes]_vars
  BY RemovalIsItsOwn, EvictionAssumption
<1>. QED  BY <1>1, InductiveInvariant, PTL DEF Spec, NoNeedlessEviction

\* It keeps the file it has just saved, unless that file and those stamped
\* with the same time are too large by themselves: the order of the sort.
THEOREM EvictsOldestFirst == Spec => NewestKept
<1>1. IInv /\ [Next]_vars =>
        [\A p \in Proc, f \in File : f = own[p] /\ Removes(p, f) =>
           LET as_new == {g \in DOMAIN dir : dir[g].mtime >= dir[f].mtime}
           IN TotalSize([g \in as_new |-> dir[g]]) > MaxBytes]_vars
  <2>. SUFFICES ASSUME IInv, Next, NEW p \in Proc, NEW f \in File, Removes(p, f)
                PROVE  TotalSize([g \in {g \in DOMAIN dir : dir[g].mtime >= dir[f].mtime}
                                    |-> dir[g]]) > MaxBytes
    OBVIOUS
  <2>. DEFINE as_new == {g \in DOMAIN dir : dir[g].mtime >= dir[f].mtime}
  <2>1. /\ f \in DOMAIN infos[p] /\ IsNext(infos[p], f) /\ f \in DOMAIN dir
        /\ DOMAIN dir = DOMAIN infos[p] /\ Agree(p)
        /\ TotalSize(dir) > MaxBytes
    BY RemovalIsItsOwn, EvictionAssumption
  <2>2. \A g \in DOMAIN dir : dir[g].mtime \in Nat
    BY DEF IInv, TypeInv, Table, Entries
  <2>3. as_new = DOMAIN dir
    BY <2>1, <2>2 DEF IsNext, Agree
  <2>4. [g \in as_new |-> dir[g]] = dir
    BY <2>3 DEF IInv, TypeInv, Table
  <2>. QED  BY <2>1, <2>4
<1>. QED  BY <1>1, InductiveInvariant, PTL DEF Spec, NewestKept
=============================================================================
