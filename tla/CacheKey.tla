------------------------------- MODULE CacheKey -------------------------------
(***************************************************************************)
(* compute_hash_full and the verify flag mixed into it: which requests     *)
(* share a .lir file and an L1 entry.  The five maps of a request are      *)
(* HashMaps, so each process meets their keys in an order of its own.      *)
(* SeaHash is taken to be injective on the strings it is fed (each ends    *)
(* with a byte no string has), so a key is that sequence of strings; the   *)
(* compiler version and build hash, equal within a build, are left out.    *)
(* A behaviour is a user's session: change one thing, call again.          *)
(***************************************************************************)
EXTENDS Integers, SequencesExt, FiniteSetsExt

CONSTANTS
  Source,      \* function sources and names
  Str,         \* class names, field names and type names: 1..n in string order
  MaxLayouts,  \* bound on the classes and aliases of a request
  MaxFields    \* bound on the fields of a class

ASSUME KeyAssumption ==
  Str \subseteq Nat /\ MaxLayouts \in Nat /\ MaxFields \in Nat

(* The order in which compute_hash_full visits the maps.                   *)
Kinds == <<"struct", "enum", "alias", "named_tuple", "typed_dict">>
Kind == Range(Kinds)

VARIABLES
  req,  \* the request
  key   \* the hash its latest call computed

vars == <<req, key>>

(* The strings one map entry holds: field names and types in turn, or the  *)
(* one type an alias stands for.                                           *)
Fields(kind) == IF kind = "alias" THEN {<<t>> : t \in Str}
                ELSE {FlattenSeq(s) : s \in UNION {[1..n -> Str \X Str] : n \in 0..MaxFields}}

Empty == [s \in {} |-> <<>>]

Size(maps) == MapThenSumSet(LAMBDA k : Cardinality(DOMAIN maps[k]), Kind)

Drop(map, n) == [m \in DOMAIN map \ {n} |-> map[m]]
Put(map, n, fs) == [m \in DOMAIN map \cup {n} |-> IF m = n THEN fs ELSE map[m]]
-----------------------------------------------------------------------------
(* keys().collect() gives the keys in some order; sort() makes it one.     *)
Sorted_Not(keys) == keys   \* mutant: hashed in HashMap order
Sorted(keys) ==
  LET ascending(p) == \A i, j \in DOMAIN keys : i < j => keys[p[i]] < keys[p[j]]
      order == CHOOSE p \in SetToSeqs(DOMAIN keys) : ascending(p)
  IN [i \in DOMAIN keys |-> keys[order[i]]]

(* What one entry feeds the hasher after its key.                          *)
EntryStrings_NamesOnly(fs) ==   \* mutant: the type of a field is not hashed
  [i \in 1..(Len(fs) + 1) \div 2 |-> fs[2 * i - 1]]
EntryStrings(fs) == fs

MapStrings(map, keys) ==
  FlattenSeq([i \in DOMAIN keys |-> <<keys[i]>> \o EntryStrings(map[keys[i]])])

(* it[k]: the order in which this process meets the keys of map k.         *)
Hash(r, it) ==
  [src |-> r.src, verify |-> r.verify,
   strings |-> FlattenSeq([i \in DOMAIN Kinds |->
                 MapStrings(r.maps[Kinds[i]], Sorted(it[Kinds[i]]))])]

Orders(r) ==
  {it \in [Kind -> UNION {SetToSeqs(DOMAIN r.maps[k]) : k \in Kind}] :
     \A k \in Kind : it[k] \in SetToSeqs(DOMAIN r.maps[k])}

(* verify_and_compile is called, in this process or in another one.        *)
Call == \E it \in Orders(req') : key' = Hash(req', it)
-----------------------------------------------------------------------------
Init ==
  /\ req = [src |-> CHOOSE s \in Source : TRUE, verify |-> TRUE,
            maps |-> [k \in Kind |-> Empty]]
  /\ \E it \in Orders(req) : key = Hash(req, it)

CallAgain == req' = req /\ Call

EditSource ==
  /\ \E s \in Source \ {req.src} : req' = [req EXCEPT !.src = s]
  /\ Call

ToggleVerify == req' = [req EXCEPT !.verify = ~@] /\ Call

(* A class or alias appears, or is defined anew as the same kind of thing. *)
Define ==
  /\ \E k \in Kind, n \in Str : \E fs \in Fields(k) :
       /\ \A j \in Kind \ {k} : n \notin DOMAIN req.maps[j]
       /\ req' = [req EXCEPT !.maps[k] = Put(@, n, fs)]
  /\ Size(req'.maps) <= MaxLayouts
  /\ Call

Forget ==
  /\ \E k \in Kind : \E n \in DOMAIN req.maps[k] :
       req' = [req EXCEPT !.maps[k] = Drop(@, n)]
  /\ Call

Rename ==
  /\ \E k \in Kind : \E n \in DOMAIN req.maps[k], m \in Str :
       /\ \A j \in Kind : m \notin DOMAIN req.maps[j]
       /\ req' = [req EXCEPT !.maps[k] = Put(Drop(@, n), m, req.maps[k][n])]
  /\ Call

Edit == EditSource \/ ToggleVerify \/ Define \/ Forget \/ Rename

Next == CallAgain \/ Edit

Spec == Init /\ [][Next]_vars
-----------------------------------------------------------------------------
(* Equal requests share their key, in whatever order the processes that    *)
(* make them iterate over their maps: otherwise no .lir file is ever found *)
(* again.                                                                  *)
SameRequestSameKey == [][req' = req => key' = key]_vars

(* Changing one thing (the source, the verify flag, the name or type of a  *)
(* field, a class, an alias) makes the next call miss the caches, although *)
(* the strings are hashed without separators between classes.  A class     *)
(* that becomes another kind of class with the same fields is not seen:    *)
(* nothing tells the maps apart.                                           *)
EditChangesKey == [][req' # req => key' # key]_vars
=============================================================================
