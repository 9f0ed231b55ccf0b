-------------------------- MODULE VerifiedRegistry --------------------------
(***************************************************************************)
(* What verify_and_compile promises, with no cache in sight: each process  *)
(* keeps a registry from function names to compiled functions; a request   *)
(* either leaves it alone (an error) or binds the requested name to code   *)
(* that was proved (when a proof was asked for), that is linked to the     *)
(* functions registered now, and whose proof used their present contracts. *)
(* CompileCache implements this specification: its two caches are          *)
(* invisible to whoever looks at the registry only.                        *)
(***************************************************************************)
CONSTANTS
  Proc,        \* operating-system processes that import lirien
  Name,        \* names of Python functions
  Source,      \* function definitions: source text together with layouts
  Contract,    \* serialized signatures: types, refinements, pre, post
  NoSig,       \* no signature registered under a name
  NoEntry,     \* no function registered under a name
  NameOf,      \* NameOf[s]: the name the definition s binds
  Callees,     \* Callees[s]: targets of the Call instructions of s
  ContractOf,  \* ContractOf[s, m, v]: signature of s built in mode m under v
  Provable     \* the <<source, view>> pairs the solver accepts

(***************************************************************************)
(* A view gives the contract assumed for each callee; NoSig stands for a   *)
(* name that had no signature (nothing is checked or assumed about it).    *)
(***************************************************************************)
View == [Name -> Contract \cup {NoSig}]

(* mode is the verify flag of the request: TRUE runs the solver.           *)
IR == [src : Source, mode : BOOLEAN, view : View]

(* Compiled code: the IR it was lowered from and the contracts of the      *)
(* functions its call sites were linked to.                                *)
Code == [ir : IR, linked : View]

Sig(e) == IF e = NoEntry THEN NoSig
          ELSE ContractOf[<<e.ir.src, e.ir.mode, e.ir.view>>]

(* The callees of s that are other functions: a recursive call uses the    *)
(* function's own signature, not the registry.                             *)
Others(s) == Callees[s] \ {NameOf[s]}

VARIABLE registry   \* registry[p][n]: the code process p calls by name n

Admissible(p, e) ==
  /\ e.ir.mode => <<e.ir.src, e.ir.view>> \in Provable
  /\ \A n \in Others(e.ir.src) :
       /\ registry[p][n] # NoEntry
       /\ e.linked[n] = Sig(registry[p][n])
       /\ e.ir.view[n] \in {NoSig, e.linked[n]}

(* A request that succeeds.                                                *)
Bind(p, e) ==
  /\ Admissible(p, e)
  /\ registry' = [registry EXCEPT ![p][NameOf[e.ir.src]] = e]

(* The process ends; its successor starts with an empty registry.          *)
Exit(p) == registry' = [registry EXCEPT ![p] = [n \in Name |-> NoEntry]]

Init == registry = [p \in Proc |-> [n \in Name |-> NoEntry]]

Next == \E p \in Proc : Exit(p) \/ \E e \in Code : Bind(p, e)

Spec == Init /\ [][Next]_registry
=============================================================================
