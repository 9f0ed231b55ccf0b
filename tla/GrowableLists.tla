---------------------------- MODULE GrowableLists ----------------------------
(***************************************************************************)
(* What List[T] promises its users (README.md:525, "dynamically-sized list *)
(* stored on the heap"; python/lirien/types/memory.py:258): a reference    *)
(* stands for a sequence that keeps what was put into it, whoever holds    *)
(* it, Python or compiled code.  There is no memory here: nothing grows,   *)
(* moves or is freed.  `chaos` says that a step without a meaning has been *)
(* taken, after which nothing is promised.                                 *)
(***************************************************************************)
EXTENDS Naturals, Sequences

CONSTANTS Refs, Values

VARIABLES lists,   \* the sequence of each list that exists
          result,  \* what the last operation answered
          chaos

vars == <<lists, result, chaos>>

Init == /\ lists = [r \in {} |-> <<>>]
        /\ result = <<"none">>
        /\ chaos = FALSE

New(r) ==
  /\ r \notin DOMAIN lists
  /\ lists' = [s \in DOMAIN lists \cup {r} |->
                 IF s = r THEN <<>> ELSE lists[s]]
  /\ result' = <<"none">>

Add(r, v) ==
  /\ lists' = [lists EXCEPT ![r] = Append(@, v)]
  /\ result' = <<"none">>

Get(r, i) ==
  /\ i \in 1 .. Len(lists[r])
  /\ result' = <<"value", lists[r][i]>>
  /\ UNCHANGED lists

Set(r, i, v) ==
  /\ i \in 1 .. Len(lists[r])
  /\ lists' = [lists EXCEPT ![r][i] = v]
  /\ result' = <<"none">>

Size(r) == result' = <<"length", Len(lists[r])>> /\ UNCHANGED lists

NoSuchElement == result' = <<"IndexError">> /\ UNCHANGED lists

Work ==
  \/ \E r \in Refs : New(r)
  \/ \E r \in DOMAIN lists :
       \/ \E v \in Values : Add(r, v)
       \/ \E i \in 1 .. Len(lists[r]) :
            Get(r, i) \/ \E v \in Values : Set(r, i, v)
       \/ Size(r)
       \/ NoSuchElement

Break == chaos' = TRUE /\ UNCHANGED <<lists, result>>

Next == ~chaos /\ (Break \/ (Work /\ UNCHANGED chaos))

Spec == Init /\ [][Next]_vars
=============================================================================
