---------------------------- MODULE StructLayout ----------------------------
(***************************************************************************)
(* Where the fields of a struct or the parts of a tuple lie (ir/types.rs,  *)
(* get_field_offset), given their sizes and alignments.                    *)
(***************************************************************************)
EXTENDS Integers, Sequences

(* The code clears the low bits, (n + align - 1) & !(align - 1), which is  *)
(* this for the alignments there are, powers of two.                       *)
Alignments == {1, 2, 4, 8, 16}
RoundUp(n, align) == ((n + align - 1) \div align) * align

Largest(S) == CHOOSE n \in S : \A k \in S : k <= n
Strictest(aligns) == Largest({1} \cup {aligns[i] : i \in DOMAIN aligns})

Offsets_Packed(sizes, aligns) ==   \* mutant: alignment is forgotten
  LET offset[k \in DOMAIN sizes] == IF k = 1 THEN 0 ELSE offset[k - 1] + sizes[k - 1]
  IN offset

\* Each field begins behind the one before it, where its alignment allows.
Offsets(sizes, aligns) ==
  LET offset[k \in DOMAIN sizes] ==
        IF k = 1 THEN 0 ELSE RoundUp(offset[k - 1] + sizes[k - 1], aligns[k])
  IN offset

\* The size of the whole, so that such values can lie one behind the other.
Room(sizes, aligns) ==
  LET n == Len(sizes)
  IN IF n = 0 THEN 0
     ELSE RoundUp(Offsets(sizes, aligns)[n] + sizes[n], Strictest(aligns))
=============================================================================
