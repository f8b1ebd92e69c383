--------------------------------- MODULE Lists --------------------------------
(***************************************************************************)
(* Lists (std::list) as sequences: what is in one, and whether it is in it *)
(* once.                                                                   *)
(***************************************************************************)
EXTENDS Sequences, Naturals

Elems(s) == {s[i] : i \in 1..Len(s)}
NoRepeats(s) == \A i, j \in 1..Len(s) : s[i] = s[j] => i = j
===============================================================================
