--------------------------------- MODULE Lists ---------------------------------
(***************************************************************************)
(* The part of a list whose elements pass a test, the elements that pass   *)
(* given as a set and not as an operator: what it keeps can be proved by   *)
(* induction on the list's length (ListTheorems).                          *)
(***************************************************************************)
EXTENDS Naturals, Sequences

Only(list, kept) ==
    LET Upto[n \in 0 .. Len(list)] ==
            IF n = 0 THEN << >>
            ELSE IF list[n] \in kept THEN Append(Upto[n - 1], list[n]) ELSE Upto[n - 1]
    IN Upto[Len(list)]

=============================================================================
