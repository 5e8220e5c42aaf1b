------------------------------- MODULE Vector -------------------------------
(***************************************************************************)
(* The erase-remove idiom, v.erase(remove(v.begin(), v.end(), x), v.end()),*)
(* that server and client use on their vectors.                            *)
(***************************************************************************)
EXTENDS Integers, Sequences, Functions

(* kept(s, x)[i] is what std::remove has moved to the front of vector s    *)
(* once it has looked at the first i elements: those different from x, in  *)
(* their order.                                                            *)
kept(s, x) ==
  LET front[i \in 0..Len(s)] ==
        IF i = 0 THEN <<>>
        ELSE IF s[i] = x THEN front[i - 1] ELSE Append(front[i - 1], s[i])
  IN  front

\* Vector s without any copy of x.
eraseRemove(s, x) == kept(s, x)[Len(s)]
=============================================================================
