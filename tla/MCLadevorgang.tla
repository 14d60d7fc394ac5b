--------------------------- MODULE MCLadevorgang ----------------------------
(***************************************************************************)
(* Records for the runs of Ladevorgang: at most two categories of at most  *)
(* two subcategories, which reaches each of the four branches at its first *)
(* and at a later element.                                                 *)
(***************************************************************************)
EXTENDS Ladevorgang

Folgen(S, n) == BoundedSeq(S, n) \ {<<>>}

\* Records with up to ni items per subcategory and extras as given.
Baeume(ni, extras) == Folgen(Folgen(Folgen(extras, ni), 2), 2)

\* One order folded n times, and one folded again after another.
Mehrmals(n, B) == {[m \in 1..n |-> [id |-> 1, baum |-> b]] : b \in B}
Dazwischen(B)  == {<< [id |-> 1, baum |-> p[1]], [id |-> 2, baum |-> p[2]],
                      [id |-> 1, baum |-> p[1]] >> : p \in B \X B}

MCEingaben ==
  Mehrmals(1, Baeume(1, 0..2)) \cup Mehrmals(2, Baeume(2, 1..2))
    \cup Mehrmals(3, Baeume(1, 1..2)) \cup Dazwischen(Baeume(1, 1..2))
=============================================================================
