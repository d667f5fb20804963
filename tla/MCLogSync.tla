----------------------------- MODULE MCLogSync -----------------------------
EXTENDS LogSync

(***************************************************************************)
(* Steady: reorganisations of a running node; crashes of a node on a chain *)
(* that keeps its blocks; lost logs; and a crash between two blocks with a *)
(* reorganisation.  Unclean: a crash at any time and a reorganisation.     *)
(***************************************************************************)
Load(r, c, l, clean) == [reorgs |-> r, crashes |-> c, lost |-> l, clean |-> clean]
Steady == {Load(2, 0, 0, TRUE), Load(0, 1, 0, FALSE), Load(0, 0, 1, FALSE), Load(1, 1, 0, TRUE)}
Unclean == {Load(1, 1, 0, FALSE)}
=============================================================================
