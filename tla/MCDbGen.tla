------------------------------- MODULE MCDbGen -------------------------------
(* Instance of DbGen: three profiles; the first has at most two includes,  *)
(* the others at most one, to themselves, to each other or to a missing    *)
(* profile.                                                                *)
EXTENDS DbGen

UpTo(k) == UNION {[1 .. n -> Profiles \cup {0}] : n \in 0 .. k}
MCGraphs ==
  {g \in [Profiles -> UpTo(2)] :
     /\ \A p \in Profiles \ {1} : Len(g[p]) <= 1
     /\ Len(g[1]) = 2 => g[1][1] <= g[1][2]}
=============================================================================
