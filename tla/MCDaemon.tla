------------------------------ MODULE MCDaemon ------------------------------
(* The daemon with a Dell and a Samsung monitor.                           *)
EXTENDS Daemon, TLC

CONSTANTS dell, sam

Db(pnp, mfr, vesa) == [name \in Names |-> CASE name = "pnp"  -> pnp
                                            [] name = "mfr"  -> mfr
                                            [] name = "vesa" -> vesa]

\* One installed database.  What each monitor gets depends on whether its
\* capabilities were read: with them the manufacturer's profile is tried.
\* The Dell's needs a feature this release does not have; the Samsung
\* monitor has no profile without it.
Profiles(m) == CASE m = dell -> Db("absent", "required", "standard")
                 [] m = sam  -> Db("absent", "samsung", "absent")
Installed == [m \in Monitors |-> Profiles(m)]

\* Nothing tells the devices apart, nor the clients.
Symmetry == Permutations(Nodes) \cup Permutations(Clients)
=============================================================================
