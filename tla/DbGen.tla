-------------------------------- MODULE DbGen --------------------------------
(***************************************************************************)
(* ddccontrol-dbgen: convert (XML sources to CBOR) and rewrite (CBOR to    *)
(* CBOR), with the files they leave for the reader, and the resolution of  *)
(* the includes between profiles, which the reader does too.               *)
(*                                                                         *)
(* A source file is a version number, which grows when the file is edited; *)
(* what it includes is fixed by graph.  A database is [files, needs, run]: *)
(* the versions its manifest has digests of, whether it needs features     *)
(* that XML cannot express, and the run that wrote it, 0 for an earlier    *)
(* one.  A snapshot is [manifest, run].                                    *)
(***************************************************************************)
EXTENDS Integers, SequencesExt

CONSTANTS
  Profiles,       \* 1 .. the number of profiles
  Graphs,         \* includes: [Profiles -> Seq(Profiles and missing ones)]
  MaxDepth,       \* MAX_INCLUDE_DEPTH
  MaxVisits,      \* MAX_CONTAINER, as the bound on visits
  MaxEdits,       \* bound on the edits of each file
  MaxRuns,        \* bound on the runs of a behaviour
  Absent,         \* no such file
  Prohibited      \* the manifest that does not allow XML

ASSUME GenAssumption ==
  /\ IsFiniteSet(Profiles) /\ Profiles # {} /\ Profiles = 1 .. Cardinality(Profiles)
  /\ \A g \in Graphs : g \in [Profiles -> Seq(Nat)]
  /\ MaxDepth \in Nat \ {0} /\ MaxVisits \in Nat \ {0}
  /\ MaxEdits \in Nat /\ MaxRuns \in Nat

(* No file is neither a database nor a snapshot.                           *)
ASSUME AbsentAssumption ==
  /\ Absent \notin [files : [Profiles -> Nat], needs : BOOLEAN, run : Nat]
  /\ Absent \notin [manifest : [Profiles -> Nat] \cup {Prohibited}, run : Nat]

VARIABLES
  graph,      \* the includes of each profile
  source,     \* the version of each source file
  seen,       \* the versions of all files since the run began (history)
  cbor,       \* OUTPUT
  snapshot,   \* the --snapshot file
  run,        \* the number of the last run
  phase,      \* where it is
  command,    \* "convert", "rewrite" or "load", a reader's decode
  at,         \* the next source to read
  content,    \* the database it has put together
  pending,    \* per profile, includes that are not resolved
  ready,      \* profiles whose includes all are
  heights,    \* per profile, the depth of its includes
  visits,     \* per profile, the size of its tree of includes
  valid,      \* profiles that were resolved
  result      \* of the last run: "none", "ok", "failed" or "crashed"

disk == <<cbor, snapshot>>
walk == <<pending, ready, heights, visits, valid>>
vars == <<graph, source, seen, disk, run, phase, command, at, content, walk, result>>

Zeros == [p \in Profiles |-> 0]
Database(files, needs, r) == [files |-> files, needs |-> needs, run |-> r]
Empty == Database(Zeros, FALSE, 0)

Init ==
  /\ graph \in Graphs
  /\ source = [p \in Profiles |-> 1] /\ seen = {}
  /\ \/ cbor = Absent /\ snapshot = Absent
     \/ cbor = Empty /\ snapshot = [manifest |-> Zeros, run |-> 0]
  /\ run = 0 /\ phase = "idle" /\ command = "load" /\ at = 1 /\ content = Empty
  /\ pending = Zeros /\ ready = {} /\ heights = Zeros /\ visits = Zeros /\ valid = {}
  /\ result = "none"

(* The process ends, and what it had in memory with it.                    *)
End(r) ==
  /\ phase' = "idle" /\ result' = r
  /\ at' = 1 /\ content' = Empty /\ seen' = {}
  /\ pending' = Zeros /\ ready' = {} /\ heights' = Zeros /\ visits' = Zeros /\ valid' = {}
  /\ UNCHANGED <<graph, source, run, command>>

(* Somebody edits a file while convert runs; no edit brings back an        *)
(* earlier content.                                                        *)
Edit(p) ==
  /\ phase # "idle" /\ command = "convert" /\ source[p] <= MaxEdits
  /\ source' = [source EXCEPT ![p] = @ + 1]
  /\ seen' = seen \cup {source'}
  /\ UNCHANGED <<graph, disk, run, phase, command, at, content, walk, result>>

(***************************************************************************)
(* The beginning of a run                                                  *)
(***************************************************************************)

Begin(name, start) ==
  /\ phase = "idle" /\ run < MaxRuns
  /\ run' = run + 1 /\ command' = name /\ phase' = start
  /\ at' = 1 /\ seen' = {source} /\ result' = "none"
  /\ UNCHANGED <<graph, source, disk, walk>>

StartConvert == Begin("convert", "read") /\ content' = [Empty EXCEPT !.run = run']

(* rewrite validates a database that another tool may have written.        *)
StartRewrite ==
  /\ Begin("rewrite", "count")
  /\ \E needs \in BOOLEAN : content' = Database(Zeros, needs, run')

(* A reader decodes a database.                                            *)
StartLoad == Begin("load", "count") /\ content' = Empty

(* sources: one file after the other, while they may be edited             *)
ReadSource ==
  /\ phase = "read"
  /\ content' = [content EXCEPT !.files[at] = source[at]]
  /\ IF at = Cardinality(Profiles) THEN phase' = "count" /\ at' = 1
                                   ELSE at' = at + 1 /\ UNCHANGED phase
  /\ UNCHANGED <<graph, source, seen, disk, run, command, walk, result>>

(***************************************************************************)
(* invalid_reference_profiles                                              *)
(***************************************************************************)

Edges(from, to) == Cardinality({n \in DOMAIN graph[from] : graph[from][n] = to})

(* Missing targets count as includes, and are never resolved; the variant  *)
(* passes over them.                                                       *)
CountKnown(p) == Cardinality({n \in DOMAIN graph[p] : graph[p][n] \in Profiles})
CountIncludes(p) == Len(graph[p])

Count ==
  /\ phase = "count"
  /\ pending' = [p \in Profiles |-> CountIncludes(p)]
  /\ ready' = {p \in Profiles : CountIncludes(p) = 0}
  /\ heights' = [p \in Profiles |-> 1] /\ visits' = [p \in Profiles |-> 1]
  /\ valid' = {}
  /\ phase' = "resolve"
  /\ UNCHANGED <<graph, source, seen, disk, run, command, at, content, result>>

Within(p) ==
  heights[p] <= MaxDepth /\ (command # "load" => visits[p] <= MaxVisits)

(* The includes of p that stay pending once q is resolved                  *)
Left(p, q) == pending[p] - Edges(p, q)

(* A profile whose includes are resolved is taken; if it is not too deep   *)
(* or too large, this resolves the includes of it.  The order in which     *)
(* profiles are taken makes no difference.                                 *)
Resolve ==
  /\ phase = "resolve" /\ ready # {}
  /\ LET p == CHOOSE q \in ready : TRUE
     IN  IF Within(p)
         THEN /\ valid' = valid \cup {p}
              /\ pending' = [q \in Profiles |-> Left(q, p)]
              /\ heights' = [q \in Profiles |->
                   IF Edges(q, p) > 0 THEN Max({heights[q], heights[p] + 1}) ELSE heights[q]]
              /\ visits' = [q \in Profiles |-> visits[q] + Edges(q, p) * visits[p]]
              /\ ready' = (ready \ {p}) \cup {q \in Profiles : Edges(q, p) > 0 /\ Left(q, p) = 0}
         ELSE ready' = ready \ {p} /\ UNCHANGED <<valid, pending, heights, visits>>
  /\ UNCHANGED <<graph, source, seen, disk, run, phase, command, at, content, result>>

(* A reader blocks the other profiles; the producer refuses the database.  *)
Resolved ==
  /\ phase = "resolve" /\ ready = {}
  /\ phase' = CASE command = "load" -> "loaded"
                [] valid # Profiles -> "fail"
                [] command = "convert" -> "again"
                [] OTHER -> "snapshot"
  /\ UNCHANGED <<graph, source, seen, disk, run, command, at, content, walk, result>>

LoadDone ==
  /\ phase = "loaded"
  /\ End("ok") /\ UNCHANGED disk

(***************************************************************************)
(* The end of a run                                                        *)
(***************************************************************************)

(* Variant of ReadAgain that does not compare.                             *)
ReadAgainSkipped ==
  /\ phase = "again"
  /\ phase' = "snapshot" /\ at' = 1
  /\ UNCHANGED <<graph, source, seen, disk, run, command, content, walk, result>>

(* convert reads its sources again, and compares.                          *)
ReadAgain ==
  /\ phase = "again"
  /\ IF source[at] # content.files[at] THEN phase' = "fail" /\ UNCHANGED at
     ELSE IF at = Cardinality(Profiles) THEN phase' = "snapshot" /\ at' = 1
     ELSE at' = at + 1 /\ UNCHANGED phase
  /\ UNCHANGED <<graph, source, seen, disk, run, command, content, walk, result>>

(* fallback_manifest                                                       *)
FallbackManifest(database) ==
  IF database.needs THEN Prohibited ELSE database.files

(* Variant of PublishSnapshot: the output goes first.                      *)
PublishSnapshotFirst ==
  /\ phase = "snapshot"
  /\ cbor' = content
  /\ phase' = "output"
  /\ UNCHANGED <<graph, source, seen, snapshot, run, command, at, content, walk, result>>

(* atomic_write renames a complete file into place: snapshot, then output. *)
PublishSnapshot ==
  /\ phase = "snapshot"
  /\ snapshot' = [manifest |-> FallbackManifest(content), run |-> run]
  /\ phase' = "output"
  /\ UNCHANGED <<graph, source, seen, cbor, run, command, at, content, walk, result>>

PublishOutput ==
  /\ phase = "output"
  /\ cbor' = content
  /\ End("ok") /\ UNCHANGED snapshot

(* An error: a file cannot be read, parsed, encoded, written or renamed.   *)
Error ==
  /\ phase \in {"read", "count", "again", "snapshot", "output"}
  /\ phase' = "fail"
  /\ UNCHANGED <<graph, source, seen, disk, run, command, at, content, walk, result>>

(* Variant of Fail: a failed rewrite clears too.                           *)
FailClearing ==
  /\ phase = "fail"
  /\ phase' = "clear" /\ cbor' = Absent
  /\ UNCHANGED <<graph, source, seen, snapshot, run, command, at, content, walk, result>>

(* A failed convert removes what is there, the output first.  The results  *)
(* of the removals are not looked at; here they succeed.                   *)
Fail ==
  /\ phase = "fail"
  /\ IF command = "convert"
     THEN /\ phase' = "clear" /\ cbor' = Absent
          /\ UNCHANGED <<graph, source, seen, run, command, at, content, walk, result>>
     ELSE End("failed") /\ UNCHANGED cbor
  /\ UNCHANGED snapshot

Clear ==
  /\ phase = "clear"
  /\ snapshot' = Absent
  /\ End("failed") /\ UNCHANGED cbor

Crash ==
  /\ phase # "idle"
  /\ End("crashed") /\ UNCHANGED disk

Next ==
  \/ \E p \in Profiles : Edit(p)
  \/ StartConvert \/ StartRewrite \/ StartLoad
  \/ ReadSource \/ Count \/ Resolve \/ Resolved \/ LoadDone
  \/ ReadAgain \/ PublishSnapshot \/ PublishOutput
  \/ Error \/ Fail \/ Clear \/ Crash

Spec == Init /\ [][Next]_vars

(***************************************************************************)
(* Properties                                                              *)
(***************************************************************************)

(* The variables have their types, and no counter of the resolution of     *)
(* includes falls below zero.                                              *)
TypeOK ==
  /\ source \in [Profiles -> Nat]
  /\ run \in 0 .. MaxRuns
  /\ phase \in {"idle", "read", "count", "resolve", "loaded", "again", "snapshot",
                "output", "fail", "clear"}
  /\ at \in Profiles
  /\ pending \in [Profiles -> Nat] /\ ready \subseteq Profiles \ valid
  /\ valid \subseteq Profiles

(* The chains of k includes that begin in p: an include is a profile and a *)
(* position in it.                                                         *)
Includes == UNION {{<<p, n>> : n \in DOMAIN graph[p]} : p \in Profiles}
Target(include) == graph[include[1]][include[2]]
Chains(p, k) ==
  {s \in [1 .. k -> Includes] : s[1][1] = p /\ \A i \in 1 .. k - 1 : Target(s[i]) = s[i + 1][1]}

(* Every chain from p ends, soon enough, in a profile that exists.         *)
Sound(p) ==
  /\ Chains(p, MaxDepth) = {}
  /\ \A k \in 1 .. MaxDepth - 1 : \A s \in Chains(p, k) : Target(s[k]) \in Profiles
TreeSize(p) == 1 + Cardinality(UNION {Chains(p, k) : k \in 1 .. MaxDepth - 1})

(* The resolution of includes finds exactly the profiles all of whose      *)
(* chains of includes end within the depth limit and lead to no missing    *)
(* profile: a cycle, a missing profile or too deep a chain blocks the      *)
(* profiles that depend on it and no others, also when a profile is        *)
(* included twice.  On the way no counter falls below zero (TypeOK).       *)
ResolvedExactly ==
  /\ TypeOK
  /\ phase = "resolve" /\ ready = {} =>
       valid = {p \in Profiles : Sound(p) /\ (command # "load" => TreeSize(p) <= MaxVisits)}

(* What convert writes is what the sources were, all of them, at one       *)
(* moment of the run, although they are edited meanwhile.                  *)
ConvertedAtOnce ==
  command = "convert" /\ phase \in {"snapshot", "output"} => content.files \in seen

(* Wherever a run fails or is killed, the snapshot on disk is that of the  *)
(* CBOR file or of a later run, never an older one.  If it is of the same  *)
(* run it has the digests of the same files, and prohibits XML if the      *)
(* database needs more than XML.                                           *)
SnapshotCoversCbor ==
  cbor # Absent =>
    /\ snapshot # Absent
    /\ snapshot.run >= cbor.run
    /\ snapshot.run = cbor.run =>
         snapshot.manifest = IF cbor.needs THEN Prohibited ELSE cbor.files

(* After a convert has reported a failure no reader finds stale files.     *)
FailedClears ==
  result = "failed" /\ command = "convert" => cbor = Absent /\ snapshot = Absent

(* A rewrite and a reader never remove a database.                         *)
OthersKeep ==
  [][command' # "convert" => /\ cbor # Absent => cbor' # Absent
                             /\ snapshot # Absent => snapshot' # Absent]_vars

(* "Conversion must invalidate stale package artifacts. A failed rewrite   *)
(* must not delete preexisting destinations" (run).                        *)
CleansUp == []FailedClears /\ OthersKeep
=============================================================================
