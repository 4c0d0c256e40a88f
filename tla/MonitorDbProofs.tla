--------------------------- MODULE MonitorDbProofs ---------------------------
(***************************************************************************)
(* Proofs about MonitorDb, for every database and all monitor files: what  *)
(* a load hides, that it meets no requirement that was not announced, that *)
(* it changes the caller's capabilities only with a tree, and that a       *)
(* monitor file once accepted loads.  At the end, about the scanner that   *)
(* writes such files: what becomes of its output, and whose readings it    *)
(* keeps.                                                                  *)
(***************************************************************************)
EXTENDS MonitorDb, ScanMonitor, TLAPS

Addresses(tree) == {tree[p].address : p \in DOMAIN tree}

(* Every control of the tree comes from a turn before the next.            *)
Turned(b) == b.turn \in Nat /\ \A p \in DOMAIN b.tree : p[1] \in Nat /\ p[1] < b.turn

(* One control for each address, and the addresses are marked as defined.  *)
Unambiguous(b) ==
  /\ Addresses(b.tree) \subseteq b.defined
  /\ \A i, j \in DOMAIN b.tree : b.tree[i].address = b.tree[j].address => i = j

LEMMA AddedTree ==
  ASSUME NEW o, NEW e, NEW vcp, NEW m, NEW b, DOMAIN o \subseteq Nat, Turned(b)
  PROVE  LET a == AddControls(o, e, vcp, m, b) IN
         Turned(a) /\ (~m.validate =>
         /\ b.defined \cup Isolated(o, e) \subseteq a.defined
         /\ Addresses(a.tree) \cap Isolated(o, e) = {}
         /\ Addresses(a.tree) \cap b.defined \subseteq Addresses(b.tree)
         /\ Unambiguous(b) => Unambiguous(a))
<1> DEFINE hidden  == Isolated(o, e)
           defined == b.defined \cup hidden
           E(i)    == e[Matching(e, o[i])]
           Used    == {i \in DOMAIN o : /\ Matching(e, o[i]) # 0
                                        /\ ~o[i].unavailable
                                        /\ ~E(i).required}
           Free    == {i \in Used : IsFree(m, vcp, defined, E(i).address)}
           Taken   == {i \in Free : m.validate \/ \A j \in Free : j < i => E(j).address # E(i).address}
           Control(i) == [id |-> o[i].id, address |-> E(i).address]
           added   == {<<b.turn, i>> : i \in Taken}
           kept    == Suppress(b.tree, hidden)
           a       == AddControls(o, e, vcp, m, b)
<1>1. /\ a.tree = [p \in added \cup DOMAIN kept |-> IF p \in added THEN Control(p[2]) ELSE kept[p]]
      /\ a.turn = b.turn + 1
      /\ a.defined = defined \cup {E(i).address : i \in Taken}
  BY DEF AddControls
<1> HIDE DEF a
<1>2. /\ DOMAIN kept = {q \in DOMAIN b.tree : b.tree[q].address \notin hidden}
      /\ \A p \in DOMAIN kept : kept[p] = b.tree[p]
  BY DEF Suppress
<1>3. Taken \subseteq Nat
  OBVIOUS
<1>4. added \cap DOMAIN kept = {}
  BY <1>2 DEF Turned
<1>5. ~m.validate => \A i \in Taken : /\ E(i).address \notin defined
                                      /\ \A j \in Taken : E(i).address = E(j).address => i = j
  BY <1>3 DEF IsFree
<1> HIDE DEF Taken, kept, hidden, E
<1>6. /\ DOMAIN a.tree = added \cup DOMAIN kept
      /\ \A i \in Taken : <<b.turn, i>> \in added /\ a.tree[<<b.turn, i>>].address = E(i).address
      /\ \A p \in DOMAIN kept : a.tree[p] = b.tree[p]
  BY <1>1, <1>2, <1>4
<1>7. Turned(a)
  BY <1>1, <1>2, <1>6 DEF Turned
<1>8. \A p \in DOMAIN a.tree : \/ \E i \in Taken : p = <<b.turn, i>> /\ a.tree[p].address = E(i).address
                               \/ p \in DOMAIN kept /\ a.tree[p] = b.tree[p]
  BY <1>6
<1>9. hidden \subseteq defined /\ b.defined \subseteq defined
  OBVIOUS
<1>10. ASSUME ~m.validate
       PROVE  /\ Addresses(a.tree) \cap hidden = {}
              /\ Addresses(a.tree) \cap b.defined \subseteq Addresses(b.tree)
  BY <1>2, <1>5, <1>8, <1>9, <1>10 DEF Addresses
<1>11. ASSUME ~m.validate, Unambiguous(b) PROVE Unambiguous(a)
  <2>1. Addresses(a.tree) \subseteq a.defined
    BY <1>1, <1>2, <1>8, <1>9, <1>11 DEF Addresses, Unambiguous
  <2>2. \A p \in DOMAIN kept : a.tree[p].address \in defined
    BY <1>2, <1>6, <1>9, <1>11 DEF Addresses, Unambiguous
  <2>3. ASSUME NEW p \in DOMAIN a.tree, NEW q \in DOMAIN a.tree, a.tree[p].address = a.tree[q].address
        PROVE  p = q
    <3>1. CASE p \in DOMAIN kept /\ q \in DOMAIN kept
      BY <1>2, <1>6, <1>11, <2>3, <3>1 DEF Unambiguous
    <3>2. CASE p \notin DOMAIN kept \/ q \notin DOMAIN kept
      BY <1>5, <1>8, <1>11, <2>2, <2>3, <3>2
    <3>3. QED
      BY <3>1, <3>2
  <2>4. QED
    BY <2>1, <2>3 DEF Unambiguous
<1>12. QED
  BY <1>1, <1>7, <1>10, <1>11 DEF a, hidden

(* A <controls> element that a validation accepts is accepted by a load,   *)
(* whatever capabilities the monitor has and whatever was built before.    *)
Strict == [tolerant |-> FALSE, validate |-> TRUE]
Passing(e) == AddControls(Options, e, << >>, Strict, NoBuild).ok

LEMMA StrictPasses ==
  ASSUME NEW e, NEW vcp, NEW b, AddControls(Options, e, vcp, Strict, b).ok
  PROVE  Passing(e)
BY DEF Passing, AddControls, Strict, IsFree, ValuesBad

LEMMA PassingLoads ==
  ASSUME NEW e, NEW vcp, NEW b, Passing(e)
  PROVE  AddControls(Options, e, vcp, NoMode, b).ok
BY DEF Passing, AddControls, Strict, NoMode, IsFree, ValuesBad

-----------------------------------------------------------------------------
(* What a load can reach.                                                  *)

Profs == Sources \ {Missing, Broken}

LEMMA RootsAreSources ==
  ASSUME NEW file \in {NoFile} \cup Files, NEW id, NEW top \in BOOLEAN, disk \in DOMAIN Databases
  PROVE  IsProfile(RootOf(file, id, top)) => RootOf(file, id, top) \in Profs
BY DEF IsProfile, RootOf, Installed, Sources, Profs

LEMMA IncludesAreNames ==
  ASSUME NEW file \in {NoFile} \cup Files, NEW id, NEW top \in BOOLEAN, disk \in DOMAIN Databases
  PROVE  Includes(RootOf(file, id, top)) \subseteq Ids \cup {NoId}
<1> DEFINE root == RootOf(file, id, top)
<1>1. CASE ~IsProfile(root)
  BY <1>1 DEF Includes
<1>2. CASE IsProfile(root)
  <2>1. root \in Sources \ {Missing, Broken}
    BY <1>2, RootsAreSources DEF Profs
  <2>2. \A j \in DOMAIN root.kids : root.kids[j] \in Range(root.kids)
    BY DEF Range
  <2>3. QED
    BY <1>2, <2>1, <2>2, ProfilesAssumption DEF Includes
<1>3. QED
  BY <1>1, <1>2

(* The profiles that are reached include only what is reached.             *)
LEMMA ReachedIsClosed ==
  ASSUME NEW file \in {NoFile} \cup Files, NEW id, disk \in DOMAIN Databases,
         NEW root \in Reached(file, id)
  PROVE  Includes(root) \subseteq Named(file, id)
<1> DEFINE all == Ids \cup {NoId}
           Closed(S) == /\ Includes(RootOf(file, id, TRUE)) \subseteq S
                        /\ \A i \in S : Includes(RootOf(file, i, FALSE)) \subseteq S
<1>1. Named(file, id) = {i \in all : \A S \in SUBSET all : Closed(S) => i \in S}
  BY DEF Named
<1>2. root = RootOf(file, id, TRUE) \/ \E i \in Named(file, id) : root = RootOf(file, i, FALSE)
  BY DEF Reached
<1>3. Includes(root) \subseteq all
  BY <1>2, IncludesAreNames
<1>4. ASSUME NEW S \in SUBSET all, Closed(S) PROVE Includes(root) \subseteq S
  BY <1>1, <1>2, <1>4
<1> HIDE DEF Closed
<1>5. QED
  BY <1>1, <1>3, <1>4

(* They are the least such set.                                            *)
LEMMA ReachedIsLeast ==
  ASSUME NEW file \in {NoFile} \cup Files, NEW id, disk \in DOMAIN Databases,
         NEW R, RootOf(file, id, TRUE) \in R,
         \A root \in R : \A i \in Includes(root) : RootOf(file, i, FALSE) \in R
  PROVE  Reached(file, id) \subseteq R
<1> DEFINE all == Ids \cup {NoId}
           Closed(S) == /\ Includes(RootOf(file, id, TRUE)) \subseteq S
                        /\ \A i \in S : Includes(RootOf(file, i, FALSE)) \subseteq S
           T == {i \in all : RootOf(file, i, FALSE) \in R}
<1>1. Named(file, id) = {i \in all : \A S \in SUBSET all : Closed(S) => i \in S}
  BY DEF Named
<1>2. Closed(T)
  <2>1. Includes(RootOf(file, id, TRUE)) \subseteq T
    BY IncludesAreNames
  <2>2. \A i \in T : Includes(RootOf(file, i, FALSE)) \subseteq T
    BY IncludesAreNames
  <2>3. QED
    BY <2>1, <2>2
<1>3. T \in SUBSET all
  OBVIOUS
<1> HIDE DEF Closed
<1>4. Named(file, id) \subseteq T
  BY <1>1, <1>2, <1>3
<1>5. QED
  BY <1>4 DEF Reached

-----------------------------------------------------------------------------
(* The walk of a validation, without what depends on the monitor.          *)

Core == [call |-> call, frames |-> frames, init |-> build.init, named |-> build.named,
         visits |-> build.visits]
Beginning(id) == [call |-> id, frames |-> << >>, init |-> "unknown", named |-> FALSE, visits |-> 0]

TopOf(w) == w.frames[Len(w.frames)]
KidOf(w) == TopOf(w).root.kids[TopOf(w).kid]
AtEnd(w) == w.call = NoId /\ w.frames # << >> /\ TopOf(w).kid > Len(TopOf(w).root.kids) /\ TopOf(w).some
AtKid(w, tag) ==
  /\ w.call = NoId /\ w.frames # << >>
  /\ TopOf(w).kid <= Len(TopOf(w).root.kids) /\ KidOf(w).tag = tag /\ ~KidOf(w).required
Moved(w, some, controls) ==
  [w.frames EXCEPT ![Len(w.frames)] =
     [root |-> TopOf(w).root, kid |-> TopOf(w).kid + 1, some |-> TopOf(w).some \/ some,
      controls |-> TopOf(w).controls \/ controls]]

EntersOk(f, w, v) ==
  LET root == RootOf(f, w.call, w.frames = << >>) IN
  /\ w.call # NoId /\ w.visits < MaxVisits /\ Len(w.frames) <= MaxLevel
  /\ IsProfile(root) /\ ~root.required
  /\ w.named \/ root.named
  /\ root.init # "invalid" /\ ~root.deprecated
  /\ v = [call |-> NoId,
          frames |-> Append(w.frames, [root |-> root, kid |-> 1, some |-> FALSE, controls |-> FALSE]),
          init |-> IF w.init = "unknown" THEN root.init ELSE w.init,
          named |-> TRUE, visits |-> w.visits + 1]

KidOk(w, v) ==
  \/ /\ AtKid(w, "caps") /\ ~CapsBad(KidOf(w))
     /\ v = [w EXCEPT !.frames = Moved(w, FALSE, FALSE)]
  \/ /\ AtKid(w, "include") /\ KidOf(w).file # NoId
     /\ v = [call |-> KidOf(w).file, frames |-> Moved(w, TRUE, FALSE), init |-> w.init,
             named |-> w.named, visits |-> w.visits]
  \/ /\ AtKid(w, "controls") /\ ~TopOf(w).controls /\ ~KidOf(w).strange
     /\ NoAddress \notin Isolated(Options, KidOf(w).elements)
     /\ Passing(KidOf(w).elements)
     /\ v = [w EXCEPT !.frames = Moved(w, TRUE, TRUE)]

LeavesOk(w, v) == AtEnd(w) /\ Len(w.frames) > 1 /\ v = [w EXCEPT !.frames = Front(@)]

(* What a validation of file f does from w, when it does not fail.         *)
Passes(f, w, v) == EntersOk(f, w, v) \/ KidOk(w, v) \/ LeavesOk(w, v)

Run(f, n, run) ==
  /\ n \in Nat /\ n >= 1 /\ run[1] = Beginning(f.id)
  /\ \A i \in 1 .. n - 1 : Passes(f, run[i], run[i + 1])
Complete(f, n, run) ==
  Run(f, n, run) /\ AtEnd(run[n]) /\ Len(run[n].frames) = 1 /\ run[n].init # "unknown"
Acceptable(f) == \E n \in Nat : \E run : Complete(f, n, run)

-----------------------------------------------------------------------------
(* The inductive invariant.                                                *)

Frames == [root : Profs, kid : Nat \ {0}, some : BOOLEAN, controls : BOOLEAN]
OwnFile == snap # NoFile /\ snap.id = want

(* Types, and what the call in progress is for.                            *)
ShapeInv ==
  /\ disk \in DOMAIN Databases
  /\ ctx \in {None, NoFile} \cup Files /\ snap \in {NoFile} \cup Files
  /\ op \in {"idle", "create", "set"} /\ flag \in BOOLEAN
  /\ mode \in [tolerant : BOOLEAN, validate : BOOLEAN]
  /\ frames \in Seq(Frames) /\ call \in Ids \cup {NoId}
  /\ build = [init |-> build.init, named |-> build.named, visits |-> build.visits,
              tree |-> build.tree, turn |-> build.turn, defined |-> build.defined]
  /\ build.visits \in Nat /\ Turned(build)
  /\ op = "idle" => call = NoId /\ frames = << >> /\ mode = NoMode
  /\ op # "idle" =>
       /\ answer = "none" /\ want \in Ids
       /\ frames = << >> => call = want
       /\ mode.validate <=> op = "set"
       /\ op = "set" => snap \in Files /\ want = snap.id
       /\ op = "set" \/ OwnFile => ~mode.tolerant

TreeInv == ~mode.validate => Unambiguous(build)

(* The walk stays in what can be reached.                                  *)
Asked == RootOf(snap, want, TRUE)
Reach == Reached(snap, want)
Targets == Named(snap, want)
Inc(i) == RootOf(snap, i, FALSE)
ReachInv ==
  op # "idle" =>
    /\ \A n \in DOMAIN frames : frames[n].root \in Reach
    /\ frames # << >> => frames[1].root = Asked
    /\ frames # << >> /\ call # NoId => call \in Targets

(* Everything behind the children that were passed is in D, the profiles   *)
(* that were left, or is being visited; what is isolated there is away.    *)
Met(D, i) == (i = call /\ i # NoId) \/ Inc(i) \in D \/ \E n \in DOMAIN frames : frames[n].root = Inc(i)
Away(a) == a \in build.defined /\ a \notin Addresses(build.tree)
Passed(D, kid) ==
  /\ kid.tag = "include" => Met(D, kid.file)
  /\ kid.tag = "controls" => \A a \in Isolated(Options, kid.elements) : Away(a)
Covers(D) ==
  /\ frames = << >> => D = {}
  /\ \A r \in D : \A k \in DOMAIN r.kids : Passed(D, r.kids[k])
  /\ \A n \in DOMAIN frames : \A k \in DOMAIN frames[n].root.kids :
       k < frames[n].kid => Passed(D, frames[n].root.kids[k])
CoverInv == op = "create" => \E D \in SUBSET Profs : Covers(D)

(* profile_has_requirements has announced what the walk may meet.          *)
ForeseenInv == op = "create" /\ HasRequirements(snap, want) => flag

(* A validation so far; the one of the file of the session; and the load   *)
(* of that file, which is somewhere on the way of it.                      *)
RunInv ==
  /\ op = "set" => \E n \in Nat : \E run : Run(snap, n, run) /\ run[n] = Core
  /\ ctx \in Files => Acceptable(ctx)
  /\ op = "create" /\ OwnFile =>
       \E n \in Nat : \E run : Complete(snap, n, run) /\ \E i \in 1 .. n : run[i] = Core

ResultInv == CapsOnlyWithTree /\ AcceptedFileLoads /\ RequiredNeverExposed

IndInv == ShapeInv /\ TreeInv /\ ReachInv /\ CoverInv /\ ForeseenInv /\ RunInv /\ ResultInv

-----------------------------------------------------------------------------
(* The database on disk is the same in all states of a behaviour.          *)

LEMMA SameDatabase ==
  ASSUME disk' = disk
  PROVE  /\ Options' = Options
         /\ \A e : Passing(e)' <=> Passing(e)
         /\ \A f, i, b : RootOf(f, i, b)' = RootOf(f, i, b)
BY DEF Options, Passing, RootOf, Installed

LEMMA SameAcceptable ==
  ASSUME disk' = disk
  PROVE  \A f : /\ Acceptable(f)' <=> Acceptable(f)
                /\ \A n, run : /\ Run(f, n, run)' <=> Run(f, n, run)
                               /\ Complete(f, n, run)' <=> Complete(f, n, run)
<1>1. \A f, w, v : Passes(f, w, v)' <=> Passes(f, w, v)
  BY DEF Passes, EntersOk, KidOk, LeavesOk, Options, Passing, RootOf, Installed
<1>2. \A f, n, run : Run(f, n, run)' <=> Run(f, n, run)
  BY <1>1 DEF Run
<1>3. \A f, n, run : Complete(f, n, run)' <=> Complete(f, n, run)
  BY <1>2 DEF Complete
<1>4. QED
  BY <1>2, <1>3 DEF Acceptable

LEMMA SameReach ==
  ASSUME disk' = disk, snap' = snap, want' = want
  PROVE  /\ Asked' = Asked /\ Reach' = Reach /\ Targets' = Targets
         /\ \A i : Inc(i)' = Inc(i)
         /\ HasRequirements(snap, want)' <=> HasRequirements(snap, want)
         /\ Hidden' = Hidden /\ OwnFile' = OwnFile
<1>1. Asked' = Asked /\ \A i : Inc(i)' = Inc(i)
  BY DEF Asked, Inc, RootOf, Installed
<1>2. Reach' = Reach /\ Targets' = Targets
  BY DEF Reach, Targets, Reached, Named, RootOf, Installed, Includes, IsProfile
<1>3. HasRequirements(snap, want)' <=> HasRequirements(snap, want)
  BY <1>2 DEF Reach, HasRequirements, ChildNeeds, Options
<1>4. Hidden' = Hidden
  BY <1>2 DEF Reach, Hidden, Options
<1>5. QED
  BY <1>1, <1>2, <1>3, <1>4 DEF OwnFile

-----------------------------------------------------------------------------
(* Steps between calls, and the beginning and the end of one.              *)

LEMMA EmptyBuild == Turned(NoBuild) /\ Unambiguous(NoBuild)
BY DEF Turned, Unambiguous, NoBuild, Addresses

LEMMA QuietInv ==
  ASSUME IndInv, disk' = disk, flag' \in BOOLEAN,
         op' = "idle", call' = NoId, frames' = << >>, mode' = NoMode, build' = NoBuild,
         ctx' = ctx \/ (ctx' \in Files /\ Acceptable(ctx')),
         snap' \in {NoFile} \cup Files, caps' = given', answer' # "tree",
         answer' = "null" => ~OwnFile'
  PROVE  IndInv'
<1>1. ShapeInv'
  BY EmptyBuild DEF IndInv, ShapeInv, NoBuild, NoMode
<1>2. TreeInv'
  BY EmptyBuild DEF TreeInv
<1>3. ReachInv' /\ CoverInv' /\ ForeseenInv'
  BY DEF ReachInv, CoverInv, ForeseenInv
<1>4. RunInv'
  <2>1. ctx' \in Files => Acceptable(ctx')
    BY DEF IndInv, RunInv
  <2>2. ctx' \in Files => Acceptable(ctx)'
    BY <2>1, SameAcceptable
  <2>3. QED
    BY <2>2 DEF RunInv
<1>5. ResultInv'
  BY DEF ResultInv, CapsOnlyWithTree, AcceptedFileLoads, RequiredNeverExposed, OwnFile
<1>6. QED
  BY <1>1, <1>2, <1>3, <1>4, <1>5 DEF IndInv

LEMMA OutsideInv ==
  ASSUME IndInv, disk' = disk, ctx' \in {ctx, None, NoFile},
         UNCHANGED <<caps, given, flag, answer, request, walk>>
  PROVE  IndInv'
<1> USE DEF request, walk
<1>1. ShapeInv'
  BY DEF IndInv, ShapeInv, OwnFile
<1>2. TreeInv'
  BY DEF IndInv, TreeInv
<1>3. ReachInv'
  BY SameReach DEF IndInv, ReachInv
<1>4. CoverInv'
  <2>1. ASSUME NEW D PROVE Covers(D)' <=> Covers(D)
    BY SameReach, SameDatabase DEF Covers, Passed, Met, Away
  <2>2. QED
    BY <2>1 DEF IndInv, CoverInv
<1>5. ForeseenInv'
  BY SameReach DEF IndInv, ForeseenInv
<1>6. RunInv'
  <2>1. Core' = Core
    BY DEF Core
  <2>2. ctx' \in Files => Acceptable(ctx)'
    BY SameAcceptable, ProfilesAssumption DEF IndInv, RunInv
  <2>3. op = "set" => \E n \in Nat : \E run : Run(snap, n, run)' /\ run[n] = Core'
    BY <2>1, SameAcceptable DEF IndInv, RunInv
  <2>4. op = "create" /\ OwnFile =>
          \E n \in Nat : \E run : Complete(snap, n, run)' /\ \E i \in 1 .. n : run[i] = Core'
    BY <2>1, SameAcceptable DEF IndInv, RunInv
  <2>5. QED
    BY <2>2, <2>3, <2>4, SameReach DEF RunInv
<1>7. ResultInv'
  BY SameReach DEF IndInv, ResultInv, CapsOnlyWithTree, AcceptedFileLoads, RequiredNeverExposed
<1>8. QED
  BY <1>1, <1>2, <1>3, <1>4, <1>5, <1>6, <1>7 DEF IndInv

LEMMA SetMonitorFileInv ==
  ASSUME IndInv, NEW f \in Files, SetMonitorFile(f)
  PROVE  IndInv'
<1>1. CASE Refuse("refused")
  <2>1. op' = "idle" /\ call' = NoId /\ frames' = << >> /\ mode' = NoMode
    BY <1>1 DEF IndInv, ShapeInv, SetMonitorFile, Refuse
  <2>2. QED
    BY <1>1, <2>1, QuietInv DEF IndInv, ShapeInv, SetMonitorFile, Refuse
<1>2. CASE Begin("set", f, f.id, FALSE, NoCaps)
  <2>1. ShapeInv'
    BY <1>2, EmptyBuild, ProfilesAssumption DEF IndInv, ShapeInv, SetMonitorFile, Begin, NoBuild
  <2>2. TreeInv' /\ ReachInv' /\ CoverInv' /\ ForeseenInv'
    BY <1>2, EmptyBuild DEF TreeInv, ReachInv, CoverInv, ForeseenInv, Begin
  <2>3. RunInv'
    <3>1. Core' = Beginning(f.id) /\ op' = "set" /\ snap' = f /\ disk' = disk /\ ctx' = ctx
      BY <1>2 DEF Core, Beginning, Begin, NoBuild, SetMonitorFile
    <3>2. Run(f, 1, [i \in {1} |-> Beginning(f.id)])
      BY DEF Run
    <3>3. \E n \in Nat : \E run : Run(f, n, run) /\ run[n] = Core'
      BY <3>1, <3>2
    <3>4. \E n \in Nat : \E run : Run(snap, n, run)' /\ run[n] = Core'
      BY <3>1, <3>3, SameAcceptable
    <3>5. QED
      BY <3>1, <3>4, SameAcceptable DEF RunInv, IndInv
  <2>4. ResultInv'
    BY <1>2 DEF ResultInv, CapsOnlyWithTree, AcceptedFileLoads, RequiredNeverExposed, Begin, SetMonitorFile
  <2>5. QED
    BY <2>1, <2>2, <2>3, <2>4 DEF IndInv
<1>3. QED
  BY <1>1, <1>2 DEF SetMonitorFile

LEMMA CreateDbInv ==
  ASSUME IndInv, NEW id \in Ids, NEW tolerant \in BOOLEAN, CreateDb(id, tolerant)
  PROVE  IndInv'
<1>0. flag' \in BOOLEAN
  BY DEF CreateDb
<1>1. CASE \E result \in {"null", "oom"} : Refuse(result)
  <2>1. op' = "idle" /\ call' = NoId /\ frames' = << >> /\ mode' = NoMode
    BY <1>1 DEF IndInv, ShapeInv, CreateDb, Refuse
  <2>2. QED
    BY <1>0, <1>1, <2>1, QuietInv DEF IndInv, ShapeInv, CreateDb, Refuse, OwnFile
<1>2. CASE ctx # None /\ Begin("create", ctx, id, tolerant /\ ~(ctx # NoFile /\ ctx.id = id), caps)
  <2>1. ShapeInv'
    BY <1>0, <1>2, EmptyBuild DEF IndInv, ShapeInv, CreateDb, Begin, NoBuild, OwnFile
  <2>2. TreeInv' /\ ReachInv'
    BY <1>2, EmptyBuild DEF TreeInv, ReachInv, Begin
  <2>3. CoverInv'
    <3>1. Covers({})'
      BY <1>2 DEF Begin, Covers
    <3>2. QED
      BY <3>1 DEF CoverInv
  <2>4. ForeseenInv'
    <3>1. snap' = ctx /\ want' = id /\ disk' = disk
      BY <1>2 DEF Begin, CreateDb
    <3>2. flag' <=> HasRequirements(ctx, id)
      BY <1>2 DEF CreateDb
    <3>3. HasRequirements(snap, want)' <=> HasRequirements(ctx, id)
      BY <3>1 DEF HasRequirements, Reached, Named, RootOf, Installed, Includes, IsProfile, ChildNeeds, Options
    <3>4. QED
      BY <3>2, <3>3 DEF ForeseenInv
  <2>5. RunInv'
    <3>1. Core' = Beginning(id) /\ op' = "create" /\ snap' = ctx /\ want' = id /\ disk' = disk /\ ctx' = ctx
      BY <1>2 DEF Core, Beginning, Begin, NoBuild, CreateDb
    <3>2. OwnFile' => ctx \in Files /\ ctx.id = id
      BY <1>2, <3>1 DEF IndInv, ShapeInv, OwnFile
    <3>3. OwnFile' => \E n \in Nat : \E run : Complete(ctx, n, run) /\ \E i \in 1 .. n : run[i] = Core'
      BY <3>1, <3>2 DEF IndInv, RunInv, Acceptable, Complete, Run
    <3>4. OwnFile' => \E n \in Nat : \E run : Complete(snap, n, run)' /\ \E i \in 1 .. n : run[i] = Core'
      BY <3>1, <3>3, SameAcceptable
    <3>5. QED
      BY <3>1, <3>4, SameAcceptable DEF RunInv, IndInv
  <2>6. ResultInv'
    BY <1>2 DEF ResultInv, CapsOnlyWithTree, AcceptedFileLoads, RequiredNeverExposed, Begin, CreateDb
  <2>7. QED
    BY <2>1, <2>2, <2>3, <2>4, <2>5, <2>6 DEF IndInv
<1>3. QED
  BY <1>1, <1>2 DEF CreateDb

-----------------------------------------------------------------------------
(* A load of the file of the session goes the way of its validation.       *)

LEMMA OnTheWay ==
  ASSUME IndInv, op = "create", OwnFile
  PROVE  \/ \E v : Passes(snap, Core, v)
         \/ AtEnd(Core) /\ Len(frames) = 1 /\ build.init # "unknown"
<1>0. PICK n \in Nat : \E run : Complete(snap, n, run) /\ \E i \in 1 .. n : run[i] = Core
  BY DEF IndInv, RunInv
<1>1. PICK run : Complete(snap, n, run) /\ \E i \in 1 .. n : run[i] = Core
  BY <1>0
<1>2. PICK i \in 1 .. n : run[i] = Core
  BY <1>1
<1>3. CASE i = n
  BY <1>1, <1>2, <1>3 DEF Complete, Core
<1>4. CASE i # n
  <2>1. i \in 1 .. n - 1
    BY <1>4
  <2>2. QED
    BY <1>1, <1>2, <2>1 DEF Complete, Run
<1>5. QED
  BY <1>3, <1>4

LEMMA MoveRunInv ==
  ASSUME IndInv, Continue,
         op = "set" => Passes(snap, Core, Core'),
         op = "create" => /\ ~(AtEnd(Core) /\ Len(frames) = 1)
                          /\ \A v : Passes(snap, Core, v) => v = Core'
  PROVE  RunInv'
<1> USE DEF request
<1>1. disk' = disk /\ ctx' = ctx /\ snap' = snap /\ op' = op /\ want' = want
  BY DEF Continue
<1>2. ctx' \in Files => Acceptable(ctx)'
  BY <1>1, SameAcceptable DEF IndInv, RunInv
<1>3. ASSUME op = "set" PROVE \E n \in Nat : \E run : Run(snap, n, run)' /\ run[n] = Core'
  <2>0. PICK n \in Nat : \E run : Run(snap, n, run) /\ run[n] = Core
    BY <1>3 DEF IndInv, RunInv
  <2>1. PICK run : Run(snap, n, run) /\ run[n] = Core
    BY <2>0
  <2>w. PICK w : w = Core'
    OBVIOUS
  <2> DEFINE longer == [i \in 1 .. n + 1 |-> IF i <= n THEN run[i] ELSE w]
  <2>2. n >= 1 /\ \A i \in 1 .. n : longer[i] = run[i]
    BY <2>1 DEF Run
  <2>3. longer[n + 1] = Core'
    BY <2>w
  <2> HIDE DEF longer
  <2>4. Passes(snap, longer[n], longer[n + 1])
    BY <1>3, <2>1, <2>2, <2>3
  <2>5. ASSUME NEW i \in 1 .. n PROVE Passes(snap, longer[i], longer[i + 1])
    <3>1. CASE i = n
      BY <2>4, <3>1
    <3>2. CASE i # n
      <4>1. i \in 1 .. n - 1 /\ i + 1 \in 1 .. n
        BY <3>2
      <4>2. QED
        BY <2>1, <2>2, <4>1 DEF Run
    <3>3. QED
      BY <3>1, <3>2
  <2>6. Run(snap, n + 1, longer)
    BY <2>1, <2>2, <2>5 DEF Run
  <2>7. Run(snap, n + 1, longer)'
    BY <1>1, <2>6, SameAcceptable
  <2>8. n + 1 \in Nat
    OBVIOUS
  <2>9. QED
    BY <2>3, <2>7, <2>8
<1>4. ASSUME op = "create", OwnFile
      PROVE  \E n \in Nat : \E run : Complete(snap, n, run)' /\ \E i \in 1 .. n : run[i] = Core'
  <2>0. PICK n \in Nat : \E run : Complete(snap, n, run) /\ \E i \in 1 .. n : run[i] = Core
    BY <1>4 DEF IndInv, RunInv
  <2>1. PICK run : Complete(snap, n, run) /\ \E i \in 1 .. n : run[i] = Core
    BY <2>0
  <2>2. PICK i \in 1 .. n : run[i] = Core
    BY <2>1
  <2>3. i # n
    BY <1>4, <2>1, <2>2 DEF Complete, Core
  <2>4. i \in 1 .. n - 1 /\ i + 1 \in 1 .. n
    BY <2>3
  <2>5. run[i + 1] = Core'
    BY <1>4, <2>1, <2>2, <2>4 DEF Complete, Run
  <2>6. Complete(snap, n, run)'
    BY <1>1, <2>1, SameAcceptable
  <2>7. QED
    BY <2>4, <2>5, <2>6
<1>5. OwnFile' = OwnFile
  BY <1>1 DEF OwnFile
<1>6. QED
  BY <1>1, <1>2, <1>3, <1>4, <1>5 DEF RunInv

LEMMA CoreFields ==
  /\ Core.call = call /\ Core.frames = frames /\ Core.init = build.init
  /\ Core.named = build.named /\ Core.visits = build.visits
  /\ TopOf(Core) = Top /\ KidOf(Core) = Child
BY DEF Core, TopOf, KidOf, Top, Child

(* A step of the walk that is not a failure.                               *)
Goes == /\ Continue
        /\ op # "idle"
        /\ op = "set" => Passes(snap, Core, Core')
        /\ op = "create" => /\ ~(AtEnd(Core) /\ Len(frames) = 1)
                            /\ \A v : Passes(snap, Core, v) => v = Core'

LEMMA EnterGoes == IndInv /\ Enter => Goes
<1> SUFFICES ASSUME IndInv, Enter PROVE Goes
  OBVIOUS
<1> DEFINE root == RootOf(snap, call, frames = << >>)
<1>1. call # NoId /\ op # "idle" /\ Continue
  BY DEF IndInv, ShapeInv, Enter
<1>2. Core' = [call |-> NoId,
               frames |-> Append(frames, [root |-> root, kid |-> 1, some |-> FALSE, controls |-> FALSE]),
               init |-> IF build.init = "unknown" THEN root.init ELSE build.init,
               named |-> TRUE, visits |-> build.visits + 1]
  BY DEF IndInv, ShapeInv, Enter, Entered, Core
<1>3. \A v : Passes(snap, Core, v) => v = Core'
  BY <1>1, <1>2, CoreFields DEF Passes, EntersOk, KidOk, LeavesOk, AtKid, AtEnd
<1>4. ~AtEnd(Core)
  BY <1>1, CoreFields DEF AtEnd
<1>5. op = "set" => EntersOk(snap, Core, Core')
  BY <1>1, <1>2, CoreFields DEF IndInv, ShapeInv, Enter, Enterable, Entered, Malformed, EntersOk
<1>6. QED
  BY <1>1, <1>3, <1>4, <1>5 DEF Goes, Passes

LEMMA KidStep ==
  ASSUME IndInv, NEW tag, Walking(tag), ~Child.required, Continue,
         NEW some \in BOOLEAN, NEW controls \in BOOLEAN, NextKid(some, controls),
         build'.init = build.init, build'.named = build.named, build'.visits = build.visits
  PROVE  /\ op # "idle" /\ AtKid(Core, tag) /\ ~AtEnd(Core)
         /\ \A t : AtKid(Core, t) => t = tag
         /\ frames' = Moved(Core, some, controls)
         /\ Core' = [call |-> call', frames |-> frames', init |-> Core.init, named |-> Core.named,
                     visits |-> Core.visits]
<1>1. Core.frames = frames /\ TopOf(Core) = Top /\ KidOf(Core) = Child /\ Core.call = call
  BY CoreFields
<1>2. Top.kid \in Nat /\ Len(Top.root.kids) \in Nat
  <2>1. Top \in Frames
    BY DEF IndInv, ShapeInv, Walking, Top
  <2>2. Top.root.kids \in Seq(Range(Top.root.kids))
    BY <2>1, ProfilesAssumption DEF Frames, Profs
  <2>3. QED
    BY <2>1, <2>2 DEF Frames
<1>3. AtKid(Core, tag) /\ ~AtEnd(Core) /\ op # "idle"
  BY <1>1, <1>2 DEF AtKid, AtEnd, Walking
<1>4. \A t : AtKid(Core, t) => t = tag
  BY <1>3 DEF AtKid
<1>5. frames' = Moved(Core, some, controls)
  BY <1>1 DEF NextKid, Moved
<1>6. Core' = [call |-> call', frames |-> frames', init |-> Core.init, named |-> Core.named,
                     visits |-> Core.visits]
  BY CoreFields DEF Core
<1>7. QED
  BY <1>3, <1>4, <1>5, <1>6

LEMMA CapsGoes ==
  ASSUME IndInv, Walking("caps"), ~Child.required, ~CapsBad(Child), NextKid(FALSE, FALSE),
         UNCHANGED <<call, build>>, Continue
  PROVE  Goes
<1>1. /\ op # "idle" /\ AtKid(Core, "caps") /\ ~AtEnd(Core)
      /\ \A t : AtKid(Core, t) => t = "caps"
      /\ frames' = Moved(Core, FALSE, FALSE)
      /\ Core' = [call |-> call', frames |-> frames', init |-> Core.init, named |-> Core.named,
                     visits |-> Core.visits]
  BY KidStep
<1>2. Core' = [Core EXCEPT !.frames = frames']
  BY DEF Core
<1>3. Passes(snap, Core, Core') /\ \A v : Passes(snap, Core, v) => v = Core'
  BY <1>1, <1>2, CoreFields DEF Passes, EntersOk, KidOk, LeavesOk, AtKid
<1>4. QED
  BY <1>1, <1>3 DEF Goes

LEMMA IncludeGoes ==
  ASSUME IndInv, Walking("include"), ~Child.required, Child.file # NoId, call' = Child.file,
         NextKid(TRUE, FALSE), UNCHANGED build, Continue
  PROVE  Goes
<1>1. /\ op # "idle" /\ AtKid(Core, "include") /\ ~AtEnd(Core)
      /\ \A t : AtKid(Core, t) => t = "include"
      /\ frames' = Moved(Core, TRUE, FALSE)
      /\ Core' = [call |-> call', frames |-> frames', init |-> Core.init, named |-> Core.named,
                     visits |-> Core.visits]
  BY KidStep
<1>2. Passes(snap, Core, Core') /\ \A v : Passes(snap, Core, v) => v = Core'
  BY <1>1, CoreFields DEF Passes, EntersOk, KidOk, LeavesOk, AtKid
<1>3. QED
  BY <1>1, <1>2 DEF Goes

LEMMA OtherGoes ==
  ASSUME IndInv, Walking("other"), ~Child.required, ~mode.validate, NextKid(FALSE, FALSE),
         UNCHANGED <<call, build>>, Continue
  PROVE  Goes
<1>1. /\ op # "idle" /\ AtKid(Core, "other") /\ ~AtEnd(Core)
      /\ \A t : AtKid(Core, t) => t = "other"
  BY KidStep
<1>2. op # "set"
  BY DEF IndInv, ShapeInv
<1>3. \A v : ~Passes(snap, Core, v)
  BY <1>1, CoreFields DEF Passes, EntersOk, KidOk, LeavesOk, AtKid
<1>4. QED
  BY <1>1, <1>2, <1>3 DEF Goes

LEMMA ReturnGoes == IndInv /\ Return => Goes
<1> SUFFICES ASSUME IndInv, Return PROVE Goes
  OBVIOUS
<1>1. Core' = [Core EXCEPT !.frames = Front(@)] /\ Continue /\ op # "idle"
  BY DEF Core, Return, Leaving
<1>2. AtEnd(Core) /\ Len(Core.frames) > 1
  BY CoreFields DEF Return, Leaving, AtEnd
<1>3. \A t : ~AtKid(Core, t)
  <2>1. Top \in Frames
    BY DEF IndInv, ShapeInv, Return, Leaving, Top
  <2>2. Top.root.kids \in Seq(Range(Top.root.kids))
    BY <2>1, ProfilesAssumption DEF Frames, Profs
  <2>3. Top.kid \in Nat /\ Len(Top.root.kids) \in Nat
    BY <2>1, <2>2 DEF Frames
  <2>4. QED
    BY <2>3, CoreFields DEF AtKid, Return, Leaving
<1>4. Passes(snap, Core, Core') /\ \A v : Passes(snap, Core, v) => v = Core'
  BY <1>1, <1>2, <1>3 DEF Passes, EntersOk, KidOk, LeavesOk, AtEnd
<1>5. Len(frames) # 1
  BY <1>2, CoreFields
<1>6. QED
  BY <1>1, <1>4, <1>5 DEF Goes

LEMMA ControlsGoes ==
  ASSUME IndInv, Walking("controls"), ~Child.required, ~Top.controls, ~Child.strange,
         NoAddress \notin Isolated(Options, Child.elements),
         AddControls(Options, Child.elements, staged.vcp, mode, build).ok,
         build'.init = build.init, build'.named = build.named, build'.visits = build.visits,
         NextKid(TRUE, TRUE), UNCHANGED call, Continue
  PROVE  Goes
<1>1. /\ op # "idle" /\ AtKid(Core, "controls") /\ ~AtEnd(Core)
      /\ \A t : AtKid(Core, t) => t = "controls"
      /\ frames' = Moved(Core, TRUE, TRUE)
      /\ Core' = [call |-> call', frames |-> frames', init |-> Core.init, named |-> Core.named,
                  visits |-> Core.visits]
  BY KidStep
<1>2. Core' = [Core EXCEPT !.frames = frames']
  BY DEF Core
<1>3. op = "set" => Passing(Child.elements)
  <2>1. op = "set" => mode = Strict
    BY DEF IndInv, ShapeInv, Strict
  <2>2. QED
    BY <2>1, StrictPasses
<1>4. op = "set" => KidOk(Core, Core')
  BY <1>1, <1>2, <1>3, CoreFields DEF KidOk
<1>5. \A v : Passes(snap, Core, v) => v = Core'
  BY <1>1, <1>2, CoreFields DEF Passes, EntersOk, KidOk, LeavesOk, AtKid
<1>6. QED
  BY <1>1, <1>4, <1>5 DEF Goes, Passes

-----------------------------------------------------------------------------
(* The walk goes on: what its steps have in common.                        *)

LEMMA GoesInv ==
  ASSUME IndInv, Goes, frames' \in Seq(Frames), call' \in Ids \cup {NoId}, frames' # << >>,
         build' = [init |-> build'.init, named |-> build'.named, visits |-> build'.visits,
                   tree |-> build'.tree, turn |-> build'.turn, defined |-> build'.defined],
         build'.visits \in Nat, Turned(build'), ~mode.validate => Unambiguous(build'),
         ReachInv', CoverInv'
  PROVE  IndInv'
<1> USE DEF request
<1>1. Continue /\ op # "idle"
  BY DEF Goes
<1>2. ShapeInv'
  BY <1>1 DEF IndInv, ShapeInv, Continue, OwnFile
<1>3. TreeInv'
  BY <1>1 DEF TreeInv, Continue
<1>4. ForeseenInv'
  BY <1>1, SameReach DEF IndInv, ForeseenInv, Continue
<1>5. RunInv'
  BY MoveRunInv DEF Goes
<1>6. ResultInv'
  BY <1>1 DEF IndInv, ShapeInv, ResultInv, CapsOnlyWithTree, AcceptedFileLoads, RequiredNeverExposed, Continue
<1>7. QED
  BY <1>2, <1>3, <1>4, <1>5, <1>6 DEF IndInv

LEMMA TopIsFrame ==
  ASSUME IndInv, frames # << >>
  PROVE  /\ Len(frames) \in DOMAIN frames /\ Len(frames) \in Nat /\ Top \in Frames /\ Top.root \in Profs
         /\ Top.kid \in Nat \ {0} /\ Len(Top.root.kids) \in Nat
         /\ DOMAIN Top.root.kids = 1 .. Len(Top.root.kids)
<1>1. Len(frames) \in DOMAIN frames /\ Top \in Frames /\ Len(frames) \in Nat
  BY DEF IndInv, ShapeInv, Top
<1>2. Top.root.kids \in Seq(Range(Top.root.kids))
  BY <1>1, ProfilesAssumption DEF Frames, Profs
<1>3. QED
  BY <1>1, <1>2 DEF Frames

LEMMA NextFrames ==
  ASSUME IndInv, frames # << >>, NEW some \in BOOLEAN, NEW controls \in BOOLEAN, NextKid(some, controls)
  PROVE  /\ frames' \in Seq(Frames) /\ frames' # << >> /\ DOMAIN frames' = DOMAIN frames
         /\ \A n \in DOMAIN frames :
              /\ frames'[n].root = frames[n].root
              /\ frames'[n].kid = IF n = Len(frames) THEN Top.kid + 1 ELSE frames[n].kid
<1> DEFINE N == Len(frames)
           new == [root |-> Top.root, kid |-> Top.kid + 1, some |-> Top.some \/ some,
                   controls |-> Top.controls \/ controls]
<1>1. frames \in Seq(Frames) /\ N \in DOMAIN frames /\ Top \in Frames /\ Top = frames[N]
  BY TopIsFrame DEF IndInv, ShapeInv, Top
<1>2. new \in Frames /\ new.root = frames[N].root /\ new.kid = Top.kid + 1
  BY <1>1 DEF Frames
<1>3. frames' = [frames EXCEPT ![N] = new]
  BY DEF NextKid
<1> HIDE DEF new
<1>4. QED
  BY <1>1, <1>2, <1>3

(* A child is passed.                                                      *)
LEMMA KidCovers ==
  ASSUME IndInv, op = "create", NEW tag, Walking(tag), Continue,
         NEW some \in BOOLEAN, NEW controls \in BOOLEAN, NextKid(some, controls),
         \A a : Away(a) => Away(a)',
         Child.tag = "include" => call' = Child.file /\ call' # NoId,
         Child.tag = "controls" => \A a \in Isolated(Options, Child.elements) : Away(a)'
  PROVE  CoverInv'
<1> USE DEF request
<1>1. call = NoId /\ frames # << >>
  BY DEF Walking
<1>2. disk' = disk /\ snap' = snap /\ want' = want /\ op' = op
  BY DEF Continue
<1>3. PICK D \in SUBSET Profs : Covers(D)
  BY DEF IndInv, CoverInv
<1>4. /\ frames' # << >> /\ DOMAIN frames' = DOMAIN frames
      /\ \A n \in DOMAIN frames :
              /\ frames'[n].root = frames[n].root
              /\ frames'[n].kid = IF n = Len(frames) THEN Top.kid + 1 ELSE frames[n].kid
  BY <1>1, NextFrames
<1>5. ASSUME NEW i, Met(D, i) PROVE Met(D, i)'
  BY <1>1, <1>2, <1>4, <1>5, SameReach DEF Met
<1>6. ASSUME NEW kid, Passed(D, kid) PROVE Passed(D, kid)'
  BY <1>2, <1>5, <1>6, SameDatabase DEF Passed
<1>7. PICK kid : kid = Child
  OBVIOUS
<1>8. Passed(D, kid)'
  BY <1>2, <1>7, SameDatabase DEF Passed, Met
<1>9. ASSUME NEW n \in DOMAIN frames, NEW k \in DOMAIN frames[n].root.kids, k < frames'[n].kid
      PROVE  Passed(D, frames[n].root.kids[k])'
  <2>1. PICK r : r = frames[n].root
    OBVIOUS
  <2>2. r.kids[k] = kid \/ Passed(D, r.kids[k])
    BY <1>1, <1>3, <1>4, <1>7, <1>9, <2>1, TopIsFrame DEF Covers, Child, Top
  <2>3. Passed(D, r.kids[k])'
    BY <1>6, <1>8, <2>2
  <2>4. frames'[n].root = r
    BY <1>4, <2>1
  <2>5. QED
    BY <2>3, <2>4
<1>10. Covers(D)'
  BY <1>3, <1>4, <1>6, <1>9 DEF Covers
<1>11. QED
  BY <1>10 DEF CoverInv

LEMMA KidReach ==
  ASSUME IndInv, NEW tag, Walking(tag), Continue,
         NEW some \in BOOLEAN, NEW controls \in BOOLEAN, NextKid(some, controls),
         call' = NoId \/ (Child.tag = "include" /\ call' = Child.file)
  PROVE  ReachInv' /\ call' \in Ids \cup {NoId}
<1> USE DEF request
<1>1. call = NoId /\ frames # << >> /\ op # "idle" /\ Top.kid \in DOMAIN Top.root.kids
  <2>1. frames # << >> /\ Top.kid <= Len(Top.root.kids)
    BY DEF Walking
  <2>2. QED
    BY <2>1, TopIsFrame DEF Walking
<1>2. /\ frames' # << >> /\ DOMAIN frames' = DOMAIN frames
      /\ \A n \in DOMAIN frames : frames'[n].root = frames[n].root
  BY <1>1, NextFrames
<1>3. disk' = disk /\ snap' = snap /\ want' = want
  BY DEF Continue
<1>4. call' # NoId => call' \in Targets
  <2>1. Top.root \in Reach /\ IsProfile(Top.root)
    BY <1>1, TopIsFrame DEF IndInv, ReachInv, Top, IsProfile, Profs
  <2>2. Includes(Top.root) \subseteq Targets
    BY <2>1, ReachedIsClosed DEF IndInv, ShapeInv, Reach, Targets
  <2>3. Child.tag = "include" => Child.file \in Includes(Top.root)
    BY <1>1, <2>1 DEF Includes, Child
  <2>4. QED
    BY <2>2, <2>3
<1>5. call' \in Ids \cup {NoId}
  BY <1>4 DEF Targets, Named
<1>6. 1 \in DOMAIN frames
  BY <1>1 DEF IndInv, ShapeInv
<1>7. QED
  BY <1>1, <1>2, <1>3, <1>4, <1>5, <1>6, SameReach DEF IndInv, ReachInv

(* Children that leave the controls as they are.                           *)
LEMMA KidInv ==
  ASSUME IndInv, Goes, NEW tag, Walking(tag), tag # "controls",
         NEW some \in BOOLEAN, NEW controls \in BOOLEAN, NextKid(some, controls), UNCHANGED build,
         \/ tag = "include" /\ call' = Child.file /\ Child.file # NoId
         \/ tag # "include" /\ call' = call
  PROVE  IndInv'
<1>1. call = NoId /\ frames # << >> /\ Child.tag = tag
  BY DEF Walking
<1>2. Continue
  BY DEF Goes
<1>3. ReachInv' /\ call' \in Ids \cup {NoId}
  BY <1>1, <1>2, KidReach
<1>4. CoverInv'
  <2>1. CASE op = "create"
    BY <1>1, <1>2, <2>1, KidCovers DEF Away
  <2>2. CASE op # "create"
    BY <1>2, <2>2 DEF CoverInv, Continue, request
  <2>3. QED
    BY <2>1, <2>2
<1>5. frames' \in Seq(Frames) /\ frames' # << >>
  BY <1>1, NextFrames
<1>6. QED
  BY <1>2, <1>3, <1>4, <1>5, GoesInv DEF IndInv, ShapeInv, TreeInv

LEMMA ControlsInv ==
  ASSUME IndInv, Walking("controls"), ~Child.required, ~Top.controls, ~Child.strange,
         NoAddress \notin Isolated(Options, Child.elements),
         NEW a, a = AddControls(Options, Child.elements, staged.vcp, mode, build), a.ok,
         build' = [build EXCEPT !.tree = a.tree, !.turn = a.turn, !.defined = a.defined],
         NextKid(TRUE, TRUE), UNCHANGED call, Continue
  PROVE  IndInv'
<1>1. call = NoId /\ frames # << >> /\ Child.tag = "controls"
  BY DEF Walking
<1>2. /\ build' = [init |-> build.init, named |-> build.named, visits |-> build.visits,
                   tree |-> a.tree, turn |-> a.turn, defined |-> a.defined]
      /\ build.visits \in Nat /\ Turned(build)
  BY DEF IndInv, ShapeInv
<1>3. /\ build'.init = build.init /\ build'.named = build.named /\ build'.visits = build.visits
      /\ build'.tree = a.tree /\ build'.turn = a.turn /\ build'.defined = a.defined
  BY <1>2
<1>4. Goes
  BY <1>3, ControlsGoes
<1>5. DOMAIN Options \subseteq Nat
  BY ProfilesAssumption DEF IndInv, ShapeInv, Options
<1>6. Turned(a) /\ (~mode.validate =>
         /\ build.defined \cup Isolated(Options, Child.elements) \subseteq a.defined
         /\ Addresses(a.tree) \cap Isolated(Options, Child.elements) = {}
         /\ Addresses(a.tree) \cap build.defined \subseteq Addresses(build.tree)
         /\ Unambiguous(build) => Unambiguous(a))
  BY <1>2, <1>5, AddedTree
<1>7. ~mode.validate => Unambiguous(build')
  BY <1>3, <1>6 DEF Unambiguous, IndInv, TreeInv
<1>8. ReachInv' /\ call' \in Ids \cup {NoId}
  BY <1>1, KidReach
<1>9. CoverInv'
  <2>1. CASE op = "create"
    <3>1. ~mode.validate
      BY <2>1 DEF IndInv, ShapeInv
    <3>2. \A x : Away(x) => Away(x)'
      BY <1>3, <1>6, <3>1 DEF Away
    <3>3. \A x \in Isolated(Options, Child.elements) : Away(x)'
      BY <1>3, <1>6, <3>1 DEF Away
    <3>4. QED
      BY <1>1, <2>1, <3>2, <3>3, KidCovers
  <2>2. CASE op # "create"
    BY <2>2 DEF CoverInv, Continue, request
  <2>3. QED
    BY <2>1, <2>2
<1>10. frames' \in Seq(Frames) /\ frames' # << >>
  BY <1>1, NextFrames
<1>11. QED
  BY <1>2, <1>3, <1>4, <1>6, <1>7, <1>8, <1>9, <1>10, GoesInv DEF Turned

LEMMA EnterInv == IndInv /\ Enter => IndInv'
<1> SUFFICES ASSUME IndInv, Enter PROVE IndInv'
  OBVIOUS
<1> USE DEF request
<1>1. Goes
  BY EnterGoes
<1>2. Continue /\ op # "idle" /\ call' = NoId /\ call # NoId
  BY <1>1 DEF Goes, Enter
<1>3. disk' = disk /\ snap' = snap /\ want' = want /\ op' = op
  BY <1>2 DEF Continue
<1> DEFINE new == [root |-> Entered, kid |-> 1, some |-> FALSE, controls |-> FALSE]
<1>4. Entered \in Profs /\ new \in Frames
  <2>1. Entered \in Profs
    BY RootsAreSources DEF IndInv, ShapeInv, Enter, Enterable, Entered
  <2>2. QED
    BY <2>1 DEF Frames
<1>5. frames' = Append(frames, new) /\ frames \in Seq(Frames)
  BY DEF Enter, IndInv, ShapeInv
<1>6. /\ frames' \in Seq(Frames) /\ frames' # << >> /\ DOMAIN frames' = DOMAIN frames \cup {Len(frames) + 1}
      /\ \A n \in DOMAIN frames : frames'[n] = frames[n]
      /\ frames'[Len(frames) + 1] = new /\ Len(frames) \in Nat /\ DOMAIN frames = 1 .. Len(frames)
  BY <1>4, <1>5
<1>7. /\ build' = [init |-> build'.init, named |-> TRUE, visits |-> build.visits + 1,
                   tree |-> build.tree, turn |-> build.turn, defined |-> build.defined]
  BY DEF Enter, IndInv, ShapeInv
<1>8. /\ build'.tree = build.tree /\ build'.turn = build.turn /\ build'.defined = build.defined
      /\ build'.visits = build.visits + 1 /\ build'.named = TRUE
  BY <1>7
<1>9. frames = << >> => Entered = Asked
  BY <1>2 DEF Entered, Asked, IndInv, ShapeInv
<1>10. frames # << >> => Entered = Inc(call)
  BY DEF Entered, Inc
<1>11. ReachInv'
  <2>1. Entered \in Reach
    BY <1>2, <1>9, <1>10 DEF Reach, Reached, Asked, Inc, IndInv, ReachInv, Targets
  <2>2. frames'[1].root = Asked
    BY <1>2, <1>6, <1>9 DEF IndInv, ReachInv
  <2>3. QED
    BY <1>2, <1>3, <1>6, <2>1, <2>2, SameReach DEF IndInv, ReachInv
<1>12. CoverInv'
  <2>1. CASE op = "create"
    <3>1. PICK D \in SUBSET Profs : Covers(D)
      BY <2>1 DEF IndInv, CoverInv
    <3>2. ASSUME frames # << >>, NEW i, Met(D, i) PROVE Met(D, i)'
      BY <1>2, <1>3, <1>6, <1>10, <3>2, SameReach DEF Met
    <3>3. ASSUME frames # << >>, NEW kid, Passed(D, kid) PROVE Passed(D, kid)'
      BY <1>3, <1>8, <3>2, <3>3, SameDatabase DEF Passed, Away
    <3>4. ASSUME NEW n \in DOMAIN frames', NEW k \in DOMAIN frames'[n].root.kids, k < frames'[n].kid
          PROVE  frames # << >> /\ n \in DOMAIN frames
      <4>1. k >= 1 /\ k \in Nat
        <5>0. frames'[n] \in Frames
          <6>1. frames' \in Seq(Frames)
            BY <1>6
          <6>2. QED
            BY <6>1
        <5>1. frames'[n].root \in Profs
          BY <5>0 DEF Frames
        <5>2. frames'[n].root.kids \in Seq(Range(frames'[n].root.kids))
          BY <5>1, ProfilesAssumption DEF Profs
        <5>3. QED
          BY <5>2
      <4>2. n # Len(frames) + 1
        BY <1>6, <3>4, <4>1
      <4>3. QED
        BY <1>6, <4>2
    <3>5. Covers(D)'
      BY <1>6, <3>1, <3>3, <3>4 DEF Covers
    <3>6. QED
      BY <3>1, <3>5 DEF CoverInv
  <2>2. CASE op # "create"
    BY <1>3, <2>2 DEF CoverInv
  <2>3. QED
    BY <2>1, <2>2
<1>13. Turned(build') /\ (~mode.validate => Unambiguous(build')) /\ build'.visits \in Nat
  BY <1>8 DEF Turned, Unambiguous, IndInv, ShapeInv, TreeInv
<1>14. QED
  BY <1>1, <1>2, <1>6, <1>7, <1>8, <1>11, <1>12, <1>13, GoesInv

LEMMA ReturnInv == IndInv /\ Return => IndInv'
<1> SUFFICES ASSUME IndInv, Return PROVE IndInv'
  OBVIOUS
<1> USE DEF request
<1>1. Goes
  BY ReturnGoes
<1>2. /\ Continue /\ op # "idle" /\ call' = NoId /\ call = NoId /\ build' = build /\ frames # << >>
      /\ Top.kid > Len(Top.root.kids) /\ Len(frames) > 1 /\ frames' = Front(frames)
  BY <1>1 DEF Goes, Return, Leaving
<1>3. disk' = disk /\ snap' = snap /\ want' = want /\ op' = op
  BY <1>2 DEF Continue
<1>4. /\ frames' \in Seq(Frames) /\ frames' # << >> /\ DOMAIN frames = DOMAIN frames' \cup {Len(frames)}
      /\ \A n \in DOMAIN frames' : frames'[n] = frames[n] /\ n \in DOMAIN frames
      /\ 1 \in DOMAIN frames'
  <2>1. frames \in Seq(Frames) /\ frames' = SubSeq(frames, 1, Len(frames) - 1)
    BY <1>2 DEF Front, IndInv, ShapeInv
  <2>2. Len(frames) \in Nat /\ Len(frames) >= 2
    BY <1>2, <2>1
  <2>3. /\ frames' \in Seq(Frames) /\ Len(frames') = Len(frames) - 1
        /\ \A n \in 1 .. Len(frames) - 1 : frames'[n] = frames[n]
    BY <2>1, <2>2
  <2>4. DOMAIN frames' = 1 .. Len(frames) - 1 /\ DOMAIN frames = 1 .. Len(frames)
    BY <2>1, <2>3
  <2>5. QED
    BY <2>2, <2>3, <2>4
<1>5. ReachInv'
  BY <1>2, <1>3, <1>4, SameReach DEF IndInv, ReachInv
<1>6. CoverInv'
  <2>1. CASE op = "create"
    <3>1. PICK D \in SUBSET Profs : Covers(D)
      BY <2>1 DEF IndInv, CoverInv
    <3>2. PICK r : r = Top.root
      OBVIOUS
    <3> DEFINE E == D \cup {r}
    <3>3. E \in SUBSET Profs
      BY <1>2, <3>1, <3>2, TopIsFrame
    <3>4. ASSUME NEW i, Met(D, i) PROVE Met(E, i)'
      BY <1>2, <1>3, <1>4, <3>2, <3>4, SameReach DEF Met, Top
    <3>5. ASSUME NEW kid, Passed(D, kid) PROVE Passed(E, kid)'
      BY <1>2, <1>3, <3>4, <3>5, SameDatabase DEF Passed, Away
    <3>6. \A k \in DOMAIN r.kids : Passed(D, r.kids[k])
      <4>1. \A k \in DOMAIN r.kids : k < Top.kid
        BY <1>2, <3>2, TopIsFrame
      <4>2. QED
        BY <1>2, <3>1, <3>2, <4>1, TopIsFrame DEF Covers, Top
    <3>7. Covers(E)'
      BY <1>4, <3>1, <3>5, <3>6 DEF Covers
    <3>8. QED
      BY <3>3, <3>7 DEF CoverInv
  <2>2. CASE op # "create"
    BY <1>3, <2>2 DEF CoverInv
  <2>3. QED
    BY <2>1, <2>2
<1>7. QED
  BY <1>1, <1>2, <1>4, <1>5, <1>6, GoesInv DEF IndInv, ShapeInv, TreeInv

-----------------------------------------------------------------------------
(* Failures.  A load that fails is not the load of an accepted file, and   *)
(* one that fails for a requirement had it announced.                      *)

Announced(required) == op = "create" /\ required => flag

LEMMA FailInv ==
  ASSUME IndInv, op # "idle", NEW required \in BOOLEAN, Fail(required),
         op = "create" => ~OwnFile
  PROVE  IndInv'
<1>1. answer = "none" /\ caps = given
  BY DEF IndInv, ShapeInv, ResultInv, CapsOnlyWithTree
<1>2. op = "create" \/ op = "set"
  BY DEF IndInv, ShapeInv
<1>3. OwnFile' = OwnFile
  BY DEF OwnFile, Fail, End
<1>4. answer' = "null" => ~OwnFile'
  BY <1>2, <1>3 DEF Fail, End
<1>5. answer' # "tree" /\ flag' \in BOOLEAN /\ snap' \in {NoFile} \cup Files
  BY DEF Fail, End, IndInv, ShapeInv
<1>6. QED
  BY <1>1, <1>4, <1>5, QuietInv DEF Fail, End

LEMMA NoMemoryInv ==
  ASSUME IndInv, op # "idle", FailOutOfMemory
  PROVE  IndInv'
<1>1. answer = "none" /\ caps = given
  BY DEF IndInv, ShapeInv, ResultInv, CapsOnlyWithTree
<1>2. answer' # "tree" /\ answer' # "null" /\ flag' \in BOOLEAN /\ snap' \in {NoFile} \cup Files
  BY DEF FailOutOfMemory, End, IndInv, ShapeInv
<1>3. QED
  BY <1>1, <1>2, QuietInv DEF FailOutOfMemory, End

(* A requirement of a reached profile is one the search has found.         *)
LEMMA RequirementFound ==
  ASSUME IndInv, op = "create", NEW root \in Reach, IsProfile(root),
         root.required \/ \E k \in DOMAIN root.kids : ChildNeeds(root.kids[k])
  PROVE  flag
BY DEF IndInv, ForeseenInv, HasRequirements, Reach

LEMMA EnterFailsInv ==
  ASSUME IndInv, EnterFails
  PROVE  \E required \in BOOLEAN : Fail(required) /\ Announced(required) /\ op # "idle" /\
                                   (op = "create" => ~OwnFile)
<1>1. call # NoId /\ op # "idle"
  BY DEF EnterFails, IndInv, ShapeInv
<1>2. ASSUME Enterable, Entered.required, op = "create" PROVE flag
  <2>1. frames = << >> => Entered = Asked
    BY <1>1 DEF Entered, Asked, IndInv, ShapeInv
  <2>2. frames # << >> => Entered = Inc(call)
    BY DEF Entered, Inc
  <2>3. Entered \in Reach
    BY <1>1, <2>1, <2>2 DEF Reach, Reached, Asked, Inc, IndInv, ReachInv, Targets
  <2>4. QED
    BY <1>2, <2>3, RequirementFound DEF Enterable
<1>3. op = "create" /\ OwnFile => \E v : EntersOk(snap, Core, v)
  BY <1>1, OnTheWay, CoreFields DEF Passes, KidOk, LeavesOk, AtKid, AtEnd
<1>4. op = "create" /\ OwnFile => Enterable /\ ~Entered.required /\ ~Malformed(Entered)
  BY <1>3, CoreFields DEF EntersOk, Enterable, Entered, Malformed
<1>5. QED
  BY <1>1, <1>2, <1>4 DEF EnterFails, Announced

LEMMA KidStuck ==
  ASSUME IndInv, NEW tag, Walking(tag)
  PROVE  /\ op # "idle" /\ Child.tag = tag
         /\ Top.root \in Reach /\ IsProfile(Top.root) /\ Top.kid \in DOMAIN Top.root.kids
         /\ op = "create" /\ OwnFile => \E v : KidOk(Core, v)
         /\ \A t : AtKid(Core, t) => t = tag /\ ~Child.required
<1>1. call = NoId /\ frames # << >> /\ op # "idle" /\ Top.kid <= Len(Top.root.kids) /\ Child.tag = tag
  BY DEF Walking
<1>2. Top.root \in Reach /\ IsProfile(Top.root) /\ Top.kid \in DOMAIN Top.root.kids
  BY <1>1, TopIsFrame DEF IndInv, ReachInv, Top, IsProfile, Profs
<1>3. ~AtEnd(Core)
  BY <1>1, TopIsFrame, CoreFields DEF AtEnd
<1>4. op = "create" /\ OwnFile => \E v : KidOk(Core, v)
  BY <1>1, <1>3, OnTheWay, CoreFields DEF Passes, EntersOk, LeavesOk
<1>5. \A t : AtKid(Core, t) => t = tag /\ ~Child.required
  BY <1>1, CoreFields DEF AtKid
<1>6. QED
  BY <1>1, <1>2, <1>4, <1>5

LEMMA ChildFailsInv ==
  ASSUME IndInv, NEW tag, Walking(tag),
         NEW required \in BOOLEAN, Fail(required),
         \/ Child.required
         \/ ~required /\ tag = "caps" /\ CapsBad(Child)
         \/ ~required /\ tag = "include" /\ Child.file = NoId
         \/ ~required /\ tag = "other" /\ mode.validate
         \/ ~required /\ tag = "controls" /\ Top.controls
         \/ tag = "controls" /\ (Child.strange \/ NoAddress \in Isolated(Options, Child.elements))
         \/ /\ ~required /\ tag = "controls"
            /\ ~AddControls(Options, Child.elements, staged.vcp, mode, build).ok
  PROVE  Announced(required) /\ op # "idle" /\ (op = "create" => ~OwnFile)
<1>1. /\ op # "idle" /\ Child.tag = tag
      /\ Top.root \in Reach /\ IsProfile(Top.root) /\ Top.kid \in DOMAIN Top.root.kids
      /\ op = "create" /\ OwnFile => \E v : KidOk(Core, v)
      /\ \A t : AtKid(Core, t) => t = tag /\ ~Child.required
  BY KidStuck
<1>2. ASSUME op = "create", required PROVE flag
  <2>1. ChildNeeds(Child)
    BY <1>1, <1>2 DEF ChildNeeds, Isolated
  <2>2. QED
    BY <1>1, <1>2, <2>1, RequirementFound DEF Child
<1>3. ASSUME op = "create", OwnFile PROVE FALSE
  <2>1. mode = NoMode
    BY <1>3 DEF IndInv, ShapeInv, NoMode
  <2>2. PICK v : KidOk(Core, v)
    BY <1>1, <1>3
  <2>3. \/ AtKid(Core, "caps") /\ ~CapsBad(Child)
        \/ AtKid(Core, "include") /\ Child.file # NoId
        \/ /\ AtKid(Core, "controls") /\ ~Top.controls /\ ~Child.strange
           /\ NoAddress \notin Isolated(Options, Child.elements)
           /\ Passing(Child.elements)
    <3>1. KidOf(Core) = Child /\ TopOf(Core) = Top
      BY CoreFields
    <3>2. QED
      BY <2>2, <3>1 DEF KidOk
  <2>4. CASE AtKid(Core, "caps") /\ ~CapsBad(Child)
    BY <1>1, <2>4
  <2>5. CASE AtKid(Core, "include") /\ Child.file # NoId
    BY <1>1, <2>5
  <2>6. CASE /\ AtKid(Core, "controls") /\ ~Top.controls /\ ~Child.strange
             /\ NoAddress \notin Isolated(Options, Child.elements)
             /\ Passing(Child.elements)
    <3>1. AddControls(Options, Child.elements, staged.vcp, mode, build).ok
      BY <2>1, <2>6, PassingLoads
    <3>2. QED
      BY <1>1, <2>6, <3>1
  <2>7. QED
    BY <2>3, <2>4, <2>5, <2>6
<1>4. QED
  BY <1>1, <1>2, <1>3 DEF Announced

-----------------------------------------------------------------------------
(* Every step of a call keeps the invariant and raises no flag that was    *)
(* not up.                                                                 *)

Foreseen == op = "create" /\ flag' => flag

LEMMA FailStep ==
  ASSUME IndInv, op # "idle", NEW required \in BOOLEAN, Fail(required), Announced(required),
         op = "create" => ~OwnFile
  PROVE  IndInv' /\ Foreseen
BY FailInv DEF Foreseen, Announced, Fail

LEMMA NoMemoryStep ==
  ASSUME IndInv, op # "idle", FailOutOfMemory
  PROVE  IndInv' /\ Foreseen
BY NoMemoryInv DEF Foreseen, FailOutOfMemory

LEMMA ChildCapsStep ==
  ASSUME IndInv, ChildCaps
  PROVE  IndInv' /\ Foreseen
<1>1. Walking("caps") /\ ~Child.required /\ op # "idle"
  BY DEF ChildCaps, Walking
<1>2. CASE CapsBad(Child) /\ Fail(FALSE)
  <2>1. Announced(FALSE) /\ (op = "create" => ~OwnFile)
    BY <1>1, <1>2, ChildFailsInv
  <2>2. QED
    BY <1>1, <1>2, <2>1, FailStep
<1>3. CASE FailOutOfMemory
  BY <1>1, <1>3, NoMemoryStep
<1>4. CASE ~CapsBad(Child) /\ NextKid(FALSE, FALSE) /\ UNCHANGED <<call, build>> /\ Continue
  <2>1. Goes
    BY <1>1, <1>4, CapsGoes
  <2>2. UNCHANGED build /\ call' = call /\ NextKid(FALSE, FALSE)
    BY <1>4
  <2>3. IndInv'
    <3>1. ASSUME NEW t, NEW x \in BOOLEAN, t # "controls", t # "include", Walking(t), NextKid(x, x)
          PROVE  IndInv'
      BY <2>1, <2>2, <3>1, KidInv
    <3>2. QED
      BY <1>1, <2>1, <2>2, <3>1
  <2>4. QED
    BY <1>4, <2>3 DEF Foreseen, Continue
<1>5. QED
  BY <1>2, <1>3, <1>4 DEF ChildCaps

LEMMA ChildIncludeStep ==
  ASSUME IndInv, ChildInclude
  PROVE  IndInv' /\ Foreseen
<1>1. Walking("include") /\ ~Child.required /\ op # "idle"
  BY DEF ChildInclude, Walking
<1>2. CASE Child.file = NoId /\ Fail(FALSE)
  <2>1. Announced(FALSE) /\ (op = "create" => ~OwnFile)
    BY <1>1, <1>2, ChildFailsInv
  <2>2. QED
    BY <1>1, <1>2, <2>1, FailStep
<1>3. CASE Child.file # NoId /\ call' = Child.file /\ NextKid(TRUE, FALSE) /\ UNCHANGED <<build, staged>> /\ Continue
  <2>1. Goes
    BY <1>1, <1>3, IncludeGoes
  <2>2. IndInv'
    BY <1>1, <1>3, <2>1, KidInv
  <2>3. QED
    BY <1>3, <2>2 DEF Foreseen, Continue
<1>4. QED
  BY <1>2, <1>3 DEF ChildInclude

LEMMA ChildControlsStep ==
  ASSUME IndInv, ChildControls
  PROVE  IndInv' /\ Foreseen
<1> DEFINE a == AddControls(Options, Child.elements, staged.vcp, mode, build)
<1>1. Walking("controls") /\ ~Child.required /\ op # "idle"
  BY DEF ChildControls, Walking
<1>2. CASE (Top.controls \/ ~a.ok) /\ Fail(FALSE)
  <2>1. Announced(FALSE) /\ (op = "create" => ~OwnFile)
    BY <1>1, <1>2, ChildFailsInv
  <2>2. QED
    BY <1>1, <1>2, <2>1, FailStep
<1>3. CASE (Child.strange \/ NoAddress \in Isolated(Options, Child.elements)) /\ Fail(TRUE)
  <2>1. Announced(TRUE) /\ (op = "create" => ~OwnFile)
    BY <1>1, <1>3, ChildFailsInv
  <2>2. QED
    BY <1>1, <1>3, <2>1, FailStep
<1>4. CASE /\ ~Top.controls /\ ~Child.strange /\ NoAddress \notin Isolated(Options, Child.elements)
           /\ a.ok
           /\ build' = [build EXCEPT !.tree = a.tree, !.turn = a.turn, !.defined = a.defined]
           /\ NextKid(TRUE, TRUE) /\ UNCHANGED <<call, staged>> /\ Continue
  <2> HIDE DEF a
  <2>1. \A x : x = a =>
          /\ x.ok
          /\ build' = [build EXCEPT !.tree = x.tree, !.turn = x.turn, !.defined = x.defined]
    BY <1>4
  <2>2. PICK x : x = a
    OBVIOUS
  <2>3. x = AddControls(Options, Child.elements, staged.vcp, mode, build)
    BY <2>2 DEF a
  <2>4. IndInv'
    BY <1>1, <1>4, <2>1, <2>2, <2>3, ControlsInv
  <2>5. QED
    BY <1>4, <2>4 DEF Foreseen, Continue
<1>5. QED
  BY <1>2, <1>3, <1>4 DEF ChildControls

LEMMA ChildOtherStep ==
  ASSUME IndInv, ChildOther
  PROVE  IndInv' /\ Foreseen
<1>1. Walking("other") /\ ~Child.required /\ op # "idle"
  BY DEF ChildOther, Walking
<1>2. CASE mode.validate /\ Fail(FALSE)
  <2>1. Announced(FALSE) /\ (op = "create" => ~OwnFile)
    BY <1>1, <1>2, ChildFailsInv
  <2>2. QED
    BY <1>1, <1>2, <2>1, FailStep
<1>3. CASE ~mode.validate /\ NextKid(FALSE, FALSE) /\ UNCHANGED <<call, build, staged>> /\ Continue
  <2>1. Goes
    BY <1>1, <1>3, OtherGoes
  <2>2. UNCHANGED build /\ call' = call /\ NextKid(FALSE, FALSE)
    BY <1>3
  <2>3. IndInv'
    <3>1. ASSUME NEW t, NEW x \in BOOLEAN, t # "controls", t # "include", Walking(t), NextKid(x, x)
          PROVE  IndInv'
      BY <2>1, <2>2, <3>1, KidInv
    <3>2. QED
      BY <1>1, <2>1, <2>2, <3>1
  <2>4. QED
    BY <1>3, <2>3 DEF Foreseen, Continue
<1>4. QED
  BY <1>2, <1>3 DEF ChildOther

LEMMA ChildRequiredStep ==
  ASSUME IndInv, ChildRequired
  PROVE  IndInv' /\ Foreseen
<1>1. PICK tag \in {"caps", "include", "controls", "other"} : Walking(tag)
  BY DEF ChildRequired
<1>2. Child.required /\ Fail(TRUE)
  BY DEF ChildRequired
<1>3. Announced(TRUE) /\ (op = "create" => ~OwnFile) /\ op # "idle"
  BY <1>1, <1>2, ChildFailsInv
<1>4. QED
  BY <1>2, <1>3, FailStep

LEMMA LeavingStuck ==
  ASSUME IndInv, Leaving
  PROVE  /\ op # "idle" /\ \A t : ~AtKid(Core, t)
         /\ op = "create" /\ OwnFile => AtEnd(Core) /\ (Len(frames) = 1 => build.init # "unknown")
<1>1. call = NoId /\ frames # << >> /\ op # "idle" /\ Top.kid > Len(Top.root.kids)
  BY DEF Leaving
<1>2. \A t : ~AtKid(Core, t)
  BY <1>1, TopIsFrame, CoreFields DEF AtKid
<1>3. \A v : ~EntersOk(snap, Core, v) /\ ~KidOk(Core, v)
  BY <1>1, <1>2, CoreFields DEF EntersOk, KidOk
<1>4. \A v : Passes(snap, Core, v) => AtEnd(Core) /\ Len(frames) # 1
  <2>1. Core.frames = frames /\ Len(frames) \in Nat
    BY <1>1, CoreFields, TopIsFrame
  <2>2. \A v : Passes(snap, Core, v) => LeavesOk(Core, v)
    BY <1>3 DEF Passes
  <2>3. \A v : LeavesOk(Core, v) => AtEnd(Core) /\ Len(Core.frames) > 1
    BY DEF LeavesOk
  <2>4. ASSUME NEW v, Passes(snap, Core, v) PROVE AtEnd(Core) /\ Len(frames) # 1
    <3>1. AtEnd(Core) /\ Len(Core.frames) > 1
      BY <2>2, <2>3, <2>4
    <3>2. Len(frames) > 1
      BY <2>1, <3>1
    <3>3. Len(frames) # 1
      <4>1. ASSUME NEW x, x > 1, x \in Nat PROVE x # 1
        BY <4>1
      <4>2. QED
        BY <2>1, <3>2, <4>1
    <3>4. QED
      BY <3>1, <3>3
  <2>5. QED
    BY <2>4
<1>5. op = "create" /\ OwnFile => AtEnd(Core) /\ (Len(frames) = 1 => build.init # "unknown")
  BY <1>4, OnTheWay
<1>6. QED
  BY <1>1, <1>2, <1>5

LEMMA NothingFoundStep ==
  ASSUME IndInv, NothingFound
  PROVE  IndInv' /\ Foreseen
<1>1. op # "idle" /\ (op = "create" => ~OwnFile)
  BY LeavingStuck, CoreFields DEF NothingFound, AtEnd
<1>2. QED
  BY <1>1, FailStep DEF NothingFound, Announced

(* At the end of a load, D and the profile asked for are all that can be   *)
(* reached.                                                                *)
LEMMA NothingExposed ==
  ASSUME IndInv, op = "create", Leaving, Len(frames) = 1
  PROVE  \A a \in Hidden : a \notin Addresses(build.tree)
<1>1. call = NoId /\ frames # << >> /\ Top.kid > Len(Top.root.kids)
  BY DEF Leaving
<1>2. /\ DOMAIN frames = {1} /\ Top = frames[1] /\ Top.root = Asked /\ Asked \in Profs
      /\ \A k \in DOMAIN Asked.kids : k < Top.kid
  <2>1. frames \in Seq(Frames)
    BY DEF IndInv, ShapeInv
  <2>2. DOMAIN frames = {1} /\ Top = frames[1]
    BY <2>1 DEF Top
  <2>3. Top.root = Asked
    BY <1>1, <2>2 DEF IndInv, ReachInv
  <2>4. QED
    BY <1>1, <2>2, <2>3, TopIsFrame
<1>3. PICK D \in SUBSET Profs : Covers(D)
  BY DEF IndInv, CoverInv
<1> DEFINE R == D \cup {Asked}
<1>4. ASSUME NEW root \in R, NEW k \in DOMAIN root.kids PROVE Passed(D, root.kids[k])
  BY <1>2, <1>3 DEF Covers
<1>5. ASSUME NEW root \in R, NEW i \in Includes(root) PROVE Inc(i) \in R
  <2>1. PICK k \in DOMAIN root.kids : root.kids[k].tag = "include" /\ root.kids[k].file = i
    BY <1>5 DEF Includes
  <2>2. Met(D, i)
    BY <1>4, <2>1 DEF Passed
  <2>3. QED
    BY <1>1, <1>2, <2>2 DEF Met
<1>6. Reach \subseteq R
  <2>1. RootOf(snap, want, TRUE) \in R
    BY DEF Asked
  <2>2. \A root \in R : \A i \in Includes(root) : RootOf(snap, i, FALSE) \in R
    BY <1>5 DEF Inc
  <2>3. snap \in {NoFile} \cup Files /\ disk \in DOMAIN Databases
    BY DEF IndInv, ShapeInv
  <2> HIDE DEF R
  <2>4. QED
    BY <2>1, <2>2, <2>3, ReachedIsLeast DEF Reach
<1>7. SUFFICES ASSUME NEW a \in Hidden PROVE a \notin Addresses(build.tree)
  OBVIOUS
<1>8. PICK root \in Reach : \E k \in DOMAIN root.kids :
        root.kids[k].tag = "controls" /\ a \in Isolated(Options, root.kids[k].elements)
  BY DEF Hidden, Reach
<1>9. PICK k \in DOMAIN root.kids :
        root.kids[k].tag = "controls" /\ a \in Isolated(Options, root.kids[k].elements)
  BY <1>8
<1>10. Passed(D, root.kids[k])
  BY <1>4, <1>6
<1>11. QED
  BY <1>9, <1>10 DEF Passed, Away

LEMMA FinishCreateStep ==
  ASSUME IndInv, FinishCreate
  PROVE  IndInv' /\ Foreseen
<1>1. op = "create" /\ Leaving /\ Len(frames) = 1
  BY DEF FinishCreate
<1>2. CASE build.init = "unknown" /\ Fail(FALSE)
  <2>1. ~OwnFile
    BY <1>1, <1>2, LeavingStuck
  <2>2. QED
    BY <1>1, <1>2, <2>1, FailStep DEF Announced
<1>3. CASE FailOutOfMemory
  BY <1>1, <1>3, NoMemoryStep
<1>4. CASE End("tree") /\ caps' = staged /\ flag' = FALSE /\ UNCHANGED <<ctx, build>>
  <2>1. /\ op' = "idle" /\ answer' = "tree" /\ call' = NoId /\ frames' = << >> /\ mode' = NoMode
        /\ disk' = disk /\ snap' = snap /\ want' = want /\ ctx' = ctx /\ build' = build
    BY <1>4 DEF End
  <2>2. ShapeInv'
    <3>1. flag' \in BOOLEAN
      BY <1>4
    <3>2. QED
      BY <2>1, <3>1 DEF IndInv, ShapeInv, NoMode
  <2>3. TreeInv'
    BY <1>1, <2>1 DEF IndInv, ShapeInv, TreeInv
  <2>4. ReachInv' /\ CoverInv' /\ ForeseenInv'
    BY <2>1 DEF ReachInv, CoverInv, ForeseenInv
  <2>5. RunInv'
    BY <2>1, SameAcceptable DEF RunInv, IndInv
  <2>6. ResultInv'
    <3>1. Hidden' = Hidden
      BY <2>1, SameReach
    <3>2. RequiredNeverExposed'
      BY <1>1, <2>1, <3>1, NothingExposed DEF RequiredNeverExposed, Addresses
    <3>3. QED
      BY <2>1, <3>2 DEF ResultInv, CapsOnlyWithTree, AcceptedFileLoads
  <2>7. QED
    BY <1>4, <2>2, <2>3, <2>4, <2>5, <2>6 DEF IndInv, Foreseen
<1>5. QED
  BY <1>2, <1>3, <1>4 DEF FinishCreate

LEMMA FinishSetStep ==
  ASSUME IndInv, FinishSet
  PROVE  IndInv' /\ Foreseen
<1>1. op = "set" /\ Leaving /\ Len(frames) = 1 /\ Top.some
  BY DEF FinishSet
<1>2. CASE Fail(FALSE)
  BY <1>1, <1>2, FailStep DEF Announced
<1>3. CASE build.init # "unknown" /\ End("accepted") /\ ctx' = snap /\ build' = NoBuild /\ UNCHANGED <<caps, flag>>
  <2>1. AtEnd(Core)
    BY <1>1, CoreFields DEF AtEnd, Leaving
  <2>2. PICK n \in Nat : \E run : Run(snap, n, run) /\ run[n] = Core
    BY <1>1 DEF IndInv, RunInv
  <2>3. PICK run : Run(snap, n, run) /\ run[n] = Core
    BY <2>2
  <2>4. Complete(snap, n, run)
    BY <1>1, <1>3, <2>1, <2>3, CoreFields DEF Complete
  <2>5. Acceptable(ctx') /\ ctx' \in Files
    BY <1>1, <1>3, <2>4 DEF Acceptable, IndInv, ShapeInv
  <2>6. caps' = given' /\ flag' \in BOOLEAN /\ snap' \in {NoFile} \cup Files /\ answer' = "accepted"
    BY <1>1, <1>3 DEF End, IndInv, ShapeInv, ResultInv, CapsOnlyWithTree
  <2>7. QED
    BY <1>1, <1>3, <2>5, <2>6, QuietInv DEF End, Foreseen
<1>4. QED
  BY <1>2, <1>3 DEF FinishSet

-----------------------------------------------------------------------------
LEMMA InitInv == Init => IndInv
<1> SUFFICES ASSUME Init PROVE IndInv
  OBVIOUS
<1>1. ShapeInv
  <2>1. flag \in BOOLEAN
    BY DEF Init
  <2>2. /\ disk \in DOMAIN Databases /\ ctx = None /\ op = "idle" /\ snap = NoFile /\ mode = NoMode
        /\ call = NoId /\ frames = << >> /\ build = NoBuild
    BY DEF Init
  <2>3. QED
    BY <2>1, <2>2, EmptyBuild DEF ShapeInv, NoBuild, NoMode
<1>2. TreeInv
  BY EmptyBuild DEF Init, TreeInv
<1>3. RunInv
  BY ProfilesAssumption DEF Init, RunInv
<1>4. QED
  BY <1>1, <1>2, <1>3 DEF Init, IndInv, ReachInv, CoverInv, ForeseenInv, ResultInv, CapsOnlyWithTree,
     AcceptedFileLoads, RequiredNeverExposed

LEMMA NextInv == IndInv /\ [Next]_vars => IndInv' /\ (Foreseen \/ UNCHANGED vars)
<1> SUFFICES ASSUME IndInv, [Next]_vars PROVE IndInv' /\ (Foreseen \/ UNCHANGED vars)
  OBVIOUS
<1>1. CASE EnterFails
  BY <1>1, EnterFailsInv, FailStep
<1>2. CASE Enter
  BY <1>2, EnterInv DEF Foreseen, Enter, Continue
<1>3. CASE ChildRequired \/ ChildCaps \/ ChildInclude \/ ChildControls \/ ChildOther
  BY <1>3, ChildRequiredStep, ChildCapsStep, ChildIncludeStep, ChildControlsStep, ChildOtherStep
<1>4. CASE NothingFound \/ FinishCreate \/ FinishSet
  BY <1>4, NothingFoundStep, FinishCreateStep, FinishSetStep
<1>5. CASE Return
  BY <1>5, ReturnInv DEF Foreseen, Return, Continue
<1>6. CASE InitDb \/ PublishDb \/ InitDbFails \/ ReleaseDb \/ UNCHANGED vars
  <2>1. disk' = disk /\ ctx' \in {ctx, None, NoFile} /\ UNCHANGED <<caps, given, flag, answer, request, walk>>
    BY <1>6 DEF InitDb, PublishDb, InitDbFails, ReleaseDb, vars, request, walk
  <2>2. QED
    BY <2>1, OutsideInv DEF Foreseen
<1>7. ASSUME NEW f \in Files, SetMonitorFile(f) PROVE IndInv' /\ Foreseen
  BY <1>7, SetMonitorFileInv DEF Foreseen, SetMonitorFile
<1>8. ASSUME NEW id \in Ids, NEW tolerant \in BOOLEAN, CreateDb(id, tolerant) PROVE IndInv' /\ Foreseen
  <2>1. op # "create"
    BY <1>8 DEF CreateDb
  <2>2. QED
    BY <1>8, <2>1, CreateDbInv DEF Foreseen
<1>9. ASSUME NEW c \in Held, NewMonitor(c) PROVE IndInv' /\ Foreseen
  <2>1. op' = "idle" /\ call' = NoId /\ frames' = << >> /\ mode' = NoMode
    BY <1>9 DEF NewMonitor, IndInv, ShapeInv
  <2>2. IndInv'
    BY <1>9, <2>1, QuietInv DEF NewMonitor
  <2>3. QED
    BY <1>9, <2>2 DEF NewMonitor, Foreseen
<1>10. QED
  BY <1>1, <1>2, <1>3, <1>4, <1>5, <1>6, <1>7, <1>8, <1>9 DEF Next, Step

(* Every step of a load or of the validation of a monitor file keeps the   *)
(* inductive invariant: the walk enters only profiles that can be reached, *)
(* its tree is unambiguous and free of what they hide, a load of the       *)
(* session's monitor file follows a validation that succeeded, and the     *)
(* results are the right ones.                                             *)
THEOREM Invariance == Spec => []IndInv
<1>1. IndInv /\ [Next]_vars => IndInv'
  BY NextInv
<1>2. QED
  BY InitInv, <1>1, PTL DEF Spec

(* A tree that create_db_protected returns has one control for an address, *)
(* and none under an address that any profile the load could reach         *)
(* describes by a control which needs an unknown feature, wherever in the  *)
(* walk that description stands (suppress_address, defined[]).             *)
THEOREM ControlsSoundTheorem == Spec => []ControlsSound
<1>1. IndInv => ControlsSound
  BY DEF IndInv, ResultInv, TreeInv, Unambiguous, ControlsSound, OneControlPerAddress
<1>2. QED
  BY Invariance, <1>1, PTL

(* ddcci_create_db changes the caller's capabilities only when it returns  *)
(* a tree, whatever was staged before it failed.                           *)
THEOREM CapsTheorem == Spec => []CapsOnlyWithTree
<1>1. IndInv => CapsOnlyWithTree
  BY DEF IndInv, ResultInv
<1>2. QED
  BY Invariance, <1>1, PTL

(* No load of a monitor file that ddcci_set_monitor_file has accepted      *)
(* fails but for want of memory.                                           *)
THEOREM AcceptedTheorem == Spec => []AcceptedFileLoads
<1>1. IndInv => AcceptedFileLoads
  BY DEF IndInv, ResultInv
<1>2. QED
  BY Invariance, <1>1, PTL

(* A load meets no requirement that profile_has_requirements has not       *)
(* announced before.                                                       *)
THEOREM ForeseenTheorem == Spec => RequirementForeseen
<1>1. IndInv /\ [Next]_vars => [op = "create" /\ flag' => flag]_vars
  BY NextInv DEF Foreseen
<1>2. QED
  BY Invariance, <1>1, PTL DEF Spec, RequirementForeseen

-----------------------------------------------------------------------------
(* The scanner.  Its file is incomplete while it is being written, and may *)
(* stay so after a crash or a failure there; past that it is complete.     *)

OutputInv ==
  /\ phase = "write" => output = "partial"
  /\ ReportedWhole

LEMMA ScanStepOutput ==
  ASSUME OutputInv, [ScanNext]_scanVars
  PROVE  OutputInv' /\ (output = "other" => output' = "other")
<1> USE DEF OutputInv, ReportedWhole
<1>1. CASE UNCHANGED scanVars
  BY <1>1 DEF scanVars
<1>2. CASE \/ SetupFails \/ Choose \/ Retry \/ EdidFails \/ EdidRead \/ CapsFragment
           \/ \E complete \in BOOLEAN : CapsDone(complete)
  BY <1>2 DEF SetupFails, Choose, Retry, EdidFails, EdidRead, CapsFragment, CapsDone
<1>3. CASE \/ OutputExists \/ ListCodes \/ ReadControl \/ NotSupported \/ ReadFails
           \/ ReadingDone \/ Generate
  BY <1>3 DEF OutputExists, ListCodes, ReadControl, NotSupported, ReadFails, ReadingDone, Generate
<1>4. CASE Create
  BY <1>4 DEF Create
<1>5. CASE Write \/ WriteFails
  BY <1>5 DEF Write, WriteFails
<1>6. CASE PreviewToken \/ PreviewCaps
  BY <1>6 DEF PreviewToken, PreviewCaps
<1>7. CASE Crash
  BY <1>7 DEF Crash, Ended
<1>8. CASE OtherCreates
  BY <1>8 DEF OtherCreates
<1>9. QED
  BY <1>1, <1>2, <1>3, <1>4, <1>5, <1>6, <1>7, <1>8 DEF ScanNext, ScanStep

(* write_new: whenever another program creates the output file, and        *)
(* however the scan ends, that file is left alone, and a profile that is   *)
(* reported as created is whole.                                           *)
THEOREM OutputIsSafe == ScanSpec => OutputSafe
<1>1. ScanInit => OutputInv
  BY DEF ScanInit, OutputInv, ReportedWhole
<1>2. OutputInv /\ [ScanNext]_scanVars => OutputInv'
  BY ScanStepOutput
<1>3. OutputInv => ReportedWhole
  BY DEF OutputInv
<1>4. OutputInv /\ [ScanNext]_scanVars => [output = "other" => output' = "other"]_scanVars
  BY ScanStepOutput
<1>5. QED
  BY <1>1, <1>2, <1>3, <1>4, PTL DEF ScanSpec, OutputSafe, OthersFileKept

(* What the monitor holds, however late it is, is its answer to some code. *)
(* Nothing was asked or kept before the codes are listed, which is when    *)
(* the monitor is chosen.                                                  *)
RegisterInv ==
  /\ ReadingsBelong
  /\ register # NoReply => register = Answer(register.code)
  /\ phase \in {"choose", "edid", "caps", "codes"} => register = NoReply /\ readings = << >>

(* An attempt leaves the monitor with an answer of its own.                *)
LEMMA ExchangeInv ==
  ASSUME RegisterInv, monitor' = monitor, NEW reply, Exchange(reply)
  PROVE  /\ reply # NoReply => reply = Answer(reply.code)
         /\ (register # NoReply => register = Answer(register.code))'
<1>1. \A c : Answer(c)' = Answer(c)
  BY DEF Answer
<1>2. Answer(Reading) = Answer(Answer(Reading).code)
  BY DEF Answer
<1>3. reply # NoReply => reply = Answer(reply.code)
  BY <1>2 DEF Exchange, RegisterInv
<1>4. register' # NoReply => register' = Answer(register'.code)
  BY <1>2, <1>3 DEF Exchange
<1>5. QED
  BY <1>1, <1>3, <1>4

LEMMA RegisterStep ==
  ASSUME RegisterInv, [ScanNext]_scanVars
  PROVE  RegisterInv'
<1>1. CASE ReadControl
  <2>1. PICK reply \in {register, Answer(Reading)} :
          /\ Exchange(reply)
          /\ Accepts(reply.code, Reading) /\ reply.supported
          /\ readings' = [c \in DOMAIN readings \cup {Reading} |->
                            IF c = Reading THEN [adjustable |-> reply.adjustable] ELSE readings[c]]
    BY <1>1 DEF ReadControl
  <2>2. monitor' = monitor /\ phase' = "read"
    BY <1>1 DEF ReadControl
  <2>3. reply # NoReply
    BY <2>1 DEF NoReply
  <2>4. /\ reply = Answer(Reading)
        /\ (register # NoReply => register = Answer(register.code))'
    BY <2>1, <2>2, <2>3, ExchangeInv DEF Accepts
  <2>5. \A c : Answer(c)' = Answer(c)
    BY <2>2 DEF Answer
  <2>6. ReadingsBelong'
    BY <2>1, <2>4, <2>5 DEF ReadingsBelong, RegisterInv
  <2>7. QED
    BY <2>2, <2>4, <2>6 DEF RegisterInv
<1>2. CASE NotSupported \/ ReadFails
  <2>1. PICK reply \in {register, Answer(Reading)} : Exchange(reply)
    BY <1>2 DEF NotSupported, ReadFails
  <2>2. monitor' = monitor /\ phase' = "read" /\ readings' = readings
    BY <1>2 DEF NotSupported, ReadFails
  <2>3. (register # NoReply => register = Answer(register.code))'
    BY <2>1, <2>2, ExchangeInv
  <2>4. QED
    BY <2>2, <2>3 DEF RegisterInv, ReadingsBelong, Answer
<1>3. CASE ListCodes
  BY <1>3 DEF ListCodes, RegisterInv, ReadingsBelong
<1>4. ASSUME ~(ReadControl \/ NotSupported \/ ReadFails \/ ListCodes)
      PROVE  RegisterInv'
  <2>1. UNCHANGED <<monitor, register, readings>>
    BY <1>4 DEF scanVars, ScanNext, ScanStep, SetupFails, Choose, Retry, EdidFails, EdidRead,
       CapsFragment, CapsDone, OutputExists, ReadingDone, Generate, Create,
       Write, WriteFails, PreviewToken, PreviewCaps, Crash, OtherCreates
  <2>2. phase' \in {"choose", "edid", "caps", "codes"} => phase \in {"choose", "edid", "caps", "codes"}
    BY <1>4 DEF scanVars, ScanNext, ScanStep, SetupFails, Choose, Retry, EdidFails, EdidRead,
       CapsFragment, CapsDone, OutputExists, ReadingDone, Generate, Create,
       Write, WriteFails, PreviewToken, PreviewCaps, Crash, OtherCreates
  <2>3. QED
    BY <2>1, <2>2 DEF RegisterInv, ReadingsBelong, Answer
<1>5. QED
  BY <1>1, <1>2, <1>3, <1>4

(* read_control: however requests are missed and replies lost or late, in  *)
(* any number of attempts, what is kept for a code is the monitor's own    *)
(* reply to that code.                                                     *)
THEOREM ReadingsBelongTheorem == ScanSpec => []ReadingsBelong
<1>1. ScanInit => RegisterInv
  BY DEF ScanInit, RegisterInv, ReadingsBelong
<1>2. RegisterInv /\ [ScanNext]_scanVars => RegisterInv'
  BY RegisterStep
<1>3. RegisterInv => ReadingsBelong
  BY DEF RegisterInv
<1>4. QED
  BY <1>1, <1>2, <1>3, PTL DEF ScanSpec
=============================================================================
