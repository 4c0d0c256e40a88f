------------------------------ MODULE MonitorDb ------------------------------
(***************************************************************************)
(* The loader of monitor profiles (crates/ddccontrol-db, module            *)
(* monitor_db): ddcci_init_db, ddcci_set_monitor_file, ddcci_create_db and *)
(* ddcci_release_db, with create_db_protected as the walk over a profile   *)
(* and the profiles it includes.                                           *)
(*                                                                         *)
(* A profile is [required, named, init, deprecated, kids], or Missing, or  *)
(* Broken (XML that does not parse, or whose root is not <monitor>).  Its  *)
(* children are records with a tag:                                        *)
(*   caps      [remove, add], each NoEdit or what the text parses to       *)
(*   include   [file], an identifier or NoId                               *)
(*   controls  [strange, elements]; strange tells that some child other    *)
(*             than a <control> needs an unknown feature                   *)
(*   other     an element the loader does not know                         *)
(* and a flag "required": the child, or for the ones other than controls   *)
(* something inside it, needs a feature this version does not have.        *)
(*                                                                         *)
(* The options are [bad, controls]: bad when the document, a group or a    *)
(* subgroup is malformed or needs an unknown feature, controls a sequence  *)
(* of [id, unavailable, valid, command, values].                           *)
(*                                                                         *)
(* One thread loads; another initialises and releases the database.        *)
(***************************************************************************)
EXTENDS Naturals, CapsText, ProfileControls

CONSTANTS
  Ids,         \* profile names, all of them valid
  NoId,        \* an absent attribute, or an invalid name
  Missing, Broken,
  Databases,   \* sequence of [options, profiles]: the databases that may be on disk
  Files,       \* [id, root]: the monitor files a user has
  Held,        \* capabilities a caller may hold for a monitor
  NoEdit,      \* a caps attribute that is not there
  NoFile,      \* no monitor file is set
  None,        \* DB_CONTEXT is None
  MaxLevel,    \* deepest include (15 in the code)
  MaxVisits    \* profiles visited in one load (1 000 000 in the code)

ASSUME BoundsAssumption == MaxLevel \in Nat /\ MaxVisits \in Nat

(* All profiles there are.                                                 *)
Sources == {f.root : f \in Files} \cup UNION {{Databases[d].profiles[i] : i \in Ids} : d \in DOMAIN Databases}

(* Options and children are sequences; the names of profiles are valid or  *)
(* count as absent.                                                        *)
ASSUME ProfilesAssumption ==
  /\ NoId \notin Ids /\ NoFile \notin Files /\ None \notin Files \cup {NoFile}
  /\ \A f \in Files : f.id \in Ids
  /\ \A d \in DOMAIN Databases :
       Databases[d].options.controls \in Seq(Range(Databases[d].options.controls))
  /\ \A root \in Sources \ {Missing, Broken} :
       /\ root.kids \in Seq(Range(root.kids))
       /\ \A kid \in Range(root.kids) : kid.tag = "include" => kid.file \in Ids \cup {NoId}

VARIABLES
  disk,     \* index of the database on disk
  ctx,      \* DB_CONTEXT: None or the monitor file of the session, or NoFile
  other,    \* the other thread is between the two halves of ddcci_init_db
  caps,     \* the caller's capabilities
  given,    \* the caller's capabilities when it last called
  flag,     \* REQUIREMENTS_FAILED of the loading thread
  op,       \* "idle", "create" or "set": the call in progress
  answer,   \* what the last call returned; C sees NULL for "null" and "oom"
  snap,     \* the context the call works on
  want,     \* the profile asked for
  mode,     \* LoadMode
  call,     \* a profile create_db_protected is being entered for, or NoId
  frames,   \* the activations of create_db_protected
  build,    \* MonitorBuild, with "defined": [init, named, visits, tree, turn, defined]
  staged    \* StagedCaps, or ValidationCaps of ddcci_set_monitor_file

vars == <<disk, ctx, other, caps, given, flag, op, answer, snap, want, mode,
          call, frames, build, staged>>
walk == <<call, frames, build, staged>>
request == <<op, snap, want, mode>>

NoMode == [tolerant |-> FALSE, validate |-> FALSE]
NoBuild == [init |-> "unknown", named |-> FALSE, visits |-> 0, tree |-> << >>, turn |-> 1, defined |-> {}]

(* load_options_node: a control that needs an unknown feature is kept as   *)
(* unavailable, for its identity only; anything else that needs one, or is *)
(* malformed, fails the load.                                              *)
OptionsBad(raw) == raw.bad \/ \E i \in DOMAIN raw.controls : ~raw.controls[i].unavailable /\ ~raw.controls[i].valid
Options == Databases[disk].options.controls
Installed(id) == Databases[disk].profiles[id]

(* The monitor file replaces the profile asked for, never an included one. *)
RootOf(file, id, top) ==
  IF top /\ file # NoFile /\ file.id = id THEN file.root
  ELSE IF id \in Ids THEN Installed(id) ELSE Missing

IsProfile(root) == root \notin {Missing, Broken}
Top == frames[Len(frames)]
Child == Top.root.kids[Top.kid]
Locked == op = "set"     \* DB_CONTEXT is held while a monitor file is validated

-----------------------------------------------------------------------------
(* profile_has_requirements: a walk over everything the load could reach.  *)

Includes(root) ==
  IF ~IsProfile(root) THEN {}
  ELSE {root.kids[k].file : k \in {j \in DOMAIN root.kids : root.kids[j].tag = "include"}}

(* The least set of names with those in the profile asked for and in all   *)
(* that are included.                                                      *)
Named(file, id) ==
  LET all == Ids \cup {NoId}
      Closed(S) == /\ Includes(RootOf(file, id, TRUE)) \subseteq S
                   /\ \A i \in S : Includes(RootOf(file, i, FALSE)) \subseteq S
      closed == {S \in SUBSET all : Closed(S)}
  IN  {i \in all : \A S \in closed : i \in S}

Reached(file, id) == {RootOf(file, id, TRUE)} \cup {RootOf(file, i, FALSE) : i \in Named(file, id)}

(* Variant of ChildNeeds that does not follow includes.                    *)
ChildNeedsOwn(child) ==
  \/ child.required
  \/ /\ child.tag = "controls"
     /\ child.strange \/ \E i \in DOMAIN child.elements : child.elements[i].required

ChildNeeds(child) ==
  \/ child.required
  \/ /\ child.tag = "controls"
     /\ \/ child.strange
        \/ \E i \in DOMAIN child.elements :
             child.elements[i].required \/ Blocked(Options, child.elements[i])

HasRequirements(file, id) ==
  \E root \in Reached(file, id) :
    IsProfile(root) /\ (root.required \/ \E k \in DOMAIN root.kids : ChildNeeds(root.kids[k]))

-----------------------------------------------------------------------------
Init ==
  /\ disk \in DOMAIN Databases
  /\ ctx = None /\ other = FALSE
  /\ caps \in Held /\ given = caps
  /\ flag = FALSE /\ op = "idle" /\ answer = "none"
  /\ snap = NoFile /\ want = NoId /\ mode = NoMode
  /\ call = NoId /\ frames = << >> /\ build = NoBuild /\ staged = NoCaps

(* The other thread: ddcci_init_db drops the context, then publishes the   *)
(* new one or fails; ddcci_release_db drops it.                            *)
InitDb ==
  /\ ~Locked /\ ~other
  /\ ctx' = None /\ other' = TRUE
  /\ UNCHANGED <<disk, caps, given, flag, answer, request, walk>>

PublishDb ==
  /\ other /\ ~Locked /\ ~OptionsBad(Databases[disk].options)
  /\ ctx' = NoFile /\ other' = FALSE
  /\ UNCHANGED <<disk, caps, given, flag, answer, request, walk>>

InitDbFails ==
  /\ other /\ other' = FALSE
  /\ UNCHANGED <<disk, ctx, caps, given, flag, answer, request, walk>>

ReleaseDb ==
  /\ ~Locked /\ ctx # None
  /\ ctx' = None
  /\ UNCHANGED <<disk, other, caps, given, flag, answer, request, walk>>

Begin(o, file, id, tolerant, start) ==
  /\ op' = o /\ answer' = "none"
  /\ snap' = file /\ want' = id
  /\ mode' = [tolerant |-> tolerant, validate |-> o = "set"]
  /\ call' = id /\ frames' = << >> /\ build' = NoBuild /\ staged' = start

(* A call that ends without having walked a profile.                       *)
Refuse(result) ==
  /\ answer' = result
  /\ snap' = NoFile /\ want' = NoId /\ build' = NoBuild
  /\ UNCHANGED <<op, mode, call, frames, staged>>

SetMonitorFile(f) ==
  /\ op = "idle" /\ given' = caps
  /\ IF ctx = None \/ f.root = Broken THEN Refuse("refused")
     ELSE Begin("set", f, f.id, FALSE, NoCaps)
  /\ UNCHANGED <<disk, ctx, other, caps, flag>>

CreateDb(id, tolerant) ==
  /\ op = "idle" /\ given' = caps
  /\ flag' = (ctx # None /\ HasRequirements(ctx, id))
  /\ IF ctx = None THEN Refuse("null")
     ELSE \/ Refuse("oom")          \* StagedCaps::copy_from fails
          \/ Begin("create", ctx, id, tolerant /\ ~(ctx # NoFile /\ ctx.id = id), caps)
  /\ UNCHANGED <<disk, ctx, other, caps>>

(* The caller frees the tree and turns to another monitor.                 *)
NewMonitor(c) ==
  /\ op = "idle"
  /\ caps' = c /\ given' = c /\ answer' = "none" /\ flag' = FALSE
  /\ snap' = NoFile /\ want' = NoId /\ build' = NoBuild
  /\ UNCHANGED <<disk, ctx, other, op, mode, call, frames, staged>>

-----------------------------------------------------------------------------
(* Every exit of the walk; StagedCaps is dropped.                          *)
End(result) ==
  /\ op' = "idle" /\ answer' = result
  /\ call' = NoId /\ frames' = << >> /\ staged' = NoCaps /\ mode' = NoMode
  /\ UNCHANGED <<disk, other, given, snap, want>>

Fail(required) ==
  /\ End(IF op = "set" THEN "refused" ELSE "null")
  /\ flag' = IF op = "set" THEN flag ELSE flag \/ required
  /\ build' = NoBuild
  /\ UNCHANGED <<ctx, caps>>

(* Variant of FailOutOfMemory: the edits are copied before the tree is.    *)
FailUnstaged ==
  /\ End(IF op = "set" THEN "refused" ELSE "oom")
  /\ build' = NoBuild
  /\ caps' = staged
  /\ UNCHANGED <<ctx, flag>>

FailOutOfMemory ==
  /\ End(IF op = "set" THEN "refused" ELSE "oom")
  /\ build' = NoBuild
  /\ UNCHANGED <<ctx, caps, flag>>

Continue == UNCHANGED <<disk, ctx, other, caps, given, flag, answer, request>>

(* create_db_protected up to its loop over the children                    *)
Entered == RootOf(snap, call, frames = << >>)
Enterable == build.visits < MaxVisits /\ Len(frames) <= MaxLevel /\ IsProfile(Entered)
Malformed(root) ==
  \/ ~build.named /\ ~root.named
  \/ (build.init = "unknown" \/ mode.validate) /\ root.init = "invalid"
  \/ root.deprecated /\ ~mode.tolerant

EnterFails ==
  /\ call # NoId
  /\ \/ ~Enterable /\ Fail(FALSE)
     \/ Enterable /\ Entered.required /\ Fail(TRUE)
     \/ Enterable /\ ~Entered.required /\ Malformed(Entered) /\ Fail(FALSE)

(* Variant of Enter that does not count the visit.                         *)
EnterUncounted ==
  /\ call # NoId /\ Enterable /\ ~Entered.required /\ ~Malformed(Entered)
  /\ frames' = Append(frames, [root |-> Entered, kid |-> 1, some |-> FALSE, controls |-> FALSE])
  /\ build' = [build EXCEPT !.named = TRUE, !.init = IF @ = "unknown" THEN Entered.init ELSE @]
  /\ call' = NoId
  /\ UNCHANGED staged /\ Continue

Enter ==
  /\ call # NoId /\ Enterable /\ ~Entered.required /\ ~Malformed(Entered)
  /\ frames' = Append(frames, [root |-> Entered, kid |-> 1, some |-> FALSE, controls |-> FALSE])
  /\ build' = [build EXCEPT !.visits = @ + 1, !.named = TRUE,
                            !.init = IF @ = "unknown" THEN Entered.init ELSE @]
  /\ call' = NoId
  /\ UNCHANGED staged /\ Continue

Walking(tag) ==
  /\ op # "idle" /\ call = NoId /\ frames # << >>
  /\ Top.kid <= Len(Top.root.kids) /\ Child.tag = tag

NextKid(some, controls) ==
  frames' = [frames EXCEPT ![Len(frames)] =
               [root |-> Top.root, kid |-> Top.kid + 1, some |-> Top.some \/ some,
                controls |-> Top.controls \/ controls]]

ChildRequired ==
  /\ \E tag \in {"caps", "include", "controls", "other"} : Walking(tag)
  /\ Child.required
  /\ Fail(TRUE)

(* apply_caps: an edit without codes is an error too.                      *)
EditBad(edit) == edit # NoEdit /\ (~edit.ok \/ edit.items = << >>)
CapsBad(child) ==
  (child.remove = NoEdit /\ child.add = NoEdit) \/ EditBad(child.remove) \/ EditBad(child.add)
EditedCaps(child, c) ==
  LET removed == IF child.remove = NoEdit THEN c ELSE ApplyRemove(c, child.remove)
  IN  IF child.add = NoEdit THEN removed ELSE ApplyAdd(removed, child.add)

ChildCaps ==
  /\ Walking("caps") /\ ~Child.required
  /\ \/ CapsBad(Child) /\ Fail(FALSE)
     \/ FailOutOfMemory             \* replace_c_caps fails
     \/ /\ ~CapsBad(Child)
        /\ staged' = EditedCaps(Child, staged)
        /\ NextKid(FALSE, FALSE)
        /\ UNCHANGED <<call, build>> /\ Continue

ChildInclude ==
  /\ Walking("include") /\ ~Child.required
  /\ \/ Child.file = NoId /\ Fail(FALSE)
     \/ /\ Child.file # NoId
        /\ call' = Child.file /\ NextKid(TRUE, FALSE)
        /\ UNCHANGED <<build, staged>> /\ Continue

ChildControls ==
  /\ Walking("controls") /\ ~Child.required
  /\ \E added \in {AddControls(Options, Child.elements, staged.vcp, mode, build)} :
         \/ Top.controls /\ Fail(FALSE)
         \/ /\ ~Top.controls
            /\ Child.strange \/ NoAddress \in Isolated(Options, Child.elements)
            /\ Fail(TRUE)
         \/ /\ ~Top.controls /\ ~Child.strange
            /\ NoAddress \notin Isolated(Options, Child.elements)
            /\ IF ~added.ok THEN Fail(FALSE)
               ELSE /\ build' = [build EXCEPT !.tree = added.tree, !.turn = added.turn,
                                               !.defined = added.defined]
                    /\ NextKid(TRUE, TRUE)
                    /\ UNCHANGED <<call, staged>> /\ Continue

ChildOther ==
  /\ Walking("other") /\ ~Child.required
  /\ IF mode.validate THEN Fail(FALSE)
     ELSE NextKid(FALSE, FALSE) /\ UNCHANGED <<call, build, staged>> /\ Continue

(* The end of create_db_protected, for an included profile.                *)
Leaving == op # "idle" /\ call = NoId /\ frames # << >> /\ Top.kid > Len(Top.root.kids)

NothingFound == Leaving /\ ~Top.some /\ Fail(FALSE)

Return ==
  /\ Leaving /\ Top.some /\ Len(frames) > 1
  /\ frames' = Front(frames)
  /\ UNCHANGED <<call, build, staged>> /\ Continue

(* The rest of create_db_inner after the outermost activation: the tree is *)
(* allocated, and only then the edited capabilities are the caller's.      *)
FinishCreate ==
  /\ op = "create" /\ Leaving /\ Top.some /\ Len(frames) = 1
  /\ \/ build.init = "unknown" /\ ~mode.tolerant /\ Fail(FALSE)
     \/ ~(build.init = "unknown" /\ ~mode.tolerant) /\ FailOutOfMemory
     \/ /\ ~(build.init = "unknown" /\ ~mode.tolerant)
        /\ End("tree")
        /\ caps' = staged /\ flag' = FALSE
        /\ UNCHANGED <<ctx, build>>

(* Variant of FinishSet without its check of init.                         *)
FinishSetAnyInit ==
  /\ op = "set" /\ Leaving /\ Top.some /\ Len(frames) = 1
  /\ End("accepted")
  /\ ctx' = snap /\ build' = NoBuild
  /\ UNCHANGED <<caps, flag>>

(* The rest of set_monitor_file_inner                                      *)
FinishSet ==
  /\ op = "set" /\ Leaving /\ Top.some /\ Len(frames) = 1
  /\ \/ build.init = "unknown" /\ Fail(FALSE)
     \/ /\ build.init # "unknown"
        /\ End("accepted")
        /\ ctx' = snap /\ build' = NoBuild
        /\ UNCHANGED <<caps, flag>>

Step == \/ EnterFails \/ Enter \/ ChildRequired \/ ChildCaps \/ ChildInclude \/ ChildControls
        \/ ChildOther \/ NothingFound \/ Return \/ FinishCreate \/ FinishSet

Next ==
  \/ Step
  \/ InitDb \/ PublishDb \/ InitDbFails \/ ReleaseDb
  \/ \E f \in Files : SetMonitorFile(f)
  \/ \E id \in Ids, tolerant \in BOOLEAN : CreateDb(id, tolerant)
  \/ \E c \in Held : NewMonitor(c)

(* A call that has begun runs on; nothing makes anyone call.               *)
Spec == Init /\ [][Next]_vars /\ WF_vars(Step)

-----------------------------------------------------------------------------
(* Types of the state: what a call in progress holds, and nothing of it    *)
(* when none is.                                                           *)
TypeOK ==
  /\ disk \in DOMAIN Databases /\ ctx \in {None, NoFile} \cup Files /\ other \in BOOLEAN
  /\ flag \in BOOLEAN /\ op \in {"idle", "create", "set"}
  /\ answer \in {"none", "null", "oom", "tree", "refused", "accepted"}
  /\ snap \in {NoFile} \cup Files /\ want \in Ids \cup {NoId} /\ call \in Ids \cup {NoId}
  /\ mode \in [tolerant : BOOLEAN, validate : BOOLEAN]
  /\ build.visits <= MaxVisits /\ Len(frames) <= MaxLevel + 1
  /\ build.defined \subseteq Address /\ DOMAIN staged.vcp \subseteq Hex
  /\ op = "idle" => call = NoId /\ frames = << >> /\ staged = NoCaps /\ mode = NoMode

(* A control that needs an unknown feature is not in the tree under any    *)
(* other description of its address: neither one of an include before it   *)
(* nor one of an include or profile after it (suppress_address).           *)
Hidden ==
  UNION {UNION {Isolated(Options, root.kids[k].elements) :
                  k \in {j \in DOMAIN root.kids : root.kids[j].tag = "controls"}} :
           root \in {r \in Reached(snap, want) : IsProfile(r)}}
RequiredNeverExposed ==
  answer = "tree" => \A i \in DOMAIN build.tree : build.tree[i].address \notin Hidden

(* A tree has one control for an address, the first that described it;     *)
(* what a user sets is what one control says (defined[]).                  *)
OneControlPerAddress ==
  ~mode.validate => \A i, j \in DOMAIN build.tree :
                      build.tree[i].address = build.tree[j].address => i = j

(* What a user can set has one description, and one this version knows all *)
(* of.                                                                     *)
ControlsSound == RequiredNeverExposed /\ OneControlPerAddress

(* The capabilities a caller holds change only with a tree: a load that    *)
(* fails after <caps> elements were applied, also one that runs out of     *)
(* memory at the end, leaves them for the next profile (StagedCaps).       *)
CapsOnlyWithTree == caps # given => answer = "tree"

(* A walk meets no requirement that profile_has_requirements has not       *)
(* announced: the two visit the same profiles, also behind includes,       *)
(* cycles and a monitor file, so no failure can hide a requirement from    *)
(* the caller that wants to fall back to a generic profile.                *)
RequirementForeseen == [][op = "create" /\ flag' => flag]_vars

(* A monitor file that ddcci_set_monitor_file has accepted loads: later    *)
(* loads of its monitor fail for want of memory only, whatever             *)
(* capabilities the monitor has.                                           *)
AcceptedFileLoads ==
  answer = "null" => ~(snap # NoFile /\ snap.id = want)

(* Every call returns, whatever includes what: each step of a walk lowers  *)
(* a number that is never negative, so the walk is over after finitely     *)
(* many, and until then some step of it is possible.  Cycles of includes   *)
(* are cut by the limits on level and visits.                              *)
Longest == Max({0} \cup {Len(r.kids) : r \in Sources \ {Missing, Broken}})
StepsLeft ==
  (MaxVisits - build.visits) * 2 * (Longest + 1)
  + MapThenSumSet(LAMBDA n : 2 * (Len(frames[n].root.kids) + 2 - frames[n].kid), DOMAIN frames)
  + IF call = NoId THEN 0 ELSE 1
StepsRunOut ==
  [][op # "idle" /\ op' = op /\ walk' # walk => StepsLeft' < StepsLeft]_vars
WalkGoesOn == op # "idle" => StepsLeft > 0 /\ ENABLED Step
WalkEnds == [](TypeOK /\ WalkGoesOn) /\ StepsRunOut
=============================================================================
