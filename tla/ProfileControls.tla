--------------------------- MODULE ProfileControls ---------------------------
(***************************************************************************)
(* How the <controls> element of a monitor profile selects controls of     *)
(* options.xml (crates/ddccontrol-db, module monitor_db).                  *)
(*                                                                         *)
(* options   sequence of [id, unavailable, command, values], the controls  *)
(*           of all groups in document order; "unavailable" is a control   *)
(*           that needs a feature this version does not have, values is a  *)
(*           set of [id, named]                                            *)
(* elements  sequence of [tag, id, address, required, delay, values], the  *)
(*           children of <controls>: delay tells whether it is absent or a *)
(*           number, values is a sequence of [id, number], number telling  *)
(*           whether the value is one of 16 bits                           *)
(* mode      [tolerant, validate]                                          *)
(* build     [tree, turn, defined]: the controls so far, at positions that *)
(*           are pairs of a <controls> element and an option; the number   *)
(*           of the next <controls> element; the defined[] of the code     *)
(***************************************************************************)
EXTENDS SequencesExt

CONSTANTS
  Address,     \* VCP addresses
  NoAddress    \* an address attribute that is absent or not of 8 bits

IsControl(e) == e.tag = "control"

(* The first monitor control with the identifier of an option, or 0.       *)
Matching(elements, option) ==
  SelectInSeq(elements, LAMBDA e : IsControl(e) /\ e.id = option.id)

(* Controls that profiles must not use: required ones, whatever their id,  *)
(* and those whose option is unavailable.                                  *)
Blocked(options, e) ==
  IsControl(e) /\ \E i \in DOMAIN options : options[i].id = e.id /\ options[i].unavailable

Isolated(options, elements) ==
  {elements[i].address : i \in {j \in DOMAIN elements :
                                  elements[j].required \/ Blocked(options, elements[j])}}

(* Variant of Suppress: what includes have described stays.                *)
SuppressLater(tree, addresses) == tree

(* suppress_address                                                        *)
Suppress(tree, addresses) == [p \in {q \in DOMAIN tree : tree[q].address \notin addresses} |-> tree[p]]

ValueIds(option) == {v.id : v \in option.values}

(* get_value_list and monitor_control_delay                                *)
ValueFound(option, e, i) ==
  /\ e.values[i].id \in ValueIds(option)
  /\ \A j \in 1 .. i - 1 : e.values[j].id # e.values[i].id

ValuesBad(option, e, mode) ==
  \/ \E i \in DOMAIN e.values :
       IF ValueFound(option, e, i)
       THEN \/ ~e.values[i].number
            \/ \E v \in option.values : v.id = e.values[i].id /\ ~v.named /\ ~option.command
       ELSE ~mode.tolerant
  \/ ~e.delay

(* Elements that no option, or an option with an earlier element, claims.  *)
Unmatched(options, elements) ==
  \E i \in DOMAIN elements :
    /\ ~elements[i].required
    /\ ~Blocked(options, elements[i])
    /\ \A o \in DOMAIN options : Matching(elements, options[o]) # i

(* An option whose address the monitor supports and nothing has described. *)
IsFree(mode, vcp, defined, address) == mode.validate \/ address \in DOMAIN vcp \ defined

(* add_controls_from_options.  Isolated addresses are suppressed first.    *)
(* Then the options are visited in order: Used are the ones with an        *)
(* element, Free those with a free address, Taken the first for theirs.    *)
(* A validation looks at every one of them.                                *)
AddControls(options, elements, vcp, mode, build) ==
  LET hidden  == Isolated(options, elements)
      defined == build.defined \cup hidden
      E(i)    == elements[Matching(elements, options[i])]
      Used    == {i \in DOMAIN options : /\ Matching(elements, options[i]) # 0
                                         /\ ~options[i].unavailable
                                         /\ ~E(i).required}
      Free    == {i \in Used : IsFree(mode, vcp, defined, E(i).address)}
      Taken   == {i \in Free : mode.validate \/ \A j \in Free : j < i => E(j).address # E(i).address}
      Control(i) == [id |-> options[i].id, address |-> E(i).address]
      added   == {<<build.turn, i>> : i \in Taken}
      kept    == Suppress(build.tree, hidden)
  IN  [tree    |-> [p \in added \cup DOMAIN kept |-> IF p \in added THEN Control(p[2]) ELSE kept[p]],
       turn    |-> build.turn + 1,
       defined |-> defined \cup {E(i).address : i \in Taken},
       ok      |-> /\ \A i \in Used : E(i).address # NoAddress
                   /\ \A i \in Taken : ~ValuesBad(options[i], E(i), mode)
                   /\ mode.tolerant \/ ~Unmatched(options, elements)]
=============================================================================
