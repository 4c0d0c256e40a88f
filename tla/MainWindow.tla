------------------------------ MODULE MainWindow ------------------------------
(***************************************************************************)
(* The main window of gddccontrol: choosing, opening and refreshing        *)
(* monitors (src/src/gddccontrol/main.c and stack.c).                      *)
(*                                                                         *)
(* There is one thread, but its handlers are not atomic: every message     *)
(* that is shown runs the event loop, so that other handlers start and     *)
(* finish in the middle of one.  stack holds the handlers that have begun, *)
(* each at the message it shows; a step takes the innermost one to its     *)
(* next message, and an event starts a handler on top of it.               *)
(*                                                                         *)
(* A handler that goes on with freed memory is undefined: a behaviour ends *)
(* there (Sound).                                                          *)
(***************************************************************************)
EXTENDS Integers, Sequences, FiniteSets

CONSTANTS
  Devices,     \* the monitors
  MaxEvents,   \* bound: how often the user chooses, rescans or moves the window
  NULL

Entry == [dev : Devices, supported : BOOLEAN]
Open == [id : Nat, dev : Devices]
Manager == [id : Nat, dev : Devices, gen : Nat]

ASSUME WindowAssumption == MaxEvents \in Nat /\ NULL \notin Open \cup Manager

VARIABLES
  monlist,     \* the entries: a device and its field supported
  gen,         \* how often monlist was built anew
  connected,   \* combo_change is connected to the combo box
  active,      \* the active entry of the combo box, -1 for none
  currentid,
  nextid,
  locked,      \* combo_change_mutex
  mon,         \* the open monitor, or NULL
  opens,       \* how many monitors were opened so far; their numbers
  handles,     \* the numbers of the open monitors
  bare,        \* the numbers of those opened without a profile (history)
  controls,    \* all_controls: the number of its monitor, 0 if it is NULL
  manager,     \* monitor_manager: the monitor it was built for and gen, or NULL
  component,   \* current_main_component
  message,     \* what messagebox shows
  sens,        \* which widgets are sensitive
  stack,       \* the handlers that have begun, the outermost first
  running,     \* gtk_main has not returned
  events       \* counts the events that are bounded

list == <<monlist, gen, connected>>
choice == <<active, currentid, nextid, locked>>
device == <<mon, opens, handles, bare, controls, manager>>
look == <<component, message, sens>>
vars == <<list, choice, device, look, stack, running, events>>

Widgets == {"choice", "combo", "refresh", "profiles"}
Messages == {"none", "progress", "retry", "noprofile", "nomonitor", "warning"}
Frame == [at : {"probing", "nomonitor", "opening", "getting", "loading",
                "built", "failed", "loop", "walk", "applying"},
          of : Nat,            \* what the handler goes on with
          applies : BOOLEAN]   \* a walk that was started by apply_callback

Called(at, of, applies) == [at |-> at, of |-> of, applies |-> applies]

Idle == running /\ stack = <<>>
Top == stack[Len(stack)]
Outer == SubSeq(stack, 1, Len(stack) - 1)
At(place) == running /\ stack # <<>> /\ Top.at = place

-----------------------------------------------------------------------------
\* Which widgets react.  close_button and the buttons of the profile dialog
\* follow choice_hbox.

\* set_current_main_component while there is a monitor_manager.
Component(s, c) == [s EXCEPT !["refresh"] = (c = 0), !["profiles"] = (c = 0)]

\* widgets_set_sensitive.
SetSensitive(s, sensitive) ==
  [s EXCEPT !["choice"] = sensitive,
            !["refresh"] = sensitive /\ component = 0,
            !["profiles"] = sensitive /\ component = 0]

\* Variant of Silenced that leaves the widgets alone.
NotSilenced(s) == s

\* set_message with a text.
Silenced(s) == SetSensitive(s, FALSE)

\* set_message(""): it shows what component says and enables the widgets.
Restored(s) == SetSensitive(s, TRUE)

Shows(m, s) == message' = m /\ sens' = Silenced(s) /\ UNCHANGED component
Clears == message' = "none" /\ sens' = Restored(sens) /\ UNCHANGED component

-----------------------------------------------------------------------------
\* delete_monitor_manager, called by combo_change if there is a manager.
Closed == handles \ (IF mon = NULL THEN {} ELSE {mon.id})

\* Variant of DeleteManager that does not close the monitor.
ForgetManager ==
  /\ manager' = NULL
  /\ mon' = (IF manager = NULL THEN mon ELSE NULL)
  /\ UNCHANGED handles

DeleteManager ==
  /\ manager' = NULL
  /\ mon' = (IF manager = NULL THEN mon ELSE NULL)
  /\ handles' = (IF manager = NULL THEN handles ELSE Closed)

\* One turn of the loop in combo_change, up to the first message of
\* create_monitor_manager, which resets all_controls first.
Turn(k, entries, g, s, below) ==
  /\ currentid' = k
  /\ DeleteManager
  /\ controls' = 0
  /\ IF entries[k + 1].supported
     THEN Shows("progress", s) /\ stack' = Append(below, Called("opening", g, FALSE))
     ELSE Shows("retry", s) /\ stack' = Append(below, Called("failed", g, FALSE))
  /\ UNCHANGED <<opens, bare>>

\* combo_change: if one is under way, it will see the new nextid.
ComboChange(k, cur, entries, g, s, below) ==
  /\ active' = k
  /\ nextid' = k
  /\ locked' = TRUE
  /\ \/ /\ locked
        /\ currentid' = cur
        /\ sens' = s
        /\ stack' = below
        /\ UNCHANGED <<device, message, component>>
     \/ /\ ~locked
        /\ Turn(k, entries, g, [s EXCEPT !["combo"] = FALSE], below)

\* Only the handlers that go on with live memory go on: a walk with the list
\* it walks, apply_callback with the monitor of its profile.
Sound ==
  /\ Top.at = "walk" => Top.of = controls
  /\ Top.at = "applying" => mon # NULL /\ mon.id = Top.of

-----------------------------------------------------------------------------
\* main, up to the first message of probe_monitors.
Init ==
  /\ monlist = <<>> /\ gen = 0 /\ connected = FALSE
  /\ active = -1 /\ currentid = -1 /\ nextid = -1 /\ locked = FALSE
  /\ mon = NULL /\ opens = 0 /\ handles = {} /\ bare = {}
  /\ controls = 0 /\ manager = NULL
  /\ component = 0 /\ message = "progress"
  /\ sens = [w \in Widgets |-> w = "combo"]
  /\ stack = <<Called("probing", 0, FALSE)>>
  /\ running = TRUE /\ events = 0

\* The refresh button beside the combo box, or F5: probe_monitors, up to its
\* message.
Probe ==
  /\ running /\ sens["choice"] /\ events < MaxEvents
  /\ events' = events + 1
  /\ connected' = FALSE
  /\ active' = -1
  /\ Shows("progress", sens)
  /\ stack' = Append(stack, Called("probing", 0, FALSE))
  /\ UNCHANGED <<monlist, gen, currentid, nextid, locked, device, running>>

\* The rest of probe_monitors, with entries found.
Found ==
  /\ At("probing")
  /\ gen' = gen + 1
  /\ connected' = TRUE
  /\ monlist' \in {e \in UNION {[1..n -> Entry] : n \in 1..2} :
                     Len(e) = 2 => e[1].dev # e[2].dev}
  /\ ComboChange(0, -1, monlist', gen', SetSensitive(sens, TRUE), Outer)
  /\ UNCHANGED <<running, events>>

\* The rest of probe_monitors, with none: what it enables first is disabled
\* again by the message.
NotFound ==
  /\ At("probing")
  /\ gen' = gen + 1
  /\ connected' = TRUE
  /\ monlist' = <<>>
  /\ currentid' = -1
  /\ nextid' = -1
  /\ Shows("nomonitor", sens)
  /\ stack' = Append(Outer, Called("nomonitor", 0, FALSE))
  /\ UNCHANGED <<active, locked, device, running, events>>

NotFoundReturns ==
  /\ At("nomonitor")
  /\ stack' = Outer
  /\ UNCHANGED <<list, choice, device, look, running, events>>

\* The user chooses an entry of the combo box.
Select(k) ==
  /\ running /\ sens["choice"] /\ sens["combo"] /\ events < MaxEvents
  /\ k # active
  /\ events' = events + 1
  /\ ComboChange(k, currentid, monlist, gen, sens, stack)
  /\ UNCHANGED <<list, running>>

\* window_changed: with two monitors, the other one is chosen, whether or not
\* the widgets are sensitive.
WindowMoved ==
  /\ running /\ connected /\ Len(monlist) = 2 /\ events < MaxEvents
  /\ events' = events + 1
  /\ ComboChange(IF nextid = 0 THEN 1 ELSE 0, currentid, monlist, gen, sens, stack)
  /\ UNCHANGED <<list, running>>

-----------------------------------------------------------------------------
\* create_monitor_manager after its first message.

OpenFails ==
  /\ At("opening")
  /\ mon' = NULL
  /\ Shows("retry", sens)
  /\ stack' = Append(Outer, Called("failed", Top.of, FALSE))
  /\ UNCHANGED <<list, choice, opens, handles, bare, controls, manager, running, events>>

Opened(profile) ==
  /\ At("opening")
  /\ opens' = opens + 1
  /\ handles' = handles \cup {opens + 1}
  /\ bare' = IF profile THEN bare ELSE bare \cup {opens + 1}
  /\ mon' = [id |-> opens + 1, dev |-> monlist[currentid + 1].dev]
  /\ UNCHANGED <<list, choice, controls, manager, running, events>>

\* The monitor has no profile: it stays open without a manager.
OpenBare ==
  /\ Opened(FALSE)
  /\ Shows("noprofile", sens)
  /\ stack' = Append(Outer, Called("failed", Top.of, FALSE))

\* A profile without controls asks for no values.
OpenProfile ==
  /\ Opened(TRUE)
  /\ Shows("progress", sens)
  /\ \E at \in {"getting", "loading"} :
       stack' = Append(Outer, Called(at, Top.of, FALSE))

\* createTreeAndPages: the controls of a subgroup, or of the last one.
GetControls ==
  /\ At("getting")
  /\ controls' = mon.id
  /\ Shows("progress", sens)
  /\ \E at \in {"getting", "loading"} :
       stack' = Append(Outer, Called(at, Top.of, FALSE))
  /\ UNCHANGED <<list, choice, mon, opens, handles, bare, manager, running, events>>

\* The profiles are loaded and the manager is there; with a warning if the
\* monitor has a generic profile.  Without one combo_change goes on.
Built(warn) ==
  /\ At("loading")
  /\ manager' = [id |-> mon.id, dev |-> mon.dev, gen |-> Top.of]
  /\ \/ /\ warn
        /\ Shows("warning", sens)
        /\ stack' = Append(Outer, Called("built", Top.of, FALSE))
     \/ /\ ~warn
        /\ message' = "none"
        /\ sens' = [Restored(sens) EXCEPT !["refresh"] = TRUE]
        /\ stack' = Append(Outer, Called("loop", 0, FALSE))
        /\ UNCHANGED component
  /\ UNCHANGED <<list, choice, mon, opens, handles, bare, controls, running, events>>

\* combo_change after create_monitor_manager, up to the end of the turn.
AfterWarning ==
  /\ At("built")
  /\ sens' = [sens EXCEPT !["refresh"] = TRUE]
  /\ stack' = Append(Outer, Called("loop", 0, FALSE))
  /\ UNCHANGED <<list, choice, device, component, message, running, events>>

\* Variant of AfterFailure that enables nothing.
SilentAfterFailure ==
  /\ At("failed")
  /\ stack' = Append(Outer, Called("loop", 0, FALSE))
  /\ UNCHANGED <<list, choice, device, look, running, events>>

AfterFailure ==
  /\ At("failed")
  /\ sens' = [sens EXCEPT !["choice"] = TRUE]
  /\ stack' = Append(Outer, Called("loop", 0, FALSE))
  /\ UNCHANGED <<list, choice, device, component, message, running, events>>

NextTurn ==
  /\ At("loop")
  /\ currentid # nextid
  /\ Turn(nextid, monlist, gen, sens, Outer)
  /\ UNCHANGED <<list, active, nextid, locked, running, events>>

\* Variant of Done that does not look at nextid again.
DoneAtOnce ==
  /\ At("loop")
  /\ locked' = FALSE
  /\ sens' = [sens EXCEPT !["combo"] = TRUE]
  /\ stack' = Outer
  /\ UNCHANGED <<list, active, currentid, nextid, device, component, message, running, events>>

Done ==
  /\ At("loop")
  /\ currentid = nextid
  /\ locked' = FALSE
  /\ sens' = [sens EXCEPT !["combo"] = TRUE]
  /\ stack' = Outer
  /\ UNCHANGED <<list, active, currentid, nextid, device, component, message, running, events>>

-----------------------------------------------------------------------------
\* refresh_all_controls, up to its first message.
Refresh ==
  /\ running /\ sens["refresh"] /\ controls # 0
  /\ Shows("progress", sens)
  /\ stack' = Append(stack, Called("walk", controls, FALSE))
  /\ UNCHANGED <<list, choice, device, running, events>>

\* The end of the walk; apply_callback then leaves the profile manager.
WalkEnds ==
  /\ At("walk") /\ Sound
  /\ message' = "none"
  /\ component' = (IF Top.applies THEN 0 ELSE component)
  /\ sens' = [IF Top.applies THEN Component(Restored(sens), 0) ELSE Restored(sens)
              EXCEPT !["refresh"] = TRUE]
  /\ stack' = Outer
  /\ UNCHANGED <<list, choice, device, running, events>>

\* apply_callback, up to its message: the profile manager is shown.
Apply ==
  /\ running /\ manager # NULL /\ component = 1 /\ message = "none"
  /\ Shows("progress", sens)
  /\ stack' = Append(stack, Called("applying", mon.id, FALSE))
  /\ UNCHANGED <<list, choice, device, running, events>>

\* ddcci_apply_profile, then refresh_all_controls.
ApplyWalks ==
  /\ At("applying") /\ Sound /\ controls # 0
  /\ Shows("progress", sens)
  /\ stack' = Append(Outer, Called("walk", controls, TRUE))
  /\ UNCHANGED <<list, choice, device, running, events>>

\* The same with no controls: refresh_all_controls returns at once, and the
\* message of apply_callback stays.
ApplyStops ==
  /\ At("applying") /\ Sound /\ controls = 0
  /\ component' = 0
  /\ sens' = Component(sens, 0)
  /\ stack' = Outer
  /\ UNCHANGED <<list, choice, device, message, running, events>>

-----------------------------------------------------------------------------
\* The button "Profile manager" and the one that leaves it.
ShowProfiles ==
  /\ running /\ sens["profiles"]
  /\ component' = 1
  /\ sens' = IF manager = NULL THEN sens ELSE Component(sens, 1)
  /\ UNCHANGED <<list, choice, device, message, stack, running, events>>

CloseProfiles ==
  /\ running /\ manager # NULL /\ component = 1 /\ message = "none"
  /\ component' = 0
  /\ sens' = Component(sens, 0)
  /\ UNCHANGED <<list, choice, device, message, stack, running, events>>

\* The button "OK" below a warning.
Dismiss ==
  /\ running /\ message = "warning"
  /\ Clears
  /\ UNCHANGED <<list, choice, device, stack, running, events>>

\* The window is closed: the end of main.
Quit ==
  /\ Idle
  /\ running' = FALSE
  /\ handles' = Closed
  /\ mon' = NULL
  /\ controls' = 0
  /\ monlist' = <<>>
  /\ UNCHANGED <<gen, connected, choice, opens, bare, manager, look, stack, events>>

Event ==
  \/ Probe \/ WindowMoved \/ Refresh \/ Apply
  \/ \E k \in 0..(Len(monlist) - 1) : Select(k)
  \/ ShowProfiles \/ CloseProfiles \/ Dismiss \/ Quit

Continue ==
  \/ Found \/ NotFound \/ NotFoundReturns
  \/ OpenFails \/ OpenBare \/ OpenProfile \/ GetControls
  \/ \E warn \in BOOLEAN : Built(warn)
  \/ AfterWarning \/ AfterFailure \/ NextTurn \/ Done
  \/ WalkEnds \/ ApplyWalks \/ ApplyStops

Next == Event \/ Continue

Spec == Init /\ [][Next]_vars

-----------------------------------------------------------------------------
TypeOK ==
  /\ monlist \in UNION {[1..n -> Entry] : n \in 0..2}
  /\ gen \in 0..(MaxEvents + 1) /\ connected \in BOOLEAN
  /\ {active, currentid, nextid} \subseteq -1..1 /\ locked \in BOOLEAN
  /\ opens \in 0..(MaxEvents + 1) /\ handles \cup bare \subseteq 1..opens
  /\ mon \in Open \cup {NULL}
  /\ controls \in 0..opens
  /\ manager \in [id : 1..opens, dev : Devices, gen : 1..gen] \cup {NULL}
  /\ component \in {0, 1} /\ message \in Messages
  /\ sens \in [Widgets -> BOOLEAN]
  /\ stack \in Seq(Frame)
  /\ running \in BOOLEAN /\ events \in 0..MaxEvents

\* When no handler is under way, the window shows the monitor that is chosen,
\* opened from the list that is shown, or a message in its place, however
\* often combo_change was called while another one was under way.
ChosenIsShown ==
  Idle =>
    /\ ~locked /\ sens["combo"]
    /\ active = nextid /\ currentid = nextid
    /\ currentid >= 0 =>
         \/ manager # NULL /\ manager.gen = gen
            /\ manager.dev = monlist[currentid + 1].dev
         \/ manager = NULL /\ message \in {"retry", "noprofile"}

\* The widgets of the manager act on the monitor they were built for, and
\* combo_change closes every monitor it replaces, except those that
\* create_monitor_manager leaves open without a manager.
OpenOwned ==
  /\ running /\ manager # NULL => mon # NULL /\ mon.id = manager.id
  /\ handles \subseteq bare \cup (IF mon = NULL THEN {} ELSE {mon.id})

\* create_monitor_manager never goes on with an entry of a list that
\* probe_monitors has freed, nor combo_change to an entry that is not there
\* (its assertion).
EntriesLive ==
  /\ TypeOK
  /\ \A i \in DOMAIN stack :
       stack[i].at \in {"opening", "getting", "loading"} => stack[i].of = gen
  /\ At("loop") /\ currentid # nextid => nextid \in 0..(Len(monlist) - 1)

\* No sequence of handlers leaves the window behind a message for good: the
\* user can go on, with "the refresh button near the monitor list" that the
\* messages speak of or with the button of a warning.  Excepted are the
\* message that there are no monitors, and a profile applied to a monitor
\* without controls.
NeverStuck ==
  Idle =>
    \/ sens["choice"]
    \/ message \in {"warning", "nomonitor"}
    \/ message = "progress" /\ controls = 0
=============================================================================
