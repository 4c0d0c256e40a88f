-------------------------- MODULE MainWindowProofs --------------------------
(***************************************************************************)
(* Proofs about MainWindow, for any monitors and any number of events.     *)
(*                                                                         *)
(* Which handlers can begin on top of another one depends on what the one  *)
(* below has made insensitive and on the message it shows.  The handlers   *)
(* that must not be interrupted are always the innermost one (StackInv),   *)
(* because nothing that would begin on top of them can begin (QuietInv).   *)
(***************************************************************************)
EXTENDS MainWindow, SequenceTheorems, TLAPS

\* combo_change, between the two places where it holds the mutex; the frames
\* that nothing begins on top of; those that wait for the monitor; and those
\* of create_monitor_manager once it has opened the monitor.
Combo == {"opening", "getting", "loading", "built", "failed", "loop"}
Alone == {"probing", "nomonitor", "opening", "getting", "loading", "failed"}
Waiting == {"probing", "opening", "getting", "loading"}
Building == {"getting", "loading"}

TopOf(s) == IF s = <<>> THEN "none" ELSE s[Len(s)].at
TopAt == TopOf(stack)

HasCombo(s) == \E i \in DOMAIN s : s[i].at \in Combo

\* A walk is of a list, and a profile is applied to a monitor that has one.
FrameOK(f, withoutProfile, n) ==
  /\ f.at = "walk" => f.of # 0
  /\ f.at = "applying" => f.of \in 1 .. n /\ f.of \notin withoutProfile

StackOK(s, withoutProfile, n) ==
  /\ s \in Seq(Frame)
  /\ \A i \in DOMAIN s : s[i].at \in Alone => i = Len(s)
  /\ \A i, j \in DOMAIN s : s[i].at \in Combo /\ s[j].at \in Combo => i = j
  /\ \A i \in DOMAIN s : FrameOK(s[i], withoutProfile, n)

StackInv ==
  /\ StackOK(stack, bare, opens)
  /\ locked <=> HasCombo(stack)
  /\ sens["combo"] <=> ~locked

QuietInv ==
  /\ TopAt \in Alone => ~sens["choice"] /\ ~sens["refresh"] /\ ~sens["profiles"]
  /\ TopAt \in Waiting => message = "progress"
  /\ TopAt = "nomonitor" => message = "nomonitor" /\ monlist = <<>>
  /\ TopAt = "failed" => message \in {"retry", "noprofile"}
  /\ TopAt = "probing" => ~connected

ListInv ==
  /\ monlist \in Seq(Entry) /\ Len(monlist) <= 2
  /\ monlist # <<>> => gen >= 1
  /\ \A i \in DOMAIN monlist : monlist[i].dev \in Devices

\* The entries that are chosen are in the list, and combo_change is under
\* way until it has caught up.
ChoiceInv ==
  running =>
    /\ currentid < Len(monlist) /\ nextid < Len(monlist)
    /\ nextid = -1 => currentid = -1
    /\ ~locked => currentid = nextid
    /\ TopAt = "nomonitor" => currentid = -1
    /\ IF TopAt = "probing" THEN active = -1 ELSE active = nextid

\* create_monitor_manager is for the entry currentid of the present list.
TurnInv ==
  /\ TopAt \in Building \cup {"opening"} => Top.of = gen
  /\ running =>
       /\ TopAt \in Building \cup {"opening", "failed"} => manager = NULL
       /\ TopAt \in Building \cup {"opening"} => currentid >= 0
       /\ TopAt \in Building => /\ mon # NULL /\ mon.id \notin bare
                                /\ mon.dev = monlist[currentid + 1].dev

DeviceInv ==
  /\ mon # NULL => mon.id \in 1 .. opens
  /\ handles \subseteq bare \cup (IF mon = NULL THEN {} ELSE {mon.id})
  /\ running =>
       /\ manager # NULL => mon # NULL /\ mon.id = manager.id /\ mon.id \notin bare
       /\ mon # NULL /\ manager = NULL /\ TopAt \notin Building => mon.id \in bare
       /\ controls # 0 => manager # NULL \/ TopAt \in Building

ShownInv ==
  running /\ currentid >= 0 =>
    /\ manager # NULL => manager.gen = gen /\ manager.dev = monlist[currentid + 1].dev
    /\ manager = NULL /\ TopAt \notin Waiting => message \in {"retry", "noprofile"}

StuckInv ==
  running =>
    \/ sens["choice"]
    \/ message \in {"warning", "nomonitor"}
    \/ message = "progress" /\ (controls = 0 \/ TopAt \in Waiting \cup {"walk", "applying"})
    \/ TopAt = "failed"

\* What has been counted, and what is under way or due.
Begun == IF TopAt \in {"probing", "opening"} THEN 1 ELSE 0
Due == IF currentid # nextid THEN 1 ELSE 0
CountInv ==
  /\ gen <= events + 1 /\ (TopAt = "probing" => gen <= events)
  /\ opens + Begun + Due <= events + 1

\* TypeOK by the groups of variables that change together.
ListType ==
  /\ monlist \in UNION {[1..n -> Entry] : n \in 0..2}
  /\ gen \in 0..(MaxEvents + 1) /\ connected \in BOOLEAN
ChoiceType ==
  {active, currentid, nextid} \subseteq -1..1 /\ locked \in BOOLEAN
DeviceType ==
  /\ opens \in 0..(MaxEvents + 1) /\ handles \cup bare \subseteq 1..opens
  /\ mon \in Open \cup {NULL}
  /\ controls \in 0..opens
  /\ manager \in [id : 1..opens, dev : Devices, gen : 1..gen] \cup {NULL}
LookType ==
  component \in {0, 1} /\ message \in Messages /\ sens \in [Widgets -> BOOLEAN]
Types ==
  /\ ListType /\ ChoiceType /\ DeviceType /\ LookType
  /\ stack \in Seq(Frame) /\ running \in BOOLEAN /\ events \in 0..MaxEvents

IndInv == /\ Types /\ StackInv /\ QuietInv /\ ListInv /\ ChoiceInv /\ TurnInv
          /\ DeviceInv /\ ShownInv /\ StuckInv /\ CountInv

-----------------------------------------------------------------------------
(* The stack and the widgets.                                              *)

OuterOf(s) == SubSeq(s, 1, Len(s) - 1)

\* A handler begins, or goes on in the place of the one that was taken off.
LEMMA Push ==
  ASSUME NEW b, NEW n, NEW s, StackOK(s, b, n), TopOf(s) \notin Alone,
         NEW f \in Frame, FrameOK(f, b, n), f.at \in Combo => ~HasCombo(s),
         NEW t, t = Append(s, f)
  PROVE  /\ StackOK(t, b, n) /\ TopOf(t) = f.at /\ t[Len(t)] = f
         /\ HasCombo(t) <=> HasCombo(s) \/ f.at \in Combo
<1>1. s \in Seq(Frame) /\ Len(s) \in Nat /\ DOMAIN s = 1 .. Len(s)
  BY DEF StackOK
<1>2. /\ t \in Seq(Frame) /\ Len(t) = Len(s) + 1 /\ DOMAIN t = 1 .. Len(t)
      /\ t[Len(t)] = f /\ \A i \in DOMAIN s : t[i] = s[i]
  BY <1>1, AppendProperties
<1>3. \A i \in DOMAIN t : i \in DOMAIN s \/ i = Len(t)
  BY <1>1, <1>2
<1>4. \A i \in DOMAIN s : s[i].at \notin Alone
  <2> SUFFICES ASSUME NEW i \in DOMAIN s, s[i].at \in Alone PROVE FALSE
    OBVIOUS
  <2>1. i = Len(s) /\ s # <<>>
    BY <1>1, EmptySeq DEF StackOK
  <2>2. QED
    BY <2>1 DEF TopOf
<1>5. \A i \in DOMAIN t : t[i].at \in Alone => i = Len(t)
  BY <1>2, <1>3, <1>4
<1>6. \A i, j \in DOMAIN t : t[i].at \in Combo /\ t[j].at \in Combo => i = j
  <2> SUFFICES ASSUME NEW i \in DOMAIN t, NEW j \in DOMAIN t, t[i].at \in Combo, t[j].at \in Combo
               PROVE  i = j
    OBVIOUS
  <2>1. CASE i \in DOMAIN s /\ j \in DOMAIN s
    BY <1>2, <2>1 DEF StackOK
  <2>2. CASE i = Len(t) \/ j = Len(t)
    BY <1>2, <1>3, <2>2 DEF HasCombo
  <2>3. QED
    BY <1>3, <2>1, <2>2
<1>7. \A i \in DOMAIN t : FrameOK(t[i], b, n)
  BY <1>2, <1>3 DEF StackOK
<1>8. StackOK(t, b, n)
  BY <1>2, <1>5, <1>6, <1>7 DEF StackOK
<1>9. TopOf(t) = f.at
  BY <1>1, <1>2, EmptySeq DEF TopOf
<1>10. HasCombo(t) <=> HasCombo(s) \/ f.at \in Combo
  <2>1. Len(t) \in DOMAIN t /\ DOMAIN s \subseteq DOMAIN t
    BY <1>1, <1>2
  <2>2. QED
    BY <1>2, <1>3, <2>1 DEF HasCombo
<1>11. QED
  BY <1>2, <1>8, <1>9, <1>10

\* The innermost handler is taken off.
LEMMA Pop ==
  ASSUME NEW b, NEW n, NEW s, StackOK(s, b, n), s # <<>>, NEW t, t = OuterOf(s)
  PROVE  /\ StackOK(t, b, n) /\ TopOf(t) \notin Alone
         /\ TopOf(s) = s[Len(s)].at /\ s[Len(s)] \in Frame /\ FrameOK(s[Len(s)], b, n)
         /\ HasCombo(t) <=> HasCombo(s) /\ TopOf(s) \notin Combo
<1>1. /\ s \in Seq(Frame) /\ Len(s) \in Nat /\ DOMAIN s = 1 .. Len(s) /\ Len(s) # 0
      /\ Len(s) \in DOMAIN s
  BY EmptySeq DEF StackOK
<1>2. /\ t \in Seq(Frame) /\ Len(t) = Len(s) - 1 /\ DOMAIN t = 1 .. (Len(s) - 1)
      /\ \A i \in DOMAIN t : t[i] = s[i]
  BY <1>1 DEF OuterOf
<1>3. \A i \in DOMAIN t : i \in DOMAIN s /\ i # Len(s) /\ s[i].at \notin Alone /\ t[i] = s[i]
  BY <1>1, <1>2 DEF StackOK
<1>4. StackOK(t, b, n)
  BY <1>2, <1>3 DEF StackOK
<1>5. TopOf(t) \notin Alone
  <2>1. CASE t = <<>>
    BY <2>1 DEF TopOf, Alone
  <2>2. CASE t # <<>>
    <3>1. Len(t) \in DOMAIN t
      BY <1>1, <1>2, <2>2, EmptySeq
    <3>2. QED
      BY <1>3, <2>2, <3>1 DEF TopOf
  <2>3. QED
    BY <2>1, <2>2
<1>6. TopOf(s) = s[Len(s)].at
  BY DEF TopOf
<1>7. s[Len(s)] \in Frame /\ FrameOK(s[Len(s)], b, n)
  BY <1>1, ElementOfSeq DEF StackOK
<1>8. HasCombo(t) => HasCombo(s) /\ TopOf(s) \notin Combo
  BY <1>1, <1>3, <1>6 DEF HasCombo, StackOK
<1>9. HasCombo(s) /\ TopOf(s) \notin Combo => HasCombo(t)
  <2> SUFFICES ASSUME NEW i \in DOMAIN s, s[i].at \in Combo, TopOf(s) \notin Combo
               PROVE  HasCombo(t)
    BY DEF HasCombo
  <2>1. i \in DOMAIN t
    BY <1>1, <1>2, <1>6
  <2>2. QED
    BY <1>3, <2>1 DEF HasCombo
<1>10. QED
  BY <1>4, <1>5, <1>6, <1>7, <1>8, <1>9

LEMMA PushStep ==
  ASSUME NEW s, StackOK(s, bare', opens'), TopOf(s) \notin Alone,
         NEW f \in Frame, FrameOK(f, bare', opens'), f.at \in Combo => ~HasCombo(s),
         stack' = Append(s, f)
  PROVE  /\ StackOK(stack', bare', opens') /\ TopAt' = f.at /\ Top' = f
         /\ HasCombo(stack') <=> HasCombo(s) \/ f.at \in Combo
<1>1. /\ StackOK(stack', bare', opens')
      /\ HasCombo(stack') <=> HasCombo(s) \/ f.at \in Combo
  BY Push
<1>2. s \in Seq(Frame)
  BY DEF StackOK
<1>3. TopOf(stack') = f.at /\ stack'[Len(stack')] = f
  BY <1>2, AppendProperties DEF TopOf
<1>4. QED
  BY <1>1, <1>3 DEF TopAt, Top

LEMMA PopStep ==
  ASSUME StackOK(stack, bare, opens), NEW at, At(at), at # "none"
  PROVE  /\ running /\ TopAt = at /\ Top \in Frame /\ FrameOK(Top, bare, opens) /\ Top.at = at
         /\ StackOK(Outer, bare, opens) /\ TopOf(Outer) \notin Alone
         /\ HasCombo(Outer) <=> HasCombo(stack) /\ at \notin Combo
<1>1. running /\ stack # <<>> /\ Top.at = at /\ Outer = OuterOf(stack)
  BY DEF At, Outer, OuterOf
<1>2. TopOf(stack) = at
  BY <1>1 DEF TopOf, Top
<1> DEFINE t == Outer
<1>3. t = OuterOf(stack)
  BY <1>1
<1> HIDE DEF t
<1>4. /\ StackOK(t, bare, opens) /\ TopOf(t) \notin Alone
      /\ stack[Len(stack)] \in Frame /\ FrameOK(stack[Len(stack)], bare, opens)
      /\ HasCombo(t) <=> HasCombo(stack) /\ TopOf(stack) \notin Combo
  BY <1>1, <1>3, Pop
<1>5. QED
  BY <1>1, <1>2, <1>4 DEF t, TopAt, Top

\* A monitor that is opened has a new number.
LEMMA Grows ==
  ASSUME NEW b, NEW n \in Nat, NEW s, StackOK(s, b, n), NEW c, c \subseteq b \cup {n + 1}
  PROVE  StackOK(s, c, n + 1)
BY DEF StackOK, FrameOK

\* What set_message and set_current_main_component do to the widgets.
LEMMA SensFacts ==
  ASSUME NEW s \in [Widgets -> BOOLEAN], NEW c
  PROVE  /\ Silenced(s) \in [Widgets -> BOOLEAN]
         /\ ~Silenced(s)["choice"] /\ ~Silenced(s)["refresh"] /\ ~Silenced(s)["profiles"]
         /\ Silenced(s)["combo"] = s["combo"]
         /\ Restored(s) \in [Widgets -> BOOLEAN]
         /\ Restored(s)["choice"] /\ Restored(s)["combo"] = s["combo"]
         /\ Component(s, c) \in [Widgets -> BOOLEAN]
         /\ Component(s, c)["choice"] = s["choice"] /\ Component(s, c)["combo"] = s["combo"]
BY DEF Silenced, Restored, Component, SetSensitive, Widgets

-----------------------------------------------------------------------------
(* Handlers that begin.                                                    *)

LEMMA Bounds == MaxEvents \in Nat /\ 0 \in 0 .. MaxEvents /\ 0 \in 0 .. (MaxEvents + 1)
<1>1. MaxEvents \in Nat
  BY WindowAssumption, Zenon
<1>2. QED
  BY <1>1

\* An entry of the combo box, or none.
LEMMA ChoiceTyped ==
  ASSUME active' \in -1 .. 1, currentid' \in -1 .. 1, nextid' \in -1 .. 1, locked' \in BOOLEAN
  PROVE  ChoiceType'
BY DEF ChoiceType

LEMMA InitInv == Init => IndInv
<1> SUFFICES ASSUME Init PROVE IndInv
  OBVIOUS
<1> DEFINE f == Called("probing", 0, FALSE)
<1>1. f \in Frame /\ f.at = "probing"
  BY DEF Called, Frame
<1>2. stack = <<f>>
  BY DEF Init
<1> HIDE DEF f
<1>3. stack \in Seq(Frame) /\ Len(stack) = 1 /\ stack[1] = f /\ DOMAIN stack = 1 .. 1 /\ stack # <<>>
  BY <1>1, <1>2
<1>4. TopAt = "probing" /\ Top = f
  BY <1>1, <1>3 DEF TopAt, TopOf, Top
<1>5. StackOK(stack, bare, opens) /\ ~HasCombo(stack)
  BY <1>1, <1>3 DEF StackOK, HasCombo, FrameOK, Combo
<1>6. /\ sens \in [Widgets -> BOOLEAN] /\ ~sens["choice"] /\ ~sens["refresh"] /\ ~sens["profiles"]
      /\ sens["combo"]
  BY DEF Init, Widgets
<1>7. Types
  <2>1. monlist \in UNION {[1 .. n -> Entry] : n \in 0 .. 2}
    <3>1. monlist \in [1 .. 0 -> Entry]
      BY DEF Init
    <3>2. QED
      BY <3>1
  <2>2. ListType
    BY <2>1, Bounds DEF Init, ListType
  <2>3. ChoiceType
    <3>1. -1 \in -1 .. 1
      OBVIOUS
    <3>2. QED
      BY <3>1 DEF Init, ChoiceType
  <2>4. DeviceType /\ LookType
    BY <1>6, Bounds DEF Init, DeviceType, LookType, Messages
  <2>5. QED
    BY <1>3, <2>2, <2>3, <2>4, Bounds DEF Init, Types
<1>8. StackInv /\ QuietInv /\ ListInv
  BY <1>4, <1>5, <1>6 DEF Init, StackInv, QuietInv, ListInv, Alone, Waiting
<1>9. ChoiceInv /\ TurnInv /\ DeviceInv /\ ShownInv /\ StuckInv /\ CountInv
  BY <1>4 DEF Init, ChoiceInv, TurnInv, DeviceInv, ShownInv, StuckInv, CountInv, Building, Waiting, Begun, Due
<1>10. QED
  BY <1>7, <1>8, <1>9 DEF IndInv

\* Events that put a frame on the stack and only show that they do.
LEMMA Begins ==
  ASSUME IndInv, running, NEW f \in Frame, FrameOK(f, bare, opens),
         f.at \in {"walk", "applying"}, manager # NULL, TopAt \notin Alone,
         Shows("progress", sens), stack' = Append(stack, f),
         UNCHANGED <<list, choice, device, running, events>>
  PROVE  IndInv'
<1>1. /\ StackOK(stack', bare', opens') /\ TopAt' = f.at
      /\ HasCombo(stack') <=> HasCombo(stack)
  <2>1. StackOK(stack, bare, opens) /\ TopOf(stack) \notin Alone /\ f.at \notin Combo
    BY DEF IndInv, StackInv, TopAt, Combo
  <2>2. bare' = bare /\ opens' = opens
    BY DEF device
  <2>3. QED
    BY <2>1, <2>2, PushStep
<1>2. /\ sens \in [Widgets -> BOOLEAN] /\ sens' \in [Widgets -> BOOLEAN] /\ ~sens'["choice"]
      /\ ~sens'["refresh"] /\ ~sens'["profiles"] /\ sens'["combo"] = sens["combo"]
      /\ message' = "progress" /\ component' = component
  BY SensFacts DEF IndInv, Types, LookType, Shows
<1>3. UNCHANGED <<monlist, gen, connected, active, currentid, nextid, locked,
                  mon, opens, handles, bare, controls, manager, running, events>>
  BY DEF list, choice, device
<1>4. Types'
  <2>1. stack' \in Seq(Frame)
    BY <1>1 DEF StackOK
  <2>2. QED
    BY <1>2, <1>3, <2>1 DEF IndInv, Types, ListType, ChoiceType, DeviceType, LookType, Messages
<1>5. StackInv' /\ QuietInv' /\ ListInv'
  BY <1>1, <1>2, <1>3 DEF IndInv, StackInv, QuietInv, ListInv, Alone, Waiting
<1>6. TopAt # "probing" /\ TopAt # "nomonitor" /\ TopAt # "opening" /\ TopAt \notin Building
  BY DEF Alone, Building
<1>7. TopAt' \notin Building \cup Waiting \cup {"opening", "failed", "probing", "nomonitor"}
  BY <1>1 DEF Building, Waiting
<1>8. ChoiceInv' /\ TurnInv'
  BY <1>3, <1>6, <1>7 DEF IndInv, ChoiceInv, TurnInv
<1>9. DeviceInv' /\ ShownInv'
  BY <1>3, <1>6, <1>7 DEF IndInv, DeviceInv, ShownInv
<1>10. StuckInv' /\ CountInv'
  BY <1>1, <1>2, <1>3, <1>6, <1>7 DEF IndInv, StuckInv, CountInv, Begun, Due
<1>11. QED
  BY <1>4, <1>5, <1>8, <1>9, <1>10 DEF IndInv

LEMMA RefreshInv == ASSUME IndInv, Refresh PROVE IndInv'
<1> DEFINE f == Called("walk", controls, FALSE)
<1>1. /\ running /\ sens["refresh"] /\ controls # 0 /\ Shows("progress", sens)
      /\ stack' = Append(stack, f) /\ UNCHANGED <<list, choice, device, running, events>>
  BY DEF Refresh
<1>2. controls \in Nat
  BY DEF IndInv, Types, DeviceType
<1>3. f \in Frame /\ f.at = "walk" /\ f.of = controls
  BY <1>2 DEF Called, Frame
<1> HIDE DEF f
<1>4. FrameOK(f, bare, opens)
  BY <1>1, <1>3 DEF FrameOK
<1>5. TopAt \notin Alone
  BY <1>1 DEF IndInv, QuietInv
<1>6. manager # NULL
  BY <1>1, <1>5 DEF IndInv, DeviceInv, Alone, Building
<1>7. QED
  BY <1>1, <1>3, <1>4, <1>5, <1>6, Begins

LEMMA ApplyInv == ASSUME IndInv, Apply PROVE IndInv'
<1> DEFINE f == Called("applying", mon.id, FALSE)
<1>1. /\ running /\ manager # NULL /\ message = "none" /\ Shows("progress", sens)
      /\ stack' = Append(stack, f) /\ UNCHANGED <<list, choice, device, running, events>>
  BY DEF Apply
<1>2. mon # NULL /\ mon.id \in 1 .. opens /\ mon.id \notin bare /\ opens \in Nat
  BY <1>1 DEF IndInv, DeviceInv, Types, DeviceType
<1>3. f \in Frame /\ f.at = "applying" /\ f.of = mon.id
  <2>1. mon.id \in Nat
    BY <1>2
  <2>2. QED
    BY <2>1 DEF Called, Frame
<1> HIDE DEF f
<1>4. FrameOK(f, bare, opens)
  BY <1>2, <1>3 DEF FrameOK
<1>5. TopAt \notin Alone
  BY <1>1 DEF IndInv, QuietInv, Alone, Waiting
<1>6. QED
  BY <1>1, <1>3, <1>4, <1>5, Begins

LEMMA ProbeInv == ASSUME IndInv, Probe PROVE IndInv'
<1> DEFINE f == Called("probing", 0, FALSE)
<1>1. f \in Frame /\ f.at = "probing" /\ FrameOK(f, bare, opens)
  BY DEF FrameOK, Called, Frame
<1>2. TopAt \notin Alone
  BY DEF IndInv, QuietInv, Probe
<1>3. UNCHANGED <<monlist, gen, currentid, nextid, locked,
                  mon, opens, handles, bare, controls, manager, running>>
  BY DEF Probe, device
<1>4. /\ StackOK(stack', bare', opens') /\ TopAt' = "probing"
      /\ HasCombo(stack') <=> HasCombo(stack)
  <2>1. StackOK(stack, bare, opens) /\ TopOf(stack) \notin Alone /\ f.at \notin Combo
    BY <1>1, <1>2 DEF IndInv, StackInv, TopAt, Combo
  <2>2. stack' = Append(stack, f)
    BY DEF Probe
  <2> HIDE DEF f
  <2>3. QED
    BY <1>1, <1>3, <2>1, <2>2, PushStep
<1>5. /\ sens \in [Widgets -> BOOLEAN] /\ sens' \in [Widgets -> BOOLEAN] /\ ~sens'["choice"]
      /\ ~sens'["refresh"] /\ ~sens'["profiles"] /\ sens'["combo"] = sens["combo"]
      /\ message' = "progress" /\ component' = component
  BY SensFacts DEF IndInv, Types, LookType, Probe, Shows
<1>6. running /\ events < MaxEvents /\ events' = events + 1 /\ connected' = FALSE /\ active' = -1
  BY DEF Probe
<1>7. Types'
  <2>1. stack' \in Seq(Frame)
    BY <1>4 DEF StackOK
  <2>2. events' \in 0 .. MaxEvents
    BY <1>6, Bounds DEF IndInv, Types
  <2>3. ListType' /\ ChoiceType'
    <3>1. active' \in -1 .. 1
      BY <1>6
    <3>2. QED
      BY <1>3, <1>6, <3>1, ChoiceTyped DEF IndInv, Types, ListType, ChoiceType
  <2>4. DeviceType' /\ LookType'
    BY <1>3, <1>5 DEF IndInv, Types, DeviceType, LookType, Messages
  <2>5. QED
    BY <1>3, <2>1, <2>2, <2>3, <2>4 DEF IndInv, Types
<1>8. StackInv' /\ QuietInv' /\ ListInv'
  BY <1>3, <1>4, <1>5, <1>6 DEF IndInv, StackInv, QuietInv, ListInv, Alone, Waiting
<1>9. ChoiceInv' /\ TurnInv'
  BY <1>3, <1>4, <1>6 DEF IndInv, ChoiceInv, TurnInv, Building
<1>10. DeviceInv' /\ ShownInv'
  BY <1>2, <1>3, <1>4 DEF IndInv, DeviceInv, ShownInv, Alone, Building, Waiting
<1>11. StuckInv'
  BY <1>4, <1>5 DEF StuckInv, Waiting
<1>12. CountInv'
  <2>1. TopAt # "probing" /\ TopAt # "opening"
    BY <1>2 DEF Alone
  <2>2. gen \in Nat /\ opens \in Nat /\ events \in Nat
    BY Bounds DEF IndInv, Types, ListType, DeviceType
  <2>3. QED
    BY <1>3, <1>4, <1>6, <2>1, <2>2 DEF IndInv, CountInv, Begun, Due
<1>13. QED
  BY <1>7, <1>8, <1>9, <1>10, <1>11, <1>12 DEF IndInv

-----------------------------------------------------------------------------
(* combo_change.                                                           *)

\* A turn of its loop, on a stack without another combo_change.
LEMMA TurnStep ==
  ASSUME IndInv, running, TopAt \notin Building,
         NEW below, StackOK(below, bare, opens), TopOf(below) \notin Alone, ~HasCombo(below),
         NEW k \in 0 .. 1, k < Len(monlist'), NEW entries, NEW g \in Nat, g = gen', g >= 1,
         NEW s \in [Widgets -> BOOLEAN], ~s["combo"], Turn(k, entries, g, s, below),
         active' = k, nextid' = k, locked' = TRUE, running' = running,
         ListInv', ListType', events' \in 0 .. MaxEvents,
         gen' <= events' + 1, opens <= events'
  PROVE  IndInv'
<1>1. /\ currentid' = k /\ manager' = NULL /\ controls' = 0 /\ opens' = opens /\ bare' = bare
      /\ mon' = (IF manager = NULL THEN mon ELSE NULL)
      /\ handles' = (IF manager = NULL THEN handles ELSE Closed)
  BY DEF Turn, DeleteManager
<1>2. \E at \in {"opening", "failed"} :
        /\ stack' = Append(below, Called(at, g, FALSE))
        /\ Shows(IF at = "opening" THEN "progress" ELSE "retry", s)
  BY DEF Turn
<1>3. PICK at \in {"opening", "failed"} :
        /\ stack' = Append(below, Called(at, g, FALSE))
        /\ Shows(IF at = "opening" THEN "progress" ELSE "retry", s)
  BY <1>2
<1> DEFINE f == Called(at, g, FALSE)
<1>4. f \in Frame /\ f.at = at /\ f.of = g
  BY DEF Called, Frame
<1>5. FrameOK(f, bare', opens') /\ StackOK(below, bare', opens') /\ at \in Combo
  BY <1>1, <1>3, <1>4 DEF FrameOK, Combo
<1>6. stack' = Append(below, f)
  BY <1>3
<1> HIDE DEF f
<1>7. /\ StackOK(stack', bare', opens') /\ TopAt' = at /\ Top'.of = g /\ HasCombo(stack')
  BY <1>4, <1>5, <1>6, PushStep
<1>8. /\ sens' \in [Widgets -> BOOLEAN] /\ ~sens'["choice"]
      /\ ~sens'["refresh"] /\ ~sens'["profiles"] /\ ~sens'["combo"]
      /\ message' = (IF at = "opening" THEN "progress" ELSE "retry") /\ component' = component
  BY <1>3, SensFacts DEF Shows
<1>9. Types'
  <2>1. stack' \in Seq(Frame)
    BY <1>7 DEF StackOK
  <2>2. k \in -1 .. 1 /\ TRUE \in BOOLEAN
    OBVIOUS
  <2>3. ChoiceType'
    BY <1>1, <2>2, ChoiceTyped
  <2>4. DeviceType'
    <3>1. /\ opens \in 0 .. (MaxEvents + 1) /\ handles \cup bare \subseteq 1 .. opens
          /\ mon \in Open \cup {NULL}
      BY DEF IndInv, Types, DeviceType
    <3>2. 0 \in 0 .. opens
      BY <3>1
    <3>3. handles' \cup bare' \subseteq 1 .. opens /\ mon' \in Open \cup {NULL}
      BY <1>1, <3>1 DEF Closed
    <3>4. QED
      BY <1>1, <3>1, <3>2, <3>3 DEF DeviceType
  <2>5. LookType'
    BY <1>8 DEF IndInv, Types, LookType, Messages
  <2>6. running' \in BOOLEAN
    BY DEF IndInv, Types
  <2>7. QED
    BY <2>1, <2>3, <2>4, <2>5, <2>6 DEF Types
<1>10. StackInv' /\ QuietInv'
  BY <1>3, <1>7, <1>8 DEF StackInv, QuietInv, Alone, Waiting
<1>11. ChoiceInv' /\ TurnInv'
  <2>1. at \notin Building /\ at # "probing" /\ at # "nomonitor"
    BY <1>3 DEF Building
  <2>2. k # -1 /\ k >= 0
    OBVIOUS
  <2>3. ChoiceInv'
    BY <1>1, <1>7, <2>1, <2>2 DEF ChoiceInv
  <2>4. TurnInv'
    BY <1>1, <1>7, <2>1, <2>2 DEF TurnInv
  <2>5. QED
    BY <2>3, <2>4
<1>12. DeviceInv'
  <2>1. at \notin Building
    BY <1>3 DEF Building
  <2>2. CASE manager = NULL
    BY <1>1, <1>7, <2>1, <2>2 DEF IndInv, DeviceInv
  <2>3. CASE manager # NULL
    <3>1. mon # NULL /\ handles \subseteq bare \cup {mon.id}
      BY <2>3 DEF IndInv, DeviceInv
    <3>2. handles' \subseteq bare /\ mon' = NULL
      BY <1>1, <2>3, <3>1 DEF Closed
    <3>3. QED
      BY <1>1, <3>2 DEF DeviceInv
  <2>4. QED
    BY <2>2, <2>3
<1>13. ShownInv' /\ StuckInv'
  BY <1>1, <1>3, <1>7, <1>8 DEF ShownInv, StuckInv, Waiting
<1>14. CountInv'
  <2>1. opens \in Nat /\ events' \in Nat
    BY Bounds DEF IndInv, Types, DeviceType
  <2>2. TopAt' # "probing" /\ currentid' = nextid' /\ gen' \in Nat
    BY <1>1, <1>3, <1>7
  <2>3. Begun' \in {0, 1} /\ Due' = 0
    BY <2>2 DEF Begun, Due
  <2>4. opens' = opens
    BY <1>1
  <2>5. opens' + Begun' + Due' <= events' + 1
    <3>1. ASSUME NEW e \in Nat, NEW o \in Nat, o <= e, NEW b \in {0, 1} PROVE o + b + 0 <= e + 1
      BY <3>1
    <3>2. QED
      BY <2>1, <2>3, <2>4, <3>1
  <2>6. QED
    BY <2>1, <2>2, <2>5 DEF CountInv
<1>15. QED
  BY <1>9, <1>10, <1>11, <1>12, <1>13, <1>14 DEF IndInv

\* The user, or the place of the window, chooses entry k.
LEMMA Chosen ==
  ASSUME IndInv, running, NEW k \in 0 .. 1, k < Len(monlist),
         TopAt # "probing", TopAt # "nomonitor",
         events < MaxEvents, events' = events + 1,
         ComboChange(k, currentid, monlist, gen, sens, stack), UNCHANGED <<list, running>>
  PROVE  IndInv'
<1>1. /\ active' = k /\ nextid' = k /\ locked' = TRUE
      /\ UNCHANGED <<monlist, gen, connected, running>>
  BY DEF ComboChange, list
<1>2. /\ opens \in Nat /\ gen \in Nat /\ events \in Nat /\ events' \in 0 .. MaxEvents
      /\ sens \in [Widgets -> BOOLEAN] /\ currentid \in -1 .. 1
  BY Bounds DEF IndInv, Types, ListType, ChoiceType, DeviceType, LookType
<1>3. ListType' /\ ListInv'
  BY <1>1 DEF IndInv, Types, ListType, ListInv
<1>4. CASE locked
  <2>1. UNCHANGED <<currentid, sens, stack, mon, opens, handles, bare, controls, manager,
                    message, component>>
    BY <1>4 DEF ComboChange, device
  <2>2. TopAt' = TopAt /\ Top' = Top /\ StackOK(stack', bare', opens') = StackOK(stack, bare, opens)
        /\ HasCombo(stack') = HasCombo(stack)
    BY <2>1 DEF TopAt, Top
  <2>3. ChoiceType'
    <3>1. k \in -1 .. 1 /\ TRUE \in BOOLEAN
      OBVIOUS
    <3>2. QED
      BY <1>1, <1>2, <2>1, <3>1, ChoiceTyped
  <2>4. Types'
    BY <1>1, <1>2, <1>3, <2>1, <2>3 DEF IndInv, Types, DeviceType, LookType
  <2>5. StackInv' /\ QuietInv'
    BY <1>1, <1>4, <2>1, <2>2 DEF IndInv, StackInv, QuietInv
  <2>6. ChoiceInv'
    <3>1. k # -1
      OBVIOUS
    <3>2. QED
      BY <1>1, <2>1, <2>2, <3>1 DEF IndInv, ChoiceInv
  <2>7. TurnInv' /\ DeviceInv' /\ ShownInv' /\ StuckInv'
    BY <1>1, <2>1, <2>2 DEF IndInv, TurnInv, DeviceInv, ShownInv, StuckInv
  <2>8. CountInv'
    BY <1>1, <1>2, <2>1, <2>2 DEF IndInv, CountInv, Begun, Due
  <2>9. QED
    BY <1>3, <2>4, <2>5, <2>6, <2>7, <2>8 DEF IndInv
<1>5. CASE ~locked
  <2> DEFINE s == [sens EXCEPT !["combo"] = FALSE]
  <2>1. Turn(k, monlist, gen, s, stack)
    BY <1>5 DEF ComboChange
  <2>2. s \in [Widgets -> BOOLEAN] /\ ~s["combo"]
    BY <1>2 DEF Widgets
  <2>3. StackOK(stack, bare, opens) /\ ~HasCombo(stack)
    BY <1>5 DEF IndInv, StackInv
  <2>4. TopAt \notin Alone /\ TopOf(stack) = TopAt
    <3>1. TopAt \notin Combo
      <4>1. CASE stack = <<>>
        BY <4>1 DEF TopAt, TopOf, Combo
      <4>2. CASE stack # <<>>
        <5>1. Len(stack) \in DOMAIN stack
          BY <2>3, <4>2, EmptySeq, LenProperties DEF StackOK
        <5>2. QED
          BY <2>3, <4>2, <5>1 DEF TopAt, TopOf, HasCombo
      <4>3. QED
        BY <4>1, <4>2
    <3>2. QED
      BY <3>1 DEF Alone, Combo, TopAt
  <2>5. monlist # <<>>
    BY EmptySeq
  <2>6. gen >= 1
    BY <2>5 DEF IndInv, ListInv
  <2>7. gen' <= events' + 1 /\ opens <= events'
    <3>1. gen <= events + 1 /\ opens <= events + 1
      BY <1>2 DEF IndInv, CountInv, Begun, Due
    <3>2. QED
      BY <1>1, <1>2, <3>1
  <2>8. TopAt \notin Building
    BY <2>4 DEF Alone, Building
  <2> HIDE DEF s
  <2>9. QED
    BY <1>1, <1>2, <1>3, <2>1, <2>2, <2>3, <2>4, <2>6, <2>7, <2>8, TurnStep
<1>6. QED
  BY <1>4, <1>5

LEMMA SelectInv ==
  ASSUME IndInv, NEW k \in 0 .. (Len(monlist) - 1), Select(k)
  PROVE  IndInv'
<1>1. Len(monlist) \in Nat /\ Len(monlist) <= 2
  BY DEF IndInv, ListInv
<1>2. k \in 0 .. 1 /\ k < Len(monlist)
  BY <1>1
<1>3. TopAt \notin Alone
  BY DEF Select, IndInv, QuietInv
<1>4. TopAt # "probing" /\ TopAt # "nomonitor"
  BY <1>3 DEF Alone
<1>5. QED
  BY <1>2, <1>4, Chosen DEF Select

LEMMA WindowMovedInv == ASSUME IndInv, WindowMoved PROVE IndInv'
<1> DEFINE k == IF nextid = 0 THEN 1 ELSE 0
<1>1. k \in 0 .. 1 /\ k < Len(monlist)
  BY DEF WindowMoved
<1>2. TopAt # "probing"
  BY DEF WindowMoved, IndInv, QuietInv
<1>3. TopAt # "nomonitor"
  <2>1. monlist # <<>>
    BY EmptySeq DEF WindowMoved
  <2>2. QED
    BY <2>1 DEF IndInv, QuietInv
<1>4. /\ running /\ events < MaxEvents /\ events' = events + 1 /\ UNCHANGED <<list, running>>
      /\ ComboChange(k, currentid, monlist, gen, sens, stack)
  BY DEF WindowMoved
<1> HIDE DEF k
<1>5. QED
  BY <1>1, <1>2, <1>3, <1>4, Chosen

-----------------------------------------------------------------------------
(* Handlers that go on or return.                                          *)

\* The innermost handler goes on as f.
LEMMA Replace ==
  ASSUME StackInv, NEW a, At(a), a # "none",
         NEW f \in Frame, FrameOK(f, bare', opens'), stack' = Append(Outer, f),
         a \in Combo <=> f.at \in Combo,
         StackOK(Outer, bare, opens) => StackOK(Outer, bare', opens')
  PROVE  /\ StackOK(stack', bare', opens') /\ TopAt' = f.at /\ Top' = f
         /\ HasCombo(stack') <=> HasCombo(stack)
<1>1. StackOK(stack, bare, opens)
  BY DEF StackInv
<1>2. /\ TopAt = a /\ stack # <<>> /\ StackOK(Outer, bare, opens) /\ TopOf(Outer) \notin Alone
      /\ HasCombo(Outer) <=> HasCombo(stack) /\ a \notin Combo
  BY <1>1, PopStep DEF At
<1>3. a \in Combo => HasCombo(stack)
  <2>1. Len(stack) \in DOMAIN stack
    BY <1>1, <1>2, EmptySeq, LenProperties DEF StackOK
  <2>2. QED
    BY <1>2, <2>1 DEF TopAt, TopOf, HasCombo
<1>4. /\ StackOK(stack', bare', opens') /\ TopAt' = f.at /\ Top' = f
      /\ HasCombo(stack') <=> HasCombo(Outer) \/ f.at \in Combo
  BY <1>2, PushStep
<1>5. QED
  BY <1>2, <1>3, <1>4

\* The innermost handler returns.
LEMMA Returns ==
  ASSUME StackInv, NEW a, At(a), a # "none", stack' = Outer, bare' = bare, opens' = opens
  PROVE  /\ running /\ TopAt = a /\ Top \in Frame /\ FrameOK(Top, bare, opens)
         /\ StackOK(stack', bare', opens') /\ TopAt' \notin Alone
         /\ HasCombo(stack') <=> HasCombo(stack) /\ a \notin Combo
<1>1. StackOK(stack, bare, opens)
  BY DEF StackInv
<1>2. /\ running /\ TopAt = a /\ Top \in Frame /\ FrameOK(Top, bare, opens)
      /\ StackOK(Outer, bare, opens) /\ TopOf(Outer) \notin Alone
      /\ HasCombo(Outer) <=> HasCombo(stack) /\ a \notin Combo
  BY <1>1, PopStep
<1>3. QED
  BY <1>2 DEF TopAt

\* An event changes the widgets and the message only.
LEMMA LookStep ==
  ASSUME IndInv, running, TopAt \notin Alone,
         UNCHANGED <<list, choice, device, stack, running, events>>,
         LookType', sens'["combo"] = sens["combo"],
         sens["choice"] => sens'["choice"],
         message' = message \/ (message = "warning" /\ sens'["choice"])
  PROVE  IndInv'
<1>1. UNCHANGED <<monlist, gen, connected, active, currentid, nextid, locked,
                  mon, opens, handles, bare, controls, manager, stack, running, events>>
  BY DEF list, choice, device
<1>2. TopAt' = TopAt /\ Top' = Top /\ HasCombo(stack') = HasCombo(stack)
      /\ StackOK(stack', bare', opens') = StackOK(stack, bare, opens)
  BY <1>1 DEF TopAt, Top
<1>3. Types'
  BY <1>1 DEF IndInv, Types, ListType, ChoiceType, DeviceType
<1>4. StackInv' /\ QuietInv'
  BY <1>1, <1>2 DEF IndInv, StackInv, QuietInv, Alone, Waiting
<1>5. ListInv' /\ ChoiceInv' /\ TurnInv' /\ DeviceInv' /\ CountInv'
  BY <1>1, <1>2 DEF IndInv, ListInv, ChoiceInv, TurnInv, DeviceInv, CountInv, Begun, Due
<1>6. ShownInv' /\ StuckInv'
  BY <1>1, <1>2 DEF IndInv, ShownInv, StuckInv
<1>7. QED
  BY <1>3, <1>4, <1>5, <1>6 DEF IndInv

LEMMA ShowProfilesInv == ASSUME IndInv, ShowProfiles PROVE IndInv'
<1>1. /\ running /\ sens["profiles"] /\ component' = 1
      /\ sens' = IF manager = NULL THEN sens ELSE Component(sens, 1)
      /\ UNCHANGED <<list, choice, device, message, stack, running, events>>
  BY DEF ShowProfiles
<1>2. TopAt \notin Alone
  BY <1>1 DEF IndInv, QuietInv
<1>3. sens \in [Widgets -> BOOLEAN] /\ message \in Messages
  BY DEF IndInv, Types, LookType
<1>4. sens' \in [Widgets -> BOOLEAN] /\ sens'["choice"] = sens["choice"] /\ sens'["combo"] = sens["combo"]
  BY <1>1, <1>3, SensFacts
<1>5. LookType'
  BY <1>1, <1>3, <1>4 DEF LookType
<1>6. QED
  BY <1>1, <1>2, <1>4, <1>5, LookStep

LEMMA CloseProfilesInv == ASSUME IndInv, CloseProfiles PROVE IndInv'
<1>1. /\ running /\ message = "none" /\ component' = 0 /\ sens' = Component(sens, 0)
      /\ UNCHANGED <<list, choice, device, message, stack, running, events>>
  BY DEF CloseProfiles
<1>2. TopAt \notin Alone
  BY <1>1 DEF IndInv, QuietInv, Alone, Waiting
<1>3. sens \in [Widgets -> BOOLEAN] /\ message \in Messages
  BY DEF IndInv, Types, LookType
<1>4. sens' \in [Widgets -> BOOLEAN] /\ sens'["choice"] = sens["choice"] /\ sens'["combo"] = sens["combo"]
  BY <1>1, <1>3, SensFacts
<1>5. LookType'
  BY <1>1, <1>3, <1>4 DEF LookType
<1>6. QED
  BY <1>1, <1>2, <1>4, <1>5, LookStep

LEMMA DismissInv == ASSUME IndInv, Dismiss PROVE IndInv'
<1>1. /\ running /\ message = "warning" /\ message' = "none" /\ sens' = Restored(sens)
      /\ component' = component /\ UNCHANGED <<list, choice, device, stack, running, events>>
  BY DEF Dismiss, Clears
<1>2. TopAt \notin Alone
  BY <1>1 DEF IndInv, QuietInv, Alone, Waiting
<1>3. sens \in [Widgets -> BOOLEAN] /\ component \in {0, 1}
  BY DEF IndInv, Types, LookType
<1>4. sens' \in [Widgets -> BOOLEAN] /\ sens'["choice"] /\ sens'["combo"] = sens["combo"]
  BY <1>1, <1>3, SensFacts
<1>5. LookType'
  BY <1>1, <1>3, <1>4 DEF LookType, Messages
<1>6. QED
  BY <1>1, <1>2, <1>4, <1>5, LookStep

LEMMA QuitInv == ASSUME IndInv, Quit PROVE IndInv'
<1>1. /\ running' = FALSE /\ handles' = Closed /\ mon' = NULL /\ controls' = 0 /\ monlist' = <<>>
      /\ UNCHANGED <<gen, connected, active, currentid, nextid, locked, opens, bare, manager,
                     component, message, sens, stack, events>>
      /\ stack = <<>>
  BY DEF Quit, Idle, choice, look
<1>2. TopAt' = TopAt /\ TopAt = "none" /\ HasCombo(stack') = HasCombo(stack)
      /\ StackOK(stack', bare', opens') = StackOK(stack, bare, opens)
  BY <1>1 DEF TopAt, TopOf
<1>3. Types'
  <2>1. monlist' \in UNION {[1 .. n -> Entry] : n \in 0 .. 2}
    <3>1. monlist' \in [1 .. 0 -> Entry]
      BY <1>1
    <3>2. QED
      BY <3>1
  <2>2. 0 \in 0 .. opens /\ handles' \subseteq handles
    BY <1>1 DEF IndInv, Types, DeviceType, Closed
  <2>3. ListType' /\ ChoiceType' /\ DeviceType' /\ LookType'
    BY <1>1, <2>1, <2>2 DEF IndInv, Types, ListType, ChoiceType, DeviceType, LookType
  <2>4. QED
    BY <1>1, <2>3 DEF IndInv, Types
<1>4. StackInv' /\ QuietInv' /\ ListInv'
  BY <1>1, <1>2 DEF IndInv, StackInv, QuietInv, ListInv, Alone, Waiting
<1>5. DeviceInv'
  <2>1. handles' \subseteq bare
    BY <1>1 DEF IndInv, DeviceInv, Closed
  <2>2. QED
    BY <1>1, <2>1 DEF DeviceInv
<1>6. ChoiceInv' /\ TurnInv' /\ ShownInv' /\ StuckInv' /\ CountInv'
  BY <1>1, <1>2 DEF IndInv, ChoiceInv, TurnInv, ShownInv, StuckInv, CountInv, Begun, Due, Building
<1>7. QED
  BY <1>3, <1>4, <1>5, <1>6 DEF IndInv

\* What holds whatever a handler changes of the monitor and of the look when
\* it goes on as f.
LEMMA GoesOn ==
  ASSUME IndInv, NEW a, At(a), a # "none", a # "probing", a # "nomonitor",
         NEW f \in Frame, f.at # "probing", f.at # "nomonitor", FrameOK(f, bare', opens'),
         stack' = Append(Outer, f), a \in Combo <=> f.at \in Combo,
         StackOK(Outer, bare, opens) => StackOK(Outer, bare', opens'),
         UNCHANGED <<list, choice, running, events>>,
         DeviceType', LookType', sens'["combo"] = sens["combo"]
  PROVE  /\ Types' /\ StackInv' /\ ListInv' /\ ChoiceInv' /\ TopAt' = f.at /\ Top' = f
         /\ UNCHANGED <<monlist, gen, connected, active, currentid, nextid, locked, running, events>>
<1>1. UNCHANGED <<monlist, gen, connected, active, currentid, nextid, locked, running, events>>
  BY DEF list, choice
<1>2. /\ StackOK(stack', bare', opens') /\ TopAt' = f.at /\ Top' = f
      /\ HasCombo(stack') <=> HasCombo(stack)
  BY Replace DEF IndInv
<1>3. TopAt = a
  BY PopStep DEF IndInv, StackInv
<1>4. Types'
  <2>1. stack' \in Seq(Frame)
    BY <1>2 DEF StackOK
  <2>2. QED
    BY <1>1, <2>1 DEF IndInv, Types, ListType, ChoiceType
<1>5. StackInv' /\ ListInv'
  BY <1>1, <1>2 DEF IndInv, StackInv, ListInv
<1>6. ChoiceInv'
  BY <1>1, <1>2, <1>3 DEF IndInv, ChoiceInv
<1>7. QED
  BY <1>1, <1>2, <1>4, <1>5, <1>6

\* Where the innermost handler is.
LEMMA Here ==
  ASSUME IndInv, NEW a, At(a), a # "none"
  PROVE  /\ running /\ TopAt = a /\ Top \in Frame /\ Top.of \in Nat /\ FrameOK(Top, bare, opens)
         /\ sens \in [Widgets -> BOOLEAN] /\ component \in {0, 1} /\ message \in Messages
         /\ opens \in Nat /\ events \in Nat /\ gen \in Nat
<1>1. running /\ TopAt = a /\ Top \in Frame /\ FrameOK(Top, bare, opens)
  BY PopStep DEF IndInv, StackInv
<1>2. Top.of \in Nat
  BY <1>1 DEF Frame
<1>3. QED
  BY <1>1, <1>2, Bounds DEF IndInv, Types, LookType, DeviceType, ListType

\* set_message.
LEMMA ShowsFacts ==
  ASSUME IndInv, NEW m \in Messages, Shows(m, sens)
  PROVE  /\ LookType' /\ message' = m /\ sens'["combo"] = sens["combo"]
         /\ ~sens'["choice"] /\ ~sens'["refresh"] /\ ~sens'["profiles"]
BY SensFacts DEF IndInv, Types, LookType, Shows

LEMMA OpenFailsInv == ASSUME IndInv, OpenFails PROVE IndInv'
<1>1. /\ At("opening") /\ mon' = NULL /\ Shows("retry", sens)
      /\ UNCHANGED <<list, choice, running, events>>
      /\ UNCHANGED <<opens, handles, bare, controls, manager>>
      /\ stack' = Append(Outer, Called("failed", Top.of, FALSE))
  BY DEF OpenFails
<1>2. /\ running /\ TopAt = "opening" /\ Top.of \in Nat
      /\ opens \in Nat /\ events \in Nat /\ gen \in Nat
  BY <1>1, Here
<1> DEFINE f == Called("failed", Top.of, FALSE)
<1>3. f \in Frame /\ f.at = "failed" /\ f.of = Top.of
  BY <1>2 DEF Called, Frame
<1>4. /\ LookType' /\ message' = "retry" /\ sens'["combo"] = sens["combo"]
      /\ ~sens'["choice"] /\ ~sens'["refresh"] /\ ~sens'["profiles"]
  BY <1>1, ShowsFacts DEF Messages
<1>5. DeviceType'
  BY <1>1 DEF IndInv, Types, DeviceType, list
<1>6. stack' = Append(Outer, f) /\ FrameOK(f, bare', opens')
  BY <1>1, <1>3 DEF FrameOK
<1> HIDE DEF f
<1>7. /\ Types' /\ StackInv' /\ ListInv' /\ ChoiceInv' /\ TopAt' = f.at /\ Top' = f
      /\ UNCHANGED <<monlist, gen, connected, active, currentid, nextid, locked, running, events>>
  BY <1>1, <1>3, <1>4, <1>5, <1>6, GoesOn DEF Combo
<1>8. QuietInv' /\ TurnInv'
  BY <1>1, <1>2, <1>3, <1>4, <1>7 DEF IndInv, QuietInv, TurnInv, Alone, Waiting, Building
<1>9. DeviceInv'
  <2>1. manager = NULL /\ TopAt \notin Building
    BY <1>2 DEF IndInv, TurnInv, Building
  <2>2. handles \subseteq bare
    BY <1>2, <2>1 DEF IndInv, DeviceInv
  <2>3. QED
    BY <1>1, <1>2, <1>7, <2>1, <2>2 DEF IndInv, DeviceInv
<1>10. ShownInv' /\ StuckInv'
  BY <1>1, <1>2, <1>3, <1>4, <1>7 DEF IndInv, TurnInv, ShownInv, StuckInv
<1>11. CountInv'
  BY <1>1, <1>2, <1>3, <1>7 DEF IndInv, CountInv, Begun, Due
<1>12. QED
  BY <1>7, <1>8, <1>9, <1>10, <1>11 DEF IndInv

\* The monitor of the chosen entry is opened: what both cases share.
LEMMA OpenedFacts ==
  ASSUME IndInv, NEW profile \in BOOLEAN, Opened(profile)
  PROVE  /\ running /\ TopAt = "opening" /\ Top.of = gen /\ Top.of \in Nat /\ manager = NULL
         /\ currentid >= 0 /\ opens \in Nat /\ controls = 0
         /\ mon' # NULL /\ mon'.id = opens + 1 /\ mon'.dev = monlist[currentid + 1].dev
         /\ DeviceType' /\ opens' = opens + 1 /\ controls' = controls /\ manager' = manager
         /\ opens + 1 \notin bare /\ handles' \subseteq bare \cup {opens + 1}
         /\ bare' = (IF profile THEN bare ELSE bare \cup {opens + 1})
         /\ StackOK(Outer, bare, opens) => StackOK(Outer, bare', opens')
         /\ opens' + Due <= events + 1
         /\ UNCHANGED <<list, choice, running, events>>
<1>1. /\ At("opening") /\ opens' = opens + 1 /\ handles' = handles \cup {opens + 1}
      /\ bare' = (IF profile THEN bare ELSE bare \cup {opens + 1})
      /\ mon' = [id |-> opens + 1, dev |-> monlist[currentid + 1].dev]
      /\ controls' = controls /\ manager' = manager
      /\ UNCHANGED <<list, choice, running, events>>
  BY DEF Opened
<1>2. /\ running /\ TopAt = "opening" /\ Top.of \in Nat
      /\ opens \in Nat /\ events \in Nat /\ gen \in Nat
  BY <1>1, Here
<1>3. manager = NULL /\ currentid >= 0 /\ Top.of = gen
  BY <1>2 DEF IndInv, TurnInv
<1>4. controls = 0
  BY <1>2, <1>3 DEF IndInv, DeviceInv, Building
<1>5. monlist[currentid + 1].dev \in Devices
  <2>1. /\ currentid \in -1 .. 1 /\ currentid < Len(monlist) /\ Len(monlist) \in Nat
        /\ DOMAIN monlist = 1 .. Len(monlist)
    BY <1>2 DEF IndInv, Types, ChoiceType, ChoiceInv, ListInv
  <2>2. currentid + 1 \in DOMAIN monlist
    BY <1>3, <2>1
  <2>3. QED
    BY <2>2 DEF IndInv, ListInv
<1>6. mon' \in Open /\ mon'.id = opens + 1 /\ mon'.dev = monlist[currentid + 1].dev
  BY <1>1, <1>2, <1>5 DEF Open
<1>7. mon' # NULL
  BY <1>6, WindowAssumption
<1>8. /\ handles \cup bare \subseteq 1 .. opens /\ controls \in 0 .. opens
      /\ events \in 0 .. MaxEvents
  BY DEF IndInv, Types, DeviceType
<1>9. opens + 1 \notin bare
  BY <1>2, <1>8
<1>10. opens' + Due <= events + 1 /\ opens' \in 0 .. (MaxEvents + 1)
  <2>1. Begun = 1 /\ Due \in {0, 1}
    BY <1>2 DEF Begun, Due
  <2>2. opens + Begun + Due <= events + 1
    BY DEF IndInv, CountInv
  <2>3. QED
    BY <1>1, <1>2, <1>8, <2>1, <2>2, Bounds
<1>11. DeviceType'
  <2>1. handles' \cup bare' \subseteq 1 .. opens' /\ controls' \in 0 .. opens'
    BY <1>1, <1>2, <1>4, <1>8
  <2>2. QED
    BY <1>1, <1>3, <1>6, <1>10, <2>1 DEF DeviceType
<1>12. handles' \subseteq bare \cup {opens + 1}
  <2>1. mon = NULL \/ mon.id \in bare
    BY <1>2, <1>3 DEF IndInv, DeviceInv, Building
  <2>2. handles \subseteq bare
    BY <2>1 DEF IndInv, DeviceInv
  <2>3. QED
    BY <1>1, <2>2
<1>13. StackOK(Outer, bare, opens) => StackOK(Outer, bare', opens')
  <2>1. bare' \subseteq bare \cup {opens + 1}
    BY <1>1
  <2>2. QED
    BY <1>1, <1>2, <2>1, Grows
<1>14. QED
  BY <1>1, <1>2, <1>3, <1>4, <1>6, <1>7, <1>9, <1>10, <1>11, <1>12, <1>13

LEMMA OpenBareInv == ASSUME IndInv, OpenBare PROVE IndInv'
<1>1. /\ Opened(FALSE) /\ Shows("noprofile", sens) /\ At("opening")
      /\ stack' = Append(Outer, Called("failed", Top.of, FALSE))
  BY DEF OpenBare, Opened
<1>2. /\ running /\ TopAt = "opening" /\ Top.of \in Nat /\ manager = NULL
      /\ currentid >= 0 /\ opens \in Nat /\ controls = 0
      /\ mon' # NULL /\ mon'.id = opens + 1
      /\ DeviceType' /\ opens' = opens + 1 /\ controls' = controls /\ manager' = manager
      /\ handles' \subseteq bare \cup {opens + 1} /\ bare' = bare \cup {opens + 1}
      /\ StackOK(Outer, bare, opens) => StackOK(Outer, bare', opens')
      /\ opens' + Due <= events + 1
      /\ UNCHANGED <<list, choice, running, events>>
  BY <1>1, OpenedFacts
<1> DEFINE f == Called("failed", Top.of, FALSE)
<1>3. f \in Frame /\ f.at = "failed" /\ f.of = Top.of
  BY <1>2 DEF Called, Frame
<1>4. /\ LookType' /\ message' = "noprofile" /\ sens'["combo"] = sens["combo"]
      /\ ~sens'["choice"] /\ ~sens'["refresh"] /\ ~sens'["profiles"]
  BY <1>1, ShowsFacts DEF Messages
<1>5. stack' = Append(Outer, f) /\ FrameOK(f, bare', opens')
  BY <1>1, <1>3 DEF FrameOK
<1> HIDE DEF f
<1>6. /\ Types' /\ StackInv' /\ ListInv' /\ ChoiceInv' /\ TopAt' = f.at /\ Top' = f
      /\ UNCHANGED <<monlist, gen, connected, active, currentid, nextid, locked, running, events>>
  BY <1>1, <1>2, <1>3, <1>4, <1>5, GoesOn DEF Combo
<1>7. QuietInv' /\ TurnInv'
  BY <1>2, <1>3, <1>4, <1>6 DEF QuietInv, TurnInv, Alone, Waiting, Building
<1>8. DeviceInv'
  <2>1. mon'.id \in 1 .. opens'
    BY <1>2
  <2>2. QED
    BY <1>2, <1>3, <1>6, <2>1 DEF DeviceInv, Building
<1>9. ShownInv' /\ StuckInv'
  BY <1>2, <1>3, <1>4, <1>6 DEF ShownInv, StuckInv
<1>10. CountInv'
  <2>1. Begun' = 0 /\ Due' = Due /\ Due \in {0, 1}
    BY <1>3, <1>6 DEF Begun, Due
  <2>2. opens' + Begun' + Due' <= events' + 1
    BY <1>2, <1>6, <2>1
  <2>3. QED
    BY <1>3, <1>6, <2>2 DEF IndInv, CountInv
<1>11. QED
  BY <1>6, <1>7, <1>8, <1>9, <1>10 DEF IndInv

LEMMA OpenProfileInv == ASSUME IndInv, OpenProfile PROVE IndInv'
<1>1. /\ Opened(TRUE) /\ Shows("progress", sens) /\ At("opening")
      /\ \E at \in {"getting", "loading"} : stack' = Append(Outer, Called(at, Top.of, FALSE))
  BY DEF OpenProfile, Opened
<1>2. /\ running /\ TopAt = "opening" /\ Top.of \in Nat /\ manager = NULL /\ Top.of = gen
      /\ currentid >= 0 /\ opens \in Nat /\ controls = 0
      /\ mon' # NULL /\ mon'.id = opens + 1 /\ mon'.dev = monlist[currentid + 1].dev
      /\ DeviceType' /\ opens' = opens + 1 /\ controls' = controls /\ manager' = manager
      /\ handles' \subseteq bare \cup {opens + 1} /\ bare' = bare /\ opens + 1 \notin bare
      /\ StackOK(Outer, bare, opens) => StackOK(Outer, bare', opens')
      /\ opens' + Due <= events + 1
      /\ UNCHANGED <<list, choice, running, events>>
  BY <1>1, OpenedFacts
<1>3. PICK at \in {"getting", "loading"} : stack' = Append(Outer, Called(at, Top.of, FALSE))
  BY <1>1
<1> DEFINE f == Called(at, Top.of, FALSE)
<1>4. f \in Frame /\ f.at = at /\ f.of = Top.of
  BY <1>2 DEF Called, Frame
<1>5. /\ LookType' /\ message' = "progress" /\ sens'["combo"] = sens["combo"]
      /\ ~sens'["choice"] /\ ~sens'["refresh"] /\ ~sens'["profiles"]
  BY <1>1, ShowsFacts DEF Messages
<1>6. stack' = Append(Outer, f) /\ FrameOK(f, bare', opens')
  BY <1>3, <1>4 DEF FrameOK
<1> HIDE DEF f
<1>7. /\ Types' /\ StackInv' /\ ListInv' /\ ChoiceInv' /\ TopAt' = f.at /\ Top' = f
      /\ UNCHANGED <<monlist, gen, connected, active, currentid, nextid, locked, running, events>>
  BY <1>1, <1>2, <1>4, <1>5, <1>6, GoesOn DEF Combo
<1>8. TopAt' \in Building /\ TopAt' \in Waiting /\ TopAt' \notin {"failed", "probing", "opening", "nomonitor"}
  BY <1>3, <1>4, <1>7 DEF Building, Waiting
<1>9. QuietInv' /\ TurnInv'
  BY <1>2, <1>4, <1>5, <1>7, <1>8 DEF QuietInv, TurnInv
<1>10. DeviceInv'
  <2>1. mon'.id \in 1 .. opens'
    BY <1>2
  <2>2. QED
    BY <1>2, <1>7, <1>8, <2>1 DEF DeviceInv
<1>11. ShownInv' /\ StuckInv'
  BY <1>2, <1>5, <1>7, <1>8 DEF ShownInv, StuckInv
<1>12. CountInv'
  <2>1. Begun' = 0 /\ Due' = Due /\ Due \in {0, 1}
    BY <1>7, <1>8 DEF Begun, Due
  <2>2. opens' + Begun' + Due' <= events' + 1
    BY <1>2, <1>7, <2>1
  <2>3. QED
    BY <1>7, <1>8, <2>2 DEF IndInv, CountInv
<1>13. QED
  BY <1>7, <1>9, <1>10, <1>11, <1>12 DEF IndInv

LEMMA GetControlsInv == ASSUME IndInv, GetControls PROVE IndInv'
<1>1. /\ At("getting") /\ controls' = mon.id /\ Shows("progress", sens)
      /\ \E at \in {"getting", "loading"} : stack' = Append(Outer, Called(at, Top.of, FALSE))
      /\ UNCHANGED <<mon, opens, handles, bare, manager>>
      /\ UNCHANGED <<list, choice, running, events>>
  BY DEF GetControls
<1>2. /\ running /\ TopAt = "getting" /\ Top.of \in Nat
      /\ opens \in Nat /\ events \in Nat /\ gen \in Nat
  BY <1>1, Here
<1>3. TopAt \in Building
  BY <1>2 DEF Building
<1>4. /\ manager = NULL /\ currentid >= 0 /\ Top.of = gen /\ mon # NULL /\ mon.id \notin bare
      /\ mon.dev = monlist[currentid + 1].dev
  BY <1>2, <1>3 DEF IndInv, TurnInv
<1>5. PICK at \in {"getting", "loading"} : stack' = Append(Outer, Called(at, Top.of, FALSE))
  BY <1>1
<1> DEFINE f == Called(at, Top.of, FALSE)
<1>6. f \in Frame /\ f.at = at /\ f.of = Top.of
  BY <1>2 DEF Called, Frame
<1>7. /\ LookType' /\ message' = "progress" /\ sens'["combo"] = sens["combo"]
      /\ ~sens'["choice"] /\ ~sens'["refresh"] /\ ~sens'["profiles"]
  BY <1>1, ShowsFacts DEF Messages
<1>8. stack' = Append(Outer, f) /\ FrameOK(f, bare', opens')
  BY <1>5, <1>6 DEF FrameOK
<1>9. DeviceType'
  <2>1. mon.id \in 1 .. opens
    BY <1>4 DEF IndInv, DeviceInv
  <2>2. controls' \in 0 .. opens
    BY <1>1, <1>2, <2>1
  <2>3. QED
    BY <1>1, <1>4, <2>2 DEF IndInv, Types, DeviceType
<1> HIDE DEF f
<1>10. /\ Types' /\ StackInv' /\ ListInv' /\ ChoiceInv' /\ TopAt' = f.at /\ Top' = f
       /\ UNCHANGED <<monlist, gen, connected, active, currentid, nextid, locked, running, events>>
  BY <1>1, <1>6, <1>7, <1>8, <1>9, GoesOn DEF Combo
<1>11. TopAt' \in Building /\ TopAt' \in Waiting /\ TopAt' \notin {"failed", "probing", "opening", "nomonitor"}
  BY <1>5, <1>6, <1>10 DEF Building, Waiting
<1>12. QuietInv' /\ TurnInv'
  BY <1>1, <1>4, <1>6, <1>7, <1>10, <1>11 DEF QuietInv, TurnInv
<1>13. DeviceInv' /\ ShownInv' /\ StuckInv'
  BY <1>1, <1>2, <1>4, <1>7, <1>10, <1>11 DEF IndInv, DeviceInv, ShownInv, StuckInv
<1>14. CountInv'
  BY <1>1, <1>2, <1>10, <1>11 DEF IndInv, CountInv, Begun, Due
<1>15. QED
  BY <1>10, <1>12, <1>13, <1>14 DEF IndInv

LEMMA BuiltInv == ASSUME IndInv, NEW warn \in BOOLEAN, Built(warn) PROVE IndInv'
<1>1. /\ At("loading") /\ manager' = [id |-> mon.id, dev |-> mon.dev, gen |-> Top.of]
      /\ \/ Shows("warning", sens) /\ stack' = Append(Outer, Called("built", Top.of, FALSE))
         \/ /\ message' = "none" /\ sens' = [Restored(sens) EXCEPT !["refresh"] = TRUE]
            /\ stack' = Append(Outer, Called("loop", 0, FALSE)) /\ component' = component
      /\ UNCHANGED <<mon, opens, handles, bare, controls>>
      /\ UNCHANGED <<list, choice, running, events>>
  BY DEF Built
<1>2. /\ running /\ TopAt = "loading" /\ Top.of \in Nat /\ sens \in [Widgets -> BOOLEAN]
      /\ opens \in Nat /\ events \in Nat /\ gen \in Nat /\ component \in {0, 1}
  BY <1>1, Here
<1>3. TopAt \in Building
  BY <1>2 DEF Building
<1>4. /\ currentid >= 0 /\ Top.of = gen /\ mon # NULL /\ mon.id \notin bare
      /\ mon.dev = monlist[currentid + 1].dev
  BY <1>2, <1>3 DEF IndInv, TurnInv
<1>5. mon \in Open /\ mon.id \in 1 .. opens /\ mon.id \in Nat /\ mon.dev \in Devices
  <2>1. mon \in Open /\ mon.id \in 1 .. opens
    BY <1>4 DEF IndInv, Types, DeviceType, DeviceInv
  <2>2. QED
    BY <2>1 DEF Open
<1>6. gen >= 1
  <2>1. currentid < Len(monlist) /\ currentid \in -1 .. 1 /\ monlist \in Seq(Entry)
    BY <1>2 DEF IndInv, ChoiceInv, Types, ChoiceType, ListInv
  <2>2. monlist # <<>>
    BY <1>4, <2>1, EmptySeq
  <2>3. QED
    BY <2>2 DEF IndInv, ListInv
<1>7. /\ manager' # NULL /\ manager'.id = mon.id /\ manager'.dev = mon.dev /\ manager'.gen = gen
      /\ manager' \in [id : 1 .. opens, dev : Devices, gen : 1 .. gen]
  <2>1. manager' \in Manager
    BY <1>1, <1>2, <1>5 DEF Manager
  <2>2. manager' # NULL
    BY <2>1, WindowAssumption
  <2>3. Top.of \in 1 .. gen
    BY <1>2, <1>4, <1>6
  <2>4. QED
    BY <1>1, <1>4, <1>5, <2>2, <2>3
<1>8. PICK f \in Frame :
        /\ stack' = Append(Outer, f) /\ f.at \in {"built", "loop"}
        /\ LookType' /\ sens'["combo"] = sens["combo"]
        /\ sens'["choice"] \/ message' = "warning"
  <2>1. CASE Shows("warning", sens) /\ stack' = Append(Outer, Called("built", Top.of, FALSE))
    <3>1. LookType' /\ message' = "warning" /\ sens'["combo"] = sens["combo"]
      BY <2>1, ShowsFacts DEF Messages
    <3>2. Called("built", Top.of, FALSE) \in Frame /\ Called("built", Top.of, FALSE).at = "built"
      BY <1>2 DEF Called, Frame
    <3>3. QED
      BY <2>1, <3>1, <3>2
  <2>2. CASE /\ message' = "none" /\ sens' = [Restored(sens) EXCEPT !["refresh"] = TRUE]
             /\ stack' = Append(Outer, Called("loop", 0, FALSE)) /\ component' = component
    <3>1. sens' \in [Widgets -> BOOLEAN] /\ sens'["combo"] = sens["combo"] /\ sens'["choice"]
      BY <1>2, <2>2 DEF Restored, SetSensitive, Widgets
    <3>2. LookType'
      BY <1>2, <2>2, <3>1 DEF LookType, Messages
    <3>3. Called("loop", 0, FALSE) \in Frame /\ Called("loop", 0, FALSE).at = "loop"
      BY DEF Called, Frame
    <3>4. QED
      BY <2>2, <3>1, <3>2, <3>3
  <2>3. QED
    BY <1>1, <2>1, <2>2
<1>9. DeviceType'
  BY <1>1, <1>7 DEF IndInv, Types, DeviceType, list
<1>10. FrameOK(f, bare', opens')
  BY <1>8 DEF FrameOK
<1>11. /\ Types' /\ StackInv' /\ ListInv' /\ ChoiceInv' /\ TopAt' = f.at /\ Top' = f
       /\ UNCHANGED <<monlist, gen, connected, active, currentid, nextid, locked, running, events>>
  BY <1>1, <1>8, <1>9, <1>10, GoesOn DEF Combo
<1>12. TopAt' \notin Alone \cup Waiting \cup Building \cup {"failed", "probing", "opening", "nomonitor"}
  BY <1>8, <1>11 DEF Building, Waiting, Alone
<1>13. QuietInv' /\ TurnInv'
  BY <1>12 DEF QuietInv, TurnInv
<1>14. DeviceInv' /\ ShownInv' /\ StuckInv'
  BY <1>1, <1>2, <1>4, <1>7, <1>8, <1>11, <1>12 DEF IndInv, DeviceInv, ShownInv, StuckInv
<1>15. CountInv'
  BY <1>1, <1>2, <1>11, <1>12 DEF IndInv, CountInv, Begun, Due
<1>16. QED
  BY <1>11, <1>13, <1>14, <1>15 DEF IndInv

\* combo_change comes to the end of its turn.
LEMMA TurnEnds ==
  ASSUME IndInv, NEW a \in {"built", "failed"}, At(a),
         stack' = Append(Outer, Called("loop", 0, FALSE)),
         NEW w \in {"refresh", "choice"}, sens' = [sens EXCEPT ![w] = TRUE],
         a = "failed" => w = "choice",
         UNCHANGED <<list, choice, device, component, message, running, events>>
  PROVE  IndInv'
<1>1. /\ running /\ TopAt = a /\ sens \in [Widgets -> BOOLEAN] /\ message \in Messages
      /\ opens \in Nat /\ events \in Nat /\ gen \in Nat /\ component \in {0, 1}
  BY Here
<1>2. UNCHANGED <<mon, opens, handles, bare, controls, manager>>
  BY DEF device
<1> DEFINE f == Called("loop", 0, FALSE)
<1>3. f \in Frame /\ f.at = "loop" /\ stack' = Append(Outer, f)
  BY DEF Called, Frame
<1>4. /\ sens' \in [Widgets -> BOOLEAN] /\ sens'["combo"] = sens["combo"]
      /\ sens["choice"] => sens'["choice"]
      /\ a = "failed" => sens'["choice"]
  BY <1>1 DEF Widgets
<1>5. LookType' /\ DeviceType'
  BY <1>1, <1>2, <1>4 DEF IndInv, Types, DeviceType, LookType, list
<1>6. FrameOK(f, bare', opens')
  BY <1>3 DEF FrameOK
<1> HIDE DEF f
<1>7. /\ Types' /\ StackInv' /\ ListInv' /\ ChoiceInv' /\ TopAt' = f.at /\ Top' = f
      /\ UNCHANGED <<monlist, gen, connected, active, currentid, nextid, locked, running, events>>
  BY <1>2, <1>3, <1>4, <1>5, <1>6, GoesOn DEF Combo
<1>8. /\ TopAt' \notin Alone \cup Waiting \cup Building \cup {"failed", "probing", "opening", "nomonitor"}
      /\ TopAt \notin Waiting \cup Building \cup {"probing", "opening", "nomonitor", "walk", "applying"}
  BY <1>1, <1>3, <1>7 DEF Building, Waiting, Alone
<1>9. QuietInv' /\ TurnInv'
  BY <1>8 DEF QuietInv, TurnInv
<1>10. DeviceInv'
  BY <1>2, <1>7, <1>8 DEF IndInv, DeviceInv
<1>11. ShownInv'
  BY <1>2, <1>7, <1>8 DEF IndInv, ShownInv
<1>12. StuckInv'
  BY <1>1, <1>2, <1>4, <1>7, <1>8 DEF IndInv, StuckInv
<1>13. CountInv'
  BY <1>1, <1>2, <1>7, <1>8 DEF IndInv, CountInv, Begun, Due
<1>14. QED
  BY <1>7, <1>9, <1>10, <1>11, <1>12, <1>13 DEF IndInv

LEMMA AfterWarningInv == ASSUME IndInv, AfterWarning PROVE IndInv'
BY TurnEnds DEF AfterWarning

LEMMA AfterFailureInv == ASSUME IndInv, AfterFailure PROVE IndInv'
BY TurnEnds DEF AfterFailure

\* What holds whatever a handler does to the look when it returns.
LEMMA Back ==
  ASSUME IndInv, NEW a, At(a), a # "none", a # "probing", a # "opening", a \notin Building,
         stack' = Outer, UNCHANGED <<list, active, currentid, nextid, device, running, events>>,
         LookType', locked' \in BOOLEAN, locked' <=> locked /\ a \notin Combo,
         sens'["combo"] <=> ~locked', ~locked' => currentid = nextid
  PROVE  /\ Types' /\ StackInv' /\ QuietInv' /\ ListInv' /\ ChoiceInv' /\ TurnInv'
         /\ DeviceInv' /\ CountInv' /\ TopAt' \notin Alone \cup Waiting /\ TopAt = a /\ running
         /\ FrameOK(Top, bare, opens)
         /\ UNCHANGED <<monlist, gen, currentid, nextid, mon, bare, controls, manager, running>>
<1>1. UNCHANGED <<monlist, gen, connected, active, currentid, nextid, mon, opens, handles, bare,
                  controls, manager, running, events>>
  BY DEF list, device
<1>2. /\ running /\ TopAt = a /\ FrameOK(Top, bare, opens)
      /\ StackOK(stack', bare', opens') /\ TopAt' \notin Alone
      /\ HasCombo(stack') <=> HasCombo(stack) /\ a \notin Combo
  BY <1>1, Returns DEF IndInv
<1>3. TopAt' \notin Alone \cup Waiting \cup Building \cup {"failed", "probing", "opening", "nomonitor"}
  BY <1>2 DEF Alone, Waiting, Building
<1>4. Types'
  <2>1. stack' \in Seq(Frame)
    BY <1>2 DEF StackOK
  <2>2. ChoiceType'
    BY <1>1 DEF IndInv, Types, ChoiceType
  <2>3. QED
    BY <1>1, <2>1, <2>2 DEF IndInv, Types, ListType, DeviceType
<1>5. StackInv' /\ QuietInv' /\ ListInv'
  BY <1>1, <1>2, <1>3 DEF IndInv, StackInv, QuietInv, ListInv
<1>6. ChoiceInv' /\ TurnInv'
  BY <1>1, <1>2, <1>3 DEF IndInv, ChoiceInv, TurnInv
<1>7. DeviceInv'
  BY <1>1, <1>2, <1>3 DEF IndInv, DeviceInv
<1>8. CountInv'
  <2>1. opens \in Nat /\ events \in Nat /\ gen \in Nat
    BY Here
  <2>2. QED
    BY <1>1, <1>2, <1>3, <2>1 DEF IndInv, CountInv, Begun, Due
<1>9. QED
  BY <1>1, <1>2, <1>3, <1>4, <1>5, <1>6, <1>7, <1>8

LEMMA NotFoundReturnsInv == ASSUME IndInv, NotFoundReturns PROVE IndInv'
<1>1. /\ At("nomonitor") /\ stack' = Outer /\ locked' = locked
      /\ UNCHANGED <<list, active, currentid, nextid, device, running, events>>
      /\ UNCHANGED <<component, message, sens>>
  BY DEF NotFoundReturns, choice, look
<1>2. TopAt = "nomonitor" /\ running
  BY <1>1, Here
<1>3. LookType' /\ locked' \in BOOLEAN
  BY <1>1 DEF IndInv, Types, LookType, ChoiceType
<1>4. (sens'["combo"] <=> ~locked') /\ (~locked' => currentid = nextid)
  BY <1>1, <1>2 DEF IndInv, StackInv, ChoiceInv
<1>5. /\ Types' /\ StackInv' /\ QuietInv' /\ ListInv' /\ ChoiceInv' /\ TurnInv'
      /\ DeviceInv' /\ CountInv' /\ UNCHANGED <<currentid, running>>
  BY <1>1, <1>3, <1>4, Back DEF Building, Combo
<1>6. currentid = -1 /\ message = "nomonitor"
  BY <1>2 DEF IndInv, ChoiceInv, QuietInv
<1>7. ShownInv' /\ StuckInv'
  <2>1. ~(-1 >= 0)
    OBVIOUS
  <2>2. QED
    BY <1>1, <1>5, <1>6, <2>1 DEF ShownInv, StuckInv
<1>8. QED
  BY <1>5, <1>7 DEF IndInv

LEMMA DoneInv == ASSUME IndInv, Done PROVE IndInv'
<1>1. /\ At("loop") /\ stack' = Outer /\ locked' = FALSE /\ currentid = nextid
      /\ sens' = [sens EXCEPT !["combo"] = TRUE]
      /\ UNCHANGED <<list, active, currentid, nextid, device, running, events>>
      /\ UNCHANGED <<component, message>>
  BY DEF Done
<1>2. /\ TopAt = "loop" /\ running /\ sens \in [Widgets -> BOOLEAN]
      /\ component \in {0, 1} /\ message \in Messages
  BY <1>1, Here
<1>3. sens' \in [Widgets -> BOOLEAN] /\ sens'["combo"] /\ sens'["choice"] = sens["choice"]
  BY <1>1, <1>2 DEF Widgets
<1>4. LookType' /\ locked' \in BOOLEAN
  BY <1>1, <1>2, <1>3 DEF LookType
<1>5. /\ Types' /\ StackInv' /\ QuietInv' /\ ListInv' /\ ChoiceInv' /\ TurnInv'
      /\ DeviceInv' /\ CountInv' /\ TopAt' \notin Alone \cup Waiting
      /\ UNCHANGED <<monlist, gen, currentid, nextid, mon, bare, controls, manager, running>>
  BY <1>1, <1>3, <1>4, Back DEF Building, Combo
<1>6. TopAt \notin Waiting \cup {"walk", "applying", "failed"}
  BY <1>2 DEF Waiting
<1>7. ShownInv'
  BY <1>1, <1>5, <1>6 DEF IndInv, ShownInv
<1>8. StuckInv'
  BY <1>1, <1>3, <1>5, <1>6 DEF IndInv, StuckInv
<1>9. QED
  BY <1>5, <1>7, <1>8 DEF IndInv

LEMMA WalkEndsInv == ASSUME IndInv, WalkEnds PROVE IndInv'
<1>1. /\ At("walk") /\ Sound /\ stack' = Outer /\ locked' = locked /\ message' = "none"
      /\ component' = (IF Top.applies THEN 0 ELSE component)
      /\ sens' = [IF Top.applies THEN Component(Restored(sens), 0) ELSE Restored(sens)
                  EXCEPT !["refresh"] = TRUE]
      /\ UNCHANGED <<list, active, currentid, nextid, device, running, events>>
  BY DEF WalkEnds, choice
<1>2. /\ TopAt = "walk" /\ running /\ sens \in [Widgets -> BOOLEAN]
      /\ component \in {0, 1} /\ message \in Messages
  BY <1>1, Here
<1>3. sens' \in [Widgets -> BOOLEAN] /\ sens'["combo"] = sens["combo"] /\ sens'["choice"]
  <2>1. CASE Top.applies
    <3>1. sens' = [Component(Restored(sens), 0) EXCEPT !["refresh"] = TRUE]
      BY <1>1, <2>1
    <3>2. QED
      BY <1>2, <3>1 DEF Component, Restored, SetSensitive, Widgets
  <2>2. CASE ~Top.applies
    <3>1. sens' = [Restored(sens) EXCEPT !["refresh"] = TRUE]
      BY <1>1, <2>2
    <3>2. QED
      BY <1>2, <3>1 DEF Restored, SetSensitive, Widgets
  <2>3. QED
    BY <2>1, <2>2
<1>4. LookType' /\ locked' \in BOOLEAN
  BY <1>1, <1>2, <1>3 DEF IndInv, Types, ChoiceType, LookType, Messages
<1>5. (sens'["combo"] <=> ~locked') /\ (~locked' => currentid = nextid)
  BY <1>1, <1>2, <1>3 DEF IndInv, StackInv, ChoiceInv
<1>6. /\ Types' /\ StackInv' /\ QuietInv' /\ ListInv' /\ ChoiceInv' /\ TurnInv'
      /\ DeviceInv' /\ CountInv' /\ TopAt' \notin Alone \cup Waiting
      /\ FrameOK(Top, bare, opens)
      /\ UNCHANGED <<monlist, gen, currentid, nextid, mon, bare, controls, manager, running>>
  BY <1>1, <1>4, <1>5, Back DEF Building, Combo
<1>7. manager # NULL
  <2>1. Top.at = "walk" /\ controls = Top.of
    BY <1>1 DEF At, Sound
  <2>2. controls # 0
    BY <1>6, <2>1 DEF FrameOK
  <2>3. QED
    BY <1>2, <2>2 DEF IndInv, DeviceInv, Building
<1>8. ShownInv' /\ StuckInv'
  BY <1>2, <1>3, <1>6, <1>7 DEF IndInv, ShownInv, StuckInv
<1>9. QED
  BY <1>6, <1>8 DEF IndInv

\* A profile is applied to the monitor of the manager.
LEMMA Applying ==
  ASSUME IndInv, At("applying"), Sound
  PROVE  manager # NULL
<1>1. /\ TopAt = "applying" /\ running /\ FrameOK(Top, bare, opens)
  BY Here
<1>2. Top.at = "applying" /\ mon # NULL /\ mon.id = Top.of
  BY DEF At, Sound
<1>3. mon.id \notin bare
  BY <1>1, <1>2 DEF FrameOK
<1>4. QED
  BY <1>1, <1>2, <1>3 DEF IndInv, DeviceInv, Building

LEMMA ApplyStopsInv == ASSUME IndInv, ApplyStops PROVE IndInv'
<1>1. /\ At("applying") /\ Sound /\ stack' = Outer /\ locked' = locked /\ message' = message
      /\ component' = 0 /\ sens' = Component(sens, 0) /\ controls = 0
      /\ UNCHANGED <<list, active, currentid, nextid, device, running, events>>
  BY DEF ApplyStops, choice
<1>2. /\ TopAt = "applying" /\ running /\ sens \in [Widgets -> BOOLEAN] /\ message \in Messages
  BY <1>1, Here
<1>3. sens' \in [Widgets -> BOOLEAN] /\ sens'["combo"] = sens["combo"] /\ sens'["choice"] = sens["choice"]
  BY <1>1, <1>2, SensFacts
<1>4. LookType' /\ locked' \in BOOLEAN
  BY <1>1, <1>2, <1>3 DEF IndInv, Types, ChoiceType, LookType
<1>5. (sens'["combo"] <=> ~locked') /\ (~locked' => currentid = nextid)
  BY <1>1, <1>2, <1>3 DEF IndInv, StackInv, ChoiceInv
<1>6. /\ Types' /\ StackInv' /\ QuietInv' /\ ListInv' /\ ChoiceInv' /\ TurnInv'
      /\ DeviceInv' /\ CountInv' /\ TopAt' \notin Alone \cup Waiting
      /\ UNCHANGED <<monlist, gen, currentid, nextid, mon, bare, controls, manager, running>>
  BY <1>1, <1>4, <1>5, Back DEF Building, Combo
<1>7. ShownInv' /\ StuckInv'
  BY <1>1, <1>2, <1>3, <1>6, Applying DEF IndInv, ShownInv, StuckInv
<1>8. QED
  BY <1>6, <1>7 DEF IndInv

LEMMA ApplyWalksInv == ASSUME IndInv, ApplyWalks PROVE IndInv'
<1>1. /\ At("applying") /\ Sound /\ controls # 0 /\ Shows("progress", sens)
      /\ stack' = Append(Outer, Called("walk", controls, TRUE))
      /\ UNCHANGED <<mon, opens, handles, bare, controls, manager>>
      /\ UNCHANGED <<list, choice, running, events>>
  BY DEF ApplyWalks, device
<1>2. /\ running /\ TopAt = "applying" /\ opens \in Nat /\ events \in Nat /\ gen \in Nat
  BY <1>1, Here
<1>3. manager # NULL
  BY <1>1, Applying
<1>4. controls \in Nat
  BY <1>2 DEF IndInv, Types, DeviceType
<1> DEFINE f == Called("walk", controls, TRUE)
<1>5. f \in Frame /\ f.at = "walk" /\ f.of = controls
  BY <1>4 DEF Called, Frame
<1>6. stack' = Append(Outer, f) /\ FrameOK(f, bare', opens')
  BY <1>1, <1>5 DEF FrameOK
<1>7. /\ LookType' /\ message' = "progress" /\ sens'["combo"] = sens["combo"]
      /\ ~sens'["choice"] /\ ~sens'["refresh"] /\ ~sens'["profiles"]
  BY <1>1, ShowsFacts DEF Messages
<1>8. DeviceType'
  BY <1>1 DEF IndInv, Types, DeviceType, list
<1> HIDE DEF f
<1>9. /\ "applying" \in Combo <=> f.at \in Combo
      /\ StackOK(Outer, bare, opens) => StackOK(Outer, bare', opens')
  BY <1>1, <1>5 DEF Combo
<1>10. /\ Types' /\ StackInv' /\ ListInv' /\ ChoiceInv' /\ TopAt' = f.at /\ Top' = f
       /\ UNCHANGED <<monlist, gen, connected, active, currentid, nextid, locked, running, events>>
  BY <1>1, <1>5, <1>6, <1>7, <1>8, <1>9, GoesOn
<1>11. QuietInv' /\ TurnInv'
  BY <1>5, <1>10 DEF QuietInv, TurnInv, Alone, Waiting, Building
<1>12. DeviceInv'
  BY <1>1, <1>2, <1>3, <1>5, <1>10 DEF IndInv, DeviceInv, Building
<1>13. ShownInv' /\ StuckInv'
  BY <1>1, <1>2, <1>3, <1>5, <1>7, <1>10 DEF IndInv, ShownInv, StuckInv
<1>14. CountInv'
  BY <1>1, <1>2, <1>5, <1>10 DEF IndInv, CountInv, Begun, Due
<1>15. QED
  BY <1>10, <1>11, <1>12, <1>13, <1>14 DEF IndInv

LEMMA NextTurnInv == ASSUME IndInv, NextTurn PROVE IndInv'
<1>1. /\ At("loop") /\ currentid # nextid /\ Turn(nextid, monlist, gen, sens, Outer)
      /\ UNCHANGED <<monlist, gen, connected, active, nextid, locked, running, events>>
  BY DEF NextTurn, list
<1>2. /\ running /\ TopAt = "loop" /\ sens \in [Widgets -> BOOLEAN]
      /\ opens \in Nat /\ events \in Nat /\ gen \in Nat
  BY <1>1, Here
<1>3. StackOK(stack, bare, opens)
  BY DEF IndInv, StackInv
<1>4. StackOK(Outer, bare, opens) /\ TopOf(Outer) \notin Alone /\ ~HasCombo(Outer)
  BY <1>1, <1>3, PopStep DEF Combo
<1>5. locked /\ locked = TRUE /\ ~sens["combo"]
  <2>1. locked
    BY <1>1, <1>2 DEF IndInv, ChoiceInv
  <2>2. QED
    BY <2>1 DEF IndInv, Types, ChoiceType, StackInv
<1>6. /\ nextid \in -1 .. 1 /\ currentid \in -1 .. 1 /\ nextid < Len(monlist)
      /\ (nextid = -1 => currentid = -1) /\ active = nextid
  BY <1>2 DEF IndInv, Types, ChoiceType, ChoiceInv
<1>7. nextid \in 0 .. 1
  BY <1>1, <1>6
<1>8. monlist # <<>>
  BY <1>6, <1>7, EmptySeq DEF IndInv, ListInv
<1>9. gen >= 1
  BY <1>8 DEF IndInv, ListInv
<1>10. ListInv' /\ ListType' /\ events' \in 0 .. MaxEvents
  BY <1>1 DEF IndInv, Types, ListInv, ListType
<1>11. gen' <= events' + 1 /\ opens <= events'
  <2>1. Due = 1 /\ Begun = 0
    BY <1>1, <1>2 DEF Due, Begun
  <2>2. opens + Begun + Due <= events + 1 /\ gen <= events + 1
    BY DEF IndInv, CountInv
  <2>3. QED
    BY <1>1, <1>2, <2>1, <2>2
<1>12. TopAt \notin Building
  BY <1>2 DEF Building
<1>13. active' = nextid /\ nextid' = nextid /\ locked' = TRUE /\ running' = running /\ gen = gen'
       /\ nextid < Len(monlist')
  BY <1>1, <1>5, <1>6
<1> DEFINE k == nextid
           o == Outer
<1>14. /\ k \in 0 .. 1 /\ active' = k /\ nextid' = k /\ Turn(k, monlist, gen, sens, o)
       /\ k < Len(monlist') /\ StackOK(o, bare, opens) /\ TopOf(o) \notin Alone /\ ~HasCombo(o)
  BY <1>1, <1>4, <1>7, <1>13
<1> HIDE DEF k, o
<1>15. QED
  BY <1>2, <1>5, <1>9, <1>10, <1>11, <1>12, <1>13, <1>14, TurnStep

-----------------------------------------------------------------------------
(* The end of probe_monitors.                                              *)

\* The list that is built anew.
LEMMA Entries ==
  ASSUME NEW e \in UNION {[1 .. n -> Entry] : n \in 1 .. 2}
  PROVE  /\ e \in Seq(Entry) /\ Len(e) \in 1 .. 2 /\ e \in UNION {[1 .. n -> Entry] : n \in 0 .. 2}
         /\ \A i \in DOMAIN e : e[i].dev \in Devices
<1>1. PICK n \in 1 .. 2 : e \in [1 .. n -> Entry]
  OBVIOUS
<1>2. n \in Nat /\ n \in 0 .. 2
  OBVIOUS
<1>3. e \in Seq(Entry)
  BY <1>1, <1>2, SeqDef
<1>4. Len(e) = n
  <2>1. Len(e) \in Nat /\ DOMAIN e = 1 .. Len(e) /\ DOMAIN e = 1 .. n
    BY <1>1, <1>3, LenProperties
  <2>2. QED
    BY <1>2, <2>1
<1>5. \A i \in DOMAIN e : e[i].dev \in Devices
  BY <1>1 DEF Entry
<1>6. e \in UNION {[1 .. m -> Entry] : m \in 0 .. 2}
  BY <1>1, <1>2
<1>7. QED
  BY <1>3, <1>4, <1>5, <1>6

LEMMA Probed ==
  ASSUME IndInv, At("probing"), gen' = gen + 1, UNCHANGED <<running, events>>
  PROVE  /\ running /\ TopAt = "probing" /\ gen' \in 0 .. (MaxEvents + 1) /\ gen' >= 1
         /\ gen' \in Nat /\ gen' <= events' + 1 /\ opens + Due <= events /\ events' \in 0 .. MaxEvents
         /\ opens \in Nat /\ events \in Nat /\ active = -1 /\ sens \in [Widgets -> BOOLEAN]
         /\ component \in {0, 1} /\ message \in Messages /\ Due \in {0, 1}
<1>1. /\ running /\ TopAt = "probing" /\ opens \in Nat /\ events \in Nat /\ gen \in Nat
      /\ sens \in [Widgets -> BOOLEAN] /\ component \in {0, 1} /\ message \in Messages
  BY Here
<1>2. gen <= events /\ events \in 0 .. MaxEvents
  BY <1>1 DEF IndInv, CountInv, Types
<1>3. opens + Due <= events /\ Due \in {0, 1}
  <2>1. Begun = 1 /\ Due \in {0, 1}
    BY <1>1 DEF Begun, Due
  <2>2. opens + Begun + Due <= events + 1
    BY DEF IndInv, CountInv
  <2>3. QED
    BY <1>1, <2>1, <2>2
<1>4. active = -1
  BY <1>1 DEF IndInv, ChoiceInv
<1>5. QED
  BY <1>1, <1>2, <1>3, <1>4, Bounds

LEMMA FoundInv == ASSUME IndInv, Found PROVE IndInv'
<1>1. /\ At("probing") /\ gen' = gen + 1 /\ connected' = TRUE /\ UNCHANGED <<running, events>>
      /\ monlist' \in UNION {[1 .. n -> Entry] : n \in 1 .. 2}
      /\ ComboChange(0, -1, monlist', gen', SetSensitive(sens, TRUE), Outer)
  BY DEF Found
<1>2. /\ running /\ TopAt = "probing" /\ gen' \in 0 .. (MaxEvents + 1) /\ gen' >= 1
      /\ gen' \in Nat /\ gen' <= events' + 1 /\ opens + Due <= events /\ events' \in 0 .. MaxEvents
      /\ opens \in Nat /\ events \in Nat /\ active = -1 /\ sens \in [Widgets -> BOOLEAN]
      /\ component \in {0, 1} /\ message \in Messages /\ Due \in {0, 1}
  BY <1>1, Probed
<1>3. /\ monlist' \in Seq(Entry) /\ Len(monlist') \in 1 .. 2
      /\ monlist' \in UNION {[1 .. n -> Entry] : n \in 0 .. 2}
      /\ \A i \in DOMAIN monlist' : monlist'[i].dev \in Devices
  BY <1>1, Entries
<1>4. ListType' /\ ListInv'
  BY <1>1, <1>2, <1>3 DEF ListType, ListInv
<1>5. /\ active' = 0 /\ nextid' = 0 /\ locked' = TRUE
  BY <1>1 DEF ComboChange
<1> DEFINE r == Restored(sens)
<1>6. /\ r = SetSensitive(sens, TRUE) /\ r \in [Widgets -> BOOLEAN] /\ r["choice"]
      /\ r["combo"] = sens["combo"]
  BY <1>2, SensFacts DEF Restored
<1> HIDE DEF r
<1>7. StackOK(stack, bare, opens)
  BY DEF IndInv, StackInv
<1>8. CASE locked
  <2>1. /\ currentid' = -1 /\ sens' = r /\ stack' = Outer
        /\ UNCHANGED <<mon, opens, handles, bare, controls, manager, message, component>>
    BY <1>1, <1>6, <1>8 DEF ComboChange, device
  <2>2. /\ StackOK(stack', bare', opens') /\ TopAt' \notin Alone
        /\ HasCombo(stack') <=> HasCombo(stack)
    BY <1>1, <2>1, Returns DEF IndInv, Combo
  <2>3. TopAt' \notin Alone \cup Waiting \cup Building \cup {"failed", "probing", "opening", "nomonitor"}
    BY <2>2 DEF Alone, Waiting, Building
  <2>4. -1 \in -1 .. 1 /\ 0 \in -1 .. 1 /\ TRUE \in BOOLEAN /\ ~(-1 >= 0) /\ -1 < 0
    OBVIOUS
  <2>5. ChoiceType'
    BY <1>5, <2>1, <2>4, ChoiceTyped
  <2>6. DeviceType'
    <3>1. \A g \in 1 .. gen : g \in 1 .. gen'
      BY <1>1, <1>2 DEF IndInv, Types, ListType
    <3>2. manager' \in [id : 1 .. opens, dev : Devices, gen : 1 .. gen'] \cup {NULL}
      BY <2>1, <3>1 DEF IndInv, Types, DeviceType
    <3>3. QED
      BY <2>1, <3>2 DEF IndInv, Types, DeviceType
  <2>7. LookType'
    BY <1>2, <1>6, <2>1 DEF LookType
  <2>8. Types'
    <3>1. stack' \in Seq(Frame)
      BY <2>2 DEF StackOK
    <3>2. QED
      BY <1>1, <1>2, <1>4, <2>5, <2>6, <2>7, <3>1 DEF IndInv, Types
  <2>9. StackInv' /\ QuietInv'
    BY <1>5, <1>6, <1>8, <2>1, <2>2, <2>3 DEF IndInv, StackInv, QuietInv
  <2>10. ChoiceInv' /\ TurnInv'
    <3>1. -1 < Len(monlist') /\ 0 < Len(monlist') /\ 0 # -1
      BY <1>3
    <3>2. QED
      BY <1>5, <2>1, <2>3, <3>1 DEF ChoiceInv, TurnInv
  <2>11. DeviceInv'
    BY <1>1, <1>2, <2>1, <2>3 DEF IndInv, DeviceInv, Building
  <2>12. ShownInv' /\ StuckInv'
    BY <1>6, <2>1, <2>4 DEF ShownInv, StuckInv
  <2>13. CountInv'
    <3>1. Begun' = 0 /\ Due' \in {0, 1}
      BY <2>3 DEF Begun, Due
    <3>2. events' = events /\ opens' = opens /\ opens <= events
      BY <1>1, <1>2, <2>1
    <3>3. opens' + Begun' + Due' <= events' + 1
      <4>1. ASSUME NEW e \in Nat, NEW o \in Nat, o <= e, NEW d \in {0, 1} PROVE o + 0 + d <= e + 1
        BY <4>1
      <4>2. QED
        BY <1>2, <3>1, <3>2, <4>1
    <3>4. QED
      BY <1>2, <2>3, <3>3 DEF CountInv
  <2>14. QED
    BY <1>4, <2>8, <2>9, <2>10, <2>11, <2>12, <2>13 DEF IndInv
<1>9. CASE ~locked
  <2> DEFINE s == [r EXCEPT !["combo"] = FALSE]
  <2>1. Turn(0, monlist', gen', s, Outer)
    BY <1>1, <1>6, <1>9 DEF ComboChange
  <2>2. s \in [Widgets -> BOOLEAN] /\ ~s["combo"]
    BY <1>6 DEF Widgets
  <2> HIDE DEF s
  <2>3. StackOK(Outer, bare, opens) /\ TopOf(Outer) \notin Alone /\ ~HasCombo(Outer)
    BY <1>1, <1>7, <1>9, PopStep DEF IndInv, StackInv
  <2>4. TopAt \notin Building /\ 0 \in 0 .. 1 /\ 0 < Len(monlist') /\ opens <= events'
    BY <1>1, <1>2, <1>3 DEF Building
  <2>5. running' = running
    BY <1>1
  <2>6. QED
    BY <1>2, <1>4, <1>5, <2>1, <2>2, <2>3, <2>4, <2>5, TurnStep
<1>10. QED
  BY <1>8, <1>9

LEMMA NotFoundInv == ASSUME IndInv, NotFound PROVE IndInv'
<1>1. /\ At("probing") /\ gen' = gen + 1 /\ connected' = TRUE /\ UNCHANGED <<running, events>>
      /\ monlist' = <<>> /\ currentid' = -1 /\ nextid' = -1 /\ Shows("nomonitor", sens)
      /\ stack' = Append(Outer, Called("nomonitor", 0, FALSE))
      /\ UNCHANGED <<active, locked, mon, opens, handles, bare, controls, manager>>
  BY DEF NotFound, device
<1>2. /\ running /\ TopAt = "probing" /\ gen' \in 0 .. (MaxEvents + 1) /\ gen' >= 1
      /\ gen' \in Nat /\ gen' <= events' + 1 /\ opens + Due <= events /\ events' \in 0 .. MaxEvents
      /\ opens \in Nat /\ events \in Nat /\ active = -1 /\ sens \in [Widgets -> BOOLEAN]
      /\ component \in {0, 1} /\ message \in Messages /\ Due \in {0, 1}
  BY <1>1, Probed
<1> DEFINE f == Called("nomonitor", 0, FALSE)
<1>3. f \in Frame /\ f.at = "nomonitor"
  BY DEF Called, Frame
<1>4. stack' = Append(Outer, f) /\ FrameOK(f, bare', opens')
  BY <1>1, <1>3 DEF FrameOK
<1> HIDE DEF f
<1>5. /\ StackOK(stack', bare', opens') /\ TopAt' = f.at
      /\ HasCombo(stack') <=> HasCombo(stack)
  <2>1. /\ "probing" \in Combo <=> f.at \in Combo
        /\ StackOK(Outer, bare, opens) => StackOK(Outer, bare', opens')
    BY <1>1, <1>3 DEF Combo
  <2>2. QED
    BY <1>1, <1>3, <1>4, <2>1, Replace DEF IndInv
<1>6. /\ LookType' /\ message' = "nomonitor" /\ sens'["combo"] = sens["combo"]
      /\ ~sens'["choice"] /\ ~sens'["refresh"] /\ ~sens'["profiles"]
  BY <1>1, ShowsFacts DEF Messages
<1>7. -1 \in -1 .. 1 /\ ~(-1 >= 0) /\ -1 < 0
  OBVIOUS
<1>8. ListType' /\ ListInv'
  <2>1. monlist' \in [1 .. 0 -> Entry]
    BY <1>1
  <2>2. monlist' \in UNION {[1 .. n -> Entry] : n \in 0 .. 2}
    BY <2>1
  <2>3. QED
    BY <1>1, <1>2, <2>2 DEF ListType, ListInv
<1>9. ChoiceType'
  BY <1>1, <1>2, <1>7 DEF IndInv, Types, ChoiceType
<1>10. DeviceType'
  <2>1. \A g \in 1 .. gen : g \in 1 .. gen'
    BY <1>1, <1>2 DEF IndInv, Types, ListType
  <2>2. manager' \in [id : 1 .. opens, dev : Devices, gen : 1 .. gen'] \cup {NULL}
    BY <1>1, <2>1 DEF IndInv, Types, DeviceType
  <2>3. QED
    BY <1>1, <2>2 DEF IndInv, Types, DeviceType
<1>11. Types'
  <2>1. stack' \in Seq(Frame)
    BY <1>5 DEF StackOK
  <2>2. QED
    BY <1>1, <1>2, <1>6, <1>8, <1>9, <1>10, <2>1 DEF IndInv, Types
<1>12. StackInv' /\ QuietInv'
  BY <1>1, <1>3, <1>5, <1>6 DEF IndInv, StackInv, QuietInv, Waiting
<1>13. ChoiceInv' /\ TurnInv'
  <2>1. Len(monlist') = 0
    BY <1>1, EmptySeq
  <2>2. QED
    BY <1>1, <1>2, <1>3, <1>5, <1>7, <2>1 DEF ChoiceInv, TurnInv, Building
<1>14. DeviceInv'
  BY <1>1, <1>2, <1>3, <1>5 DEF IndInv, DeviceInv, Building
<1>15. ShownInv' /\ StuckInv'
  BY <1>1, <1>6, <1>7 DEF ShownInv, StuckInv
<1>16. CountInv'
  <2>1. Begun' = 0 /\ Due' = 0
    BY <1>1, <1>3, <1>5 DEF Begun, Due
  <2>2. opens' + Begun' + Due' <= events' + 1
    BY <1>1, <1>2, <2>1
  <2>3. QED
    BY <1>2, <1>3, <1>5, <2>2 DEF CountInv
<1>17. QED
  BY <1>8, <1>11, <1>12, <1>13, <1>14, <1>15, <1>16 DEF IndInv

-----------------------------------------------------------------------------
(* The theorems.                                                           *)

LEMMA NextInv == IndInv /\ [Next]_vars => IndInv'
<1> SUFFICES ASSUME IndInv, [Next]_vars PROVE IndInv'
  OBVIOUS
<1>1. CASE Event
  BY <1>1, ProbeInv, WindowMovedInv, RefreshInv, ApplyInv, SelectInv, ShowProfilesInv,
     CloseProfilesInv, DismissInv, QuitInv DEF Event
<1>2. CASE Continue
  BY <1>2, FoundInv, NotFoundInv, NotFoundReturnsInv, OpenFailsInv, OpenBareInv, OpenProfileInv,
     GetControlsInv, BuiltInv, AfterWarningInv, AfterFailureInv, NextTurnInv, DoneInv,
     WalkEndsInv, ApplyWalksInv, ApplyStopsInv DEF Continue
<1>3. CASE UNCHANGED vars
  <2>1. UNCHANGED <<monlist, gen, connected, active, currentid, nextid, locked,
                    mon, opens, handles, bare, controls, manager,
                    component, message, sens, stack, running, events>>
    BY <1>3 DEF vars, list, choice, device, look
  <2>2. TopAt' = TopAt /\ Top' = Top /\ HasCombo(stack') = HasCombo(stack)
        /\ StackOK(stack', bare', opens') = StackOK(stack, bare, opens)
    BY <2>1 DEF TopAt, Top
  <2>3. Types' /\ StackInv' /\ QuietInv' /\ ListInv'
    BY <2>1, <2>2 DEF IndInv, Types, ListType, ChoiceType, DeviceType, LookType, StackInv, QuietInv, ListInv
  <2>4. ChoiceInv' /\ TurnInv' /\ DeviceInv' /\ ShownInv' /\ StuckInv' /\ CountInv'
    BY <2>1, <2>2 DEF IndInv, ChoiceInv, TurnInv, DeviceInv, ShownInv, StuckInv, CountInv, Begun, Due
  <2>5. QED
    BY <2>3, <2>4 DEF IndInv
<1>4. QED
  BY <1>1, <1>2, <1>3 DEF Next

\* Everything the handlers of the window rely on holds in every state.
THEOREM Invariance == Spec => []IndInv
BY InitInv, NextInv, PTL DEF Spec

LEMMA IdleTop == ASSUME Idle PROVE running /\ stack = <<>> /\ TopAt = "none"
BY DEF Idle, TopAt, TopOf

\* When no handler is under way, the window shows the monitor that is chosen,
\* of the list that is shown, or a message in its place.
THEOREM ShowsTheChosen == Spec => []ChosenIsShown
<1>1. IndInv => ChosenIsShown
  <2> SUFFICES ASSUME IndInv, Idle
               PROVE  /\ ~locked /\ sens["combo"]
                      /\ active = nextid /\ currentid = nextid
                      /\ currentid >= 0 =>
                           \/ manager # NULL /\ manager.gen = gen
                              /\ manager.dev = monlist[currentid + 1].dev
                           \/ manager = NULL /\ message \in {"retry", "noprofile"}
    BY DEF ChosenIsShown
  <2>1. running /\ stack = <<>> /\ TopAt = "none" /\ TopAt \notin Waiting
    BY IdleTop DEF Waiting
  <2>2. ~HasCombo(stack)
    BY <2>1 DEF HasCombo
  <2>3. ~locked /\ sens["combo"]
    BY <2>2 DEF IndInv, StackInv
  <2>4. active = nextid /\ currentid = nextid
    BY <2>1, <2>3 DEF IndInv, ChoiceInv
  <2>5. QED
    BY <2>1, <2>3, <2>4 DEF IndInv, ShownInv
<1>2. QED
  BY <1>1, Invariance, PTL

\* The widgets of the manager act on the monitor they were built for, and a
\* monitor that is replaced is closed, if it had a manager.
THEOREM WidgetsActOnTheirMonitor == Spec => []OpenOwned
<1>1. IndInv => OpenOwned
  BY DEF IndInv, DeviceInv, OpenOwned
<1>2. QED
  BY <1>1, Invariance, PTL

\* create_monitor_manager never goes on with an entry of a list that
\* probe_monitors has freed, and the assertion of combo_change holds.
THEOREM EntriesStayLive == Spec => []EntriesLive
<1>1. IndInv => EntriesLive
  <2> SUFFICES ASSUME IndInv PROVE EntriesLive
    OBVIOUS
  <2>1. TypeOK
    BY DEF IndInv, Types, ListType, ChoiceType, DeviceType, LookType, TypeOK
  <2>2. \A i \in DOMAIN stack :
          stack[i].at \in {"opening", "getting", "loading"} => stack[i].of = gen
    <3> SUFFICES ASSUME NEW i \in DOMAIN stack, stack[i].at \in {"opening", "getting", "loading"}
                 PROVE  stack[i].of = gen
      OBVIOUS
    <3>1. i = Len(stack) /\ stack # <<>>
      BY DEF IndInv, StackInv, StackOK, Alone
    <3>2. Top = stack[i] /\ TopAt = stack[i].at
      BY <3>1 DEF Top, TopAt, TopOf
    <3>3. QED
      BY <3>2 DEF IndInv, TurnInv, Building
  <2>3. ASSUME At("loop"), currentid # nextid PROVE nextid \in 0 .. (Len(monlist) - 1)
    <3>1. running
      BY <2>3 DEF At
    <3>2. /\ nextid \in -1 .. 1 /\ currentid \in -1 .. 1 /\ nextid < Len(monlist)
          /\ (nextid = -1 => currentid = -1) /\ Len(monlist) \in Nat
      BY <3>1 DEF IndInv, Types, ChoiceType, ChoiceInv, ListInv
    <3>3. QED
      BY <2>3, <3>2
  <2>4. QED
    BY <2>1, <2>2, <2>3 DEF EntriesLive
<1>2. QED
  BY <1>1, Invariance, PTL

\* No sequence of handlers leaves the window behind a message for good.
THEOREM WindowNeverStuck == Spec => []NeverStuck
<1>1. IndInv => NeverStuck
  <2> SUFFICES ASSUME IndInv, Idle
               PROVE  \/ sens["choice"]
                      \/ message \in {"warning", "nomonitor"}
                      \/ message = "progress" /\ controls = 0
    BY DEF NeverStuck
  <2>1. running /\ TopAt = "none"
    BY IdleTop
  <2>2. QED
    BY <2>1 DEF IndInv, StuckInv, Waiting
<1>2. QED
  BY <1>1, Invariance, PTL

=============================================================================
