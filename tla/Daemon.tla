------------------------------- MODULE Daemon -------------------------------
(***************************************************************************)
(* The D-Bus daemon (src/src/daemon/service.c) and the clients of its      *)
(* library (src/src/daemon/dbus_client.c).                                 *)
(*                                                                         *)
(* The daemon is one thread: a handler runs from the call to the reply.    *)
(* Between two calls of one client the other clients' calls are served,    *)
(* monitors are plugged and unplugged and symbolic links in /dev change.   *)
(* A client's call may fail although the daemon served it (the bus drops   *)
(* the reply after its timeout).                                           *)
(***************************************************************************)
EXTENDS ProfileSelect, FiniteSets

CONSTANTS
  Nodes,         \* i2c device files, which ddcci_probe looks at
  Aliases,       \* symbolic links to them that a client may name
  Monitors,      \* monitors; a monitor is its PnP ID
  NoMonitor,     \* nothing is attached, or no EDID was read
  Samsung,       \* the monitors whose PnP ID starts with SAM
  Typed,         \* those whose capabilities say type(lcd) or type(crt)
  DaemonDb,      \* the database the daemon pinned when it started, and
  ClientDb,      \* the one a client loaded later: [Monitors -> Database]
  Clients,
  MaxPlugs,      \* bound: changes of what is attached
  MaxFailed      \* bound: failed DISABLE writes per device

ASSUME DaemonAssumption ==
  /\ NoMonitor \notin Monitors
  /\ Samsung \subseteq Monitors /\ Typed \subseteq Monitors
  /\ Nodes \cap Aliases = {}
  /\ DaemonDb \in [Monitors -> Database] /\ ClientDb \in [Monitors -> Database]
  /\ MaxPlugs \in Nat /\ MaxFailed \in Nat

VARIABLES
  here,      \* the monitor attached to each device
  target,    \* where each alias points
  plugs,     \* changes of here so far
  scanned,   \* open_monitors != NULL
  listed,    \* devices: what the last probe found
  slot,      \* per device: monitor_open, monitor_ret and the struct monitor
  fds,       \* file descriptors the daemon holds on each device
  failed,    \* DISABLE writes that failed in ddcci_close, per device (history)
  client,    \* what each client's ddcci_dbus_open has got so far
  moved      \* clients whose device or table changed under their
             \* ddcci_dbus_open (history)

vars == <<here, target, plugs, scanned, listed, slot, fds, failed, client, moved>>
world == <<here, target, plugs>>
daemon == <<scanned, listed, slot, fds, failed>>

One(b) == IF b THEN 1 ELSE 0

-----------------------------------------------------------------------------
(* ddcci_open and ddcci_close as the daemon sees them.                     *)

Opened(ret, fd, mon, choice, caps) ==
  [open |-> TRUE, ret |-> ret, fd |-> fd, mon |-> mon,
   db |-> choice.db, fallback |-> choice.fallback, caps |-> caps]

\* monitor_open[i] = FALSE; the rest is uninitialised memory nobody reads.
Free == [open |-> FALSE, ret |-> 0, fd |-> FALSE, mon |-> NoMonitor,
         db |-> "none", fallback |-> 0, caps |-> FALSE]

\* mon->caps.type: whether there is a manufacturer profile to try.
Type(m, caps) == IF caps /\ m \in Typed THEN "lcd" ELSE "unk"

\* After the EDID was read: the profile, then the ENABLE or presence write.
Initialised(m, caps) ==
  LET choice == DirectSelect(DaemonDb[m], Type(m, caps), FALSE)
      slotOf(ret) == Opened(ret, TRUE, m, choice, caps)
  IN IF choice = Refused THEN {slotOf(-1)}
     ELSE IF choice.db # "samsung" /\ caps THEN {slotOf(0)}
     ELSE {slotOf(0), slotOf(-1)}

\* The results ddcci_open(n) may have: -3 leaves no descriptor, -2 does.
OpenResults(n) ==
  { Opened(-3, FALSE, NoMonitor, Choice("none", "none", 0), FALSE),
    Opened(-2, TRUE, NoMonitor, Choice("none", "none", 0), FALSE) }
  \cup IF here[n] = NoMonitor THEN {}
       ELSE UNION { Initialised(here[n], caps) : caps \in BOOLEAN }

\* ddcci_close writes DISABLE to a Samsung monitor first.
Disables(s) ==
  \/ s.db = "samsung"
  \/ s.db = "none" /\ s.fallback >= 0 /\ s.mon \in Samsung

\* Whether the DISABLE write fails: ddcci_close then returns at once, and
\* neither frees the structure nor closes the descriptor.
CloseFails(s) == IF s.open /\ s.fd /\ Disables(s) THEN BOOLEAN ELSE {FALSE}

-----------------------------------------------------------------------------
(* service.c                                                               *)

\* ddcci_probe_device: opens the device, lists it if there is an EDID, and
\* closes it again.
ProbeResults(n) ==
  UNION { { [found |-> o.ret > -2, held |-> f] : f \in CloseFails(o) } : o \in OpenResults(n) }

AllFree == [n \in Nodes |-> Free]

\* Variant of NewTable for a rescan that keeps the old entries.
TableKept == slot

\* The table after a rescan: monitor_open[i] = FALSE for every i.
NewTable == AllFree

\* The clients between the two calls of ddcci_dbus_open.
Midway == { c \in Clients : client[c].pc = "opened" }

\* What a rescan may meet on each device: whether closing the old structure
\* failed (shut), and what the probe found and left open (found, held).
Scan ==
  LET results == [n \in Nodes |-> CloseFails(slot[n]) \X ProbeResults(n)]
      pairs == { f \in [Nodes -> UNION { results[n] : n \in Nodes }] :
                   \A n \in Nodes : f[n] \in results[n] }
  IN { [n \in Nodes |-> [shut |-> f[n][1], found |-> f[n][2].found, held |-> f[n][2].held]] :
         f \in pairs }

\* Variant of Held for a rescan that forgets to close the open monitors.
HeldUnclosed(scan) == [n \in Nodes |-> fds[n] + One(scan[n].held)]

\* The descriptors held after a rescan.
Held(scan) ==
  [n \in Nodes |-> fds[n] - One(slot[n].open /\ slot[n].fd /\ ~scan[n].shut)
                         + One(scan[n].held)]

\* rescan_monitors: close what is open, probe, and start an empty table; a
\* failed allocation leaves no table at all.
Rescan(scan) ==
  /\ failed' = [n \in Nodes |-> failed[n] + One(scan[n].shut) + One(scan[n].held)]
  /\ \A n \in Nodes : failed'[n] <= MaxFailed
  /\ moved' = moved \cup Midway
  /\ \/ scanned' = TRUE /\ listed' = { n \in Nodes : scan[n].found }
     \/ scanned' = FALSE /\ listed' = {}

\* same_device: equal names, or names with the same real path.
Resolve(name) == IF name \in Nodes THEN name ELSE target[name]

\* Variant of OpenSlot that closes the device and opens it again for every call.
ReopenSlot(n, table, held) ==
  \E o \in OpenResults(n) :
    /\ slot' = [table EXCEPT ![n] = o]
    /\ fds' = [held EXCEPT ![n] = @ - One(table[n].open /\ table[n].fd) + One(o.fd)]

\* open_monitor: open the device once, keep the result, good or bad.
OpenSlot(n, table, held) ==
  IF table[n].open
  THEN slot' = table /\ fds' = held
  ELSE \E o \in OpenResults(n) :
         /\ slot' = [table EXCEPT ![n] = o]
         /\ fds' = [held EXCEPT ![n] = @ + One(o.fd)]

\* can_open_device, then open_monitor: how every handler of one device
\* begins.  A device that is not listed costs a rescan before it is refused.
Reach(name) ==
  \/ /\ scanned /\ Resolve(name) \in listed
     /\ OpenSlot(Resolve(name), slot, fds)
     /\ UNCHANGED <<scanned, listed, failed, moved>>
  \/ /\ ~(scanned /\ Resolve(name) \in listed)
     /\ \E scan \in Scan :
          /\ Rescan(scan)
          /\ IF Resolve(name) \in listed'
             THEN OpenSlot(Resolve(name), NewTable, Held(scan))
             ELSE slot' = NewTable /\ fds' = Held(scan)

\* Variant of Reached without the second error reply.
ReachedUnchecked(name) == Resolve(name) \in listed'

\* The handler got past its two error replies.
Reached(name) == Resolve(name) \in listed' /\ slot'[Resolve(name)].ret >= 0

\* handle_rescan_monitors.
RescanMonitors ==
  /\ \E scan \in Scan : Rescan(scan) /\ fds' = Held(scan)
  /\ slot' = NewTable
  /\ UNCHANGED <<world, client>>

\* handle_get_monitors: rescans only when there is nothing to report.
GetMonitors ==
  /\ ~scanned \/ listed = {}
  /\ RescanMonitors

-----------------------------------------------------------------------------
(* dbus_client.c.  answered: the reply reached the client.                 *)

Idle == [pc |-> "idle", name |-> "none", pnp |-> NoMonitor, of |-> NoMonitor,
         caps |-> FALSE, choice |-> NoProfile]

\* ddcci_dbus_open, first call: the PnP ID and the capabilities.
OpenMonitor(c, name, answered) ==
  /\ client[c].pc = "idle"
  /\ Reach(name)
  /\ client' = IF Reached(name) /\ answered
               THEN LET s == slot'[Resolve(name)]
                    IN [client EXCEPT ![c] =
                          [pc |-> "opened", name |-> name, pnp |-> s.mon, of |-> s.mon,
                           caps |-> s.caps, choice |-> NoProfile]]
               ELSE client
  /\ UNCHANGED world

\* ddcci_dbus_open, second call and the rest: the EDID, whose PnP ID
\* overwrites the first one, and the profile.
GetEdid(c, answered) ==
  /\ client[c].pc = "opened"
  /\ Reach(client[c].name)
  /\ LET name == client[c].name
         pnp == IF Reached(name) /\ answered THEN slot'[Resolve(name)].mon ELSE client[c].pnp
     IN client' = [client EXCEPT ![c].pc = "ready", ![c].pnp = pnp,
                     ![c].choice = ClientSelect(ClientDb[pnp], Type(client[c].of, client[c].caps))]
  /\ UNCHANGED world

\* handle_get_control and handle_set_control: the client stays as it was,
\* but the daemon may rescan or open.  ControlAccess has what they transfer.
GetControl(c) ==
  /\ client[c].pc = "ready"
  /\ Reach(client[c].name)
  /\ UNCHANGED <<world, client>>

SetControl(c) == GetControl(c)

\* dbus_monitor_close: the daemon is not told.
Close(c) ==
  /\ client[c].pc = "ready"
  /\ client' = [client EXCEPT ![c] = Idle]
  /\ moved' = moved \ {c}
  /\ UNCHANGED <<world, daemon>>

-----------------------------------------------------------------------------
(* The world.                                                              *)

Plug(n, m) ==
  /\ plugs < MaxPlugs
  /\ here[n] # m
  /\ here' = [here EXCEPT ![n] = m]
  /\ plugs' = plugs + 1
  /\ UNCHANGED <<target, daemon, client, moved>>

Retarget(a, n) ==
  /\ target[a] # n
  /\ target' = [target EXCEPT ![a] = n]
  /\ moved' = moved \cup Midway
  /\ UNCHANGED <<here, plugs, daemon, client>>

Init ==
  /\ here \in [Nodes -> Monitors \cup {NoMonitor}]
  /\ target \in [Aliases -> Nodes]
  /\ plugs = 0
  /\ scanned = FALSE
  /\ listed = {}
  /\ slot = AllFree
  /\ fds = [n \in Nodes |-> 0]
  /\ failed = [n \in Nodes |-> 0]
  /\ client = [c \in Clients |-> Idle]
  /\ moved = {}

ClientStep(c) ==
  \/ \E name \in Nodes \cup Aliases, answered \in BOOLEAN : OpenMonitor(c, name, answered)
  \/ \E answered \in BOOLEAN : GetEdid(c, answered)
  \/ GetControl(c)
  \/ SetControl(c)
  \/ Close(c)

Next ==
  \/ RescanMonitors
  \/ GetMonitors
  \/ \E c \in Clients : ClientStep(c)
  \/ \E n \in Nodes, m \in Monitors \cup {NoMonitor} : Plug(n, m)
  \/ \E a \in Aliases, n \in Nodes : Retarget(a, n)

Spec == Init /\ [][Next]_vars

-----------------------------------------------------------------------------
Slot == [open : BOOLEAN, ret : {0, -1, -2, -3}, fd : BOOLEAN,
         mon : Monitors \cup {NoMonitor}, db : {"none", "standard", "samsung"},
         fallback : -1 .. 2, caps : BOOLEAN]

Client == [pc : {"idle", "opened", "ready"}, name : Nodes \cup Aliases \cup {"none"},
           pnp : Monitors \cup {NoMonitor}, of : Monitors \cup {NoMonitor}, caps : BOOLEAN,
           choice : [db : Outcome \cup {"none"}, name : Names \cup {"none"}, fallback : -1 .. 2]]

TypeOK ==
  /\ here \in [Nodes -> Monitors \cup {NoMonitor}]
  /\ target \in [Aliases -> Nodes]
  /\ plugs \in 0 .. MaxPlugs
  /\ scanned \in BOOLEAN
  /\ listed \subseteq Nodes
  /\ slot \in [Nodes -> Slot]
  /\ fds \in [Nodes -> Nat]
  /\ failed \in [Nodes -> 0 .. MaxFailed]
  /\ moved \subseteq Clients
  /\ client \in [Clients -> Client]
  /\ \A c \in Clients :
       client[c].pc # "idle" => /\ client[c].name \in Nodes \cup Aliases
                                /\ {client[c].pnp, client[c].of} \subseteq Monitors

\* Every descriptor the daemon holds belongs to an open table entry, except
\* one for each DISABLE write that failed in ddcci_close: no sequence of
\* rescans, hotplugs and failed opens loses any other.
DescriptorsOwned ==
  \A n \in Nodes : fds[n] = One(slot[n].open /\ slot[n].fd) + failed[n]

\* "only detected devices are allowed": what is open was found by the last
\* probe, however names were resolved in between.
OpenOnlyDetected ==
  \A n \in Nodes : slot[n].open => scanned /\ n \in listed

\* The client's PnP ID and capabilities, which come from two calls, are
\* those of one monitor unless the table was rebuilt or the name re-pointed
\* between the calls.
IdentityConsistent ==
  \A c \in Clients : client[c].pc = "ready" /\ c \notin moved
                       => client[c].pnp = client[c].of

\* monitor_db_internal.h: "A required feature failure must never fall
\* through to generic profiles", for a client of the daemon whose PnP ID and
\* capabilities are of one monitor, moved or not.  Left out are clients that
\* hold the PnP ID of one monitor and the capabilities of another, because
\* the table was rebuilt or the name re-pointed between their calls: the
\* daemon has accepted each of the two, but not the pair, and
\* ddcci_dbus_open falls through although both have one database.
RequirementRespected ==
  \A c \in Clients :
    client[c].pc = "ready" /\ client[c].pnp = client[c].of
      => ~Bypasses(ClientDb[client[c].pnp], client[c].choice,
                     Type(client[c].of, client[c].caps))
=============================================================================
