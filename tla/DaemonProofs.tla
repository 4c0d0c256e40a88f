---------------------------- MODULE DaemonProofs ----------------------------
(***************************************************************************)
(* Proofs about Daemon, for every set of devices, links, monitors and      *)
(* clients: the daemon's table accounts for every descriptor and has open  *)
(* only what was detected, and what a client puts together from two calls  *)
(* belongs to one monitor and bypasses no required feature.                *)
(***************************************************************************)
EXTENDS Daemon, TLAPS

\* The daemon accepted monitor m with or without its capabilities.
Accepted(m, caps) == DirectSelect(DaemonDb[m], Type(m, caps), FALSE) # Refused

\* A slot that was opened without an error is a monitor the daemon accepted.
SlotSound(s) == s.open /\ s.ret >= 0 => s.mon \in Monitors /\ Accepted(s.mon, s.caps)

\* A table accounts for the descriptors held, but for those lost, and has
\* open only devices that are known.
Accounts(table, held, lost, known) ==
  /\ table \in [Nodes -> Slot]
  /\ held \in [Nodes -> Nat]
  /\ \A n \in Nodes : held[n] = One(table[n].open /\ table[n].fd) + lost[n]
  /\ \A n \in Nodes : table[n].open => n \in known
  /\ \A n \in Nodes : SlotSound(table[n])

WorldOK ==
  /\ here \in [Nodes -> Monitors \cup {NoMonitor}]
  /\ target \in [Aliases -> Nodes]
  /\ plugs \in 0 .. MaxPlugs

DaemonOK ==
  /\ scanned \in BOOLEAN
  /\ listed \subseteq Nodes
  /\ listed # {} => scanned
  /\ failed \in [Nodes -> 0 .. MaxFailed]
  /\ Accounts(slot, fds, failed, listed)

\* What a client has after its first call is still in the table, unless the
\* table or the name changed since.
StillThere(c) ==
  LET s == slot[Resolve(client[c].name)]
  IN s.open /\ s.ret >= 0 /\ s.mon = client[c].of /\ s.caps = client[c].caps

ClientOK(c) ==
  /\ client[c] \in Client
  /\ client[c].pc # "idle" =>
       /\ client[c].name \in Nodes \cup Aliases
       /\ client[c].pnp \in Monitors /\ client[c].of \in Monitors
       /\ Accepted(client[c].of, client[c].caps)
  /\ client[c].pc = "opened" =>
       /\ client[c].pnp = client[c].of
       /\ c \notin moved => StillThere(c)
  /\ client[c].pc = "ready" =>
       /\ client[c].choice = ClientSelect(ClientDb[client[c].pnp],
                                          Type(client[c].of, client[c].caps))
       /\ c \notin moved => client[c].pnp = client[c].of

ClientsOK ==
  /\ client = [c \in Clients |-> client[c]]
  /\ moved \subseteq Clients
  /\ \A c \in Clients : ClientOK(c)

IndInv == WorldOK /\ DaemonOK /\ ClientsOK
-----------------------------------------------------------------------------
(* Selection.                                                              *)

ChoiceSet == [db : Outcome \cup {"none"}, name : Names \cup {"none"}, fallback : -1 .. 2]

\* The chain of ddcci_dbus_open yields a choice whatever the database holds.
LEMMA ClientSelectType ==
  ASSUME NEW load \in Database, NEW type
  PROVE  ClientSelect(load, type) \in ChoiceSet
BY DEF ClientSelect, Chosen, Choice, NoProfile, ChoiceSet, Database, Names, Outcome, Loaded

\* The chain of ddcci_open_with_addr yields a choice whose profile, if any,
\* has standard or Samsung initialisation.
LEMMA DirectSelectType ==
  ASSUME NEW load \in Database, NEW type
  PROVE  DirectSelect(load, type, FALSE)
           \in [db : {"none", "standard", "samsung"}, name : Names \cup {"none"}, fallback : -1 .. 2]
BY DEF DirectSelect, Chosen, Choice, NoProfile, Refused, Database, Names, Outcome, Loaded, Manufacturer

\* With one database for both, the unchecked chain of the client is safe
\* behind the checked one of the daemon: what ddcci_open_with_addr accepts
\* bypasses no required feature in ddcci_dbus_open.
LEMMA CheckedBefore ==
  ASSUME NEW load \in Database, NEW type,
         DirectSelect(load, type, FALSE) # Refused
  PROVE  ~Bypasses(load, ClientSelect(load, type), type)
<1>1. load["pnp"] # "required" \/ Loaded(load["pnp"])
  BY DEF DirectSelect, Refused, Loaded
<1>2. load["pnp"] # "required"
  BY <1>1 DEF Loaded
<1>3. CASE Loaded(load["pnp"])
  BY <1>3 DEF Bypasses, ClientSelect, Chosen, Choice, Passed
<1>4. CASE ~Loaded(load["pnp"]) /\ Loaded(Manufacturer(load, type))
  BY <1>2, <1>4 DEF Bypasses, ClientSelect, Chosen, Choice, Passed
<1>5. CASE ~Loaded(load["pnp"]) /\ ~Loaded(Manufacturer(load, type))
  <2>1. Manufacturer(load, type) # "required"
    BY <1>2, <1>5 DEF DirectSelect
  <2>2. type # "unk" => load["mfr"] # "required"
    BY <2>1 DEF Manufacturer
  <2>3. QED
    BY <1>2, <1>5, <2>2 DEF Bypasses, ClientSelect, Chosen, Choice, Passed, NoProfile
<1>6. QED
  BY <1>3, <1>4, <1>5

-----------------------------------------------------------------------------
(* The table.                                                              *)

\* Whatever ddcci_open returns fits the table: a slot that counts as open,
\* and without an error only for a monitor that was accepted.
LEMMA OpenResultsSound ==
  ASSUME WorldOK, NEW n \in Nodes, NEW o \in OpenResults(n)
  PROVE  o \in Slot /\ o.open /\ SlotSound(o)
<1> DEFINE none == Choice("none", "none", 0)
<1>1. none.db = "none" /\ none.fallback = 0
  BY DEF Choice
<1>2. \/ o = Opened(-3, FALSE, NoMonitor, none, FALSE)
      \/ o = Opened(-2, TRUE, NoMonitor, none, FALSE)
      \/ here[n] # NoMonitor /\ \E caps \in BOOLEAN : o \in Initialised(here[n], caps)
  BY DEF OpenResults
<1> HIDE DEF none
<1>3. CASE o = Opened(-3, FALSE, NoMonitor, none, FALSE)
  <2>1. o \in Slot /\ o.ret = -3
    BY <1>1, <1>3 DEF Opened, Slot
  <2>2. o.open = TRUE
    BY <1>3 DEF Opened
  <2>3. QED
    BY <2>1, <2>2 DEF SlotSound
<1>4. CASE o = Opened(-2, TRUE, NoMonitor, none, FALSE)
  <2>1. o \in Slot /\ o.ret = -2
    BY <1>1, <1>4 DEF Opened, Slot
  <2>2. o.open = TRUE
    BY <1>4 DEF Opened
  <2>3. QED
    BY <2>1, <2>2 DEF SlotSound
<1>5. CASE here[n] # NoMonitor /\ \E caps \in BOOLEAN : o \in Initialised(here[n], caps)
  <2>1. here[n] \in Monitors /\ DaemonDb[here[n]] \in Database
    BY <1>5, DaemonAssumption DEF WorldOK
  <2>2. PICK caps \in BOOLEAN : o \in Initialised(here[n], caps)
    BY <1>5
  <2> DEFINE choice == DirectSelect(DaemonDb[here[n]], Type(here[n], caps), FALSE)
  <2>3. choice \in [db : {"none", "standard", "samsung"}, name : Names \cup {"none"}, fallback : -1 .. 2]
    BY <2>1, DirectSelectType
  <2>4. \/ o = Opened(-1, TRUE, here[n], choice, caps)
        \/ o = Opened(0, TRUE, here[n], choice, caps) /\ choice # Refused
    BY <2>2 DEF Initialised
  <2>5. Accepted(here[n], caps) <=> choice # Refused
    BY DEF Accepted
  <2> HIDE DEF choice
  <2>6. CASE o = Opened(-1, TRUE, here[n], choice, caps)
    <3>1. o \in Slot /\ o.ret = -1
      BY <2>1, <2>3, <2>6 DEF Opened, Slot
    <3>2. o.open = TRUE
      BY <2>6 DEF Opened
    <3>3. QED
      BY <3>1, <3>2 DEF SlotSound
  <2>7. CASE o = Opened(0, TRUE, here[n], choice, caps) /\ choice # Refused
    <3>1. o \in Slot /\ o.mon = here[n]
      BY <2>1, <2>3, <2>7 DEF Opened, Slot
    <3>2. o.open = TRUE
      BY <2>7 DEF Opened
    <3>3. o.caps = caps
      BY <2>7 DEF Opened
    <3>4. QED
      BY <2>1, <2>5, <2>7, <3>1, <3>2, <3>3 DEF SlotSound
  <2>8. QED
    BY <2>4, <2>6, <2>7
<1>6. QED
  BY <1>2, <1>3, <1>4, <1>5

\* What a rescan meets: a close fails only for an open descriptor.
LEMMA ScanSound ==
  ASSUME DaemonOK, NEW scan \in Scan, NEW n \in Nodes
  PROVE  /\ scan[n].shut \in BOOLEAN /\ scan[n].held \in BOOLEAN
         /\ scan[n].shut => slot[n].open /\ slot[n].fd
<1> DEFINE results == [m \in Nodes |-> CloseFails(slot[m]) \X ProbeResults(m)]
<1>1. PICK f \in [Nodes -> UNION { results[m] : m \in Nodes }] :
        /\ \A m \in Nodes : f[m] \in results[m]
        /\ scan = [m \in Nodes |-> [shut |-> f[m][1], found |-> f[m][2].found, held |-> f[m][2].held]]
  BY DEF Scan
<1>2. f[n] \in CloseFails(slot[n]) \X ProbeResults(n)
  BY <1>1
<1>3. f[n][1] \in CloseFails(slot[n]) /\ f[n][2] \in ProbeResults(n)
  BY <1>2
<1>4. f[n][2].held \in BOOLEAN
  <2>1. PICK o \in OpenResults(n) : f[n][2] \in { [found |-> o.ret > -2, held |-> g] : g \in CloseFails(o) }
    BY <1>3 DEF ProbeResults
  <2>2. PICK g \in CloseFails(o) : f[n][2] = [found |-> o.ret > -2, held |-> g]
    BY <2>1
  <2>3. g \in BOOLEAN
    BY DEF CloseFails
  <2>4. QED
    BY <2>2, <2>3
<1>5. scan[n].shut = f[n][1] /\ scan[n].held = f[n][2].held
  BY <1>1
<1>6. QED
  BY <1>3, <1>4, <1>5 DEF CloseFails

\* rescan_monitors: the new table is empty, and what was not closed is lost.
LEMMA RescanAccounts ==
  ASSUME DaemonOK, NEW scan \in Scan, Rescan(scan)
  PROVE  /\ Accounts(NewTable, Held(scan), failed', listed')
         /\ scanned' \in BOOLEAN /\ listed' \subseteq Nodes /\ (listed' # {} => scanned')
         /\ failed' \in [Nodes -> 0 .. MaxFailed]
         /\ moved' = moved \cup Midway
<1>1. NewTable \in [Nodes -> Slot] /\ \A n \in Nodes : NewTable[n].open = FALSE
  <2>1. Free \in Slot
    BY DEF Free, Slot
  <2>2. Free.open = FALSE
    BY DEF Free
  <2>3. QED
    BY <2>1, <2>2 DEF NewTable, AllFree
<1>2. \A n \in Nodes : /\ failed'[n] = failed[n] + One(scan[n].shut) + One(scan[n].held)
                       /\ failed[n] \in Nat /\ failed'[n] <= MaxFailed
  BY DEF Rescan, DaemonOK
<1>3. ASSUME NEW n \in Nodes
      PROVE  /\ Held(scan)[n] = failed'[n] /\ failed'[n] \in 0 .. MaxFailed
  <2>1. fds[n] = One(slot[n].open /\ slot[n].fd) + failed[n] /\ fds[n] \in Nat
    BY DEF DaemonOK, Accounts
  <2>2. Held(scan)[n] = fds[n] - One(slot[n].open /\ slot[n].fd /\ ~scan[n].shut) + One(scan[n].held)
    BY DEF Held
  <2>3. scan[n].shut => slot[n].open /\ slot[n].fd
    BY ScanSound
  <2>4. One(scan[n].held) \in {0, 1}
    BY DEF One
  <2>5. CASE scan[n].shut
    <3>1. One(scan[n].shut) = 1 /\ One(slot[n].open /\ slot[n].fd) = 1
          /\ One(slot[n].open /\ slot[n].fd /\ ~scan[n].shut) = 0
      BY <2>3, <2>5 DEF One
    <3>2. QED
      BY <1>2, <2>1, <2>2, <2>4, <3>1, DaemonAssumption
  <2>6. CASE ~scan[n].shut
    <3>1. One(scan[n].shut) = 0 /\ One(slot[n].open /\ slot[n].fd) \in {0, 1}
          /\ One(slot[n].open /\ slot[n].fd /\ ~scan[n].shut) = One(slot[n].open /\ slot[n].fd)
      BY <2>6 DEF One
    <3>2. QED
      BY <1>2, <2>1, <2>2, <2>4, <3>1, DaemonAssumption
  <2>7. QED
    BY <2>5, <2>6
<1>4. failed' \in [Nodes -> 0 .. MaxFailed] /\ Held(scan) \in [Nodes -> Nat]
  BY <1>3, DaemonAssumption DEF Rescan, Held
<1>5. \A n \in Nodes : One(NewTable[n].open /\ NewTable[n].fd) = 0
  BY <1>1 DEF One
<1>6. Accounts(NewTable, Held(scan), failed', listed')
  BY <1>1, <1>3, <1>4, <1>5 DEF Accounts, SlotSound
<1>7. QED
  BY <1>4, <1>6 DEF Rescan

\* open_monitor: the account is kept, the device is open afterwards, and
\* what was open is as it was.
LEMMA OpenSlotAccounts ==
  ASSUME WorldOK, NEW table, NEW held, NEW lost \in [Nodes -> Nat], NEW known,
         Accounts(table, held, lost, known),
         NEW n \in Nodes, n \in known, OpenSlot(n, table, held)
  PROVE  /\ Accounts(slot', fds', lost, known)
         /\ slot'[n].open
         /\ \A m \in Nodes : table[m].open => slot'[m] = table[m]
<1>1. CASE table[n].open
  BY <1>1 DEF OpenSlot
<1>2. CASE ~table[n].open
  <2>1. PICK o \in OpenResults(n) : /\ slot' = [table EXCEPT ![n] = o]
                                   /\ fds' = [held EXCEPT ![n] = @ + One(o.fd)]
    BY <1>2 DEF OpenSlot
  <2>2. o \in Slot /\ o.open /\ SlotSound(o)
    BY OpenResultsSound
  <2>3. table \in [Nodes -> Slot] /\ held \in [Nodes -> Nat]
    BY DEF Accounts
  <2>4. slot' \in [Nodes -> Slot] /\ slot'[n] = o /\ \A m \in Nodes \ {n} : slot'[m] = table[m]
    BY <2>1, <2>2, <2>3
  <2>5. One(o.fd) \in {0, 1} /\ One(o.open /\ o.fd) = One(o.fd)
    BY <2>2 DEF One
  <2>6. fds' \in [Nodes -> Nat] /\ fds'[n] = held[n] + One(o.fd) /\ \A m \in Nodes \ {n} : fds'[m] = held[m]
    BY <2>1, <2>3, <2>5
  <2>7. held[n] = lost[n]
    <3>1. One(table[n].open /\ table[n].fd) = 0
      BY <1>2 DEF One
    <3>2. QED
      BY <3>1 DEF Accounts
  <2>8. \A m \in Nodes : fds'[m] = One(slot'[m].open /\ slot'[m].fd) + lost[m]
    <3>1. fds'[n] = One(slot'[n].open /\ slot'[n].fd) + lost[n]
      BY <2>4, <2>5, <2>6, <2>7
    <3>2. \A m \in Nodes \ {n} : fds'[m] = One(slot'[m].open /\ slot'[m].fd) + lost[m]
      BY <2>4, <2>6 DEF Accounts
    <3>3. QED
      BY <3>1, <3>2
  <2>9. \A m \in Nodes : (slot'[m].open => m \in known) /\ SlotSound(slot'[m])
    BY <2>2, <2>4 DEF Accounts
  <2>10. QED
    BY <1>2, <2>2, <2>4, <2>6, <2>8, <2>9 DEF Accounts
<1>3. QED
  BY <1>1, <1>2

\* A call either leaves the table's open entries alone, or rebuilds the table
\* and thereby moves every client that is between its two calls.
Steady ==
  \/ moved' = moved \cup Midway
  \/ moved' = moved /\ \A n \in Nodes : slot[n].open => slot'[n] = slot[n]

\* can_open_device and open_monitor, the beginning of every handler.
LEMMA ReachKeeps ==
  ASSUME WorldOK, DaemonOK, NEW name \in Nodes \cup Aliases, Reach(name)
  PROVE  /\ DaemonOK' /\ Steady
         /\ Resolve(name) \in Nodes
         /\ Resolve(name) \in listed' => slot'[Resolve(name)].open
<1>1. Resolve(name) \in Nodes
  BY DEF Resolve, WorldOK
<1>2. CASE /\ scanned /\ Resolve(name) \in listed
           /\ OpenSlot(Resolve(name), slot, fds)
           /\ UNCHANGED <<scanned, listed, failed, moved>>
  <2>1. failed \in [Nodes -> Nat]
    BY DEF DaemonOK
  <2>2. /\ Accounts(slot', fds', failed, listed)
        /\ slot'[Resolve(name)].open
        /\ \A m \in Nodes : slot[m].open => slot'[m] = slot[m]
    BY <1>1, <1>2, <2>1, OpenSlotAccounts DEF DaemonOK
  <2>3. QED
    BY <1>1, <1>2, <2>2 DEF DaemonOK, Steady
<1>3. ASSUME NEW scan \in Scan, Rescan(scan),
             IF Resolve(name) \in listed'
             THEN OpenSlot(Resolve(name), NewTable, Held(scan))
             ELSE slot' = NewTable /\ fds' = Held(scan)
      PROVE  /\ DaemonOK' /\ Steady
             /\ Resolve(name) \in listed' => slot'[Resolve(name)].open
  <2>1. /\ Accounts(NewTable, Held(scan), failed', listed')
        /\ scanned' \in BOOLEAN /\ listed' \subseteq Nodes /\ (listed' # {} => scanned')
        /\ failed' \in [Nodes -> 0 .. MaxFailed]
        /\ moved' = moved \cup Midway
    BY <1>3, RescanAccounts
  <2>2. failed' \in [Nodes -> Nat]
    BY <2>1
  <2>3. CASE Resolve(name) \in listed'
    <3>1. Accounts(slot', fds', failed', listed') /\ slot'[Resolve(name)].open
      BY <1>1, <1>3, <2>1, <2>2, <2>3, OpenSlotAccounts
    <3>2. QED
      BY <2>1, <3>1 DEF DaemonOK, Steady
  <2>4. CASE Resolve(name) \notin listed'
    BY <1>3, <2>1, <2>4 DEF DaemonOK, Steady
  <2>5. QED
    BY <2>3, <2>4
<1>4. QED
  BY <1>1, <1>2, <1>3 DEF Reach

-----------------------------------------------------------------------------
(* The clients.                                                            *)

\* A client that takes no step itself keeps what is said of it, whatever a
\* call of another one does to the table.
LEMMA OthersKeep ==
  ASSUME ClientsOK, Steady, UNCHANGED world, NEW c \in Clients, client'[c] = client[c],
         WorldOK
  PROVE  ClientOK(c)'
<1>1. ClientOK(c)
  BY DEF ClientsOK
<1>2. ASSUME client[c].pc = "opened", c \notin moved'
      PROVE  StillThere(c)'
  <2>1. c \notin Midway => FALSE
    BY <1>2 DEF Midway
  <2>2. moved' = moved /\ \A n \in Nodes : slot[n].open => slot'[n] = slot[n]
    BY <1>2, <2>1 DEF Steady
  <2>3. StillThere(c) /\ client[c].name \in Nodes \cup Aliases
    BY <1>1, <1>2, <2>2 DEF ClientOK
  <2>4. Resolve(client[c].name) \in Nodes
    BY <2>3 DEF Resolve, WorldOK
  <2>5. Resolve(client[c].name)' = Resolve(client[c].name)
    BY DEF Resolve, world
  <2>6. QED
    BY <2>2, <2>3, <2>4, <2>5 DEF StillThere
<1>3. ASSUME client[c].pc = "ready", c \notin moved'
      PROVE  c \notin moved
  BY <1>3 DEF Steady
<1>4. QED
  BY <1>1, <1>2, <1>3 DEF ClientOK, Accepted

\* handle_rescan_monitors and handle_get_monitors.
LEMMA RescanMonitorsKeeps ==
  ASSUME IndInv, RescanMonitors
  PROVE  IndInv'
<1>1. PICK scan \in Scan : Rescan(scan) /\ fds' = Held(scan)
  BY DEF RescanMonitors
<1>2. slot' = NewTable /\ UNCHANGED <<world, client>>
  BY DEF RescanMonitors
<1>3. /\ Accounts(NewTable, Held(scan), failed', listed')
      /\ scanned' \in BOOLEAN /\ listed' \subseteq Nodes /\ (listed' # {} => scanned')
      /\ failed' \in [Nodes -> 0 .. MaxFailed]
      /\ moved' = moved \cup Midway
  BY <1>1, RescanAccounts DEF IndInv
<1>4. DaemonOK'
  BY <1>1, <1>2, <1>3 DEF DaemonOK
<1>5. \A c \in Clients : ClientOK(c)'
  BY <1>2, <1>3, OthersKeep DEF IndInv, Steady
<1>6. moved' \subseteq Clients
  BY <1>3 DEF IndInv, ClientsOK, Midway
<1>7. QED
  BY <1>2, <1>4, <1>5, <1>6 DEF IndInv, WorldOK, ClientsOK, world

\* A handler that answered: its monitor is one the daemon accepted.
LEMMA ReachedSound ==
  ASSUME WorldOK, DaemonOK, NEW name \in Nodes \cup Aliases, Reach(name), Reached(name)
  PROVE  LET s == slot'[Resolve(name)]
         IN /\ s \in Slot /\ s.open /\ s.ret >= 0
            /\ s.mon \in Monitors /\ Accepted(s.mon, s.caps)
<1>1. /\ DaemonOK' /\ Resolve(name) \in Nodes
      /\ Resolve(name) \in listed' => slot'[Resolve(name)].open
  BY ReachKeeps
<1>2. slot'[Resolve(name)].open /\ slot'[Resolve(name)].ret >= 0
  BY <1>1 DEF Reached
<1>3. slot'[Resolve(name)] \in Slot /\ SlotSound(slot'[Resolve(name)])
  BY <1>1 DEF DaemonOK, Accounts, SlotSound, Accepted
<1>4. QED
  BY <1>2, <1>3 DEF SlotSound

\* The first call of ddcci_dbus_open.
LEMMA OpenMonitorKeeps ==
  ASSUME IndInv, NEW c \in Clients, NEW name \in Nodes \cup Aliases, NEW answered \in BOOLEAN,
         OpenMonitor(c, name, answered)
  PROVE  IndInv'
<1> USE DEF IndInv
<1>1. Reach(name) /\ UNCHANGED world /\ client[c].pc = "idle"
  BY DEF OpenMonitor
<1>2. DaemonOK' /\ Steady /\ Resolve(name) \in Nodes
  BY <1>1, ReachKeeps
<1>3. WorldOK' /\ moved' \subseteq Clients
  BY <1>1, <1>2 DEF WorldOK, world, Steady, Midway, ClientsOK
<1>4. CASE ~(Reached(name) /\ answered)
  <2>1. client' = client
    BY <1>4 DEF OpenMonitor
  <2>2. \A d \in Clients : ClientOK(d)'
    BY <1>1, <1>2, <2>1, OthersKeep
  <2>3. QED
    BY <1>2, <1>3, <2>1, <2>2 DEF ClientsOK
<1>5. CASE Reached(name) /\ answered
  <2> DEFINE s == slot'[Resolve(name)]
  <2> DEFINE new == [pc |-> "opened", name |-> name, pnp |-> s.mon, of |-> s.mon,
                    caps |-> s.caps, choice |-> NoProfile]
  <2>1. s \in Slot /\ s.open /\ s.ret >= 0 /\ s.mon \in Monitors /\ Accepted(s.mon, s.caps)
    BY <1>1, <1>5, ReachedSound
  <2>2. client' = [client EXCEPT ![c] = new]
    BY <1>5 DEF OpenMonitor
  <2>3. s.caps \in BOOLEAN
    BY <2>1 DEF Slot
  <2>4. Resolve(name)' = Resolve(name)
    BY <1>1 DEF Resolve, world
  <2>5. /\ new \in Client /\ new.pc = "opened" /\ new.name = name
        /\ new.pnp = s.mon /\ new.of = s.mon /\ new.caps = s.caps
    <3> HIDE DEF s
    <3>1. NoProfile \in ChoiceSet
      BY DEF NoProfile, Choice, ChoiceSet
    <3>2. QED
      BY <2>1, <2>3, <3>1 DEF Client, ChoiceSet
  <2>6. client'[c] = new /\ \A d \in Clients \ {c} : client'[d] = client[d]
    BY <2>2 DEF ClientsOK
  <2>7. client' = [d \in Clients |-> client'[d]]
    BY <2>2 DEF ClientsOK
  <2> HIDE DEF new
  <2>8. ClientOK(c)'
    <3>1. StillThere(c)'
      BY <2>1, <2>4, <2>5, <2>6 DEF StillThere
    <3>2. QED
      BY <2>1, <2>5, <2>6, <3>1 DEF ClientOK, Accepted
  <2>9. \A d \in Clients \ {c} : ClientOK(d)'
    BY <1>1, <1>2, <2>6, OthersKeep
  <2>10. QED
    BY <1>2, <1>3, <2>7, <2>8, <2>9 DEF ClientsOK
<1>6. QED
  BY <1>4, <1>5

\* The second call of ddcci_dbus_open, and the choice of the profile.
LEMMA GetEdidKeeps ==
  ASSUME IndInv, NEW c \in Clients, NEW answered \in BOOLEAN, GetEdid(c, answered)
  PROVE  IndInv'
<1> USE DEF IndInv
<1> DEFINE name == client[c].name
           pnp == IF Reached(name) /\ answered THEN slot'[Resolve(name)].mon ELSE client[c].pnp
           choice == ClientSelect(ClientDb[pnp], Type(client[c].of, client[c].caps))
<1>1. /\ client[c].pc = "opened" /\ Reach(name) /\ UNCHANGED world
      /\ client' = [client EXCEPT ![c].pc = "ready", ![c].pnp = pnp, ![c].choice = choice]
  BY DEF GetEdid
<1>2. ClientOK(c)
  BY DEF ClientsOK
<1>3. /\ client[c] \in Client /\ name \in Nodes \cup Aliases
      /\ client[c].pnp = client[c].of /\ client[c].of \in Monitors
      /\ Accepted(client[c].of, client[c].caps)
  BY <1>1, <1>2 DEF ClientOK
<1>4. DaemonOK' /\ Steady /\ Resolve(name) \in Nodes
  BY <1>1, <1>3, ReachKeeps
<1>5. WorldOK' /\ moved' \subseteq Clients
  BY <1>1, <1>4 DEF WorldOK, world, Steady, Midway, ClientsOK
<1>6. pnp \in Monitors
  <2>1. CASE Reached(name) /\ answered
    BY <1>1, <1>3, <2>1, ReachedSound
  <2>2. CASE ~(Reached(name) /\ answered)
    BY <1>3, <2>2
  <2>3. QED
    BY <2>1, <2>2
<1>7. choice \in ChoiceSet
  BY <1>6, ClientSelectType, DaemonAssumption
<1>8. c \notin moved' => pnp = client[c].of
  <2> SUFFICES ASSUME c \notin moved' PROVE pnp = client[c].of
    OBVIOUS
  <2>1. c \in Midway
    BY <1>1 DEF Midway
  <2>2. moved' = moved /\ \A n \in Nodes : slot[n].open => slot'[n] = slot[n]
    BY <1>4, <2>1 DEF Steady
  <2>3. StillThere(c)
    BY <1>1, <1>2, <2>2 DEF ClientOK
  <2>4. slot'[Resolve(name)].mon = client[c].of
    BY <1>4, <2>2, <2>3 DEF StillThere
  <2>5. QED
    BY <1>3, <2>4
<1> HIDE DEF pnp, choice
<1>9. /\ client' = [d \in Clients |-> client'[d]]
      /\ \A d \in Clients \ {c} : client'[d] = client[d]
      /\ client'[c] = [client[c] EXCEPT !.pc = "ready", !.pnp = pnp, !.choice = choice]
  BY <1>1 DEF ClientsOK
<1>10. /\ client'[c] \in Client /\ client'[c].pc = "ready" /\ client'[c].pnp = pnp
       /\ client'[c].choice = choice /\ client'[c].of = client[c].of
       /\ client'[c].name = name
  BY <1>3, <1>6, <1>7, <1>9 DEF Client, ChoiceSet
<1>11. client'[c].caps = client[c].caps
  BY <1>3, <1>9 DEF Client
<1>12. choice = ClientSelect(ClientDb[pnp], Type(client[c].of, client[c].caps))
  BY DEF choice
<1>13. ClientOK(c)'
  BY <1>3, <1>6, <1>8, <1>10, <1>11, <1>12 DEF ClientOK, Accepted
<1>14. \A d \in Clients \ {c} : ClientOK(d)'
  BY <1>1, <1>4, <1>9, OthersKeep
<1>15. QED
  BY <1>4, <1>5, <1>9, <1>13, <1>14 DEF ClientsOK

\* handle_get_control and handle_set_control.
LEMMA GetControlKeeps ==
  ASSUME IndInv, NEW c \in Clients, GetControl(c)
  PROVE  IndInv'
<1> USE DEF IndInv
<1>1. Reach(client[c].name) /\ UNCHANGED <<world, client>> /\ client[c].pc = "ready"
  BY DEF GetControl
<1>2. client[c].name \in Nodes \cup Aliases
  BY <1>1 DEF ClientsOK, ClientOK
<1>3. DaemonOK' /\ Steady
  BY <1>1, <1>2, ReachKeeps
<1>4. WorldOK' /\ moved' \subseteq Clients
  BY <1>1, <1>3 DEF WorldOK, world, Steady, Midway, ClientsOK
<1>5. \A d \in Clients : ClientOK(d)'
  BY <1>1, <1>3, OthersKeep
<1>6. QED
  BY <1>1, <1>3, <1>4, <1>5 DEF ClientsOK

\* dbus_monitor_close.
LEMMA CloseKeeps ==
  ASSUME IndInv, NEW c \in Clients, Close(c)
  PROVE  IndInv'
<1> USE DEF IndInv
<1>1. /\ client' = [client EXCEPT ![c] = Idle] /\ moved' = moved \ {c}
      /\ UNCHANGED <<world, daemon>>
  BY DEF Close
<1>2. /\ client' = [d \in Clients |-> client'[d]]
      /\ \A d \in Clients \ {c} : client'[d] = client[d]
      /\ client'[c] = Idle
  BY <1>1 DEF ClientsOK
<1>3. Idle \in Client /\ Idle.pc = "idle"
  BY DEF Idle, Client, NoProfile, Choice
<1>4. ClientOK(c)'
  BY <1>2, <1>3 DEF ClientOK
<1>5. ASSUME NEW d \in Clients \ {c}
      PROVE  ClientOK(d)'
  <2>1. ClientOK(d) /\ client'[d] = client[d] /\ (d \in moved' <=> d \in moved)
    BY <1>1, <1>2 DEF ClientsOK
  <2>2. StillThere(d)' = StillThere(d)
    BY <1>1, <2>1 DEF StillThere, Resolve, world, daemon
  <2>3. QED
    BY <2>1, <2>2 DEF ClientOK, Accepted
<1>6. WorldOK' /\ DaemonOK'
  BY <1>1 DEF WorldOK, DaemonOK, world, daemon, Accounts, SlotSound, Accepted
<1>7. moved' \subseteq Clients
  BY <1>1 DEF ClientsOK
<1>8. QED
  BY <1>2, <1>4, <1>5, <1>6, <1>7 DEF ClientsOK

-----------------------------------------------------------------------------
(* The world, and the whole.                                               *)

\* A hotplug changes nothing that was read before.
LEMMA PlugKeeps ==
  ASSUME IndInv, NEW n \in Nodes, NEW m \in Monitors \cup {NoMonitor}, Plug(n, m)
  PROVE  IndInv'
<1> USE DEF IndInv
<1>1. UNCHANGED <<target, daemon, client, moved>>
  BY DEF Plug
<1>2. WorldOK'
  BY DaemonAssumption DEF Plug, WorldOK
<1>3. DaemonOK'
  BY <1>1 DEF DaemonOK, daemon, Accounts, SlotSound, Accepted
<1>4. ASSUME NEW d \in Clients
      PROVE  ClientOK(d)'
  <2>1. StillThere(d)' = StillThere(d)
    BY <1>1 DEF StillThere, Resolve, daemon
  <2>2. QED
    BY <1>1, <2>1 DEF ClientsOK, ClientOK, Accepted
<1>5. QED
  BY <1>1, <1>2, <1>3, <1>4 DEF ClientsOK

\* A link that is pointed elsewhere moves the clients between two calls.
LEMMA RetargetKeeps ==
  ASSUME IndInv, NEW a \in Aliases, NEW n \in Nodes, Retarget(a, n)
  PROVE  IndInv'
<1> USE DEF IndInv
<1>1. UNCHANGED <<here, plugs, daemon, client>> /\ moved' = moved \cup Midway
  BY DEF Retarget
<1>2. WorldOK'
  BY DEF Retarget, WorldOK
<1>3. DaemonOK'
  BY <1>1 DEF DaemonOK, daemon, Accounts, SlotSound, Accepted
<1>4. ASSUME NEW d \in Clients
      PROVE  ClientOK(d)'
  <2>1. client[d].pc = "opened" => d \in moved'
    BY <1>1 DEF Midway
  <2>2. QED
    BY <1>1, <2>1 DEF ClientsOK, ClientOK, Accepted
<1>5. moved' \subseteq Clients
  BY <1>1 DEF ClientsOK, Midway
<1>6. QED
  BY <1>1, <1>2, <1>3, <1>4, <1>5 DEF ClientsOK

\* The daemon has not scanned yet and no client has called.
LEMMA InitSound == Init => IndInv
<1> SUFFICES ASSUME Init PROVE IndInv
  OBVIOUS
<1>1. Free \in Slot /\ Free.open = FALSE
  BY DEF Free, Slot
<1>2. \A n \in Nodes : slot[n] = Free
  BY DEF Init, AllFree
<1>3. \A n \in Nodes : One(slot[n].open /\ slot[n].fd) = 0
  BY <1>1, <1>2 DEF One
<1>4. Accounts(slot, fds, failed, listed)
  BY <1>1, <1>2, <1>3 DEF Init, AllFree, Accounts, SlotSound
<1>5. DaemonOK
  <2>1. failed \in [Nodes -> 0 .. MaxFailed] /\ listed = {}
    BY DaemonAssumption DEF Init
  <2>2. scanned \in BOOLEAN
    BY DEF Init
  <2>3. QED
    BY <1>4, <2>1, <2>2 DEF DaemonOK
<1>6. Idle \in Client /\ Idle.pc = "idle"
  BY DEF Idle, Client, NoProfile, Choice
<1>7. client = [c \in Clients |-> Idle] /\ moved = {}
  BY DEF Init
<1>8. \A c \in Clients : client[c] = Idle
  BY <1>7
<1>9. client = [c \in Clients |-> client[c]]
  BY <1>7
<1>10. ClientsOK
  BY <1>6, <1>7, <1>8, <1>9 DEF ClientsOK, ClientOK
<1>11. QED
  BY <1>5, <1>10, DaemonAssumption DEF Init, IndInv, WorldOK

\* Every step of the daemon, of a client or of the world keeps the invariant.
LEMMA StepSound == IndInv /\ [Next]_vars => IndInv'
<1> SUFFICES ASSUME IndInv, [Next]_vars PROVE IndInv'
  OBVIOUS
<1>1. CASE RescanMonitors
  BY <1>1, RescanMonitorsKeeps
<1>2. CASE GetMonitors
  BY <1>2, RescanMonitorsKeeps DEF GetMonitors
<1>3. CASE \E c \in Clients : ClientStep(c)
  <2>1. PICK c \in Clients : ClientStep(c)
    BY <1>3
  <2>2. CASE \E name \in Nodes \cup Aliases, answered \in BOOLEAN : OpenMonitor(c, name, answered)
    BY <2>2, OpenMonitorKeeps
  <2>3. CASE \E answered \in BOOLEAN : GetEdid(c, answered)
    BY <2>3, GetEdidKeeps
  <2>4. CASE GetControl(c)
    BY <2>4, GetControlKeeps
  <2>5. CASE SetControl(c)
    BY <2>5, GetControlKeeps DEF SetControl
  <2>6. CASE Close(c)
    BY <2>6, CloseKeeps
  <2>7. QED
    BY <2>1, <2>2, <2>3, <2>4, <2>5, <2>6 DEF ClientStep
<1>4. CASE \E n \in Nodes, m \in Monitors \cup {NoMonitor} : Plug(n, m)
  BY <1>4, PlugKeeps
<1>5. CASE \E a \in Aliases, n \in Nodes : Retarget(a, n)
  BY <1>5, RetargetKeeps
<1>6. CASE UNCHANGED vars
  <2>1. WorldOK' /\ DaemonOK'
    BY <1>6 DEF IndInv, vars, WorldOK, DaemonOK, Accounts, SlotSound, Accepted
  <2>2. ASSUME NEW d \in Clients PROVE StillThere(d)' = StillThere(d)
    BY <1>6 DEF vars, StillThere, Resolve
  <2>3. ClientsOK'
    BY <1>6, <2>2 DEF IndInv, vars, ClientsOK, ClientOK, Accepted
  <2>4. QED
    BY <2>1, <2>3 DEF IndInv
<1>7. QED
  BY <1>1, <1>2, <1>3, <1>4, <1>5, <1>6 DEF Next

\* The inductive invariant holds in every behaviour of daemon and clients.
THEOREM Invariance == Spec => []IndInv
BY InitSound, StepSound, PTL DEF Spec

\* The state of daemon and clients keeps its types; in particular a client
\* that got past ddcci_dbus_open has the PnP ID of a monitor.
THEOREM TypeCorrect == Spec => []TypeOK
<1>1. IndInv => TypeOK
  BY DEF IndInv, WorldOK, DaemonOK, ClientsOK, ClientOK, Accounts, TypeOK
<1>2. QED
  BY <1>1, Invariance, PTL

\* No sequence of rescans, hotplugs and failed opens loses a descriptor,
\* except one for each DISABLE write that fails in ddcci_close.
THEOREM DescriptorsAccounted == Spec => []DescriptorsOwned
<1>1. IndInv => DescriptorsOwned
  BY DEF IndInv, DaemonOK, Accounts, DescriptorsOwned
<1>2. QED
  BY <1>1, Invariance, PTL

\* The table has open only what the last probe of rescan_monitors found.
THEOREM OnlyDetectedIsOpen == Spec => []OpenOnlyDetected
<1>1. IndInv => OpenOnlyDetected
  BY DEF IndInv, DaemonOK, Accounts, OpenOnlyDetected
<1>2. QED
  BY <1>1, Invariance, PTL

\* What ddcci_dbus_open puts together from its two calls belongs to one
\* monitor, unless the table was rebuilt or the name re-pointed in between.
THEOREM OneMonitor == Spec => []IdentityConsistent
<1>1. IndInv => IdentityConsistent
  BY DEF IndInv, ClientsOK, ClientOK, IdentityConsistent
<1>2. QED
  BY <1>1, Invariance, PTL

\* While daemon and client have the same database, a client with the PnP ID
\* and the capabilities of one monitor does not fall through to a generic
\* profile past a required feature, although ddcci_dbus_open makes no check
\* of its own.  With those of two monitors it may.
THEOREM NoRequirementBypassed ==
  ASSUME DaemonDb = ClientDb
  PROVE  Spec => []RequirementRespected
<1>1. IndInv => RequirementRespected
  <2> SUFFICES ASSUME IndInv, NEW c \in Clients, client[c].pc = "ready",
                      client[c].pnp = client[c].of
               PROVE  ~Bypasses(ClientDb[client[c].pnp], client[c].choice,
                                Type(client[c].of, client[c].caps))
    BY DEF RequirementRespected
  <2>1. ClientOK(c)
    BY DEF IndInv, ClientsOK
  <2>2. /\ client[c].of \in Monitors /\ Accepted(client[c].of, client[c].caps)
        /\ client[c].choice = ClientSelect(ClientDb[client[c].pnp],
                                           Type(client[c].of, client[c].caps))
    BY <2>1 DEF ClientOK
  <2>3. DaemonDb[client[c].of] \in Database
    BY <2>2, DaemonAssumption
  <2>4. QED
    BY <2>2, <2>3, CheckedBefore DEF Accepted
<1>2. QED
  BY <1>1, Invariance, PTL
=============================================================================
