# A TLA+ model of ddccontrol

ddccontrol reads and changes the settings of monitors over DDC/CI, a protocol
on the i2c wires of the video cable. This directory holds TLA+ modules that
model the parts of it that are hard to test, TLC configurations that check
them on small instances, and TLAPS proofs of most of the safety properties.
`PROJECT.json` says which definition models which lines, which run checks which
property and which variant of the code each property detects.

Paths are relative to the repository, whose C sources are in `src/src/` and
whose Rust crates are in `src/crates/` as the map names them.

## 1. Inventory

### The parts and how they talk to each other

    gddccontrol, ddccontrol -> libddccontrol -> /dev/i2c-*          (direct)
    gddccontrol, ddccontrol -> libddccontrol -> D-Bus -> daemon -> /dev/i2c-*
    GNOME extension ------------------------> D-Bus -> daemon
    libddccontrol and the daemon each load the monitor database (Rust)
    ddccontrol-dbgen writes, the package manager replaces, that database

| Part | State | Operations | What is hard | Correct when |
|---|---|---|---|---|
| Exchange (`ddcci.c`, protocol crate) | the monitor's pending reply, the caps buffer | caps, read, write, save | lost frames, stale replies, retries, no lock on the bus | a value or string is the monitor's own and whole; loops end |
| Spacing (`ddcci_delay`) | `mon->last` | before each command | wall clock, unsigned arithmetic, oversleeping | DELAY after each write, never a long sleep |
| Open, close, probe (`ddcci.c`) | descriptor, EDID, capabilities, profile | open, close, probe | error exits that skip the clean-up, Samsung's ENABLE and DISABLE | each descriptor is closed, the right profile is used |
| Profile selection | the choice and `mon->fallback` | two copies of one chain | the copies differ | a required feature is never bypassed |
| Daemon (`service.c`) | `devices`, `monitor_open`, `monitor_ret`, `open_monitors` | GetMonitors, RescanMonitors, OpenMonitor, GetControl, SetControl | rescans under other clients, sticky failures, names that are links | descriptors and slots agree, only detected devices are open |
| Client (`dbus_client.c`) | what two calls returned | open, read, write, close | no transaction over two calls, call timeouts | identity and capabilities are one monitor's |
| Command line (`main.c`) | an operation's progress | read, set, relative, toggle, apply | read-modify-write, retries, results lost on the way | values stay in range, "applied" is true |
| Profiles (`conf.c`, `gprofile.c`) | linked list, files, buttons | create, save, rename, delete, free | dangling pointers, files that vanish | list, files and buttons agree |
| Database session (`ddccontrol-db`) | the pinned session | init, release | files replaced while being read | the session is one revision |
| Profile loader (`ddccontrol-db`) | staged capabilities, stack of includes, requirement flag | init, set_monitor_file, create_db, release | include cycles, edits staged and dropped on failure, a database released meanwhile | a failed load leaves nothing behind, no required feature is exposed, every load ends |
| Capability editor (`ddccontrol-caps`) | the parser's stack | parse, add, remove | nesting, repetition, texts cut short | equals a definition by nesting |
| Generator (`ddccontrol-dbgen`) | output and snapshot files | convert, rewrite | sources edited meanwhile, a kill between two renames | the snapshot is never older than the database |
| Stored files (`ddccontrol-profile`, `ddccontrol-monitorlist`, their C bindings) | a file, C structures | save, load, free | overlapping saves, full disks, failed allocations | what loads was saved, every block is owned |
| Scanner (`ddccontrol-scanmonitor`) | the scan's progress, the output file | scan, write, preview | lost and stale replies, files that appear meanwhile | the profile written loads, others' files stay |
| Interface (`gddccontrol/main.c`, `stack.c`) | `currentid`, `nextid`, widgets | change monitor, refresh | re-entered event handlers | the monitor shown is the one chosen |
| GNOME extension | none | brightness up, down | two asynchronous sequences | the value stays in range |
| Formatting (`issueurl`, `urlencode`, `printing`, EDID, XML) | none | pure | nothing a model reaches that tests do not | not modelled |

### Hazards

`PROJECT.json` lists them at their lines, with the properties that cover them.
Where a property is stated for less than the whole hazard, because the code
keeps no more, the hazard's note says so.

## 2. Modules

**`CapsRead`** states what `ddcci_caps` promises: between a call and its return
the stored string is NULL, and at the return it is NULL or, in one step, the
whole string of the monitor, with the payloads of `bin(...)` masked.

**`CapsExchange`** is the loop itself. `pc` is the place in the loop
("request" before `ddcci_raw_caps` writes, "reply" before it reads); `raw` and
`bufferpos` are the local buffer; `raw_caps` is `mon->caps.raw_caps`. The
monitor is `content` and the one reply `reg` it holds: a request it misses
leaves the reply to an older request there. Each exit of the iteration is an
action (`GiveUp`, `WriteFails`, `ReadFails`, `ReadInvalid`, `ReadFragment`,
`ReadFragmentFails`, `ReadEnd`, `ReadEndMalformed`), and `Atomic` is the
refinement mapping to `CapsRead`.

The modules **`*Proofs`** hold the theorems of section 5, each about the module
it is named after. **`DdcciProofs`** is about `CapsExchange` and `DdcDelay`,
**`MemoryProofs`** about `ProfileList`, `CStruct` and `StoredFiles`, and
**`MonitorDbProofs`** about `ScanMonitor` too. So that they can be extended
together, the specifications of `DdcDelay`, `ProfileList` and `ScanMonitor` are
called `DelaySpec`, `ListSpec` and `ScanSpec`.

**`DdcDelay`** models `ddcci_delay` with the wall clock (`now`), `mon->last`
and, beside them, the real time since the last write (`since`). The factor
10000000, the unsigned difference and the carry that is not taken at exactly
one second are the code's. A second is `SECOND` ticks.

**`ProfileSelect`** has the chain of profiles twice, as `ddcci_open_with_addr`
and as `ddcci_dbus_open` write it.

**`Daemon`** extends it: the table of `service.c`, `ddcci_open`, `ddcci_close`
and `ddcci_probe` as the sets of results they may have, the handlers as
actions (a handler runs without interruption, since the daemon has one
thread), and the clients, whose `ddcci_dbus_open` is two actions. Plugging,
re-pointing a link and losing a reply are the environment.

**`ControlAccess`** models the reads and writes on one monitor: processes that
run the operations of the command line, directly or through the daemon's
queue, and *masters* of the bus whose request and reply are separate steps.

**`ProfileList`** is the list `mon->profiles`, the files, and the buttons of
the profile manager. Reading freed memory is undefined, so a behaviour ends
there (`Sound` in `Handler`).

**`DbSession`** is `ddcci_init_db` against a package manager that replaces
files one by one, in any order, some in place, and may stop.

**`MainWindow`** is the main window of `gddccontrol`. Its one thread runs the
event loop inside every message, so `stack` holds the handlers that have begun;
a step takes the innermost to its next message, an event puts one on top. Which
events are possible is `sens`, the sensitivity of the widgets. The text of
messages, layout and the values of controls are left out; a handler that would
go on with freed memory ends the behaviour (`Sound`). The window is closed only
between handlers: GTK's behaviour when it is closed under one is not modelled.

**`CapsText`** is the parser of `ddccontrol-caps` with its add and remove. A
capability text is a sequence of tokens; `ParseToken` is one turn of the
parser's loops, its recursion a stack of the groups that are open. Digits and
white space are inside the tokens.

**`ProfileControls`** is what both the loader and the scanner need of a list of
controls: which option an element matches, which addresses a feature that this
version lacks suppresses, and `add_controls_from_options`.

**`MonitorDb`** extends both: `ddcci_init_db`, `ddcci_set_monitor_file`,
`ddcci_create_db` and `ddcci_release_db`. `create_db_protected` is a walk, one
element a step, with `frames` as its recursion and `staged` as `StagedCaps`;
`ChildNeeds` and `Reached` are the scan for requirements that precedes it.
Another thread initialises and releases the database between the steps.

**`CStruct`** builds and frees the linked structures of the C interface
(`alloc_*`, `ddcci_free_db`, the lists): one allocation a step, each of which
may fail; `live` are the blocks allocated, `wild` that freed memory was used.

**`StoredFiles`** extends it: processes that save a profile or the monitor
list, by truncating and writing, and may stop anywhere, and one that loads it.

**`ScanMonitor`** is one run of `ddccontrol-scanmonitor`: EDID, capabilities in
fragments, one reading for each code, the profile it puts together, the file,
and the preview by the loader, for which it uses `CapsText` and
`ProfileControls` again. `register` is the control reply that the monitor holds:
an exchange reads the answer to its own request, or the one to an earlier
request because this one was missed or is answered late. What the monitor supports and which `options.xml` is
installed are chosen where they first matter.

**`DbGen`** is `convert` and `rewrite` of `ddccontrol-dbgen` with the
resolution of includes, which the reader does as well (`command = "load"`).

The `MC*` modules give the constants their values. The variants next to some
definitions are plausible faults; `PROJECT.json` says which property each one
breaks. Every module has a `TypeOK` (`DelayTypeOK`, `ListTypeOK`, `ScanTypeOK`);
except where it is checked and proved by
itself (`CapsExchange`, `Daemon`) it is a conjunct of one of the properties.

## 3. Runs

| Run | Shows | Bounds, and why they suffice |
|---|---|---|
| `caps_exchange` | `TypeOK`, `StringIsOwn`, `RequestsTotal`, refinement of `CapsRead` (`AtomicSpec`), `CallReturns` | strings of 0 to 5 bytes with a limit of 4, fragments up to 3 with room for 2: strings that fit, overflow, are malformed, replies that do not fit, and a second call after a first |
| `ddc_delay` | `KeepsApart` | three seconds of 60 ticks, one setting of the clock, oversleeping by one tick: two boundaries of a second |
| `daemon` | `TypeOK`, `DescriptorsOwned`, `OpenOnlyDetected`, `IdentityConsistent`, `RequirementRespected` | two devices (interchangeable, so symmetric) and a link, a client, a Samsung monitor whose profile depends on its capabilities and a Dell whose profile needs a feature; one change of what is plugged in after the start, one failed DISABLE per device. Other clients reach the daemon's state only through rescans and opens, which happen at any time |
| `control_shared` | `BaseIsOwnValue`, `InRange`, `DirectIsWritten`, `OperationEnds` | a direct process and one behind the daemon, two controls with different maxima, two operations of every kind, one timeout |
| `profile_list` | `ListConsistent`, `StoredIsListed` | three profiles, so that one has both a predecessor and a successor |
| `profile_delete` | violated: `OthersSurvive` | the same |
| `db_session` | `PinnedAtOnce`, `VerifiedRevision` | three files, three revisions that change, add and remove one, with and without manifest and CBOR file, two sessions |
| `main_window` | `ChosenIsShown`, `OpenOwned`, `EntriesLive`, `NeverStuck` | two monitors (`window_changed` acts on exactly two), three choices, rescans or moves of the window: one that is interrupted, one that interrupts it and one more |
| `monitor_db` | `ControlsSound`, `CapsOnlyWithTree`, `AcceptedFileLoads`, `RequirementForeseen`, `WalkEnds` | two profiles and two addresses, databases in which they include each other, a missing and a broken one, edit the capabilities and need features at every place; two levels and five visits, so that each limit is met before the other; monitor files that are accepted and refused |
| `stored_files` | `LoadedWasSaved`, `SavedIsLoadable`, `MemoryAccounted` | two processes, three saves, documents at, below and above a limit of two controls, of two versions and with a character XML cannot hold; a monitor tree without groups and one with every kind of child |
| `scan_monitor` | `ParsedAsNested`, `ReadingsBelong`, `ProfileLoads`, `OutputSafe`, `ScanEnds` | every text that continues one of the given beginnings up to seven tokens; three codes, one of them a vendor's; vocabularies with options that share an address or an id, a command, and list values that share an id or have no number; monitors that differ in the codes they support and in what they answer for one, so that a late reply to another code shows |
| `dbgen` | `ResolvedExactly`, `ConvertedAtOnce`, `SnapshotCoversCbor`, `CleansUp` | three profiles with up to two includes, to each other, to themselves or to a missing one, limits of two for depth and visits; one edit of each file, two runs: one that leaves something and one that finds it |

Deadlock is not checked where the system may stop: when all bounded calls,
operations, runs or sessions are used up, when a scan has ended or, in
`ProfileList` and `MainWindow`, where freed memory would be read next. The
daemon never stops, nor do the processes of `StoredFiles`; their runs check it.

### Where the code keeps less than it says

* `profile_delete` shows that `ddcci_free_profile` frees the tail of the list.
  The run is the one counterexample kept; the properties of the others are
  stated for what the code does keep:
* `KeepsApart` leaves out the turn of a second: after a write in the last ticks
  of a second, a command at the start of the next is not delayed
  (`ddcci.c:247` counts ten million microseconds for it).
* `RequirementRespected` is stated for one database on both sides: the client's
  copy of the chain lacks the checks of required features
  (`dbus_client.c:161`), and only the daemon's refusal hides it. It also leaves
  out a client that holds the PnP ID of one monitor and the capabilities of
  another, because the table was rebuilt or the name re-pointed between its two
  calls. The daemon has accepted each, but not the pair: with the new PnP ID and
  the old type the chain may fall through a required profile
  (`dbus_client.c:142-188`), although both sides have one database.
  `IdentityConsistent` leaves out the same changes between two calls.
* `ListConsistent` does not say that listed profiles are live, and of the buttons
  it speaks only until a deletion has freed listed profiles.
* `DescriptorsOwned` counts the descriptor that `ddcci_close` loses when the
  DISABLE write fails (`ddcci.c:728`), and `OpenOwned` excepts the monitor that
  `create_monitor_manager` leaves open without a manager (`stack.c:995`): they
  show that nothing else is lost.
* `DirectIsWritten` is not stated for a process behind the daemon: the result of
  a write is dropped there (`service.c:418`), and "Applied profile" is printed
  for one that did not go out.
* `MainWindow` ends a behaviour where a window moved to the other monitor during
  a refresh has freed the controls that are being walked (`stack.c:309`). Every
  other handler is kept out by insensitive widgets; `window_changed` is not a
  widget's.
* `LoadedWasSaved` leaves out a load during a save, which may put two documents
  together.
* `ProfileLoads` leaves out an `options.xml` with a nameless list value, which
  the scanner writes and the loader refuses, and one that gives an id twice
  with different values.
* `OutputSafe` does not say that a failed scan leaves nothing. `write_new` is to
  "remove incomplete output on failure", but the result of the removal is ignored
  (`main.rs:184`), and a kill during the write leaves a part as well.
* `AcceptedFileLoads` is over a database whose contents stay the same when it is
  released and opened anew.
* `SnapshotCoversCbor` allows a snapshot that is newer than the database: a run
  killed between its two renames leaves one. The reader takes the database.

Not a run of its own: without a manifest, two equal readings of the database do
not make a revision. They make a snapshot (`PinnedAtOnce`), as long as no file
returns to earlier contents (`NoReturnAssumption`); a replacement that stopped
half way is not detected.

## 4. Fairness

`CapsExchange`: `WF(Step)`. The loop is plain sequential code with bounded
sleeps, so a call that can go on does. `CallReturns` needs nothing of the
monitor: losing every frame ends the call by `GiveUp`.

`ControlAccess`: weak fairness of each process and of the daemon, which are
loops over blocking calls with time limits. `Timeout` is not fair: an answer
may always be in time.

`ScanMonitor`: weak fairness of the scanner's own steps. It is sequential code
whose exchanges have a fixed number of attempts; nothing is asked of the
monitor, which may lose every frame or never end its text (`ScanEnds`).

`MonitorDb` claims that loads end without fairness: each step lowers `StepsLeft`,
a natural number, and until the end one is possible (`WalkEnds`). The other
modules claim no liveness.

## 5. Proofs

`DdcciProofs`, first part, on `CapsExchange`: checked by TLAPS for all values
of the constants under `ContentsAssumption` (strings are functions on an
initial segment) and `LimitsAssumption` (the limits are naturals and a
monitor's fragments are not forced to be empty). TLC evaluates both on
`caps_exchange`.

* `Invariance`: `Spec => []IndInv`, by the safety part `SafeSpec` alone.
* `TypeCorrect`, `BufferPrefix`, `CapsAreWhole`, `StringsAreOwn`,
  `RequestsAreBounded`: its parts.
* `ImplementsCapsRead`: the exchange without fairness implements `CapsRead`
  without fairness.

None of the parts is inductive alone. `BufferIsPrefix` is preserved by
`ReadFragment` only if the pending reply is an honest slice at the offset it
echoes (`ReplyHonest`), however old it is; `CapsWhole` follows because an empty
reply at `bufferpos` can only come from a string that ends there. The total of
requests is bounded through the exact account `RequestsBounded`: three for each
byte, plus the attempts used up for the current fragment, plus one while an
answer is awaited.

`DaemonProofs` is checked for all devices, names, clients, monitors and
databases under `DaemonAssumption`, which TLC evaluates on `daemon`.

* `Invariance`: `Spec => []IndInv`, with `IndInv` the conjunction of `WorldOK`
  (types of what is plugged in), `DaemonOK` and `ClientsOK`.
* `TypeCorrect`, `DescriptorsAccounted`, `OnlyDetectedIsOpen`, `OneMonitor`: its
  parts, for every pair of databases.
* `NoRequirementBypassed`: under the hypothesis that daemon and client read the
  same database, for clients whose PnP ID and capabilities are of one monitor.
  It needs both: see section 3.

What the client keeps is not inductive alone, because the client never checks
the required features itself. The proof needs that an open slot without error
is a monitor the *daemon's* chain accepted (`SlotSound`), that what a client
got from its first call is still in the table unless it was moved
(`StillThere`, for `OneMonitor`), and the lemma `CheckedBefore`: behind a chain that made the
checks, the chain without them ends at the same kind of profile.

`MemoryProofs` is about memory that C code frees, and the files it is filled
from.

* `ListIsConsistent`, `StoredAreListed`, for every finite set of profiles
  (`ProfileAssumption`). The invariant adds to the two properties that the list
  has no repetition and only allocated structures in it: taking one out of a
  list (`RemoveOne`) keeps all others only then.
* `BlocksAreAccounted`: `MemoryAccounted` for structures of any size and depth,
  built and freed one after the other (`CSpec`). Its hypothesis `ListsAreTrees`
  is that the children of nodes are lists of nodes, and that `NoList` is no set
  of blocks. The invariant adds that an activation with a callee has no list of
  kids yet, which the callee's list would replace, and that one at the end of
  its list holds nothing else. `StoredBlocksAccounted` is the same for the
  processes of `StoredFiles`, which take these steps and no others; the
  hypothesis `StructuresListed` adds that the structures they build are among
  the lists.
* `SavedLoads` and `LoadedWereSaved`, for any documents (`DocumentsAssumption`:
  a sequence, each with a number of controls) and any writers. When
  saves overlap, one may write over the beginning of what another has written
  since both truncated the file, and a full disk cuts the last one short. Still
  the file agrees with the document written last wherever both have a line
  (`DiskInv`), and a file with one root that agrees with a document *is* that
  document (`WholeDocument`), because its end stands where the document ends. A
  load copies a prefix of the file
  unless a save overlaps it. For the blocks that C is handed, the invariant
  counts those of the activation that builds a flat list (`Counted`): neither a
  profile nor a monitor of the list has kids.

`DbSessionProofs` needs `SessionAssumption` and `NoReturnAssumption`: a file does
not return to contents it had. `SessionIsASnapshot` is the argument of a double
collect. A content that was replaced is `Gone` for good, half written files
included; all reads of the first collection come before all of the second; so a
file that was the same to both was so in between, and the moment between the
two collections (`Between`) is the one that `PinnedAtOnce` asks for.
`SessionIsOneRevision` needs nothing of the order in which a package is
replaced: what was read is compared with the manifest, whatever the disk holds
by then.

`DbGenProofs`, under `GenAssumption` and `AbsentAssumption` (no file is neither a
database nor a snapshot): `FilesInv` says what each phase has written and why a
kill there leaves a snapshot that covers the CBOR file; `SourceInv` is the double
collect again, with versions that only grow; `WalkInv` says that the counter of a
profile is the number of its includes that are not yet known to be valid.
From it follow `CountersStayNatural` and `OnlyIncludesBlock`, which says that the
result is a fixed point.

`ResolvesExactly` says that it is the right one, `ResolvedExactly`: neither a
cycle nor a missing profile is taken for valid, and nothing else is refused. A
chain of includes is a sequence of places, and the tree of a profile the set of
its chains. The invariant `TreeInv` says what the heights and visits that are
summed up on the way count: the height of a profile is one more than the largest
of its resolved includes, and its visits are the chains through them (`Known`).
To enter a profile into `valid` adds the chains through it to `Known` of all
that include it, once for each place: `CountThrough` is the bijection. At the
end, a valid profile has no chain as long as its height (`HeightBounds`), and it
has one that is shorter by one (`HeightReached`), so that height and depth
limit say the same. Where one would use induction over depth, the proof takes a
least counterexample instead: `LeastNat`, that a set of naturals which is not
empty has a least element, is proved from the library's theorem that the strict
subsets of finite sets are a well-founded relation.

`ControlAccessProofs`, under `AccessAssumption`, for any processes and masters of
the bus. The state of an operation is spread over its process, the daemon's
queue and the job on the bus; the invariant says that a call whose caller still
waits carries the control, value and place of the caller (`QueueOK`, `JobsOK`),
while a call whose caller gave up says nothing of it any more. `InRange` is
proved under `OpsInRange`: the values of `-w` and of profiles are in range, which
neither `main.c` nor `ddcci_apply_profile` checks.

`DdcciProofs`, second part, on `DdcDelay`, under `TimeAssumption`: for any
width of `unsigned long` that holds the times of a behaviour. Every command is
recorded in `mon->last` at the time it was meant for, so the clock may show one
oversleep more than has passed since the write (`ClockInv`). `SpacedInASecond`
holds for any oversleep. `CommandsKeepApart` needs `WakesInTime`, that `usleep`
oversleeps by less than a second minus DELAY: where the seconds differ by two
or more the code computes nothing.

`MainWindowProofs`, under `WindowAssumption`, for any monitors and any number of
events, so for any depth of nested handlers.

* `ShowsTheChosen`, `WidgetsActOnTheirMonitor`, `EntriesStayLive`,
  `WindowNeverStuck`.
* The invariant is about which handlers can begin on top of which. A frame in
  `Alone` is always the innermost one (`StackInv`), because what it has made
  insensitive and the message it shows keep every other handler from beginning
  (`QuietInv`); `window_changed`, which asks no widget, finds `combo_change`
  under way and only leaves it `nextid` (`ChoiceInv`), or finds the signal
  disconnected. `TurnInv`, `DeviceInv` and `ShownInv` then say what
  `create_monitor_manager` and the manager are for, and `CountInv` bounds how
  often lists are built and monitors opened.

`MonitorDbProofs`, under `ProfilesAssumption` (options and children are
sequences, includes name profiles): for every database, every monitor file,
every capability string and every graph of includes, with cycles.

* `ControlsSoundTheorem`. That a tree has one control for an address is kept
  step by step (`Unambiguous`, with the lemma `AddedTree` on
  `add_controls_from_options`). That an address isolated *anywhere* within reach
  is absent, in whichever order the profiles are visited, needs to know at the
  end that everything was visited: `CoverInv` is a set of profiles that were
  left, such that every include that was passed leads into it or to a profile
  under way. When the walk is over nothing is under way, so the set is closed
  under includes and contains the least such set, which `Reached` is.
* `CapsTheorem`, `ForeseenTheorem`: a load that fails leaves the caller's
  capabilities alone, and no requirement is met that the scan before the load
  did not announce.
* `AcceptedTheorem`. A validation and a load are two walks over the same file,
  with other capabilities and in another mode. The
  invariant keeps the validation as a sequence of positions (`Run`) which ended
  well; each step of the load is at one of them (`RunInv`), and a failure there
  would have failed the validation as well. Only `malloc` is left to fail.
* About `ScanMonitor`, under `ScanAssumption`: `OutputIsSafe`, from the invariant
  that the file being written is the scan's own; and `ReadingsBelongTheorem`, from
  the invariant that the monitor holds, however late, its own answer to some code
  and none before the codes are listed (`RegisterInv`).

`MaxSec`, `MaxEvents`, `MaxOps`, `MaxRuns` and the other bounds are arbitrary
numbers in the proofs.

Only model-checked: liveness (`CallReturns`, `OperationEnds`, `ScanEnds` and the
fair part of the refinement) and `WalkEnds`, which speaks of what is enabled,
both outside the prover's reach; `ParsedAsNested` and `ProfileLoads`. The parser
takes a fragment at once, as a fold of `ParseToken` over it, and what a fold
computes for every sequence is an induction over data; `ParsedAsNested`, which
includes `ScanTypeOK`, speaks of the parser after every text, and `ProfileLoads`
of the parser after the text that the scanner itself wrote.

## 6. Plan

Every safety property that a run checks is proved, but for the two above. They
would follow from a parser that takes one token a step, with the nesting of the
text so far as its invariant.

Left to model: the values of the control widgets of `stack.c` (refresh after a
failed read, reset, what a slider writes); the clamp of the GNOME extension and
the Samsung mode shared by processes in `ControlAccess`; the delay looked up by
address (`service.c:135`, where an address is compared with a char) in
`DdcDelay`; the names of new profile files, which have the second as their
granularity (`conf.c:150`).

## 7. Not modelled

The EDID and XML parsers, URL encoding, printing, the fullscreen patterns,
translations, build and packaging: pure functions on bytes with direct unit
tests, or no behaviour of their own. CBOR is modelled by the verdict on a file
(whole or torn) and by what its manifest covers, not by its bytes; the schema
descriptors are data. `ddcci_save` and the signal ControlChanged change no state
the model has. The GNOME extension reads, clamps and writes over the daemon.

Of the scanner: its options, `--list`, the spacing of its commands, and the
comments it writes into a profile. Of the generator: its argument checks,
which end it before it touches a file, and `validate` and `dump`, which write
none.

Of the scanner it is assumed that nobody replaces its file between its creation
and its removal after a failed write, which removes whatever has the name.

Assumptions of `DbGen`: every run has `--snapshot`; files are edited, not added
or removed, and an edit does not restore earlier contents; the removals of a
failed convert succeed (the code ignores their results). The order in which
profiles become ready makes no difference to which ones do, so one order is
taken. Of `StoredFiles`: a file that is missing and one that is empty load
alike. Of `DbSession`: no file returns to earlier contents
(`NoReturnAssumption`).
