---------------------------- MODULE ControlAccess ----------------------------
(***************************************************************************)
(* Reading and changing the controls of one monitor: the operations of the *)
(* command line (src/src/ddccontrol/main.c), ddcci_apply_profile           *)
(* (src/src/lib/conf.c), and the two ways they reach the monitor, through  *)
(* ddcci_readctrl and ddcci_writectrl (src/src/lib/ddcci.c) of the process *)
(* itself or of the daemon (src/src/daemon/service.c).                     *)
(*                                                                         *)
(* The daemon serves one call at a time, in the order of the calls.  It    *)
(* and every process that opened the device itself are masters of the i2c  *)
(* bus: nothing locks the bus, so their transactions interleave, and the   *)
(* reply to a request is whatever the monitor holds when it is read.       *)
(***************************************************************************)
EXTENDS Integers, Sequences

CONSTANTS
  Direct,        \* processes that open the device themselves
  Remote,        \* processes that call the daemon
  Daemon,        \* the daemon, as a master of the bus
  Controls,      \* the controls of the monitor
  Maximum,       \* [Controls -> Nat], the maximum the monitor reports
  Garbage,       \* what the daemon's uninitialised value may hold
  Ops,           \* the operations a process may run
  MaxOps,        \* bound: operations run
  MaxTimeouts,   \* bound: calls whose caller stopped waiting
  NoReply,       \* the monitor holds no VCP reply
  NoJob          \* the master does nothing

Procs == Direct \cup Remote
Masters == Direct \cup {Daemon}
RETRYS == 3

\* An operation: the controls it writes, in order; arg is the value, or the
\* difference for "relative", or the two values for "toggle".  "look" only
\* reads (-r), "apply" is a profile (-l).
Kinds == {"look", "set", "relative", "toggle", "apply"}
Args(kind) == IF kind = "relative" THEN Int ELSE IF kind = "toggle" THEN Int \X Int ELSE Nat
IsOp(op) == /\ op.kind \in Kinds
            /\ op = [kind |-> op.kind, items |-> op.items]
            /\ op.items \in Seq([ctrl : Controls, arg : Args(op.kind)])
            /\ op.items # <<>>
            /\ op.kind # "apply" => Len(op.items) = 1

ASSUME AccessAssumption ==
  /\ Direct \cap Remote = {} /\ Daemon \notin Procs
  /\ Maximum \in [Controls -> Nat]
  /\ \A op \in Ops : IsOp(op)
  /\ MaxOps \in Nat /\ MaxTimeouts \in Nat

VARIABLES
  val,       \* the value of each control in the monitor
  had,       \* the values each control has had (history)
  reg,       \* the VCP reply the monitor holds
  proc,      \* per process: where it is in its operation
  job,       \* per master: the i2c transaction it is about to do, and why
  queue,     \* calls the daemon has not taken yet
  ops,       \* operations begun
  timeouts   \* calls given up

vars == <<val, had, reg, proc, job, queue, ops, timeouts>>

-----------------------------------------------------------------------------
(* A process: main.c and conf.c.                                           *)

Idle == [pc |-> "idle", op |-> [kind |-> "look", items |-> <<>>], i |-> 1,
         tries |-> RETRYS, value |-> -1, busy |-> FALSE, report |-> "none", sent |-> {}]

Item(p) == p.op.items[p.i]

\* What ddcci_readctrl or ddcci_writectrl is called for.
Call(u) ==
  [from |-> u, live |-> TRUE, ctrl |-> Item(proc[u]).ctrl, value |-> proc[u].value,
   kind |-> IF proc[u].pc = "write" THEN "write" ELSE "read"]

\* Variant of NewValue without the check of the maximum.
NewValueUnchecked(op, old, max) ==
  LET arg == op.items[1].arg
      new == IF op.kind = "relative" THEN old + arg
             ELSE IF old = arg[1] THEN arg[2] ELSE arg[1]
  IN IF new >= 0 THEN new ELSE -1

\* The value to write once the old one is known, -1 for none.
NewValue(op, old, max) ==
  LET arg == op.items[1].arg
      new == IF op.kind = "relative" THEN old + arg
             ELSE IF old = arg[1] THEN arg[2] ELSE arg[1]
  IN IF new \in 0 .. max THEN new ELSE -1

Goto(p, pc, value) ==
  [p EXCEPT !.pc = pc, !.value = value, !.tries = RETRYS, !.busy = FALSE]

\* Variant of Retry that never counts.
RetryForever(p, last) == [p EXCEPT !.busy = FALSE]

\* for (retry = RETRYS; retry; retry--): once more, or p when it was the last.
Retry(p, last) ==
  IF p.tries > 1 THEN [p EXCEPT !.tries = @ - 1, !.busy = FALSE] ELSE last

\* The process goes on after ddcci_readctrl returned.
AfterRead(p, ret, value, max) ==
  IF p.pc = "read"
  THEN IF ret < 0 THEN Retry(p, Goto(p, "show", -1))
       ELSE LET new == NewValue(p.op, value, max)
            IN Goto(p, IF new >= 0 THEN "write" ELSE "show", new)
  ELSE \* dumpctrl
       IF ret < 0 THEN Retry(p, Idle) ELSE Idle

\* ddcci_apply_profile returned, and main.c says so.
Applied(p, report) ==
  [Idle EXCEPT !.report = report, !.op = p.op, !.sent = p.sent]

\* The process goes on after ddcci_writectrl returned: main.c does not look
\* at the result, ddcci_apply_profile does.
AfterWrite(p, ret) ==
  IF p.op.kind # "apply" THEN Goto([p EXCEPT !.sent = {}], "show", -1)
  ELSE IF ret < 0 THEN Retry(p, Applied(p, "failed"))
  ELSE IF p.i = Len(p.op.items) THEN Applied(p, "applied")
  ELSE Goto([p EXCEPT !.i = @ + 1], "write", p.op.items[p.i + 1].arg)

Begin(u, op) ==
  /\ proc[u].pc = "idle"
  /\ ops < MaxOps
  /\ ops' = ops + 1
  /\ LET p == [Idle EXCEPT !.op = op]
     IN proc' = [proc EXCEPT ![u] =
          CASE op.kind = "look"            -> Goto(p, "show", -1)
            [] op.kind \in {"set", "apply"} -> Goto(p, "write", op.items[1].arg)
            [] OTHER                       -> Goto(p, "read", -1)]
  /\ UNCHANGED <<val, had, reg, job, queue, timeouts>>

-----------------------------------------------------------------------------
(* Calls.                                                                  *)

\* A read of the daemon makes three attempts, one of ddcci_readctrl one.
Job(call, tries) ==
  [call |-> call, tries |-> tries, pc |-> IF call.kind = "write" THEN "write" ELSE "request"]

\* ddcci_readctrl or ddcci_writectrl is entered: the process turns to the
\* bus itself, or the vtable sends a call to the daemon.
Enter(u) ==
  /\ proc[u].pc # "idle" /\ ~proc[u].busy
  /\ proc' = [proc EXCEPT ![u].busy = TRUE]
  /\ \/ u \in Direct /\ job' = [job EXCEPT ![u] = Job(Call(u), 1)] /\ UNCHANGED queue
     \/ u \in Remote /\ queue' = Append(queue, Call(u)) /\ UNCHANGED job
  /\ UNCHANGED <<val, had, reg, ops, timeouts>>

\* The master is done and its caller, if it still waits, goes on as p.
Done(m, p) ==
  /\ job' = [job EXCEPT ![m] = NoJob]
  /\ proc' = IF job[m].call.live THEN [proc EXCEPT ![job[m].call.from] = p] ELSE proc
  /\ UNCHANGED <<queue, ops, timeouts>>

Caller(m) == proc[job[m].call.from]

\* The daemon takes the next call.
Serve ==
  /\ job[Daemon] = NoJob /\ queue # <<>>
  /\ job' = [job EXCEPT ![Daemon] = Job(Head(queue), RETRYS)]
  /\ queue' = Tail(queue)
  /\ UNCHANGED <<val, had, reg, proc, ops, timeouts>>

\* What the caller does with an error reply or none at all: ret = -10.
CallFailed(p) == IF p.pc = "write" THEN AfterWrite(p, -10) ELSE AfterRead(p, -10, 0, 0)

\* can_open_device or open_monitor fails: the handler returns an error.
Refuse ==
  /\ job[Daemon] # NoJob
  /\ job[Daemon].pc \in {"request", "write"} /\ job[Daemon].tries = RETRYS
  /\ Done(Daemon, CallFailed(Caller(Daemon)))
  /\ UNCHANGED <<val, had, reg>>

Abandoned(call, u) == IF call.from = u THEN [call EXCEPT !.live = FALSE] ELSE call
AbandonedJob(j, u) == IF j = NoJob THEN j ELSE [j EXCEPT !.call = Abandoned(j.call, u)]

\* The caller's timeout passes; the call stays where it is and is served.
Timeout(u) ==
  /\ u \in Remote /\ proc[u].busy
  /\ timeouts < MaxTimeouts
  /\ timeouts' = timeouts + 1
  /\ proc' = [proc EXCEPT ![u] = CallFailed(@)]
  /\ queue' = [i \in DOMAIN queue |-> Abandoned(queue[i], u)]
  /\ job' = [job EXCEPT ![Daemon] = AbandonedJob(@, u)]
  /\ UNCHANGED <<val, had, reg, ops>>

-----------------------------------------------------------------------------
(* The bus: ddcci.c, and the retry loop of handle_get_control.             *)

ReplyFor(c) == [ctrl |-> c, value |-> val[c], max |-> Maximum[c]]

\* ddcci_readctrl failed in master m.  The daemon tries again, or replies
\* with the result and two shorts it never set.
ReadFailed(m) ==
  IF job[m].tries > 1
  THEN /\ job' = [job EXCEPT ![m].tries = @ - 1, ![m].pc = "request"]
       /\ UNCHANGED <<proc, queue, ops, timeouts>>
  ELSE \E g \in Garbage : Done(m, AfterRead(Caller(m), -1, g, g))

\* ddcci_raw_readctrl, the request: the write fails, or the monitor takes
\* it, or misses it and keeps the reply it held.
Request(m) ==
  /\ job[m] # NoJob /\ job[m].pc = "request"
  /\ \/ ReadFailed(m) /\ UNCHANGED reg
     \/ /\ \/ reg' = ReplyFor(job[m].call.ctrl)
           \/ UNCHANGED reg
        /\ job' = [job EXCEPT ![m].pc = "reply"]
        /\ UNCHANGED <<proc, queue, ops, timeouts>>
  /\ UNCHANGED <<val, had>>

\* Variant of ValidReply that takes the reply to any control.
AnyReply(m) == reg # NoReply

\* ddccontrol_ddcci_parse_vcp checks the control it is about.
ValidReply(m) == reg # NoReply /\ reg.ctrl = job[m].call.ctrl

\* ddcci_read fails, or the reply is none or one to another control.
Reply(m) ==
  /\ job[m] # NoJob /\ job[m].pc = "reply"
  /\ \/ ReadFailed(m)
     \/ ValidReply(m) /\ Done(m, AfterRead(Caller(m), 1, reg.value, reg.max))
  /\ UNCHANGED <<val, had, reg>>

\* Variant of WriteResult for a ddcci_writectrl that drops it as well.
WriteResultDropped(m, sent) == 0

\* What the caller of ddcci_writectrl gets: handle_set_control drops the
\* result, and ddcci_dbus_writectrl returns 0 for every reply.
WriteResult(m, sent) == IF m = Daemon \/ sent THEN 0 ELSE -1

\* The caller, with the write that went out on its list (history).
Sender(m) ==
  [Caller(m) EXCEPT !.sent = @ \cup {[ctrl |-> job[m].call.ctrl, arg |-> job[m].call.value]}]

\* ddcci_writectrl: the write fails, or goes out and is obeyed or missed.
Write(m) ==
  /\ job[m] # NoJob /\ job[m].pc = "write"
  /\ \/ /\ Done(m, AfterWrite(Caller(m), WriteResult(m, FALSE)))
        /\ UNCHANGED <<val, had>>
     \/ /\ Done(m, AfterWrite(Sender(m), WriteResult(m, TRUE)))
        /\ \/ val' = [val EXCEPT ![job[m].call.ctrl] = job[m].call.value]
           \/ UNCHANGED val
        /\ had' = [c \in Controls |-> had[c] \cup {val'[c]}]
  /\ UNCHANGED reg

Init ==
  /\ val = [c \in Controls |-> Maximum[c]]
  /\ had = [c \in Controls |-> {val[c]}]
  /\ reg = NoReply
  /\ proc = [u \in Procs |-> Idle]
  /\ job = [m \in Masters |-> NoJob]
  /\ queue = <<>>
  /\ ops = 0
  /\ timeouts = 0

BusStep(m) == Request(m) \/ Reply(m) \/ Write(m)
DaemonStep == Serve \/ Refuse \/ BusStep(Daemon)
ProcStep(u) == Enter(u) \/ (u \in Direct /\ BusStep(u))

Next ==
  \/ \E u \in Procs, op \in Ops : Begin(u, op)
  \/ \E u \in Procs : ProcStep(u)
  \/ \E u \in Remote : Timeout(u)
  \/ DaemonStep

\* A process that runs an operation, and the daemon, keep running.
Spec == /\ Init /\ [][Next]_vars
        /\ \A u \in Procs : WF_vars(ProcStep(u))
        /\ WF_vars(DaemonStep)

-----------------------------------------------------------------------------
TypeOK ==
  /\ \A c \in Controls : val[c] \in Nat /\ val[c] \in had[c]
  /\ reg # NoReply => reg.ctrl \in Controls
  /\ \A u \in Procs : /\ proc[u].pc \in {"idle", "read", "write", "show"}
                      /\ proc[u].tries \in 1 .. RETRYS
                      /\ proc[u].pc = "write" => proc[u].value \in Nat
  /\ \A m \in Masters : job[m] # NoJob => job[m].tries \in 1 .. RETRYS

\* However the transactions of several masters interleave, a difference (-W)
\* is added to a value that this control has had: never to the reply another
\* master asked for, and never to the shorts a failed read leaves unset.
BaseIsOwnValue ==
  \A u \in Procs :
    proc[u].pc = "write" /\ proc[u].op.kind = "relative"
      => proc[u].value - Item(proc[u]).arg \in had[Item(proc[u]).ctrl]

\* Relative changes, toggles and profiles within the range leave every
\* control within the range, although checking and writing are two calls
\* and other processes write in between.
InRange == TypeOK /\ \A c \in Controls : val[c] \in 0 .. Maximum[c]

\* A profile process u reported as applied went out on the bus completely.
WrittenBy(u) ==
  proc[u].report = "applied" =>
    \A i \in DOMAIN proc[u].op.items : proc[u].op.items[i] \in proc[u].sent

\* "Applied profile" of main.c is true where ddcci_apply_profile has the
\* results of its writes: no failed write is passed over by the retries.
DirectIsWritten == \A u \in Direct : WrittenBy(u)

\* Every operation ends, whatever is lost and however many masters compete.
OperationEnds == \A u \in Procs : proc[u].pc # "idle" ~> proc[u].pc = "idle"
=============================================================================
