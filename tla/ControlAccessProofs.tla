------------------------- MODULE ControlAccessProofs -------------------------
(***************************************************************************)
(* Proofs about ControlAccess, for any processes, masters, controls and    *)
(* operations.                                                             *)
(*                                                                         *)
(* What a master does on the bus is done for a call, and the process that  *)
(* waits for the call does not move: the call says where the process is.   *)
(* A call whose caller gave up says nothing of the caller any more, but    *)
(* still writes what was asked for.                                        *)
(***************************************************************************)
EXTENDS ControlAccess, SequenceTheorems, TLAPS

\* The values of -w and of profiles are within the range of their controls;
\* neither main.c nor ddcci_apply_profile checks it.
OpsInRange ==
  \A op \in Ops : op.kind \in {"set", "apply"} =>
    \A i \in DOMAIN op.items : op.items[i].arg <= Maximum[op.items[i].ctrl]

Fine(c, v) == OpsInRange => v <= Maximum[c]

-----------------------------------------------------------------------------
(* The invariant.                                                          *)

Calls == [from : Procs, live : BOOLEAN, ctrl : Controls, value : Int, kind : {"read", "write"}]
Jobs == [call : Calls, tries : 1 .. RETRYS, pc : {"request", "reply", "write"}]
States == [pc : {"idle", "read", "write", "show"},
           op : Ops \cup {Idle.op}, i : Nat, tries : 1 .. RETRYS, value : Int,
           busy : BOOLEAN, report : {"none", "failed", "applied"},
           sent : SUBSET [ctrl : Controls, arg : Int]]

\* What the value to write is; h is what each control has had.
WriteOK(p, h) ==
  /\ p.value \in Nat
  /\ p.op.kind # "look"
  /\ p.op.kind \in {"set", "apply"} => p.value = Item(p).arg
  /\ p.op.kind = "relative" => p.value - Item(p).arg \in h[Item(p).ctrl]
  /\ Fine(Item(p).ctrl, p.value)

\* Where process u is in its operation.  One that has the results of its
\* writes has sent the items of a profile that it is through with.
ProcOK(u, p, h) ==
  /\ p \in States
  /\ p.pc = "idle" => ~p.busy
  /\ p.pc # "idle" => p.op \in Ops /\ p.i \in DOMAIN p.op.items /\ p.report = "none"
  /\ p.pc = "read" => p.op.kind \in {"relative", "toggle"}
  /\ p.pc = "write" => WriteOK(p, h)
  /\ p.pc = "show" => p.op.kind # "apply"
  /\ u \in Direct =>
       /\ p.pc = "write" /\ p.op.kind = "apply" => \A j \in 1 .. p.i - 1 : p.op.items[j] \in p.sent
       /\ p.report = "applied" => \A j \in DOMAIN p.op.items : p.op.items[j] \in p.sent

\* A call has what its caller asked for, while the caller waits; ps
\* are the processes.
CallOK(call, ps) ==
  /\ call \in Calls
  /\ call.kind = "write" => call.value \in Nat /\ Fine(call.ctrl, call.value)
  /\ call.live => LET p == ps[call.from] IN
       /\ p.busy
       /\ call.ctrl = Item(p).ctrl /\ call.value = p.value
       /\ call.kind = IF p.pc = "write" THEN "write" ELSE "read"

\* A process is the master of its own calls; the daemon of the others'.
JobOK(m, j, ps) ==
  /\ j \in Jobs /\ CallOK(j.call, ps)
  /\ j.pc = "write" <=> j.call.kind = "write"
  /\ IF m = Daemon THEN j.call.from \in Remote ELSE j.call.from = m

ValuesOK ==
  /\ val \in [Controls -> Nat] /\ had \in [Controls -> SUBSET Nat]
  /\ \A c \in Controls : val[c] \in had[c] /\ Fine(c, val[c])
  /\ reg # NoReply => /\ reg.ctrl \in Controls
                      /\ reg.value \in had[reg.ctrl] /\ reg.max = Maximum[reg.ctrl]

ProcsOK ==
  /\ DOMAIN proc = Procs
  /\ \A u \in Procs : ProcOK(u, proc[u], had)

JobsOK ==
  /\ DOMAIN job = Masters
  /\ \A m \in Masters : job[m] # NoJob => JobOK(m, job[m], proc)

\* No process waits for two calls.
QueueOK ==
  /\ queue \in Seq(Calls)
  /\ \A i \in DOMAIN queue : CallOK(queue[i], proc) /\ queue[i].from \in Remote
  /\ \A i, j \in DOMAIN queue :
       queue[i].live /\ queue[j].live /\ queue[i].from = queue[j].from => i = j
  /\ \A i \in DOMAIN queue :
       job[Daemon] # NoJob /\ job[Daemon].call.live /\ queue[i].live
         => queue[i].from # job[Daemon].call.from

IndInv == ValuesOK /\ ProcsOK /\ JobsOK /\ QueueOK

-----------------------------------------------------------------------------
(* A process.                                                              *)

LEMMA OpFacts ==
  ASSUME NEW op \in Ops
  PROVE  /\ op.kind \in Kinds
         /\ Len(op.items) \in Nat \ {0} /\ DOMAIN op.items = 1 .. Len(op.items)
         /\ op.kind # "apply" => Len(op.items) = 1
         /\ \A i \in DOMAIN op.items : op.items[i] \in [ctrl : Controls, arg : Args(op.kind)]
<1> DEFINE T == [ctrl : Controls, arg : Args(op.kind)]
<1>1. /\ op.kind \in Kinds /\ op.items \in Seq(T) /\ op.items # <<>>
      /\ op.kind # "apply" => Len(op.items) = 1
  BY AccessAssumption DEF IsOp
<1> HIDE DEF T
<1>2. Len(op.items) \in Nat /\ DOMAIN op.items = 1 .. Len(op.items) /\ Len(op.items) # 0
  BY <1>1, EmptySeq, LenProperties
<1>3. \A i \in DOMAIN op.items : op.items[i] \in T
  BY <1>1, <1>2, ElementOfSeq
<1>4. QED
  BY <1>1, <1>2, <1>3 DEF T

LEMMA IdleOK == ASSUME NEW u, NEW h PROVE ProcOK(u, Idle, h)
BY DEF ProcOK, Idle, States, RETRYS

LEMMA GotoFields ==
  ASSUME NEW p \in States, NEW k \in {"idle", "read", "write", "show"}, NEW v \in Int
  PROVE  /\ Goto(p, k, v) \in States
         /\ Goto(p, k, v) = [pc |-> k, op |-> p.op, i |-> p.i, tries |-> RETRYS, value |-> v,
                             busy |-> FALSE, report |-> p.report, sent |-> p.sent]
<1> DEFINE Ss == SUBSET [ctrl : Controls, arg : Int]
           Os == Ops \cup {Idle.op}
           Pcs == {"idle", "read", "write", "show"}
           Rs == {"none", "failed", "applied"}
           g == Goto(p, k, v)
<1>1. RETRYS \in 1 .. RETRYS
  BY DEF RETRYS
<1>2. States = [pc : Pcs, op : Os, i : Nat, tries : 1 .. RETRYS,
                value : Int, busy : BOOLEAN, report : Rs, sent : Ss]
  BY DEF States
<1>3. g = [p EXCEPT !.pc = k, !.value = v, !.tries = RETRYS, !.busy = FALSE] /\ k \in Pcs
  BY DEF Goto
<1> HIDE DEF Ss, Os, Pcs, Rs, g
<1>4. g = [pc |-> k, op |-> p.op, i |-> p.i, tries |-> RETRYS, value |-> v,
           busy |-> FALSE, report |-> p.report, sent |-> p.sent]
  BY <1>2, <1>3
<1>5. g \in States
  BY <1>1, <1>2, <1>3, <1>4
<1>6. QED
  BY <1>4, <1>5 DEF g

LEMMA RetryOK ==
  ASSUME NEW u, NEW h, NEW p, ProcOK(u, p, h), NEW last, ProcOK(u, last, h)
  PROVE  ProcOK(u, Retry(p, last), h)
<1> DEFINE r == [p EXCEPT !.tries = @ - 1, !.busy = FALSE]
<1>1. CASE p.tries > 1
  <2>1. /\ r \in States /\ r.pc = p.pc /\ r.value = p.value /\ r.busy = FALSE
        /\ r.op = p.op /\ r.i = p.i /\ r.report = p.report /\ r.sent = p.sent
    <3> DEFINE Ss == SUBSET [ctrl : Controls, arg : Int]
               Os == Ops \cup {Idle.op}
               Pcs == {"idle", "read", "write", "show"}
               Rs == {"none", "failed", "applied"}
    <3>1. p \in [pc : Pcs, op : Os, i : Nat, tries : 1 .. RETRYS, value : Int, busy : BOOLEAN,
                 report : Rs, sent : Ss]
      BY DEF ProcOK, States
    <3> HIDE DEF Ss, Os, Pcs, Rs
    <3>2. p.tries - 1 \in 1 .. RETRYS
      BY <1>1, <3>1 DEF RETRYS
    <3>3. /\ r \in [pc : Pcs, op : Os, i : Nat, tries : 1 .. RETRYS, value : Int, busy : BOOLEAN,
                    report : Rs, sent : Ss]
          /\ r.pc = p.pc /\ r.value = p.value /\ r.busy = FALSE
          /\ r.op = p.op /\ r.i = p.i /\ r.report = p.report /\ r.sent = p.sent
      BY <3>1, <3>2
    <3>4. QED
      BY <3>3 DEF States, Ss, Os, Pcs, Rs
  <2>2. Retry(p, last) = r
    BY <1>1 DEF Retry
  <2> HIDE DEF r
  <2>3. ProcOK(u, r, h)
    BY <2>1 DEF ProcOK, WriteOK, Item
  <2>4. QED
    BY <2>2, <2>3
<1>2. CASE ~(p.tries > 1)
  BY <1>2 DEF Retry
<1>3. QED
  BY <1>1, <1>2

\* NewValue is none, or in the range and, for a difference, that much above
\* the old value.
LEMMA NewValueIsChecked ==
  ASSUME NEW op \in Ops, NEW old \in Nat, NEW max \in Nat,
         NEW new, new = NewValue(op, old, max)
  PROVE  /\ new \in Int
         /\ new >= 0 => new \in Nat /\ new <= max
         /\ new >= 0 /\ op.kind = "relative" => new - op.items[1].arg = old
<1> DEFINE arg == op.items[1].arg
           sum == IF op.kind = "relative" THEN old + arg
                  ELSE IF old = arg[1] THEN arg[2] ELSE arg[1]
<1>1. new = IF sum \in 0 .. max THEN sum ELSE -1
  BY DEF NewValue
<1>2. op.kind = "relative" => arg \in Int /\ sum = old + arg
  BY OpFacts DEF Args
<1> HIDE DEF arg, sum
<1>3. new \in Int /\ (new >= 0 => new \in Nat /\ new <= max /\ new = sum)
  BY <1>1
<1>4. op.kind = "relative" /\ new >= 0 => new - arg = old
  BY <1>2, <1>3
<1>5. QED
  BY <1>3, <1>4 DEF arg

LEMMA AfterReadOK ==
  ASSUME NEW u, NEW h, NEW p, ProcOK(u, p, h), p.pc \in {"read", "show"},
         NEW ret \in Int, NEW value, NEW max,
         ret >= 0 => /\ h[Item(p).ctrl] \subseteq Nat
                     /\ value \in h[Item(p).ctrl] /\ max = Maximum[Item(p).ctrl]
  PROVE  ProcOK(u, AfterRead(p, ret, value, max), h)
<1>1. p \in States /\ p.op \in Ops /\ p.i \in DOMAIN p.op.items /\ p.report = "none"
  BY DEF ProcOK
<1>2. CASE p.pc = "show"
  <2>1. AfterRead(p, ret, value, max) = IF ret < 0 THEN Retry(p, Idle) ELSE Idle
    BY <1>2 DEF AfterRead
  <2>2. QED
    BY <2>1, IdleOK, RetryOK
<1>3. CASE p.pc = "read" /\ ret < 0
  <2> DEFINE g == Goto(p, "show", -1)
  <2>0. g = Goto(p, "show", -1) /\ -1 \in Int
    OBVIOUS
  <2>2. AfterRead(p, ret, value, max) = Retry(p, g)
    BY <1>3 DEF AfterRead
  <2> HIDE DEF g
  <2>1. /\ g \in States /\ g.pc = "show" /\ g.busy = FALSE
        /\ g.op = p.op /\ g.i = p.i /\ g.report = p.report
    <3>1. p \in States /\ "show" \in {"idle", "read", "write", "show"}
      BY <1>1
    <3>2. /\ g \in States
          /\ g = [pc |-> "show", op |-> p.op, i |-> p.i, tries |-> RETRYS, value |-> -1,
                  busy |-> FALSE, report |-> p.report, sent |-> p.sent]
      BY <3>1, <2>0, GotoFields
    <3>3. QED
      BY <3>2
  <2>3. ProcOK(u, g, h)
    BY <1>1, <1>3, <2>1 DEF ProcOK
  <2>4. QED
    BY <2>2, <2>3, RetryOK
<1>4. CASE p.pc = "read" /\ ~(ret < 0)
  <2> DEFINE new == NewValue(p.op, value, max)
             to == IF new >= 0 THEN "write" ELSE "show"
             g == Goto(p, to, new)
  <2>1. AfterRead(p, ret, value, max) = g
    BY <1>4 DEF AfterRead
  <2>2. p.op.kind \in {"relative", "toggle"}
    BY <1>4 DEF ProcOK
  <2>3. p.i = 1 /\ Item(p) = p.op.items[1] /\ Item(p).ctrl \in Controls
    BY <1>1, <2>2, OpFacts DEF Item
  <2>4. value \in Nat /\ max \in Nat /\ value \in h[Item(p).ctrl] /\ max = Maximum[Item(p).ctrl]
    BY <1>4, <2>3, AccessAssumption
  <2>5. /\ new \in Int /\ (new >= 0 => new \in Nat /\ new <= max)
        /\ new >= 0 /\ p.op.kind = "relative" => new - p.op.items[1].arg = value
    <3>1. new = NewValue(p.op, value, max)
      OBVIOUS
    <3> HIDE DEF new
    <3>2. QED
      BY <1>1, <2>4, <3>1, NewValueIsChecked
  <2>0. g = Goto(p, to, new) /\ to \in {"idle", "read", "write", "show"}
    OBVIOUS
  <2> HIDE DEF new, g
  <2>6. /\ g \in States /\ g.pc = to /\ g.value = new /\ g.busy = FALSE
        /\ g.op = p.op /\ g.i = p.i /\ g.report = p.report
    <3>1. /\ g \in States
          /\ g = [pc |-> to, op |-> p.op, i |-> p.i, tries |-> RETRYS, value |-> new,
                  busy |-> FALSE, report |-> p.report, sent |-> p.sent]
      BY <1>1, <2>0, <2>5, GotoFields
    <3>2. QED
      BY <3>1
  <2>7. Item(g) = Item(p)
    BY <2>6 DEF Item
  <2>8. CASE new >= 0
    <3>1. WriteOK(g, h)
      BY <2>2, <2>3, <2>4, <2>5, <2>6, <2>7, <2>8 DEF WriteOK, Fine
    <3>2. QED
      BY <1>1, <2>1, <2>2, <2>6, <2>8, <3>1 DEF ProcOK
  <2>9. CASE ~(new >= 0)
    BY <1>1, <2>1, <2>2, <2>6, <2>9 DEF ProcOK
  <2>10. QED
    BY <2>8, <2>9
<1>5. QED
  BY <1>2, <1>3, <1>4

\* The records that are made from Idle.
Begun(op) == [Idle EXCEPT !.op = op]

LEMMA IdleExcept ==
  /\ \A o \in Ops \cup {Idle.op} :
       Begun(o) = [pc |-> "idle", op |-> o, i |-> 1, tries |-> RETRYS, value |-> -1,
                   busy |-> FALSE, report |-> "none", sent |-> {}]
  /\ \A p \in States, r \in {"none", "failed", "applied"} :
       Applied(p, r) = [pc |-> "idle", op |-> p.op, i |-> 1, tries |-> RETRYS, value |-> -1,
                        busy |-> FALSE, report |-> r, sent |-> p.sent]
<1> DEFINE Ss == SUBSET [ctrl : Controls, arg : Int]
           Os == Ops \cup {Idle.op}
           Pcs == {"idle", "read", "write", "show"}
           Rs == {"none", "failed", "applied"}
<1>1. States = [pc : Pcs, op : Os, i : Nat, tries : 1 .. RETRYS,
                value : Int, busy : BOOLEAN, report : Rs, sent : Ss]
  BY DEF States
<1>2. Idle \in States
  BY IdleOK DEF ProcOK
<1>3. /\ Idle.pc = "idle" /\ Idle.i = 1 /\ Idle.tries = RETRYS /\ Idle.value = -1
      /\ Idle.busy = FALSE /\ Idle.report = "none" /\ Idle.sent = {}
  BY DEF Idle
<1> HIDE DEF Ss, Os, Pcs, Rs
<1>4. ASSUME NEW o \in Os
      PROVE  Begun(o) = [pc |-> "idle", op |-> o, i |-> 1, tries |-> RETRYS, value |-> -1,
                         busy |-> FALSE, report |-> "none", sent |-> {}]
  <2> DEFINE f == Begun(o)
  <2>1. f = [Idle EXCEPT !.op = o]
    BY DEF Begun
  <2> HIDE DEF f
  <2>2. f = [pc |-> Idle.pc, op |-> o, i |-> Idle.i, tries |-> Idle.tries, value |-> Idle.value,
             busy |-> Idle.busy, report |-> Idle.report, sent |-> Idle.sent]
    BY <1>1, <1>2, <2>1
  <2>3. QED
    BY <1>3, <2>2 DEF f
<1>5. ASSUME NEW p \in States, NEW r \in Rs
      PROVE  Applied(p, r) = [pc |-> "idle", op |-> p.op, i |-> 1, tries |-> RETRYS, value |-> -1,
                              busy |-> FALSE, report |-> r, sent |-> p.sent]
  <2> DEFINE f == Applied(p, r)
             o == p.op
             S == p.sent
  <2>1. f = [Idle EXCEPT !.report = r, !.op = o, !.sent = S] /\ o \in Os /\ S \in Ss
    BY <1>1 DEF Applied
  <2> HIDE DEF f, o, S
  <2>2. f = [pc |-> Idle.pc, op |-> o, i |-> Idle.i, tries |-> Idle.tries, value |-> Idle.value,
             busy |-> Idle.busy, report |-> r, sent |-> S]
    BY <1>1, <1>2, <2>1
  <2>3. QED
    BY <1>3, <2>2 DEF f, o, S
<1>6. QED
  BY <1>4, <1>5 DEF Os, Rs

LEMMA AppliedFields ==
  ASSUME NEW p \in States, NEW r \in {"failed", "applied"}
  PROVE  /\ Applied(p, r) \in States
         /\ Applied(p, r) = [pc |-> "idle", op |-> p.op, i |-> 1, tries |-> RETRYS, value |-> -1,
                             busy |-> FALSE, report |-> r, sent |-> p.sent]
<1> DEFINE Ss == SUBSET [ctrl : Controls, arg : Int]
           Os == Ops \cup {Idle.op}
           a == [pc |-> "idle", op |-> p.op, i |-> 1, tries |-> RETRYS, value |-> -1,
                 busy |-> FALSE, report |-> r, sent |-> p.sent]
<1>1. Applied(p, r) = a
  BY IdleExcept
<1>2. States = [pc : {"idle", "read", "write", "show"}, op : Os, i : Nat, tries : 1 .. RETRYS,
                value : Int, busy : BOOLEAN, report : {"none", "failed", "applied"}, sent : Ss]
  BY DEF States
<1> HIDE DEF Ss, Os
<1>3. p.op \in Os /\ p.sent \in Ss
  BY <1>2
<1>4. a \in States
  BY <1>2, <1>3 DEF RETRYS
<1>5. QED
  BY <1>1, <1>4

\* The process with another list of what it sent, or at another item.
LEMMA SentFields ==
  ASSUME NEW p \in States, NEW S \in SUBSET [ctrl : Controls, arg : Int], NEW n \in Nat
  PROVE  /\ [p EXCEPT !.sent = S] \in States
         /\ [p EXCEPT !.sent = S] =
              [pc |-> p.pc, op |-> p.op, i |-> p.i, tries |-> p.tries, value |-> p.value,
               busy |-> p.busy, report |-> p.report, sent |-> S]
         /\ [p EXCEPT !.i = n] \in States
         /\ [p EXCEPT !.i = n] =
              [pc |-> p.pc, op |-> p.op, i |-> n, tries |-> p.tries, value |-> p.value,
               busy |-> p.busy, report |-> p.report, sent |-> p.sent]
<1> DEFINE Ss == SUBSET [ctrl : Controls, arg : Int]
           Os == Ops \cup {Idle.op}
           Pcs == {"idle", "read", "write", "show"}
           Rs == {"none", "failed", "applied"}
<1>1. States = [pc : Pcs, op : Os, i : Nat, tries : 1 .. RETRYS,
                value : Int, busy : BOOLEAN, report : Rs, sent : Ss]
  BY DEF States
<1>2. S \in Ss
  OBVIOUS
<1> HIDE DEF Ss, Os, Pcs, Rs
<1>3. QED
  BY <1>1, <1>2

LEMMA AfterWriteOK ==
  ASSUME NEW u, NEW h, NEW p, ProcOK(u, p, h), p.pc = "write", NEW ret \in Int,
         u \in Direct /\ p.op.kind = "apply" /\ ret >= 0 => Item(p) \in p.sent
  PROVE  ProcOK(u, AfterWrite(p, ret), h)
<1>1. p \in States /\ p.op \in Ops /\ p.i \in DOMAIN p.op.items /\ p.report = "none"
  BY DEF ProcOK
<1>2. Len(p.op.items) \in Nat /\ DOMAIN p.op.items = 1 .. Len(p.op.items) /\ p.i \in Nat
  BY <1>1, OpFacts
<1>3. CASE p.op.kind # "apply"
  <2> DEFINE q == [p EXCEPT !.sent = {}]
             g == Goto(q, "show", -1)
  <2>1. AfterWrite(p, ret) = g
    BY <1>3 DEF AfterWrite
  <2>2. /\ q \in States
        /\ q = [pc |-> p.pc, op |-> p.op, i |-> p.i, tries |-> p.tries, value |-> p.value,
                busy |-> p.busy, report |-> p.report, sent |-> {}]
    BY <1>1, <1>2, SentFields
  <2>3. -1 \in Int /\ "show" \in {"idle", "read", "write", "show"} /\ g = Goto(q, "show", -1)
    OBVIOUS
  <2> HIDE DEF g, q
  <2>4. /\ g \in States
        /\ g = [pc |-> "show", op |-> q.op, i |-> q.i, tries |-> RETRYS, value |-> -1,
                busy |-> FALSE, report |-> q.report, sent |-> q.sent]
    BY <2>2, <2>3, GotoFields
  <2>5. g.pc = "show" /\ g.op = p.op /\ g.i = p.i /\ g.busy = FALSE /\ g.report = "none"
    BY <1>1, <2>2, <2>4
  <2>6. QED
    BY <1>1, <1>3, <2>1, <2>4, <2>5 DEF ProcOK
<1>4. CASE p.op.kind = "apply" /\ ret < 0
  <2> DEFINE a == Applied(p, "failed")
  <2>1. AfterWrite(p, ret) = Retry(p, a)
    BY <1>4 DEF AfterWrite
  <2>2. a = Applied(p, "failed") /\ "failed" \in {"failed", "applied"}
    OBVIOUS
  <2> HIDE DEF a
  <2>3. /\ a \in States
        /\ a = [pc |-> "idle", op |-> p.op, i |-> 1, tries |-> RETRYS, value |-> -1,
                busy |-> FALSE, report |-> "failed", sent |-> p.sent]
    BY <1>1, <2>2, AppliedFields
  <2>4. ProcOK(u, a, h)
    BY <2>3 DEF ProcOK
  <2>5. QED
    BY <2>1, <2>4, RetryOK
<1>5. CASE p.op.kind = "apply" /\ ~(ret < 0) /\ p.i = Len(p.op.items)
  <2> DEFINE a == Applied(p, "applied")
  <2>1. AfterWrite(p, ret) = a
    BY <1>5 DEF AfterWrite
  <2>2. a = Applied(p, "applied") /\ "applied" \in {"failed", "applied"}
    OBVIOUS
  <2> HIDE DEF a
  <2>3. /\ a \in States
        /\ a = [pc |-> "idle", op |-> p.op, i |-> 1, tries |-> RETRYS, value |-> -1,
                busy |-> FALSE, report |-> "applied", sent |-> p.sent]
    BY <1>1, <2>2, AppliedFields
  <2>4. ASSUME u \in Direct, NEW j \in DOMAIN p.op.items PROVE p.op.items[j] \in p.sent
    <3>1. CASE j = p.i
      BY <1>5, <2>4, <3>1 DEF Item
    <3>2. CASE j # p.i
      BY <1>2, <1>5, <2>4, <3>2 DEF ProcOK
    <3>3. QED
      BY <3>1, <3>2
  <2>5. ProcOK(u, a, h)
    BY <2>3, <2>4 DEF ProcOK
  <2>6. QED
    BY <2>1, <2>5
<1>6. CASE p.op.kind = "apply" /\ ~(ret < 0) /\ p.i # Len(p.op.items)
  <2> DEFINE n == p.i + 1
             v == p.op.items[n].arg
             q == [p EXCEPT !.i = n]
             g == Goto(q, "write", v)
  <2>1. AfterWrite(p, ret) = g
    BY <1>1, <1>6 DEF AfterWrite
  <2>2. n \in Nat /\ n \in DOMAIN p.op.items /\ p.i = n - 1
    BY <1>1, <1>2, <1>6
  <2>3. v \in Nat /\ v \in Int
    BY <1>1, <1>6, <2>2, OpFacts DEF Args
  <2>4. /\ q \in States
        /\ q = [pc |-> p.pc, op |-> p.op, i |-> n, tries |-> p.tries, value |-> p.value,
                busy |-> p.busy, report |-> p.report, sent |-> p.sent]
    <3>1. {} \in SUBSET [ctrl : Controls, arg : Int]
      OBVIOUS
    <3>2. QED
      BY <1>1, <2>2, <3>1, SentFields
  <2>5. "write" \in {"idle", "read", "write", "show"} /\ g = Goto(q, "write", v)
    OBVIOUS
  <2> HIDE DEF g, q
  <2>6. /\ g \in States
        /\ g = [pc |-> "write", op |-> q.op, i |-> q.i, tries |-> RETRYS, value |-> v,
                busy |-> FALSE, report |-> q.report, sent |-> q.sent]
    BY <2>3, <2>4, <2>5, GotoFields
  <2>7. /\ g.pc = "write" /\ g.op = p.op /\ g.i = n /\ g.busy = FALSE /\ g.report = "none"
        /\ g.value = v /\ g.sent = p.sent
    BY <1>1, <2>4, <2>6
  <2>8. Item(g) = p.op.items[n]
    BY <2>7 DEF Item
  <2>9. WriteOK(g, h)
    <3>1. Fine(Item(g).ctrl, v)
      BY <1>1, <1>6, <2>2, <2>8 DEF Fine, OpsInRange
    <3>2. QED
      BY <1>6, <2>3, <2>7, <2>8, <3>1 DEF WriteOK
  <2>10. ASSUME u \in Direct, NEW j \in 1 .. n - 1 PROVE p.op.items[j] \in p.sent
    <3>1. CASE j = p.i
      BY <1>6, <2>10, <3>1 DEF Item
    <3>2. CASE j # p.i
      BY <1>2, <1>6, <2>2, <2>10, <3>2 DEF ProcOK
    <3>3. QED
      BY <3>1, <3>2
  <2> HIDE DEF n, v
  <2>11. QED
    BY <1>1, <2>1, <2>2, <2>6, <2>7, <2>9, <2>10 DEF ProcOK
<1>7. QED
  BY <1>3, <1>4, <1>5, <1>6

\* Values that were had remain so.
LEMMA HadGrows ==
  ASSUME NEW u, NEW p, NEW g, NEW h, ProcOK(u, p, g), \A c \in Controls : g[c] \subseteq h[c]
  PROVE  ProcOK(u, p, h)
<1>1. p.pc = "write" => Item(p).ctrl \in Controls
  BY OpFacts DEF ProcOK, Item
<1>2. p.pc = "write" => WriteOK(p, h)
  BY <1>1 DEF ProcOK, WriteOK
<1>3. QED
  BY <1>2 DEF ProcOK

-----------------------------------------------------------------------------
(* Calls.                                                                  *)

LEMMA InitInv == Init => IndInv
<1> SUFFICES ASSUME Init PROVE IndInv
  OBVIOUS
<1>1. ValuesOK
  BY AccessAssumption DEF Init, ValuesOK, Fine
<1>2. ProcsOK
  BY IdleOK DEF Init, ProcsOK
<1>3. JobsOK /\ QueueOK
  <2>1. <<>> \in Seq(Calls) /\ DOMAIN <<>> = {}
    OBVIOUS
  <2>2. QED
    BY <2>1 DEF Init, JobsOK, QueueOK
<1>4. QED
  BY <1>1, <1>2, <1>3 DEF IndInv

LEMMA BeginInv ==
  ASSUME IndInv, NEW u \in Procs, NEW op \in Ops, Begin(u, op)
  PROVE  IndInv'
<1> DEFINE p == Begun(op)
           q == proc'[u]
<1>1. op.kind \in Kinds /\ 1 \in DOMAIN op.items /\ op.items[1] \in [ctrl : Controls, arg : Args(op.kind)]
  BY OpFacts
<1>2. p = [pc |-> "idle", op |-> op, i |-> 1, tries |-> RETRYS, value |-> -1,
           busy |-> FALSE, report |-> "none", sent |-> {}]
  BY IdleExcept
<1>3. p \in States
  <2> DEFINE Ss == SUBSET [ctrl : Controls, arg : Int]
             Os == Ops \cup {Idle.op}
  <2>1. op \in Os /\ {} \in Ss
    OBVIOUS
  <2> HIDE DEF Ss, Os, p
  <2>2. p \in [pc : {"idle", "read", "write", "show"}, op : Os, i : Nat, tries : 1 .. RETRYS,
               value : Int, busy : BOOLEAN, report : {"none", "failed", "applied"}, sent : Ss]
    BY <1>2, <2>1 DEF RETRYS
  <2>3. QED
    BY <2>2 DEF States, Ss, Os
<1> HIDE DEF p
<1>4. \E k \in {"show", "write", "read"}, v \in Int :
        /\ proc' = [proc EXCEPT ![u] = Goto(p, k, v)]
        /\ k = "show" => op.kind # "apply"
        /\ k = "read" => op.kind \in {"relative", "toggle"}
        /\ k = "write" => op.kind \in {"set", "apply"} /\ v = op.items[1].arg /\ v \in Nat
  <2> DEFINE P(x) == proc' = [proc EXCEPT ![u] = x]
  <2>1. P(CASE op.kind = "look"            -> Goto(p, "show", -1)
            [] op.kind \in {"set", "apply"} -> Goto(p, "write", op.items[1].arg)
            [] OTHER                       -> Goto(p, "read", -1))
    BY DEF Begin, p, Begun
  <2>2. CASE op.kind = "look"
    <3>1. P(Goto(p, "show", -1))
      <4>1. op.kind \notin {"set", "apply"}
        BY <2>2
      <4>2. QED
        BY <2>1, <2>2, <4>1, Zenon
    <3>2. -1 \in Int
      OBVIOUS
    <3>3. QED
      BY <2>2, <3>1, <3>2
  <2>3. CASE op.kind \in {"set", "apply"}
    <3>1. P(Goto(p, "write", op.items[1].arg))
      <4>1. op.kind # "look"
        BY <2>3
      <4>2. QED
        BY <2>1, <2>3, <4>1, Zenon
    <3>2. op.items[1].arg \in Nat
      BY <1>1, <2>3 DEF Args
    <3> WITNESS "write" \in {"show", "write", "read"}, op.items[1].arg \in Int
    <3>3. QED
      BY <2>3, <3>1, <3>2
  <2>4. CASE op.kind \in {"relative", "toggle"}
    <3>1. P(Goto(p, "read", -1))
      <4>1. op.kind # "look" /\ op.kind \notin {"set", "apply"}
        BY <2>4
      <4>2. QED
        BY <2>1, <4>1, Zenon
    <3>2. -1 \in Int
      OBVIOUS
    <3>3. QED
      BY <2>4, <3>1, <3>2
  <2>5. QED
    BY <1>1, <2>2, <2>3, <2>4 DEF Kinds
<1>5. PICK k \in {"show", "write", "read"}, v \in Int :
        /\ proc' = [proc EXCEPT ![u] = Goto(p, k, v)]
        /\ k = "show" => op.kind # "apply"
        /\ k = "read" => op.kind \in {"relative", "toggle"}
        /\ k = "write" => op.kind \in {"set", "apply"} /\ v = op.items[1].arg /\ v \in Nat
  BY <1>4
<1>6. DOMAIN proc = Procs /\ DOMAIN proc' = Procs /\ q = Goto(p, k, v)
  BY <1>5 DEF IndInv, ProcsOK
<1> HIDE DEF q
<1>7. /\ q \in States
      /\ q = [pc |-> k, op |-> p.op, i |-> p.i, tries |-> RETRYS, value |-> v,
              busy |-> FALSE, report |-> p.report, sent |-> p.sent]
  BY <1>3, <1>5, <1>6, GotoFields
<1>8. q.pc = k /\ q.op = op /\ q.i = 1 /\ q.value = v /\ q.busy = FALSE /\ q.report = "none"
  BY <1>2, <1>7
<1>9. Item(q) = op.items[1]
  BY <1>8 DEF Item
<1>10. k = "write" => WriteOK(q, had)
  <2>1. k = "write" => Fine(Item(q).ctrl, v)
    BY <1>1, <1>5, <1>9 DEF Fine, OpsInRange
  <2>2. QED
    BY <1>5, <1>8, <1>9, <2>1 DEF WriteOK
<1>11. ProcOK(u, q, had)
  BY <1>1, <1>5, <1>7, <1>8, <1>10 DEF ProcOK
<1>12. UNCHANGED <<val, had, reg, job, queue>> /\ proc[u].pc = "idle"
  BY DEF Begin
<1>13. \A w \in Procs : w # u => proc'[w] = proc[w]
  BY <1>5, <1>6
<1>14. ProcsOK'
  BY <1>6, <1>11, <1>12, <1>13 DEF IndInv, ProcsOK, q
<1>15. \A call : CallOK(call, proc) => CallOK(call, proc')
  <2>1. ~proc[u].busy
    BY <1>12 DEF IndInv, ProcsOK, ProcOK
  <2>2. \A call \in Calls : call.from \in Procs
    BY DEF Calls
  <2>3. QED
    BY <1>13, <2>1, <2>2 DEF CallOK
<1>16. JobsOK' /\ QueueOK'
  BY <1>12, <1>15 DEF IndInv, JobsOK, JobOK, QueueOK
<1>17. ValuesOK'
  BY <1>12 DEF IndInv, ValuesOK
<1>18. QED
  BY <1>14, <1>16, <1>17 DEF IndInv

LEMMA BusyFields ==
  ASSUME NEW p \in States
  PROVE  /\ [p EXCEPT !.busy = TRUE] \in States
         /\ [p EXCEPT !.busy = TRUE] =
              [pc |-> p.pc, op |-> p.op, i |-> p.i, tries |-> p.tries, value |-> p.value,
               busy |-> TRUE, report |-> p.report, sent |-> p.sent]
<1> DEFINE Ss == SUBSET [ctrl : Controls, arg : Int]
           Os == Ops \cup {Idle.op}
           Pcs == {"idle", "read", "write", "show"}
           Rs == {"none", "failed", "applied"}
<1>1. States = [pc : Pcs, op : Os, i : Nat, tries : 1 .. RETRYS,
                value : Int, busy : BOOLEAN, report : Rs, sent : Ss]
  BY DEF States
<1> DEFINE g == [p EXCEPT !.busy = TRUE]
<1>2. g = [p EXCEPT !.busy = TRUE] /\ TRUE \in BOOLEAN
  OBVIOUS
<1> HIDE DEF Ss, Os, Pcs, Rs, g
<1>3. g = [pc |-> p.pc, op |-> p.op, i |-> p.i, tries |-> p.tries, value |-> p.value,
           busy |-> TRUE, report |-> p.report, sent |-> p.sent]
  BY <1>1, <1>2
<1>4. g \in States
  BY <1>1, <1>2, <1>3
<1>5. QED
  BY <1>3, <1>4 DEF g

\* The call of a process that is about to wait is about what it does.
LEMMA CallFacts ==
  ASSUME IndInv, NEW u \in Procs, proc[u].pc # "idle", NEW ps,
         ps[u].busy, Item(ps[u]) = Item(proc[u]), ps[u].value = proc[u].value,
         ps[u].pc = proc[u].pc
  PROVE  CallOK(Call(u), ps) /\ Call(u).from = u
<1> DEFINE c == Call(u)
           ctrl == Item(proc[u]).ctrl
           v == proc[u].value
           kind == IF proc[u].pc = "write" THEN "write" ELSE "read"
<1>1. ProcOK(u, proc[u], had)
  BY DEF IndInv, ProcsOK
<1>2. ctrl \in Controls
  BY <1>1, OpFacts DEF ProcOK, Item
<1>3. v \in Int
  BY <1>1 DEF ProcOK, States
<1>4. proc[u].pc = "write" => v \in Nat /\ Fine(ctrl, v)
  BY <1>1 DEF ProcOK, WriteOK
<1>5. c = [from |-> u, live |-> TRUE, ctrl |-> ctrl, value |-> v, kind |-> kind]
  BY DEF Call
<1>6. kind \in {"read", "write"} /\ (kind = "write" <=> proc[u].pc = "write")
  OBVIOUS
<1>7. kind = IF ps[u].pc = "write" THEN "write" ELSE "read"
  OBVIOUS
<1>8. ctrl = Item(ps[u]).ctrl /\ v = ps[u].value
  OBVIOUS
<1> HIDE DEF c, ctrl, v, kind
<1>9. /\ c \in Calls /\ c.from = u /\ c.ctrl = ctrl /\ c.value = v /\ c.kind = kind
  BY <1>2, <1>3, <1>5, <1>6 DEF Calls
<1>10. CallOK(c, ps)
  BY <1>4, <1>6, <1>7, <1>8, <1>9 DEF CallOK
<1>11. QED
  BY <1>9, <1>10 DEF c

LEMMA JobFacts ==
  ASSUME NEW call \in Calls, NEW n \in 1 .. RETRYS
  PROVE  /\ Job(call, n) \in Jobs /\ Job(call, n).call = call
         /\ Job(call, n).pc = "write" <=> call.kind = "write"
BY DEF Job, Jobs

LEMMA EnterInv ==
  ASSUME IndInv, NEW u \in Procs, Enter(u)
  PROVE  IndInv'
<1> DEFINE p == proc[u]
           q == proc'[u]
<1>1. ProcOK(u, p, had) /\ p \in States
  BY DEF IndInv, ProcsOK, ProcOK
<1>2. proc' = [proc EXCEPT ![u] = [p EXCEPT !.busy = TRUE]] /\ p.pc # "idle" /\ ~p.busy
  BY DEF Enter
<1>3. DOMAIN proc = Procs /\ DOMAIN proc' = Procs /\ q = [p EXCEPT !.busy = TRUE]
  BY <1>2 DEF IndInv, ProcsOK
<1>4. \A w \in Procs : w # u => proc'[w] = proc[w]
  BY <1>2, <1>3
<1>5. UNCHANGED <<val, had, reg>>
  BY DEF Enter
<1> HIDE DEF q, p
<1>6. /\ q \in States
      /\ q = [pc |-> p.pc, op |-> p.op, i |-> p.i, tries |-> p.tries, value |-> p.value,
              busy |-> TRUE, report |-> p.report, sent |-> p.sent]
  BY <1>1, <1>3, BusyFields
<1>7. /\ q.pc = p.pc /\ q.op = p.op /\ q.i = p.i /\ q.value = p.value /\ q.busy = TRUE
      /\ q.report = p.report /\ q.sent = p.sent
  BY <1>6
<1>8. Item(q) = Item(p)
  BY <1>7 DEF Item
<1>9. ProcOK(u, q, had)
  BY <1>1, <1>2, <1>6, <1>7, <1>8 DEF ProcOK, WriteOK
<1>10. ProcsOK'
  BY <1>3, <1>4, <1>5, <1>9 DEF IndInv, ProcsOK, q
<1>11. \A call : CallOK(call, proc) => CallOK(call, proc') /\ (call.live => call.from # u)
  <2>1. \A call \in Calls : call.from \in Procs
    BY DEF Calls
  <2>2. QED
    BY <1>2, <1>4, <2>1 DEF CallOK, p
<1>12. CallOK(Call(u), proc') /\ Call(u).from = u /\ Call(u) \in Calls
  <2>1. CallOK(Call(u), proc') /\ Call(u).from = u
    BY <1>2, <1>7, <1>8, CallFacts DEF p, q
  <2>2. QED
    BY <2>1 DEF CallOK
<1>13. ValuesOK'
  BY <1>5 DEF IndInv, ValuesOK
<1>14. CASE u \in Direct /\ job' = [job EXCEPT ![u] = Job(Call(u), 1)] /\ UNCHANGED queue
  <2>1. u \in Masters /\ u # Daemon /\ DOMAIN job = Masters /\ DOMAIN job' = Masters
    BY <1>14, AccessAssumption DEF Masters, Procs, IndInv, JobsOK
  <2>2. job'[u] = Job(Call(u), 1) /\ \A m \in Masters : m # u => job'[m] = job[m]
    BY <1>14, <2>1
  <2>3. JobOK(u, job'[u], proc')
    <3>1. 1 \in 1 .. RETRYS
      BY DEF RETRYS
    <3>2. /\ job'[u] \in Jobs /\ job'[u].call = Call(u)
          /\ job'[u].pc = "write" <=> Call(u).kind = "write"
      BY <1>12, <2>2, <3>1, JobFacts
    <3>3. QED
      BY <1>12, <2>1, <3>2 DEF JobOK
  <2>4. JobsOK'
    BY <1>11, <2>1, <2>2, <2>3 DEF IndInv, JobsOK, JobOK
  <2>5. QueueOK'
    <3>1. job'[Daemon] = job[Daemon]
      BY <2>1, <2>2 DEF Masters
    <3>2. QED
      BY <1>11, <1>14, <3>1 DEF IndInv, QueueOK
  <2>6. QED
    BY <1>10, <1>13, <2>4, <2>5 DEF IndInv
<1>15. CASE u \in Remote /\ queue' = Append(queue, Call(u)) /\ UNCHANGED job
  <2>1. JobsOK'
    BY <1>11, <1>15 DEF IndInv, JobsOK, JobOK
  <2>2. queue \in Seq(Calls) /\ Len(queue) \in Nat /\ DOMAIN queue = 1 .. Len(queue)
    BY DEF IndInv, QueueOK
  <2>3. /\ queue' \in Seq(Calls) /\ DOMAIN queue' = 1 .. (Len(queue) + 1)
        /\ queue'[Len(queue) + 1] = Call(u)
        /\ \A i \in DOMAIN queue : queue'[i] = queue[i]
    BY <1>12, <1>15, <2>2
  <2>4. \A i \in DOMAIN queue' : i \in DOMAIN queue \/ i = Len(queue) + 1
    BY <2>2, <2>3
  <2>5. \A i \in DOMAIN queue : /\ CallOK(queue[i], proc) /\ queue[i].from \in Remote
                                /\ CallOK(queue[i], proc') /\ (queue[i].live => queue[i].from # u)
    BY <1>11 DEF IndInv, QueueOK
  <2>6. \A i \in DOMAIN queue' : CallOK(queue'[i], proc') /\ queue'[i].from \in Remote
    BY <1>12, <1>15, <2>3, <2>4, <2>5
  <2>7. \A i, j \in DOMAIN queue' :
          queue'[i].live /\ queue'[j].live /\ queue'[i].from = queue'[j].from => i = j
    <3> SUFFICES ASSUME NEW i \in DOMAIN queue', NEW j \in DOMAIN queue',
                        queue'[i].live, queue'[j].live, queue'[i].from = queue'[j].from
                 PROVE  i = j
      OBVIOUS
    <3>1. CASE i \in DOMAIN queue /\ j \in DOMAIN queue
      BY <2>3, <3>1 DEF IndInv, QueueOK
    <3>2. CASE i \in DOMAIN queue /\ j = Len(queue) + 1
      BY <1>12, <2>3, <2>5, <3>2
    <3>3. CASE i = Len(queue) + 1 /\ j \in DOMAIN queue
      BY <1>12, <2>3, <2>5, <3>3
    <3>4. QED
      BY <2>4, <3>1, <3>2, <3>3
  <2>8. job[Daemon] # NoJob /\ job[Daemon].call.live => job[Daemon].call.from # u
    BY <1>11 DEF IndInv, JobsOK, JobOK, Masters
  <2>9. QueueOK'
    BY <1>12, <1>15, <2>3, <2>4, <2>6, <2>7, <2>8 DEF IndInv, QueueOK
  <2>10. QED
    BY <1>10, <1>13, <2>1, <2>9 DEF IndInv
<1>16. QED
  BY <1>14, <1>15 DEF Enter

LEMMA ServeInv ==
  ASSUME IndInv, Serve
  PROVE  IndInv'
<1> DEFINE c == Head(queue)
<1>1. queue \in Seq(Calls) /\ queue # <<>> /\ Len(queue) \in Nat /\ DOMAIN queue = 1 .. Len(queue)
  BY DEF IndInv, QueueOK, Serve
<1>2. /\ Len(queue) # 0 /\ 1 \in DOMAIN queue /\ c = queue[1]
      /\ Tail(queue) \in Seq(Calls) /\ Len(Tail(queue)) = Len(queue) - 1
      /\ DOMAIN Tail(queue) = 1 .. (Len(queue) - 1)
      /\ \A i \in 1 .. (Len(queue) - 1) : Tail(queue)[i] = queue[i + 1]
  BY <1>1, EmptySeq, HeadTailProperties
<1>3. UNCHANGED <<val, had, reg, proc>>
  BY DEF Serve
<1>4. CallOK(c, proc) /\ c.from \in Remote /\ c \in Calls
  BY <1>2 DEF IndInv, QueueOK, CallOK
<1>5. DOMAIN job = Masters /\ Daemon \in Masters
  BY DEF IndInv, JobsOK, Masters
<1>6. job'[Daemon] = Job(c, RETRYS) /\ DOMAIN job' = Masters
      /\ \A m \in Masters : m # Daemon => job'[m] = job[m]
  BY <1>5 DEF Serve
<1>7. /\ job'[Daemon] \in Jobs /\ job'[Daemon].call = c
      /\ job'[Daemon].pc = "write" <=> c.kind = "write"
  BY <1>4, <1>6, JobFacts DEF RETRYS
<1> HIDE DEF c
<1>8. JobOK(Daemon, job'[Daemon], proc)
  BY <1>4, <1>7 DEF JobOK
<1>9. JobsOK'
  BY <1>3, <1>6, <1>8 DEF IndInv, JobsOK
<1>10. queue' = Tail(queue)
  BY DEF Serve
<1>11. \A i \in DOMAIN queue' : i + 1 \in DOMAIN queue /\ queue'[i] = queue[i + 1] /\ i \in Nat /\ i # 0
  BY <1>1, <1>2, <1>10
<1>12. \A i \in DOMAIN queue' : CallOK(queue'[i], proc') /\ queue'[i].from \in Remote
  BY <1>3, <1>11 DEF IndInv, QueueOK
<1>13. ASSUME NEW i \in DOMAIN queue', NEW j \in DOMAIN queue',
              queue'[i].live, queue'[j].live, queue'[i].from = queue'[j].from
       PROVE  i = j
  <2>1. i + 1 = j + 1
    BY <1>11, <1>13 DEF IndInv, QueueOK
  <2>2. QED
    BY <1>11, <2>1
<1>14. ASSUME NEW i \in DOMAIN queue', c.live, queue'[i].live
       PROVE  queue'[i].from # c.from
  <2>1. i + 1 # 1
    BY <1>11
  <2>2. QED
    BY <1>2, <1>11, <1>14, <2>1 DEF IndInv, QueueOK
<1>15. QueueOK'
  BY <1>2, <1>7, <1>10, <1>12, <1>13, <1>14 DEF QueueOK
<1>16. ValuesOK' /\ ProcsOK'
  BY <1>3 DEF IndInv, ValuesOK, ProcsOK
<1>17. QED
  BY <1>9, <1>15, <1>16 DEF IndInv

\* A master is done with a call: no other live call is of the same process.
LEMMA DoneInv ==
  ASSUME IndInv, NEW m \in Masters, job[m] # NoJob, NEW p, Done(m, p), ValuesOK',
         \A c \in Controls : had[c] \subseteq had'[c],
         job[m].call.live => ProcOK(job[m].call.from, p, had')
  PROVE  IndInv'
<1> DEFINE f == job[m].call.from
           live == job[m].call.live
<1>1. JobOK(m, job[m], proc) /\ job[m].call \in Calls /\ f \in Procs
  BY DEF IndInv, JobsOK, JobOK, CallOK, Calls
<1>2. DOMAIN proc = Procs /\ DOMAIN job = Masters
  BY DEF IndInv, ProcsOK, JobsOK
<1>3. /\ DOMAIN proc' = Procs
      /\ live => proc'[f] = p
      /\ \A w \in Procs : (live => w # f) => proc'[w] = proc[w]
  BY <1>1, <1>2 DEF Done
<1>4. /\ DOMAIN job' = Masters /\ job'[m] = NoJob
      /\ \A n \in Masters : n # m => job'[n] = job[n]
  BY <1>2 DEF Done
<1>5. queue' = queue
  BY DEF Done
<1>6. ProcsOK'
  <2>1. ASSUME NEW w \in Procs PROVE ProcOK(w, proc'[w], had')
    <3>1. ProcOK(w, proc[w], had)
      BY DEF IndInv, ProcsOK
    <3>2. ProcOK(w, proc[w], had')
      BY <3>1, HadGrows
    <3>3. QED
      BY <1>3, <3>2
  <2>2. QED
    BY <1>3, <2>1 DEF ProcsOK
<1>7. \A call : CallOK(call, proc) /\ (call.live /\ live => call.from # f) => CallOK(call, proc')
  <2>1. \A call \in Calls : call.from \in Procs
    BY DEF Calls
  <2>2. QED
    BY <1>3, <2>1 DEF CallOK
<1>8. ASSUME NEW n \in Masters, n # m, job[n] # NoJob
      PROVE  job[n].call.from # f
  <2>1. JobOK(n, job[n], proc)
    BY <1>8 DEF IndInv, JobsOK
  <2>2. QED
    BY <1>1, <1>8, <2>1, AccessAssumption DEF JobOK, Masters, Procs
<1>9. ASSUME NEW i \in DOMAIN queue, queue[i].live, live
      PROVE  queue[i].from # f
  <2>1. CASE m = Daemon
    BY <1>9, <2>1 DEF IndInv, QueueOK
  <2>2. CASE m # Daemon
    BY <1>1, <2>2, AccessAssumption DEF JobOK, Masters, IndInv, QueueOK
  <2>3. QED
    BY <2>1, <2>2
<1> HIDE DEF f, live
<1>10. JobsOK'
  <2>1. ASSUME NEW n \in Masters, job'[n] # NoJob PROVE JobOK(n, job'[n], proc')
    <3>1. n # m /\ job'[n] = job[n] /\ JobOK(n, job[n], proc)
      BY <1>4, <2>1 DEF IndInv, JobsOK
    <3>2. CallOK(job[n].call, proc')
      BY <1>7, <1>8, <2>1, <3>1 DEF JobOK
    <3>3. QED
      BY <3>1, <3>2 DEF JobOK
  <2>2. QED
    BY <1>4, <2>1 DEF JobsOK
<1>11. QueueOK'
  <2>1. \A i \in DOMAIN queue : CallOK(queue[i], proc') /\ queue[i].from \in Remote
    BY <1>7, <1>9 DEF IndInv, QueueOK
  <2>2. job'[Daemon] = NoJob \/ job'[Daemon] = job[Daemon]
    BY <1>4 DEF Masters
  <2>3. QED
    BY <1>5, <2>1, <2>2 DEF IndInv, QueueOK
<1>12. QED
  BY <1>6, <1>10, <1>11 DEF IndInv

LEMMA CallFailedOK ==
  ASSUME NEW u, NEW h, NEW p, ProcOK(u, p, h), p.pc # "idle"
  PROVE  ProcOK(u, CallFailed(p), h)
<1>1. p.pc \in {"read", "write", "show"} /\ -10 \in Int /\ ~(-10 >= 0)
  BY DEF ProcOK, States
<1>2. CASE p.pc = "write"
  BY <1>1, <1>2, AfterWriteOK DEF CallFailed
<1>3. CASE p.pc \in {"read", "show"}
  BY <1>1, <1>3, AfterReadOK DEF CallFailed
<1>4. QED
  BY <1>1, <1>2, <1>3

\* The process a live call of a master is of.
LEMMA CallerFacts ==
  ASSUME IndInv, NEW m \in Masters, job[m] # NoJob, job[m].call.live
  PROVE  LET p == Caller(m)
             u == job[m].call.from
         IN /\ u \in Procs /\ ProcOK(u, p, had) /\ p.busy /\ p.pc # "idle"
            /\ job[m].call.ctrl = Item(p).ctrl /\ job[m].call.value = p.value
            /\ p.pc = "write" <=> job[m].pc = "write"
            /\ m = Daemon => u \notin Direct
<1> DEFINE p == Caller(m)
           u == job[m].call.from
<1>1. JobOK(m, job[m], proc) /\ u \in Procs /\ job[m].call \in Calls
  BY DEF IndInv, JobsOK, JobOK, CallOK, Calls
<1>2. ProcOK(u, p, had)
  BY <1>1 DEF IndInv, ProcsOK, Caller
<1>3. /\ p.busy /\ job[m].call.ctrl = Item(p).ctrl /\ job[m].call.value = p.value
      /\ job[m].call.kind = IF p.pc = "write" THEN "write" ELSE "read"
  BY <1>1 DEF JobOK, CallOK, Caller
<1>4. p.pc # "idle"
  BY <1>2, <1>3 DEF ProcOK
<1>5. p.pc = "write" <=> job[m].pc = "write"
  BY <1>1, <1>3 DEF JobOK
<1>6. m = Daemon => u \notin Direct
  BY <1>1, AccessAssumption DEF JobOK
<1>7. QED
  BY <1>1, <1>2, <1>3, <1>4, <1>5, <1>6

LEMMA RefuseInv ==
  ASSUME IndInv, Refuse
  PROVE  IndInv'
<1> DEFINE p == CallFailed(Caller(Daemon))
<1>1. Daemon \in Masters /\ job[Daemon] # NoJob /\ Done(Daemon, p) /\ UNCHANGED <<val, had, reg>>
  BY DEF Refuse, Masters
<1>2. job[Daemon].call.live => ProcOK(job[Daemon].call.from, p, had)
  BY <1>1, CallerFacts, CallFailedOK
<1>3. ValuesOK'
  BY <1>1 DEF IndInv, ValuesOK
<1> HIDE DEF p
<1>4. QED
  BY <1>1, <1>2, <1>3, DoneInv

LEMMA AbandonedFacts ==
  ASSUME NEW call \in Calls, NEW u
  PROVE  LET a == Abandoned(call, u)
         IN /\ a \in Calls /\ a.from = call.from /\ a.ctrl = call.ctrl
            /\ a.value = call.value /\ a.kind = call.kind
            /\ a.live <=> call.live /\ call.from # u
<1> DEFINE a == Abandoned(call, u)
<1>1. CASE call.from = u
  <2> DEFINE g == [call EXCEPT !.live = FALSE]
  <2>1. a = g
    BY <1>1 DEF Abandoned
  <2>2. g = [call EXCEPT !.live = FALSE]
    OBVIOUS
  <2> HIDE DEF g, a
  <2>3. /\ g \in Calls /\ g.from = call.from /\ g.ctrl = call.ctrl
        /\ g.value = call.value /\ g.kind = call.kind /\ g.live = FALSE
    BY <2>2 DEF Calls
  <2>4. QED
    BY <1>1, <2>1, <2>3 DEF a
<1>2. CASE call.from # u
  BY <1>2 DEF Abandoned
<1>3. QED
  BY <1>1, <1>2

LEMMA TimeoutInv ==
  ASSUME IndInv, NEW u \in Remote, Timeout(u)
  PROVE  IndInv'
<1> DEFINE A(call) == Abandoned(call, u)
           j == job[Daemon]
<1>1. u \in Procs /\ proc[u].busy /\ UNCHANGED <<val, had, reg>>
  BY DEF Timeout, Procs
<1>2. DOMAIN proc = Procs /\ DOMAIN job = Masters /\ Daemon \in Masters
  BY DEF IndInv, ProcsOK, JobsOK, Masters
<1>3. /\ DOMAIN proc' = Procs /\ proc'[u] = CallFailed(proc[u])
      /\ \A w \in Procs : w # u => proc'[w] = proc[w]
  BY <1>1, <1>2 DEF Timeout
<1>4. /\ DOMAIN job' = Masters
      /\ j = NoJob => job'[Daemon] = NoJob
      /\ j # NoJob => job'[Daemon] = [j EXCEPT !.call = A(j.call)]
      /\ \A m \in Masters : m # Daemon => job'[m] = job[m]
  BY <1>2 DEF Timeout, AbandonedJob
<1>5. queue' = [i \in DOMAIN queue |-> A(queue[i])]
  BY DEF Timeout
<1>6. ProcsOK'
  <2>1. ProcOK(u, proc'[u], had)
    <3>1. ProcOK(u, proc[u], had) /\ proc[u].pc # "idle"
      BY <1>1 DEF IndInv, ProcsOK, ProcOK
    <3>2. QED
      BY <1>3, <3>1, CallFailedOK
  <2>2. QED
    BY <1>1, <1>3, <2>1 DEF IndInv, ProcsOK
<1>7. ASSUME NEW call, CallOK(call, proc)
      PROVE  /\ CallOK(A(call), proc') /\ A(call) \in Calls
             /\ A(call).from = call.from /\ A(call).kind = call.kind
             /\ A(call).live => call.live
  <2>1. call \in Calls /\ call.from \in Procs
    BY <1>7 DEF CallOK, Calls
  <2> DEFINE a == A(call)
  <2>2. /\ a \in Calls /\ a.from = call.from /\ a.ctrl = call.ctrl
        /\ a.value = call.value /\ a.kind = call.kind
        /\ a.live <=> call.live /\ call.from # u
    BY <2>1, AbandonedFacts
  <2> HIDE DEF a
  <2>3. a.live => proc'[a.from] = proc[call.from]
    BY <1>3, <2>1, <2>2
  <2>4. CallOK(a, proc')
    BY <1>7, <2>2, <2>3 DEF CallOK
  <2>5. QED
    BY <2>2, <2>4 DEF a
<1>8. \A call : CallOK(call, proc) /\ call.from # u => CallOK(call, proc')
  BY <1>3 DEF CallOK, Calls
<1> HIDE DEF A
<1>9. j # NoJob => /\ JobOK(Daemon, job'[Daemon], proc')
                   /\ job'[Daemon].call.from = j.call.from
                   /\ job'[Daemon].call.live => j.call.live
  <2> SUFFICES ASSUME j # NoJob
               PROVE  /\ JobOK(Daemon, job'[Daemon], proc')
                      /\ job'[Daemon].call.from = j.call.from
                      /\ job'[Daemon].call.live => j.call.live
    OBVIOUS
  <2> DEFINE g == job'[Daemon]
             b == A(j.call)
  <2>1. JobOK(Daemon, j, proc) /\ j \in Jobs /\ CallOK(j.call, proc)
    BY <1>2 DEF IndInv, JobsOK, JobOK
  <2>2. g = [j EXCEPT !.call = b]
    BY <1>4
  <2>3. /\ CallOK(b, proc') /\ b \in Calls /\ b.from = j.call.from /\ b.kind = j.call.kind
        /\ b.live => j.call.live
    BY <1>7, <2>1
  <2> DEFINE k == j
  <2>4. k \in Jobs /\ g = [k EXCEPT !.call = b]
    BY <2>1, <2>2
  <2> HIDE DEF g, b, k
  <2>5. g \in Jobs /\ g.call = b /\ g.pc = k.pc
    BY <2>3, <2>4 DEF Jobs
  <2>6. JobOK(Daemon, g, proc')
    BY <2>1, <2>3, <2>5 DEF JobOK, k
  <2>7. QED
    BY <2>3, <2>5, <2>6 DEF g
<1>10. JobsOK'
  <2>1. ASSUME NEW m \in Masters, job'[m] # NoJob PROVE JobOK(m, job'[m], proc')
    <3>1. CASE m = Daemon
      BY <1>4, <1>9, <2>1, <3>1
    <3>2. CASE m # Daemon
      <4>1. job'[m] = job[m] /\ JobOK(m, job[m], proc)
        BY <1>4, <2>1, <3>2 DEF IndInv, JobsOK
      <4>2. m \in Direct /\ m # u
        BY <3>2, AccessAssumption DEF Masters
      <4>3. QED
        BY <1>8, <3>2, <4>1, <4>2 DEF JobOK
    <3>3. QED
      BY <3>1, <3>2
  <2>2. QED
    BY <1>4, <2>1 DEF JobsOK
<1> HIDE DEF j
<1>11. QueueOK'
  <2>1. /\ queue \in Seq(Calls) /\ Len(queue) \in Nat /\ DOMAIN queue = 1 .. Len(queue)
        /\ \A i \in DOMAIN queue : CallOK(queue[i], proc) /\ queue[i].from \in Remote
    BY DEF IndInv, QueueOK
  <2>2. \A i \in DOMAIN queue : /\ queue'[i] \in Calls /\ CallOK(queue'[i], proc')
                                /\ queue'[i].from = queue[i].from
                                /\ queue'[i].live => queue[i].live
    BY <1>5, <1>7, <2>1
  <2>3. DOMAIN queue' = DOMAIN queue /\ queue' \in Seq(Calls)
    BY <1>5, <2>1, <2>2
  <2>4. \A i, k \in DOMAIN queue' :
          queue'[i].live /\ queue'[k].live /\ queue'[i].from = queue'[k].from => i = k
    BY <2>2, <2>3 DEF IndInv, QueueOK
  <2>5. \A i \in DOMAIN queue' :
          job'[Daemon] # NoJob /\ job'[Daemon].call.live /\ queue'[i].live
            => queue'[i].from # job'[Daemon].call.from
    BY <1>4, <1>9, <2>2, <2>3 DEF IndInv, QueueOK, j
  <2>6. QED
    BY <2>1, <2>2, <2>3, <2>4, <2>5 DEF QueueOK
<1>12. ValuesOK'
  BY <1>1 DEF IndInv, ValuesOK
<1>13. QED
  BY <1>6, <1>10, <1>11, <1>12 DEF IndInv

-----------------------------------------------------------------------------
(* The bus.                                                                *)

\* A master goes on with the same call.
LEMMA JobStepInv ==
  ASSUME IndInv, NEW m \in Masters, job[m] # NoJob, NEW j \in Jobs,
         job' = [job EXCEPT ![m] = j],
         j.call = job[m].call, j.pc = "write" <=> job[m].pc = "write",
         UNCHANGED <<proc, queue, had>>, ValuesOK'
  PROVE  IndInv'
<1>1. DOMAIN job = Masters /\ JobOK(m, job[m], proc)
  BY DEF IndInv, JobsOK
<1>2. DOMAIN job' = Masters /\ job'[m] = j /\ \A n \in Masters : n # m => job'[n] = job[n]
  BY <1>1
<1>3. JobOK(m, j, proc)
  BY <1>1 DEF JobOK
<1>4. JobsOK'
  BY <1>2, <1>3 DEF IndInv, JobsOK
<1>5. job[Daemon] = job'[Daemon] \/ (job[Daemon] # NoJob /\ job'[Daemon].call = job[Daemon].call)
  BY <1>2 DEF Masters
<1>6. QueueOK'
  BY <1>5 DEF IndInv, QueueOK
<1>7. ProcsOK'
  BY DEF IndInv, ProcsOK
<1>8. QED
  BY <1>4, <1>6, <1>7 DEF IndInv

LEMMA ReadFailedInv ==
  ASSUME IndInv, NEW m \in Masters, job[m] # NoJob, job[m].pc # "write",
         ReadFailed(m), UNCHANGED <<val, had>>, ValuesOK'
  PROVE  IndInv'
<1> DEFINE j == job[m]
           g == job'[m]
<1>1. DOMAIN job = Masters /\ j \in Jobs
  BY DEF IndInv, JobsOK, JobOK
<1>2. CASE j.tries > 1
  <2>1. job' = [job EXCEPT ![m].tries = @ - 1, ![m].pc = "request"] /\ UNCHANGED <<proc, queue>>
    BY <1>2 DEF ReadFailed
  <2>2. job' = [job EXCEPT ![m] = g] /\ g = [j EXCEPT !.tries = @ - 1, !.pc = "request"]
    BY <1>1, <2>1
  <2>3. j.pc # "write"
    OBVIOUS
  <2> HIDE DEF j, g
  <2>4. g \in Jobs /\ g.call = j.call /\ g.pc = "request"
    <3>1. j.tries - 1 \in 1 .. RETRYS
      BY <1>1, <1>2 DEF Jobs, RETRYS
    <3>2. QED
      BY <1>1, <2>2, <3>1 DEF Jobs
  <2>5. QED
    BY <2>1, <2>2, <2>3, <2>4, JobStepInv DEF j
<1>3. CASE ~(j.tries > 1)
  <2>1. PICK v \in Garbage : Done(m, AfterRead(Caller(m), -1, v, v))
    BY <1>3 DEF ReadFailed
  <2> DEFINE p == AfterRead(Caller(m), -1, v, v)
  <2>2. ASSUME j.call.live PROVE ProcOK(j.call.from, p, had)
    <3>1. /\ ProcOK(j.call.from, Caller(m), had) /\ Caller(m).pc # "idle"
          /\ Caller(m).pc # "write"
      BY <2>2, CallerFacts
    <3>2. Caller(m).pc \in {"read", "show"}
      BY <3>1 DEF ProcOK, States
    <3>3. -1 \in Int /\ ~(-1 >= 0)
      OBVIOUS
    <3>4. QED
      BY <3>1, <3>2, <3>3, AfterReadOK
  <2> HIDE DEF p
  <2>3. Done(m, p)
    BY <2>1 DEF p
  <2>4. QED
    BY <2>2, <2>3, DoneInv
<1>4. QED
  BY <1>2, <1>3

LEMMA RequestInv ==
  ASSUME IndInv, NEW m \in Masters, Request(m)
  PROVE  IndInv'
<1> DEFINE j == job[m]
           g == job'[m]
           c == j.call.ctrl
<1>1. j # NoJob /\ j.pc = "request" /\ UNCHANGED <<val, had>>
  BY DEF Request
<1>2. CASE ReadFailed(m) /\ UNCHANGED reg
  <2>1. ValuesOK'
    BY <1>1, <1>2 DEF IndInv, ValuesOK
  <2>2. QED
    BY <1>1, <1>2, <2>1, ReadFailedInv
<1>3. CASE /\ reg' = ReplyFor(c) \/ UNCHANGED reg
           /\ job' = [job EXCEPT ![m].pc = "reply"]
           /\ UNCHANGED <<proc, queue>>
  <2>1. DOMAIN job = Masters /\ j \in Jobs /\ c \in Controls
    BY <1>1 DEF IndInv, JobsOK, JobOK, CallOK, Calls
  <2>2. ValuesOK'
    <3>1. CASE reg' = ReplyFor(c)
      <4>1. reg'.ctrl = c /\ reg'.value = val[c] /\ reg'.max = Maximum[c]
        BY <3>1 DEF ReplyFor
      <4> HIDE DEF c
      <4>2. QED
        BY <1>1, <2>1, <4>1 DEF IndInv, ValuesOK
    <3>2. CASE UNCHANGED reg
      BY <1>1, <3>2 DEF IndInv, ValuesOK
    <3>3. QED
      BY <1>3, <3>1, <3>2
  <2>3. job' = [job EXCEPT ![m] = g] /\ g = [j EXCEPT !.pc = "reply"]
    BY <1>3, <2>1
  <2> HIDE DEF j, g, c
  <2>4. g \in Jobs /\ g.call = j.call /\ g.pc = "reply"
    BY <2>1, <2>3 DEF Jobs
  <2>5. QED
    BY <1>1, <1>3, <2>2, <2>3, <2>4, JobStepInv DEF j
<1>4. QED
  BY <1>2, <1>3 DEF Request

LEMMA ReplyInv ==
  ASSUME IndInv, NEW m \in Masters, Reply(m)
  PROVE  IndInv'
<1> DEFINE p == AfterRead(Caller(m), 1, reg.value, reg.max)
<1>1. job[m] # NoJob /\ job[m].pc = "reply" /\ UNCHANGED <<val, had, reg>>
  BY DEF Reply
<1>2. ValuesOK'
  BY <1>1 DEF IndInv, ValuesOK
<1>3. CASE ReadFailed(m)
  BY <1>1, <1>2, <1>3, ReadFailedInv
<1>4. CASE ValidReply(m) /\ Done(m, p)
  <2>1. ASSUME job[m].call.live PROVE ProcOK(job[m].call.from, p, had)
    <3> DEFINE q == Caller(m)
    <3>1. /\ ProcOK(job[m].call.from, q, had) /\ q.pc # "idle" /\ q.pc # "write"
          /\ job[m].call.ctrl = Item(q).ctrl
      BY <1>1, <2>1, CallerFacts
    <3>2. q.pc \in {"read", "show"}
      BY <3>1 DEF ProcOK, States
    <3>3. /\ had[Item(q).ctrl] \subseteq Nat
          /\ reg.value \in had[Item(q).ctrl] /\ reg.max = Maximum[Item(q).ctrl]
      BY <1>4, <3>1 DEF ValidReply, IndInv, ValuesOK
    <3>4. 1 \in Int
      OBVIOUS
    <3> HIDE DEF q
    <3>5. ProcOK(job[m].call.from, AfterRead(q, 1, reg.value, reg.max), had)
      BY <3>1, <3>2, <3>3, <3>4, AfterReadOK
    <3>6. QED
      BY <3>5 DEF q
  <2> HIDE DEF p
  <2>2. QED
    BY <1>1, <1>2, <1>4, <2>1, DoneInv
<1>5. QED
  BY <1>3, <1>4 DEF Reply

\* What a write that goes out leaves in the monitor.
LEMMA WrittenValues ==
  ASSUME IndInv, NEW m \in Masters, job[m] # NoJob, job[m].pc = "write",
         \/ val' = [val EXCEPT ![job[m].call.ctrl] = job[m].call.value]
         \/ UNCHANGED val,
         had' = [c \in Controls |-> had[c] \cup {val'[c]}], UNCHANGED reg
  PROVE  ValuesOK' /\ \A c \in Controls : had[c] \subseteq had'[c]
<1> DEFINE ctrl == job[m].call.ctrl
           v == job[m].call.value
<1>1. ctrl \in Controls /\ v \in Nat /\ Fine(ctrl, v)
  BY DEF IndInv, JobsOK, JobOK, CallOK, Calls
<1>2. /\ val \in [Controls -> Nat] /\ had \in [Controls -> SUBSET Nat]
      /\ \A c \in Controls : val[c] \in had[c] /\ Fine(c, val[c])
      /\ reg # NoReply => /\ reg.ctrl \in Controls
                          /\ reg.value \in had[reg.ctrl] /\ reg.max = Maximum[reg.ctrl]
  BY DEF IndInv, ValuesOK
<1> HIDE DEF ctrl, v
<1>3. val' \in [Controls -> Nat] /\ \A c \in Controls : Fine(c, val'[c])
  <2>1. CASE val' = [val EXCEPT ![ctrl] = v]
    <3>1. \A c \in Controls : val'[c] = IF c = ctrl THEN v ELSE val[c]
      BY <1>2, <2>1
    <3>2. QED
      BY <1>1, <1>2, <2>1, <3>1
  <2>2. CASE UNCHANGED val
    BY <1>2, <2>2
  <2>3. QED
    BY <2>1, <2>2 DEF ctrl, v
<1>4. /\ had' \in [Controls -> SUBSET Nat]
      /\ \A c \in Controls : had[c] \subseteq had'[c] /\ val'[c] \in had'[c]
  BY <1>2, <1>3
<1>5. ValuesOK'
  BY <1>2, <1>3, <1>4 DEF ValuesOK, Fine, OpsInRange
<1>6. QED
  BY <1>4, <1>5

\* The process whose write went out is where it was, and has sent the item.
LEMMA SenderOK ==
  ASSUME IndInv, NEW m \in Masters, job[m] # NoJob, job[m].pc = "write", job[m].call.live
  PROVE  LET q == Sender(m)
         IN /\ ProcOK(job[m].call.from, q, had) /\ q.pc = "write"
            /\ q.op.kind = "apply" => Item(q) \in q.sent
<1> DEFINE q == Sender(m)
           p == Caller(m)
           u == job[m].call.from
           ctrl == job[m].call.ctrl
           v == job[m].call.value
           S == p.sent \cup {[ctrl |-> ctrl, arg |-> v]}
<1>1. /\ u \in Procs /\ ProcOK(u, p, had) /\ p.pc = "write"
      /\ ctrl = Item(p).ctrl /\ v = p.value
  BY CallerFacts
<1>2. q = [p EXCEPT !.sent = S]
  BY DEF Sender
<1>3. p \in States /\ p.sent \in SUBSET [ctrl : Controls, arg : Int] /\ p.i \in Nat
  BY <1>1 DEF ProcOK, States
<1>4. /\ p.op \in Ops /\ p.i \in DOMAIN p.op.items /\ p.op.kind \in Kinds
      /\ Item(p) \in [ctrl : Controls, arg : Args(p.op.kind)]
  BY <1>1, OpFacts DEF ProcOK, Item
<1>5. ctrl \in Controls /\ v \in Int
  BY <1>1, <1>4 DEF ProcOK, WriteOK
<1>6. p.op.kind = "apply" => Item(p) \in S
  <2> SUFFICES ASSUME p.op.kind = "apply" PROVE Item(p) = [ctrl |-> ctrl, arg |-> v]
    OBVIOUS
  <2>1. v = Item(p).arg
    BY <1>1 DEF ProcOK, WriteOK
  <2>2. QED
    BY <1>1, <1>4, <2>1
<1>7. S \in SUBSET [ctrl : Controls, arg : Int]
  BY <1>3, <1>5
<1>8. p.sent \subseteq S
  OBVIOUS
<1> HIDE DEF q, p, u, S, ctrl, v
<1>9. /\ q \in States
      /\ q = [pc |-> p.pc, op |-> p.op, i |-> p.i, tries |-> p.tries, value |-> p.value,
              busy |-> p.busy, report |-> p.report, sent |-> S]
  BY <1>2, <1>3, <1>7, SentFields
<1>10. /\ q.pc = "write" /\ q.op = p.op /\ q.i = p.i /\ q.value = p.value /\ q.busy = p.busy
       /\ q.report = p.report /\ q.sent = S
  BY <1>1, <1>9
<1>11. Item(q) = Item(p)
  BY <1>10 DEF Item
<1>12. WriteOK(q, had)
  BY <1>1, <1>10, <1>11 DEF ProcOK, WriteOK
<1>13. ProcOK(u, q, had)
  BY <1>1, <1>8, <1>9, <1>10, <1>12 DEF ProcOK
<1>14. QED
  BY <1>6, <1>10, <1>11, <1>13 DEF q, u

LEMMA WriteInv ==
  ASSUME IndInv, NEW m \in Masters, Write(m)
  PROVE  IndInv'
<1> DEFINE p == Caller(m)
           q == Sender(m)
           u == job[m].call.from
           missed == WriteResult(m, FALSE)
           out == WriteResult(m, TRUE)
<1>1. job[m] # NoJob /\ job[m].pc = "write" /\ UNCHANGED reg
  BY DEF Write
<1>2. /\ out \in Int /\ missed \in Int
      /\ m # Daemon => missed < 0
  BY DEF WriteResult
<1>3. CASE Done(m, AfterWrite(p, missed)) /\ UNCHANGED <<val, had>>
  <2>1. ASSUME job[m].call.live PROVE ProcOK(u, AfterWrite(p, missed), had)
    <3>1. ProcOK(u, p, had) /\ p.pc = "write" /\ (m = Daemon => u \notin Direct)
      BY <1>1, <2>1, CallerFacts
    <3> HIDE DEF p, u, missed
    <3>2. u \in Direct => ~(missed >= 0)
      BY <1>2, <3>1
    <3>3. QED
      BY <1>2, <3>1, <3>2, AfterWriteOK
  <2>2. ValuesOK'
    BY <1>1, <1>3 DEF IndInv, ValuesOK
  <2> DEFINE a == AfterWrite(p, missed)
  <2>3. Done(m, a) /\ (job[m].call.live => ProcOK(u, a, had))
    BY <1>3, <2>1
  <2> HIDE DEF a
  <2>4. QED
    BY <1>1, <1>3, <2>2, <2>3, DoneInv
<1>4. CASE /\ Done(m, AfterWrite(q, out))
           /\ \/ val' = [val EXCEPT ![job[m].call.ctrl] = job[m].call.value]
              \/ UNCHANGED val
           /\ had' = [c \in Controls |-> had[c] \cup {val'[c]}]
  <2>1. ValuesOK' /\ \A c \in Controls : had[c] \subseteq had'[c]
    BY <1>1, <1>4, WrittenValues
  <2> DEFINE a == AfterWrite(q, out)
  <2>2. ASSUME job[m].call.live PROVE ProcOK(u, a, had')
    <3>1. ProcOK(u, q, had) /\ q.pc = "write" /\ (q.op.kind = "apply" => Item(q) \in q.sent)
      BY <1>1, <2>2, SenderOK
    <3> HIDE DEF q, u, out
    <3>2. ProcOK(u, a, had)
      BY <1>2, <3>1, AfterWriteOK
    <3> HIDE DEF a
    <3>3. QED
      BY <2>1, <3>2, HadGrows
  <2>3. Done(m, a)
    BY <1>4
  <2> HIDE DEF a
  <2>4. QED
    BY <1>1, <2>1, <2>2, <2>3, DoneInv
<1>5. QED
  BY <1>3, <1>4 DEF Write

-----------------------------------------------------------------------------
(* Theorems.                                                               *)

LEMMA NextInv == IndInv /\ [Next]_vars => IndInv'
<1> SUFFICES ASSUME IndInv, [Next]_vars PROVE IndInv'
  OBVIOUS
<1>1. ASSUME NEW m \in Masters, BusStep(m) PROVE IndInv'
  BY <1>1, RequestInv, ReplyInv, WriteInv DEF BusStep
<1>2. ASSUME NEW u \in Procs, NEW op \in Ops, Begin(u, op) PROVE IndInv'
  BY <1>2, BeginInv
<1>3. ASSUME NEW u \in Procs, ProcStep(u) PROVE IndInv'
  BY <1>1, <1>3, EnterInv DEF ProcStep, Masters
<1>4. ASSUME NEW u \in Remote, Timeout(u) PROVE IndInv'
  BY <1>4, TimeoutInv
<1>5. CASE DaemonStep
  BY <1>1, <1>5, ServeInv, RefuseInv DEF DaemonStep, Masters
<1>6. CASE UNCHANGED vars
  BY <1>6 DEF vars, IndInv, ValuesOK, ProcsOK, JobsOK, QueueOK
<1>7. QED
  BY <1>2, <1>3, <1>4, <1>5, <1>6 DEF Next

\* The calls, the jobs and the processes agree in every state: a process
\* waits for one call at most, and the call carries the control and the
\* value of the item the process is at.
THEOREM Invariance == Spec => []IndInv
BY InitInv, NextInv, PTL DEF Spec

\* ddcci_readctrl, main.c -W: for any number of processes and of masters of
\* the bus, a difference is added to a value that its own control has had.
THEOREM DifferenceOfOwnValue == Spec => []BaseIsOwnValue
<1>1. IndInv => BaseIsOwnValue
  BY DEF IndInv, ProcsOK, ProcOK, WriteOK, BaseIsOwnValue
<1>2. QED
  BY <1>1, Invariance, PTL

\* ddcci_apply_profile: for any profile, of any number of controls, what a
\* process that drives the bus itself reports as applied was sent completely.
THEOREM AppliedWasSent == Spec => []DirectIsWritten
<1>1. IndInv => DirectIsWritten
  BY DEF IndInv, ProcsOK, ProcOK, DirectIsWritten, WrittenBy, Procs
<1>2. QED
  BY <1>1, Invariance, PTL

\* main.c, conf.c: if the values of -w and of profiles are in the range of
\* their controls, which the code takes for granted, then relative changes
\* and toggles of any processes in between leave every control in its range.
THEOREM ValuesStayInRange ==
  ASSUME OpsInRange
  PROVE  Spec => []InRange
<1>1. IndInv => InRange
  <2> SUFFICES ASSUME IndInv PROVE InRange
    OBVIOUS
  <2>1. \A c \in Controls : val[c] \in Nat /\ val[c] \in had[c] /\ val[c] \in 0 .. Maximum[c]
    BY AccessAssumption DEF IndInv, ValuesOK, Fine
  <2>2. reg # NoReply => reg.ctrl \in Controls
    BY DEF IndInv, ValuesOK
  <2>3. \A u \in Procs : /\ proc[u].pc \in {"idle", "read", "write", "show"}
                         /\ proc[u].tries \in 1 .. RETRYS
                         /\ proc[u].pc = "write" => proc[u].value \in Nat
    BY DEF IndInv, ProcsOK, ProcOK, States, WriteOK
  <2>4. \A m \in Masters : job[m] # NoJob => job[m].tries \in 1 .. RETRYS
    BY DEF IndInv, JobsOK, JobOK, Jobs
  <2>5. QED
    BY <2>1, <2>2, <2>3, <2>4 DEF InRange, TypeOK
<1>2. QED
  BY <1>1, Invariance, PTL
=============================================================================
