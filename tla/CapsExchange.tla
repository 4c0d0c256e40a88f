---------------------------- MODULE CapsExchange ----------------------------
(***************************************************************************)
(* ddcci_caps() of src/src/lib/ddcci.c: the capability string of a monitor *)
(* is fetched in fragments, each by a request that names a 16-bit offset   *)
(* and a reply that echoes it.  The bus loses and corrupts frames, and a   *)
(* monitor that missed a request answers the next read with the reply it   *)
(* still holds, which may be the answer to an older request.               *)
(*                                                                         *)
(* A byte string is a record of its length and its bytes, counted from 0   *)
(* as in the C buffer.                                                     *)
(***************************************************************************)
EXTENDS Integers

CONSTANTS
  Byte,             \* the bytes a capability string is made of
  Contents,         \* the capability strings a monitor may hold
  Malformed,        \* those ddcci_normalize_caps or the parser rejects
  Binary,           \* bytes of the payloads bin(n(...)) of the strings
  Hash,             \* '#', which masks them
  MaxCaps,          \* max_caps_length, 0xffff in the code
  BufFragment,      \* the longest fragment unsigned char buf[64] can hold
  MonitorFragment,  \* the longest fragment the monitor sends
  MaxCalls,         \* bound: how often ddcci_caps is called
  NullCaps,         \* mon->caps.raw_caps = NULL
  NoReply           \* nothing (or no caps reply) to be read from the monitor

Text(n, f) == [len |-> n, at |-> f]

IsText(t) == /\ t = Text(t.len, t.at)
             /\ t.len \in Nat
             /\ t.at \in [0 .. t.len - 1 -> Byte]

ASSUME ContentsAssumption == \A t \in Contents : IsText(t)
ASSUME LimitsAssumption ==
  /\ MaxCaps \in Nat
  /\ BufFragment \in Nat
  /\ MonitorFragment \in Nat \ {0}
  /\ MaxCalls \in Nat
RETRIES == 3        \* int retries = 3

VARIABLES
  content,    \* the string the monitor holds; ddcci_caps never changes it
  reg,        \* the reply the monitor holds for the next read
  pc,         \* where ddcci_caps is: "idle", "request" or "reply"
  bufferpos,  \* bytes received so far
  raw,        \* the local buffer raw_caps
  retries,    \* attempts left for the current fragment
  raw_caps,   \* mon->caps.raw_caps
  calls,      \* calls made so far
  requests    \* requests written by the current call (history)

vars == <<content, reg, pc, bufferpos, raw, retries, raw_caps, calls, requests>>

EmptyText == Text(0, [i \in 0 .. -1 |-> CHOOSE b \in Byte : TRUE])

-----------------------------------------------------------------------------
(* The monitor.                                                            *)

\* The bytes from offset o on, n of them.
Slice(t, o, n) == Text(n, [i \in 0 .. n - 1 |-> t.at[o + i]])

\* What the monitor may answer to a request at offset o: at least one byte
\* while there are any, an empty fragment from the end on.
RepliesAt(o) ==
  IF o < content.len
  THEN { [offset |-> o, frag |-> Slice(content, o, n)] :
           n \in {m \in 1 .. MonitorFragment : o + m <= content.len} }
  ELSE { [offset |-> o, frag |-> EmptyText] }

-----------------------------------------------------------------------------
(* ddcci_caps.                                                             *)

Init ==
  /\ content \in Contents
  \* the monitor may still hold a reply to a request of an earlier session
  /\ reg \in {NoReply} \cup UNION { RepliesAt(o) : o \in 0 .. MaxCaps }
  /\ pc = "idle"
  /\ bufferpos = 0
  /\ raw = EmptyText
  /\ retries = RETRIES
  /\ raw_caps = NullCaps
  /\ calls = 0
  /\ requests = 0

\* Variant of Call that keeps the string of the previous call.
CallKeepsOld ==
  /\ pc = "idle"
  /\ calls < MaxCalls
  /\ calls' = calls + 1
  /\ raw' = EmptyText
  /\ bufferpos' = 0
  /\ retries' = RETRIES
  /\ requests' = 0
  /\ pc' = "request"
  /\ UNCHANGED <<content, reg, raw_caps>>

\* free(mon->caps.raw_caps), and raw_caps = malloc(1) succeeds.
Call ==
  /\ pc = "idle"
  /\ calls < MaxCalls
  /\ calls' = calls + 1
  /\ raw_caps' = NullCaps
  /\ raw' = EmptyText
  /\ bufferpos' = 0
  /\ retries' = RETRIES
  /\ requests' = 0
  /\ pc' = "request"
  /\ UNCHANGED <<content, reg>>

\* malloc(1) fails: the old string is already gone.
CallOutOfMemory ==
  /\ pc = "idle"
  /\ calls < MaxCalls
  /\ calls' = calls + 1
  /\ raw_caps' = NullCaps
  /\ UNCHANGED <<content, reg, pc, bufferpos, raw, retries, requests>>

\* The label fail: the local buffer is freed, nothing is published.
Fail ==
  /\ pc' = "idle"
  /\ raw' = EmptyText
  /\ bufferpos' = 0
  /\ UNCHANGED <<content, reg, retries, raw_caps, calls, requests>>

\* Variant of GiveUp that tests for the wrong end of the count.
GiveUpBelowZero ==
  /\ pc = "request"
  /\ retries < 0
  /\ Fail

\* if (retries == 0) goto fail
GiveUp ==
  /\ pc = "request"
  /\ retries = 0
  /\ Fail

\* Variant of Retry that does not count the attempt.
RetryUncounted ==
  /\ pc' = "request"
  /\ UNCHANGED <<content, reg, bufferpos, raw, retries, raw_caps, calls>>

\* retries--; continue
Retry ==
  /\ retries' = retries - 1
  /\ pc' = "request"
  /\ UNCHANGED <<content, reg, bufferpos, raw, raw_caps, calls>>

\* ddcci_write fails in ddcci_raw_caps.
WriteFails ==
  /\ pc = "request"
  /\ retries > 0
  /\ requests' = requests + 1
  /\ Retry

\* ddcci_write succeeds; the monitor takes the request, or misses it and
\* keeps the reply it had.
WriteRequest ==
  /\ pc = "request"
  /\ retries > 0
  /\ requests' = requests + 1
  /\ \/ reg' \in RepliesAt(bufferpos)
     \/ UNCHANGED reg
  /\ pc' = "reply"
  /\ UNCHANGED <<content, bufferpos, raw, retries, raw_caps, calls>>

\* ddcci_read fails: an i2c error, a bad frame, a fragment buf cannot hold,
\* or a reply that is no capabilities reply.
ReadFails ==
  /\ pc = "reply"
  /\ UNCHANGED requests
  /\ Retry

\* Variant of ValidReply that does not look at the echoed offset.
AnyReply(r) == r.offset \in Nat

\* ddccontrol_ddcci_parse_caps_reply: the reply answers this request.
ValidReply(r) == r.offset = bufferpos

ReadInvalid ==
  /\ pc = "reply"
  /\ reg # NoReply
  /\ ~ValidReply(reg)
  /\ UNCHANGED requests
  /\ Retry

\* Variant of TooLong without the limit.
NeverTooLong(r) == r.frag.len < 0

\* fragment_len > max_caps_length - bufferpos
TooLong(r) == r.frag.len > MaxCaps - bufferpos

\* memcpy(raw_caps + bufferpos, buf + 3, fragment_len)
Joined(t, f) == Text(t.len + f.len,
                     [i \in 0 .. t.len + f.len - 1 |->
                        IF i < t.len THEN t.at[i] ELSE f.at[i - t.len]])

Readable == /\ pc = "reply"
            /\ reg # NoReply
            /\ reg.frag.len <= BufFragment
            /\ ValidReply(reg)

ReadFragment ==
  /\ Readable
  /\ reg.frag.len > 0
  /\ ~TooLong(reg)
  /\ raw' = Joined(raw, reg.frag)
  /\ bufferpos' = bufferpos + reg.frag.len
  /\ retries' = RETRIES
  /\ pc' = "request"
  /\ UNCHANGED <<content, reg, raw_caps, calls, requests>>

\* The string outgrows the 16-bit offset, or realloc fails.
ReadFragmentFails ==
  /\ Readable
  /\ reg.frag.len > 0
  /\ Fail

\* ddcci_normalize_caps: a binary payload is masked byte by byte.
Normalized(t) == Text(t.len, [i \in 0 .. t.len - 1 |->
                                IF t.at[i] \in Binary THEN Hash ELSE t.at[i]])

\* The empty fragment: normalize, parse, publish.
ReadEnd ==
  /\ Readable
  /\ reg.frag.len = 0
  /\ raw \notin Malformed
  /\ raw_caps' = Normalized(raw)
  /\ raw' = EmptyText
  /\ bufferpos' = 0
  /\ pc' = "idle"
  /\ UNCHANGED <<content, reg, retries, calls, requests>>

\* ddcci_normalize_caps or ddcci_parse_caps rejects the string.
ReadEndMalformed ==
  /\ Readable
  /\ reg.frag.len = 0
  /\ raw \in Malformed
  /\ Fail

Step == \/ GiveUp \/ WriteFails \/ WriteRequest \/ ReadFails \/ ReadInvalid
        \/ ReadFragment \/ ReadFragmentFails \/ ReadEnd \/ ReadEndMalformed

Next == Call \/ CallOutOfMemory \/ Step

SafeSpec == Init /\ [][Next]_vars

\* ddcci_caps is a plain loop: once called it runs until it returns.
Spec == SafeSpec /\ WF_vars(Step)

-----------------------------------------------------------------------------
(* Properties.                                                             *)

TypeOK ==
  /\ content \in Contents
  /\ pc \in {"idle", "request", "reply"}
  /\ bufferpos \in 0 .. MaxCaps
  /\ retries \in 0 .. RETRIES
  /\ pc = "reply" => retries > 0
  /\ calls \in 0 .. MaxCalls
  /\ requests \in Nat

\* Whatever the monitor holds is an honest answer to some request.
ReplyHonest ==
  reg # NoReply =>
    /\ reg.offset \in 0 .. MaxCaps
    /\ reg \in RepliesAt(reg.offset)

\* The local buffer is always the beginning of the monitor's string, of the
\* length the next request asks from: no fragment is lost, repeated or
\* taken from a reply to an older request (ddcci.c, the loop of ddcci_caps).
BufferIsPrefix ==
  /\ bufferpos <= content.len
  /\ raw = Slice(content, 0, bufferpos)

\* mon->caps.raw_caps is NULL or the whole string of the monitor, its binary
\* payloads masked, and one that parsed: never a prefix, and never while a call is under way.
CapsWhole ==
  raw_caps # NullCaps =>
    /\ pc = "idle"
    /\ raw_caps = Normalized(content)
    /\ content \notin Malformed
    /\ content.len <= MaxCaps

\* Neither the buffer nor what is published ever holds anything but text of
\* the monitor, in its place.
StringIsOwn == BufferIsPrefix /\ CapsWhole

\* Every fragment costs at most three requests, however the bus behaves, so
\* a call writes at most three requests per byte and three for the end.
RequestsBounded ==
  requests <= RETRIES * bufferpos + (RETRIES - retries) + (IF pc = "reply" THEN 1 ELSE 0)
    \/ pc = "idle"

RequestsTotal == requests <= RETRIES * (MaxCaps + 1)

\* The conjunction that a step preserves (CapsExchangeProofs).
IndInv == TypeOK /\ ReplyHonest /\ BufferIsPrefix /\ CapsWhole
            /\ RequestsBounded /\ RequestsTotal

\* ddcci_caps implements the one-step read of CapsRead.
Fits(t) == t.len <= MaxCaps /\ t \notin Malformed
Atomic == INSTANCE CapsRead WITH busy <- (pc # "idle"), Acceptable <- Fits, Normal <- Normalized
AtomicSpec == Atomic!Spec

\* A call returns, whatever is lost on the bus.
CallReturns == pc # "idle" ~> pc = "idle"
=============================================================================
