---------------------------- MODULE DdcciProofs ----------------------------
(***************************************************************************)
(* Proofs about two parts of src/src/lib/ddcci.c: CapsExchange, for every  *)
(* alphabet, every set of capability strings, every limit and every number *)
(* of calls, and DdcDelay, for any length of a second, delay, sleeps and   *)
(* width of unsigned long that TimeAssumption allows.                      *)
(***************************************************************************)
EXTENDS CapsExchange, DdcDelay, TLAPS

(***************************************************************************)
(* A fragment the monitor sends for the offset the buffer has reached      *)
(* extends the prefix received so far to a longer prefix of the same       *)
(* string: the memcpy of ddcci_caps leaves neither hole nor overlap.       *)
(***************************************************************************)
LEMMA JoinExtendsPrefix ==
  ASSUME NEW t, IsText(t), NEW o \in Nat, NEW n \in Nat, o + n <= t.len
  PROVE  Joined(Slice(t, 0, o), Slice(t, o, n)) = Slice(t, 0, o + n)
<1> DEFINE A == Slice(t, 0, o)
           B == Slice(t, o, n)
<1>1. A.len = o /\ B.len = n
  BY DEF Slice, Text
<1>2. \A i \in 0 .. o - 1 : A.at[i] = t.at[i]
  BY DEF Slice, Text
<1>3. \A i \in 0 .. n - 1 : B.at[i] = t.at[o + i]
  BY DEF Slice, Text
<1>4. \A i \in 0 .. o + n - 1 :
        (IF i < o THEN A.at[i] ELSE B.at[i - o]) = t.at[0 + i]
  BY <1>2, <1>3
<1>5. [i \in 0 .. o + n - 1 |-> IF i < o THEN A.at[i] ELSE B.at[i - o]]
        = [i \in 0 .. o + n - 1 |-> t.at[0 + i]]
  BY <1>4
<1>6. Slice(t, 0, o + n) = Text(o + n, [i \in 0 .. o + n - 1 |-> t.at[0 + i]])
  BY DEF Slice
<1>7. Joined(A, B) = Slice(t, 0, o + n)
  <2> HIDE DEF A, B
  <2>1. Joined(A, B) = Text(o + n, [i \in 0 .. o + n - 1 |->
                              IF i < o THEN A.at[i] ELSE B.at[i - o]])
    BY <1>1 DEF Joined
  <2>2. QED
    BY <2>1, <1>5, <1>6
<1>8. QED
  BY <1>7

\* The whole string is its own prefix of full length.
LEMMA FullPrefix ==
  ASSUME NEW t, IsText(t)
  PROVE  Slice(t, 0, t.len) = t
<1>1. \A i \in 0 .. t.len - 1 : t.at[0 + i] = t.at[i]
  BY DEF IsText
<1>2. t.at = [i \in 0 .. t.len - 1 |-> t.at[0 + i]]
  BY <1>1 DEF IsText
<1>3. QED
  BY <1>2 DEF IsText, Slice, Text

\* The empty buffer a call starts from is the prefix of length 0.
LEMMA EmptyPrefix ==
  ASSUME NEW t
  PROVE  EmptyText = Slice(t, 0, 0)
<1>1. \A i \in 0 .. -1 : FALSE
  OBVIOUS
<1>2. [i \in 0 .. -1 |-> CHOOSE b \in Byte : TRUE] = [i \in 0 .. 0 - 1 |-> t.at[0 + i]]
  BY <1>1
<1>3. QED
  BY <1>2 DEF EmptyText, Slice, Text

\* What the reply to a request at offset o looks like.
LEMMA ReplyShape ==
  ASSUME content \in Contents, NEW o \in Nat, NEW r \in RepliesAt(o)
  PROVE  /\ r.offset = o
         /\ r.frag.len \in Nat
         /\ r.frag.len > 0 => /\ o + r.frag.len <= content.len
                              /\ r.frag = Slice(content, o, r.frag.len)
         /\ r.frag.len = 0 => o >= content.len
<1>0. content.len \in Nat
  BY ContentsAssumption DEF IsText
<1>1. CASE o < content.len
  <2>1. PICK n \in 1 .. MonitorFragment :
          o + n <= content.len /\ r = [offset |-> o, frag |-> Slice(content, o, n)]
    BY <1>1 DEF RepliesAt
  <2>2. r.frag.len = n
    BY <2>1 DEF Slice, Text
  <2>3. QED
    BY <2>1, <2>2, LimitsAssumption
<1>2. CASE ~(o < content.len)
  <2>1. r = [offset |-> o, frag |-> EmptyText]
    BY <1>2 DEF RepliesAt
  <2>2. r.frag.len = 0
    BY <2>1 DEF EmptyText, Text
  <2>3. QED
    BY <2>1, <2>2, <1>0, <1>2
<1>3. QED
  BY <1>1, <1>2

-----------------------------------------------------------------------------
(* The invariant.                                                          *)

LEMMA InitInv == Init => IndInv
<1> SUFFICES ASSUME Init PROVE IndInv
  OBVIOUS
<1>0. IsText(content)
  BY ContentsAssumption DEF Init
<1>1. TypeOK
  BY LimitsAssumption DEF Init, TypeOK, RETRIES
<1>2. ReplyHonest
  <2> SUFFICES ASSUME reg # NoReply
               PROVE reg.offset \in 0 .. MaxCaps /\ reg \in RepliesAt(reg.offset)
    BY DEF ReplyHonest
  <2>1. PICK o \in 0 .. MaxCaps : reg \in RepliesAt(o)
    BY DEF Init
  <2>2. reg.offset = o
    BY <2>1, ReplyShape, LimitsAssumption DEF Init
  <2>3. QED
    BY <2>1, <2>2
<1>3. BufferIsPrefix
  BY <1>0, EmptyPrefix DEF Init, BufferIsPrefix, IsText
<1>4. CapsWhole
  BY DEF Init, CapsWhole
<1>5. RequestsBounded /\ RequestsTotal
  BY LimitsAssumption DEF Init, RequestsBounded, RequestsTotal, RETRIES
<1>6. QED
  BY <1>1, <1>2, <1>3, <1>4, <1>5 DEF IndInv

\* The label fail forgets the buffer and publishes nothing.
LEMMA FailInv ==
  ASSUME IndInv, Fail, pc # "idle"
  PROVE  IndInv'
<1>0. IsText(content)
  BY ContentsAssumption DEF IndInv, TypeOK
<1>1. TypeOK'
  BY LimitsAssumption DEF IndInv, TypeOK, Fail
<1>2. ReplyHonest'
  BY DEF IndInv, ReplyHonest, Fail, RepliesAt
<1>3. BufferIsPrefix'
  BY <1>0, EmptyPrefix DEF Fail, BufferIsPrefix, IsText
<1>4. CapsWhole'
  BY DEF IndInv, CapsWhole, Fail
<1>5. RequestsBounded' /\ RequestsTotal'
  BY DEF IndInv, RequestsBounded, RequestsTotal, Fail
<1>6. QED
  BY <1>1, <1>2, <1>3, <1>4, <1>5 DEF IndInv

\* A failed attempt costs one retry and keeps everything received.
LEMMA RetryInv ==
  ASSUME IndInv, Retry, retries > 0, pc # "idle",
         requests' = IF pc = "reply" THEN requests ELSE requests + 1
  PROVE  IndInv'
<1>1. TypeOK'
  BY DEF IndInv, TypeOK, Retry, RETRIES
<1>2. ReplyHonest'
  BY DEF IndInv, ReplyHonest, Retry, RepliesAt
<1>3. BufferIsPrefix'
  BY DEF IndInv, BufferIsPrefix, Retry
<1>4. CapsWhole'
  BY DEF IndInv, CapsWhole, Retry
<1>5. RequestsBounded' /\ RequestsTotal'
  BY LimitsAssumption
  DEF IndInv, TypeOK, RequestsBounded, RequestsTotal, Retry, RETRIES
<1>6. QED
  BY <1>1, <1>2, <1>3, <1>4, <1>5 DEF IndInv

\* Accepting a fragment: this is where the echoed offset is needed.
LEMMA ReadFragmentInv ==
  ASSUME IndInv, ReadFragment
  PROVE  IndInv'
<1> DEFINE f == reg.frag
<1>0. IsText(content)
  BY ContentsAssumption DEF IndInv, TypeOK
<1>1. /\ f.len \in Nat /\ f.len > 0
      /\ bufferpos + f.len <= content.len
      /\ f = Slice(content, bufferpos, f.len)
  <2>1. reg \in RepliesAt(bufferpos) /\ content \in Contents /\ bufferpos \in Nat
    BY LimitsAssumption
    DEF IndInv, TypeOK, ReplyHonest, ReadFragment, Readable, ValidReply
  <2>2. QED
    BY <2>1, ReplyShape DEF ReadFragment
<1>2. bufferpos + f.len <= MaxCaps
  BY <1>1, LimitsAssumption DEF IndInv, TypeOK, ReadFragment, TooLong
<1>3. TypeOK'
  BY <1>1, <1>2, LimitsAssumption DEF IndInv, TypeOK, ReadFragment, RETRIES
<1>4. ReplyHonest'
  BY DEF IndInv, ReplyHonest, ReadFragment, RepliesAt
<1>5. BufferIsPrefix'
  <2>1. raw' = Joined(Slice(content, 0, bufferpos), Slice(content, bufferpos, f.len))
    BY <1>1 DEF IndInv, BufferIsPrefix, ReadFragment
  <2>2. raw' = Slice(content, 0, bufferpos + f.len)
    BY <2>1, <1>0, <1>1, JoinExtendsPrefix, LimitsAssumption DEF IndInv, TypeOK
  <2>3. QED
    BY <2>2, <1>1 DEF BufferIsPrefix, ReadFragment
<1>6. CapsWhole'
  BY DEF IndInv, CapsWhole, ReadFragment, Readable
<1>7. RequestsBounded' /\ RequestsTotal'
  BY <1>1, LimitsAssumption
  DEF IndInv, TypeOK, RequestsBounded, RequestsTotal, ReadFragment, Readable, RETRIES
<1>8. QED
  BY <1>3, <1>4, <1>5, <1>6, <1>7 DEF IndInv

\* Publishing: an empty fragment at the offset reached means the string is
\* complete, because the monitor sends one only from the end on.
LEMMA ReadEndInv ==
  ASSUME IndInv, ReadEnd
  PROVE  IndInv'
<1>0. IsText(content)
  BY ContentsAssumption DEF IndInv, TypeOK
<1>1. bufferpos >= content.len
  <2>1. reg \in RepliesAt(bufferpos) /\ content \in Contents /\ bufferpos \in Nat
    BY LimitsAssumption
    DEF IndInv, TypeOK, ReplyHonest, ReadEnd, Readable, ValidReply
  <2>2. QED
    BY <2>1, ReplyShape DEF ReadEnd
<1>2. bufferpos = content.len
  BY <1>0, <1>1, LimitsAssumption DEF IndInv, TypeOK, BufferIsPrefix, IsText
<1>3. raw = content
  BY <1>0, <1>2, FullPrefix DEF IndInv, BufferIsPrefix
<1>4. TypeOK'
  BY LimitsAssumption DEF IndInv, TypeOK, ReadEnd
<1>5. ReplyHonest'
  BY DEF IndInv, ReplyHonest, ReadEnd, RepliesAt
<1>6. BufferIsPrefix'
  BY <1>0, EmptyPrefix DEF ReadEnd, BufferIsPrefix, IsText
<1>7. CapsWhole'
  BY <1>2, <1>3 DEF IndInv, TypeOK, CapsWhole, ReadEnd
<1>8. RequestsBounded' /\ RequestsTotal'
  BY DEF IndInv, RequestsBounded, RequestsTotal, ReadEnd
<1>9. QED
  BY <1>4, <1>5, <1>6, <1>7, <1>8 DEF IndInv

LEMMA NextInv == IndInv /\ [Next]_vars => IndInv'
<1> SUFFICES ASSUME IndInv, [Next]_vars PROVE IndInv'
  OBVIOUS
<1>0. IsText(content)
  BY ContentsAssumption DEF IndInv, TypeOK
<1>1. CASE Call
  <2>1. TypeOK'
    BY <1>1, LimitsAssumption DEF IndInv, TypeOK, Call, RETRIES
  <2>2. ReplyHonest'
    BY <1>1 DEF IndInv, ReplyHonest, Call, RepliesAt
  <2>3. BufferIsPrefix'
    BY <1>0, <1>1, EmptyPrefix DEF BufferIsPrefix, Call, IsText
  <2>4. CapsWhole'
    BY <1>1 DEF CapsWhole, Call
  <2>5. RequestsBounded' /\ RequestsTotal'
    BY <1>1, LimitsAssumption DEF RequestsBounded, RequestsTotal, Call, RETRIES
  <2>6. QED
    BY <2>1, <2>2, <2>3, <2>4, <2>5 DEF IndInv
<1>2. CASE CallOutOfMemory
  BY <1>2, LimitsAssumption
  DEF IndInv, TypeOK, ReplyHonest, RepliesAt, BufferIsPrefix, CapsWhole,
      RequestsBounded, RequestsTotal, CallOutOfMemory
<1>3. CASE GiveUp
  BY <1>3, FailInv DEF GiveUp
<1>4. CASE WriteFails
  BY <1>4, RetryInv DEF WriteFails
<1>5. CASE WriteRequest
  <2>1. TypeOK'
    BY <1>5, LimitsAssumption DEF IndInv, TypeOK, WriteRequest
  <2>2. ReplyHonest'
    <3>1. CASE UNCHANGED reg
      BY <3>1, <1>5 DEF IndInv, ReplyHonest, RepliesAt, WriteRequest
    <3>2. CASE reg' \in RepliesAt(bufferpos)
      <4>1. reg'.offset = bufferpos /\ bufferpos \in 0 .. MaxCaps
        BY <3>2, ReplyShape, LimitsAssumption DEF IndInv, TypeOK
      <4>2. content' = content
        BY <1>5 DEF WriteRequest
      <4>3. RepliesAt(bufferpos)' = RepliesAt(bufferpos)
        BY <4>2, <1>5 DEF RepliesAt, WriteRequest
      <4>4. reg' \in RepliesAt(reg.offset)'
        BY <4>1, <4>2, <3>2 DEF RepliesAt
      <4>5. QED
        BY <4>1, <4>4 DEF ReplyHonest
    <3>3. QED
      BY <3>1, <3>2, <1>5 DEF WriteRequest
  <2>3. BufferIsPrefix'
    BY <1>5 DEF IndInv, BufferIsPrefix, WriteRequest
  <2>4. CapsWhole'
    BY <1>5 DEF IndInv, CapsWhole, WriteRequest
  <2>5. RequestsBounded' /\ RequestsTotal'
    BY <1>5, LimitsAssumption
    DEF IndInv, TypeOK, RequestsBounded, RequestsTotal, WriteRequest, RETRIES
  <2>6. QED
    BY <2>1, <2>2, <2>3, <2>4, <2>5 DEF IndInv
<1>6. CASE ReadFails
  BY <1>6, RetryInv DEF ReadFails, IndInv, TypeOK
<1>7. CASE ReadInvalid
  BY <1>7, RetryInv DEF ReadInvalid, IndInv, TypeOK
<1>8. CASE ReadFragment
  BY <1>8, ReadFragmentInv
<1>9. CASE ReadFragmentFails
  BY <1>9, FailInv DEF ReadFragmentFails, Readable
<1>10. CASE ReadEnd
  BY <1>10, ReadEndInv
<1>11. CASE ReadEndMalformed
  BY <1>11, FailInv DEF ReadEndMalformed, Readable
<1>12. CASE UNCHANGED vars
  BY <1>12
  DEF vars, IndInv, TypeOK, ReplyHonest, RepliesAt, BufferIsPrefix, CapsWhole,
      RequestsBounded, RequestsTotal
<1>13. QED
  BY <1>1, <1>2, <1>3, <1>4, <1>5, <1>6, <1>7, <1>8, <1>9, <1>10, <1>11, <1>12
  DEF Next, Step

\* The inductive invariant holds in every state of every exchange.
THEOREM Invariance == Spec => []IndInv
  BY InitInv, NextInv, PTL DEF Spec, SafeSpec

\* The variables keep their types; in particular the offset requested next
\* always fits the 16 bits the request has for it (ddcci_raw_caps).
THEOREM TypeCorrect == Spec => []TypeOK
<1>1. IndInv => TypeOK
  BY DEF IndInv
<1>2. QED
  BY <1>1, Invariance, PTL

\* ddcci_caps never publishes anything but the monitor's whole string.
THEOREM CapsAreWhole == Spec => []CapsWhole
<1>1. IndInv => CapsWhole
  BY DEF IndInv
<1>2. QED
  BY <1>1, Invariance, PTL

\* The local buffer of ddcci_caps is always a prefix of the monitor's string.
THEOREM BufferPrefix == Spec => []BufferIsPrefix
<1>1. IndInv => BufferIsPrefix
  BY DEF IndInv
<1>2. QED
  BY <1>1, Invariance, PTL

\* Both together: the buffer of ddcci_caps and mon->caps.raw_caps hold only
\* the monitor's own text.
THEOREM StringsAreOwn == Spec => []StringIsOwn
<1>1. IndInv => StringIsOwn
  BY DEF IndInv, StringIsOwn
<1>2. QED
  BY <1>1, Invariance, PTL

\* A call writes at most 3 * (MaxCaps + 1) requests, whatever the bus does:
\* the loop of ddcci_caps cannot run for ever.
THEOREM RequestsAreBounded == Spec => []RequestsTotal
<1>1. IndInv => RequestsTotal
  BY DEF IndInv
<1>2. QED
  BY <1>1, Invariance, PTL

-----------------------------------------------------------------------------
(***************************************************************************)
(* Refinement: every exchange is, seen through mon->caps.raw_caps and the  *)
(* fact that a call is under way, the one-step read of CapsRead.  The      *)
(* proof covers the safety part; that a call returns is left to TLC.       *)
(***************************************************************************)
THEOREM ImplementsCapsRead == Spec => Atomic!SafeSpec
<1>1. Init => Atomic!Init
  BY DEF Init, Atomic!Init
<1>2. IndInv /\ [Next]_vars => [Atomic!Next]_Atomic!vars
  <2> SUFFICES ASSUME IndInv, [Next]_vars PROVE [Atomic!Next]_Atomic!vars
    OBVIOUS
  <2> USE DEF Atomic!Next, Atomic!vars
  <2>1. CASE Call
    BY <2>1 DEF Call, Atomic!Begin
  <2>2. CASE CallOutOfMemory
    BY <2>2 DEF CallOutOfMemory, Atomic!FailAtOnce
  <2>3. CASE GiveUp \/ ReadFragmentFails \/ ReadEndMalformed
    BY <2>3 DEF GiveUp, ReadFragmentFails, ReadEndMalformed, Readable, Fail, Atomic!Fail
  <2>4. CASE WriteFails \/ WriteRequest \/ ReadFails \/ ReadInvalid \/ ReadFragment
    BY <2>4
    DEF WriteFails, WriteRequest, ReadFails, ReadInvalid, ReadFragment, Readable, Retry
  <2>5. CASE ReadEnd
    <3>1. raw_caps' = Normalized(raw) /\ pc # "idle" /\ pc' = "idle" /\ UNCHANGED content
      BY <2>5 DEF ReadEnd, Readable
    <3>2. CASE raw_caps' # NullCaps
      <4>1. CapsWhole'
        BY <2>5, ReadEndInv DEF IndInv
      <4>2. QED
        BY <3>1, <3>2, <4>1 DEF CapsWhole, Atomic!Succeed, Fits
    <3>3. CASE raw_caps' = NullCaps
      <4>1. raw_caps = NullCaps
        BY <3>1 DEF IndInv, CapsWhole
      <4>2. QED
        BY <3>1, <3>3, <4>1 DEF Atomic!Fail
    <3>4. QED
      BY <3>2, <3>3
  <2>6. CASE UNCHANGED vars
    BY <2>6 DEF vars
  <2>7. QED
    BY <2>1, <2>2, <2>3, <2>4, <2>5, <2>6 DEF Next, Step
<1>3. QED
  BY <1>1, <1>2, Invariance, PTL DEF Spec, SafeSpec, Atomic!SafeSpec

-----------------------------------------------------------------------------
(* ddcci_delay.                                                            *)

\* A reading of the clock as one number.
Ticks(t) == t.sec * SECOND + t.usec

\* While the clock is not set, it is not behind the last write, and the real
\* time since that write is at most an oversleep short of what it shows:
\* the write is recorded at the time it was meant for.
ClockInv ==
  known => /\ Ticks(now) >= Ticks(last)
           /\ since = DELAY \/ since >= Ticks(now) - Ticks(last) - Jitter

\* usleep oversleeps by less than the rest of a second (955 ms in the code):
\* only then do readings two seconds apart mean that DELAY has passed.
WakesInTime == Jitter + DELAY <= SECOND

CommandInv == SpacedWithinSecond /\ (WakesInTime => SpacedWhenLater)

DelayInv == DelayTypeOK /\ ClockInv /\ CommandInv

-----------------------------------------------------------------------------
(* Arithmetic.                                                             *)

LEMMA DivMod ==
  ASSUME NEW x \in Nat, NEW s \in Nat \ {0}
  PROVE  /\ x \div s \in Nat /\ x % s \in 0 .. s - 1
         /\ (x \div s) * s + (x % s) = x
<1>1. x % s = x - (x \div s) * s
  OBVIOUS
<1>2. x \div s \in Nat /\ x % s \in 0 .. s - 1
  OBVIOUS
<1> DEFINE d == x \div s
           r == x % s
           m == d * s
<1>3. m \in Int
  BY <1>2
<1>4. r = x - m /\ r \in Int
  BY <1>1, <1>2
<1> HIDE DEF d, r, m
<1>5. m + r = x
  BY <1>3, <1>4
<1>6. (x \div s) * s + (x % s) = x
  BY <1>5, Zenon DEF d, r, m
<1>7. QED
  BY <1>2, <1>6, Zenon

LEMMA Monotone ==
  ASSUME NEW a \in Int, NEW b \in Int, a <= b, NEW s \in Nat
  PROVE  a * s <= b * s
OBVIOUS

LEMMA Distributes ==
  ASSUME NEW a \in Int, NEW b \in Int, NEW s \in Int
  PROVE  /\ (a + b) * s = a * s + b * s
         /\ (a - b) * s = a * s - b * s
         /\ a * s \in Int
OBVIOUS

LEMMA Constants ==
  /\ SECOND \in Nat \ {0} /\ DELAY \in Nat \ {0} /\ DELAY < SECOND
  /\ PostDelays \subseteq Nat
  /\ Jitter \in Nat /\ MaxSec \in Nat /\ MaxSec > 2 /\ MaxClockSets \in Nat
BY TimeAssumption, Zenon

\* What DelayTypeOK says of the two readings.
LEMMA Readings ==
  ASSUME DelayTypeOK
  PROVE  /\ now.sec \in Nat /\ now.usec \in Nat /\ now.usec < SECOND
         /\ now.sec <= MaxSec - 1 /\ now = [sec |-> now.sec, usec |-> now.usec]
         /\ last.sec \in Nat /\ last.usec \in Nat /\ last.usec <= SECOND /\ last.sec <= MaxSec
         /\ Ticks(now) \in Nat /\ Ticks(last) \in Nat
<1>1. /\ now.sec \in Nat /\ now.usec \in Nat /\ now.usec < SECOND
      /\ now.sec <= MaxSec - 1 /\ now = [sec |-> now.sec, usec |-> now.usec]
      /\ last.sec \in Nat /\ last.usec \in Nat /\ last.usec <= SECOND /\ last.sec <= MaxSec
  <2>1. /\ now \in [sec : 0 .. MaxSec - 1, usec : 0 .. SECOND - 1]
        /\ last \in [sec : 0 .. MaxSec, usec : 0 .. SECOND]
    BY DEF DelayTypeOK
  <2>2. SECOND \in Nat /\ MaxSec \in Nat
    BY Constants
  <2>3. QED
    BY <2>1, <2>2
<1>2. ASSUME NEW a \in Nat, NEW b \in Nat PROVE a * SECOND + b \in Nat
  BY Constants
<1>3. QED
  BY <1>1, <1>2 DEF Ticks

LEMMA AfterFacts ==
  ASSUME NEW t, t.sec \in Nat, t.usec \in Nat, NEW n \in Nat, InRange(After(t, n))
  PROVE  /\ After(t, n) \in [sec : 0 .. MaxSec - 1, usec : 0 .. SECOND - 1]
         /\ Ticks(After(t, n)) = Ticks(t) + n
<1> DEFINE total == t.sec * SECOND + t.usec + n
           d == total \div SECOND
           r == total % SECOND
           a == After(t, n)
<1>1. SECOND \in Nat \ {0} /\ MaxSec \in Nat
  BY Constants
<1>2. total \in Nat
  <2>1. ASSUME NEW x \in Nat PROVE x * SECOND \in Nat
    BY <1>1
  <2>2. QED
    BY <2>1
<1>3. a = [sec |-> d, usec |-> r]
  BY DEF After
<1>4. total = Ticks(t) + n
  BY DEF Ticks
<1> HIDE DEF total
<1>5. d \in Nat /\ r \in 0 .. SECOND - 1 /\ d * SECOND + r = total
  BY <1>1, <1>2, DivMod
<1>6. a.sec < MaxSec
  BY DEF InRange
<1> HIDE DEF d, r, a
<1>7. a.sec = d /\ a.usec = r /\ d \in 0 .. MaxSec - 1
  BY <1>1, <1>3, <1>5, <1>6
<1>8. Ticks(a) = total
  BY <1>5, <1>7 DEF Ticks
<1>9. a \in [sec : 0 .. MaxSec - 1, usec : 0 .. SECOND - 1]
  BY <1>3, <1>5, <1>7
<1>10. QED
  BY <1>4, <1>8, <1>9 DEF a

\* The difference of two readings fits unsigned long, also if it is negative.
LEMMA ElapsedFacts ==
  ASSUME DelayTypeOK
  PROVE  /\ Elapsed(now) \in Nat
         /\ now.sec = last.sec /\ now.usec >= last.usec => Elapsed(now) = now.usec - last.usec
<1> DEFINE ten == 10 * SECOND
           x == (now.sec - last.sec) * ten
           e == x + now.usec - last.usec
<1>1. /\ now.sec \in Nat /\ now.usec \in Nat /\ last.sec \in Nat /\ last.usec \in Nat
      /\ last.usec <= SECOND /\ last.sec <= MaxSec
  BY Readings
<1>2. SECOND \in Nat /\ MaxSec \in Nat /\ MaxSec > 0 /\ ULONG \in Nat /\ ULONG > 20 * SECOND * MaxSec
  <2>1. ULONG \in Nat /\ ULONG > 20 * SECOND * MaxSec
    BY TimeAssumption, Zenon
  <2>2. QED
    BY <2>1, Constants
<1>3. ten \in Nat /\ ten >= SECOND
  BY <1>2
<1>4. 20 * SECOND * MaxSec = MaxSec * ten + MaxSec * ten
  BY <1>2
<1> HIDE DEF ten
<1>5. x \in Int /\ (-MaxSec) * ten <= x /\ (now.sec = last.sec => x = 0)
  <2>1. now.sec - last.sec \in Int /\ -MaxSec \in Int /\ -MaxSec <= now.sec - last.sec
    BY <1>1, <1>2
  <2>2. (-MaxSec) * ten <= (now.sec - last.sec) * ten
    BY <1>3, <2>1, Monotone
  <2>3. x \in Int
    BY <1>3, <2>1
  <2>4. now.sec = last.sec => x = 0
    <3>1. now.sec = last.sec => now.sec - last.sec = 0
      BY <1>1
    <3>2. 0 * ten = 0
      BY <1>3
    <3>3. QED
      BY <3>1, <3>2
  <2>5. QED
    BY <2>2, <2>3, <2>4
<1>6. ten <= MaxSec * ten /\ (-MaxSec) * ten = -(MaxSec * ten) /\ MaxSec * ten \in Nat
  <2>1. 1 * ten <= MaxSec * ten
    BY <1>2, <1>3, Monotone
  <2>2. QED
    BY <1>2, <1>3, <2>1
<1>7. Elapsed(now) = Unsigned(e)
  BY DEF Elapsed, ten
<1> DEFINE y == MaxSec * ten
<1>8. /\ ULONG > y + y /\ y \in Nat /\ ten <= y /\ -y <= x
  BY <1>2, <1>4, <1>5, <1>6
<1> HIDE DEF x, y
<1>9. e \in Int /\ e + ULONG >= 0
  BY <1>1, <1>2, <1>3, <1>5, <1>8
<1>10. Unsigned(e) \in Nat
  BY <1>2, <1>9 DEF Unsigned
<1>11. now.sec = last.sec /\ now.usec >= last.usec => Unsigned(e) = now.usec - last.usec
  BY <1>1, <1>5 DEF Unsigned
<1>12. QED
  BY <1>7, <1>10, <1>11

LEMMA WaitFacts ==
  ASSUME DelayTypeOK
  PROVE  /\ Wait(now) \in 0 .. DELAY
         /\ now.sec = last.sec /\ now.usec >= last.usec
              => Wait(now) >= DELAY - (now.usec - last.usec)
<1>1. /\ Elapsed(now) \in Nat
      /\ now.sec = last.sec /\ now.usec >= last.usec => Elapsed(now) = now.usec - last.usec
  BY ElapsedFacts
<1>2. now.sec \in Nat /\ last.sec \in Nat /\ now.usec \in Nat /\ last.usec \in Nat
  BY Readings
<1>3. DELAY \in Nat
  BY Constants
<1>4. QED
  BY <1>1, <1>2, <1>3 DEF Wait

\* mon->last is the time the write is meant for.
LEMMA AdjustedFacts ==
  ASSUME DelayTypeOK
  PROVE  /\ Adjusted(now) \in [sec : 0 .. MaxSec, usec : 0 .. SECOND]
         /\ Ticks(Adjusted(now)) = Ticks(now) + Wait(now)
<1> DEFINE w == Wait(now)
           s == now.sec
           u == now.usec
<1>1. s \in Nat /\ u \in Nat /\ u < SECOND /\ s <= MaxSec - 1
  BY Readings
<1>2. w \in Nat /\ w <= DELAY
  BY WaitFacts, Constants
<1>3. SECOND \in Nat \ {0} /\ DELAY \in Nat /\ DELAY < SECOND /\ MaxSec \in Nat
  BY Constants
<1>4. CASE w > 0 /\ u + w > SECOND
  <2>1. Adjusted(now) = [sec |-> s + 1, usec |-> (u + w) - SECOND]
    BY <1>4, Zenon DEF Adjusted
  <2> HIDE DEF w, s, u
  <2>2. (s + 1) * SECOND + ((u + w) - SECOND) = s * SECOND + u + w
    <3>1. (s + 1) * SECOND = s * SECOND + 1 * SECOND /\ s * SECOND \in Int
      BY <1>1, <1>3, Distributes
    <3> DEFINE a == s * SECOND
               b == (s + 1) * SECOND
    <3> HIDE DEF a, b
    <3>2. b = a + SECOND /\ a \in Int
      BY <1>3, <3>1 DEF a, b
    <3>3. b + ((u + w) - SECOND) = a + u + w
      BY <1>1, <1>2, <1>3, <3>2
    <3>4. QED
      BY <3>3 DEF a, b
  <2>3. Ticks(Adjusted(now)) = Ticks(now) + w
    BY <2>1, <2>2 DEF Ticks, s, u
  <2>4. QED
    BY <1>1, <1>2, <1>3, <1>4, <2>1, <2>3 DEF w
<1>5. CASE ~(w > 0 /\ u + w > SECOND)
  <2>1. Adjusted(now) = [sec |-> s, usec |-> u + w]
    BY <1>5 DEF Adjusted
  <2> HIDE DEF w, s, u
  <2>2. Ticks(Adjusted(now)) = s * SECOND + (u + w) /\ s * SECOND \in Int
    BY <1>1, <1>3, <2>1 DEF Ticks
  <2>3. Ticks(now) = s * SECOND + u
    BY DEF Ticks, s, u
  <2> DEFINE a == s * SECOND
  <2> HIDE DEF a
  <2>4. a + (u + w) = a + u + w
    BY <1>1, <1>2, <2>2 DEF a
  <2>5. QED
    BY <1>1, <1>2, <1>3, <1>5, <2>1, <2>2, <2>3, <2>4 DEF a, w
<1>6. QED
  BY <1>4, <1>5

\* A command that is sent after the sleep: what its gap is.
LEMMA SentFacts ==
  ASSUME DelayInv, NEW slept \in Nat, slept >= Wait(now), NEW c, c = Sent(slept)
  PROVE  /\ c \in [gap : 0 .. DELAY,
                   when : {"none", "unknown", "same second", "next second", "later"}]
         /\ c.when = "same second" => c.gap >= DELAY - Jitter
         /\ c.when = "later" /\ WakesInTime => c.gap = DELAY
<1> DEFINE g == Capped(since + slept)
<1>1. c = [gap |-> g, when |-> When(now)]
  BY DEF Sent
<1>2. since \in Nat /\ since <= DELAY /\ DELAY \in Nat /\ Jitter \in Nat /\ SECOND \in Nat
  <2>1. since \in 0 .. DELAY
    BY DEF DelayInv, DelayTypeOK
  <2>2. QED
    BY <2>1, Constants
<1>3. g \in 0 .. DELAY /\ (g = DELAY \/ g = since + slept)
  BY <1>2 DEF Capped
<1>4. When(now) \in {"unknown", "same second", "next second", "later"}
  BY DEF When
<1>5. /\ When(now) = "same second" => known /\ now.sec = last.sec
      /\ When(now) = "later" => known /\ now.sec > last.sec + 1
  BY DEF When
<1>6. /\ now.sec \in Nat /\ now.usec \in Nat /\ last.sec \in Nat /\ last.usec \in Nat
      /\ last.usec <= SECOND
  BY Readings DEF DelayInv
<1>7. ASSUME When(now) = "same second" PROVE g >= DELAY - Jitter
  <2> DEFINE a == now.sec * SECOND
  <2>1. a \in Int /\ Ticks(now) = a + now.usec /\ Ticks(last) = a + last.usec
    <3>1. now.sec = last.sec
      BY <1>5, <1>7
    <3>2. a \in Int
      BY <1>2, <1>6
    <3>3. QED
      BY <3>1, <3>2, Zenon DEF Ticks
  <2>2. /\ Ticks(now) >= Ticks(last)
        /\ since = DELAY \/ since >= Ticks(now) - Ticks(last) - Jitter
    BY <1>5, <1>7 DEF DelayInv, ClockInv
  <2> HIDE DEF a
  <2>3. now.usec >= last.usec /\ (since = DELAY \/ since >= now.usec - last.usec - Jitter)
    BY <1>2, <1>6, <2>1, <2>2
  <2>4. Wait(now) >= DELAY - (now.usec - last.usec) /\ Wait(now) \in Int
    <3>1. DelayTypeOK /\ now.sec = last.sec
      BY <1>5, <1>7 DEF DelayInv
    <3>2. QED
      BY <1>2, <2>3, <3>1, WaitFacts
  <2> HIDE DEF g
  <2>5. QED
    BY <1>2, <1>3, <1>6, <2>3, <2>4
<1>8. ASSUME When(now) = "later", WakesInTime PROVE g = DELAY
  <2> DEFINE a == last.sec * SECOND
             b == now.sec * SECOND
  <2>1. a + 2 * SECOND <= b /\ a \in Int /\ b \in Int
    <3>1. last.sec + 2 <= now.sec
      BY <1>5, <1>6, <1>8
    <3>2. (last.sec + 2) * SECOND <= now.sec * SECOND
      BY <1>2, <1>6, <3>1, Monotone
    <3>3. (last.sec + 2) * SECOND = last.sec * SECOND + 2 * SECOND
      BY <1>2, <1>6, Distributes
    <3>4. QED
      BY <1>2, <1>6, <3>2, <3>3
  <2>2. Ticks(now) = b + now.usec /\ Ticks(last) = a + last.usec
    BY DEF Ticks
  <2>3. since = DELAY \/ since >= Ticks(now) - Ticks(last) - Jitter
    BY <1>5, <1>8 DEF DelayInv, ClockInv
  <2> HIDE DEF a, b
  <2>4. since >= DELAY
    BY <1>2, <1>6, <1>8, <2>1, <2>2, <2>3 DEF WakesInTime
  <2> HIDE DEF g
  <2>5. QED
    BY <1>2, <1>3, <2>4
<1> HIDE DEF g
<1>9. c.gap = g /\ c.when = When(now)
  BY <1>1
<1>10. QED
  BY <1>1, <1>3, <1>4, <1>7, <1>8, <1>9

-----------------------------------------------------------------------------
(* The steps.                                                              *)

\* A step that sends no command, or one after the sleep.
LEMMA CommandStep ==
  ASSUME DelayInv,
         cmd' = NoCommand \/ \E slept \in Nat : slept >= Wait(now) /\ cmd' = Sent(slept)
  PROVE  /\ cmd' \in [gap : 0 .. DELAY,
                      when : {"none", "unknown", "same second", "next second", "later"}]
         /\ CommandInv'
<1>1. CASE cmd' = NoCommand
  BY <1>1, Constants DEF NoCommand, CommandInv, SpacedWithinSecond, SpacedWhenLater
<1>2. CASE \E slept \in Nat : slept >= Wait(now) /\ cmd' = Sent(slept)
  BY <1>2, SentFacts DEF CommandInv, SpacedWithinSecond, SpacedWhenLater, WakesInTime
<1>3. QED
  BY <1>1, <1>2

LEMMA DelayInitInv == DelayInit => DelayInv
<1> SUFFICES ASSUME DelayInit PROVE DelayInv
  OBVIOUS
<1>1. /\ SECOND \in Nat \ {0} /\ DELAY \in Nat /\ MaxSec \in Nat /\ MaxSec > 2
      /\ MaxClockSets \in Nat
  BY Constants
<1>2. DelayTypeOK
  <2>1. /\ now \in [sec : 0 .. MaxSec - 1, usec : 0 .. SECOND - 1]
        /\ last \in [sec : 0 .. MaxSec, usec : 0 .. SECOND]
    BY <1>1 DEF DelayInit
  <2>2. cmd \in [gap : 0 .. DELAY,
                 when : {"none", "unknown", "same second", "next second", "later"}]
    BY <1>1 DEF DelayInit, NoCommand
  <2>3. since \in 0 .. DELAY /\ known \in BOOLEAN /\ sets \in 0 .. MaxClockSets
    BY <1>1 DEF DelayInit
  <2>4. QED
    BY <2>1, <2>2, <2>3 DEF DelayTypeOK
<1>3. ClockInv
  BY <1>1 DEF DelayInit, ClockInv, Ticks
<1>4. CommandInv
  BY DEF DelayInit, NoCommand, CommandInv, SpacedWithinSecond, SpacedWhenLater
<1>5. QED
  BY <1>2, <1>3, <1>4 DEF DelayInv

\* n ticks pass on both clocks, and nothing is written.
LEMMA TimePasses ==
  ASSUME DelayInv, NEW n \in Nat, InRange(After(now, n)), now' = After(now, n),
         since' = Capped(since + n), UNCHANGED <<last, known, sets>>,
         cmd' = NoCommand \/ \E slept \in Nat : slept >= Wait(now) /\ cmd' = Sent(slept)
  PROVE  DelayInv'
<1>1. DELAY \in Nat /\ Jitter \in Nat
  BY Constants
<1>2. /\ now.sec \in Nat /\ now.usec \in Nat
      /\ Ticks(now) \in Nat /\ Ticks(last) \in Nat
  BY Readings DEF DelayInv
<1>3. /\ now' \in [sec : 0 .. MaxSec - 1, usec : 0 .. SECOND - 1]
      /\ Ticks(now') = Ticks(now) + n
  BY <1>2, AfterFacts
<1>4. since \in 0 .. DELAY
  BY DEF DelayInv, DelayTypeOK
<1>5. since' \in 0 .. DELAY /\ (since' = DELAY \/ since' = since + n) /\ (since = DELAY => since' = DELAY)
  BY <1>1, <1>4 DEF Capped
<1>6. /\ cmd' \in [gap : 0 .. DELAY,
                   when : {"none", "unknown", "same second", "next second", "later"}]
      /\ CommandInv'
  BY CommandStep
<1>7. DelayTypeOK'
  BY <1>3, <1>5, <1>6 DEF DelayInv, DelayTypeOK
<1>8. ClockInv'
  <2> SUFFICES ASSUME known'
               PROVE  /\ Ticks(now') >= Ticks(last)
                      /\ since' = DELAY \/ since' >= Ticks(now') - Ticks(last) - Jitter
    BY DEF ClockInv, Ticks
  <2>1. /\ Ticks(now) >= Ticks(last)
        /\ since = DELAY \/ since >= Ticks(now) - Ticks(last) - Jitter
    BY DEF DelayInv, ClockInv
  <2>2. QED
    BY <1>1, <1>2, <1>3, <1>4, <1>5, <2>1
<1>9. QED
  BY <1>6, <1>7, <1>8 DEF DelayInv

\* How long ddcci_delay really sleeps.
LEMMA SleepFacts ==
  ASSUME DelayInv, NEW late \in 0 .. Jitter,
         NEW slept, slept = IF Wait(now) > 0 THEN Wait(now) + late ELSE 0
  PROVE  /\ slept \in Nat /\ Wait(now) \in Nat
         /\ slept >= Wait(now) /\ slept - Wait(now) <= Jitter
<1>1. Wait(now) \in 0 .. DELAY /\ DELAY \in Nat /\ Jitter \in Nat
  BY WaitFacts, Constants DEF DelayInv
<1>2. QED
  BY <1>1

LEMMA WriteInv ==
  ASSUME DelayInv, NEW post \in PostDelays, NEW late \in 0 .. Jitter, Write(post, late)
  PROVE  DelayInv'
<1> DEFINE slept == IF Wait(now) > 0 THEN Wait(now) + late ELSE 0
           n == slept + post
<1>1. /\ InRange(After(now, n)) /\ now' = After(now, n) /\ cmd' = Sent(slept)
      /\ last' = Adjusted(now) /\ since' = Capped(post) /\ known' = TRUE /\ sets' = sets
  BY Zenon DEF Write
<1>2. /\ slept \in Nat /\ Wait(now) \in Nat
      /\ slept >= Wait(now) /\ slept - Wait(now) <= Jitter
  BY SleepFacts
<1>3. DELAY \in Nat /\ Jitter \in Nat /\ post \in Nat
  BY Constants
<1> HIDE DEF slept
<1>4. n \in Nat
  BY <1>2, <1>3
<1>5. /\ now.sec \in Nat /\ now.usec \in Nat
      /\ Ticks(now) \in Nat /\ Ticks(last) \in Nat
  BY Readings DEF DelayInv
<1> HIDE DEF n
<1>6. /\ now' \in [sec : 0 .. MaxSec - 1, usec : 0 .. SECOND - 1]
      /\ Ticks(now') = Ticks(now) + n
  BY <1>1, <1>4, <1>5, AfterFacts
<1>7. /\ last' \in [sec : 0 .. MaxSec, usec : 0 .. SECOND]
      /\ Ticks(last') = Ticks(now) + Wait(now)
  BY <1>1, AdjustedFacts DEF DelayInv
<1>8. since' \in 0 .. DELAY /\ (since' = DELAY \/ since' = post)
  BY <1>1, <1>3 DEF Capped
<1>9. /\ cmd' \in [gap : 0 .. DELAY,
                   when : {"none", "unknown", "same second", "next second", "later"}]
      /\ CommandInv'
  BY <1>1, <1>2, CommandStep
<1>10. DelayTypeOK'
  BY <1>1, <1>6, <1>7, <1>8, <1>9 DEF DelayInv, DelayTypeOK
<1>11. ClockInv'
  <2>1. n = slept + post
    BY DEF n
  <2>2. /\ Ticks(now') >= Ticks(last')
        /\ since' = DELAY \/ since' >= Ticks(now') - Ticks(last') - Jitter
    BY <1>2, <1>3, <1>5, <1>6, <1>7, <1>8, <2>1
  <2>3. QED
    BY <2>2 DEF ClockInv, Ticks
<1>12. QED
  BY <1>9, <1>10, <1>11 DEF DelayInv

LEMMA ReadInv ==
  ASSUME DelayInv, NEW late \in 0 .. Jitter, Read(late)
  PROVE  DelayInv'
<1> DEFINE slept == IF Wait(now) > 0 THEN Wait(now) + late ELSE 0
<1>1. /\ InRange(After(now, slept)) /\ now' = After(now, slept) /\ cmd' = Sent(slept)
      /\ since' = Capped(since + slept) /\ UNCHANGED <<last, known, sets>>
  BY Zenon DEF Read
<1>2. slept \in Nat /\ slept >= Wait(now)
  BY SleepFacts
<1> HIDE DEF slept
<1>3. QED
  BY <1>1, <1>2, TimePasses

\* The steps that forget when the last write was.
LEMMA Forgets ==
  ASSUME DelayInv, now' \in [sec : 0 .. MaxSec - 1, usec : 0 .. SECOND - 1],
         since' \in 0 .. DELAY, known' = FALSE, last' = last,
         sets' \in 0 .. MaxClockSets, cmd' = NoCommand
  PROVE  DelayInv'
<1>1. /\ cmd' \in [gap : 0 .. DELAY,
                   when : {"none", "unknown", "same second", "next second", "later"}]
      /\ CommandInv'
  BY CommandStep
<1>2. DelayTypeOK' /\ ClockInv'
  BY <1>1 DEF DelayInv, DelayTypeOK, ClockInv
<1>3. QED
  BY <1>1, <1>2 DEF DelayInv

LEMMA DelayNextInv == DelayInv /\ [DelayNext]_delayVars => DelayInv'
<1> SUFFICES ASSUME DelayInv, [DelayNext]_delayVars PROVE DelayInv'
  OBVIOUS
<1>1. CASE Tick
  <2>1. 1 \in Nat
    OBVIOUS
  <2>2. QED
    BY <1>1, <2>1, TimePasses DEF Tick
<1>2. ASSUME NEW post \in PostDelays, NEW late \in 0 .. Jitter, Write(post, late) PROVE DelayInv'
  BY <1>2, WriteInv
<1>3. ASSUME NEW late \in 0 .. Jitter, Read(late) PROVE DelayInv'
  BY <1>3, ReadInv
<1>4. CASE WriteWithoutClock
  <2>1. /\ InRange(After(now, DELAY)) /\ now' = After(now, DELAY) /\ since' = 0
        /\ known' = FALSE /\ last' = last /\ sets' = sets /\ cmd' = NoCommand
    BY <1>4 DEF WriteWithoutClock
  <2>2. DELAY \in Nat
    BY Constants
  <2>3. now' \in [sec : 0 .. MaxSec - 1, usec : 0 .. SECOND - 1]
    <3>1. now.sec \in Nat /\ now.usec \in Nat
      BY Readings DEF DelayInv
    <3>2. QED
      BY <2>1, <2>2, <3>1, AfterFacts
  <2>4. sets' \in 0 .. MaxClockSets
    BY <2>1 DEF DelayInv, DelayTypeOK
  <2>5. since' \in 0 .. DELAY
    BY <2>1, <2>2
  <2>6. QED
    BY <2>1, <2>3, <2>4, <2>5, Forgets
<1>5. CASE SetClock
  <2>1. PICK t \in {0, SECOND - 1}, s \in 2 .. MaxSec - 1 : now' = [sec |-> s, usec |-> t]
    BY <1>5 DEF SetClock
  <2>2. /\ sets < MaxClockSets /\ sets' = sets + 1 /\ known' = FALSE /\ cmd' = NoCommand
        /\ last' = last /\ since' = since
    BY <1>5 DEF SetClock
  <2>3. SECOND \in Nat \ {0} /\ MaxSec \in Nat /\ MaxClockSets \in Nat
    BY Constants
  <2>4. now' \in [sec : 0 .. MaxSec - 1, usec : 0 .. SECOND - 1]
    BY <2>1, <2>3
  <2>5. sets \in 0 .. MaxClockSets /\ since \in 0 .. DELAY
    BY DEF DelayInv, DelayTypeOK
  <2>6. sets' \in 0 .. MaxClockSets /\ since' \in 0 .. DELAY
    BY <2>2, <2>3, <2>5
  <2>7. QED
    BY <2>2, <2>4, <2>6, Forgets
<1>6. CASE UNCHANGED delayVars
  BY <1>6 DEF delayVars, DelayInv, DelayTypeOK, ClockInv, CommandInv, Ticks, SpacedWithinSecond, SpacedWhenLater
<1>7. QED
  BY <1>1, <1>2, <1>3, <1>4, <1>5, <1>6 DEF DelayNext

-----------------------------------------------------------------------------
(* Theorems.                                                               *)

\* ddcci_delay: the real time since the last write is never more than one
\* oversleep below what mon->last and the clock say.
THEOREM DelayInvariance == DelaySpec => []DelayInv
BY DelayInitInv, DelayNextInv, PTL DEF DelaySpec

\* ddcci_delay: however the clock is set and whatever the widths, the sleep
\* is at most DELAY, and two commands of the same second of the clock are
\* DELAY apart but for one oversleep, of any length.
THEOREM SpacedInASecond == DelaySpec => [](WaitBounded /\ SpacedWithinSecond)
<1>1. DelayInv => WaitBounded /\ SpacedWithinSecond
  BY WaitFacts DEF DelayInv, CommandInv, WaitBounded
<1>2. QED
  BY <1>1, DelayInvariance, PTL

\* ddcci_delay: if usleep oversleeps by less than the rest of a second,
\* commands are also DELAY apart when the code does not compute at all.
THEOREM CommandsKeepApart ==
  ASSUME WakesInTime
  PROVE  DelaySpec => []KeepsApart
<1>1. DelayInv => KeepsApart
  BY WaitFacts DEF DelayInv, CommandInv, WaitBounded, KeepsApart
<1>2. QED
  BY <1>1, DelayInvariance, PTL
=============================================================================
