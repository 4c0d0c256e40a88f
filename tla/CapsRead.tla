------------------------------ MODULE CapsRead ------------------------------
(***************************************************************************)
(* What ddcci_caps() promises its callers (ddcci_open_with_addr and the    *)
(* -c option of the command line tool): reading the capabilities is one    *)
(* indivisible step.  While a call is under way the monitor structure has  *)
(* no capabilities at all; when it returns it has either the monitor's     *)
(* whole capability string or, again, none.  No caller ever sees a prefix, *)
(* a string with a hole, or the string of an earlier call that failed.     *)
(***************************************************************************)
CONSTANTS
  NullCaps,      \* mon->caps.raw_caps = NULL
  Acceptable(_), \* the strings that fit the 16-bit offset and that parse
  Normal(_)      \* a string with its binary payloads masked

VARIABLES
  content,       \* the capability string the monitor holds
  raw_caps,      \* mon->caps.raw_caps
  busy           \* a call is under way

vars == <<content, raw_caps, busy>>

Init ==
  /\ raw_caps = NullCaps
  /\ busy = FALSE

Begin ==
  /\ ~busy
  /\ busy' = TRUE
  /\ raw_caps' = NullCaps
  /\ UNCHANGED content

Succeed ==
  /\ busy
  /\ Acceptable(content)
  /\ busy' = FALSE
  /\ raw_caps' = Normal(content)
  /\ UNCHANGED content

Fail ==
  /\ busy
  /\ busy' = FALSE
  /\ UNCHANGED <<content, raw_caps>>

\* A call that cannot even allocate its buffer returns within one step.
FailAtOnce ==
  /\ ~busy
  /\ raw_caps' = NullCaps
  /\ UNCHANGED <<content, busy>>

Next == Begin \/ Succeed \/ Fail \/ FailAtOnce

SafeSpec == Init /\ [][Next]_vars

Spec == SafeSpec /\ WF_vars(Succeed \/ Fail)
=============================================================================
