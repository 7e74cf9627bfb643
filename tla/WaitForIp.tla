----------------------------- MODULE WaitForIp -----------------------------
(***************************************************************************)
(* stepWaitForIp.Run: the step's select loop, and the goroutine it starts, *)
(* which runs doGetIp and, in it, NutanixDriver.WaitForIP.  The two share  *)
(* the variables ip and err, the buffered channel waitDone and a context   *)
(* derived from the build's.                                               *)
(*                                                                         *)
(* Time is abstract: the timers of the code are events that may happen at  *)
(* any moment after they are set (the total timeout fires once; the settle *)
(* period may elapse after each change of address).  A turn of a polling   *)
(* loop that learns nothing changes nothing, and is a stuttering step.     *)
(*                                                                         *)
(* VMs.Get is assumed to honour its context, as a Go HTTP client does.     *)
(***************************************************************************)
EXTENDS Naturals

CONSTANTS
  Wanted,   \* addresses inside ip_wait_address
  Other,    \* addresses outside it
  None      \* no address, the empty string

ASSUME AddressAssumption == None \notin Wanted \cup Other /\ Wanted \cap Other = {}

VARIABLES
  addr,       \* the address the VM reports
  poller,     \* the goroutine: "query" | "check" | "pause" | "send" | "done"
  got,        \* doGetIp: ip, as WaitForIP returned it
  prev,       \* doGetIp: prevIp
  settleDue,  \* doGetIp: time.Now().After(stopTime)
  ip, err,    \* shared: the result of doGetIp
  waitDone,   \* messages in the channel
  main,       \* the step: "select" | "drain" | "returned"
  timedOut,   \* time.After(WaitTimeout) has fired
  ctxDone,    \* the build's context is cancelled
  subDone,    \* the derived context is cancelled
  cancelled,  \* StateCancelled is in the bag
  bagIp,      \* "ip" in the bag
  bagError,   \* "error" is in the bag
  result,     \* what Run returned: "none" | "continue" | "halt"
  steady      \* history: no address change for a whole settle period

shared == <<ip, err, waitDone>>
loop   == <<poller, got, prev, settleDue, steady>>
step   == <<main, bagIp, bagError, result>>
vars   == <<addr, poller, got, prev, settleDue, ip, err, waitDone, main, timedOut,
            ctxDone, subDone, cancelled, bagIp, bagError, result, steady>>

TypeOK ==
  /\ addr \in Wanted \cup Other \cup {None}
  /\ poller \in {"query", "check", "pause", "send", "done"}
  /\ got \in Wanted \cup {None} /\ prev \in Wanted \cup {None}
  /\ ip \in Wanted \cup {None} /\ bagIp \in Wanted \cup {None}
  /\ settleDue \in BOOLEAN /\ steady \in BOOLEAN /\ err \in BOOLEAN /\ timedOut \in BOOLEAN
  /\ ctxDone \in BOOLEAN /\ subDone \in BOOLEAN /\ cancelled \in BOOLEAN /\ bagError \in BOOLEAN
  /\ waitDone \in 0..1
  /\ main \in {"select", "drain", "returned"}
  /\ result \in {"none", "continue", "halt"}

Init ==
  /\ addr = None
  /\ poller = "query" /\ got = None /\ prev = None
  /\ settleDue = TRUE                    \* stopTime is the zero time
  /\ steady = FALSE
  /\ ip = None /\ err = FALSE /\ waitDone = 0
  /\ main = "select" /\ timedOut = FALSE
  /\ ctxDone = FALSE /\ subDone = FALSE /\ cancelled = FALSE
  /\ bagIp = None /\ bagError = FALSE /\ result = "none"

-----------------------------------------------------------------------------
(* The goroutine.                                                          *)

DoGetIpReturns(a, e) ==
  /\ ip' = a /\ err' = e
  /\ poller' = "send"
  /\ UNCHANGED <<got, prev, settleDue, steady, waitDone>>

QueryFails ==
  /\ poller = "query"
  /\ DoGetIpReturns(None, TRUE)
  /\ UNCHANGED <<addr, step, timedOut, ctxDone, subDone, cancelled>>

QueryCancelled == subDone /\ QueryFails

Filtered_Not(a) == a
Filtered(a) == IF a \in Wanted THEN a ELSE None

\* VMs.Get has an address; one outside the range is returned as "".
QueryAnswers ==
  /\ poller = "query" /\ ~subDone
  /\ addr # None
  /\ got' = Filtered(addr)
  /\ steady' = (steady /\ got' = got)
  /\ poller' = "check"
  /\ UNCHANGED <<addr, prev, settleDue, shared, step, timedOut, ctxDone, subDone, cancelled>>

Unsettled_ByChange(p, a) == p # a
Unsettled(p, a) == p = None \/ p # a

\* stopTime after a change of address: the settle period starts again.
Restarted_Not == settleDue
Restarted == FALSE

CheckAnswer ==
  /\ poller = "check"
  /\ \/ /\ subDone
        /\ DoGetIpReturns(got, TRUE)
     \/ /\ ~subDone /\ Unsettled(prev, got)
        /\ prev' = got /\ settleDue' = Restarted
        /\ poller' = "query"
        /\ UNCHANGED <<got, steady, shared>>
     \/ /\ ~subDone /\ ~Unsettled(prev, got) /\ settleDue
        /\ DoGetIpReturns(got, FALSE)
     \/ /\ ~subDone /\ ~Unsettled(prev, got) /\ ~settleDue
        /\ poller' = "pause"
        /\ UNCHANGED <<got, prev, settleDue, steady, shared>>
  /\ UNCHANGED <<addr, step, timedOut, ctxDone, subDone, cancelled>>

\* The select on the context and the polling interval.
Pause ==
  /\ poller = "pause"
  /\ \/ subDone /\ DoGetIpReturns(None, TRUE)
     \/ /\ poller' = "query"
        /\ UNCHANGED <<got, prev, settleDue, steady, shared>>
  /\ UNCHANGED <<addr, step, timedOut, ctxDone, subDone, cancelled>>

\* waitDone has room for the one message, so nobody needs to receive it.
CanSend_Unbuffered == waitDone = 0 /\ main # "returned"
CanSend == waitDone = 0

Send ==
  /\ poller = "send" /\ CanSend
  /\ waitDone' = 1
  /\ poller' = "done"
  /\ UNCHANGED <<addr, got, prev, settleDue, steady, ip, err, step, timedOut, ctxDone, subDone, cancelled>>

-----------------------------------------------------------------------------
(* The select loop of the step.                                            *)

\* Every return runs the deferred cancel.
Proceed ==
  /\ main' = "returned" /\ result' = "continue" /\ subDone' = TRUE
  /\ bagIp' = ip
  /\ UNCHANGED bagError

Halt(withError) ==
  /\ main' = "returned" /\ result' = "halt" /\ subDone' = TRUE
  /\ bagError' = withError
  /\ UNCHANGED bagIp

AfterTimeout_NoCancel == subDone
AfterTimeout == TRUE

OnTimeout ==
  /\ main = "select" /\ timedOut
  /\ subDone' = AfterTimeout
  /\ main' = "drain"
  /\ UNCHANGED <<addr, loop, shared, bagIp, bagError, result, timedOut, ctxDone, cancelled>>

\* "<-waitDone" in the timeout branch; err is not looked at.
Drain ==
  /\ main = "drain" /\ waitDone = 1
  /\ waitDone' = 0
  /\ IF ip # None THEN Proceed ELSE Halt(TRUE)
  /\ UNCHANGED <<addr, loop, ip, err, timedOut, ctxDone, cancelled>>

OnInterrupt ==
  /\ main = "select" /\ ctxDone
  /\ Halt(FALSE)
  /\ UNCHANGED <<addr, loop, shared, timedOut, ctxDone, cancelled>>

WaitError_Unrecorded == FALSE
WaitError == TRUE

OnWaitDone ==
  /\ main = "select" /\ waitDone = 1
  /\ waitDone' = 0
  /\ IF err THEN Halt(WaitError) ELSE Proceed
  /\ UNCHANGED <<addr, loop, ip, err, timedOut, ctxDone, cancelled>>

\* The tick of one second looks at StateCancelled.
OnTick ==
  /\ main = "select" /\ cancelled
  /\ Halt(FALSE)
  /\ UNCHANGED <<addr, loop, shared, timedOut, ctxDone, cancelled>>

-----------------------------------------------------------------------------
(* The environment: the guest, the clocks, the user, the SDK's runner.     *)

AddressChanges ==
  /\ result = "none"
  /\ addr' \in (Wanted \cup Other \cup {None}) \ {addr}
  /\ UNCHANGED <<loop, shared, step, timedOut, ctxDone, subDone, cancelled>>

SettleElapses ==
  /\ result = "none" /\ ~steady
  /\ settleDue' = TRUE
  /\ steady' = (prev = got)
  /\ UNCHANGED <<addr, poller, got, prev, shared, step, timedOut, ctxDone, subDone, cancelled>>

TimeoutFires ==
  /\ ~timedOut /\ result = "none"
  /\ timedOut' = TRUE
  /\ UNCHANGED <<addr, loop, shared, step, ctxDone, subDone, cancelled>>

Interrupt ==
  /\ ~ctxDone
  /\ ctxDone' = TRUE /\ subDone' = TRUE
  /\ UNCHANGED <<addr, loop, shared, step, timedOut, cancelled>>

MarkCancelled ==
  /\ ctxDone /\ ~cancelled
  /\ cancelled' = TRUE
  /\ UNCHANGED <<addr, loop, shared, step, timedOut, ctxDone, subDone>>

-----------------------------------------------------------------------------
Poller == QueryAnswers \/ CheckAnswer \/ Pause \/ Send

Main == OnTimeout \/ Drain \/ OnInterrupt \/ OnWaitDone \/ OnTick

Environment ==
  \/ QueryFails \/ AddressChanges \/ SettleElapses \/ TimeoutFires
  \/ Interrupt \/ MarkCancelled

Next == Poller \/ Main \/ Environment

(* The two goroutines are scheduled, a call with a cancelled context       *)
(* fails, and the total timeout fires.                                     *)
Fairness ==
  /\ WF_vars(Poller) /\ WF_vars(QueryCancelled)
  /\ WF_vars(Main) /\ WF_vars(TimeoutFires)

Spec == Init /\ [][Next]_vars /\ Fairness

-----------------------------------------------------------------------------
(* The next step connects to "ip": it is an address inside the filter and  *)
(* never the empty string, on the timeout path as well.                    *)
IpIsUsable == result = "continue" => bagIp \in Wanted

(* An address is used before the timeout only after it was reported        *)
(* without a change for a whole settle period: a change that came just     *)
(* before the period ended starts it again.                                *)
IpIsSettled == result = "continue" /\ ~timedOut => steady

(* The step keeps the promise of a step: it goes on with an address, or it *)
(* halts with an error, or without one because the build was cancelled.    *)
(* This is what module Build takes for granted in its action ObtainIp.     *)
Step == INSTANCE StepContract WITH
  error <- bagError, stopped <- ctxDone, product <- bagIp # None
ImplementsStep == Step!Spec

(* The goroutine does not outlive the step for ever, whichever branch left *)
(* the select and with nobody left to receive from waitDone.               *)
PollerEnds == (result # "none") ~> (poller = "done")

(* The step returns even if the VM never reports an address that stays.    *)
StepReturns == <>(result # "none")

=============================================================================
