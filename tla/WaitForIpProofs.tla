-------------------------- MODULE WaitForIpProofs --------------------------
(***************************************************************************)
(* Proofs about module WaitForIp, for any addresses: whatever the order of *)
(* the goroutine, the timers, the guest and the user, the step goes on     *)
(* only with an address that may be used, keeps the promise of a step, and *)
(* never waits for a message that cannot come.                             *)
(***************************************************************************)
EXTENDS WaitForIp, TLAPS

(* What the step has put in the bag goes with what it returned.            *)
BagOfResult ==
  /\ main = "returned" <=> result # "none"
  /\ result = "none" => bagIp = None /\ ~bagError
  /\ result = "continue" => bagIp \in Wanted /\ poller = "done"
  /\ main = "drain" => timedOut
  /\ cancelled => ctxDone

(* A message comes from a goroutine that has ended, and without an error   *)
(* there is an address to be used.                                         *)
Handover ==
  /\ waitDone = 1 => poller = "done"
  /\ poller \in {"send", "done"} /\ ~err => ip \in Wanted /\ steady

(* The settle period that may be over is that of the address reported last.*)
Settling ==
  /\ poller \in {"query", "pause"} => prev = got
  /\ settleDue /\ prev # None /\ prev = got => steady

SettledInv == result = "continue" /\ ~timedOut => steady

(* The flags apart from the other variables, for the provers.              *)
Flags ==
  /\ settleDue \in BOOLEAN /\ steady \in BOOLEAN /\ err \in BOOLEAN /\ timedOut \in BOOLEAN
  /\ ctxDone \in BOOLEAN /\ subDone \in BOOLEAN /\ cancelled \in BOOLEAN /\ bagError \in BOOLEAN

Values ==
  /\ addr \in Wanted \cup Other \cup {None}
  /\ poller \in {"query", "check", "pause", "send", "done"}
  /\ got \in Wanted \cup {None} /\ prev \in Wanted \cup {None}
  /\ ip \in Wanted \cup {None} /\ bagIp \in Wanted \cup {None}
  /\ waitDone \in 0..1
  /\ main \in {"select", "drain", "returned"}
  /\ result \in {"none", "continue", "halt"}

Others == Values /\ BagOfResult /\ Handover /\ Settling /\ SettledInv

IInv == TypeOK /\ BagOfResult /\ Handover /\ Settling /\ SettledInv

-----------------------------------------------------------------------------
USE AddressAssumption DEF AddressAssumption

LEMMA Split == IInv <=> Flags /\ Others
BY DEF IInv, TypeOK, Flags, Values, Others

LEMMA SplitPrime == Flags' /\ Others' => IInv'
BY DEF IInv, TypeOK, Flags, Values, Others

LEMMA IInvInit == Init => IInv
<1>1. Init => Flags
  BY Zenon DEF Init, Flags
<1>2. Init => Others
  BY DEF Init, Others, Values, BagOfResult, Handover, Settling, SettledInv
<1> QED
  BY <1>1, <1>2, Split

-----------------------------------------------------------------------------
(* A flag stays a flag, whatever happens.                                  *)
LEMMA FlagsStep == Flags /\ [Next]_vars => Flags'
<1> SUFFICES ASSUME Flags, [Next]_vars PROVE Flags'
  OBVIOUS
<1> USE DEF Flags, step, loop, shared, DoGetIpReturns, Proceed, Halt
<1>1. CASE QueryFails
  BY <1>1, Zenon DEF QueryFails
<1>2. CASE QueryAnswers
  BY <1>2, Zenon DEF QueryAnswers
<1>3. CASE CheckAnswer
  BY <1>3, Zenon DEF CheckAnswer, Restarted
<1>4. CASE Pause \/ Send
  BY <1>4, Zenon DEF Pause, Send
<1>5. CASE OnTimeout
  BY <1>5, Zenon DEF OnTimeout, AfterTimeout
<1>6. CASE Drain
  BY <1>6, Zenon DEF Drain
<1>7. CASE OnWaitDone
  BY <1>7, Zenon DEF OnWaitDone, WaitError
<1>8. CASE OnInterrupt \/ OnTick
  BY <1>8, Zenon DEF OnInterrupt, OnTick
<1>9. CASE AddressChanges \/ SettleElapses \/ TimeoutFires \/ Interrupt \/ MarkCancelled
  BY <1>9, Zenon DEF AddressChanges, SettleElapses, TimeoutFires, Interrupt, MarkCancelled
<1>10. CASE UNCHANGED vars
  BY <1>10 DEF vars
<1> QED
  BY <1>1, <1>2, <1>3, <1>4, <1>5, <1>6, <1>7, <1>8, <1>9, <1>10
     DEF Next, Poller, Main, Environment

-----------------------------------------------------------------------------
USE DEF Values, BagOfResult, Handover, Settling, SettledInv

(* The steps of the goroutine.                                             *)
LEMMA QueryFailsKeeps == Others /\ QueryFails => Others'
BY DEF Others, QueryFails, DoGetIpReturns, step

LEMMA QueryAnswersKeeps == Others /\ QueryAnswers => Others'
<1> SUFFICES ASSUME Others, QueryAnswers PROVE Others'
  OBVIOUS
<1>1. steady' <=> steady /\ got' = got
  BY Zenon DEF QueryAnswers
<1>2. /\ poller = "query" /\ poller' = "check"
      /\ got' = Filtered(addr) /\ UNCHANGED <<addr, prev, settleDue, shared, step, timedOut>>
      /\ UNCHANGED <<ctxDone, cancelled>>
  BY DEF QueryAnswers
<1> QED
  BY <1>1, <1>2 DEF Others, Filtered, shared, step

LEMMA CheckAnswerKeeps == Others /\ CheckAnswer => Others'
<1> SUFFICES ASSUME Others, CheckAnswer PROVE Others'
  OBVIOUS
<1>1. CASE DoGetIpReturns(got, TRUE)
  BY <1>1 DEF Others, CheckAnswer, DoGetIpReturns, step
<1>2. CASE /\ ~Unsettled(prev, got) /\ settleDue
           /\ DoGetIpReturns(got, FALSE)
  <2>1. got \in Wanted /\ steady
    BY <1>2 DEF Others, Unsettled
  <2> QED
    BY <1>2, <2>1 DEF Others, CheckAnswer, DoGetIpReturns, step
<1>3. CASE /\ prev' = got /\ settleDue' = FALSE
           /\ poller' = "query"
           /\ UNCHANGED <<got, steady, shared>>
  BY <1>3 DEF Others, CheckAnswer, shared, step
<1>4. CASE /\ ~Unsettled(prev, got)
           /\ poller' = "pause"
           /\ UNCHANGED <<got, prev, settleDue, steady, shared>>
  BY <1>4 DEF Others, CheckAnswer, Unsettled, shared, step
<1> QED
  BY <1>1, <1>2, <1>3, <1>4 DEF CheckAnswer, Restarted

LEMMA PauseKeeps == Others /\ Pause => Others'
BY DEF Others, Pause, DoGetIpReturns, shared, step

LEMMA SendKeeps == Others /\ Send => Others'
BY DEF Others, Send, CanSend, step

(* The branches of the select.                                             *)
LEMMA OnTimeoutKeeps == Others /\ OnTimeout => Others'
BY DEF Others, OnTimeout, AfterTimeout, loop, shared

LEMMA DrainKeeps == Others /\ Drain => Others'
BY DEF Others, Drain, Proceed, Halt, loop

LEMMA OnWaitDoneKeeps == Others /\ OnWaitDone => Others'
BY DEF Others, OnWaitDone, WaitError, Proceed, Halt, loop

LEMMA SilentHaltKeeps == Others /\ (OnInterrupt \/ OnTick) => Others'
BY DEF Others, OnInterrupt, OnTick, Halt, loop, shared

(* What happens around the step.                                           *)
LEMMA AddressChangesKeeps == Others /\ AddressChanges => Others'
BY DEF Others, AddressChanges, loop, shared, step

LEMMA SettleElapsesKeeps == Others /\ SettleElapses => Others'
<1> SUFFICES ASSUME Others, SettleElapses PROVE Others'
  OBVIOUS
<1>1. steady' <=> prev = got
  BY Zenon DEF SettleElapses
<1>2. /\ result = "none" /\ ~steady /\ settleDue'
      /\ UNCHANGED <<addr, poller, got, prev, shared, step, timedOut, ctxDone, cancelled>>
  BY DEF SettleElapses
<1> QED
  BY <1>1, <1>2 DEF Others, shared, step

LEMMA TimeoutFiresKeeps == Others /\ TimeoutFires => Others'
BY DEF Others, TimeoutFires, loop, shared, step

LEMMA CancelKeeps == Others /\ (Interrupt \/ MarkCancelled) => Others'
BY DEF Others, Interrupt, MarkCancelled, loop, shared, step

LEMMA StutterKeeps == Others /\ UNCHANGED vars => Others'
BY DEF Others, vars

LEMMA IInvStep == IInv /\ [Next]_vars => IInv'
<1>1. Others /\ [Next]_vars => Others'
  BY QueryFailsKeeps, QueryAnswersKeeps, CheckAnswerKeeps, PauseKeeps, SendKeeps,
     OnTimeoutKeeps, DrainKeeps, OnWaitDoneKeeps, SilentHaltKeeps, AddressChangesKeeps,
     SettleElapsesKeeps, TimeoutFiresKeeps, CancelKeeps, StutterKeeps
     DEF Next, Poller, Main, Environment
<1> QED
  BY <1>1, FlagsStep, Split, SplitPrime

(* The invariant holds in every run of the step.                           *)
THEOREM WaitInvariant == Spec => []IInv
BY IInvInit, IInvStep, PTL DEF Spec

-----------------------------------------------------------------------------
(* Every variable keeps its type: at most one message is ever in waitDone, *)
(* and "ip" is never an address outside the filter.                        *)
THEOREM WaitTypeCorrect == Spec => []TypeOK
<1>1. IInv => TypeOK
  BY DEF IInv
<1> QED
  BY <1>1, WaitInvariant, PTL

(* stepWaitForIp never goes on with the empty string or with an address    *)
(* outside ip_wait_address, on the timeout path as well.                   *)
THEOREM UsableIp == Spec => []IpIsUsable
<1>1. IInv => IpIsUsable
  BY DEF IInv, BagOfResult, IpIsUsable
<1> QED
  BY <1>1, WaitInvariant, PTL

(* Before the timeout stepWaitForIp uses an address only after a whole     *)
(* settle period without a change.                                         *)
THEOREM SettledIp == Spec => []IpIsSettled
<1>1. IInv => IpIsSettled
  BY DEF IInv, SettledInv, IpIsSettled
<1> QED
  BY <1>1, WaitInvariant, PTL

-----------------------------------------------------------------------------
(* The step and its goroutine never wait for each other for nothing.       *)

\* The message is taken only by the step on its way out, and whoever waits
\* for it, or has left, has cancelled the derived context.
MessageInv ==
  /\ poller = "done" /\ main # "returned" => waitDone = 1
  /\ main # "select" => subDone

LEMMA MessageInit == Init => MessageInv
BY DEF Init, MessageInv

LEMMA MessageStep == IInv /\ MessageInv /\ [Next]_vars => MessageInv'
<1> SUFFICES ASSUME IInv, MessageInv, [Next]_vars PROVE MessageInv'
  OBVIOUS
<1> USE DEF MessageInv, step, loop, shared
<1>1. CASE QueryFails \/ QueryAnswers \/ CheckAnswer \/ Pause
  BY <1>1 DEF QueryFails, QueryAnswers, CheckAnswer, Pause, DoGetIpReturns
<1>2. CASE Send
  BY <1>2 DEF Send
<1>3. CASE OnTimeout
  BY <1>3 DEF OnTimeout, AfterTimeout
<1>4. CASE Drain \/ OnWaitDone \/ OnInterrupt \/ OnTick
  BY <1>4 DEF Drain, OnWaitDone, OnInterrupt, OnTick, Proceed, Halt
<1>5. CASE AddressChanges \/ SettleElapses \/ TimeoutFires \/ Interrupt \/ MarkCancelled
  BY <1>5 DEF AddressChanges, SettleElapses, TimeoutFires, Interrupt, MarkCancelled
<1>6. CASE UNCHANGED vars
  BY <1>6 DEF vars
<1> QED
  BY <1>1, <1>2, <1>3, <1>4, <1>5, <1>6 DEF Next, Poller, Main, Environment

\* Whenever the goroutine has something to send, waitDone has room for it.
PollerNotStuck == poller = "send" => CanSend

\* The timeout branch waits for a message that is there or is still to come
\* from a goroutine whose context is cancelled.
DrainNotStuck == main = "drain" => waitDone = 1 \/ (poller # "done" /\ subDone)

(* The goroutine can always send its message, also when the select was     *)
(* left by another branch and nobody will receive it.                      *)
THEOREM PollerNeverStuck == Spec => []PollerNotStuck
<1>1. IInv => PollerNotStuck
  BY DEF IInv, TypeOK, PollerNotStuck, CanSend
<1> QED
  BY <1>1, WaitInvariant, PTL

(* "<-waitDone" in the timeout branch never waits for a message that was   *)
(* taken already or that nobody will send.                                 *)
THEOREM DrainNeverStuck == Spec => []DrainNotStuck
<1>1. MessageInv => DrainNotStuck
  BY DEF MessageInv, DrainNotStuck
<1> QED
  BY <1>1, MessageInit, MessageStep, WaitInvariant, PTL DEF Spec

\* How many steps the goroutine has to go once its context is cancelled.
Left(l) ==
  CASE l = "pause" -> 3
    [] l \in {"query", "check"} -> 2
    [] l = "send" -> 1
    [] l = "done" -> 0

\* Those that the goroutine takes then bring it nearer to its end, and no
\* other step takes it back.
WindsUp ==
  subDone => poller' = poller \/ Left(poller') < Left(poller)

(* Once the step has returned, or waits in the timeout branch, or the user *)
(* cancelled, doGetIp does not poll on: it takes three more steps at most. *)
THEOREM PollerWindsUp == Spec => [][WindsUp]_vars
<1>1. /\ Left("pause") = 3 /\ Left("query") = 2 /\ Left("check") = 2
      /\ Left("send") = 1 /\ Left("done") = 0
  BY DEF Left
<1>2. [Next]_vars => [WindsUp]_vars
  <2> SUFFICES ASSUME Next, subDone PROVE poller' = poller \/ Left(poller') < Left(poller)
    BY DEF WindsUp
  <2>1. CASE QueryFails
    <3>1. poller = "query" /\ poller' = "send"
      BY <2>1 DEF QueryFails, DoGetIpReturns
    <3> QED
      BY <1>1, <3>1
  <2>2. CASE CheckAnswer
    <3>1. poller = "check" /\ poller' = "send"
      BY <2>2 DEF CheckAnswer, DoGetIpReturns
    <3> QED
      BY <1>1, <3>1
  <2>3. CASE Pause
    <3>1. poller = "pause" /\ poller' \in {"send", "query"}
      BY <2>3 DEF Pause, DoGetIpReturns
    <3> QED
      BY <1>1, <3>1
  <2>4. CASE Send
    <3>1. poller = "send" /\ poller' = "done"
      BY <2>4 DEF Send
    <3> QED
      BY <1>1, <3>1
  <2>5. CASE Main
    BY <2>5 DEF Main, OnTimeout, Drain, OnInterrupt, OnWaitDone, OnTick, loop
  <2>6. CASE AddressChanges \/ SettleElapses \/ TimeoutFires \/ Interrupt \/ MarkCancelled
    BY <2>6 DEF AddressChanges, SettleElapses, TimeoutFires, Interrupt, MarkCancelled, loop
  <2> QED
    BY <2>1, <2>2, <2>3, <2>4, <2>5, <2>6 DEF Next, Poller, Environment, QueryAnswers
<1> QED
  BY <1>2, PTL DEF Spec

-----------------------------------------------------------------------------
(* Every step of the model is one of the contract, or changes nothing that *)
(* the contract speaks of.                                                 *)
LEMMA ContractInit == Init => Step!Init
BY DEF Init, Step!Init

LEMMA ContractStep ==
  IInv /\ [Next]_vars => [Step!Next]_<<result, bagError, ctxDone, bagIp # None>>
<1> SUFFICES ASSUME IInv, [Next]_vars
             PROVE  Step!Next \/ UNCHANGED <<result, bagError, ctxDone, bagIp # None>>
  OBVIOUS
<1>1. CASE Poller \/ QueryFails \/ AddressChanges \/ SettleElapses \/ TimeoutFires
           \/ MarkCancelled \/ OnTimeout \/ UNCHANGED vars
  BY <1>1 DEF Poller, QueryFails, QueryAnswers, CheckAnswer, Pause, Send, DoGetIpReturns,
              AddressChanges, SettleElapses, TimeoutFires, MarkCancelled, OnTimeout, step, vars
<1>2. CASE Interrupt
  BY <1>2 DEF Interrupt, step, Step!Next, Step!AskToStop
<1>3. CASE Drain \/ OnWaitDone
  <2>1. result = "none" /\ bagIp = None /\ ~bagError /\ bagError \in BOOLEAN
    BY <1>3 DEF IInv, TypeOK, BagOfResult, Drain, OnWaitDone
  <2>2. CASE Proceed
    <3>1. ip # None
      BY <1>3, <2>1, <2>2 DEF IInv, Handover, Drain, OnWaitDone, Proceed, Halt
    <3> QED
      BY <1>3, <2>1, <2>2, <3>1 DEF Drain, OnWaitDone, Proceed, Step!Next, Step!Complete
  <2>3. CASE Halt(TRUE)
    BY <1>3, <2>1, <2>3 DEF Drain, OnWaitDone, Halt, Step!Next, Step!Fail
  <2> QED
    BY <1>3, <2>2, <2>3 DEF Drain, OnWaitDone, WaitError
<1>4. CASE OnInterrupt \/ OnTick
  <2>1. result = "none" /\ ctxDone /\ bagError = FALSE
    BY <1>4 DEF IInv, TypeOK, BagOfResult, OnInterrupt, OnTick
  <2> QED
    BY <1>4, <2>1 DEF OnInterrupt, OnTick, Halt, Step!Next, Step!Quit
<1> QED
  BY <1>1, <1>2, <1>3, <1>4 DEF Next, Poller, Main, Environment

(* stepWaitForIp goes on only with an address in the bag, and halts only   *)
(* with an error there or after the build's context was cancelled.         *)
THEOREM WaitImplementsStep == Spec => ImplementsStep
BY ContractInit, ContractStep, WaitInvariant, PTL DEF Spec, ImplementsStep, Step!Spec

=============================================================================
