---------------------------- MODULE SessionProofs ----------------------------
(***************************************************************************)
(* Proofs about the tunnel sessions, for any number of sessions, tunnels   *)
(* and operators: the type invariant, that a session whose close() is past *)
(* its CompareAndSwap is in no tunnel, and that a tunnel goes offline only *)
(* by the close() of the session it has.                                   *)
(*                                                                         *)
(* NoDeadSessionRegistered is not inductive: Publish puts a session into a *)
(* tunnel, so it has to be known that nobody can have closed a session     *)
(* that was never visible (Fresh), and that it has a tunnel by then        *)
(* (Bound, the part of TypeOK that is about the Swap).                     *)
(***************************************************************************)
EXTENDS Session, FiniteSetTheorems, TLAPS

Unpublished == {"none", "hello", "swap"}

(* A handler that is about to publish its session knows the tunnel. *)
Bound == \A s \in Sessions : pc[s] = "swap" => tun[s] \in Tunnels

(* Before it is published a session is in no tunnel and nobody closes it. *)
Fresh ==
    \A s \in Sessions : pc[s] \in Unpublished =>
        /\ step[s] = "open"
        /\ \A t \in Tunnels : session[t] # s
        /\ \A a \in Actors : call[a] # s

IInv == TypeOK /\ Bound /\ Fresh /\ NoDeadSessionRegistered

(* The invariant holds of a server that has just been started. *)
LEMMA InitIInv == Init => IInv
<1> SUFFICES ASSUME Init PROVE IInv OBVIOUS
<1> USE SessionAssumption DEF Init
<1>1. TypeOK
  BY DEF TypeOK, PCs, Steps, Actors
<1>2. Bound /\ Fresh /\ NoDeadSessionRegistered
  BY DEF Bound, Fresh, Unpublished, NoDeadSessionRegistered, Actors
<1> QED BY <1>1, <1>2 DEF IInv

(* Steps that leave the handshake and close() alone (writers, App.Stop's *)
(* own bookkeeping, frames put into a queue).                            *)
LEMMA QuietStep ==
  ASSUME IInv, TypeOK', UNCHANGED <<handshakeVars, step, call>>
  PROVE  IInv'
BY DEF IInv, Bound, Fresh, NoDeadSessionRegistered, handshakeVars

(* Steps of a handler that leave the tunnels and close() alone. *)
LEMMA HandlerStep ==
  ASSUME IInv, TypeOK', UNCHANGED <<tun, session, step, call>>,
         NEW s \in Sessions, \A x \in Sessions \ {s} : pc'[x] = pc[x],
         pc'[s] \notin {"none", "swap"}, pc'[s] = "hello" => pc[s] = "none"
  PROVE  IInv'
<1> USE DEF IInv
<1>1. Bound' BY DEF Bound, TypeOK
<1>2. Fresh' BY DEF Fresh, Unpublished, TypeOK
<1>3. NoDeadSessionRegistered' BY DEF NoDeadSessionRegistered
<1> QED BY <1>1, <1>2, <1>3

(* The reader leaves its loop, and will execute close() for its own session. *)
LEMMA LeaveStep ==
  ASSUME IInv, TypeOK', UNCHANGED <<tun, session, step>>,
         NEW s \in Sessions, Leave(s)
  PROVE  IInv'
<1> USE DEF IInv, Leave
<1>1. Bound' BY DEF Bound, TypeOK
<1>2. Fresh' BY DEF Fresh, Unpublished, TypeOK
<1>3. NoDeadSessionRegistered' BY DEF NoDeadSessionRegistered
<1> QED BY <1>1, <1>2, <1>3

(* An operator or App.Stop calls close() for a session it found in a tunnel. *)
LEMMA CallStep ==
  ASSUME IInv, TypeOK', UNCHANGED <<pc, tun, session, step>>,
         NEW a \in Actors, NEW t \in Tunnels,
         call' = [call EXCEPT ![a] = session[t]]
  PROVE  IInv'
<1> USE DEF IInv
<1>1. Bound' BY DEF Bound
<1>2. Fresh' BY DEF Fresh, TypeOK
<1>3. NoDeadSessionRegistered' BY DEF NoDeadSessionRegistered
<1> QED BY <1>1, <1>2, <1>3

(* close() advances for a session that is, or after this step remains, alive *)
(* to its tunnel, or that is in no tunnel any more.                          *)
LEMMA CloseBody ==
  ASSUME IInv, TypeOK', UNCHANGED <<pc, tun, session, call>>,
         NEW a \in Actors, call[a] \in Sessions,
         \A x \in Sessions \ {call[a]} : step'[x] = step[x],
         step'[call[a]] \in {"detached", "finished"}
             => \A t \in Tunnels : session[t] # call[a]
  PROVE  IInv'
<1> USE DEF IInv
<1>1. Bound' BY DEF Bound
<1>2. Fresh'
  BY DEF Fresh, Unpublished, TypeOK
<1>3. NoDeadSessionRegistered' BY DEF NoDeadSessionRegistered, TypeOK
<1> QED BY <1>1, <1>2, <1>3

-----------------------------------------------------------------------------
(* Every step preserves the types. *)
LEMMA StepTypeOK == IInv /\ [Next]_vars => TypeOK'
<1> SUFFICES ASSUME IInv, [Next]_vars PROVE TypeOK' OBVIOUS
<1> USE SessionAssumption
        DEF IInv, TypeOK, Bound, Actors, PCs, Steps, handshakeVars, closeVars, queueVars, appVars
<1>1. ASSUME NEW s \in Sessions, Handler(s) \/ ReadFails(s) PROVE TypeOK'
  <2>1. CASE Publish(s) BY <2>1 DEF Publish
  <2>2. CASE Count(s) BY <2>2 DEF Count
  <2>3. CASE Ack(s) BY <2>3 DEF Ack
  <2>4. CASE SendError(s) BY <2>4 DEF SendError, Leave
  <2>5. CASE ReadFails(s) BY <2>5 DEF ReadFails, Leave
  <2>6. CASE RunReturns(s) BY <2>6 DEF RunReturns
  <2> QED BY <1>1, <2>1, <2>2, <2>3, <2>4, <2>5, <2>6 DEF Handler
<1>2. ASSUME NEW s \in Sessions, Environment(s) PROVE TypeOK'
  <2>1. CASE Upgrade(s) BY <2>1 DEF Upgrade
  <2>2. CASE Hello(s) BY <2>2 DEF Hello
  <2>3. CASE HelloRejected(s) BY <2>3 DEF HelloRejected
  <2>4. CASE OtherSends(s) BY <2>4 DEF OtherSends
  <2> QED BY <1>1, <1>2, <2>1, <2>2, <2>3, <2>4 DEF Environment
<1>3. ASSUME NEW s \in Sessions, Writer(s) PROVE TypeOK'
  BY <1>3 DEF Writer, WriterEnds, WriterFails
<1>4. ASSUME NEW a \in Actors, CloseStep(a) PROVE TypeOK'
  <2>1. CASE CloseSwap(a) BY <2>1 DEF CloseSwap
  <2>2. CASE CloseTeardown(a) BY <2>2 DEF CloseTeardown, Body
  <2>3. CASE CloseDetach(a) BY <2>3 DEF CloseDetach, Body, Holds
  <2>4. CASE CloseCount(a) BY <2>4 DEF CloseCount, Body
  <2>5. CASE CloseReturns(a) BY <2>5 DEF CloseReturns
  <2> QED BY <1>4, <2>1, <2>2, <2>3, <2>4, <2>5 DEF CloseStep
<1>5. ASSUME NEW a \in Admins, Disconnect(a) PROVE TypeOK'
  BY <1>5 DEF Disconnect
<1>6. CASE StopList BY <1>6 DEF StopList
<1>7. CASE StopVisit BY <1>7 DEF StopVisit
<1>8. CASE StopShutdown BY <1>8 DEF StopShutdown
<1>9. CASE UNCHANGED vars BY <1>9 DEF vars
<1> QED BY <1>1, <1>2, <1>3, <1>4, <1>5, <1>6, <1>7, <1>8, <1>9 DEF Next

(* Every step preserves the invariant. *)
LEMMA StepIInv == IInv /\ [Next]_vars => IInv'
<1> SUFFICES ASSUME IInv, [Next]_vars PROVE IInv' OBVIOUS
<1>0. TypeOK' BY StepTypeOK
<1>a. TypeOK BY DEF IInv
<1>b. Stopper \in Actors /\ Sessions \subseteq Actors /\ Admins \subseteq Actors
  BY SessionAssumption DEF Actors
<1> USE DEF handshakeVars, closeVars, queueVars, appVars
<1>1. ASSUME NEW s \in Sessions, Publish(s) PROVE IInv'
  <2>0. tun[s] \in Tunnels BY <1>1 DEF Publish, IInv, Bound
  <2>1. Bound' BY <1>1, <1>a DEF Publish, IInv, Bound, TypeOK
  <2>2. Fresh'
    <3> SUFFICES ASSUME NEW x \in Sessions, pc'[x] \in Unpublished
                 PROVE  /\ step'[x] = "open"
                        /\ \A t \in Tunnels : session'[t] # x
                        /\ \A a \in Actors : call'[a] # x
      BY DEF Fresh
    <3>1. x # s /\ pc[x] \in Unpublished
      BY <1>1, <1>a DEF Publish, TypeOK, Unpublished
    <3> QED BY <3>1, <2>0, <1>1, <1>a DEF Publish, IInv, Fresh, TypeOK
  <2>3. NoDeadSessionRegistered'
    <3>1. step[s] = "open" BY <1>1 DEF Publish, IInv, Fresh, Unpublished
    <3> QED BY <3>1, <2>0, <1>1, <1>a DEF Publish, IInv, NoDeadSessionRegistered, TypeOK
  <2> QED BY <2>1, <2>2, <2>3, <1>0 DEF IInv
<1>2. ASSUME NEW s \in Sessions, Handler(s) \/ ReadFails(s) PROVE IInv'
  <2>1. CASE Count(s)
    <3>1. /\ UNCHANGED <<tun, session, step, call>> /\ pc'[s] \in {"error", "ack"}
          /\ \A x \in Sessions \ {s} : pc'[x] = pc[x]
      BY <2>1, <1>a DEF Count, TypeOK
    <3> QED BY <3>1, <1>0, HandlerStep
  <2>2. CASE Ack(s)
    <3>1. /\ UNCHANGED <<tun, session, step, call>> /\ pc'[s] \in {"error", "loop"}
          /\ \A x \in Sessions \ {s} : pc'[x] = pc[x]
      BY <2>2, <1>a DEF Ack, TypeOK
    <3> QED BY <3>1, <1>0, HandlerStep
  <2>3. CASE SendError(s) BY <2>3, <1>0, LeaveStep DEF SendError
  <2>4. CASE ReadFails(s) BY <2>4, <1>0, LeaveStep DEF ReadFails
  <2>5. CASE RunReturns(s)
    <3>1. /\ UNCHANGED <<tun, session, step, call>> /\ pc'[s] = "ended"
          /\ \A x \in Sessions \ {s} : pc'[x] = pc[x]
      BY <2>5, <1>a DEF RunReturns, TypeOK
    <3> QED BY <3>1, <1>0, HandlerStep
  <2> QED BY <1>1, <1>2, <2>1, <2>2, <2>3, <2>4, <2>5 DEF Handler
<1>3. ASSUME NEW s \in Sessions, Environment(s) PROVE IInv'
  <2>1. CASE Upgrade(s)
    <3>1. /\ UNCHANGED <<tun, session, step, call>> /\ pc'[s] = "hello" /\ pc[s] = "none"
          /\ \A x \in Sessions \ {s} : pc'[x] = pc[x]
      BY <2>1, <1>a DEF Upgrade, TypeOK
    <3> QED BY <3>1, <1>0, HandlerStep
  <2>2. CASE Hello(s)
    <3>1. Bound' BY <2>2, <1>a DEF Hello, IInv, Bound, TypeOK
    <3>2. Fresh' BY <2>2, <1>a DEF Hello, IInv, Fresh, Unpublished, TypeOK
    <3>3. NoDeadSessionRegistered'
      BY <2>2, <1>a DEF Hello, IInv, Fresh, Unpublished, NoDeadSessionRegistered, TypeOK
    <3> QED BY <3>1, <3>2, <3>3, <1>0 DEF IInv
  <2>3. CASE HelloRejected(s)
    <3>1. /\ UNCHANGED <<tun, session, step, call>> /\ pc'[s] = "error"
          /\ \A x \in Sessions \ {s} : pc'[x] = pc[x]
      BY <2>3, <1>a DEF HelloRejected, TypeOK
    <3> QED BY <3>1, <1>0, HandlerStep
  <2>4. CASE OtherSends(s) BY <2>4, <1>0, QuietStep DEF OtherSends
  <2> QED BY <1>2, <1>3, <2>1, <2>2, <2>3, <2>4 DEF Environment
<1>4. ASSUME NEW s \in Sessions, Writer(s) PROVE IInv'
  BY <1>4, <1>0, QuietStep DEF Writer, WriterEnds, WriterFails
<1>5. ASSUME NEW a \in Actors, CloseStep(a) PROVE IInv'
  <2>0. call[a] # None => call[a] \in Sessions BY <1>a DEF TypeOK
  <2>1. CASE CloseSwap(a)
    <3>1. /\ UNCHANGED <<pc, tun, session, call>> /\ call[a] \in Sessions
          /\ step'[call[a]] = "swapped"
          /\ \A x \in Sessions \ {call[a]} : step'[x] = step[x]
      BY <2>1, <2>0, <1>a DEF CloseSwap, TypeOK
    <3> QED BY <3>1, <1>0, CloseBody
  <2>2. CASE CloseTeardown(a)
    <3>1. /\ UNCHANGED <<pc, tun, session, call>> /\ call[a] \in Sessions
          /\ step'[call[a]] = "torn"
          /\ \A x \in Sessions \ {call[a]} : step'[x] = step[x]
      BY <2>2, <2>0, <1>a DEF CloseTeardown, Body, TypeOK
    <3> QED BY <3>1, <1>0, CloseBody
  <2>3. CASE CloseCount(a)
    <3>1. \A t \in Tunnels : session[t] # call[a]
      BY <2>3, <2>0, SessionAssumption DEF CloseCount, Body, IInv, NoDeadSessionRegistered
    <3>2. /\ UNCHANGED <<pc, tun, session, call>> /\ call[a] \in Sessions
          /\ step'[call[a]] = "finished"
          /\ \A x \in Sessions \ {call[a]} : step'[x] = step[x]
      BY <2>3, <2>0, <1>a DEF CloseCount, Body, TypeOK
    <3> QED BY <3>1, <3>2, <1>0, CloseBody
  <2>4. CASE CloseDetach(a) /\ ~Holds(call[a])
    <3>1. \A t \in Tunnels : session[t] # call[a]
      BY <2>4, <2>0, SessionAssumption
      DEF CloseDetach, Body, Holds, IInv, NoDeadSessionRegistered
    <3>2. /\ UNCHANGED <<pc, tun, session, call>> /\ call[a] \in Sessions
          /\ step'[call[a]] = "finished"
          /\ \A x \in Sessions \ {call[a]} : step'[x] = step[x]
      BY <2>4, <2>0, <1>a DEF CloseDetach, Body, TypeOK
    <3> QED BY <3>1, <3>2, <1>0, CloseBody
  <2>5. CASE CloseDetach(a) /\ Holds(call[a])
    <3> DEFINE x == call[a]
    <3>0. /\ x \in Sessions /\ tun[x] \in Tunnels
          /\ session' = [session EXCEPT ![tun[x]] = None]
          /\ step' = [step EXCEPT ![x] = "detached"]
          /\ UNCHANGED <<pc, tun, call>>
      BY <2>5, <2>0, <1>a DEF CloseDetach, Body, Holds, TypeOK
    <3>1. Bound' BY <3>0 DEF IInv, Bound
    <3>2. Fresh'
      BY <3>0, <1>a, SessionAssumption DEF IInv, Fresh, TypeOK
    <3>3. NoDeadSessionRegistered'
      BY <3>0, <1>a DEF IInv, NoDeadSessionRegistered, TypeOK
    <3> QED BY <3>1, <3>2, <3>3, <1>0 DEF IInv
  <2>6. CASE CloseReturns(a)
    <3>1. Bound' BY <2>6, <1>a DEF CloseReturns, IInv, Bound, TypeOK
    <3>2. Fresh'
      BY <2>6, <1>a, SessionAssumption DEF CloseReturns, IInv, Fresh, Unpublished, TypeOK
    <3>3. NoDeadSessionRegistered' BY <2>6 DEF CloseReturns, IInv, NoDeadSessionRegistered
    <3> QED BY <3>1, <3>2, <3>3, <1>0 DEF IInv
  <2> QED BY <1>5, <2>1, <2>2, <2>3, <2>4, <2>5, <2>6 DEF CloseStep
<1>6. ASSUME NEW a \in Admins, Disconnect(a) PROVE IInv'
  BY <1>6, <1>0, <1>b, CallStep DEF Disconnect
<1>7. CASE StopList BY <1>7, <1>0, QuietStep DEF StopList
<1>8. CASE StopVisit
  <2>1. PICK t \in todo : call' = [call EXCEPT ![Stopper] = session[t]]
    BY <1>8 DEF StopVisit
  <2>2. t \in Tunnels BY <1>a DEF TypeOK
  <2> QED BY <2>1, <2>2, <1>8, <1>0, <1>b, CallStep DEF StopVisit
<1>9. CASE StopShutdown BY <1>9, <1>0, QuietStep DEF StopShutdown
<1>10. CASE UNCHANGED vars BY <1>10, <1>0, QuietStep DEF vars
<1> QED BY <1>2, <1>3, <1>4, <1>5, <1>6, <1>7, <1>8, <1>9, <1>10 DEF Next

-----------------------------------------------------------------------------
(* The inductive invariant holds of every reachable state. *)
THEOREM Invariance == Spec => []IInv
<1> QED BY InitIInv, StepIInv, PTL DEF Spec

(* The variables keep their types (TypeOK). *)
THEOREM TypeCorrect == Spec => []TypeOK
<1>1. IInv => TypeOK BY DEF IInv
<1> QED BY <1>1, Invariance, PTL

(***************************************************************************)
(* No session that close() has taken out of its tunnel is ever found in a  *)
(* tunnel, however many sessions take it over and whoever calls close()    *)
(* meanwhile (handleHello, close).                                         *)
(***************************************************************************)
THEOREM DeadSessionsUnregistered == Spec => []NoDeadSessionRegistered
<1>1. IInv => NoDeadSessionRegistered BY DEF IInv
<1> QED BY <1>1, Invariance, PTL

(***************************************************************************)
(* A tunnel only goes offline by the close() of the very session it has    *)
(* (the CompareAndSwap at the end of close).                               *)
(***************************************************************************)
THEOREM SuccessorsKept == Spec => SuccessorKept
<1> DEFINE Kept == \A t \in Tunnels : session[t] # None /\ session'[t] = None
                                         => closed(session[t])
<1>1. ASSUME IInv, [Next]_vars PROVE [Kept]_session
  <2> SUFFICES ASSUME session' # session PROVE Kept OBVIOUS
  <2> USE DEF handshakeVars, closeVars, queueVars, appVars
  <2>0. TypeOK BY <1>1 DEF IInv
  <2>1. ASSUME NEW s \in Sessions, Publish(s) PROVE Kept
    BY <2>1, <2>0, SessionAssumption DEF Publish, TypeOK
  <2>2. ASSUME NEW a \in Actors, CloseDetach(a) PROVE Kept
    BY <2>2, <2>0 DEF CloseDetach, Body, Holds, closed, TypeOK
  <2>3. \/ \E s \in Sessions : Publish(s)
        \/ \E a \in Actors : CloseDetach(a)
    <3>1. ASSUME NEW s \in Sessions, Handler(s) \/ Environment(s) \/ Writer(s), ~Publish(s)
          PROVE  FALSE
      BY <3>1 DEF Handler, Environment, Writer, Count, Ack, SendError, ReadFails, RunReturns,
                  Upgrade, Hello, HelloRejected, OtherSends, WriterEnds, WriterFails
    <3>2. ASSUME NEW a \in Actors, CloseStep(a), ~CloseDetach(a) PROVE FALSE
      BY <3>2 DEF CloseStep, CloseSwap, CloseTeardown, CloseCount, CloseReturns
    <3>3. ~(\E a \in Admins : Disconnect(a)) BY DEF Disconnect
    <3>4. ~(StopList \/ StopVisit \/ StopShutdown) BY DEF StopList, StopVisit, StopShutdown
    <3>5. ~(UNCHANGED vars) BY DEF vars
    <3> QED BY <1>1, <3>1, <3>2, <3>3, <3>4, <3>5 DEF Next
  <2> QED BY <2>1, <2>2, <2>3
<1> QED BY <1>1, Invariance, PTL DEF Spec, SuccessorKept

-----------------------------------------------------------------------------
(***************************************************************************)
(* The online counter.  Between the Swap of the pointer and Add(1), and    *)
(* between the CompareAndSwap and Add(-1), it is off by one for each       *)
(* session that is there; what it should be otherwise is inductive only    *)
(* with these two sets counted in.                                         *)
(***************************************************************************)
Adding   == {s \in Sessions : pc[s] \in {"kick", "count"}}
Counting == {s \in Sessions : step[s] = "detached"}

(* A reader inside close() took a tunnel over or is leaving its own session. *)
CallerBusy == \A s \in Sessions : call[s] # None => pc[s] \in {"kick", "closing"}

Balance ==
    /\ IsFiniteSet(Online)
    /\ onlineCount = Cardinality(Online) + takeovers - Cardinality(Adding)
                     + Cardinality(Counting)

CountInv == IInv /\ CallerBusy /\ Balance

(* One element more or less in a finite set. *)
LEMMA OneMore ==
  ASSUME NEW S, NEW T, NEW x, IsFiniteSet(S), x \notin S, T = S \cup {x}
  PROVE  IsFiniteSet(T) /\ Cardinality(T) = Cardinality(S) + 1
BY FS_AddElement

LEMMA OneLess ==
  ASSUME NEW S, NEW T, NEW x, IsFiniteSet(S), x \in S, T = S \ {x}
  PROVE  IsFiniteSet(T) /\ Cardinality(T) = Cardinality(S) - 1
BY FS_RemoveElement

(* The two sets of sessions are finite. *)
LEMMA SetsFinite ==
  /\ IsFiniteSet(Adding) /\ Cardinality(Adding) \in Nat
  /\ IsFiniteSet(Counting) /\ Cardinality(Counting) \in Nat
<1>1. Adding \subseteq Sessions /\ Counting \subseteq Sessions BY DEF Adding, Counting
<1> QED BY <1>1, SessionAssumption, FS_Subset, FS_CardinalityType

(* The counter is right when the server starts. *)
LEMMA InitCount == Init => CountInv
<1> SUFFICES ASSUME Init PROVE CountInv OBVIOUS
<1>1. Online = {} /\ Adding = {} /\ Counting = {} BY DEF Init, Online, Adding, Counting
<1>2. CallerBusy BY SessionAssumption DEF Init, CallerBusy, Actors
<1> QED BY <1>1, <1>2, InitIInv, FS_EmptySet DEF Init, CountInv, Balance

(* Steps that touch neither the tunnels nor the counter, nor move a session *)
(* into or out of the two sets.                                             *)
LEMMA Uncounted ==
  ASSUME Balance, UNCHANGED <<session, onlineCount, takeovers>>,
         Adding' = Adding, Counting' = Counting
  PROVE  Balance'
BY DEF Balance, Online

(* Every step preserves CallerBusy. *)
LEMMA StepCallerBusy == IInv /\ CallerBusy /\ [Next]_vars => CallerBusy'
<1> SUFFICES ASSUME IInv, CallerBusy, [Next]_vars PROVE CallerBusy' OBVIOUS
<1> USE SessionAssumption
        DEF IInv, TypeOK, CallerBusy, Actors, handshakeVars, closeVars, queueVars, appVars
<1>1. ASSUME NEW s \in Sessions, Handler(s) \/ ReadFails(s) PROVE CallerBusy'
  <2>1. CASE Publish(s) BY <2>1 DEF Publish
  <2>2. CASE Count(s) BY <2>2 DEF Count
  <2>3. CASE Ack(s) BY <2>3 DEF Ack
  <2>4. CASE SendError(s) BY <2>4 DEF SendError, Leave
  <2>5. CASE ReadFails(s) BY <2>5 DEF ReadFails, Leave
  <2>6. CASE RunReturns(s) BY <2>6 DEF RunReturns
  <2> QED BY <1>1, <2>1, <2>2, <2>3, <2>4, <2>5, <2>6 DEF Handler
<1>2. ASSUME NEW s \in Sessions, Environment(s) \/ Writer(s) PROVE CallerBusy'
  <2>1. CASE Upgrade(s) BY <2>1 DEF Upgrade
  <2>2. CASE Hello(s) BY <2>2 DEF Hello
  <2>3. CASE HelloRejected(s) BY <2>3 DEF HelloRejected
  <2>4. CASE ReadFails(s) BY <1>1, <2>4
  <2>5. CASE OtherSends(s) \/ Writer(s)
    BY <2>5 DEF OtherSends, Writer, WriterEnds, WriterFails
  <2> QED BY <1>2, <2>1, <2>2, <2>3, <2>4, <2>5 DEF Environment
<1>3. ASSUME NEW a \in Actors, CloseStep(a) PROVE CallerBusy'
  <2>1. CASE CloseReturns(a) BY <2>1 DEF CloseReturns
  <2> QED BY <1>3, <2>1 DEF CloseStep, CloseSwap, CloseTeardown, CloseDetach, CloseCount
<1>4. ASSUME NEW a \in Admins, Disconnect(a) PROVE CallerBusy' BY <1>4 DEF Disconnect
<1>5. CASE StopList \/ StopVisit \/ StopShutdown
  BY <1>5 DEF StopList, StopVisit, StopShutdown
<1>6. CASE UNCHANGED vars BY <1>6 DEF vars
<1> QED BY <1>1, <1>2, <1>3, <1>4, <1>5, <1>6 DEF Next

(* Every step preserves the balance. *)
LEMMA StepBalance == CountInv /\ [Next]_vars => Balance'
<1> SUFFICES ASSUME CountInv, [Next]_vars PROVE Balance' OBVIOUS
<1>0. TypeOK /\ Balance /\ CallerBusy BY DEF CountInv, IInv
<1>a. /\ Cardinality(Online) \in Nat
      /\ Cardinality(Adding) \in Nat /\ Cardinality(Counting) \in Nat
  BY <1>0, SetsFinite, FS_CardinalityType DEF Balance
<1> USE SessionAssumption
        DEF TypeOK, Adding, Counting, handshakeVars, closeVars, queueVars, appVars
<1>1. ASSUME NEW s \in Sessions, Publish(s) PROVE Balance'
  <2>0. tun[s] \in Tunnels BY <1>1 DEF Publish, CountInv, IInv, Bound
  <2>1. Adding' = Adding \cup {s} /\ s \notin Adding BY <1>0, <1>1 DEF Publish
  <2>2. Cardinality(Adding') = Cardinality(Adding) + 1 BY <2>1, SetsFinite, OneMore
  <2>3. CASE session[tun[s]] = None
    <3>1. Online' = Online \cup {tun[s]} /\ tun[s] \notin Online
      BY <1>0, <1>1, <2>0, <2>3 DEF Publish, Online
    <3>2. IsFiniteSet(Online') /\ Cardinality(Online') = Cardinality(Online) + 1
      BY <3>1, <1>0, OneMore DEF Balance
    <3>3. onlineCount' = onlineCount /\ takeovers' = takeovers /\ Counting' = Counting
      BY <1>1, <2>3 DEF Publish
    <3> HIDE DEF Adding, Counting
    <3> QED BY <3>2, <3>3, <2>2, <1>0, <1>a DEF Balance
  <2>4. CASE session[tun[s]] # None
    <3>1. Online' = Online BY <1>0, <1>1, <2>0, <2>4 DEF Publish, Online
    <3>2. onlineCount' = onlineCount /\ takeovers' = takeovers + 1 /\ Counting' = Counting
      BY <1>1, <2>4 DEF Publish
    <3> HIDE DEF Adding, Counting
    <3> QED BY <3>1, <3>2, <2>2, <1>0, <1>a DEF Balance
  <2> QED BY <2>3, <2>4
<1>2. ASSUME NEW s \in Sessions, Count(s) PROVE Balance'
  <2>1. Adding' = Adding \ {s} /\ s \in Adding BY <1>0, <1>2 DEF Count
  <2>2. Cardinality(Adding') = Cardinality(Adding) - 1 BY <2>1, SetsFinite, OneLess
  <2>3. /\ onlineCount' = onlineCount + 1 /\ takeovers' = takeovers
        /\ Counting' = Counting /\ Online' = Online
    BY <1>2 DEF Count, Online
  <2> HIDE DEF Adding, Counting
  <2> QED BY <2>2, <2>3, <1>0, <1>a DEF Balance
<1>3. ASSUME NEW a \in Actors, CloseDetach(a) PROVE Balance'
  <2> DEFINE x == call[a]
  <2>0. x \in Sessions /\ step[x] = "torn" BY <1>0, <1>3 DEF CloseDetach, Body
  <2>1. CASE Holds(x)
    <3>0. /\ tun[x] \in Tunnels /\ session[tun[x]] = x
          /\ session' = [session EXCEPT ![tun[x]] = None]
          /\ step' = [step EXCEPT ![x] = "detached"]
          /\ UNCHANGED <<pc, onlineCount, takeovers>>
      BY <1>0, <1>3, <2>0, <2>1 DEF CloseDetach, Holds
    <3>1. Online' = Online \ {tun[x]} /\ tun[x] \in Online
      BY <3>0, <2>0, <1>0 DEF Online
    <3>2. Counting' = Counting \cup {x} /\ x \notin Counting BY <3>0, <2>0, <1>0
    <3>3. IsFiniteSet(Online') /\ Cardinality(Online') = Cardinality(Online) - 1
      BY <3>1, <1>0, OneLess DEF Balance
    <3>4. Cardinality(Counting') = Cardinality(Counting) + 1 BY <3>2, SetsFinite, OneMore
    <3>5. Adding' = Adding BY <3>0
    <3> HIDE DEF Adding, Counting
    <3> QED BY <3>0, <3>3, <3>4, <3>5, <1>0, <1>a DEF Balance
  <2>2. CASE ~Holds(x)
    <3>1. Counting' = Counting /\ Adding' = Adding BY <1>0, <1>3, <2>0, <2>2 DEF CloseDetach
    <3> QED BY <3>1, <1>0, <1>3, <2>2, Uncounted DEF CloseDetach
  <2> QED BY <2>1, <2>2
<1>4. ASSUME NEW a \in Actors, CloseCount(a) PROVE Balance'
  <2> DEFINE x == call[a]
  <2>1. Counting' = Counting \ {x} /\ x \in Counting BY <1>0, <1>4 DEF CloseCount, Body
  <2>2. Cardinality(Counting') = Cardinality(Counting) - 1 BY <2>1, SetsFinite, OneLess
  <2>3. /\ onlineCount' = onlineCount - 1 /\ takeovers' = takeovers
        /\ Adding' = Adding /\ Online' = Online
    BY <1>4 DEF CloseCount, Online
  <2> HIDE DEF Adding, Counting
  <2> QED BY <2>2, <2>3, <1>0, <1>a DEF Balance
<1>5. ASSUME NEW a \in Actors, CloseSwap(a) \/ CloseTeardown(a) \/ CloseReturns(a)
      PROVE  Balance'
  <2>1. Counting' = Counting
    BY <1>0, <1>5 DEF CloseSwap, CloseTeardown, CloseReturns, Body
  <2>2. Adding' = Adding
    BY <1>0, <1>5 DEF CloseSwap, CloseTeardown, CloseReturns, CallerBusy
  <2> QED BY <2>1, <2>2, <1>0, <1>5, Uncounted DEF CloseSwap, CloseTeardown, CloseReturns
<1>6. ASSUME NEW s \in Sessions, Handler(s) \/ Environment(s) \/ Writer(s),
             ~Publish(s), ~Count(s)
      PROVE  Balance'
  <2>1. UNCHANGED <<session, onlineCount, takeovers, step>>
    BY <1>6 DEF Handler, Environment, Writer, Ack, SendError, ReadFails, RunReturns, Upgrade,
                Hello, HelloRejected, OtherSends, WriterEnds, WriterFails
  <2>2. Adding' = Adding
    BY <1>0, <1>6 DEF Handler, Environment, Writer, Ack, SendError, ReadFails, RunReturns,
                      Upgrade, Hello, HelloRejected, OtherSends, WriterEnds, WriterFails,
                      Leave
  <2> QED BY <2>1, <2>2, <1>0, Uncounted
<1>7. CASE (\E a \in Admins : Disconnect(a)) \/ StopList \/ StopVisit \/ StopShutdown
  BY <1>0, <1>7, Uncounted DEF Disconnect, StopList, StopVisit, StopShutdown
<1>8. CASE UNCHANGED vars BY <1>0, <1>8, Uncounted DEF vars
<1> QED BY <1>1, <1>2, <1>3, <1>4, <1>5, <1>6, <1>7, <1>8 DEF Next, CloseStep

(***************************************************************************)
(* Whenever no session is between its two atomics, onlineCount is the      *)
(* number of online tunnels plus the takeovers so far (handleHello,        *)
(* close): the error of the counter is exactly that.                       *)
(***************************************************************************)
THEOREM CountAccounted == Spec => []OnlineCountAccounted
<1>1. CountInv /\ [Next]_vars => CountInv'
  BY StepIInv, StepCallerBusy, StepBalance DEF CountInv
<1>2. CountInv => OnlineCountAccounted
  <2> SUFFICES ASSUME CountInv, Settled
               PROVE  onlineCount = Cardinality(Online) + takeovers
    BY DEF OnlineCountAccounted
  <2>1. Adding = {} /\ Counting = {} BY DEF Settled, Adding, Counting
  <2> QED BY <2>1, FS_EmptySet, FS_CardinalityType DEF CountInv, Balance, IInv, TypeOK
<1> QED BY <1>1, <1>2, InitCount, PTL DEF Spec
=============================================================================
