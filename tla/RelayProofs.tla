----------------------------- MODULE RelayProofs -----------------------------
(***************************************************************************)
(* Proofs about relayed requests, for any number of requests and any sizes *)
(* of the queues: the types and bounds, that no done channel is closed     *)
(* twice, and that the teardown of a session reaches every handler.        *)
(*                                                                         *)
(* Neither safety property is inductive.  NoDoubleClose needs to know that *)
(* a handler registers a mailbox that is new (Unregistered).  That close() *)
(* wakes every waiter needs that handlers in mid-request have a mailbox in *)
(* the map or one that is over (Registered), and that a handler which has  *)
(* tested the closed flag before the teardown, and is still to enqueue its *)
(* frame, has been reached as well (Reached).                              *)
(***************************************************************************)
EXTENDS Relay, TLAPS

Early   == {"idle", "register"}
Engaged == {"check", "select", "upload", "first", "stream", "write", "finish"}
Waiting == {"select", "first", "stream", "write"}

Unregistered == \A r \in Requests : pc[r] \in Early => r \notin pending /\ ~over[r]

Registered == \A r \in Requests : pc[r] \in Engaged => r \in pending \/ over[r]

Reached == Detached => \A r \in Requests : pc[r] \in Waiting => over[r]

IInv == TypeOK /\ NoDoubleClose /\ Unregistered /\ Registered /\ Reached

(* The invariant holds of a session nobody has used. *)
LEMMA InitIInv == Init => IInv
<1> SUFFICES ASSUME Init PROVE IInv OBVIOUS
<1> USE RelayAssumption DEF Init
<1>1. TypeOK
  BY DEF TypeOK, PCs, Ops, Outcomes
<1>2. NoDoubleClose /\ Unregistered /\ Registered /\ Reached
  BY DEF NoDoubleClose, Unregistered, Registered, Reached, Detached, Engaged
<1> QED BY <1>1, <1>2 DEF IInv

-----------------------------------------------------------------------------
(* What a receive from a channel with a buffer leaves. *)
LEMMA Receive ==
  ASSUME NEW S, NEW q \in Seq(S), q # <<>>
  PROVE  /\ Head(q) \in S /\ Tail(q) \in Seq(S)
         /\ Len(q) \in Nat /\ Len(Tail(q)) = Len(q) - 1
OBVIOUS

(* A handler takes a frame out of its mailbox. *)
LEMMA TakeMail ==
  ASSUME TypeOK, NEW r \in Requests, mail[r] # <<>>, mail' = [mail EXCEPT ![r] = Tail(@)]
  PROVE  /\ Head(mail[r]) \in Frame
         /\ mail' \in [Requests -> Seq(Frame)]
         /\ \A x \in Requests : Len(mail'[x]) <= MailCap
<1> USE RelayAssumption
<1>1. mail \in [Requests -> Seq(Frame)] /\ \A x \in Requests : Len(mail[x]) <= MailCap
  BY DEF TypeOK
<1>2. /\ Head(mail[r]) \in Frame /\ Tail(mail[r]) \in Seq(Frame)
      /\ Len(mail[r]) \in Nat /\ Len(Tail(mail[r])) = Len(mail[r]) - 1
  BY <1>1, Receive
<1>3. Len(Tail(mail[r])) <= MailCap BY <1>1, <1>2
<1> QED BY <1>1, <1>2, <1>3

(* Steps of the handlers preserve the types. *)
LEMMA HandlerTypeOK ==
  ASSUME TypeOK, NEW r \in Requests, Handler(r) \/ Arrive(r) \/ Caller(r) \/ CallerLeaves(r)
  PROVE  TypeOK'
<1> USE RelayAssumption
        DEF TypeOK, mailVars, peerVars, PCs, Ops, Outcomes, Goto, Send, Sent, Decide
<1>1. CASE Arrive(r) BY <1>1 DEF Arrive
<1>2. CASE RegisterPending(r) BY <1>2 DEF RegisterPending
<1>3. CASE SendCheck(r) BY <1>3 DEF SendCheck, SendFailed
<1>4. CASE SendEnqueue(r)
  <2>1. sendQ' \in Seq(QFrame) /\ Len(sendQ') <= SendCap
    <3>1. [req |-> r, kind |-> op[r]] \in QFrame BY <1>4 DEF SendEnqueue, QFrame
    <3> QED BY <3>1, <1>4 DEF SendEnqueue
  <2> QED BY <2>1, <1>4 DEF SendEnqueue
<1>5. CASE SendAborts(r) BY <1>5 DEF SendAborts, SendFailed
<1>6. CASE UploadChunk(r) BY <1>6 DEF UploadChunk
<1>7. CASE UploadEnds(r) BY <1>7 DEF UploadEnds
<1>8. CASE FirstFrame(r)
  <2>1. mail' \in [Requests -> Seq(Frame)] /\ \A x \in Requests : Len(mail'[x]) <= MailCap
    BY <1>8, TakeMail DEF FirstFrame
  <2> QED BY <2>1, <1>8 DEF FirstFrame
<1>9. CASE StreamFrame(r)
  <2>1. /\ Head(mail[r]) \in Frame
        /\ mail' \in [Requests -> Seq(Frame)]
        /\ \A x \in Requests : Len(mail'[x]) <= MailCap
    BY <1>9, TakeMail DEF StreamFrame
  <2>2. Head(mail[r]).seq \in 0..MaxChunks+1 BY <2>1 DEF Frame
  <2>3. Append(got[r], Head(mail[r]).seq) \in Seq(0..MaxChunks+1) BY <2>2
  <2>4. got' \in [Requests -> Seq(0..MaxChunks+1)] BY <2>3, <1>9 DEF StreamFrame
  <2>5. pc' \in [Requests -> PCs] /\ outcome' \in [Requests -> Outcomes]
    <3>1. CASE Goto(r, "write") /\ UNCHANGED outcome BY <3>1
    <3>2. ASSUME NEW o \in Outcomes, Goto(r, "finish"), Decide(r, o)
          PROVE  pc' \in [Requests -> PCs] /\ outcome' \in [Requests -> Outcomes]
      BY <3>2
    <3> QED BY <3>1, <3>2, <1>9 DEF StreamFrame
  <2> QED BY <2>1, <2>4, <2>5, <1>9 DEF StreamFrame
<1>10. CASE Dropped(r) BY <1>10 DEF Dropped
<1>11. CASE TimesOut(r) BY <1>11 DEF TimesOut
<1>12. CASE Finish(r) BY <1>12 DEF Finish, truncateResponse
<1>13. CASE CallerLeaves(r) BY <1>13 DEF CallerLeaves
<1>14. CASE WriteReturns(r) BY <1>14 DEF WriteReturns
<1> QED
  BY <1>1, <1>2, <1>3, <1>4, <1>5, <1>6, <1>7, <1>8, <1>9, <1>10, <1>11, <1>12, <1>13, <1>14
  DEF Handler, Caller

(* Steps of the reader, the writer, close() and the client preserve them. *)
LEMMA SessionTypeOK ==
  ASSUME TypeOK,
         \/ Reader \/ WriterWrites \/ WriterEnds \/ CloseBegins \/ CloseStep
         \/ \E r \in Requests : Client(r)
  PROVE  TypeOK'
<1> USE RelayAssumption DEF TypeOK, handlerVars, mailVars, peerVars, PCs, Ops, Outcomes
<1>1. CASE RouteLookup
  <2>1. /\ Head(wire) \in Frame /\ Tail(wire) \in Seq(Frame)
        /\ Len(wire) \in Nat /\ Len(Tail(wire)) = Len(wire) - 1
    BY <1>1, Receive DEF RouteLookup
  <2> QED BY <2>1, <1>1 DEF RouteLookup
<1>2. CASE RouteDeliver
  <2>1. held \in Frame /\ held.req \in Requests BY <1>2 DEF RouteDeliver, Frame
  <2>2. Len(mail[held.req]) < MailCap => /\ Append(mail[held.req], held) \in Seq(Frame)
                                         /\ Len(Append(mail[held.req], held)) <= MailCap
    BY <2>1
  <2>3. /\ mail' \in [Requests -> Seq(Frame)]
        /\ \A x \in Requests : Len(mail'[x]) <= MailCap
    BY <2>1, <2>2, <1>2 DEF RouteDeliver
  <2> QED BY <2>3, <1>2 DEF RouteDeliver
<1>3. CASE WriterWrites
  <2>1. /\ Head(sendQ) \in QFrame /\ Tail(sendQ) \in Seq(QFrame)
        /\ Len(sendQ) \in Nat /\ Len(Tail(sendQ)) = Len(sendQ) - 1
    BY <1>3, Receive DEF WriterWrites
  <2>2. Head(sendQ).req \in Requests BY <2>1 DEF QFrame
  <2>3. peer' \in [Requests -> {"none", "assembling", "ready", "streaming", "stopped"}]
    BY <2>2, <1>3 DEF WriterWrites
  <2> QED BY <2>1, <2>3, <1>3 DEF WriterWrites
<1>4. CASE WriterEnds
  <2>1. sendQ # <<>> => /\ Tail(sendQ) \in Seq(QFrame)
                        /\ Len(sendQ) \in Nat /\ Len(Tail(sendQ)) = Len(sendQ) - 1
    BY Receive
  <2>2. sendQ' \in Seq(QFrame) /\ Len(sendQ') <= SendCap
    <3>1. CASE sendQ' = sendQ BY <3>1
    <3>2. CASE sendQ # <<>> /\ sendQ' = Tail(sendQ) BY <2>1, <3>2
    <3> QED BY <3>1, <3>2, <1>4 DEF WriterEnds
  <2> QED BY <2>2, <1>4 DEF WriterEnds
<1>5. CASE CloseBegins BY <1>5 DEF CloseBegins
<1>6. CASE CloseConn BY <1>6 DEF CloseConn
<1>7. CASE CloseMailboxes BY <1>7 DEF CloseMailboxes
<1>8. CASE CloseDetach BY <1>8 DEF CloseDetach
<1>9. ASSUME NEW r \in Requests, Client(r) PROVE TypeOK'
  <2>1. ASSUME NEW k \in Kinds, NEW n \in 0..MaxChunks+1, Emit(r, k, n)
        PROVE  wire' \in Seq(Frame) /\ Len(wire') <= WireCap
    <3>1. [req |-> r, kind |-> k, seq |-> n] \in Frame BY DEF Frame
    <3> QED BY <3>1, <2>1 DEF Emit
  <2>2. CASE PeerStarts(r)
    <3>1. wire' \in Seq(Frame) /\ Len(wire') <= WireCap
      BY <2>1, <2>2 DEF PeerStarts, Kinds
    <3> QED BY <3>1, <2>2 DEF PeerStarts, Emit
  <2>3. CASE PeerSendsChunk(r)
    <3>1. sent[r] + 1 \in 0..MaxChunks BY <2>3 DEF PeerSendsChunk
    <3>2. wire' \in Seq(Frame) /\ Len(wire') <= WireCap
      BY <2>1, <2>3, <3>1 DEF PeerSendsChunk, Kinds
    <3> QED BY <3>1, <3>2, <2>3 DEF PeerSendsChunk, Emit
  <2>4. CASE PeerEnds(r)
    <3> DEFINE n == IF peer[r] = "ready" THEN 0 ELSE sent[r] + 1
    <3>1. PICK k \in {"end", "fail", "bad"} : Emit(r, k, n) BY <2>4 DEF PeerEnds
    <3>3. n \in 0..MaxChunks+1 OBVIOUS
    <3> HIDE DEF n
    <3>2. wire' \in Seq(Frame) /\ Len(wire') <= WireCap
      BY <2>1, <3>1, <3>3 DEF Kinds
    <3> QED BY <3>1, <3>2, <2>4 DEF PeerEnds, Emit
  <2> QED BY <1>9, <2>2, <2>3, <2>4 DEF Client
<1> QED BY <1>1, <1>2, <1>3, <1>4, <1>5, <1>6, <1>7, <1>8, <1>9 DEF Reader, CloseStep

-----------------------------------------------------------------------------
(* Steps that leave the handlers' places, the mailboxes and close() alone. *)
LEMMA QuietStep ==
  ASSUME IInv, TypeOK', UNCHANGED <<pc, pending, over, step>>
  PROVE  IInv'
BY DEF IInv, NoDoubleClose, Unregistered, Registered, Reached, Detached

(* A handler moves on: it may start to wait only before the teardown. *)
LEMMA Moves ==
  ASSUME IInv, TypeOK', UNCHANGED <<pending, over, step>>,
         NEW r \in Requests, \A x \in Requests \ {r} : pc'[x] = pc[x],
         pc'[r] \in Early => pc[r] \in Early,
         pc'[r] \in Engaged => pc[r] \in Engaged,
         pc'[r] \in Waiting /\ Detached => pc[r] \in Waiting
  PROVE  IInv'
<1>1. NoDoubleClose' BY DEF IInv, NoDoubleClose
<1>2. Unregistered' BY DEF IInv, Unregistered
<1>3. Registered' BY DEF IInv, Registered
<1>4. Reached' BY DEF IInv, Reached, Detached
<1> QED BY <1>1, <1>2, <1>3, <1>4 DEF IInv

(* close() advances without touching the mailboxes. *)
LEMMA CloseMoves ==
  ASSUME IInv, TypeOK', UNCHANGED <<pc, pending, over>>, Detached' => Detached
  PROVE  IInv'
BY DEF IInv, NoDoubleClose, Unregistered, Registered, Reached

(* Every step preserves the types ... *)
LEMMA StepTypeOK == TypeOK /\ [Next]_vars => TypeOK'
<1> SUFFICES ASSUME TypeOK, [Next]_vars PROVE TypeOK' OBVIOUS
<1>1. CASE UNCHANGED vars
  BY <1>1 DEF vars, handlerVars, mailVars, peerVars, TypeOK
<1> QED BY <1>1, HandlerTypeOK, SessionTypeOK DEF Next

(* ... and the invariant. *)
LEMMA StepIInv == IInv /\ [Next]_vars => IInv'
<1> SUFFICES ASSUME IInv, [Next]_vars PROVE IInv' OBVIOUS
<1>a. TypeOK BY DEF IInv
<1>0. TypeOK' BY <1>a, StepTypeOK
<1>1. ASSUME NEW r \in Requests, Handler(r) \/ Arrive(r) \/ Caller(r) \/ CallerLeaves(r)
      PROVE  IInv'
  <2>1. CASE Arrive(r)
    <3>1. /\ UNCHANGED <<pending, over, step>>
          /\ \A x \in Requests \ {r} : pc'[x] = pc[x]
          /\ pc[r] = "idle" /\ pc'[r] \in {"register", "done"}
      BY <2>1, <1>a DEF Arrive, TypeOK, mailVars, Goto, Send, Sent
    <3> QED BY <3>1, <1>0, Moves DEF Early, Engaged, Waiting
  <2>2. CASE SendCheck(r)
    <3>1. /\ UNCHANGED <<pending, over, step>>
          /\ \A x \in Requests \ {r} : pc'[x] = pc[x]
          /\ pc[r] = "check"
          /\ pc'[r] \in {"check", "finish"} \/ (pc'[r] = "select" /\ ~Detached)
      BY <2>2, <1>a DEF SendCheck, SendFailed, closed, Detached, TypeOK, mailVars, Goto, Send, Sent
    <3> QED BY <3>1, <1>0, Moves DEF Early, Engaged, Waiting
  <2>3. CASE SendEnqueue(r)
    <3>1. /\ UNCHANGED <<pending, over, step>>
          /\ \A x \in Requests \ {r} : pc'[x] = pc[x]
          /\ pc[r] = "select" /\ pc'[r] \in {"upload", "first", "finish"}
      BY <2>3, <1>a DEF SendEnqueue, TypeOK, mailVars, Goto, Send, Sent
    <3> QED BY <3>1, <1>0, Moves DEF Early, Engaged, Waiting
  <2>4. CASE SendAborts(r)
    <3>1. /\ UNCHANGED <<pending, over, step>>
          /\ \A x \in Requests \ {r} : pc'[x] = pc[x]
          /\ pc[r] = "select" /\ pc'[r] \in {"check", "finish"}
      BY <2>4, <1>a DEF SendAborts, SendFailed, TypeOK, mailVars, Goto, Send, Sent
    <3> QED BY <3>1, <1>0, Moves DEF Early, Engaged, Waiting
  <2>5. CASE UploadChunk(r)
    <3>1. /\ UNCHANGED <<pending, over, step>>
          /\ \A x \in Requests \ {r} : pc'[x] = pc[x]
          /\ pc[r] = "upload" /\ pc'[r] = "check"
      BY <2>5, <1>a DEF UploadChunk, TypeOK, mailVars, Goto, Send, Sent
    <3> QED BY <3>1, <1>0, Moves DEF Early, Engaged, Waiting
  <2>6. CASE UploadEnds(r)
    <3>1. /\ UNCHANGED <<pending, over, step>>
          /\ \A x \in Requests \ {r} : pc'[x] = pc[x]
          /\ pc[r] = "upload" /\ pc'[r] = "check"
      BY <2>6, <1>a DEF UploadEnds, TypeOK, mailVars, Goto, Send, Sent
    <3> QED BY <3>1, <1>0, Moves DEF Early, Engaged, Waiting
  <2>7. CASE FirstFrame(r)
    <3>1. /\ UNCHANGED <<pending, over, step>>
          /\ \A x \in Requests \ {r} : pc'[x] = pc[x]
          /\ pc[r] = "first" /\ pc'[r] \in {"write", "finish"}
      BY <2>7, <1>a DEF FirstFrame, TypeOK, mailVars, Goto, Send, Sent
    <3> QED BY <3>1, <1>0, Moves DEF Early, Engaged, Waiting
  <2>8. CASE StreamFrame(r)
    <3>1. /\ UNCHANGED <<pending, over, step>>
          /\ \A x \in Requests \ {r} : pc'[x] = pc[x]
          /\ pc[r] = "stream" /\ pc'[r] \in {"write", "finish"}
      BY <2>8, <1>a DEF StreamFrame, TypeOK, mailVars, Goto, Send, Sent
    <3> QED BY <3>1, <1>0, Moves DEF Early, Engaged, Waiting
  <2>9. CASE Dropped(r)
    <3>1. /\ UNCHANGED <<pending, over, step>>
          /\ \A x \in Requests \ {r} : pc'[x] = pc[x]
          /\ pc[r] \in {"first", "stream"} /\ pc'[r] = "finish"
      BY <2>9, <1>a DEF Dropped, TypeOK, mailVars, Goto, Send, Sent
    <3> QED BY <3>1, <1>0, Moves DEF Early, Engaged, Waiting
  <2>10. CASE TimesOut(r)
    <3>1. /\ UNCHANGED <<pending, over, step>>
          /\ \A x \in Requests \ {r} : pc'[x] = pc[x]
          /\ pc[r] \in {"first", "stream"} /\ pc'[r] = "check"
      BY <2>10, <1>a DEF TimesOut, TypeOK, mailVars, Goto, Send, Sent
    <3> QED BY <3>1, <1>0, Moves DEF Early, Engaged, Waiting
  <2>11. CASE RegisterPending(r)
    <3>1. /\ pc[r] = "register" /\ pc'[r] = "check"
          /\ pending' = pending \cup {r} /\ UNCHANGED <<over, step>>
          /\ \A x \in Requests \ {r} : pc'[x] = pc[x]
      BY <2>11, <1>a DEF RegisterPending, TypeOK, Send
    <3>2. ~over[r] BY <3>1 DEF IInv, Unregistered, Early
    <3>3. NoDoubleClose' BY <3>1, <3>2 DEF IInv, NoDoubleClose
    <3>4. Unregistered' BY <3>1 DEF IInv, Unregistered, Early
    <3>5. Registered' BY <3>1 DEF IInv, Registered
    <3>6. Reached' BY <3>1 DEF IInv, Reached, Detached, Waiting
    <3> QED BY <1>0, <3>3, <3>4, <3>5, <3>6 DEF IInv
  <2>12. CASE Finish(r)
    <3>1. /\ pc'[r] = "done" /\ pending' = pending \ {r} /\ UNCHANGED step
          /\ over'[r] = (over[r] \/ r \in pending)
          /\ \A x \in Requests \ {r} : pc'[x] = pc[x] /\ over'[x] = over[x]
      BY <2>12, <1>a DEF Finish, TypeOK, Goto
    <3>2. NoDoubleClose' BY <3>1, <1>a DEF IInv, NoDoubleClose, TypeOK
    <3>3. Unregistered' BY <3>1 DEF IInv, Unregistered, Early
    <3>4. Registered' BY <3>1 DEF IInv, Registered, Engaged
    <3>5. Reached' BY <3>1 DEF IInv, Reached, Detached, Waiting
    <3> QED BY <1>0, <3>2, <3>3, <3>4, <3>5 DEF IInv
  <2>13. CASE CallerLeaves(r)
    BY <2>13, <1>0, QuietStep DEF CallerLeaves, mailVars
  <2>14. CASE WriteReturns(r)
    <3>1. /\ UNCHANGED <<pending, over, step>>
          /\ \A x \in Requests \ {r} : pc'[x] = pc[x]
          /\ pc[r] = "write" /\ pc'[r] = "stream"
      BY <2>14, <1>a DEF WriteReturns, TypeOK, mailVars, Goto, Send, Sent
    <3> QED BY <3>1, <1>0, Moves DEF Early, Engaged, Waiting
  <2> QED
    BY <1>1, <2>1, <2>2, <2>3, <2>4, <2>5, <2>6, <2>7, <2>8, <2>9, <2>10, <2>11, <2>12, <2>13,
       <2>14
    DEF Handler, Caller
<1>2. ASSUME Reader \/ WriterWrites \/ WriterEnds PROVE IInv'
  BY <1>2, <1>0, QuietStep
  DEF Reader, RouteLookup, RouteDeliver, WriterWrites, WriterEnds, handlerVars, mailVars
<1>3. ASSUME NEW r \in Requests, Client(r) PROVE IInv'
  BY <1>3, <1>0, QuietStep
  DEF Client, PeerStarts, PeerSendsChunk, PeerEnds, Emit, handlerVars, mailVars
<1>4. CASE CloseBegins \/ CloseConn \/ CloseDetach
  BY <1>4, <1>0, CloseMoves
  DEF CloseBegins, CloseConn, CloseDetach, Detached, handlerVars, mailVars
<1>5. CASE CloseMailboxes
  <2>1. /\ UNCHANGED pc /\ pending' = {}
        /\ \A r \in Requests : over'[r] = (over[r] \/ r \in pending)
    BY <1>5 DEF CloseMailboxes, handlerVars
  <2>2. NoDoubleClose' BY <2>1 DEF NoDoubleClose
  <2>3. Unregistered' BY <2>1 DEF IInv, Unregistered
  <2>4. Registered' BY <2>1 DEF IInv, Registered
  <2>5. Reached' BY <2>1 DEF IInv, Registered, Reached, Engaged, Waiting
  <2> QED BY <1>0, <2>2, <2>3, <2>4, <2>5 DEF IInv
<1>6. CASE UNCHANGED vars
  BY <1>6, <1>0, QuietStep DEF vars, handlerVars, mailVars
<1> QED BY <1>1, <1>2, <1>3, <1>4, <1>5, <1>6 DEF Next, CloseStep

-----------------------------------------------------------------------------
(* The inductive invariant holds of every reachable state. *)
THEOREM Invariance == Spec => []IInv
<1> QED BY InitIInv, StepIInv, PTL DEF Spec

(* The variables keep their types, and no queue or mailbox ever holds more *)
(* than its capacity (TypeOK).                                             *)
THEOREM TypeCorrect == Spec => []TypeOK
<1>1. IInv => TypeOK BY DEF IInv
<1> QED BY <1>1, Invariance, PTL

(* UnregisterPending and close() never close the same done channel twice,  *)
(* which would panic, in whatever order they meet.                         *)
THEOREM DoneClosedOnce == Spec => []NoDoubleClose
<1>1. IInv => NoDoubleClose BY DEF IInv
<1> QED BY <1>1, Invariance, PTL

(* When close() has gone through the mailboxes, every handler that waits   *)
(* for an answer has been told, even one that registered its mailbox while *)
(* the session was going down (close, sendWithContext, RegisterPending).   *)
THEOREM WaitersWoken == Spec => []TeardownWakesWaiters
<1>1. IInv => TeardownWakesWaiters BY DEF IInv, Reached, Waiting, TeardownWakesWaiters
<1> QED BY <1>1, Invariance, PTL
=============================================================================
