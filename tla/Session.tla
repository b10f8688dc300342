------------------------------- MODULE Session -------------------------------
(***************************************************************************)
(* The life of the tunnel sessions of one relay server, from the WebSocket *)
(* upgrade to the return of Session.Run: the handshake that publishes a    *)
(* session in its tunnel (handleTunnel, handleHello), the writer goroutine *)
(* and its queue (writeLoop, send), and close(), which the session's own   *)
(* reader, the reader of a session that takes the tunnel over, App.Stop    *)
(* and the operator may all call, at the same time and step by step.       *)
(***************************************************************************)
EXTENDS Integers, FiniteSets

CONSTANTS Sessions, Tunnels,
          Admins,      \* goroutines of the GUI that disconnect sessions
          Stopper,     \* the one of them that runs App.Stop
          None

ASSUME SessionAssumption ==
    /\ IsFiniteSet(Sessions)
    /\ None \notin Sessions \cup Tunnels
    /\ Stopper \in Admins /\ Admins \cap Sessions = {}

VARIABLES pc,           \* pc[s]: where the handler (and reader) of s is
          tun,          \* tun[s]: Session.tun
          session,      \* session[t]: Tunnel.session
          onlineCount,  \* Server.onlineCount
          step,         \* step[s]: how far close() of s has come
          closer,       \* closer[s]: who executes the body of close() now
          call,         \* call[a]: the session whose close() a has called
          early,        \* early[s]: in sendQ, before hello_ack, is another frame
          writer,       \* writer[s]: the writer goroutine
          app, todo,    \* App.Stop and the tunnels it has still to visit
          takeovers     \* sessions replaced by a later one (history)

handshakeVars == <<pc, tun, session, onlineCount, takeovers>>
closeVars == <<step, closer, call>>
queueVars == <<early, writer>>
appVars   == <<app, todo>>
vars == <<handshakeVars, closeVars, queueVars, appVars>>

Actors == Sessions \cup Admins
Steps  == {"open", "swapped", "torn", "detached", "finished"}
PCs    == {"none", "hello", "swap", "kick", "count", "ack", "error", "loop",
           "closing", "wait", "ended"}

Init ==
    /\ pc = [s \in Sessions |-> "none"]
    /\ tun = [s \in Sessions |-> None]
    /\ session = [t \in Tunnels |-> None]
    /\ onlineCount = 0
    /\ step = [s \in Sessions |-> "open"]
    /\ closer = [s \in Sessions |-> None]
    /\ call = [a \in Actors |-> None]
    /\ early = [s \in Sessions |-> FALSE]
    /\ writer = [s \in Sessions |-> "none"]
    /\ app = "running"
    /\ todo = {}
    /\ takeovers = 0

Online == {t \in Tunnels : session[t] # None}
closed(s) == step[s] # "open"                         \* the closed flag

-----------------------------------------------------------------------------
(***************************************************************************)
(* The send queue and its writer.  How full the queue is is abstracted:    *)
(* send may find room or give up after its five seconds (Ack, SendError).  *)
(***************************************************************************)

(***************************************************************************)
(* A relay handler or PollStats that has loaded the session pointer puts a *)
(* request_start or a get_stats into the queue.  Only what precedes the    *)
(* hello_ack is recorded.                                                  *)
(***************************************************************************)
OtherSends(s) ==
    /\ pc[s] \in {"kick", "count", "ack"} /\ session[tun[s]] = s
    /\ ~closed(s)
    /\ early' = [early EXCEPT ![s] = TRUE]
    /\ UNCHANGED <<handshakeVars, closeVars, writer, appVars>>

(* Variant: the writer does not notice that the session is closed. *)
WriterIgnoresDone(s) ==
    /\ writer[s] = "run" /\ ~closed(s)
    /\ writer' = [writer EXCEPT ![s] = "exited"]
    /\ UNCHANGED <<handshakeVars, closeVars, early, appVars>>

(* The writer returns because done is closed or the ticker sees closed ... *)
WriterEnds(s) ==
    /\ writer[s] = "run" /\ closed(s)
    /\ writer' = [writer EXCEPT ![s] = "exited"]
    /\ UNCHANGED <<handshakeVars, closeVars, early, appVars>>

(***************************************************************************)
(* ... or because a write fails, or its own ping finds the queue full      *)
(* until the deadline.  Neither closes the session.                        *)
(***************************************************************************)
WriterFails(s) ==
    /\ writer[s] = "run"
    /\ writer' = [writer EXCEPT ![s] = "exited"]
    /\ UNCHANGED <<handshakeVars, closeVars, early, appVars>>

-----------------------------------------------------------------------------
(* The handler of /ws/tunnel: upgrade, hello, publication, ack, read loop. *)

Upgrade(s) ==
    /\ pc[s] = "none" /\ app # "stopped"
    /\ pc' = [pc EXCEPT ![s] = "hello"]
    /\ writer' = [writer EXCEPT ![s] = "run"]
    /\ UNCHANGED <<tun, session, onlineCount, takeovers, closeVars, early, appVars>>

(* Variant: the session is published before it is bound to its tunnel. *)
HelloUnbound(s) ==
    /\ pc[s] = "hello"
    /\ pc' = [pc EXCEPT ![s] = "swap"]
    /\ UNCHANGED <<tun, session, onlineCount, takeovers, closeVars, queueVars, appVars>>

(* Register has answered tunnel t, new or already known: sess.tun is set. *)
Hello(s) ==
    /\ pc[s] = "hello"
    /\ \E t \in Tunnels : tun' = [tun EXCEPT ![s] = t]
    /\ pc' = [pc EXCEPT ![s] = "swap"]
    /\ UNCHANGED <<session, onlineCount, takeovers, closeVars, queueVars, appVars>>

(* Another version, or Register has failed. *)
HelloRejected(s) ==
    /\ pc[s] = "hello"
    /\ pc' = [pc EXCEPT ![s] = "error"]
    /\ UNCHANGED <<tun, session, onlineCount, takeovers, closeVars,
                   queueVars, appVars>>

(* tun.session.Swap: from here on everybody else can see the session. *)
Publish(s) ==
    /\ pc[s] = "swap"
    /\ session' = [session EXCEPT ![tun[s]] = s]
    /\ \/ /\ session[tun[s]] = None
          /\ pc' = [pc EXCEPT ![s] = "count"]
          /\ UNCHANGED <<call, takeovers>>
       \/ /\ session[tun[s]] # None
          /\ pc' = [pc EXCEPT ![s] = "kick"]
          /\ call' = [call EXCEPT ![s] = session[tun[s]]]
          /\ takeovers' = takeovers + 1
    /\ UNCHANGED <<tun, onlineCount, step, closer, queueVars, appVars>>

(* onlineCount.Add(1); send starts by testing the closed flag. *)
Count(s) ==
    /\ pc[s] = "count"
    /\ onlineCount' = onlineCount + 1
    /\ pc' = [pc EXCEPT ![s] = IF closed(s) THEN "error" ELSE "ack"]
    /\ UNCHANGED <<tun, session, takeovers, closeVars, queueVars, appVars>>

(* hello_ack goes into the queue; if it does not, handleHello fails. *)
Ack(s) ==
    /\ pc[s] = "ack"
    /\ pc' \in {[pc EXCEPT ![s] = "loop"], [pc EXCEPT ![s] = "error"]}
    /\ UNCHANGED <<tun, session, onlineCount, takeovers, closeVars, queueVars, appVars>>

(* The reader leaves its loop: the deferred close() begins.  What it finds *)
(* in sendQ no longer matters.                                             *)
Leave(s) ==
    /\ pc' = [pc EXCEPT ![s] = "closing"]
    /\ call' = [call EXCEPT ![s] = s]
    /\ early' = [early EXCEPT ![s] = FALSE]

(* A refusing hello_ack, best effort, and out of the loop. *)
SendError(s) ==
    /\ pc[s] = "error"
    /\ Leave(s)
    /\ UNCHANGED <<tun, session, onlineCount, takeovers, step, closer, writer, appVars>>

(***************************************************************************)
(* ReadMessage fails: the peer is gone, it was silent until the deadline,  *)
(* or close() has closed the connection under the reader.                  *)
(***************************************************************************)
ReadFails(s) ==
    /\ pc[s] \in {"hello", "loop"}
    /\ Leave(s)
    /\ UNCHANGED <<tun, session, onlineCount, takeovers, step, closer, writer, appVars>>

(* Run: <-s.writeDone. *)
RunReturns(s) ==
    /\ pc[s] = "wait" /\ writer[s] = "exited"
    /\ pc' = [pc EXCEPT ![s] = "ended"]
    /\ UNCHANGED <<tun, session, onlineCount, takeovers, closeVars,
                   queueVars, appVars>>

-----------------------------------------------------------------------------
(* close(), executed by actor a for the session x it has called it on. *)

(* s.closed.Swap(true) returns false: a executes the body. *)
CloseSwap(a) ==
    /\ call[a] # None
    /\ step[call[a]] = "open"
    /\ step' = [step EXCEPT ![call[a]] = "swapped"]
    /\ closer' = [closer EXCEPT ![call[a]] = a]
    /\ UNCHANGED <<handshakeVars, call, queueVars, appVars>>

Body(a, at) == call[a] # None /\ closer[call[a]] = a /\ step[call[a]] = at

(* The connection, done and the done of every pending request (Relay). *)
CloseTeardown(a) ==
    /\ Body(a, "swapped")
    /\ step' = [step EXCEPT ![call[a]] = "torn"]
    /\ UNCHANGED <<handshakeVars, closer, call, queueVars, appVars>>

(* Variant: a plain Store(nil) instead of the CompareAndSwap. *)
HoldsAny(x) == tun[x] # None

Holds(x) == tun[x] # None /\ session[tun[x]] = x

(* Variants: the pointer is left in the tunnel; every close counts off. *)
CloseKeepsPointer(a) ==
    /\ Body(a, "torn")
    /\ step' = [step EXCEPT ![call[a]] = "finished"]
    /\ closer' = [closer EXCEPT ![call[a]] = None]
    /\ UNCHANGED <<handshakeVars, call, queueVars, appVars>>

CloseAlwaysCounts(a) ==
    LET x == call[a] IN
    /\ Body(a, "torn")
    /\ session' = IF Holds(x) THEN [session EXCEPT ![tun[x]] = None] ELSE session
    /\ step' = [step EXCEPT ![x] = "detached"]
    /\ UNCHANGED <<pc, tun, onlineCount, takeovers, closer, call, queueVars, appVars>>

(* tun.session.CompareAndSwap(s, nil), if the session was ever bound. *)
CloseDetach(a) ==
    LET x == call[a] IN
    /\ Body(a, "torn")
    /\ \/ /\ Holds(x)
          /\ session' = [session EXCEPT ![tun[x]] = None]
          /\ step' = [step EXCEPT ![x] = "detached"]
          /\ UNCHANGED closer
       \/ /\ ~Holds(x)
          /\ step' = [step EXCEPT ![x] = "finished"]
          /\ closer' = [closer EXCEPT ![x] = None]
          /\ UNCHANGED session
    /\ UNCHANGED <<pc, tun, onlineCount, takeovers, call, queueVars, appVars>>

(* onlineCount.Add(-1) *)
CloseCount(a) ==
    /\ Body(a, "detached")
    /\ onlineCount' = onlineCount - 1
    /\ step' = [step EXCEPT ![call[a]] = "finished"]
    /\ closer' = [closer EXCEPT ![call[a]] = None]
    /\ UNCHANGED <<pc, tun, session, takeovers, call, queueVars, appVars>>

(***************************************************************************)
(* close() returns: its body is finished, or somebody else has called it   *)
(* before (who may still be executing the body).                           *)
(***************************************************************************)
CloseReturns(a) ==
    /\ call[a] # None
    /\ \/ step[call[a]] = "finished"
       \/ step[call[a]] # "open" /\ closer[call[a]] # a
    /\ call' = [call EXCEPT ![a] = None]
    /\ pc' = [s \in Sessions |->
                 IF s # a THEN pc[s] ELSE IF pc[s] = "kick" THEN "count" ELSE "wait"]
    /\ UNCHANGED <<tun, session, onlineCount, takeovers, step, closer,
                   queueVars, appVars>>

CloseStep(a) == \/ CloseSwap(a) \/ CloseTeardown(a) \/ CloseDetach(a)
                \/ CloseCount(a) \/ CloseReturns(a)

-----------------------------------------------------------------------------
(* The operator and App.Stop. *)

Disconnect(a) ==
    /\ call[a] = None /\ (a = Stopper => app # "stopping")
    /\ \E t \in Tunnels : /\ session[t] # None
                          /\ call' = [call EXCEPT ![a] = session[t]]
    /\ UNCHANGED <<handshakeVars, step, closer, queueVars, appVars>>

(* Stop lists the tunnels once, all those registered by then ... *)
StopList ==
    /\ app = "running" /\ call[Stopper] = None
    /\ app' = "stopping"
    /\ todo' \in {T \in SUBSET Tunnels : Online \subseteq T}
    /\ UNCHANGED <<handshakeVars, closeVars, queueVars>>

(* ... closes the session each of them has when its turn comes ... *)
StopVisit ==
    /\ app = "stopping" /\ call[Stopper] = None
    /\ \E t \in todo : /\ todo' = todo \ {t}
                       /\ call' = [call EXCEPT ![Stopper] = session[t]]
    /\ UNCHANGED <<handshakeVars, step, closer, queueVars, app>>

(* Variant: it gives up the tour of the tunnels. *)
StopShutsDownEarly ==
    /\ app = "stopping" /\ call[Stopper] = None
    /\ app' = "stopped"
    /\ UNCHANGED <<handshakeVars, closeVars, queueVars, todo>>

(* ... and shuts the listener down.  Upgraded connections are not its own. *)
StopShutdown ==
    /\ app = "stopping" /\ call[Stopper] = None /\ todo = {}
    /\ app' = "stopped"
    /\ UNCHANGED <<handshakeVars, closeVars, queueVars, todo>>

-----------------------------------------------------------------------------
Handler(s) == \/ Publish(s) \/ Count(s) \/ Ack(s) \/ SendError(s)
              \/ (closed(s) /\ ReadFails(s)) \/ RunReturns(s)

Environment(s) == \/ Upgrade(s) \/ Hello(s) \/ HelloRejected(s) \/ ReadFails(s)
                  \/ OtherSends(s)

Writer(s) == WriterEnds(s) \/ WriterFails(s)

Next ==
    \/ \E s \in Sessions : Handler(s) \/ Environment(s) \/ Writer(s)
    \/ \E a \in Actors : CloseStep(a)
    \/ \E a \in Admins : Disconnect(a)
    \/ StopList \/ StopVisit \/ StopShutdown

(***************************************************************************)
(* Goroutines that can run do run: handlers, close() bodies and a writer   *)
(* that has been told to end.  Nothing is assumed of peers, of the         *)
(* operator, or of when the server is stopped.                             *)
(***************************************************************************)
Fairness ==
    /\ \A s \in Sessions : WF_vars(Handler(s)) /\ WF_vars(WriterEnds(s))
    /\ \A a \in Actors : WF_vars(CloseStep(a))
    /\ WF_vars(StopVisit \/ StopShutdown)

Spec == Init /\ [][Next]_vars
FairSpec == Spec /\ Fairness

-----------------------------------------------------------------------------
(***************************************************************************)
(* Types.  A session has its tunnel before the Swap lets others see it:    *)
(* whoever closes it from then on finds s.tun set (handleHello).           *)
(***************************************************************************)
TypeOK ==
    /\ pc \in [Sessions -> PCs]
    /\ tun \in [Sessions -> Tunnels \cup {None}]
    /\ \A s \in Sessions : pc[s] \in {"swap", "kick", "count", "ack", "loop"} => tun[s] # None
    /\ session \in [Tunnels -> Sessions \cup {None}]
    /\ onlineCount \in Int
    /\ step \in [Sessions -> Steps]
    /\ closer \in [Sessions -> Actors \cup {None}]
    /\ call \in [Actors -> Sessions \cup {None}]
    /\ early \in [Sessions -> BOOLEAN]
    /\ writer \in [Sessions -> {"none", "run", "exited"}]
    /\ app \in {"running", "stopping", "stopped"}
    /\ todo \in SUBSET Tunnels
    /\ takeovers \in Nat

Settled == \A s \in Sessions : /\ pc[s] # "kick" /\ pc[s] # "count"
                               /\ step[s] # "detached"

(***************************************************************************)
(* A session whose close() has passed its CompareAndSwap is in no tunnel,  *)
(* and never comes back: relay requests are not routed to a dead session   *)
(* for longer than its close() takes, whoever calls close() and whenever   *)
(* (handleHello, close).                                                   *)
(***************************************************************************)
NoDeadSessionRegistered ==
    \A t \in Tunnels : session[t] # None =>
        /\ tun[session[t]] = t
        /\ step[session[t]] \notin {"detached", "finished"}

(***************************************************************************)
(* A tunnel goes offline only by the close() of the session it has: the    *)
(* late close() of a session that was taken over does not unregister its   *)
(* successor (CompareAndSwap in close).                                    *)
(***************************************************************************)
SuccessorKept ==
    [][\A t \in Tunnels : session[t] # None /\ session'[t] = None
                             => closed(session[t])]_session

(***************************************************************************)
(* What onlineCount really counts when no session is between its Swap and  *)
(* its Add or between its CompareAndSwap and its Add(-1): the online       *)
(* tunnels and, because the close() of a session that was taken over finds *)
(* its successor in the tunnel and does not count it off, every takeover.  *)
(***************************************************************************)
OnlineCountAccounted ==
    Settled => onlineCount = Cardinality(Online) + takeovers

(***************************************************************************)
(* Whoever closes a session, its handler returns from Run: the reader, the *)
(* writer and the callers of close() never wait for each other.            *)
(***************************************************************************)
ClosedSessionEnds == \A s \in Sessions : closed(s) ~> pc[s] = "ended"

(***************************************************************************)
(* App.Stop ends every session that is in a tunnel it has yet to visit,    *)
(* even one that another session takes over, or that is closed by its peer *)
(* or the operator, while Stop is on its way or inside a close() of its    *)
(* own.  (One that is published after the visit survives it.)              *)
(***************************************************************************)
StopEndsListed ==
    \A s \in Sessions :
        app = "stopping" /\ tun[s] \in todo /\ session[tun[s]] = s ~> pc[s] = "ended"

-----------------------------------------------------------------------------
(* What the documents say of the program, and the code does not do. *)

(* handleHealthz: "online" is the number of online sessions. *)
OnlineCountMatches == Settled => onlineCount = Cardinality(Online)

(* Spec 3.1: hello_ack answers hello; requests and polls come after it. *)
AckIsFirstFrame == \A s \in Sessions : pc[s] = "loop" => ~early[s]
=============================================================================
