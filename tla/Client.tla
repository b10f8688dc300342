-------------------------------- MODULE Client --------------------------------
(***************************************************************************)
(* The client's connection lifecycle (internal/client/client.go, power.go):*)
(* Run and its connect / readLoop / sleepBackoff, the ping goroutine of    *)
(* every connection, Stop and Reconnect called by other goroutines, and    *)
(* close(), which all of them call, step by step.                          *)
(***************************************************************************)
EXTENDS Naturals

CONSTANTS Callers,     \* subset of {"stop", "reconnect"}: calls other goroutines make
          CallStatus,  \* the statuses in which they are made
          MaxGen       \* bound on the connections dialled

ASSUME ClientAssumption ==
    /\ Callers \subseteq {"stop", "reconnect"}
    /\ CallStatus \subseteq {"disconnected", "connecting", "online", "backoff"}
    /\ MaxGen \in Nat

VARIABLES pc,        \* where Run is
          result,    \* what Run has returned
          status,    \* Client.status
          gen,       \* connections dialled so far; the last one is connect's
          conn,      \* Client.conn (0 is nil)
          sock,      \* sock[g]: the g-th connection
          closed,    \* Client.closed
          stop,      \* Client.stop
          recon,     \* Client.recon
          ctxDone,   \* the context of Run is cancelled
          inhibited, \* the sleep inhibitor is held
          pinger,    \* pinger[g]: the ping goroutine of the g-th connection
          called,    \* the calls of Stop and Reconnect that have begun
          closing    \* closing[a]: how far a is inside close()

runVars   == <<result, status>>
linkVars  == <<gen, conn, sock>>
closeVars == <<closed, inhibited, closing>>
flags     == <<stop, recon, ctxDone>>
callVars  == <<flags, called>>
vars == <<pc, runVars, linkVars, closeVars, pinger, callVars>>

Gens   == 1..MaxGen

(* The goroutines that call close(): Run, a caller, the pinger of connection g. *)
Runner  == <<"run", 0>>
User(u) == <<u, 0>>
Ping(g) == <<"ping", g>>
Actors  == {Runner} \cup {User(u) : u \in Callers} \cup {Ping(g) : g \in Gens}

Init ==
    /\ pc = "top" /\ result = "none" /\ status = "disconnected"
    /\ gen = 0 /\ conn = 0
    /\ sock = [g \in Gens |-> "none"]
    /\ closed = FALSE /\ stop = FALSE /\ recon = FALSE /\ ctxDone = FALSE
    /\ inhibited = FALSE
    /\ pinger = [g \in Gens |-> "none"]
    /\ called = {}
    /\ closing = [a \in Actors |-> "no"]

-----------------------------------------------------------------------------
(***************************************************************************)
(* close(): only the first caller since the flag was reset goes on, to     *)
(* release the inhibitor, and to shut the connection c.conn then is (the   *)
(* closing handshake before it can wait 5 seconds for another write).      *)
(***************************************************************************)
CloseCall(a) ==
    /\ closing[a] = "no"
    /\ closed' = TRUE
    /\ closing' = [closing EXCEPT ![a] = IF closed THEN "no" ELSE "allow"]

CloseAllowSleep(a) ==
    /\ closing[a] = "allow"
    /\ inhibited' = FALSE
    /\ closing' = [closing EXCEPT ![a] = IF conn = 0 THEN "no" ELSE "shut"]
    /\ UNCHANGED <<pc, runVars, linkVars, closed, pinger, callVars>>

CloseConn(a) ==
    /\ closing[a] = "shut"
    /\ sock' = [sock EXCEPT ![conn] = "closed"]
    /\ closing' = [closing EXCEPT ![a] = "no"]
    /\ UNCHANGED <<pc, runVars, gen, conn, closed, inhibited, pinger, callVars>>

-----------------------------------------------------------------------------
(* Run, one step at a time; it waits for its own calls of close(). *)
At(l) == pc = l /\ closing[Runner] = "no"
Goto(l) == pc' = l

Top ==
    /\ At("top")
    /\ \/ /\ ctxDone
          /\ Goto("returned") /\ result' = "err" /\ CloseCall(Runner)
          /\ UNCHANGED status
       \/ /\ ~ctxDone
          /\ Goto("dial") /\ status' = "connecting"
          /\ UNCHANGED <<result, closed, closing>>
    /\ UNCHANGED <<linkVars, inhibited, pinger, callVars>>

(* connect: a new connection, or a failure that leaves the old one alone. *)
Dial ==
    /\ At("dial")
    /\ \/ Goto("leave") /\ UNCHANGED <<gen, sock>>
       \/ /\ gen < MaxGen
          /\ gen' = gen + 1 /\ sock' = [sock EXCEPT ![gen + 1] = "open"]
          /\ Goto("rearm")
    /\ UNCHANGED <<runVars, conn, closeVars, pinger, callVars>>

(* Variant: the once-flag is never reset. *)
RearmForgets ==
    /\ At("rearm")
    /\ Goto("publish")
    /\ UNCHANGED <<runVars, linkVars, closeVars, pinger, callVars>>

Rearm ==
    /\ At("rearm")
    /\ closed' = FALSE
    /\ Goto("publish")
    /\ UNCHANGED <<runVars, linkVars, inhibited, closing, pinger, callVars>>

(* Variant: c.conn is set for the first connection only. *)
PublishOnce ==
    /\ At("publish")
    /\ conn' = IF conn = 0 THEN gen ELSE conn
    /\ Goto("hello")
    /\ UNCHANGED <<runVars, gen, sock, closeVars, pinger, callVars>>

Publish ==
    /\ At("publish")
    /\ conn' = gen
    /\ Goto("hello")
    /\ UNCHANGED <<runVars, gen, sock, closeVars, pinger, callVars>>

(* Variant: a failed handshake leaves its connection open. *)
HandshakeLeaks ==
    /\ At("hello")
    /\ \/ sock[gen] = "open" /\ Goto("engage")
       \/ Goto("leave")
    /\ UNCHANGED <<runVars, linkVars, closeVars, pinger, callVars>>

(* hello is acknowledged in time, or connect fails and shuts the connection. *)
Handshake ==
    /\ At("hello")
    /\ \/ sock[gen] = "open" /\ Goto("engage") /\ UNCHANGED sock
       \/ sock' = [sock EXCEPT ![gen] = "closed"] /\ Goto("leave")
    /\ UNCHANGED <<runVars, gen, conn, closeVars, pinger, callVars>>

(* The end of connect: PreventSleep is idempotent; when it fails, that is logged. *)
Engage ==
    /\ At("engage")
    /\ inhibited' \in {TRUE, inhibited}
    /\ Goto("online")
    /\ UNCHANGED <<runVars, linkVars, closed, closing, pinger, callVars>>

Online ==
    /\ At("online")
    /\ status' = "online"
    /\ pinger' = [pinger EXCEPT ![gen] = "run"]
    /\ Goto("read")
    /\ UNCHANGED <<result, linkVars, closeVars, callVars>>

(* readLoop tests the context, then blocks in ReadMessage. *)
ReadCheck ==
    /\ At("read")
    /\ Goto(IF ctxDone THEN "lost" ELSE "blocked")
    /\ UNCHANGED <<runVars, linkVars, closeVars, pinger, callVars>>

ReadFrame ==
    /\ At("blocked") /\ sock[conn] = "open"
    /\ Goto("read")
    /\ UNCHANGED <<runVars, linkVars, closeVars, pinger, callVars>>

(* The connection is gone, or has been silent for twice pingInterval. *)
ReadFails ==
    /\ At("blocked") /\ sock[conn] # "open"
    /\ Goto("lost")
    /\ UNCHANGED <<runVars, linkVars, closeVars, pinger, callVars>>

ReadDeadline ==
    /\ At("blocked") /\ sock[conn] = "open"
    /\ Goto("lost")
    /\ UNCHANGED <<runVars, linkVars, closeVars, pinger, callVars>>

Lost ==
    /\ At("lost")
    /\ CloseCall(Runner)
    /\ Goto("leave")
    /\ UNCHANGED <<runVars, linkVars, inhibited, pinger, callVars>>

(* After a connection, or the failure of an attempt. *)
Leave ==
    /\ At("leave")
    /\ \/ /\ ctxDone \/ stop
          /\ Goto("returned") /\ result' = "nil" /\ CloseCall(Runner)
          /\ UNCHANGED status
       \/ /\ ~ctxDone /\ ~stop
          /\ Goto("backoff") /\ status' = "backoff"
          /\ UNCHANGED <<result, closed, closing>>
    /\ UNCHANGED <<linkVars, inhibited, pinger, callVars>>

(* Variant: it never waits. *)
BackoffNever ==
    /\ At("backoff")
    /\ Goto("top")
    /\ recon' = FALSE
    /\ UNCHANGED <<runVars, linkVars, closeVars, pinger, called, stop, ctxDone>>

(* sleepBackoff: a pending Reconnect is consumed and skips the delay. *)
Backoff ==
    /\ At("backoff")
    /\ Goto(IF recon THEN "top" ELSE "sleep")
    /\ recon' = FALSE
    /\ UNCHANGED <<runVars, linkVars, closeVars, pinger, called, stop, ctxDone>>

(***************************************************************************)
(* The delay is over 1.5 seconds: a ping goroutine told to end, and a      *)
(* close() that is not held up by a write, are through by then.            *)
(***************************************************************************)
Quiet == /\ \A g \in Gens : pinger[g] \in {"none", "ended"}
         /\ \A a \in Actors : closing[a] = "no"

DelayOver ==
    /\ At("sleep") /\ Quiet
    /\ Goto("top")
    /\ UNCHANGED <<runVars, linkVars, closeVars, pinger, callVars>>

SleepCancelled ==
    /\ At("sleep") /\ ctxDone
    /\ Goto("returned") /\ result' = "err"
    /\ UNCHANGED <<status, linkVars, closeVars, pinger, callVars>>

-----------------------------------------------------------------------------
(* Variant: the ping goroutine has no done channel. *)
NeverTold(g) == FALSE

(* The ping goroutine of connection g.  Its done channel: *)
Told(g) == ~(gen = g /\ pc \in {"read", "blocked"})

(* Variant: on cancellation it only ends. *)
PingerCancelledQuietly(g) ==
    /\ pinger[g] = "run" /\ ctxDone
    /\ pinger' = [pinger EXCEPT ![g] = "ended"]
    /\ UNCHANGED <<pc, runVars, linkVars, closeVars, callVars>>

PingerCancelled(g) ==
    /\ pinger[g] = "run" /\ ctxDone
    /\ CloseCall(Ping(g))
    /\ pinger' = [pinger EXCEPT ![g] = "ended"]
    /\ UNCHANGED <<pc, runVars, linkVars, inhibited, callVars>>

PingerEnds(g) ==
    /\ pinger[g] = "run" /\ Told(g)
    /\ pinger' = [pinger EXCEPT ![g] = "ended"]
    /\ UNCHANGED <<pc, runVars, linkVars, closeVars, callVars>>

SendPing(g) ==
    /\ pinger[g] = "run"
    /\ pinger' = [pinger EXCEPT ![g] = "sending"]
    /\ UNCHANGED <<pc, runVars, linkVars, closeVars, callVars>>

(* sendFrame returns: the frame is written, or the write fails or times out. *)
PingReturns(g) ==
    /\ pinger[g] = "sending"
    /\ \/ pinger' = [pinger EXCEPT ![g] = "failed"]
       \/ sock[conn] = "open" /\ pinger' = [pinger EXCEPT ![g] = "run"]
    /\ UNCHANGED <<pc, runVars, linkVars, closeVars, callVars>>

PingerFails(g) ==
    /\ pinger[g] = "failed"
    /\ CloseCall(Ping(g))
    /\ pinger' = [pinger EXCEPT ![g] = "ended"]
    /\ UNCHANGED <<pc, runVars, linkVars, inhibited, callVars>>

-----------------------------------------------------------------------------
(* Stop and Reconnect: the flag is set, then close() is called. *)
Call(u) ==
    /\ u \notin called /\ status \in CallStatus
    /\ called' = called \cup {u}
    /\ stop' = (stop \/ u = "stop")
    /\ recon' = (recon \/ u = "reconnect")
    /\ closing' = [closing EXCEPT ![User(u)] = "called"]
    /\ UNCHANGED <<pc, runVars, linkVars, closed, inhibited, pinger, ctxDone>>

CallCloses(u) ==
    /\ closing[User(u)] = "called"
    /\ closed' = TRUE
    /\ closing' = [closing EXCEPT ![User(u)] = IF closed THEN "no" ELSE "allow"]
    /\ UNCHANGED <<pc, runVars, linkVars, inhibited, pinger, callVars>>

Cancel ==
    /\ ~ctxDone
    /\ ctxDone' = TRUE
    /\ UNCHANGED <<pc, runVars, linkVars, closeVars, pinger, called, stop, recon>>

(* The server or the network drops a connection. *)
Drop(g) ==
    /\ sock[g] = "open"
    /\ sock' = [sock EXCEPT ![g] = "lost"]
    /\ UNCHANGED <<pc, runVars, gen, conn, closeVars, pinger, callVars>>

-----------------------------------------------------------------------------
Connect == Dial \/ Rearm \/ Publish \/ Handshake \/ Engage

RunStep ==
    \/ Top \/ Connect \/ Online \/ ReadCheck \/ ReadFails \/ Lost \/ Leave \/ Backoff
    \/ DelayOver \/ SleepCancelled

Pinger(g) == PingerCancelled(g) \/ PingerEnds(g) \/ PingReturns(g) \/ PingerFails(g)

CloseStep(a) == CloseAllowSleep(a) \/ CloseConn(a)

Next ==
    \/ RunStep \/ ReadFrame \/ ReadDeadline \/ Cancel
    \/ \E g \in Gens : Pinger(g) \/ SendPing(g) \/ Drop(g)
    \/ \E u \in Callers : Call(u) \/ CallCloses(u)
    \/ \E a \in Actors : CloseStep(a)

(***************************************************************************)
(* Goroutines keep running, a write returns by its deadline, and a select  *)
(* picks at random, so not the ticker for ever.  Frames, drops, the read   *)
(* deadline, calls and the cancellation are not assumed.                   *)
(***************************************************************************)
Fairness ==
    /\ WF_vars(RunStep)
    /\ \A g \in Gens : WF_vars(PingReturns(g)) /\ WF_vars(PingerFails(g))
    /\ \A g \in Gens : SF_vars(PingerCancelled(g)) /\ SF_vars(PingerEnds(g))
    /\ \A u \in Callers : WF_vars(CallCloses(u))
    /\ \A a \in Actors : WF_vars(CloseStep(a))

Spec == Init /\ [][Next]_vars
FairSpec == Spec /\ Fairness
-----------------------------------------------------------------------------
Stages == {"no", "called", "allow", "shut"}

(***************************************************************************)
(* Types.  From the hello on, c.conn is the connection that connect has    *)
(* dialled last: it is the one that is read, pinged and shut.              *)
(***************************************************************************)
TypeOK ==
    /\ pc \in {"top", "dial", "rearm", "publish", "hello", "engage", "online", "read",
              "blocked", "lost", "leave", "backoff", "sleep", "returned"}
    /\ result \in {"none", "nil", "err"}
    /\ status \in {"disconnected", "connecting", "online", "backoff"}
    /\ gen \in 0..MaxGen /\ conn \in 0..gen
    /\ pc \in {"hello", "engage", "online", "read", "blocked"} => conn = gen
    /\ sock \in [Gens -> {"none", "open", "lost", "closed"}]
    /\ closed \in BOOLEAN /\ stop \in BOOLEAN /\ recon \in BOOLEAN /\ ctxDone \in BOOLEAN
    /\ inhibited \in BOOLEAN
    /\ pinger \in [Gens -> {"none", "run", "sending", "failed", "ended"}]
    /\ called \subseteq Callers
    /\ closing \in [Actors -> Stages]

Returned == pc = "returned" /\ \A a \in Actors : closing[a] = "no"

(***************************************************************************)
(* Once Run has returned and every close() is through, the sleep inhibitor *)
(* is released and no connection is left open, whoever tore it down (the   *)
(* closed flag, reset by connect before the connection is published).      *)
(***************************************************************************)
ReleasedAtExit == Returned => ~inhibited /\ \A g \in Gens : sock[g] # "open"

(***************************************************************************)
(* The inhibitor is released only while the closed flag is set: once       *)
(* connect has reset the flag and engaged it for a new connection, a late  *)
(* close() of an earlier one does not release it (connect, close).         *)
(***************************************************************************)
NeverReleasedEarly == [][inhibited /\ ~inhibited' => closed]_inhibited

(***************************************************************************)
(* A connection is abandoned only when it is down: whatever Run dials,     *)
(* waits for or returns, no earlier connection of it is still open (Run    *)
(* calls close() after readLoop, and connect closes what it gives up).     *)
(***************************************************************************)
OneConnection ==
    pc \in {"dial", "backoff", "sleep"} /\ (\A a \in Actors : closing[a] = "no")
        => \A g \in Gens : sock[g] # "open"

(***************************************************************************)
(* Stop, or the cancelled context, makes Run return: once it is online, no *)
(* frame has to arrive and no deadline to pass for that.  A Run that is    *)
(* dialling or waits for hello_ack first gets its answer or its deadline   *)
(* (the 15 seconds of connect, which Handshake stands for).                *)
(***************************************************************************)
StopEndsRun == stop \/ ctxDone ~> pc = "returned"

(***************************************************************************)
(* No ping goroutine outlives its connection (the done channel of          *)
(* readLoop).                                                              *)
(***************************************************************************)
PingersEnd == \A g \in Gens : sock[g] = "closed" ~> pinger[g] \in {"none", "ended"}

=============================================================================
