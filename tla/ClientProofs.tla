------------------------------ MODULE ClientProofs ------------------------------
(***************************************************************************)
(* The client's inhibitor and sockets follow its connection: theorems      *)
(* about Client, for any number of connections.                            *)
(*                                                                         *)
(* Those after TypeCorrect hold for the calls the programs in cmd/ make    *)
(* (AsProgramsCall): Stop, while the client is online.  Then nobody is     *)
(* inside close() while Run connects (Calm), so that connect can reset     *)
(* the once-flag and close() always belongs to the connection c.conn is.   *)
(***************************************************************************)
EXTENDS Client, TLAPS

AsProgramsCall == Callers \subseteq {"stop"} /\ CallStatus \subseteq {"online"}

Connecting == {"top", "dial", "rearm", "publish", "hello", "engage", "online"}
Parted     == {"leave", "backoff", "sleep", "returned"}

NoneOpen == \A g \in Gens : sock[g] # "open"
Inside(S) == \E a \in Actors : closing[a] \in S

(* While Run connects it is alone. *)
Calm == pc \in Connecting =>
    /\ \A a \in Actors : closing[a] = "no"
    /\ \A g \in Gens : pinger[g] \in {"none", "ended"}

(* No call is made, or pending, that the programs do not make. *)
Callable ==
    /\ ~recon
    /\ pc \in Connecting \cup {"backoff", "sleep"} => status # "online"
    /\ \A u \in Callers : u \notin called => closing[User(u)] = "no"

(* Who is past the swap of the flag has set it; it is clear for a new connection. *)
FlagOwned ==
    /\ \A a \in Actors : closing[a] = "allow" => closed
    /\ pc \in {"publish", "hello", "engage"} => ~closed

(* The inhibitor is held only for a connection, or until it is released. *)
HeldFor ==
    /\ inhibited /\ closed => Inside({"allow"})
    /\ pc \in {"top", "dial", "rearm", "publish", "hello", "engage"} => ~inhibited
    /\ pc \in Parted => closed \/ ~inhibited

(* At most one connection is open: the one connect has or the one c.conn is. *)
OneOpen ==
    /\ \A g \in Gens : sock[g] = "open" =>
          g = IF pc \in {"rearm", "publish"} THEN gen ELSE conn
    /\ pc \in {"top", "dial"} => NoneOpen

(* Once torn down it is shut, or somebody is about to shut it. *)
ShutFor ==
    /\ closed /\ conn # 0 /\ sock[conn] = "open" => Inside({"allow", "shut"})
    /\ pc \in Parted => closed \/ NoneOpen

IInv == /\ TypeOK /\ Calm /\ Callable /\ FlagOwned /\ HeldFor /\ OneOpen /\ ShutFor

-----------------------------------------------------------------------------
(* The invariant holds of a client that has just been constructed. *)
LEMMA InitIInv == Init => IInv
<1> SUFFICES ASSUME Init PROVE IInv OBVIOUS
<1> USE ClientAssumption DEF Init, Gens
<1>1. TypeOK
  <2>1. gen \in 0..MaxGen /\ conn \in 0..gen OBVIOUS
  <2> QED BY <2>1 DEF TypeOK, Stages
<1>2. Calm /\ FlagOwned /\ HeldFor BY DEF Calm, FlagOwned, HeldFor, Connecting, Parted
<1>3. Callable BY DEF Callable, Actors, Connecting
<1>4. OneOpen /\ ShutFor BY DEF OneOpen, ShutFor, NoneOpen, Parted
<1> QED BY <1>1, <1>2, <1>3, <1>4 DEF IInv

(* Every step preserves the types. *)
LEMMA StepTypeOK == TypeOK /\ [Next]_vars => TypeOK'
<1> SUFFICES ASSUME TypeOK, [Next]_vars PROVE TypeOK' OBVIOUS
<1> USE ClientAssumption
        DEF TypeOK, Stages, Gens, runVars, linkVars, closeVars, flags, callVars, At, Goto,
            CloseCall
<1>1. CASE Top BY <1>1 DEF Top
<1>2. CASE Dial BY <1>2 DEF Dial
<1>3. CASE Rearm BY <1>3 DEF Rearm
<1>4. CASE Publish BY <1>4 DEF Publish
<1>5. CASE Handshake BY <1>5 DEF Handshake
<1>6. CASE Engage BY <1>6 DEF Engage
<1>7. CASE Online BY <1>7 DEF Online
<1>8. CASE ReadCheck \/ ReadFrame \/ ReadFails \/ ReadDeadline
  BY <1>8 DEF ReadCheck, ReadFrame, ReadFails, ReadDeadline
<1>9. CASE Lost BY <1>9 DEF Lost
<1>10. CASE Leave BY <1>10 DEF Leave
<1>11. CASE Backoff \/ DelayOver \/ SleepCancelled
  BY <1>11 DEF Backoff, DelayOver, SleepCancelled
<1>12. ASSUME NEW g \in Gens, Pinger(g) \/ SendPing(g) PROVE TypeOK'
  <2>1. CASE PingerCancelled(g) BY <2>1 DEF PingerCancelled
  <2>2. CASE PingerEnds(g) BY <2>2 DEF PingerEnds
  <2>5. CASE SendPing(g) BY <2>5 DEF SendPing
  <2>3. CASE PingReturns(g)
    <3>1. \/ pinger' = [pinger EXCEPT ![g] = "failed"]
          \/ pinger' = [pinger EXCEPT ![g] = "run"]
      BY <2>3 DEF PingReturns
    <3> QED BY <3>1, <2>3 DEF PingReturns
  <2>4. CASE PingerFails(g)
    <3>1. closing' \in [Actors -> Stages] BY <2>4 DEF PingerFails
    <3>2. closed' \in BOOLEAN BY <2>4 DEF PingerFails
    <3> QED BY <3>1, <3>2, <2>4 DEF PingerFails
  <2> QED BY <1>12, <2>1, <2>2, <2>3, <2>4, <2>5 DEF Pinger
<1>13. ASSUME NEW g \in Gens, Drop(g) PROVE TypeOK' BY <1>13 DEF Drop
<1>14. ASSUME NEW u \in Callers, Call(u) \/ CallCloses(u) PROVE TypeOK'
  <2>1. CASE Call(u) BY <2>1 DEF Call
  <2>2. CASE CallCloses(u)
    <3>1. closing' \in [Actors -> Stages] BY <2>2 DEF CallCloses
    <3>2. closed' \in BOOLEAN BY <2>2 DEF CallCloses
    <3> QED BY <3>1, <3>2, <2>2 DEF CallCloses
  <2> QED BY <1>14, <2>1, <2>2
<1>15. ASSUME NEW a \in Actors, CloseStep(a) PROVE TypeOK'
  <2>1. CASE CloseAllowSleep(a)
    <3>1. closing' \in [Actors -> Stages] BY <2>1 DEF CloseAllowSleep
    <3>2. inhibited' \in BOOLEAN BY <2>1 DEF CloseAllowSleep
    <3> QED BY <3>1, <3>2, <2>1 DEF CloseAllowSleep
  <2>2. CASE CloseConn(a)
    <3>1. closing' \in [Actors -> Stages] BY <2>2 DEF CloseConn
    <3>2. sock' \in [Gens -> {"none", "open", "lost", "closed"}] BY <2>2 DEF CloseConn
    <3> QED BY <3>1, <3>2, <2>2 DEF CloseConn
  <2> QED BY <1>15, <2>1, <2>2 DEF CloseStep
<1>16. CASE Cancel BY <1>16 DEF Cancel
<1>17. CASE UNCHANGED vars BY <1>17 DEF vars
<1> QED
  BY <1>1, <1>2, <1>3, <1>4, <1>5, <1>6, <1>7, <1>8, <1>9, <1>10, <1>11, <1>12, <1>13,
     <1>14, <1>15, <1>16, <1>17
  DEF Next, RunStep, Connect

(* Whoever calls close() leaves somebody inside it who will do the work. *)
LEMMA EntersClose ==
  ASSUME TypeOK, NEW a \in Actors, closing[a] \in {"no", "called"},
         closed' = TRUE,
         closing' = [closing EXCEPT ![a] = IF closed THEN "no" ELSE "allow"],
         NEW S, "allow" \in S, "no" \notin S, "called" \notin S,
         closed => Inside(S)
  PROVE  Inside(S)'
BY DEF TypeOK, Inside

(* The goroutines that call close() are actors. *)
LEMMA Callees ==
  /\ Runner \in Actors
  /\ \A g \in Gens : Ping(g) \in Actors
  /\ \A u \in Callers : User(u) \in Actors
BY DEF Actors

(* Run goes on to connect only when its pingers have ended and every close() is through. *)
LEMMA StepCalm == AsProgramsCall /\ IInv /\ [Next]_vars => Calm'
<1> SUFFICES ASSUME AsProgramsCall, IInv, [Next]_vars PROVE Calm' OBVIOUS
<1>0. TypeOK /\ TypeOK' BY StepTypeOK DEF IInv
<1> USE <1>0, ClientAssumption
        DEF IInv, Calm, Callable, Actors, Connecting, Parted, runVars, linkVars,
            closeVars, flags, callVars, At, Goto, CloseCall, TypeOK, Stages,
            Runner, User, Ping, Gens, AsProgramsCall
<1>1. CASE Top BY <1>1 DEF Top
<1>2. CASE Dial BY <1>2 DEF Dial
<1>3. CASE Rearm BY <1>3 DEF Rearm
<1>4. CASE Publish BY <1>4 DEF Publish
<1>5. CASE Handshake BY <1>5 DEF Handshake
<1>6. CASE Engage BY <1>6 DEF Engage
<1>7. CASE Online BY <1>7 DEF Online
<1>8. CASE Lost BY <1>8 DEF Lost
<1>9. CASE Leave BY <1>9 DEF Leave
<1>10. CASE ReadCheck \/ ReadFrame \/ ReadFails \/ ReadDeadline
  BY <1>10 DEF ReadCheck, ReadFrame, ReadFails, ReadDeadline
<1>11. CASE Backoff \/ SleepCancelled BY <1>11 DEF Backoff, SleepCancelled
<1>12. CASE DelayOver BY <1>12 DEF DelayOver, Quiet
<1>13. ASSUME NEW g \in Gens, PingerCancelled(g) \/ PingerFails(g) PROVE Calm'
  BY <1>13 DEF PingerCancelled, PingerFails
<1>14. ASSUME NEW g \in Gens, PingerEnds(g) \/ PingReturns(g) \/ SendPing(g) PROVE Calm'
  BY <1>14 DEF PingerEnds, PingReturns, SendPing
<1>15. ASSUME NEW g \in Gens, Drop(g) PROVE Calm' BY <1>15 DEF Drop
<1>16. ASSUME NEW u \in Callers, Call(u) PROVE Calm' BY <1>16 DEF Call
<1>17. ASSUME NEW u \in Callers, CallCloses(u) PROVE Calm' BY <1>17 DEF CallCloses
<1>18. ASSUME NEW a \in Actors, CloseAllowSleep(a) PROVE Calm' BY <1>18 DEF CloseAllowSleep
<1>19. ASSUME NEW a \in Actors, CloseConn(a) PROVE Calm' BY <1>19 DEF CloseConn
<1>20. CASE Cancel BY <1>20 DEF Cancel
<1>21. CASE UNCHANGED vars BY <1>21 DEF vars
<1> QED
  BY <1>1, <1>2, <1>3, <1>4, <1>5, <1>6, <1>7, <1>8, <1>9, <1>10, <1>11, <1>12, <1>13,
     <1>14, <1>15, <1>16, <1>17, <1>18, <1>19, <1>20, <1>21
  DEF Next, RunStep, Connect, Pinger, CloseStep

(* Nobody calls Stop but while the client is online, and nobody calls Reconnect. *)
LEMMA StepCallable == AsProgramsCall /\ IInv /\ [Next]_vars => Callable'
<1> SUFFICES ASSUME AsProgramsCall, IInv, [Next]_vars PROVE Callable' OBVIOUS
<1>0. TypeOK /\ TypeOK' BY StepTypeOK DEF IInv
<1> USE <1>0, ClientAssumption
        DEF IInv, Calm, Callable, Actors, Connecting, Parted, runVars, linkVars,
            closeVars, flags, callVars, At, Goto, CloseCall, TypeOK, Stages,
            Runner, User, Ping, Gens, AsProgramsCall
<1>1. CASE Top BY <1>1 DEF Top
<1>2. CASE Dial BY <1>2 DEF Dial
<1>3. CASE Rearm BY <1>3 DEF Rearm
<1>4. CASE Publish BY <1>4 DEF Publish
<1>5. CASE Handshake BY <1>5 DEF Handshake
<1>6. CASE Engage BY <1>6 DEF Engage
<1>7. CASE Online BY <1>7 DEF Online
<1>8. CASE Lost BY <1>8 DEF Lost
<1>9. CASE Leave BY <1>9 DEF Leave
<1>10. CASE ReadCheck \/ ReadFrame \/ ReadFails \/ ReadDeadline
  BY <1>10 DEF ReadCheck, ReadFrame, ReadFails, ReadDeadline
<1>11. CASE Backoff \/ SleepCancelled BY <1>11 DEF Backoff, SleepCancelled
<1>12. CASE DelayOver BY <1>12 DEF DelayOver, Quiet
<1>13. ASSUME NEW g \in Gens, PingerCancelled(g) \/ PingerFails(g) PROVE Callable'
  BY <1>13 DEF PingerCancelled, PingerFails
<1>14. ASSUME NEW g \in Gens, PingerEnds(g) \/ PingReturns(g) \/ SendPing(g) PROVE Callable'
  BY <1>14 DEF PingerEnds, PingReturns, SendPing
<1>15. ASSUME NEW g \in Gens, Drop(g) PROVE Callable' BY <1>15 DEF Drop
<1>16. ASSUME NEW u \in Callers, Call(u) PROVE Callable' BY <1>16 DEF Call
<1>17. ASSUME NEW u \in Callers, CallCloses(u) PROVE Callable' BY <1>17 DEF CallCloses
<1>18. ASSUME NEW a \in Actors, CloseAllowSleep(a) PROVE Callable' BY <1>18 DEF CloseAllowSleep
<1>19. ASSUME NEW a \in Actors, CloseConn(a) PROVE Callable' BY <1>19 DEF CloseConn
<1>20. CASE Cancel BY <1>20 DEF Cancel
<1>21. CASE UNCHANGED vars BY <1>21 DEF vars
<1> QED
  BY <1>1, <1>2, <1>3, <1>4, <1>5, <1>6, <1>7, <1>8, <1>9, <1>10, <1>11, <1>12, <1>13,
     <1>14, <1>15, <1>16, <1>17, <1>18, <1>19, <1>20, <1>21
  DEF Next, RunStep, Connect, Pinger, CloseStep

(* connect resets the flag when nobody is inside close(). *)
LEMMA StepFlagOwned == AsProgramsCall /\ IInv /\ [Next]_vars => FlagOwned'
<1> SUFFICES ASSUME AsProgramsCall, IInv, [Next]_vars PROVE FlagOwned' OBVIOUS
<1>0. TypeOK /\ TypeOK' BY StepTypeOK DEF IInv
<1> USE <1>0, ClientAssumption
        DEF IInv, Calm, FlagOwned, Callable, Actors, Connecting, Parted, runVars,
            linkVars, closeVars, flags, callVars, At, Goto, CloseCall, TypeOK,
            Stages, Runner, User, Ping, Gens, AsProgramsCall
<1>1. CASE Top BY <1>1 DEF Top
<1>2. CASE Dial BY <1>2 DEF Dial
<1>3. CASE Rearm BY <1>3 DEF Rearm
<1>4. CASE Publish BY <1>4 DEF Publish
<1>5. CASE Handshake BY <1>5 DEF Handshake
<1>6. CASE Engage BY <1>6 DEF Engage
<1>7. CASE Online BY <1>7 DEF Online
<1>8. CASE Lost BY <1>8 DEF Lost
<1>9. CASE Leave BY <1>9 DEF Leave
<1>10. CASE ReadCheck \/ ReadFrame \/ ReadFails \/ ReadDeadline
  BY <1>10 DEF ReadCheck, ReadFrame, ReadFails, ReadDeadline
<1>11. CASE Backoff \/ SleepCancelled BY <1>11 DEF Backoff, SleepCancelled
<1>12. CASE DelayOver BY <1>12 DEF DelayOver, Quiet
<1>13. ASSUME NEW g \in Gens, PingerCancelled(g) \/ PingerFails(g) PROVE FlagOwned'
  BY <1>13 DEF PingerCancelled, PingerFails
<1>14. ASSUME NEW g \in Gens, PingerEnds(g) \/ PingReturns(g) \/ SendPing(g) PROVE FlagOwned'
  BY <1>14 DEF PingerEnds, PingReturns, SendPing
<1>15. ASSUME NEW g \in Gens, Drop(g) PROVE FlagOwned' BY <1>15 DEF Drop
<1>16. ASSUME NEW u \in Callers, Call(u) PROVE FlagOwned' BY <1>16 DEF Call
<1>17. ASSUME NEW u \in Callers, CallCloses(u) PROVE FlagOwned' BY <1>17 DEF CallCloses
<1>18. ASSUME NEW a \in Actors, CloseAllowSleep(a) PROVE FlagOwned' BY <1>18 DEF CloseAllowSleep
<1>19. ASSUME NEW a \in Actors, CloseConn(a) PROVE FlagOwned' BY <1>19 DEF CloseConn
<1>20. CASE Cancel BY <1>20 DEF Cancel
<1>21. CASE UNCHANGED vars BY <1>21 DEF vars
<1> QED
  BY <1>1, <1>2, <1>3, <1>4, <1>5, <1>6, <1>7, <1>8, <1>9, <1>10, <1>11, <1>12, <1>13,
     <1>14, <1>15, <1>16, <1>17, <1>18, <1>19, <1>20, <1>21
  DEF Next, RunStep, Connect, Pinger, CloseStep

(* The inhibitor is engaged only by connect, and whoever sets the flag releases it. *)
LEMMA StepHeldFor == AsProgramsCall /\ IInv /\ [Next]_vars => HeldFor'
<1> SUFFICES ASSUME AsProgramsCall, IInv, [Next]_vars PROVE HeldFor' OBVIOUS
<1>0. TypeOK /\ TypeOK' BY StepTypeOK DEF IInv
<1> USE <1>0, ClientAssumption
        DEF IInv, HeldFor, FlagOwned, Callable, Calm, Inside, Connecting, Parted,
            runVars, linkVars, closeVars, flags, callVars, At, Goto, CloseCall,
            TypeOK, Stages, Runner, User, Ping, Gens, AsProgramsCall
<1>1. CASE Top BY <1>1 DEF Top
<1>2. CASE Dial BY <1>2 DEF Dial
<1>3. CASE Rearm BY <1>3 DEF Rearm
<1>4. CASE Publish BY <1>4 DEF Publish
<1>5. CASE Handshake BY <1>5 DEF Handshake
<1>6. CASE Engage BY <1>6 DEF Engage
<1>7. CASE Online BY <1>7 DEF Online
<1>8. CASE Lost
  <2>1. inhibited => Inside({"allow"})' BY <1>8, Callees, EntersClose DEF Lost
  <2> QED BY <2>1, <1>8 DEF Lost
<1>9. CASE Leave BY <1>9 DEF Leave
<1>10. CASE ReadCheck \/ ReadFrame \/ ReadFails \/ ReadDeadline
  BY <1>10 DEF ReadCheck, ReadFrame, ReadFails, ReadDeadline
<1>11. CASE Backoff \/ SleepCancelled BY <1>11 DEF Backoff, SleepCancelled
<1>12. CASE DelayOver BY <1>12 DEF DelayOver, Quiet
<1>13. ASSUME NEW g \in Gens, PingerCancelled(g) \/ PingerFails(g) PROVE HeldFor'
  <2>1. CloseCall(Ping(g)) /\ UNCHANGED <<pc, inhibited>>
    BY <1>13 DEF PingerCancelled, PingerFails
  <2>2. inhibited => Inside({"allow"})' BY <2>1, Callees, EntersClose
  <2> QED BY <2>1, <2>2
<1>14. ASSUME NEW g \in Gens, PingerEnds(g) \/ PingReturns(g) \/ SendPing(g) PROVE HeldFor'
  BY <1>14 DEF PingerEnds, PingReturns, SendPing
<1>15. ASSUME NEW g \in Gens, Drop(g) PROVE HeldFor' BY <1>15 DEF Drop
<1>16. ASSUME NEW u \in Callers, Call(u) PROVE HeldFor' BY <1>16 DEF Call
<1>17. ASSUME NEW u \in Callers, CallCloses(u) PROVE HeldFor'
  <2>1. inhibited => Inside({"allow"})' BY <1>17, Callees, EntersClose DEF CallCloses
  <2> QED BY <2>1, <1>17 DEF CallCloses
<1>18. ASSUME NEW a \in Actors, CloseAllowSleep(a) PROVE HeldFor' BY <1>18 DEF CloseAllowSleep
<1>19. ASSUME NEW a \in Actors, CloseConn(a) PROVE HeldFor' BY <1>19 DEF CloseConn
<1>20. CASE Cancel BY <1>20 DEF Cancel
<1>21. CASE UNCHANGED vars BY <1>21 DEF vars
<1> QED
  BY <1>1, <1>2, <1>3, <1>4, <1>5, <1>6, <1>7, <1>8, <1>9, <1>10, <1>11, <1>12, <1>13,
     <1>14, <1>15, <1>16, <1>17, <1>18, <1>19, <1>20, <1>21
  DEF Next, RunStep, Connect, Pinger, CloseStep

(* connect dials when no connection is open. *)
LEMMA StepOneOpen == AsProgramsCall /\ IInv /\ [Next]_vars => OneOpen'
<1> SUFFICES ASSUME AsProgramsCall, IInv, [Next]_vars PROVE OneOpen' OBVIOUS
<1>0. TypeOK /\ TypeOK' BY StepTypeOK DEF IInv
<1> USE <1>0, ClientAssumption
        DEF IInv, OneOpen, ShutFor, NoneOpen, Callable, Inside, Connecting,
            Parted, runVars, linkVars, closeVars, flags, callVars, At, Goto,
            CloseCall, TypeOK, Stages, Runner, User, Ping, Gens, AsProgramsCall
<1>1. CASE Top BY <1>1 DEF Top
<1>2. CASE Dial BY <1>2 DEF Dial
<1>3. CASE Rearm BY <1>3 DEF Rearm
<1>4. CASE Publish BY <1>4 DEF Publish
<1>5. CASE Handshake BY <1>5 DEF Handshake
<1>6. CASE Engage BY <1>6 DEF Engage
<1>7. CASE Online BY <1>7 DEF Online
<1>8. CASE Lost BY <1>8 DEF Lost
<1>9. CASE Leave BY <1>9 DEF Leave
<1>10. CASE ReadCheck \/ ReadFrame \/ ReadFails \/ ReadDeadline
  BY <1>10 DEF ReadCheck, ReadFrame, ReadFails, ReadDeadline
<1>11. CASE Backoff \/ SleepCancelled BY <1>11 DEF Backoff, SleepCancelled
<1>12. CASE DelayOver BY <1>12 DEF DelayOver, Quiet
<1>13. ASSUME NEW g \in Gens, PingerCancelled(g) \/ PingerFails(g) PROVE OneOpen'
  BY <1>13 DEF PingerCancelled, PingerFails
<1>14. ASSUME NEW g \in Gens, PingerEnds(g) \/ PingReturns(g) \/ SendPing(g) PROVE OneOpen'
  BY <1>14 DEF PingerEnds, PingReturns, SendPing
<1>15. ASSUME NEW g \in Gens, Drop(g) PROVE OneOpen' BY <1>15 DEF Drop
<1>16. ASSUME NEW u \in Callers, Call(u) PROVE OneOpen' BY <1>16 DEF Call
<1>17. ASSUME NEW u \in Callers, CallCloses(u) PROVE OneOpen' BY <1>17 DEF CallCloses
<1>18. ASSUME NEW a \in Actors, CloseAllowSleep(a) PROVE OneOpen' BY <1>18 DEF CloseAllowSleep
<1>19. ASSUME NEW a \in Actors, CloseConn(a) PROVE OneOpen' BY <1>19 DEF CloseConn
<1>20. CASE Cancel BY <1>20 DEF Cancel
<1>21. CASE UNCHANGED vars BY <1>21 DEF vars
<1> QED
  BY <1>1, <1>2, <1>3, <1>4, <1>5, <1>6, <1>7, <1>8, <1>9, <1>10, <1>11, <1>12, <1>13,
     <1>14, <1>15, <1>16, <1>17, <1>18, <1>19, <1>20, <1>21
  DEF Next, RunStep, Connect, Pinger, CloseStep

(* Whoever sets the flag shuts the connection, and connect one that it gives up. *)
LEMMA StepShutFor == AsProgramsCall /\ IInv /\ [Next]_vars => ShutFor'
<1> SUFFICES ASSUME AsProgramsCall, IInv, [Next]_vars PROVE ShutFor' OBVIOUS
<1>0. TypeOK /\ TypeOK' BY StepTypeOK DEF IInv
<1> USE <1>0, ClientAssumption
        DEF IInv, OneOpen, ShutFor, NoneOpen, Callable, FlagOwned, Inside,
            Connecting, Parted, runVars, linkVars, closeVars, flags, callVars, At,
            Goto, CloseCall, TypeOK, Stages, Runner, User, Ping, Gens,
            AsProgramsCall
<1>1. CASE Top BY <1>1 DEF Top
<1>2. CASE Dial BY <1>2 DEF Dial
<1>3. CASE Rearm BY <1>3 DEF Rearm
<1>4. CASE Publish BY <1>4 DEF Publish
<1>5. CASE Handshake BY <1>5 DEF Handshake
<1>6. CASE Engage BY <1>6 DEF Engage
<1>7. CASE Online BY <1>7 DEF Online
<1>8. CASE Lost
  <2>1. conn # 0 /\ sock[conn] = "open" => Inside({"allow", "shut"})'
    BY <1>8, Callees, EntersClose DEF Lost
  <2> QED BY <2>1, <1>8 DEF Lost
<1>9. CASE Leave
  <2>1. closed \/ NoneOpen BY <1>9 DEF Leave
  <2>2. CASE CloseCall(Runner)
    <3>1. conn # 0 /\ sock[conn] = "open" => Inside({"allow", "shut"})'
      BY <2>2, <1>9, Callees, EntersClose DEF Leave
    <3> QED BY <3>1, <2>2, <1>9 DEF Leave
  <2>3. CASE UNCHANGED <<closed, closing>> BY <2>1, <2>3, <1>9 DEF Leave
  <2> QED BY <1>9, <2>2, <2>3 DEF Leave
<1>10. CASE ReadCheck \/ ReadFrame \/ ReadFails \/ ReadDeadline
  BY <1>10 DEF ReadCheck, ReadFrame, ReadFails, ReadDeadline
<1>11. CASE Backoff \/ SleepCancelled BY <1>11 DEF Backoff, SleepCancelled
<1>12. CASE DelayOver BY <1>12 DEF DelayOver, Quiet
<1>13. ASSUME NEW g \in Gens, PingerCancelled(g) \/ PingerFails(g) PROVE ShutFor'
  <2>1. CloseCall(Ping(g)) /\ UNCHANGED <<pc, conn, sock>>
    BY <1>13 DEF PingerCancelled, PingerFails
  <2>2. conn # 0 /\ sock[conn] = "open" => Inside({"allow", "shut"})' BY <2>1, Callees, EntersClose
  <2> QED BY <2>1, <2>2
<1>14. ASSUME NEW g \in Gens, PingerEnds(g) \/ PingReturns(g) \/ SendPing(g) PROVE ShutFor'
  BY <1>14 DEF PingerEnds, PingReturns, SendPing
<1>15. ASSUME NEW g \in Gens, Drop(g) PROVE ShutFor' BY <1>15 DEF Drop
<1>16. ASSUME NEW u \in Callers, Call(u) PROVE ShutFor' BY <1>16 DEF Call
<1>17. ASSUME NEW u \in Callers, CallCloses(u) PROVE ShutFor'
  <2>1. conn # 0 /\ sock[conn] = "open" => Inside({"allow", "shut"})'
    BY <1>17, Callees, EntersClose DEF CallCloses
  <2> QED BY <2>1, <1>17 DEF CallCloses
<1>18. ASSUME NEW a \in Actors, CloseAllowSleep(a) PROVE ShutFor' BY <1>18 DEF CloseAllowSleep
<1>19. ASSUME NEW a \in Actors, CloseConn(a) PROVE ShutFor' BY <1>19 DEF CloseConn
<1>20. CASE Cancel BY <1>20 DEF Cancel
<1>21. CASE UNCHANGED vars BY <1>21 DEF vars
<1> QED
  BY <1>1, <1>2, <1>3, <1>4, <1>5, <1>6, <1>7, <1>8, <1>9, <1>10, <1>11, <1>12, <1>13,
     <1>14, <1>15, <1>16, <1>17, <1>18, <1>19, <1>20, <1>21
  DEF Next, RunStep, Connect, Pinger, CloseStep

-----------------------------------------------------------------------------
(* Every step preserves the invariant, for the calls the programs make. *)
LEMMA StepIInv == AsProgramsCall /\ IInv /\ [Next]_vars => IInv'
BY StepTypeOK, StepCalm, StepCallable, StepFlagOwned, StepHeldFor, StepOneOpen, StepShutFor
DEF IInv

(* The variables keep their types (TypeOK), whatever is called when. *)
THEOREM TypeCorrect == Spec => []TypeOK
<1>1. Init => TypeOK BY InitIInv DEF IInv
<1> QED BY <1>1, StepTypeOK, PTL DEF Spec

(* The inductive invariant holds of every reachable state. *)
THEOREM Invariance == AsProgramsCall => (Spec => []IInv)
<1> SUFFICES ASSUME AsProgramsCall PROVE Spec => []IInv OBVIOUS
<1>1. IInv /\ [Next]_vars => IInv' BY StepIInv
<1> QED BY <1>1, InitIInv, PTL DEF Spec

(***************************************************************************)
(* Once Run has returned and every close() is through, the inhibitor is    *)
(* released and every connection is shut, whoever tore it down (close,     *)
(* connect, Run).                                                          *)
(***************************************************************************)
THEOREM ReleasedOnReturn == AsProgramsCall => (Spec => []ReleasedAtExit)
<1> SUFFICES ASSUME AsProgramsCall PROVE Spec => []ReleasedAtExit OBVIOUS
<1>1. IInv => ReleasedAtExit
  <2> SUFFICES ASSUME IInv, Returned PROVE ~inhibited /\ NoneOpen
    BY DEF ReleasedAtExit, NoneOpen
  <2>1. ~Inside({"allow"}) /\ ~Inside({"allow", "shut"}) BY DEF Returned, Inside
  <2>2. ~inhibited BY <2>1 DEF IInv, HeldFor, Returned, Parted
  <2>3. NoneOpen
    BY <2>1 DEF IInv, OneOpen, ShutFor, NoneOpen, Returned, Parted, Gens, TypeOK
  <2> QED BY <2>2, <2>3
<1> QED BY <1>1, Invariance, PTL

(***************************************************************************)
(* The inhibitor is released only while the closed flag is set: no late    *)
(* close() of an earlier connection releases what connect has engaged for  *)
(* a new one (connect, close).                                             *)
(***************************************************************************)
THEOREM ReleasedWhenClosed == AsProgramsCall => (Spec => NeverReleasedEarly)
<1> SUFFICES ASSUME AsProgramsCall PROVE Spec => NeverReleasedEarly OBVIOUS
<1>1. IInv /\ [Next]_vars => [inhibited /\ ~inhibited' => closed]_inhibited
  <2> SUFFICES ASSUME IInv, [Next]_vars, inhibited, ~inhibited' PROVE closed OBVIOUS
  <2>1. CASE Engage BY <2>1 DEF Engage
  <2>2. ASSUME NEW a \in Actors, CloseAllowSleep(a) PROVE closed
    BY <2>2 DEF CloseAllowSleep, IInv, FlagOwned
  <2>3. CASE UNCHANGED inhibited BY <2>3
  <2> QED
    BY <2>1, <2>2, <2>3
    DEF Next, RunStep, Connect, Pinger, CloseStep, Top, Dial, Rearm, Publish, Handshake,
        Online, ReadCheck, ReadFails, Lost, Leave, Backoff, DelayOver, SleepCancelled,
        ReadFrame, ReadDeadline, Cancel, PingerCancelled, PingerEnds, PingReturns,
        PingerFails, SendPing, Drop, Call, CallCloses, CloseConn, vars, closeVars
<1> QED BY <1>1, Invariance, PTL DEF Spec, NeverReleasedEarly

(***************************************************************************)
(* Run leaves no connection open behind it when it dials the next one or   *)
(* waits to (Run, connect, close).                                         *)
(***************************************************************************)
THEOREM NoConnectionLeft == AsProgramsCall => (Spec => []OneConnection)
<1> SUFFICES ASSUME AsProgramsCall PROVE Spec => []OneConnection OBVIOUS
<1>1. IInv => OneConnection
  <2> SUFFICES ASSUME IInv, pc \in {"dial", "backoff", "sleep"},
                      \A a \in Actors : closing[a] = "no"
               PROVE  NoneOpen
    BY DEF OneConnection, NoneOpen
  <2>1. ~Inside({"allow", "shut"}) BY DEF Inside
  <2> QED BY <2>1 DEF IInv, OneOpen, ShutFor, NoneOpen, Parted, Gens, TypeOK
<1> QED BY <1>1, Invariance, PTL
=============================================================================
