---------------------------- MODULE OwnershipProofs ----------------------------
(***************************************************************************)
(* Tunnel IDs have one owner, who never loses them: theorems about         *)
(* Ownership for any clients, handlers, IDs and secrets, as long as the    *)
(* operator does not restart the server during a handshake (Undisturbed).  *)
(*                                                                         *)
(* A secret is followed from the moment it is drawn: into the map, the     *)
(* temporary file and tunnels.json, and into the answer, the client's      *)
(* memory and config.json.  The file never lacks what the map has lost     *)
(* (Durable), a client never has what the file lacks (Credentials), and no *)
(* secret ever has a way to two clients (Mine).                            *)
(***************************************************************************)
EXTENDS Ownership, TLAPS

Undisturbed == ~RestartWhileBusy

Map == tunnels[cur]
Registering == {"registerWrite", "registerRename"}
Renaming    == {"registerRename", "statsRename"}
Writing     == {"registerWrite", "registerRename", "statsWrite", "statsRename"}
Unanswered  == {"hello", "registerWrite", "registerRename", "bound"}
Statsing    == {"stats", "statsWrite", "statsRename"}

(* Records m give ID i to the owner of secret s; n keeps what m has. *)
Known(m, i, s) == i \in Ids /\ m[i] # Absent /\ m[i].hash = Hash(s)
Kept(m, n) == \A i \in Ids : m[i] # Absent => n[i] # Absent /\ n[i].hash = m[i].hash

(* A step loses neither a saved ID nor a secret that was drawn. *)
Grows == Kept(Load(disk), Load(disk')) /\ issued \subseteq issued'

(* Only the current server, the latest, has handlers at work. *)
Current == \A p \in Handlers :
    /\ gen[p] <= cur
    /\ pc[p] \in Unanswered \cup Statsing => gen[p] = cur

(* The mutex is held by the handler that is saving. *)
Locked ==
    /\ \A p \in Handlers : pc[p] \in Writing => mu[gen[p]] = p
    /\ \A g \in Gens : mu[g] # Nobody => pc[mu[g]] \in Writing /\ gen[mu[g]] = g

(* Every entry has a secret that was drawn for it. *)
Issued ==
    /\ \A i \in Ids : Map[i] # Absent => \E s \in issued : Map[i].hash = Hash(s)
    /\ \A i, j \in Ids :
          Map[i] # Absent /\ Map[j] # Absent /\ Map[i].hash = Map[j].hash => i = j

(* The map has what the file has, and a file to be renamed has what the map has. *)
Durable ==
    /\ Kept(Load(disk), Map)
    /\ \A p \in Handlers : pc[p] \in Renaming =>
          tmp # NoFile /\ Kept(Map, tmp) /\ Kept(tmp, Map)

(* What Register has answered. *)
Answered(p) ==
    /\ pc[p] \in Registering =>
          bound[p].secret \in issued /\ Known(Map, bound[p].id, bound[p].secret)
    /\ pc[p] = "bound" /\ bound[p].secret # NoSecret =>
          bound[p].secret \in issued /\ Known(Load(disk), bound[p].id, bound[p].secret)
    /\ pc[p] \in {"bound"} \cup Statsing \/ (pc[p] = "online" /\ gen[p] = cur) =>
          bound[p].id \in Ids /\ Map[bound[p].id] # Absent
Answers == \A p \in Handlers : Answered(p)

(* Whom a handler serves. *)
Linked ==
    /\ \A c \in Clients : link[c] = "off" => conn[c] = Nobody /\ inbox[c] = NoAnswer
    /\ \A c \in Clients : conn[c] # Nobody => pc[conn[c]] # "idle"
    /\ \A a, b \in Clients : conn[a] = conn[b] /\ conn[a] # Nobody => a = b
    /\ \A c \in Clients : conn[c] # Nobody /\ pc[conn[c]] \in Unanswered \cup {"rejected"} =>
          inbox[c] = NoAnswer

(* An ID that is reused is the one the client has. *)
ReusedBy(c) ==
    /\ conn[c] # Nobody /\ pc[conn[c]] = "hello" => hello[conn[c]].secret = cfg[c].secret
    /\ conn[c] # Nobody /\ pc[conn[c]] = "bound" /\ bound[conn[c]].secret = NoSecret =>
          bound[conn[c]].id = cfg[c].tunnelId
    /\ inbox[c] # NoAnswer /\ inbox[c].secret = NoSecret =>
          inbox[c].id \in Ids /\ inbox[c].id = cfg[c].tunnelId
Reused == \A c \in Clients : ReusedBy(c)

(* What a client has, or is about to get, is in the file. *)
Own(k) ==
    /\ k.secret # NoSecret <=> k.tunnelId # NoId
    /\ k.tunnelId # NoId => k.secret \in issued /\ Known(Load(disk), k.tunnelId, k.secret)
Credentials == \A c \in Clients :
    /\ Own(cfg[c]) /\ Own(cfgFile[c])
    /\ inbox[c].secret # NoSecret =>
          inbox[c].secret \in issued /\ Known(Load(disk), inbox[c].id, inbox[c].secret)

(* The secrets client c has, or that are on their way to it. *)
Held(c) ==
    {cfg[c].secret, cfgFile[c].secret, inbox[c].secret}
      \cup {bound[p].secret : p \in {q \in Handlers :
                conn[c] = q /\ pc[q] \in Registering \cup {"bound"}}}

Mine == \A a, b \in Clients : a # b => Held(a) \cap Held(b) \subseteq {NoSecret}

(* A file that is renamed lacks nothing but what is still to be saved. *)
Fresh ==
    \A p \in Handlers : pc[p] \in Renaming =>
        tmp = Map \/ \E q \in Handlers : pc[q] = "stats"

IInv == /\ TypeOK /\ Current /\ Locked /\ Issued /\ Durable /\ Answers /\ Linked /\ Reused
        /\ Credentials /\ Mine /\ Fresh /\ MemoryReachesDisk

-----------------------------------------------------------------------------
(* A Config stays one when a field changes. *)
LEMMA ConfigFields ==
  ASSUME NEW k \in Config
  PROVE  /\ \A id \in CustomIds : [k EXCEPT !.customId = id] \in Config
         /\ \A id \in Ids \cup {NoId}, s \in Secrets \cup {NoSecret} :
               [k EXCEPT !.tunnelId = id, !.secret = s] \in Config
BY DEF Config

(* What connect makes of a hello_ack. *)
LEMMA ConfigAck ==
  ASSUME NEW k \in Config,
         NEW a \in [id : Ids \cup {NoId}, secret : Secrets \cup {NoSecret}]
  PROVE  LET new == [k EXCEPT !.tunnelId = a.id,
                              !.secret = IF a.secret # NoSecret THEN a.secret ELSE @]
         IN  /\ new \in Config
             /\ new.tunnelId = a.id
             /\ new.secret = IF a.secret # NoSecret THEN a.secret ELSE k.secret
BY DEF Config

(* Every step preserves the types. *)
LEMMA StepTypeOK == Undisturbed /\ IInv /\ [Next]_vars => TypeOK'
<1> SUFFICES ASSUME Undisturbed, IInv, [Next]_vars PROVE TypeOK' OBVIOUS
<1> USE RegistryAssumption, RecordAssumption, OwnershipAssumption
       DEF IInv, TypeOK, NoHello, NoAnswer
<1>1. ASSUME NEW p \in Handlers, NEW c \in Clients, Connect(c, p) PROVE TypeOK'
  BY <1>1 DEF Connect, Accept, Config
<1>2. ASSUME NEW p \in Handlers, RegisterReuse(p), UNCHANGED clientVars PROVE TypeOK'
  BY <1>2 DEF RegisterReuse, clientVars
<1>3. ASSUME NEW p \in Handlers, RegisterFresh(p), UNCHANGED clientVars PROVE TypeOK'
  <2>1. PICK id \in Allocatable(p), s \in Secrets \ issued :
           /\ tunnels' = [tunnels EXCEPT ![gen[p]][id] = NewEntry(s)]
           /\ bound' = [bound EXCEPT ![p] = [id |-> id, secret |-> s]]
           /\ issued' = issued \cup {s}
    BY <1>3 DEF RegisterFresh
  <2>2. id \in Ids BY DEF Allocatable, Free
  <2>3. NewEntry(s) \in Entry BY DEF NewEntry, Entry
  <2>4. tunnels' \in [Gens -> Records] BY <2>1, <2>2, <2>3 DEF Records
  <2> QED BY <2>1, <2>2, <2>4, <1>3 DEF RegisterFresh, clientVars
<1>4. ASSUME NEW p \in Handlers, StatsSave(p), UNCHANGED clientVars PROVE TypeOK'
  BY <1>4 DEF StatsSave, clientVars
<1>5. ASSUME NEW p \in Handlers, WriteTmp(p), UNCHANGED clientVars PROVE TypeOK'
  BY <1>5 DEF WriteTmp, clientVars
<1>6. ASSUME NEW p \in Handlers, Rename(p), UNCHANGED clientVars PROVE TypeOK'
  BY <1>6 DEF Rename, clientVars
<1>7. ASSUME NEW p \in Handlers, SaveFails(p), UNCHANGED clientVars PROVE TypeOK'
  BY <1>7 DEF SaveFails, clientVars
<1>8. ASSUME NEW p \in Handlers, Publish(p) PROVE TypeOK'
  BY <1>8 DEF Publish
<1>9. ASSUME NEW p \in Handlers, Reject(p) PROVE TypeOK'
  BY <1>9 DEF Reject, Return, Gens
<1>10. ASSUME NEW p \in Handlers, End(p) PROVE TypeOK'
  BY <1>10 DEF End, Return, Gens
<1>11. ASSUME NEW c \in Clients, Acknowledge(c) PROVE TypeOK'
  <2>1. PICK s \in Secrets \cup {NoSecret} :
           s = IF inbox[c].secret # NoSecret THEN inbox[c].secret ELSE cfg[c].secret
    BY DEF Config
  <2> DEFINE new == [cfg[c] EXCEPT !.tunnelId = inbox[c].id, !.secret = s]
  <2>2. new \in Config BY ConfigFields
  <2>3. /\ cfg' = [cfg EXCEPT ![c] = new]
        /\ cfgFile' \in {cfgFile, [cfgFile EXCEPT ![c] = new]}
    BY <1>11, <2>1 DEF Acknowledge
  <2>4. cfg' \in [Clients -> Config] /\ cfgFile' \in [Clients -> Config]
    <3> HIDE DEF new
    <3> QED BY <2>2, <2>3
  <2> QED BY <2>4, <1>11 DEF Acknowledge, registryVars
<1>12. ASSUME NEW c \in Clients, Drop(c) PROVE TypeOK'
  BY <1>12 DEF Drop, registryVars
<1>13. ASSUME NEW c \in Clients, ClientRestart(c) PROVE TypeOK'
  BY <1>13 DEF ClientRestart, registryVars
<1>14. ASSUME NEW c \in Clients, SetCustomID(c) PROVE TypeOK'
  <2>1. PICK id \in CustomIds : cfg' = [cfg EXCEPT ![c].customId = id]
    BY <1>14 DEF SetCustomID
  <2>2. cfg' \in [Clients -> Config] BY <2>1, ConfigFields
  <2>3. cfgFile' \in [Clients -> Config] BY <2>2, <1>14 DEF SetCustomID
  <2> QED BY <2>2, <2>3, <1>14 DEF SetCustomID, registryVars
<1>15. ASSUME NEW c \in Clients, Stats(c) PROVE TypeOK'
  <2> DEFINE q == conn[c]
  <2>1. q \in Handlers BY <1>15 DEF Stats
  <2>2. gen[q] = cur BY <1>15 DEF Stats, Undisturbed
  <2>3. bound[q].id \in Ids /\ Map[bound[q].id] # Absent
    BY <1>15, <2>1, <2>2 DEF Stats, StatsSetTarget, Answers, Answered
  <2>4. tunnels' \in [Gens -> Records]
    <3>1. PICK t \in Targets :
             tunnels' = [tunnels EXCEPT ![gen[q]][bound[q].id].target = t]
      BY <1>15 DEF Stats, StatsSetTarget
    <3>2. tunnels[gen[q]][bound[q].id] \in Entry BY <2>1, <2>2, <2>3 DEF Map, Records
    <3>3. [tunnels[gen[q]][bound[q].id] EXCEPT !.target = t] \in Entry BY <3>2 DEF Entry
    <3> QED BY <3>1, <3>3, <2>1, <2>2, <2>3 DEF Records
  <2> QED BY <2>1, <2>4, <1>15 DEF Stats, StatsSetTarget, clientVars
<1>16. CASE ServerCrash
  <2>1. Load(disk) \in Records /\ None \in Records BY DEF Load, None, Records
  <2>2. 1 \in Gens BY DEF Gens
  <2> QED BY <2>1, <2>2, <1>16 DEF ServerCrash, Crash
<1>17. CASE ServerStopStart
  <2>1. Load(disk) \in Records /\ None \in Records BY DEF Load, None, Records
  <2>2. cur' \in Gens BY <1>17 DEF ServerStopStart, StopStart, clientVars, Gens
  <2> QED BY <2>1, <2>2, <1>17 DEF ServerStopStart, StopStart, clientVars
<1>18. CASE UNCHANGED vars
  BY <1>18 DEF vars, registryVars, clientVars
<1> QED
  BY <1>1, <1>2, <1>3, <1>4, <1>5, <1>6, <1>7, <1>8, <1>9, <1>10, <1>11, <1>12, <1>13,
     <1>14, <1>15, <1>16, <1>17, <1>18
  DEF Next

(* Hash is an injection and never the empty string. *)
LEMMA HashFacts == \A s, t : Hash(s) # NoHash /\ (Hash(s) = Hash(t) => s = t)
BY DEF Hash, NoHash

(* Whoever keeps what is kept keeps it. *)
LEMMA KeptFacts ==
  /\ \A m : Kept(m, m)
  /\ \A m, n, o : Kept(m, n) /\ Kept(n, o) => Kept(m, o)
  /\ \A m, n, i, s : Kept(m, n) /\ Known(m, i, s) => Known(n, i, s)
BY DEF Kept, Known

(* At most one handler is saving, and it holds the mutex of the current registry. *)
LEMMA OneWriter ==
  ASSUME IInv, NEW p \in Handlers, pc[p] \in Writing
  PROVE  /\ gen[p] = cur /\ mu[cur] = p /\ cur \in Gens
         /\ \A q \in Handlers : pc[q] \in Writing => q = p
<1> USE DEF IInv, Writing
<1>1. \A q \in Handlers : pc[q] \in Writing => gen[q] = cur
  BY DEF Current, Unanswered, Statsing
<1>2. \A q \in Handlers : pc[q] \in Writing => mu[gen[q]] = q BY DEF Locked
<1>3. cur \in Gens BY DEF TypeOK
<1> QED BY <1>1, <1>2, <1>3

(* Register, a new entry: the map gains an ID it did not have, with a new secret. *)
LEMMA FreshStep ==
  ASSUME IInv, NEW p \in Handlers, RegisterFresh(p)
  PROVE  /\ gen[p] = cur /\ mu[cur] = Nobody
         /\ \E id \in Ids, s \in Secrets \ issued :
              /\ Map[id] = Absent
              /\ Map' = [Map EXCEPT ![id] = NewEntry(s)]
              /\ NewEntry(s) # Absent /\ NewEntry(s).hash = Hash(s)
              /\ bound' = [bound EXCEPT ![p] = [id |-> id, secret |-> s]]
              /\ issued' = issued \cup {s}
<1>1. gen[p] = cur /\ mu[cur] = Nobody
  BY DEF IInv, RegisterFresh, Current, Unanswered
<1>2. PICK id \in Allocatable(p), s \in Secrets \ issued :
         /\ tunnels' = [tunnels EXCEPT ![gen[p]][id] = NewEntry(s)]
         /\ bound' = [bound EXCEPT ![p] = [id |-> id, secret |-> s]]
         /\ issued' = issued \cup {s}
  BY DEF RegisterFresh
<1>3. id \in Ids /\ Map[id] = Absent BY <1>1 DEF Allocatable, Free, Map
<1>4. NewEntry(s) # Absent
  BY RecordAssumption DEF NewEntry, Entry
<1>5. NewEntry(s).hash = Hash(s) BY DEF NewEntry
<1>6. Map' = [Map EXCEPT ![id] = NewEntry(s)]
  <2>1. cur' = cur BY DEF RegisterFresh
  <2>2. cur \in Gens /\ tunnels \in [Gens -> Records] BY DEF IInv, TypeOK
  <2> QED BY <1>1, <1>2, <2>1, <2>2 DEF Map
<1> QED BY <1>1, <1>2, <1>3, <1>4, <1>5, <1>6

(* A stats frame changes a target, and neither an ID nor a hash. *)
LEMMA StatsStep ==
  ASSUME Undisturbed, IInv, NEW c \in Clients, Stats(c)
  PROVE  Kept(Map, Map') /\ Kept(Map', Map)
<1> DEFINE q == conn[c]
<1>1. q \in Handlers BY DEF Stats, IInv, TypeOK
<1>2. gen[q] = cur BY DEF Stats, Undisturbed
<1>3. bound[q].id \in Ids /\ Map[bound[q].id] # Absent
  BY <1>1, <1>2 DEF Stats, StatsSetTarget, Answers, Answered, IInv
<1>4. PICK t \in Targets : tunnels' = [tunnels EXCEPT ![gen[q]][bound[q].id].target = t]
  BY DEF Stats, StatsSetTarget
<1>5. cur \in Gens /\ tunnels \in [Gens -> Records] /\ cur' = cur
  BY DEF IInv, TypeOK, Stats, StatsSetTarget
<1>6. Map \in Records BY <1>5 DEF Map
<1> DEFINE e == [Map[bound[q].id] EXCEPT !.target = t]
<1>7. Map' = [Map EXCEPT ![bound[q].id] = e] BY <1>2, <1>4, <1>5 DEF Map
<1>8. Map[bound[q].id] \in Entry BY <1>3, <1>6 DEF Records
<1>9. e \in Entry /\ e.hash = Map[bound[q].id].hash BY <1>8 DEF Entry
<1>10. e # Absent BY <1>9, RecordAssumption
<1> HIDE DEF e
<1> QED BY <1>3, <1>6, <1>7, <1>9, <1>10 DEF Kept, Records

(* A restarted server has read the file. *)
LEMMA RestartStep ==
  ASSUME IInv, Undisturbed, ServerCrash \/ ServerStopStart
  PROVE  /\ Map' = Load(disk) /\ disk' = disk /\ issued' = issued
         /\ \A p \in Handlers :
               /\ gen'[p] <= cur'
               /\ \/ pc'[p] \in {"idle", "rejected"}
                  \/ pc'[p] = "online" /\ gen'[p] # cur'
         /\ \A g \in Gens : mu'[g] = Nobody
<1>1. CASE ServerCrash
  <2>1. 1 \in Gens BY RegistryAssumption DEF Gens
  <2> QED BY <1>1, <2>1 DEF ServerCrash, Crash, Map
<1>2. CASE ServerStopStart
  <2>1. cur' = cur + 1 /\ cur' \in Gens
    BY <1>2, RegistryAssumption DEF ServerStopStart, StopStart, IInv, TypeOK, Gens
  <2>2. Binding = {} /\ Saving = {} BY <1>2 DEF ServerStopStart, Undisturbed
  <2>3. \A p \in Handlers : pc[p] \in {"idle", "rejected", "online"}
    BY <2>2 DEF Binding, Saving, IInv, TypeOK
  <2>4. \A g \in Gens : mu[g] = Nobody
    BY <2>3 DEF IInv, TypeOK, Locked, Writing
  <2>5. \A p \in Handlers : gen[p] <= cur' /\ gen[p] # cur'
    BY <2>1 DEF IInv, Current, TypeOK, Gens
  <2> QED BY <1>2, <2>1, <2>2, <2>3, <2>4, <2>5 DEF ServerStopStart, StopStart, Map
<1> QED BY <1>1, <1>2

(* The file and the secrets that were drawn only grow. *)
LEMMA FileGrows == Undisturbed /\ IInv /\ [Next]_vars => Grows
<1> SUFFICES ASSUME Undisturbed, IInv, [Next]_vars PROVE Grows OBVIOUS
<1> USE KeptFacts DEF Grows
<1>1. ASSUME NEW p \in Handlers, NEW c \in Clients, Connect(c, p) PROVE Grows
  BY <1>1 DEF Connect, Accept
<1>2. ASSUME NEW p \in Handlers,
            RegisterReuse(p) \/ StatsSave(p) \/ WriteTmp(p)
              \/ SaveFails(p), UNCHANGED clientVars
     PROVE  Grows
  BY <1>2 DEF RegisterReuse, StatsSave, WriteTmp, SaveFails, clientVars
<1>3. ASSUME NEW p \in Handlers, RegisterFresh(p), UNCHANGED clientVars PROVE Grows
  BY <1>3, FreshStep DEF RegisterFresh, clientVars
<1>4. ASSUME NEW p \in Handlers, Rename(p), UNCHANGED clientVars PROVE Grows
  <2>1. Kept(Load(disk), Map) /\ Kept(Map, tmp) /\ tmp # NoFile
    BY <1>4 DEF IInv, Durable, Rename, Renaming
  <2> QED BY <2>1, <1>4 DEF Rename, Load
<1>5. ASSUME NEW p \in Handlers, Publish(p) \/ Reject(p) \/ End(p) PROVE Grows
  BY <1>5 DEF Publish, Reject, Return, End
<1>6. ASSUME NEW c \in Clients, Stats(c) PROVE Grows
  BY <1>6 DEF Stats, StatsSetTarget, clientVars
<1>7. CASE ServerCrash \/ ServerStopStart
  BY <1>7 DEF ServerCrash, Crash, ServerStopStart, StopStart, clientVars
<1>8. CASE UNCHANGED registryVars
  BY <1>8 DEF registryVars
<1> QED
  BY <1>1, <1>2, <1>3, <1>4, <1>5, <1>6, <1>7, <1>8
  DEF Next, Acknowledge, Drop, ClientRestart, SetCustomID, vars

(* A handler at work belongs to the current server. *)
LEMMA StepCurrent == Undisturbed /\ IInv /\ [Next]_vars => Current'
<1> SUFFICES ASSUME Undisturbed, IInv, [Next]_vars PROVE Current' OBVIOUS
<1> USE DEF IInv, TypeOK, Current, Unanswered, Statsing
<1>1. ASSUME NEW p \in Handlers, NEW c \in Clients, Connect(c, p) PROVE Current'
  BY <1>1 DEF Connect, Accept, Gens
<1>2. ASSUME NEW p \in Handlers,
            RegisterReuse(p) \/ RegisterFresh(p) \/ StatsSave(p) \/ WriteTmp(p)
              \/ Rename(p) \/ SaveFails(p), UNCHANGED clientVars
     PROVE  Current'
  BY <1>2 DEF RegisterReuse, RegisterFresh, StatsSave, WriteTmp, Rename, SaveFails,
    clientVars
<1>3. ASSUME NEW p \in Handlers, Publish(p) \/ Reject(p) \/ End(p) PROVE Current'
  <2>1. 1 <= cur BY DEF Gens
  <2> QED BY <2>1, <1>3 DEF Publish, Reject, Return, End
<1>4. ASSUME NEW c \in Clients, Stats(c) PROVE Current'
  BY <1>4 DEF Stats, StatsSetTarget, clientVars, Undisturbed
<1>5. CASE ServerCrash \/ ServerStopStart
  BY <1>5, RestartStep
<1>6. CASE UNCHANGED registryVars
  BY <1>6 DEF registryVars
<1> QED
  BY <1>1, <1>2, <1>3, <1>4, <1>5, <1>6
  DEF Next, Acknowledge, Drop, ClientRestart, SetCustomID, vars

(* The mutex is held by the handler that is saving. *)
LEMMA StepLocked == Undisturbed /\ IInv /\ [Next]_vars => Locked'
<1> SUFFICES ASSUME Undisturbed, IInv, [Next]_vars PROVE Locked' OBVIOUS
<1> USE RegistryAssumption DEF IInv, TypeOK, Locked, Writing
<1>1. ASSUME NEW p \in Handlers, NEW c \in Clients, Connect(c, p) PROVE Locked'
  BY <1>1 DEF Connect, Accept
<1>2. ASSUME NEW p \in Handlers, RegisterReuse(p), UNCHANGED clientVars PROVE Locked'
  BY <1>2 DEF RegisterReuse, clientVars
<1>3. ASSUME NEW p \in Handlers, RegisterFresh(p), UNCHANGED clientVars PROVE Locked'
  BY <1>3 DEF RegisterFresh, clientVars
<1>4. ASSUME NEW p \in Handlers, StatsSave(p), UNCHANGED clientVars PROVE Locked'
  BY <1>4 DEF StatsSave, clientVars
<1>5. ASSUME NEW p \in Handlers, WriteTmp(p), UNCHANGED clientVars PROVE Locked'
  <2>1. pc[p] \in Writing /\ pc'[p] \in Writing /\ mu' = mu /\ gen' = gen
    BY <1>5 DEF WriteTmp, clientVars
  <2>2. \A q \in Handlers \ {p} : pc'[q] = pc[q] BY <1>5 DEF WriteTmp, clientVars
  <2> QED BY <2>1, <2>2
<1>6. ASSUME NEW p \in Handlers, Rename(p) \/ SaveFails(p), UNCHANGED clientVars
     PROVE  Locked'
  <2>1. gen[p] = cur /\ cur \in Gens /\ \A q \in Handlers : pc[q] \in Writing => q = p
    BY <1>6, OneWriter DEF Rename, SaveFails, clientVars
  <2>2. pc'[p] \notin Writing /\ gen' = gen /\ mu' = [mu EXCEPT ![cur] = Nobody]
    BY <2>1, <1>6 DEF Rename, SaveFails, clientVars
  <2>3. \A q \in Handlers \ {p} : pc'[q] = pc[q] BY <1>6 DEF Rename, SaveFails, clientVars
  <2> QED BY <2>1, <2>2, <2>3
<1>7. ASSUME NEW p \in Handlers, Publish(p) PROVE Locked'
  BY <1>7 DEF Publish
<1>8. ASSUME NEW p \in Handlers, Reject(p) PROVE Locked'
  BY <1>8 DEF Reject, Return
<1>9. ASSUME NEW p \in Handlers, End(p) PROVE Locked'
  BY <1>9 DEF End, Return
<1>10. ASSUME NEW c \in Clients, Stats(c) PROVE Locked'
  BY <1>10 DEF Stats, StatsSetTarget, clientVars
<1>11. CASE ServerCrash \/ ServerStopStart
  <2>1. TypeOK' BY StepTypeOK
  <2> QED BY <2>1, <1>11, RestartStep
<1>12. CASE UNCHANGED registryVars
  BY <1>12 DEF registryVars
<1> QED
  BY <1>1, <1>2, <1>3, <1>4, <1>5, <1>6, <1>7, <1>8, <1>9, <1>10, <1>11, <1>12
  DEF Next, Acknowledge, Drop, ClientRestart, SetCustomID, vars

(* Every entry has a secret of its own. *)
LEMMA StepIssued == Undisturbed /\ IInv /\ [Next]_vars => Issued'
<1> SUFFICES ASSUME Undisturbed, IInv, [Next]_vars PROVE Issued' OBVIOUS
<1> USE DEF IInv, Issued, Map
<1>1. ASSUME NEW p \in Handlers, NEW c \in Clients, Connect(c, p) PROVE Issued'
  BY <1>1 DEF Connect, Accept
<1>2. ASSUME NEW p \in Handlers,
            RegisterReuse(p) \/ StatsSave(p) \/ WriteTmp(p) \/ Rename(p)
              \/ SaveFails(p), UNCHANGED clientVars
     PROVE  Issued'
  BY <1>2 DEF RegisterReuse, StatsSave, WriteTmp, Rename, SaveFails, clientVars
<1>3. ASSUME NEW p \in Handlers, RegisterFresh(p), UNCHANGED clientVars PROVE Issued'
  <2>1. PICK id \in Ids, s \in Secrets \ issued :
           /\ Map[id] = Absent
           /\ Map' = [Map EXCEPT ![id] = NewEntry(s)]
           /\ NewEntry(s) # Absent /\ NewEntry(s).hash = Hash(s)
           /\ issued' = issued \cup {s}
    BY <1>3, FreshStep
  <2>2. \A i \in Ids : Map'[i] = IF i = id THEN NewEntry(s) ELSE Map[i]
    <3>1. DOMAIN Map = Ids BY DEF TypeOK, Records
    <3> HIDE DEF Map
    <3> QED BY <2>1, <3>1
  <2>3. \A i \in Ids : Map[i] # Absent => Map[i].hash # Hash(s) BY <2>1, HashFacts
  <2> HIDE DEF Map
  <2> QED BY <2>1, <2>2, <2>3
<1>4. ASSUME NEW p \in Handlers, Publish(p) \/ Reject(p) \/ End(p) PROVE Issued'
  BY <1>4 DEF Publish, Reject, Return, End
<1>5. ASSUME NEW c \in Clients, Stats(c) PROVE Issued'
  <2>1. issued' = issued BY <1>5 DEF Stats, StatsSetTarget, clientVars
  <2> HIDE DEF Map
  <2> QED BY <1>5, <2>1, StatsStep DEF Kept
<1>6. CASE ServerCrash \/ ServerStopStart
  <2>1. Kept(Load(disk), Map) BY DEF Durable
  <2> HIDE DEF Map
  <2> QED BY <2>1, <1>6, RestartStep DEF Kept
<1>7. CASE UNCHANGED registryVars
  BY <1>7 DEF registryVars
<1> QED
  BY <1>1, <1>2, <1>3, <1>4, <1>5, <1>6, <1>7
  DEF Next, Acknowledge, Drop, ClientRestart, SetCustomID, vars

(* The file never has what the map lacks, a file to be renamed has what the map has. *)
LEMMA StepDurable == Undisturbed /\ IInv /\ [Next]_vars => Durable'
<1> SUFFICES ASSUME Undisturbed, IInv, [Next]_vars PROVE Durable' OBVIOUS
<1> USE KeptFacts DEF IInv, Durable, Map
<1>1. ASSUME NEW p \in Handlers, NEW c \in Clients, Connect(c, p) PROVE Durable'
  <2>1. \A q \in Handlers : pc'[q] \in Renaming => pc[q] \in Renaming
    BY <1>1 DEF Connect, Accept, TypeOK, Renaming
  <2> QED BY <2>1, <1>1 DEF Connect, Accept
<1>2. ASSUME NEW p \in Handlers,
            RegisterReuse(p) \/ StatsSave(p) \/ SaveFails(p), UNCHANGED clientVars
     PROVE  Durable'
  <2>1. \A q \in Handlers : pc'[q] \in Renaming => pc[q] \in Renaming
    BY <1>2 DEF RegisterReuse, StatsSave, SaveFails, clientVars, TypeOK, Renaming
  <2> QED BY <2>1, <1>2 DEF RegisterReuse, StatsSave, SaveFails, clientVars
<1>3. ASSUME NEW p \in Handlers, RegisterFresh(p), UNCHANGED clientVars PROVE Durable'
  <2>1. \A q \in Handlers : pc[q] \notin Writing
    BY <1>3, FreshStep, OneWriter, RegistryAssumption
  <2>2. \A q \in Handlers : pc'[q] \notin Renaming
    BY <2>1, <1>3 DEF RegisterFresh, TypeOK, Renaming, Writing
  <2>3. Kept(Map, Map')
    <3>1. DOMAIN Map = Ids BY DEF TypeOK, Records
    <3> HIDE DEF Map
    <3> QED BY <3>1, <1>3, FreshStep DEF Kept
  <2> HIDE DEF Map
  <2> QED BY <2>2, <2>3, <1>3 DEF RegisterFresh, clientVars
<1>4. ASSUME NEW p \in Handlers, WriteTmp(p), UNCHANGED clientVars PROVE Durable'
  <2>1. gen[p] = cur BY <1>4, OneWriter DEF WriteTmp, Writing
  <2>2. tmp' = Map /\ tmp' # NoFile /\ Map' = Map
    BY <2>1, <1>4, RecordAssumption DEF WriteTmp, clientVars, TypeOK
  <2> HIDE DEF Map
  <2> QED BY <2>2, <1>4 DEF WriteTmp, clientVars
<1>5. ASSUME NEW p \in Handlers, Rename(p), UNCHANGED clientVars PROVE Durable'
  <2>1. \A q \in Handlers : pc[q] \in Writing => q = p
    BY <1>5, OneWriter DEF Rename, Writing
  <2>2. \A q \in Handlers : pc'[q] \notin Renaming
    BY <2>1, <1>5 DEF Rename, TypeOK, Renaming, Writing
  <2>3. Load(disk') = tmp /\ Kept(tmp, Map) BY <1>5 DEF Rename, Load, Renaming
  <2> QED BY <2>2, <2>3, <1>5 DEF Rename, clientVars
<1>6. ASSUME NEW p \in Handlers, Publish(p) \/ Reject(p) \/ End(p) PROVE Durable'
  <2>1. \A q \in Handlers : pc'[q] \in Renaming => pc[q] \in Renaming
    BY <1>6 DEF Publish, Reject, Return, End, TypeOK, Renaming
  <2> QED BY <2>1, <1>6 DEF Publish, Reject, Return, End
<1>7. ASSUME NEW c \in Clients, Stats(c) PROVE Durable'
  <2>1. \A q \in Handlers : pc'[q] \in Renaming => pc[q] \in Renaming
    BY <1>7 DEF Stats, StatsSetTarget, clientVars, TypeOK, Renaming
  <2>2. Kept(Map, Map') /\ Kept(Map', Map) BY <1>7, StatsStep
  <2>3. disk' = disk /\ tmp' = tmp BY <1>7 DEF Stats, StatsSetTarget, clientVars
  <2> HIDE DEF Map
  <2> QED BY <2>1, <2>2, <2>3
<1>8. CASE ServerCrash \/ ServerStopStart
  <2> HIDE DEF Map
  <2> QED BY <1>8, RestartStep DEF Renaming
<1>9. CASE UNCHANGED registryVars
  BY <1>9 DEF registryVars
<1> QED
  BY <1>1, <1>2, <1>3, <1>4, <1>5, <1>6, <1>7, <1>8, <1>9
  DEF Next, Acknowledge, Drop, ClientRestart, SetCustomID, vars

(* What Register has answered stays true. *)
LEMMA StepAnswers == Undisturbed /\ IInv /\ [Next]_vars => Answers'
<1> SUFFICES ASSUME Undisturbed, IInv, [Next]_vars PROVE Answers' OBVIOUS
<1> USE DEF IInv, Answers, Answered, Registering, Statsing
<1>1. ASSUME NEW p \in Handlers, NEW c \in Clients, Connect(c, p) PROVE Answers'
  <2>1. Map' = Map /\ disk' = disk BY <1>1 DEF Connect, Accept, Map
  <2> HIDE DEF Map
  <2> QED BY <2>1, <1>1 DEF Connect, Accept, TypeOK, NoAnswer
<1>2. ASSUME NEW p \in Handlers, RegisterReuse(p), UNCHANGED clientVars PROVE Answers'
  <2>1. Map' = Map /\ disk' = disk /\ gen[p] = cur
    BY <1>2 DEF RegisterReuse, clientVars, Map, Current, Unanswered
  <2>2. hello[p].desired \in Ids /\ Map[hello[p].desired] # Absent
    BY <2>1, <1>2, OwnershipAssumption DEF RegisterReuse, clientVars, Owns, Map, TypeOK
  <2> QED BY <2>1, <2>2, <1>2 DEF RegisterReuse, clientVars, TypeOK
<1>3. ASSUME NEW p \in Handlers, RegisterFresh(p), UNCHANGED clientVars PROVE Answers'
  <2>1. PICK id \in Ids, s \in Secrets \ issued :
           /\ Map[id] = Absent
           /\ Map' = [Map EXCEPT ![id] = NewEntry(s)]
           /\ NewEntry(s) # Absent /\ NewEntry(s).hash = Hash(s)
           /\ bound' = [bound EXCEPT ![p] = [id |-> id, secret |-> s]]
           /\ issued' = issued \cup {s}
    BY <1>3, FreshStep
  <2>2. \A q \in Handlers : pc[q] \notin Writing
    BY <1>3, FreshStep, OneWriter, RegistryAssumption
  <2>3. \A i \in Ids : Map'[i] = IF i = id THEN NewEntry(s) ELSE Map[i]
    <3>1. DOMAIN Map = Ids BY DEF TypeOK, Records, Map
    <3> QED BY <2>1, <3>1
  <2>4. Known(Map', id, s) BY <2>1, <2>3 DEF Known
  <2>5. \A q \in Handlers \ {p} : pc'[q] = pc[q] /\ bound'[q] = bound[q]
    BY <2>1, <1>3 DEF RegisterFresh, clientVars, TypeOK
  <2>6. pc'[p] = "registerWrite" /\ bound'[p] = [id |-> id, secret |-> s] /\ disk' = disk
    BY <2>1, <1>3 DEF RegisterFresh, clientVars, TypeOK
  <2>7. gen' = gen /\ cur' = cur BY <1>3 DEF RegisterFresh, clientVars
  <2> SUFFICES ASSUME NEW q \in Handlers PROVE Answered(q)' OBVIOUS
  <2>8. CASE q = p BY <2>8, <2>1, <2>4, <2>6
  <2>9. CASE q # p BY <2>9, <2>1, <2>2, <2>3, <2>5, <2>6, <2>7 DEF Writing
  <2> QED BY <2>8, <2>9
<1>4. ASSUME NEW p \in Handlers,
            StatsSave(p) \/ WriteTmp(p) \/ SaveFails(p), UNCHANGED clientVars
     PROVE  Answers'
  <2>1. Map' = Map /\ disk' = disk
    BY <1>4 DEF StatsSave, WriteTmp, SaveFails, clientVars, Map
  <2> HIDE DEF Map
  <2> QED BY <2>1, <1>4 DEF StatsSave, WriteTmp, SaveFails, clientVars, TypeOK, NoAnswer
<1>5. ASSUME NEW p \in Handlers, Rename(p), UNCHANGED clientVars PROVE Answers'
  <2>1. Map' = Map /\ issued' = issued /\ bound' = bound BY <1>5 DEF Rename, clientVars, Map
  <2>2. Kept(Load(disk), Load(disk')) BY FileGrows DEF Grows
  <2>3. Kept(Map, tmp) /\ Load(disk') = tmp
    BY <1>5 DEF Rename, clientVars, Load, Durable, Renaming
  <2>4. \A q \in Handlers \ {p} : pc'[q] = pc[q] BY <1>5 DEF Rename, clientVars, TypeOK
  <2>5. \/ pc[p] = "registerRename" /\ pc'[p] = "bound"
        \/ pc[p] = "statsRename" /\ pc'[p] = "online"
    BY <1>5 DEF Rename, clientVars, TypeOK
  <2>6. gen' = gen /\ cur' = cur BY <1>5 DEF Rename, clientVars
  <2> SUFFICES ASSUME NEW q \in Handlers PROVE Answered(q)' OBVIOUS
  <2>7. CASE q = p /\ pc[p] = "registerRename"
    BY <2>1, <2>3, <2>5, <2>6, <2>7, KeptFacts DEF Known
  <2>8. CASE q = p /\ pc[p] = "statsRename" BY <2>1, <2>5, <2>8
  <2>9. CASE q # p BY <2>1, <2>2, <2>4, <2>6, <2>9, KeptFacts
  <2> QED BY <2>5, <2>7, <2>8, <2>9
<1>6. ASSUME NEW p \in Handlers, Publish(p) \/ Reject(p) \/ End(p) PROVE Answers'
  <2>1. Map' = Map /\ disk' = disk BY <1>6 DEF Publish, Reject, Return, End, Map
  <2> HIDE DEF Map
  <2> QED BY <2>1, <1>6 DEF Publish, Reject, Return, End, TypeOK, NoAnswer
<1>7. ASSUME NEW c \in Clients, Stats(c) PROVE Answers'
  <2>1. Kept(Map, Map') BY <1>7, StatsStep
  <2>2. disk' = disk /\ issued' = issued /\ bound' = bound
    BY <1>7 DEF Stats, StatsSetTarget, clientVars
  <2>3. \A q \in Handlers :
           pc'[q] = pc[q] \/ (pc[q] = "online" /\ gen[q] = cur /\ pc'[q] = "stats")
    BY <1>7 DEF Stats, StatsSetTarget, clientVars, TypeOK, Undisturbed
  <2>4. gen' = gen /\ cur' = cur BY <1>7 DEF Stats, StatsSetTarget, clientVars
  <2> HIDE DEF Map
  <2> QED BY <2>1, <2>2, <2>3, <2>4, KeptFacts DEF Kept
<1>8. CASE ServerCrash \/ ServerStopStart
  <2> QED BY <1>8, RestartStep
<1>9. CASE UNCHANGED registryVars
  <2>1. Map' = Map /\ disk' = disk BY <1>9 DEF registryVars, Map
  <2> HIDE DEF Map
  <2> QED BY <2>1, <1>9 DEF registryVars, TypeOK, NoAnswer
<1> QED
  BY <1>1, <1>2, <1>3, <1>4, <1>5, <1>6, <1>7, <1>8, <1>9
  DEF Next, Acknowledge, Drop, ClientRestart, SetCustomID, vars

(* A handler serves one client at most. *)
LEMMA StepLinked == Undisturbed /\ IInv /\ [Next]_vars => Linked'
<1> SUFFICES ASSUME Undisturbed, IInv, [Next]_vars PROVE Linked' OBVIOUS
<1> USE RegistryAssumption DEF IInv, TypeOK, Linked, Unanswered
<1>1. ASSUME NEW p \in Handlers, NEW c \in Clients, Connect(c, p) PROVE Linked'
  BY <1>1 DEF Connect, Accept
<1>2. ASSUME NEW p \in Handlers,
            RegisterReuse(p) \/ RegisterFresh(p) \/ StatsSave(p) \/ WriteTmp(p)
              \/ Rename(p) \/ SaveFails(p), UNCHANGED clientVars
     PROVE  Linked'
  BY <1>2 DEF RegisterReuse, RegisterFresh, StatsSave, WriteTmp, Rename, SaveFails,
    clientVars
<1>3. ASSUME NEW p \in Handlers, Publish(p) \/ Reject(p) \/ End(p) PROVE Linked'
  BY <1>3 DEF Publish, Reject, Return, End
<1>4. ASSUME NEW c \in Clients,
            Acknowledge(c) \/ Drop(c) \/ ClientRestart(c) \/ SetCustomID(c)
     PROVE  Linked'
  BY <1>4 DEF Acknowledge, registryVars, Drop, ClientRestart, SetCustomID
<1>5. ASSUME NEW c \in Clients, Stats(c) PROVE Linked'
  BY <1>5 DEF Stats, StatsSetTarget, clientVars
<1>6. CASE ServerCrash \/ ServerStopStart \/ UNCHANGED vars
  BY <1>6 DEF ServerCrash, Crash, ServerStopStart, StopStart, vars, registryVars, clientVars
<1> QED
  BY <1>1, <1>2, <1>3, <1>4, <1>5, <1>6
  DEF Next

(* The owner of a secret is recognised by it, and only for the ID it was drawn for. *)
LEMMA ReuseStep ==
  ASSUME IInv, NEW p \in Handlers, RegisterReuse(p),
         NEW c \in Clients, conn[c] = p
  PROVE  hello[p].desired = cfg[c].tunnelId
<1> DEFINE d == hello[p].desired
           s == cfg[c].secret
<1> USE DEF IInv, TypeOK
<1>1. gen[p] = cur BY DEF RegisterReuse, Current, Unanswered
<1>2. d \in Ids /\ Map[d] # Absent
  BY <1>1, OwnershipAssumption DEF RegisterReuse, Owns, Map
<1>3. PICK r \in issued : Map[d].hash = Hash(r) BY <1>2 DEF Issued
<1>4. hello[p].secret = s BY RegistryAssumption DEF RegisterReuse, Reused, ReusedBy
<1>5. Map[d].hash = Hash(s)
  BY <1>1, <1>3, <1>4, HashFacts DEF RegisterReuse, Owns, verifySecret, Map
<1>6. s # NoSecret BY <1>3, <1>5, HashFacts, RegistryAssumption
<1>7. Known(Load(disk), cfg[c].tunnelId, s) BY <1>6 DEF Credentials, Own
<1>8. Known(Map, cfg[c].tunnelId, s) BY <1>7, KeptFacts DEF Durable
<1> QED BY <1>2, <1>5, <1>8 DEF Known, Issued

(* An ID that is reused is the one the client has. *)
LEMMA StepReused == Undisturbed /\ IInv /\ [Next]_vars => Reused'
<1> SUFFICES ASSUME Undisturbed, IInv, [Next]_vars PROVE Reused' OBVIOUS
<1> USE RegistryAssumption DEF IInv, TypeOK, Reused, ReusedBy, Linked, Unanswered
<1>1. ASSUME NEW p \in Handlers, NEW c \in Clients, Connect(c, p) PROVE Reused'
  BY <1>1 DEF Connect, Accept
<1>2. ASSUME NEW p \in Handlers, RegisterReuse(p), UNCHANGED clientVars PROVE Reused'
  <2> SUFFICES ASSUME NEW c \in Clients PROVE ReusedBy(c)' OBVIOUS
  <2>1. CASE conn[c] = p
    <3>1. bound'[p].id = cfg[c].tunnelId
      BY <2>1, <1>2, ReuseStep DEF RegisterReuse, clientVars
    <3> QED BY <2>1, <3>1, <1>2 DEF RegisterReuse, clientVars
  <2>2. CASE conn[c] # p BY <2>2, <1>2 DEF RegisterReuse, clientVars
  <2> QED BY <2>1, <2>2
<1>3. ASSUME NEW p \in Handlers, RegisterFresh(p), UNCHANGED clientVars PROVE Reused'
  <2>1. bound'[p].secret # NoSecret BY <1>3, FreshStep
  <2>2. \A q \in Handlers \ {p} :
           bound'[q] = bound[q] /\ pc'[q] = pc[q] /\ hello'[q] = hello[q]
    BY <1>3, FreshStep DEF RegisterFresh, clientVars
  <2>3. pc'[p] = "registerWrite" BY <1>3 DEF RegisterFresh, clientVars
  <2> QED BY <2>1, <2>2, <2>3, <1>3 DEF RegisterFresh, clientVars
<1>4. ASSUME NEW p \in Handlers,
            StatsSave(p) \/ WriteTmp(p) \/ SaveFails(p), UNCHANGED clientVars
     PROVE  Reused'
  BY <1>4 DEF StatsSave, WriteTmp, SaveFails, clientVars
<1>5. ASSUME NEW p \in Handlers, Rename(p), UNCHANGED clientVars PROVE Reused'
  <2>1. pc[p] = "registerRename" => bound[p].secret # NoSecret
    BY DEF Answers, Answered, Registering
  <2>2. pc'[p] = "bound" => pc[p] = "registerRename" BY <1>5 DEF Rename, clientVars
  <2>3. \A q \in Handlers \ {p} : pc'[q] = pc[q] BY <1>5 DEF Rename, clientVars
  <2>4. pc'[p] # "hello" BY <1>5 DEF Rename, clientVars
  <2> QED BY <2>1, <2>2, <2>3, <2>4, <1>5 DEF Rename, clientVars
<1>6. ASSUME NEW p \in Handlers, Publish(p) PROVE Reused'
  <2> SUFFICES ASSUME NEW c \in Clients PROVE ReusedBy(c)' OBVIOUS
  <2>1. CASE conn[c] = p BY <2>1, <1>6 DEF Publish, Answers, Answered
  <2>2. CASE conn[c] # p BY <2>2, <1>6 DEF Publish
  <2> QED BY <2>1, <2>2
<1>7. ASSUME NEW p \in Handlers, Reject(p) \/ End(p) PROVE Reused'
  BY <1>7 DEF Reject, Return, End
<1>8. ASSUME NEW c \in Clients, Acknowledge(c) PROVE Reused'
  <2>1. \A e \in Clients \ {c} : cfg'[e] = cfg[e] /\ inbox'[e] = inbox[e]
    BY <1>8 DEF Acknowledge, registryVars
  <2>2. inbox'[c] = NoAnswer BY <1>8 DEF Acknowledge, registryVars
  <2>3. conn[c] # Nobody => pc[conn[c]] \notin Unanswered
    BY <1>8 DEF Acknowledge, registryVars
  <2> QED BY <2>1, <2>2, <2>3, <1>8 DEF Acknowledge, registryVars
<1>9. ASSUME NEW c \in Clients, Drop(c) \/ ClientRestart(c) \/ SetCustomID(c) \/ Stats(c)
     PROVE  Reused'
  BY <1>9 DEF Drop, registryVars, ClientRestart, SetCustomID, Stats, StatsSetTarget,
    clientVars
<1>10. CASE ServerCrash \/ ServerStopStart \/ UNCHANGED vars
  BY <1>10 DEF ServerCrash, Crash, ServerStopStart, StopStart, vars, registryVars,
    clientVars
<1> QED
  BY <1>1, <1>2, <1>3, <1>4, <1>5, <1>6, <1>7, <1>8, <1>9, <1>10
  DEF Next

(* What a client has, or is about to get, is in the file. *)
LEMMA StepCredentials == Undisturbed /\ IInv /\ [Next]_vars => Credentials'
<1> SUFFICES ASSUME Undisturbed, IInv, [Next]_vars PROVE Credentials' OBVIOUS
<1> USE RegistryAssumption DEF IInv, TypeOK, Credentials, Own
<1>1. ASSUME NEW p \in Handlers, NEW c \in Clients, Connect(c, p) PROVE Credentials'
  BY <1>1 DEF Connect, Accept
<1>2. ASSUME NEW p \in Handlers,
            RegisterReuse(p) \/ StatsSave(p) \/ WriteTmp(p)
              \/ SaveFails(p), UNCHANGED clientVars
     PROVE  Credentials'
  BY <1>2 DEF RegisterReuse, StatsSave, WriteTmp, SaveFails, clientVars
<1>3. ASSUME NEW p \in Handlers, RegisterFresh(p) \/ Rename(p), UNCHANGED clientVars
     PROVE  Credentials'
  <2>1. \A i, s : Known(Load(disk), i, s) => Known(Load(disk'), i, s)
    BY FileGrows, KeptFacts DEF Grows
  <2>2. issued \subseteq issued' BY FileGrows DEF Grows
  <2>3. cfg' = cfg /\ cfgFile' = cfgFile /\ inbox' = inbox
    BY <1>3 DEF RegisterFresh, Rename, clientVars
  <2> QED BY <2>1, <2>2, <2>3
<1>4. ASSUME NEW p \in Handlers, Publish(p) PROVE Credentials'
  <2>1. \A c \in Clients : inbox'[c] = IF conn[c] = p THEN bound[p] ELSE inbox[c]
    BY <1>4 DEF Publish
  <2>2. bound[p].secret # NoSecret =>
           bound[p].secret \in issued /\ Known(Load(disk), bound[p].id, bound[p].secret)
    BY <1>4 DEF Publish, Answers, Answered
  <2> QED BY <2>1, <2>2, <1>4 DEF Publish
<1>5. ASSUME NEW p \in Handlers, Reject(p) \/ End(p) PROVE Credentials'
  BY <1>5 DEF Reject, Return, End
<1>6. ASSUME NEW c \in Clients, Acknowledge(c) PROVE Credentials'
  <2> DEFINE ack == inbox[c]
  <2>1. PICK new \in Config :
           /\ new.tunnelId = ack.id
           /\ new.secret = IF ack.secret # NoSecret THEN ack.secret ELSE cfg[c].secret
           /\ cfg' = [cfg EXCEPT ![c] = new]
           /\ cfgFile' \in {cfgFile, [cfgFile EXCEPT ![c] = new]}
    <3> DEFINE new == [cfg[c] EXCEPT !.tunnelId = ack.id,
                         !.secret = IF ack.secret # NoSecret THEN ack.secret ELSE @]
    <3>1. new \in Config /\ new.tunnelId = ack.id
            /\ new.secret = IF ack.secret # NoSecret THEN ack.secret ELSE cfg[c].secret
      BY ConfigAck
    <3>2. /\ cfg' = [cfg EXCEPT ![c] = new]
          /\ cfgFile' \in {cfgFile, [cfgFile EXCEPT ![c] = new]}
      BY <1>6 DEF Acknowledge
    <3> HIDE DEF new
    <3> QED BY <3>1, <3>2
  <2>2. Own(new)
    <3>1. CASE ack.secret # NoSecret BY <2>1, <3>1 DEF Known
    <3>2. CASE ack.secret = NoSecret
      <4>1. ack.id \in Ids /\ ack.id = cfg[c].tunnelId
        BY <3>2, <1>6 DEF Acknowledge, Reused, ReusedBy
      <4> QED BY <2>1, <3>2, <4>1
    <3> QED BY <3>1, <3>2
  <2>3. \A k : Own(k) => Own(k)' BY <1>6 DEF Acknowledge, registryVars
  <2>4. \A e \in Clients : cfg'[e] \in {cfg[e], new} /\ cfgFile'[e] \in {cfgFile[e], new}
    BY <2>1
  <2>5. inbox' = [inbox EXCEPT ![c] = NoAnswer] BY <1>6 DEF Acknowledge
  <2> HIDE DEF Own
  <2> QED BY <2>2, <2>3, <2>4, <2>5, <1>6 DEF Acknowledge, registryVars, NoAnswer
<1>7. ASSUME NEW c \in Clients, Drop(c) \/ ClientRestart(c) PROVE Credentials'
  BY <1>7 DEF Drop, registryVars, ClientRestart, NoAnswer
<1>8. ASSUME NEW c \in Clients, SetCustomID(c) PROVE Credentials'
  <2>1. PICK id \in CustomIds : cfg' = [cfg EXCEPT ![c].customId = id]
    BY <1>8 DEF SetCustomID
  <2>2. \A e \in Clients :
           cfg'[e].tunnelId = cfg[e].tunnelId /\ cfg'[e].secret = cfg[e].secret
    BY <2>1 DEF Config
  <2>3. \A e \in Clients : cfgFile'[e] \in {cfgFile[e], cfg'[e]}
    BY <2>1, <1>8 DEF SetCustomID
  <2> QED BY <2>2, <2>3, <1>8 DEF SetCustomID, registryVars
<1>9. ASSUME NEW c \in Clients, Stats(c) PROVE Credentials'
  BY <1>9 DEF Stats, StatsSetTarget, clientVars
<1>10. CASE ServerCrash \/ ServerStopStart \/ UNCHANGED vars
  BY <1>10 DEF ServerCrash, Crash, ServerStopStart, StopStart, vars, registryVars,
    clientVars
<1> QED
  BY <1>1, <1>2, <1>3, <1>4, <1>5, <1>6, <1>7, <1>8, <1>9, <1>10
  DEF Next

(* The secrets a client has, or is about to get, have all been drawn. *)
LEMMA HeldIssued ==
  ASSUME IInv, NEW c \in Clients
  PROVE  Held(c) \subseteq issued \cup {NoSecret}
<1> USE DEF IInv, TypeOK
<1>1. {cfg[c].secret, cfgFile[c].secret, inbox[c].secret} \subseteq issued \cup {NoSecret}
  BY DEF Credentials, Own
<1>2. \A q \in Handlers : pc[q] \in Registering \cup {"bound"} =>
         bound[q].secret \in issued \cup {NoSecret}
  BY DEF Answers, Answered
<1> QED BY <1>1, <1>2 DEF Held

(* A secret has a way to one client only. *)
LEMMA StepMine == Undisturbed /\ IInv /\ [Next]_vars => Mine'
<1> SUFFICES ASSUME Undisturbed, IInv, [Next]_vars PROVE Mine' OBVIOUS
<1> USE RegistryAssumption DEF IInv, TypeOK, Mine, Held, Registering
<1>1. ASSUME NEW p \in Handlers, NEW c \in Clients, Connect(c, p) PROVE Mine'
  <2>1. \A e \in Clients : Held(e)' \subseteq Held(e) \cup {NoSecret}
    BY <1>1 DEF Connect, Accept, NoAnswer
  <2> HIDE DEF Held
  <2> QED BY <2>1
<1>2. ASSUME NEW p \in Handlers,
            RegisterReuse(p) \/ StatsSave(p) \/ WriteTmp(p) \/ Rename(p)
              \/ SaveFails(p), UNCHANGED clientVars
     PROVE  Mine'
  <2>1. \A e \in Clients : Held(e)' \subseteq Held(e) \cup {NoSecret}
    BY <1>2 DEF RegisterReuse, StatsSave, WriteTmp, Rename, SaveFails, clientVars, NoAnswer
  <2> HIDE DEF Held
  <2> QED BY <2>1
<1>3. ASSUME NEW p \in Handlers, RegisterFresh(p), UNCHANGED clientVars PROVE Mine'
  <2>1. PICK s \in Secrets \ issued : \E id \in Ids :
           bound' = [bound EXCEPT ![p] = [id |-> id, secret |-> s]]
    BY <1>3, FreshStep
  <2>2. \A e \in Clients : Held(e)' \subseteq Held(e) \cup (IF conn[e] = p THEN {s} ELSE {})
    BY <2>1, <1>3 DEF RegisterFresh, clientVars
  <2>3. \A e \in Clients : s \notin Held(e) \/ s = NoSecret BY HeldIssued
  <2>4. \A a, b \in Clients : conn[a] = p /\ conn[b] = p => a = b BY DEF Linked
  <2> HIDE DEF Held
  <2> QED BY <2>2, <2>3, <2>4
<1>4. ASSUME NEW p \in Handlers, Publish(p) PROVE Mine'
  <2>1. \A e \in Clients : Held(e)' \subseteq Held(e) \cup {NoSecret}
    BY <1>4 DEF Publish, NoAnswer
  <2> HIDE DEF Held
  <2> QED BY <2>1
<1>5. ASSUME NEW p \in Handlers, Reject(p) PROVE Mine'
  <2>1. \A e \in Clients : Held(e)' \subseteq Held(e) \cup {NoSecret}
    BY <1>5 DEF Reject, Return, NoAnswer
  <2> HIDE DEF Held
  <2> QED BY <2>1
<1>6. ASSUME NEW p \in Handlers, End(p) PROVE Mine'
  <2>1. \A e \in Clients : Held(e)' \subseteq Held(e) \cup {NoSecret}
    BY <1>6 DEF End, Return, NoAnswer
  <2> HIDE DEF Held
  <2> QED BY <2>1
<1>7. ASSUME NEW c \in Clients, Acknowledge(c) PROVE Mine'
  <2>1. \A e \in Clients :
           /\ cfg'[e].secret \in {cfg[e].secret, inbox[e].secret}
           /\ cfgFile'[e].secret \in {cfg[e].secret, cfgFile[e].secret, inbox[e].secret}
    <3> DEFINE new == [cfg[c] EXCEPT !.tunnelId = inbox[c].id,
                         !.secret = IF inbox[c].secret # NoSecret THEN inbox[c].secret ELSE @]
    <3>1. new.secret \in {cfg[c].secret, inbox[c].secret} BY ConfigAck
    <3>2. /\ cfg' = [cfg EXCEPT ![c] = new]
          /\ cfgFile' \in {cfgFile, [cfgFile EXCEPT ![c] = new]}
      BY <1>7 DEF Acknowledge
    <3> HIDE DEF new
    <3> QED BY <3>1, <3>2
  <2>2. inbox' = [inbox EXCEPT ![c] = NoAnswer] BY <1>7 DEF Acknowledge
  <2>3. \A e \in Clients : Held(e)' \subseteq Held(e) \cup {NoSecret}
    BY <2>1, <2>2, <1>7 DEF Acknowledge, registryVars, NoAnswer
  <2> HIDE DEF Held
  <2> QED BY <2>3
<1>8. ASSUME NEW c \in Clients, Drop(c) PROVE Mine'
  <2>1. \A e \in Clients : Held(e)' \subseteq Held(e) \cup {NoSecret}
    BY <1>8 DEF Drop, registryVars, NoAnswer
  <2> HIDE DEF Held
  <2> QED BY <2>1
<1>9. ASSUME NEW c \in Clients, ClientRestart(c) PROVE Mine'
  <2>1. \A e \in Clients : Held(e)' \subseteq Held(e) \cup {NoSecret}
    BY <1>9 DEF ClientRestart, registryVars, NoAnswer
  <2> HIDE DEF Held
  <2> QED BY <2>1
<1>10. ASSUME NEW c \in Clients, SetCustomID(c) PROVE Mine'
  <2>1. PICK id \in CustomIds : cfg' = [cfg EXCEPT ![c].customId = id]
    BY <1>10 DEF SetCustomID
  <2>2. \A e \in Clients : cfg'[e].secret = cfg[e].secret BY <2>1 DEF Config
  <2>3. \A e \in Clients : cfgFile'[e] \in {cfgFile[e], cfg'[e]}
    BY <2>1, <1>10 DEF SetCustomID
  <2>4. \A e \in Clients : Held(e)' \subseteq Held(e) \cup {NoSecret}
    BY <2>2, <2>3, <1>10 DEF SetCustomID, registryVars
  <2> HIDE DEF Held
  <2> QED BY <2>4
<1>11. ASSUME NEW c \in Clients, Stats(c) PROVE Mine'
  <2>1. \A e \in Clients : Held(e)' \subseteq Held(e) \cup {NoSecret}
    BY <1>11 DEF Stats, StatsSetTarget, clientVars, NoAnswer
  <2> HIDE DEF Held
  <2> QED BY <2>1
<1>12. CASE ServerCrash \/ ServerStopStart \/ UNCHANGED vars
  <2>1. \A e \in Clients : Held(e)' \subseteq Held(e) \cup {NoSecret}
    BY <1>12 DEF ServerCrash, Crash, ServerStopStart, StopStart, vars, registryVars,
      clientVars, NoAnswer
  <2> HIDE DEF Held
  <2> QED BY <2>1
<1> QED
  BY <1>1, <1>2, <1>3, <1>4, <1>5, <1>6, <1>7, <1>8, <1>9, <1>10, <1>11, <1>12
  DEF Next

(* A file that is renamed lacks nothing but what is still to be saved. *)
LEMMA StepFresh == Undisturbed /\ IInv /\ [Next]_vars => Fresh'
<1> SUFFICES ASSUME Undisturbed, IInv, [Next]_vars PROVE Fresh' OBVIOUS
<1> USE DEF IInv, TypeOK, Fresh
<1>1. ASSUME NEW p \in Handlers, NEW c \in Clients, Connect(c, p) PROVE Fresh'
  <2>1. \A q \in Handlers : pc'[q] \in Renaming => pc[q] \in Renaming
    BY <1>1 DEF Connect, Accept, Renaming
  <2>2. \A q \in Handlers : pc[q] = "stats" => pc'[q] = "stats" BY <1>1 DEF Connect, Accept
  <2>3. tmp' = tmp /\ Map' = Map BY <1>1 DEF Connect, Accept, Map
  <2> QED BY <2>1, <2>2, <2>3
<1>2. ASSUME NEW p \in Handlers, RegisterReuse(p) \/ SaveFails(p), UNCHANGED clientVars
     PROVE  Fresh'
  <2>1. \A q \in Handlers : pc'[q] \in Renaming => pc[q] \in Renaming
    BY <1>2 DEF RegisterReuse, SaveFails, clientVars, Renaming
  <2>2. \A q \in Handlers : pc[q] = "stats" => pc'[q] = "stats"
    BY <1>2 DEF RegisterReuse, SaveFails, clientVars
  <2>3. tmp' = tmp /\ Map' = Map BY <1>2 DEF RegisterReuse, SaveFails, clientVars, Map
  <2> QED BY <2>1, <2>2, <2>3
<1>3. ASSUME NEW p \in Handlers, RegisterFresh(p), UNCHANGED clientVars PROVE Fresh'
  <2>1. \A q \in Handlers : pc[q] \notin Writing
    BY <1>3, FreshStep, OneWriter, RegistryAssumption
  <2> QED BY <2>1, <1>3 DEF RegisterFresh, clientVars, Renaming, Writing
<1>4. ASSUME NEW p \in Handlers, StatsSave(p), UNCHANGED clientVars PROVE Fresh'
  <2>1. gen[p] = cur BY <1>4 DEF StatsSave, clientVars, Current, Statsing
  <2>2. \A q \in Handlers : pc[q] \notin Writing
    BY <2>1, <1>4, OneWriter, RegistryAssumption DEF StatsSave, clientVars
  <2> QED BY <2>2, <1>4 DEF StatsSave, clientVars, Renaming, Writing
<1>5. ASSUME NEW p \in Handlers, WriteTmp(p), UNCHANGED clientVars PROVE Fresh'
  <2>1. gen[p] = cur BY <1>5, OneWriter DEF WriteTmp, clientVars, Writing
  <2>2. tmp' = Map' BY <2>1, <1>5 DEF WriteTmp, clientVars, Map
  <2> QED BY <2>2
<1>6. ASSUME NEW p \in Handlers, Rename(p), UNCHANGED clientVars PROVE Fresh'
  <2>1. \A q \in Handlers : pc[q] \in Writing => q = p
    BY <1>6, OneWriter DEF Rename, clientVars, Writing
  <2>2. \A q \in Handlers : pc'[q] \notin Renaming
    BY <2>1, <1>6 DEF Rename, clientVars, Renaming, Writing
  <2> QED BY <2>2
<1>7. ASSUME NEW p \in Handlers, Publish(p) \/ Reject(p) \/ End(p) PROVE Fresh'
  <2>1. \A q \in Handlers : pc'[q] \in Renaming => pc[q] \in Renaming
    BY <1>7 DEF Publish, Reject, Return, End, Renaming
  <2>2. \A q \in Handlers : pc[q] = "stats" => pc'[q] = "stats"
    BY <1>7 DEF Publish, Reject, Return, End
  <2>3. tmp' = tmp /\ Map' = Map BY <1>7 DEF Publish, Reject, Return, End, Map
  <2> QED BY <2>1, <2>2, <2>3
<1>8. ASSUME NEW c \in Clients, Stats(c) PROVE Fresh'
  <2>1. pc'[conn[c]] = "stats" /\ conn[c] \in Handlers
    BY <1>8 DEF Stats, StatsSetTarget, clientVars
  <2> QED BY <2>1
<1>9. CASE ServerCrash \/ ServerStopStart
  BY <1>9, RestartStep DEF Renaming
<1>10. CASE UNCHANGED registryVars
  <2>1. \A q \in Handlers : pc'[q] \in Renaming => pc[q] \in Renaming
    BY <1>10 DEF registryVars, Renaming
  <2>2. \A q \in Handlers : pc[q] = "stats" => pc'[q] = "stats" BY <1>10 DEF registryVars
  <2>3. tmp' = tmp /\ Map' = Map BY <1>10 DEF registryVars, Map
  <2> QED BY <2>1, <2>2, <2>3
<1> QED
  BY <1>1, <1>2, <1>3, <1>4, <1>5, <1>6, <1>7, <1>8, <1>9, <1>10
  DEF Next, Acknowledge, Drop, ClientRestart, SetCustomID, vars

(* A save that is not failed and not under way has reached the file. *)
LEMMA StepReaches == Undisturbed /\ IInv /\ [Next]_vars => MemoryReachesDisk'
<1> SUFFICES ASSUME Undisturbed, IInv, [Next]_vars PROVE MemoryReachesDisk' OBVIOUS
<1> USE RegistryAssumption DEF IInv, TypeOK, MemoryReachesDisk
<1>1. ASSUME NEW p \in Handlers, NEW c \in Clients, Connect(c, p) PROVE MemoryReachesDisk'
  <2>1. pc[p] \notin Writing BY <1>1 DEF Connect, Accept, Writing
  <2>2. mu[cur] # p BY <2>1 DEF Locked
  <2> QED BY <2>2, <1>1 DEF Connect, Accept
<1>2. ASSUME NEW p \in Handlers, RegisterReuse(p) \/ WriteTmp(p), UNCHANGED clientVars
     PROVE  MemoryReachesDisk'
  BY <1>2 DEF RegisterReuse, WriteTmp, clientVars
<1>3. ASSUME NEW p \in Handlers, RegisterFresh(p), UNCHANGED clientVars
     PROVE  MemoryReachesDisk'
  <2>1. gen[p] = cur BY <1>3, FreshStep
  <2> QED BY <2>1, <1>3 DEF RegisterFresh, clientVars
<1>4. ASSUME NEW p \in Handlers, StatsSave(p), UNCHANGED clientVars
     PROVE  MemoryReachesDisk'
  <2>1. gen[p] = cur BY <1>4 DEF StatsSave, clientVars, Current, Statsing
  <2> QED BY <2>1, <1>4 DEF StatsSave, clientVars
<1>5. ASSUME NEW p \in Handlers, Rename(p), UNCHANGED clientVars PROVE MemoryReachesDisk'
  <2>1. gen[p] = cur BY <1>5, OneWriter DEF Rename, clientVars, Writing
  <2>2. Load(disk') = tmp BY <1>5 DEF Rename, clientVars, Load
  <2>3. CASE tmp = Map BY <2>2, <2>3, <1>5 DEF Rename, clientVars, Map
  <2>4. ASSUME NEW q \in Handlers, pc[q] = "stats" PROVE MemoryReachesDisk'
    <3>1. gen[q] = cur BY <2>4 DEF Current, Statsing
    <3>2. q # p BY <2>4, <1>5 DEF Rename, clientVars
    <3> QED BY <2>4, <3>1, <3>2, <1>5 DEF Rename, clientVars
  <2> QED BY <2>3, <2>4, <1>5 DEF Rename, clientVars, Fresh, Renaming
<1>6. ASSUME NEW p \in Handlers, SaveFails(p), UNCHANGED clientVars
     PROVE  MemoryReachesDisk'
  <2>1. gen[p] = cur BY <1>6, OneWriter DEF SaveFails, clientVars, Writing
  <2> QED BY <2>1, <1>6 DEF SaveFails, clientVars
<1>7. ASSUME NEW p \in Handlers, Publish(p) PROVE MemoryReachesDisk'
  BY <1>7 DEF Publish
<1>8. ASSUME NEW p \in Handlers, Reject(p) \/ End(p) PROVE MemoryReachesDisk'
  <2>1. pc[p] \notin Writing BY <1>8 DEF Reject, Return, End, Writing
  <2>2. mu[cur] # p BY <2>1 DEF Locked
  <2> QED BY <2>2, <1>8 DEF Reject, Return, End
<1>9. ASSUME NEW c \in Clients, Stats(c) PROVE MemoryReachesDisk'
  <2> DEFINE q == conn[c]
  <2>1. q \in Handlers BY <1>9 DEF Stats
  <2>2. gen[q] = cur BY <1>9 DEF Stats, Undisturbed
  <2> QED BY <2>1, <2>2, <1>9 DEF Stats, StatsSetTarget, clientVars
<1>10. CASE ServerCrash \/ ServerStopStart
  BY <1>10, RestartStep DEF Map
<1>11. CASE UNCHANGED registryVars
  BY <1>11 DEF registryVars
<1> QED
  BY <1>1, <1>2, <1>3, <1>4, <1>5, <1>6, <1>7, <1>8, <1>9, <1>10, <1>11
  DEF Next, Acknowledge, Drop, ClientRestart, SetCustomID, vars

(* The invariant holds of a server that has just been installed. *)
LEMMA InitIInv == Init => IInv
<1> SUFFICES ASSUME Init PROVE IInv OBVIOUS
<1> USE RegistryAssumption DEF Init, InitRegistry, NoHello, NoAnswer
<1>1. TypeOK
  <2>1. None \in Records /\ 1 \in Gens BY DEF None, Records, Gens
  <2> QED BY <2>1 DEF TypeOK, Config
<1>2. Map = None /\ Load(disk) = None BY DEF Map, Load, Gens
<1>3. Current /\ Locked
  BY DEF Current, Locked, Unanswered, Statsing, Writing
<1>4. Issued /\ Durable BY <1>2 DEF Issued, Durable, Kept, None, Renaming
<1>5. Answers /\ Linked
  BY DEF Answers, Answered, Linked, Registering, Statsing, Unanswered
<1>6. Reused /\ Mine BY DEF Reused, ReusedBy, Mine, Held, Registering
<1>7. Credentials BY DEF Credentials, Own
<1>8. Fresh /\ MemoryReachesDisk BY <1>2 DEF Fresh, Renaming, MemoryReachesDisk, Map
<1> QED BY <1>1, <1>3, <1>4, <1>5, <1>6, <1>7, <1>8 DEF IInv

(* The invariant holds at all times. *)
THEOREM Invariance == Undisturbed => (Spec => []IInv)
<1> SUFFICES ASSUME Undisturbed PROVE Spec => []IInv OBVIOUS
<1>1. IInv /\ [Next]_vars => IInv'
  BY StepTypeOK, StepCurrent, StepLocked, StepIssued, StepDurable, StepAnswers, StepLinked,
     StepReused, StepCredentials, StepMine, StepFresh, StepReaches
  DEF IInv
<1> QED BY InitIInv, <1>1, PTL DEF Spec

(***************************************************************************)
(* The maps, files, hellos and answers keep their types: in particular a   *)
(* stats frame only ever sets the target of an entry that the map has      *)
(* (readLoop, Tunnel.SetTarget).                                           *)
(***************************************************************************)
THEOREM TypeCorrect == Undisturbed => (Spec => []TypeOK)
BY Invariance, PTL DEF IInv

(* Every ID and secret that reached a client is in tunnels.json. *)
LEMMA CredentialsHonoured == ASSUME IInv PROVE AckedCredentialsSurvive
<1> SUFFICES ASSUME NEW k, Own(k), k.tunnelId # NoId PROVE Honoured(k)
  BY DEF IInv, Credentials, AckedCredentialsSurvive
<1>1. k.tunnelId \in Ids /\ Load(disk)[k.tunnelId] # Absent
        /\ Load(disk)[k.tunnelId].hash = Hash(k.secret)
  BY DEF Own, Known
<1>2. disk # NoFile /\ Load(disk) = disk BY <1>1 DEF Load, None
<1> QED BY <1>1, <1>2, HashFacts DEF Honoured, verifySecret

(***************************************************************************)
(* The server never forgets what it acknowledged, for any clients, IDs and *)
(* secrets: no crash, lost answer or failed save takes an ID away from a   *)
(* client that has its secret (Register, saveLocked, connect).             *)
(***************************************************************************)
THEOREM CredentialsSurvive == Undisturbed => (Spec => []AckedCredentialsSurvive)
BY Invariance, CredentialsHonoured, PTL

(* Two clients with the same ID would have the same secret. *)
LEMMA OneOwner == ASSUME IInv PROVE SoleOwner
<1> SUFFICES ASSUME NEW a \in Clients, NEW b \in Clients, a # b,
                    NEW k \in {cfg[a], cfgFile[a]}, NEW l \in {cfg[b], cfgFile[b]},
                    k.tunnelId # NoId, k.tunnelId = l.tunnelId
             PROVE  FALSE
  BY DEF SoleOwner
<1>1. Own(k) /\ Own(l) BY DEF IInv, Credentials
<1>2. Hash(k.secret) = Hash(l.secret) BY <1>1 DEF Own, Known
<1>3. k.secret = l.secret BY <1>2, HashFacts
<1>4. k.secret \in Held(a) /\ l.secret \in Held(b) BY DEF Held
<1> QED BY <1>1, <1>3, <1>4 DEF Own, Mine, IInv

(***************************************************************************)
(* No two clients ever hold the same tunnel ID, however many there are,    *)
(* whatever they ask for and whatever is lost between them and the server  *)
(* (Register's ownership check).                                           *)
(***************************************************************************)
THEOREM NoSharedTunnel == Undisturbed => (Spec => []SoleOwner)
BY Invariance, OneOwner, PTL

(***************************************************************************)
(* Once every save has ended and none has failed since the last that       *)
(* succeeded, tunnels.json agrees with the map, for any number of sessions *)
(* that set targets without the mutex (stats, saveLocked).                 *)
(***************************************************************************)
THEOREM DiskAgrees == Undisturbed => (Spec => []MemoryReachesDisk)
BY Invariance, PTL DEF IInv

(***************************************************************************)
(* A saved ID is never dropped from tunnels.json and its secret hash never *)
(* changes, whichever saves fail or are cut short (saveLocked).            *)
(***************************************************************************)
THEOREM FileKept == Undisturbed => (Spec => EntriesKept)
<1> SUFFICES ASSUME Undisturbed PROVE Spec => EntriesKept OBVIOUS
<1> DEFINE Keeps == \A id \in Ids : Load(disk)[id] # Absent =>
                       /\ Load(disk')[id] # Absent
                       /\ Load(disk')[id].hash = Load(disk)[id].hash
<1>1. IInv /\ [Next]_vars => [Keeps]_disk BY FileGrows DEF Grows, Kept
<1> QED BY <1>1, Invariance, PTL DEF Spec, EntriesKept
=============================================================================
