---------------------------- MODULE StreamsProofs ---------------------------
(***************************************************************************)
(* Theorems about Streams, for any number of users, calls, ids, Streams   *)
(* and updates.                                                            *)
(***************************************************************************)
EXTENDS Streams, FiniteSetTheorems, TLAPS

-----------------------------------------------------------------------------
(* The inductive invariant                                                 *)

(* A user has a handle from the end of AddStream to the end of RemoveStream. *)
HandlePlaces == {"holding", "told", "unsubscribe"}

(* Every Stream has an id, or is not allocated yet.                         *)
StreamsTyped ==
  /\ DOMAIN stream = Streams
  /\ \A s \in Streams : /\ "id" \in DOMAIN stream[s]
                        /\ stream[s].id \in Ids \cup {None}

(* The registry knows a Stream by its own id.                               *)
RegistryTyped ==
  /\ byID \in [Ids -> Streams \cup {None}]
  /\ \A i \in Ids : byID[i] # None => stream[byID[i]].id = i

UsersTyped ==
  /\ pc \in [Users -> Places]
  /\ DOMAIN id = Users /\ DOMAIN handle = Users
  /\ DOMAIN running = Calls
  /\ \A u \in Users :
       /\ pc[u] = "register" => id[u] \in Ids
       /\ pc[u] \in HandlePlaces =>
            handle[u] \in Streams /\ stream[handle[u]].id \in Ids

(* The game streams id i, as far as anything is still streamed.             *)
Streamed(i) == closed \/ \E c \in Calls : running[c] = i
StreamedNext(i) == closed' \/ \E c \in Calls : running'[c] = i

(* Between its call and the registration a user counts on the game to go    *)
(* on; after Forget it is nobody's business any more.                       *)
InBetween ==
  \A u \in Users :
    /\ pc[u] = "register" /\ id[u] \notin removed => Streamed(id[u])
    /\ pc[u] = "unsubscribe" => stream[handle[u]].id \in removed

SInv ==
  StreamsTyped /\ RegistryTyped /\ UsersTyped /\ InBetween /\ HoldersAreFed

LEMMA InitSInv == Init => SInv
BY DEF Init, SInv, StreamsTyped, RegistryTyped, UsersTyped, InBetween,
       HoldersAreFed, Holding, HandlePlaces, Places, NewStream, None

-----------------------------------------------------------------------------
(* The steps of the users                                                  *)

LEMMA AddStreamInv ==
  ASSUME SInv, NEW u \in Users, NEW c \in Calls, AddStream(u, c)
  PROVE  SInv'
<1> DEFINE i == IF running[c] # None THEN running[c] ELSE nextId
<1>1. PICK o \in Outcomes :
        /\ o.done => i \in Ids
        /\ IF o.done
             THEN running' = [running EXCEPT ![c] = i]
             ELSE UNCHANGED running
        /\ IF o.ok THEN /\ Goto(u, "register")
                        /\ id' = [id EXCEPT ![u] = i]
                   ELSE UNCHANGED <<pc, id>>
  BY DEF AddStream, serverVars
<1>2. o.ok => o.done
  BY DEF Outcomes
<1>3. UNCHANGED <<handle, removed, closed, byID, stream>> /\ pc[u] = "idle"
  BY DEF AddStream
<1>4. (running[c] # None => i = running[c]) /\ None \notin Ids
  BY DEF None, Ids
<1> HIDE DEF i
<1>5. DOMAIN running' = Calls /\ \A j \in Ids : Streamed(j) => StreamedNext(j)
  BY <1>1, <1>3, <1>4 DEF SInv, UsersTyped, Streamed, StreamedNext
<1>6. o.done => StreamedNext(i)
  BY <1>1 DEF SInv, UsersTyped, Streamed, StreamedNext
<1>7. \A v \in Users : v # u => pc'[v] = pc[v] /\ id'[v] = id[v]
  BY <1>1 DEF Goto, SInv, UsersTyped
<1>8. \/ o.ok /\ pc'[u] = "register" /\ id'[u] = i
      \/ pc'[u] = "idle"
  BY <1>1, <1>3 DEF Goto, SInv, UsersTyped
<1>9. StreamsTyped' /\ RegistryTyped'
  BY <1>3 DEF SInv, StreamsTyped, RegistryTyped
<1>10. UsersTyped'
  <2>1. pc' \in [Users -> Places] /\ DOMAIN id' = Users
    BY <1>1 DEF Goto, SInv, UsersTyped, Places
  <2>2. QED
    BY <1>1, <1>2, <1>3, <1>5, <1>7, <1>8, <2>1
       DEF SInv, UsersTyped, HandlePlaces
<1>11. InBetween'
  <2> SUFFICES ASSUME NEW v \in Users
               PROVE  /\ pc'[v] = "register" /\ id'[v] \notin removed
                           => StreamedNext(id'[v])
                      /\ pc'[v] = "unsubscribe"
                           => stream[handle[v]].id \in removed
    BY <1>3 DEF InBetween, Streamed, StreamedNext
  <2>1. CASE v = u
    BY <1>2, <1>6, <1>8, <2>1
  <2>2. CASE v # u
    BY <1>5, <1>7, <2>2 DEF SInv, UsersTyped, InBetween
  <2>3. QED
    BY <2>1, <2>2
<1>12. HoldersAreFed'
  BY <1>3, <1>5, <1>7, <1>8
     DEF SInv, UsersTyped, HoldersAreFed, Holding, Registered, Streamed,
         StreamedNext, HandlePlaces
<1>13. QED
  BY <1>9, <1>10, <1>11, <1>12 DEF SInv

LEMMA RegisterInv ==
  ASSUME SInv, NEW u \in Users, Register(u)
  PROVE  SInv'
<1> DEFINE i == id[u]
<1>1. /\ pc[u] = "register" /\ i \in Ids
      /\ UNCHANGED <<id, removed, running, closed>>
      /\ pc' = [pc EXCEPT ![u] = "holding"]
  BY DEF Register, Goto, SInv, UsersTyped, serverVars
<1>2. PICK s \in Streams :
        /\ \/ s = byID[i] /\ UNCHANGED <<stream, byID>>
           \/ /\ byID[i] = None /\ Unused(s)
              /\ stream' = [stream EXCEPT ![s] = NewStream(i)]
              /\ byID' = [byID EXCEPT ![i] = s]
        /\ handle' = [handle EXCEPT ![u] = s]
  BY DEF Register
<1>3. \A v \in Users : v # u => pc'[v] = pc[v] /\ handle'[v] = handle[v]
  BY <1>1, <1>2 DEF SInv, UsersTyped
<1>4. pc'[u] = "holding" /\ handle'[u] = s
  BY <1>1, <1>2 DEF SInv, UsersTyped
<1>5. None \notin Ids /\ None \notin Streams
  BY DEF None, Ids, Streams
<1>6. /\ StreamsTyped'
      /\ \A t \in Streams : stream[t].id # None => stream'[t].id = stream[t].id
      /\ stream'[s].id = i /\ byID'[i] = s
  <2>1. CASE s = byID[i] /\ UNCHANGED <<stream, byID>>
    BY <1>1, <1>5, <2>1 DEF SInv, StreamsTyped, RegistryTyped
  <2>2. CASE /\ byID[i] = None /\ Unused(s)
             /\ stream' = [stream EXCEPT ![s] = NewStream(i)]
             /\ byID' = [byID EXCEPT ![i] = s]
    <3>1. /\ "id" \in DOMAIN NewStream(i)
          /\ NewStream(i).id = i
      BY DEF NewStream
    <3>2. QED
      BY <1>1, <2>2, <3>1 DEF SInv, StreamsTyped, RegistryTyped, Unused
  <2>3. QED
    BY <1>2, <2>1, <2>2
<1>7. /\ byID' \in [Ids -> Streams \cup {None}]
      /\ \A j \in Ids : j # i => byID'[j] = byID[j]
      /\ byID[i] # None => byID'[i] = byID[i]
  BY <1>1, <1>2 DEF SInv, RegistryTyped
<1>8. RegistryTyped'
  BY <1>5, <1>6, <1>7 DEF SInv, RegistryTyped
<1> HIDE DEF i
<1>9. UsersTyped'
  <2>1. /\ pc' \in [Users -> Places] /\ DOMAIN handle' = Users
        /\ DOMAIN id' = Users /\ DOMAIN running' = Calls
    BY <1>1, <1>2 DEF SInv, UsersTyped, Places
  <2>2. \A v \in Users : v # u =>
          /\ pc'[v] = "register" => id'[v] \in Ids
          /\ pc'[v] \in HandlePlaces =>
               handle'[v] \in Streams /\ stream'[handle'[v]].id \in Ids
    BY <1>1, <1>3, <1>5, <1>6 DEF SInv, UsersTyped
  <2>3. QED
    BY <1>1, <1>4, <1>6, <2>1, <2>2 DEF UsersTyped, HandlePlaces
<1>10. InBetween'
  <2> SUFFICES ASSUME NEW v \in Users
               PROVE  /\ pc'[v] = "register" /\ id'[v] \notin removed'
                           => StreamedNext(id'[v])
                      /\ pc'[v] = "unsubscribe"
                           => stream'[handle'[v]].id \in removed'
    BY DEF InBetween, Streamed, StreamedNext
  <2>1. CASE v = u
    BY <1>4, <2>1
  <2>2. CASE v # u
    BY <1>1, <1>3, <1>5, <1>6, <2>2
       DEF SInv, UsersTyped, InBetween, Streamed, StreamedNext, HandlePlaces
  <2>3. QED
    BY <2>1, <2>2
<1>11. HoldersAreFed'
  <2> SUFFICES ASSUME NEW v \in Users, pc'[v] \in {"holding", "told"},
                      stream'[handle'[v]].id \notin removed'
               PROVE  /\ stream'[handle'[v]].id # None
                      /\ byID'[stream'[handle'[v]].id] = handle'[v]
                      /\ StreamedNext(stream'[handle'[v]].id)
    BY DEF HoldersAreFed, Holding, Registered, Streamed, StreamedNext
  <2>1. CASE v = u
    BY <1>1, <1>4, <1>5, <1>6, <2>1
       DEF i, SInv, InBetween, Streamed, StreamedNext
  <2>2. CASE v # u
    <3>1. /\ handle[v] \in Streams /\ stream[handle[v]].id \in Ids
          /\ pc[v] \in {"holding", "told"} /\ handle'[v] = handle[v]
      BY <1>3, <2>2 DEF SInv, UsersTyped, HandlePlaces
    <3>2. stream'[handle'[v]].id = stream[handle[v]].id
      BY <1>5, <1>6, <3>1
    <3>3. /\ byID[stream[handle[v]].id] = handle[v]
          /\ Streamed(stream[handle[v]].id)
      BY <1>1, <3>1, <3>2
         DEF SInv, HoldersAreFed, Holding, Registered, Streamed, StreamedNext
    <3>4. byID'[stream[handle[v]].id] = handle[v]
      BY <1>5, <1>7, <3>1, <3>3
    <3>5. QED
      BY <1>1, <1>5, <3>1, <3>2, <3>3, <3>4 DEF Streamed, StreamedNext
  <2>3. QED
    BY <2>1, <2>2
<1>12. QED
  BY <1>6, <1>8, <1>9, <1>10, <1>11 DEF SInv

LEMMA WaitReadyInv ==
  ASSUME SInv, NEW u \in Users, WaitReady(u)
  PROVE  SInv'
<1>1. /\ pc[u] = "holding" /\ pc' = [pc EXCEPT ![u] = "told"]
      /\ UNCHANGED <<id, handle, removed, running, closed, byID, stream>>
  BY DEF WaitReady, Goto, serverVars
<1>2. \A v \in Users : pc'[v] = IF v = u THEN "told" ELSE pc[v]
  BY <1>1 DEF SInv, UsersTyped
<1>3. UsersTyped'
  BY <1>1, <1>2 DEF SInv, UsersTyped, HandlePlaces, Places
<1>4. HoldersAreFed'
  BY <1>1, <1>2 DEF SInv, HoldersAreFed, Holding, Registered
<1>5. QED
  BY <1>1, <1>2, <1>3, <1>4
     DEF SInv, StreamsTyped, RegistryTyped, InBetween, Streamed, StreamedNext

LEMMA ForgetInv ==
  ASSUME SInv, NEW u \in Users, Forget(u)
  PROVE  SInv'
<1> DEFINE i == stream[handle[u]].id
<1>1. /\ pc[u] \in {"holding", "told"}
      /\ pc' = [pc EXCEPT ![u] = "unsubscribe"]
      /\ byID' = [byID EXCEPT ![i] = None]
      /\ removed' = removed \cup {i}
      /\ UNCHANGED <<id, handle, running, closed, stream>>
  BY DEF Forget, Goto, serverVars
<1>2. i \in Ids
  BY <1>1 DEF SInv, UsersTyped, HandlePlaces
<1>3. \A v \in Users : pc'[v] = IF v = u THEN "unsubscribe" ELSE pc[v]
  BY <1>1 DEF SInv, UsersTyped
<1>4. /\ byID' \in [Ids -> Streams \cup {None}]
      /\ \A j \in Ids : byID'[j] = IF j = i THEN None ELSE byID[j]
  BY <1>1, <1>2 DEF SInv, RegistryTyped
<1>5. StreamsTyped' /\ RegistryTyped'
  BY <1>1, <1>4 DEF SInv, StreamsTyped, RegistryTyped
<1>6. UsersTyped'
  BY <1>1, <1>3 DEF SInv, UsersTyped, HandlePlaces, Places
<1>7. InBetween'
  BY <1>1, <1>3 DEF SInv, InBetween, Streamed, StreamedNext
<1>8. HoldersAreFed'
  BY <1>1, <1>3, <1>4
     DEF SInv, HoldersAreFed, Holding, Registered, UsersTyped, HandlePlaces
<1>9. QED
  BY <1>5, <1>6, <1>7, <1>8 DEF SInv

LEMMA RemoveStreamInv ==
  ASSUME SInv, NEW u \in Users, RemoveStream(u)
  PROVE  SInv'
<1> DEFINE i == stream[handle[u]].id
<1>1. /\ pc[u] = "unsubscribe" /\ pc' = [pc EXCEPT ![u] = "idle"]
      /\ handle' = [handle EXCEPT ![u] = None]
      /\ id' = [id EXCEPT ![u] = None]
      /\ UNCHANGED <<removed, closed, byID, stream>>
      /\ \/ UNCHANGED running
         \/ running' = [c \in Calls |-> IF running[c] = i THEN None
                                        ELSE running[c]]
  BY DEF RemoveStream, Goto
<1>2. i \in removed
  BY <1>1 DEF SInv, InBetween
<1>3. DOMAIN running' = Calls
      /\ \A j \in Ids : j \notin removed => (Streamed(j) => StreamedNext(j))
  BY <1>1, <1>2 DEF SInv, UsersTyped, Streamed, StreamedNext
<1>4. \A v \in Users : v # u =>
        pc'[v] = pc[v] /\ handle'[v] = handle[v] /\ id'[v] = id[v]
  BY <1>1 DEF SInv, UsersTyped
<1>5. pc'[u] = "idle"
  BY <1>1 DEF SInv, UsersTyped
<1>6. StreamsTyped' /\ RegistryTyped'
  BY <1>1 DEF SInv, StreamsTyped, RegistryTyped
<1>7. UsersTyped'
  <2>1. /\ pc' \in [Users -> Places] /\ DOMAIN handle' = Users
        /\ DOMAIN id' = Users
    BY <1>1 DEF SInv, UsersTyped, Places
  <2>2. QED
    BY <1>1, <1>3, <1>4, <1>5, <2>1 DEF SInv, UsersTyped, HandlePlaces
<1>8. InBetween'
  <2> SUFFICES ASSUME NEW v \in Users
               PROVE  /\ pc'[v] = "register" /\ id'[v] \notin removed
                           => StreamedNext(id'[v])
                      /\ pc'[v] = "unsubscribe"
                           => stream[handle'[v]].id \in removed
    BY <1>1 DEF InBetween, Streamed, StreamedNext
  <2>1. CASE v = u
    BY <1>5, <2>1
  <2>2. CASE v # u
    BY <1>3, <1>4, <2>2 DEF SInv, UsersTyped, InBetween
  <2>3. QED
    BY <2>1, <2>2
<1>9. HoldersAreFed'
  BY <1>1, <1>3, <1>4, <1>5
     DEF SInv, UsersTyped, HoldersAreFed, Holding, Registered, Streamed,
         StreamedNext, HandlePlaces
<1>10. QED
  BY <1>6, <1>7, <1>8, <1>9 DEF SInv

-----------------------------------------------------------------------------
(* The other steps                                                         *)

(* The read loop changes what Streams show, and which are ready.            *)
LEMMA ReadLoopInv ==
  ASSUME SInv, ReadLoop
  PROVE  SInv'
<1>1. UNCHANGED <<pc, id, handle, removed, running, closed, byID>>
  BY DEF ReadLoop, Collect, Set, Wake, LoopEnds, userVars, serverVars
<1>2. /\ DOMAIN stream' = Streams
      /\ \A s \in Streams : "id" \in DOMAIN stream'[s]
                              /\ stream'[s].id = stream[s].id
  <2>1. CASE UNCHANGED stream
    BY <2>1 DEF SInv, StreamsTyped
  <2>2. CASE Set
    BY <2>2 DEF Set, SInv, StreamsTyped
  <2>3. CASE Wake
    BY <2>3 DEF Wake, SInv, StreamsTyped
  <2>4. QED
    BY <2>1, <2>2, <2>3 DEF ReadLoop, Collect, LoopEnds
<1>3. StreamsTyped'
  BY <1>2 DEF SInv, StreamsTyped
<1>4. RegistryTyped'
  BY <1>1, <1>2 DEF SInv, RegistryTyped
<1>5. UsersTyped' /\ InBetween'
  BY <1>1, <1>2
     DEF SInv, UsersTyped, InBetween, Streamed, StreamedNext, HandlePlaces
<1>6. HoldersAreFed'
  BY <1>1, <1>2
     DEF SInv, UsersTyped, HoldersAreFed, Holding, Registered, HandlePlaces
<1>7. QED
  BY <1>3, <1>4, <1>5, <1>6 DEF SInv

LEMMA ConnectionInv ==
  ASSUME SInv, Dial \/ Close \/ Push \/ UNCHANGED vars
  PROVE  SInv'
<1>1. /\ UNCHANGED <<pc, id, handle, removed, byID, stream>>
      /\ \/ UNCHANGED running /\ (closed => closed')
         \/ closed' /\ DOMAIN running' = Calls
  BY DEF Dial, Close, Push, userVars, serverVars, vars
<1>2. StreamsTyped' /\ RegistryTyped' /\ UsersTyped'
  BY <1>1 DEF SInv, StreamsTyped, RegistryTyped, UsersTyped
<1>3. InBetween' /\ HoldersAreFed'
  BY <1>1
     DEF SInv, InBetween, HoldersAreFed, Holding, Registered, Streamed,
         StreamedNext
<1>4. QED
  BY <1>2, <1>3 DEF SInv

LEMMA NextSInv == SInv /\ [Next]_vars => SInv'
<1> SUFFICES ASSUME SInv, [Next]_vars
             PROVE  SInv'
  OBVIOUS
<1>1. ASSUME NEW u \in Users, User(u)
      PROVE  SInv'
  BY <1>1, AddStreamInv, RegisterInv, WaitReadyInv, ForgetInv, RemoveStreamInv
     DEF User
<1>2. CASE ReadLoop
  BY <1>2, ReadLoopInv
<1>3. CASE Dial \/ Close \/ Push \/ UNCHANGED vars
  BY <1>3, ConnectionInv
<1>4. QED
  BY <1>1, <1>2, <1>3 DEF Next

-----------------------------------------------------------------------------
(* Whoever holds a Stream of stream.go holds the one the read loop feeds    *)
(* and the game streams, until somebody removes it or the connection is     *)
(* closed: AddStream calls the game and registers in two steps, and         *)
(* RemoveStream forgets and calls in two, in any interleaving.              *)
THEOREM HoldersStayFed == Spec => []HoldersAreFed
<1>1. SInv => HoldersAreFed
  BY DEF SInv
<1>2. QED
  BY <1>1, InitSInv, NextSInv, PTL DEF Spec

-----------------------------------------------------------------------------
(* Type correctness                                                        *)

LEMMA BoundsAreNumbers ==
  /\ MaxIds \in Nat \ {0} /\ MaxAdds \in Nat \ {0}
  /\ MaxPushes \in Nat /\ MaxWire \in Nat
BY BoundsAssumption

StreamState == [id: Ids \cup {None}, value: {None} \cup Pushes,
                err: {None} \cup Pushes, got: BOOLEAN, ready: BOOLEAN]

LEMMA InitTyped == Init => TypeOK
<1> SUFFICES ASSUME Init PROVE TypeOK
  OBVIOUS
<1>1. NewStream(None) \in StreamState
  BY DEF NewStream, StreamState
<1>2. stream \in [Streams -> StreamState]
  BY <1>1 DEF Init
<1>3. /\ running \in [Calls -> Ids \cup {None}]
      /\ byID \in [Ids -> Streams \cup {None}]
      /\ pc \in [Users -> Places]
      /\ id \in [Users -> Ids \cup {None}]
      /\ handle \in [Users -> Streams \cup {None}]
  BY DEF Init, Places
<1>4. /\ wire \in Seq(Seq(Result)) /\ removed \subseteq Ids
      /\ DOMAIN targets = {}
  BY DEF Init
<1>5. /\ loop \in {"off", "read", "set", "wake", "ended"} /\ closed \in BOOLEAN
      /\ nextId \in 1 .. MaxIds + 1
      /\ pushed \in 0 .. MaxPushes /\ made \in 0 .. MaxAdds
  <2>1. loop = "off" /\ nextId = 1 /\ pushed = 0 /\ made = 0
    BY Zenon DEF Init
  <2>2. closed \in BOOLEAN
    BY Zenon DEF Init
  <2>3. QED
    BY <2>1, <2>2, BoundsAreNumbers
<1>6. QED
  BY <1>2, <1>3, <1>4, <1>5 DEF TypeOK, StreamState

(* The steps of the users.                                                 *)
LEMMA UserTyped ==
  ASSUME TypeOK, SInv, NEW u \in Users, User(u)
  PROVE  TypeOK'
<1>1. ASSUME NEW c \in Calls, AddStream(u, c) PROVE TypeOK'
  <2> DEFINE i == IF running[c] # None THEN running[c] ELSE nextId
  <2>1. PICK o \in Outcomes :
          /\ o.done => i \in Ids
          /\ IF o.done
               THEN /\ running' = [running EXCEPT ![c] = i]
                    /\ nextId' = IF running[c] # None THEN nextId
                                 ELSE nextId + 1
               ELSE running' = running /\ nextId' = nextId
          /\ IF o.ok THEN /\ pc' = [pc EXCEPT ![u] = "register"]
                          /\ id' = [id EXCEPT ![u] = i]
                     ELSE pc' = pc /\ id' = id
    BY <1>1 DEF AddStream, serverVars, Goto
  <2>2. o.ok => i \in Ids
    BY <2>1 DEF Outcomes
  <2>3. /\ UNCHANGED <<handle, removed, loop, targets, closed, wire, pushed,
                      byID, stream>>
        /\ made < MaxAdds /\ made' = made + 1
    BY <1>1 DEF AddStream, loopVars
  <2>4. running' \in [Calls -> Ids \cup {None}]
    BY <2>1 DEF TypeOK
  <2>5. nextId' \in 1 .. MaxIds + 1
    BY <2>1, BoundsAreNumbers DEF TypeOK, Ids
  <2>6. pc' \in [Users -> Places] /\ id' \in [Users -> Ids \cup {None}]
    BY <2>1, <2>2 DEF TypeOK, Places
  <2>7. made' \in 0 .. MaxAdds
    BY <2>3, BoundsAreNumbers DEF TypeOK
  <2>8. QED
    BY <2>3, <2>4, <2>5, <2>6, <2>7 DEF TypeOK
<1>2. ASSUME Register(u) PROVE TypeOK'
  <2>1. PICK s \in Streams :
          /\ \/ stream' = stream /\ byID' = byID
             \/ /\ stream' = [stream EXCEPT ![s] = NewStream(id[u])]
                /\ byID' = [byID EXCEPT ![id[u]] = s]
          /\ handle' = [handle EXCEPT ![u] = s]
    BY <1>2 DEF Register
  <2>2. /\ UNCHANGED <<id, made, removed, running, nextId, loop, targets,
                      closed, wire, pushed>>
        /\ pc' = [pc EXCEPT ![u] = "holding"]
    BY <1>2 DEF Register, serverVars, loopVars, Goto
  <2>3. NewStream(id[u]) \in StreamState
    BY DEF NewStream, StreamState, TypeOK
  <2>4. stream' \in [Streams -> StreamState]
    BY <2>1, <2>3 DEF TypeOK, StreamState
  <2>5. /\ byID' \in [Ids -> Streams \cup {None}]
        /\ handle' \in [Users -> Streams \cup {None}]
        /\ pc' \in [Users -> Places]
    BY <2>1, <2>2 DEF TypeOK, Places
  <2>6. QED
    BY <2>2, <2>4, <2>5 DEF TypeOK, StreamState
<1>3. ASSUME WaitReady(u) PROVE TypeOK'
  BY <1>3 DEF WaitReady, TypeOK, Places, Goto, serverVars, loopVars
<1>4. ASSUME Forget(u) PROVE TypeOK'
  <2>1. stream[handle[u]].id \in Ids
    BY <1>4 DEF Forget, SInv, UsersTyped, HandlePlaces
  <2>2. /\ byID' = [byID EXCEPT ![stream[handle[u]].id] = None]
        /\ removed' = removed \cup {stream[handle[u]].id}
        /\ pc' = [pc EXCEPT ![u] = "unsubscribe"]
        /\ UNCHANGED <<id, handle, made, running, nextId, loop, targets, closed,
                      wire, pushed, stream>>
    BY <1>4 DEF Forget, Goto, serverVars, loopVars
  <2>3. /\ byID' \in [Ids -> Streams \cup {None}] /\ removed' \subseteq Ids
        /\ pc' \in [Users -> Places]
    BY <2>1, <2>2 DEF TypeOK, Places
  <2>4. QED
    BY <2>2, <2>3 DEF TypeOK
<1>5. ASSUME RemoveStream(u) PROVE TypeOK'
  <2>1. /\ \/ running' = running
           \/ running' = [c \in Calls |->
                            IF running[c] = stream[handle[u]].id THEN None
                            ELSE running[c]]
        /\ handle' = [handle EXCEPT ![u] = None]
        /\ id' = [id EXCEPT ![u] = None]
        /\ pc' = [pc EXCEPT ![u] = "idle"]
        /\ UNCHANGED <<made, removed, nextId, loop, targets, closed, wire,
                      pushed, byID, stream>>
    BY <1>5 DEF RemoveStream, Goto, loopVars
  <2>2. /\ running' \in [Calls -> Ids \cup {None}]
        /\ handle' \in [Users -> Streams \cup {None}]
        /\ id' \in [Users -> Ids \cup {None}]
        /\ pc' \in [Users -> Places]
    BY <2>1 DEF TypeOK, Places
  <2>3. QED
    BY <2>1, <2>2 DEF TypeOK
<1>6. QED
  BY <1>1, <1>2, <1>3, <1>4, <1>5 DEF User

(* What the game pushes is an update: results of distinct streams, all of   *)
(* one push.                                                                *)
LEMMA PushEffect ==
  ASSUME TypeOK, Push
  PROVE  \E update \in Seq(Result) :
           /\ wire' = Append(wire, update)
           /\ \A j \in DOMAIN update : update[j].n = pushed + 1
           /\ \A j, k \in DOMAIN update : update[j].id = update[k].id => j = k
<1>1. PICK ids \in SUBSET Ids : \E order \in SetToSeqs(ids),
                               kind \in [ids -> {"value", "error", "nil"}] :
        wire' = Append(wire, [j \in DOMAIN order |->
                  [id |-> order[j], n |-> pushed + 1, kind |-> kind[order[j]]]])
  BY DEF Push
<1>2. PICK order \in SetToSeqs(ids), kind \in [ids -> {"value", "error", "nil"}] :
        wire' = Append(wire, [j \in DOMAIN order |->
                  [id |-> order[j], n |-> pushed + 1, kind |-> kind[order[j]]]])
  BY <1>1
<1> DEFINE update == [j \in DOMAIN order |->
              [id |-> order[j], n |-> pushed + 1, kind |-> kind[order[j]]]]
<1>3. Cardinality(ids) \in Nat
  <2>1. IsFiniteSet(Ids)
    BY FS_Interval, BoundsAreNumbers DEF Ids
  <2>2. IsFiniteSet(ids)
    BY <2>1, FS_Subset
  <2>3. QED
    BY <2>2, FS_CardinalityType
<1>4. /\ order \in [1 .. Cardinality(ids) -> ids]
      /\ \A j, k \in DOMAIN order : order[j] = order[k] => j = k
  BY DEF SetToSeqs
<1>5. pushed + 1 \in Pushes
  <2>1. pushed \in 0 .. MaxPushes /\ pushed < MaxPushes
    BY DEF Push, TypeOK
  <2>2. QED
    BY <2>1, BoundsAreNumbers DEF Pushes
<1>6. \A j \in DOMAIN order :
        [id |-> order[j], n |-> pushed + 1, kind |-> kind[order[j]]] \in Result
  BY <1>4, <1>5 DEF Result
<1>7. update \in Seq(Result)
  <2>1. update \in [1 .. Cardinality(ids) -> Result]
    BY <1>4, <1>6
  <2>2. QED
    BY <1>3, <2>1
<1>8. QED
  BY <1>2, <1>4, <1>7

(* The connection, the game and the read loop.                             *)
LEMMA ConnectionTyped ==
  ASSUME TypeOK, Dial \/ Close \/ Push
  PROVE  TypeOK'
<1>1. CASE Dial
  BY <1>1 DEF Dial, TypeOK, userVars, serverVars
<1>2. CASE Close
  BY <1>2 DEF Close, TypeOK, userVars, loopVars
<1>3. CASE Push
  <2>1. wire' \in Seq(Seq(Result))
    <3>1. PICK update \in Seq(Result) : wire' = Append(wire, update)
      BY <1>3, PushEffect
    <3>2. wire \in Seq(Seq(Result))
      BY DEF TypeOK
    <3>3. QED
      BY <3>1, <3>2
  <2>2. pushed' \in 0 .. MaxPushes
    <3>1. /\ pushed \in 0 .. MaxPushes /\ pushed < MaxPushes
          /\ pushed' = pushed + 1
      BY <1>3 DEF Push, TypeOK
    <3>2. QED
      BY <3>1, BoundsAreNumbers
  <2>3. QED
    BY <1>3, <2>1, <2>2 DEF Push, TypeOK, userVars, serverVars, loopVars
<1>4. QED
  BY <1>1, <1>2, <1>3

LEMMA WantedTyped ==
  ASSUME TypeOK, NEW update \in Seq(Result)
  PROVE  /\ DOMAIN Wanted(update) \subseteq DOMAIN update
         /\ \A j \in DOMAIN Wanted(update) :
              /\ Wanted(update)[j] = [stream |-> byID[update[j].id],
                                      n |-> update[j].n,
                                      kind |-> update[j].kind]
              /\ byID[update[j].id] \in Streams
              /\ update[j].id \in Ids
              /\ update[j].n \in Pushes
              /\ update[j].kind \in {"value", "error"}
<1>1. \A j \in DOMAIN update : update[j] \in Result
  OBVIOUS
<1>2. QED
  BY <1>1 DEF Wanted, Target, Result, TypeOK

(* What Set makes of a Stream.                                             *)
SetTo(r, t) == IF t.kind = "error" THEN [r EXCEPT !.err = t.n, !.got = TRUE]
               ELSE [r EXCEPT !.value = t.n, !.err = None, !.got = TRUE]

LEMMA SetEffect ==
  ASSUME NEW r \in StreamState, NEW n \in Pushes, NEW t, t.n = n
  PROVE  /\ SetTo(r, t) \in StreamState
         /\ SetTo(r, t).id = r.id /\ SetTo(r, t).ready = r.ready
         /\ t.kind = "error" => SetTo(r, t).err = n /\ SetTo(r, t).value = r.value
         /\ t.kind # "error" => SetTo(r, t).err = None /\ SetTo(r, t).value = n
BY DEF SetTo, StreamState

LEMMA ReadLoopTyped ==
  ASSUME TypeOK, ReadLoop
  PROVE  TypeOK'
<1>1. CASE Collect
  <2>1. /\ wire # << >> /\ wire' = Tail(wire)
        /\ targets' = Wanted(wire[1])
        /\ loop' \in {"read", "set"}
        /\ UNCHANGED <<pc, id, handle, made, removed, running, nextId, closed,
                      pushed, byID, stream>>
    BY <1>1 DEF Collect, userVars, serverVars
  <2>2. wire' \in Seq(Seq(Result)) /\ wire[1] \in Seq(Result)
    BY <2>1 DEF TypeOK
  <2>3. /\ DOMAIN targets' \subseteq Nat
        /\ \A j \in DOMAIN targets' :
             targets'[j] \in [stream: Streams, n: Pushes,
                              kind: {"value", "error"}]
    BY <2>1, <2>2, WantedTyped
  <2>4. QED
    BY <2>1, <2>2, <2>3 DEF TypeOK
<1>2. CASE Set
  <2>1. PICK j \in DOMAIN targets :
          stream' = [stream EXCEPT ![targets[j].stream]
                                     = SetTo(stream[targets[j].stream], targets[j])]
    BY <1>2 DEF Set, SetTo
  <2>2. /\ loop' = "wake"
        /\ UNCHANGED <<pc, id, handle, made, removed, running, nextId, targets,
                      closed, wire, pushed, byID>>
    BY <1>2 DEF Set, userVars, serverVars
  <2>3. stream' \in [Streams -> StreamState]
    BY <2>1, SetEffect DEF TypeOK, StreamState
  <2>4. QED
    BY <2>2, <2>3 DEF TypeOK, StreamState
<1>3. CASE Wake
  <2>1. PICK j \in DOMAIN targets :
          /\ stream' = [stream EXCEPT ![targets[j].stream].ready = TRUE]
          /\ targets' = [k \in DOMAIN targets \ {j} |-> targets[k]]
    BY <1>3 DEF Wake
  <2>2. /\ loop' \in {"read", "set"}
        /\ UNCHANGED <<pc, id, handle, made, removed, running, nextId,
                      closed, wire, pushed, byID>>
    BY <1>3 DEF Wake, userVars, serverVars
  <2>3. stream' \in [Streams -> StreamState]
    BY <2>1 DEF TypeOK, StreamState
  <2>4. QED
    BY <2>1, <2>2, <2>3 DEF TypeOK, StreamState
<1>4. CASE LoopEnds
  BY <1>4 DEF LoopEnds, TypeOK, userVars, serverVars
<1>5. QED
  BY <1>1, <1>2, <1>3, <1>4 DEF ReadLoop

(* Users, game, connection and read loop keep the state well formed: among  *)
(* other things dispatch never sets a result without content.               *)
THEOREM TypeCorrect == Spec => []TypeOK
<1>1. ASSUME TypeOK, SInv, [Next]_vars PROVE TypeOK'
  <2>1. CASE UNCHANGED vars
    BY <1>1, <2>1
       DEF vars, userVars, serverVars, loopVars, TypeOK
  <2>2. QED
    BY <1>1, <2>1, UserTyped, ConnectionTyped, ReadLoopTyped DEF Next
<1>2. QED
  BY <1>1, InitTyped, InitSInv, NextSInv, PTL DEF Spec

-----------------------------------------------------------------------------
(* The feed: the inductive invariant                                       *)

(* What Value shows of a Stream.                                             *)
ShownBy(r) == IF r.err # None THEN r.err ELSE r.value

(* The updates on their way are pushes in their order, each with results of *)
(* distinct streams.                                                        *)
WireOrdered ==
  /\ \A i \in DOMAIN wire : \A k \in DOMAIN wire[i] : wire[i][k].n <= pushed
  /\ \A i \in DOMAIN wire : \A k, l \in DOMAIN wire[i] :
       /\ wire[i][k].n = wire[i][l].n
       /\ wire[i][k].id = wire[i][l].id => k = l
  /\ \A i, j \in DOMAIN wire : i < j =>
       \A k \in DOMAIN wire[i], l \in DOMAIN wire[j] :
         wire[i][k].n < wire[j][l].n

(* They are later than all that a Stream shows or dispatch still sets.      *)
WireFresh ==
  \A i \in DOMAIN wire : \A k \in DOMAIN wire[i] :
    /\ \A s \in Streams : ShownBy(stream[s]) < wire[i][k].n
    /\ \A j \in DOMAIN targets : targets[j].n < wire[i][k].n

(* What dispatch still sets is one update, for distinct Streams, and later  *)
(* than what they show; but the one it is about to wake shows it already.   *)
TargetsFresh ==
  /\ \A j \in DOMAIN targets :
       /\ targets[j].n <= pushed
       /\ stream[targets[j].stream].id # None
       /\ IF loop = "wake" /\ IsNext(j)
            THEN ShownBy(stream[targets[j].stream]) = targets[j].n
            ELSE ShownBy(stream[targets[j].stream]) < targets[j].n
  /\ \A j, k \in DOMAIN targets :
       /\ targets[j].n = targets[k].n
       /\ targets[j].stream = targets[k].stream => j = k
  /\ loop \notin {"set", "wake"} => DOMAIN targets = {}

(* A Stream that is ready shows something, one not yet allocated nothing,   *)
(* and an error is later than the value it hides.                           *)
Sound(r) ==
  /\ ShownBy(r) <= pushed
  /\ r.id = None => ShownBy(r) = None /\ ~r.ready
  /\ r.err # None => r.err > r.value
  /\ r.ready => ShownBy(r) # None

StreamsSound == \A s \in Streams : Sound(stream[s])

Told == \A u \in Users : pc[u] = "told" => stream[handle[u]].value # None

FInv == WireOrdered /\ WireFresh /\ TargetsFresh /\ StreamsSound /\ Told

LEMMA InitFInv == Init => FInv
<1> SUFFICES ASSUME Init PROVE FInv
  OBVIOUS
<1>1. DOMAIN wire = {} /\ DOMAIN targets = {} /\ pushed = 0
  BY DEF Init
<1>2. WireOrdered /\ WireFresh /\ TargetsFresh
  BY <1>1 DEF WireOrdered, WireFresh, TargetsFresh
<1>3. StreamsSound
  BY <1>1 DEF Init, StreamsSound, Sound, ShownBy, NewStream, None
<1>4. Told
  BY DEF Init, Told
<1>5. QED
  BY <1>2, <1>3, <1>4 DEF FInv

-----------------------------------------------------------------------------
(* The feed: the steps                                                     *)

(* A step that leaves the wire and the results to set alone, and that       *)
(* changes no Stream but one it allocates.                                  *)
LEMMA Undisturbed ==
  ASSUME TypeOK, TypeOK', FInv,
         UNCHANGED <<targets, wire, pushed>>,
         loop' = "set" <=> loop = "set", loop' = "wake" <=> loop = "wake",
         \A s \in Streams :
           \/ stream'[s] = stream[s]
           \/ /\ stream[s].id = None
              /\ \E i \in Ids : stream'[s] = NewStream(i)
  PROVE  /\ WireOrdered' /\ WireFresh' /\ TargetsFresh' /\ StreamsSound'
         /\ \A s \in Streams : ShownBy(stream'[s]) = ShownBy(stream[s])
<1>1. \A i : /\ NewStream(i).id = i /\ NewStream(i).err = None
            /\ NewStream(i).value = None /\ ~NewStream(i).ready
  BY DEF NewStream
<1>2. \A s \in Streams : ShownBy(stream'[s]) = ShownBy(stream[s])
  BY <1>1 DEF FInv, StreamsSound, Sound, ShownBy
<1>3. WireOrdered'
  BY DEF FInv, WireOrdered
<1>4. WireFresh'
  BY <1>2 DEF FInv, WireFresh
<1>5. TargetsFresh'
  BY <1>2 DEF FInv, TargetsFresh, IsNext, TypeOK
<1>6. StreamsSound'
  BY <1>1, <1>2 DEF FInv, StreamsSound, Sound, ShownBy
<1>7. QED
  BY <1>2, <1>3, <1>4, <1>5, <1>6

(* The steps of the users.                                                 *)
LEMMA UserFeed ==
  ASSUME TypeOK, TypeOK', SInv, FInv, NEW u \in Users, User(u)
  PROVE  /\ FInv' /\ pushed' = pushed
         /\ \A s \in Streams : ShownBy(stream'[s]) = ShownBy(stream[s])
<1>1. UNCHANGED <<targets, wire, pushed, loop>>
  BY DEF User, AddStream, Register, WaitReady, Forget, RemoveStream, loopVars
<1>2. \A s \in Streams :
        \/ stream'[s] = stream[s]
        \/ /\ stream[s].id = None
           /\ \E i \in Ids : stream'[s] = NewStream(i)
  <2>1. CASE Register(u)
    <3>1. id[u] \in Ids
      BY <2>1 DEF Register, SInv, UsersTyped
    <3>2. PICK s \in Streams :
            \/ stream' = stream
            \/ Unused(s) /\ stream' = [stream EXCEPT ![s] = NewStream(id[u])]
      BY <2>1 DEF Register
    <3>3. QED
      BY <3>1, <3>2 DEF Unused, TypeOK
  <2>2. CASE ~Register(u)
    BY <2>2 DEF User, AddStream, WaitReady, Forget, RemoveStream
  <2>3. QED
    BY <2>1, <2>2
<1>3. Told'
  <2> SUFFICES ASSUME NEW v \in Users, pc'[v] = "told"
               PROVE  stream'[handle'[v]].value # None
    BY DEF Told
  <2>1. CASE WaitReady(u) /\ v = u
    <3>1. /\ pc[u] = "holding" /\ stream[handle[u]].ready
          /\ stream[handle[u]].err = None
          /\ stream' = stream /\ handle' = handle
      BY <2>1 DEF WaitReady
    <3>2. handle[u] \in Streams
      BY <3>1 DEF SInv, UsersTyped, HandlePlaces
    <3>3. QED
      BY <2>1, <3>1, <3>2 DEF FInv, StreamsSound, Sound, ShownBy
  <2>2. CASE ~(WaitReady(u) /\ v = u)
    <3>1. pc[v] = "told" /\ handle'[v] = handle[v]
      BY <2>2 DEF User, AddStream, Register, WaitReady, Forget, RemoveStream,
                  Goto, TypeOK
    <3>2. handle[v] \in Streams /\ stream[handle[v]].id \in Ids
      BY <3>1 DEF SInv, UsersTyped, HandlePlaces
    <3>3. stream'[handle[v]] = stream[handle[v]]
      BY <1>2, <3>2 DEF None, Ids
    <3>4. QED
      BY <3>1, <3>3 DEF FInv, Told
  <2>3. QED
    BY <2>1, <2>2
<1>4. QED
  BY <1>1, <1>2, <1>3, Undisturbed DEF FInv

(* The connection comes and goes: what was on its way is lost.              *)
LEMMA ConnectionFeed ==
  ASSUME TypeOK, TypeOK', FInv, Dial \/ Close \/ LoopEnds \/ UNCHANGED vars
  PROVE  /\ FInv' /\ pushed' = pushed
         /\ \A s \in Streams : ShownBy(stream'[s]) = ShownBy(stream[s])
<1>1. UNCHANGED <<targets, pushed, stream, pc, handle>>
  BY DEF Dial, Close, LoopEnds, vars, userVars, loopVars
<1>2. Told'
  BY <1>1 DEF FInv, Told
<1>3. CASE Dial \/ LoopEnds \/ UNCHANGED vars
  <2>1. /\ UNCHANGED wire
        /\ loop' = "set" <=> loop = "set"
        /\ loop' = "wake" <=> loop = "wake"
    BY <1>3 DEF Dial, LoopEnds, vars, loopVars
  <2>2. QED
    BY <1>1, <1>2, <2>1, Undisturbed DEF FInv
<1>4. CASE Close
  <2>1. DOMAIN wire' = {} /\ loop' = loop
    BY <1>4 DEF Close, loopVars
  <2>2. WireOrdered' /\ WireFresh'
    BY <2>1 DEF WireOrdered, WireFresh
  <2>3. TargetsFresh' /\ StreamsSound'
    BY <1>1, <2>1
       DEF FInv, TargetsFresh, IsNext, StreamsSound, Sound, ShownBy
  <2>4. QED
    BY <1>1, <1>2, <2>2, <2>3 DEF FInv
<1>5. QED
  BY <1>3, <1>4
(* A push is later than all before it.                                     *)
LEMMA PushFeed ==
  ASSUME TypeOK, TypeOK', FInv, Push
  PROVE  /\ FInv' /\ pushed' = pushed + 1 /\ stream' = stream
<1>1. PICK update \in Seq(Result) :
        /\ wire' = Append(wire, update)
        /\ \A j \in DOMAIN update : update[j].n = pushed + 1
        /\ \A j, k \in DOMAIN update : update[j].id = update[k].id => j = k
  BY PushEffect
<1>2. /\ pushed' = pushed + 1 /\ pushed \in Nat
      /\ UNCHANGED <<targets, loop, stream, pc, handle>>
  BY DEF Push, userVars, loopVars, TypeOK
<1>3. /\ wire \in Seq(Seq(Result))
      /\ DOMAIN wire' = 1 .. Len(wire) + 1
      /\ \A i \in DOMAIN wire : wire'[i] = wire[i]
      /\ wire'[Len(wire) + 1] = update
  BY <1>1 DEF TypeOK
<1>4. \A i \in DOMAIN wire' : (i \in DOMAIN wire \/ i = Len(wire) + 1)
                               /\ i \in Nat
  BY <1>3
<1>5. \A i \in DOMAIN wire : i <= Len(wire)
  BY <1>3
<1>6. \A i \in DOMAIN wire : \A k \in DOMAIN wire[i] :
        wire[i][k].n <= pushed /\ wire[i][k].n \in Nat
  <2>1. \A i \in DOMAIN wire : \A k \in DOMAIN wire[i] : wire[i][k] \in Result
    BY <1>3
  <2>2. QED
    BY <2>1 DEF FInv, WireOrdered, Result, Pushes
<1>7. WireOrdered'
  <2>1. \A i \in DOMAIN wire' : \A k \in DOMAIN wire'[i] :
          wire'[i][k].n <= pushed'
    BY <1>1, <1>2, <1>3, <1>4, <1>6
  <2>2. \A i \in DOMAIN wire' : \A k, l \in DOMAIN wire'[i] :
          /\ wire'[i][k].n = wire'[i][l].n
          /\ wire'[i][k].id = wire'[i][l].id => k = l
    BY <1>1, <1>3, <1>4 DEF FInv, WireOrdered
  <2>3. ASSUME NEW i \in DOMAIN wire', NEW j \in DOMAIN wire', i < j,
               NEW k \in DOMAIN wire'[i], NEW l \in DOMAIN wire'[j]
        PROVE  wire'[i][k].n < wire'[j][l].n
    <3>1. i \in DOMAIN wire
      BY <1>3, <1>4, <2>3
    <3>2. CASE j \in DOMAIN wire
      BY <1>3, <2>3, <3>1, <3>2 DEF FInv, WireOrdered
    <3>3. CASE j = Len(wire) + 1
      BY <1>1, <1>2, <1>3, <1>6, <2>3, <3>1, <3>3
    <3>4. QED
      BY <1>4, <3>2, <3>3
  <2>4. QED
    BY <2>1, <2>2, <2>3 DEF WireOrdered
<1>8. /\ \A s \in Streams : ShownBy(stream[s]) <= pushed /\ ShownBy(stream[s]) \in Nat
      /\ \A j \in DOMAIN targets :
           targets[j].n <= pushed /\ targets[j].n \in Nat
  BY DEF FInv, StreamsSound, Sound, ShownBy, TargetsFresh, TypeOK,
         Pushes, None
<1>9. WireFresh'
  <2> SUFFICES ASSUME NEW i \in DOMAIN wire', NEW k \in DOMAIN wire'[i]
               PROVE  /\ \A s \in Streams : ShownBy(stream'[s]) < wire'[i][k].n
                      /\ \A j \in DOMAIN targets : targets[j].n < wire'[i][k].n
    BY <1>2 DEF WireFresh
  <2>1. \A s \in Streams : ShownBy(stream'[s]) = ShownBy(stream[s])
    BY <1>2
  <2>2. CASE i \in DOMAIN wire
    BY <1>3, <2>1, <2>2 DEF FInv, WireFresh
  <2>3. CASE i = Len(wire) + 1
    BY <1>1, <1>2, <1>3, <1>8, <2>1, <2>3
  <2>4. QED
    BY <1>4, <2>2, <2>3
<1>10. TargetsFresh'
  BY <1>2, <1>8 DEF FInv, TargetsFresh, IsNext
<1>11. StreamsSound'
  BY <1>2, <1>8 DEF FInv, StreamsSound, Sound, ShownBy
<1>12. Told'
  BY <1>2 DEF FInv, Told
<1>13. QED
  BY <1>2, <1>7, <1>9, <1>10, <1>11, <1>12 DEF FInv

(* dispatch collects the results of the next update.                        *)
LEMMA CollectFeed ==
  ASSUME TypeOK, TypeOK', SInv, FInv, Collect
  PROVE  /\ FInv' /\ pushed' = pushed /\ stream' = stream
<1>1. /\ loop = "read" /\ wire # << >> /\ wire' = Tail(wire)
      /\ targets' = Wanted(wire[1])
      /\ loop' = IF DOMAIN targets' = {} THEN "read" ELSE "set"
      /\ UNCHANGED <<pushed, stream, pc, handle, byID>>
  BY DEF Collect, userVars
<1>2. /\ wire \in Seq(Seq(Result)) /\ wire[1] \in Seq(Result)
      /\ 1 \in DOMAIN wire
  BY <1>1 DEF TypeOK
<1>3. \A i \in DOMAIN wire' : /\ i + 1 \in DOMAIN wire /\ wire'[i] = wire[i + 1]
                              /\ i \in Nat /\ 1 < i + 1
  BY <1>1, <1>2
<1>4. \A j \in DOMAIN targets' :
        /\ j \in DOMAIN wire[1]
        /\ targets'[j].n = wire[1][j].n
        /\ targets'[j].stream = byID[wire[1][j].id]
        /\ targets'[j].stream \in Streams
        /\ wire[1][j].id \in Ids
  BY <1>1, <1>2, WantedTyped
<1>5. \A j \in DOMAIN targets' :
        stream[targets'[j].stream].id = wire[1][j].id
  BY <1>4 DEF SInv, RegistryTyped, None, Streams
<1>6. \A s \in Streams : ShownBy(stream'[s]) = ShownBy(stream[s])
  BY <1>1
<1>7. WireOrdered'
  <2>1. \A i, j \in DOMAIN wire' : i < j => i + 1 < j + 1
    BY <1>3
  <2>2. QED
    BY <1>1, <1>3, <2>1 DEF FInv, WireOrdered
<1>8. WireFresh'
  <2> SUFFICES ASSUME NEW i \in DOMAIN wire', NEW k \in DOMAIN wire'[i]
               PROVE  /\ \A s \in Streams : ShownBy(stream'[s]) < wire'[i][k].n
                      /\ \A j \in DOMAIN targets' :
                           targets'[j].n < wire'[i][k].n
    BY DEF WireFresh
  <2>1. \A s \in Streams : ShownBy(stream'[s]) < wire'[i][k].n
    BY <1>3, <1>6 DEF FInv, WireFresh
  <2>2. \A j \in DOMAIN targets' : targets'[j].n < wire'[i][k].n
    BY <1>2, <1>3, <1>4 DEF FInv, WireOrdered
  <2>3. QED
    BY <2>1, <2>2
<1>9. TargetsFresh'
  <2>1. \A j \in DOMAIN targets' :
          /\ targets'[j].n <= pushed'
          /\ stream'[targets'[j].stream].id # None
          /\ ShownBy(stream'[targets'[j].stream]) < targets'[j].n
    <3> SUFFICES ASSUME NEW j \in DOMAIN targets'
                 PROVE  /\ targets'[j].n <= pushed
                        /\ stream[targets'[j].stream].id # None
                        /\ ShownBy(stream'[targets'[j].stream]) < targets'[j].n
      BY <1>1
    <3>1. targets'[j].n <= pushed
      BY <1>2, <1>4 DEF FInv, WireOrdered
    <3>2. stream[targets'[j].stream].id # None
      BY <1>4, <1>5 DEF None, Ids
    <3>3. ShownBy(stream'[targets'[j].stream]) < targets'[j].n
      BY <1>2, <1>4, <1>6 DEF FInv, WireFresh
    <3>4. QED
      BY <3>1, <3>2, <3>3
  <2>2. \A j, k \in DOMAIN targets' :
          /\ targets'[j].n = targets'[k].n
          /\ targets'[j].stream = targets'[k].stream => j = k
    BY <1>2, <1>4, <1>5 DEF FInv, WireOrdered
  <2>3. /\ loop' # "wake"
        /\ loop' \notin {"set", "wake"} => DOMAIN targets' = {}
    BY <1>1
  <2>4. QED
    BY <2>1, <2>2, <2>3 DEF TargetsFresh
<1>10. StreamsSound' /\ Told'
  BY <1>1 DEF FInv, StreamsSound, Sound, ShownBy, Told
<1>11. QED
  BY <1>1, <1>7, <1>8, <1>9, <1>10 DEF FInv

(* Only one result is the next.                                             *)
LEMMA NextIsUnique ==
  ASSUME TypeOK, NEW j, NEW k, IsNext(j), IsNext(k)
  PROVE  j = k
<1>1. j \in Nat /\ k \in Nat /\ j <= k /\ k <= j
  BY DEF IsNext, TypeOK
<1>2. QED
  BY <1>1

(* set: the Stream moves on to what it is told.                             *)
LEMMA SetFeed ==
  ASSUME TypeOK, TypeOK', SInv, FInv, Set
  PROVE  /\ FInv' /\ pushed' = pushed
         /\ \E s \in Streams, n \in Pushes :
              /\ ShownBy(stream[s]) < n /\ n <= pushed
              /\ ShownBy(stream'[s]) = n
              /\ \A r \in Streams : r # s => stream'[r] = stream[r]
<1>1. PICK j \in DOMAIN targets :
        /\ IsNext(j)
        /\ stream' = [stream EXCEPT ![targets[j].stream]
                                   = SetTo(stream[targets[j].stream], targets[j])]
  BY DEF Set, SetTo
<1>2. /\ loop = "set" /\ loop' = "wake"
      /\ UNCHANGED <<targets, wire, pushed, pc, handle>>
  BY DEF Set, userVars
<1>3. PICK s \in Streams, n \in Pushes :
        /\ s = targets[j].stream /\ n = targets[j].n
        /\ n # None /\ n \in Nat
  BY DEF TypeOK, Pushes, None
<1>4. PICK old \in StreamState : old = stream[s]
  BY DEF TypeOK, StreamState
<1>5. PICK new \in StreamState :
        /\ new = stream'[s] /\ new.id = old.id
        /\ targets[j].kind = "error" => new.err = n /\ new.value = old.value
        /\ targets[j].kind # "error" => new.err = None /\ new.value = n
  <2>1. stream'[s] = SetTo(old, targets[j])
    BY <1>1, <1>3, <1>4 DEF TypeOK
  <2>2. QED
    BY <1>3, <2>1, SetEffect
<1>6. \A r \in Streams : r # s => stream'[r] = stream[r]
  BY <1>1, <1>3 DEF TypeOK
<1>7. ShownBy(old) < n /\ n <= pushed /\ old.id # None /\ Sound(old)
  BY <1>2, <1>3, <1>4 DEF FInv, TargetsFresh, StreamsSound
<1>8. ShownBy(new) = n
  BY <1>3, <1>5 DEF ShownBy
<1>9. Sound(new)
  <2>1. old.value < n
    <3>1. old.value \in Nat /\ old.err \in Nat
      BY DEF StreamState, Pushes, None
    <3>2. QED
      BY <1>3, <1>7, <3>1 DEF Sound, ShownBy
  <2>2. QED
    BY <1>3, <1>5, <1>7, <1>8, <2>1 DEF Sound, None
<1>10. WireOrdered'
  BY <1>2 DEF FInv, WireOrdered
<1>11. WireFresh'
  <2>1. \A i \in DOMAIN wire : \A k \in DOMAIN wire[i] :
          /\ n < wire[i][k].n
          /\ \A r \in Streams : ShownBy(stream[r]) < wire[i][k].n
          /\ \A l \in DOMAIN targets : targets[l].n < wire[i][k].n
    BY <1>3 DEF FInv, WireFresh
  <2>2. \A r \in Streams : \/ ShownBy(stream'[r]) = n
                            \/ ShownBy(stream'[r]) = ShownBy(stream[r])
    BY <1>5, <1>6, <1>8
  <2>3. \A i \in DOMAIN wire : \A k \in DOMAIN wire[i] :
          \A r \in Streams : ShownBy(stream'[r]) < wire[i][k].n
    BY <2>1, <2>2
  <2>4. QED
    BY <1>2, <2>1, <2>3 DEF WireFresh
<1>12. TargetsFresh'
  <2>1. \A k \in DOMAIN targets :
          /\ IsNext(k)' <=> k = j
          /\ k # j => targets[k].stream # s /\ ~IsNext(k)
          /\ targets[k].stream \in Streams
    BY <1>1, <1>2, <1>3, NextIsUnique DEF IsNext, FInv, TargetsFresh, TypeOK
  <2>2. \A r \in Streams : stream'[r].id = stream[r].id
    BY <1>4, <1>5, <1>6
  <2>3. \A k \in DOMAIN targets :
          /\ targets[k].n <= pushed
          /\ stream'[targets[k].stream].id # None
          /\ IF k = j THEN ShownBy(stream'[targets[k].stream]) = targets[k].n
             ELSE ShownBy(stream'[targets[k].stream]) < targets[k].n
    BY <1>2, <1>3, <1>5, <1>6, <1>8, <2>1, <2>2 DEF FInv, TargetsFresh
  <2>4. \A k, l \in DOMAIN targets :
          /\ targets[k].n = targets[l].n
          /\ targets[k].stream = targets[l].stream => k = l
    BY DEF FInv, TargetsFresh
  <2>5. QED
    BY <1>2, <2>1, <2>3, <2>4 DEF TargetsFresh
<1>13. StreamsSound'
  <2>1. \A r : Sound(r)' <=> Sound(r)
    BY <1>2 DEF Sound, ShownBy
  <2>2. \A r \in Streams : Sound(stream'[r])
    BY <1>5, <1>6, <1>9 DEF FInv, StreamsSound
  <2>3. QED
    BY <2>1, <2>2 DEF StreamsSound
<1>14. Told'
  <2>1. \A r \in Streams : stream[r].value # None => stream'[r].value # None
    BY <1>3, <1>4, <1>5, <1>6
  <2>2. QED
    BY <1>2, <2>1 DEF FInv, Told, SInv, UsersTyped, HandlePlaces
<1>15. QED
  BY <1>2, <1>4, <1>5, <1>6, <1>7, <1>8, <1>10, <1>11, <1>12, <1>13, <1>14
     DEF FInv
(* The Stream just set is ready, and the next result comes.                 *)
LEMMA WakeFeed ==
  ASSUME TypeOK, TypeOK', SInv, FInv, Wake
  PROVE  /\ FInv' /\ pushed' = pushed
         /\ \A s \in Streams : ShownBy(stream'[s]) = ShownBy(stream[s])
<1>1. PICK j \in DOMAIN targets :
        /\ IsNext(j)
        /\ stream' = [stream EXCEPT ![targets[j].stream].ready = TRUE]
        /\ targets' = [k \in DOMAIN targets \ {j} |-> targets[k]]
  BY DEF Wake
<1>2. /\ loop = "wake"
      /\ loop' = IF DOMAIN targets' = {} THEN "read" ELSE "set"
      /\ UNCHANGED <<wire, pushed, pc, handle>>
  BY DEF Wake, userVars
<1>3. PICK s \in Streams : s = targets[j].stream
  BY DEF TypeOK
<1>4. /\ \A r \in Streams : r # s => stream'[r] = stream[r]
      /\ stream'[s] = [stream[s] EXCEPT !.ready = TRUE]
  BY <1>1, <1>3 DEF TypeOK
<1>5. ASSUME NEW r \in Streams
      PROVE  /\ stream'[r].id = stream[r].id
             /\ stream'[r].value = stream[r].value
             /\ ShownBy(stream'[r]) = ShownBy(stream[r])
             /\ stream'[r].err # None => stream'[r].err > stream'[r].value
             /\ r # s => (stream'[r].ready <=> stream[r].ready)
  <2>1. CASE r = s
    <3>1. stream[s] \in StreamState
      BY DEF TypeOK, StreamState
    <3>2. PICK new : new = [stream[s] EXCEPT !.ready = TRUE]
      OBVIOUS
    <3>3. /\ new.id = stream[s].id /\ new.value = stream[s].value
          /\ new.err = stream[s].err
      BY <3>1, <3>2 DEF StreamState
    <3>4. Sound(stream[s])
      BY DEF FInv, StreamsSound
    <3>5. QED
      BY <1>4, <2>1, <3>2, <3>3, <3>4 DEF ShownBy, Sound
  <2>2. CASE r # s
    BY <1>4, <2>2 DEF FInv, StreamsSound, Sound
  <2>3. QED
    BY <2>1, <2>2
<1>6. /\ DOMAIN targets' = DOMAIN targets \ {j}
      /\ \A k \in DOMAIN targets' :
           /\ k \in DOMAIN targets /\ targets'[k] = targets[k]
           /\ targets[k].stream \in Streams
           /\ ~IsNext(k)
  BY <1>1, NextIsUnique DEF TypeOK
<1>7. WireOrdered' /\ WireFresh'
  BY <1>2, <1>5, <1>6 DEF FInv, WireOrdered, WireFresh
<1>8. TargetsFresh'
  <2>1. \A k \in DOMAIN targets' :
          /\ targets'[k].n <= pushed'
          /\ stream'[targets'[k].stream].id # None
          /\ ShownBy(stream'[targets'[k].stream]) < targets'[k].n
    <3> SUFFICES ASSUME NEW k \in DOMAIN targets'
                 PROVE  /\ targets[k].n <= pushed
                        /\ stream'[targets[k].stream].id # None
                        /\ ShownBy(stream'[targets[k].stream]) < targets[k].n
      BY <1>2, <1>6
    <3>1. /\ targets[k].n <= pushed
          /\ stream[targets[k].stream].id # None
          /\ ShownBy(stream[targets[k].stream]) < targets[k].n
      BY <1>6 DEF FInv, TargetsFresh
    <3>2. QED
      BY <1>5, <1>6, <3>1
  <2>2. \A k, l \in DOMAIN targets' :
          /\ targets'[k].n = targets'[l].n
          /\ targets'[k].stream = targets'[l].stream => k = l
    BY <1>6 DEF FInv, TargetsFresh
  <2>3. loop' # "wake" /\ (loop' \notin {"set", "wake"} => DOMAIN targets' = {})
    BY <1>2
  <2>4. QED
    BY <2>1, <2>2, <2>3 DEF TargetsFresh
<1>9. StreamsSound'
  <2>1. ShownBy(stream[s]) # None /\ stream[s].id # None
    BY <1>1, <1>2, <1>3 DEF FInv, TargetsFresh, TypeOK, Pushes, None
  <2>2. \A r \in Streams : Sound(stream[r]) => Sound(stream'[r])
    <3> SUFFICES ASSUME NEW r \in Streams, Sound(stream[r])
                 PROVE  Sound(stream'[r])
      OBVIOUS
    <3>1. QED
      BY <1>5, <2>1 DEF Sound
  <2>3. \A r : Sound(r)' <=> Sound(r)
    BY <1>2 DEF Sound, ShownBy
  <2>4. QED
    BY <2>2, <2>3 DEF FInv, StreamsSound
<1>10. Told'
  <2> SUFFICES ASSUME NEW u \in Users, pc[u] = "told"
               PROVE  stream'[handle[u]].value # None
    BY <1>2 DEF Told
  <2>1. handle[u] \in Streams /\ stream[handle[u]].value # None
    BY DEF FInv, Told, SInv, UsersTyped, HandlePlaces
  <2>2. QED
    BY <1>5, <2>1
<1>11. QED
  BY <1>2, <1>5, <1>7, <1>8, <1>9, <1>10 DEF FInv

(* Every step keeps the invariant, and what the Streams show moves as Feed  *)
(* says.                                                                    *)
LEMMA FeedStep ==
  ASSUME TypeOK, TypeOK', SInv, FInv, [Next]_vars
  PROVE  /\ FInv'
         /\ \/ /\ pushed' = pushed
              /\ \A s \in Streams : ShownBy(stream'[s]) = ShownBy(stream[s])
            \/ pushed' = pushed + 1 /\ stream' = stream
            \/ /\ pushed' = pushed
               /\ \E s \in Streams, n \in Pushes :
                    /\ ShownBy(stream[s]) < n /\ n <= pushed
                    /\ ShownBy(stream'[s]) = n
                    /\ \A r \in Streams : r # s => stream'[r] = stream[r]
<1>1. ASSUME NEW u \in Users, User(u)
      PROVE  /\ FInv' /\ pushed' = pushed
             /\ \A s \in Streams : ShownBy(stream'[s]) = ShownBy(stream[s])
  BY <1>1, UserFeed
<1>2. CASE \E u \in Users : User(u)
  BY <1>1, <1>2
<1>3. CASE Dial \/ Close \/ LoopEnds \/ UNCHANGED vars
  BY <1>3, ConnectionFeed
<1>4. CASE Push
  BY <1>4, PushFeed
<1>5. CASE Collect
  BY <1>5, CollectFeed
<1>6. CASE Set
  BY <1>6, SetFeed
<1>7. CASE Wake
  BY <1>7, WakeFeed
<1>8. QED
  BY <1>2, <1>3, <1>4, <1>5, <1>6, <1>7 DEF Next, ReadLoop

LEMMA FeedInvariant == Spec => [](TypeOK /\ SInv /\ FInv)
<1>1. SInv /\ [Next]_vars => SInv'
  BY NextSInv
<1>2. TypeOK /\ TypeOK' /\ SInv /\ FInv /\ [Next]_vars => FInv'
  BY FeedStep
<1>3. QED
  BY <1>1, <1>2, InitSInv, InitFInv, TypeCorrect, PTL DEF Spec

-----------------------------------------------------------------------------
(* A WaitReady that returned nil left a value to read, and Value shows an   *)
(* error only until the next value (Stream.set and WaitReady).              *)
THEOREM ReadyMeansAValue == Spec => []ToldOfAValue
<1>1. TypeOK /\ FInv => ToldOfAValue
  BY DEF FInv, Told, StreamsSound, Sound, ToldOfAValue
<1>2. QED
  BY <1>1, FeedInvariant, PTL

(* What every Stream shows is a feed of the pushes, in their order, none    *)
(* late and none twice: although dispatch sets values after it has let go   *)
(* of the registry, and whatever subscribes or unsubscribes meanwhile.      *)
THEOREM ImplementsFeed == Spec => IsAFeed
<1> DEFINE seen == [s \in Streams |-> Shows(s)]
<1>1. Init => Abstract!FeedInit
  <2> SUFFICES ASSUME Init PROVE Abstract!FeedInit
    OBVIOUS
  <2>1. \A s \in Streams : Shows(s) = 0
    BY DEF Init, Shows, NewStream, None
  <2>2. pushed = 0
    BY DEF Init
  <2>3. QED
    BY <2>1, <2>2 DEF Abstract!FeedInit
<1>2. ASSUME TypeOK, TypeOK', SInv, FInv, [Next]_vars
      PROVE  [Abstract!ServerPushes \/ \E s \in Streams : Abstract!FeedMovesOn(s)]_
               <<pushed, seen>>
  <2>1. /\ \A s \in Streams : Shows(s) = ShownBy(stream[s])
        /\ \A s \in Streams : Shows(s)' = ShownBy(stream'[s])
    BY DEF Shows, ShownBy
  <2>2. CASE /\ pushed' = pushed
             /\ \A s \in Streams : ShownBy(stream'[s]) = ShownBy(stream[s])
    BY <2>1, <2>2
  <2>3. CASE pushed' = pushed + 1 /\ stream' = stream
    <3>1. seen' = seen
      BY <2>1, <2>3
    <3>2. QED
      BY <2>3, <3>1 DEF Abstract!ServerPushes
  <2>4. ASSUME pushed' = pushed, NEW s \in Streams, NEW n \in Pushes,
               ShownBy(stream[s]) < n, n <= pushed, ShownBy(stream'[s]) = n,
               \A r \in Streams : r # s => stream'[r] = stream[r]
        PROVE  Abstract!FeedMovesOn(s)
    <3>1. n \in seen[s] + 1 .. pushed
      <4>1. seen[s] \in Nat /\ n \in Nat /\ pushed \in Nat
        BY <1>2, <2>1 DEF TypeOK, ShownBy, Pushes, None
      <4>2. seen[s] < n
        BY <2>1, <2>4
      <4> HIDE DEF seen
      <4>3. QED
        BY <2>4, <4>1, <4>2
    <3>2. seen' = [seen EXCEPT ![s] = n]
      BY <2>1, <2>4
    <3>3. QED
      BY <2>4, <3>1, <3>2 DEF Abstract!FeedMovesOn
  <2>5. QED
    BY <1>2, <2>2, <2>3, <2>4, FeedStep
<1>3. QED
  BY <1>1, <1>2, FeedInvariant, PTL DEF Spec, IsAFeed, Abstract!FeedSpec
=============================================================================
