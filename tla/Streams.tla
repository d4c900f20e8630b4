------------------------------ MODULE Streams -------------------------------
(***************************************************************************)
(* The telemetry streams of one kRPC connection (krpc/stream.go).  Users   *)
(* are goroutines that subscribe, read and unsubscribe; the read loop is   *)
(* another, which takes the updates that the server pushes off the stream  *)
(* socket and hands each result to the Stream registered for its id.       *)
(* AddStream and RemoveStream are calls on the other socket, so an update  *)
(* can pass either of them on the way.                                     *)
(*                                                                         *)
(* A value is the number of the update that brought it.  The game keeps    *)
(* one stream for each call streamed (stream.go:199).  Left out: a         *)
(* connection made without the stream port, where both calls only return   *)
(* ErrNoStream.                                                            *)
(*                                                                         *)
(* An operator named for a slip (RegisterOver, WantedNil, ...) is a faulty *)
(* variant of the definition after it, which the properties must tell from *)
(* the real one.                                                           *)
(***************************************************************************)
EXTENDS Integers, Sequences, SequencesExt

CONSTANTS
  Users,      \* goroutines using the streams
  Calls,      \* the procedure calls worth streaming
  MaxIds,     \* bound on the ids the server hands out
  MaxAdds,    \* bound on the streams asked for
  MaxPushes,  \* bound on the updates pushed
  MaxWire,    \* bound on the updates on their way
  Faults      \* which of FaultKinds may happen

(* refusal: the game refuses a call; lost: a call's request or reply is     *)
(* lost; close: a tool closes the connection, or the socket breaks.         *)
FaultKinds == {"refusal", "lost", "close"}

ASSUME BoundsAssumption == /\ {MaxIds, MaxAdds} \subseteq Nat \ {0}
                           /\ {MaxPushes, MaxWire} \subseteq Nat
ASSUME FaultsAssumption == Faults \subseteq FaultKinds

Ids     == 1 .. MaxIds
Streams == 1 .. MaxAdds     \* the Stream objects, in the order of allocation
Pushes  == 1 .. MaxPushes
None    == 0                \* no id, no Stream, no value

VARIABLES
  loop,      \* the read loop: not started, reading, setting, waking, ended
  closed,    \* the sockets are closed
  running,   \* the game: the id of the stream of each call, or None
  nextId,    \* the game: the id of the next stream
  wire,      \* updates on their way: each a sequence of results
  pushed,    \* how many updates the game has pushed
  byID,      \* streamConn.byID
  targets,   \* dispatch: the results still to be set, by place in the update
  stream,    \* each Stream: its id, value, err, got, and whether ready is closed
  made,      \* how many Streams were allocated
  pc,        \* where each user is
  id,        \* the id that the reply of AddStream gave the user
  handle,    \* the Stream the user holds
  removed    \* history: the ids on which RemoveStream was called

userVars   == <<pc, id, handle, made, removed>>
serverVars == <<running, nextId>>
loopVars   == <<loop, targets>>
vars == <<userVars, serverVars, loopVars, closed, wire, pushed, byID, stream>>

(* register: AddStream after its call; told: WaitReady has returned nil;    *)
(* unsubscribe: RemoveStream before its call.                               *)
Places == {"idle", "register", "holding", "told", "unsubscribe"}

(* nil: a result without content, which a Go pointer field can be.          *)
Result == [id: Ids, n: Pushes, kind: {"value", "error", "nil"}]

NewStream(i) == [id |-> i, value |-> None, err |-> None, got |-> FALSE,
                 ready |-> FALSE]

(* What Value shows: the number of the update it comes from.                *)
Shows(s) == IF stream[s].err # None THEN stream[s].err ELSE stream[s].value

(* The read loop feeds Stream s.                                            *)
Registered(s) == stream[s].id # None /\ byID[stream[s].id] = s

(* A user has a Stream until its RemoveStream begins.                       *)
Holding(u) == pc[u] \in {"holding", "told"}

TypeOK ==
  /\ loop \in {"off", "read", "set", "wake", "ended"}
  /\ closed \in BOOLEAN
  /\ running \in [Calls -> Ids \cup {None}]
  /\ nextId \in 1 .. MaxIds + 1
  /\ wire \in Seq(Seq(Result))
  /\ pushed \in 0 .. MaxPushes
  /\ byID \in [Ids -> Streams \cup {None}]
  /\ DOMAIN targets \subseteq Nat
  /\ \A j \in DOMAIN targets :
       targets[j] \in [stream: Streams, n: Pushes, kind: {"value", "error"}]
  /\ stream \in [Streams -> [id: Ids \cup {None}, value: {None} \cup Pushes,
                             err: {None} \cup Pushes, got: BOOLEAN,
                             ready: BOOLEAN]]
  /\ made \in 0 .. MaxAdds
  /\ pc \in [Users -> Places]
  /\ id \in [Users -> Ids \cup {None}]
  /\ handle \in [Users -> Streams \cup {None}]
  /\ removed \subseteq Ids

Init ==
  /\ loop = "off"
  /\ closed = FALSE
  /\ running = [c \in Calls |-> None]
  /\ nextId = 1
  /\ wire = << >>
  /\ pushed = 0
  /\ byID = [i \in Ids |-> None]
  /\ targets = << >>
  /\ stream = [s \in Streams |-> NewStream(None)]
  /\ made = 0
  /\ pc = [u \in Users |-> "idle"]
  /\ id = [u \in Users |-> None]
  /\ handle = [u \in Users |-> None]
  /\ removed = {}

-----------------------------------------------------------------------------
(* The connection                                                           *)

(* Dial: with both handshakes done the read loop starts; when either fails  *)
(* nothing is left open.                                                    *)
Dial ==
  /\ loop = "off" /\ ~closed
  /\ \/ loop' = "read" /\ UNCHANGED closed
     \/ closed' = TRUE /\ UNCHANGED loop
  /\ UNCHANGED <<userVars, serverVars, targets, wire, pushed, byID, stream>>

(* Close, or the sockets break: what was on the way is gone.                *)
Close ==
  /\ "close" \in Faults
  /\ ~closed /\ loop # "off"
  /\ closed' = TRUE
  /\ wire' = << >>
  /\ running' = [c \in Calls |-> None]
  /\ UNCHANGED <<userVars, nextId, loopVars, pushed, byID, stream>>

(* How a call on the other socket can end: whether it returns without an    *)
(* error, and whether the game carried it out.                              *)
Outcomes ==
  {o \in [ok: BOOLEAN, done: BOOLEAN] :
     /\ o.done => ~closed
     /\ o.ok => o.done
     /\ o.ok \/ closed \/ Faults \cap {"refusal", "lost"} # {}
     /\ o.done /\ ~o.ok => "lost" \in Faults}

-----------------------------------------------------------------------------
(* The users                                                                *)
Goto(u, place) == pc' = [pc EXCEPT ![u] = place]

(* AddStream: the call.  The game answers with the stream it has for the    *)
(* same call, or with a new one.                                            *)
AddStream(u, c) ==
  /\ pc[u] = "idle"
  /\ loop # "off" /\ made < MaxAdds
  /\ \E o \in Outcomes :
       LET i == IF running[c] # None THEN running[c] ELSE nextId IN
       /\ o.done => i \in Ids
       /\ IF o.done
            THEN /\ running' = [running EXCEPT ![c] = i]
                 /\ nextId' = IF running[c] # None THEN nextId ELSE nextId + 1
            ELSE UNCHANGED serverVars
       /\ IF o.ok THEN /\ Goto(u, "register")
                       /\ id' = [id EXCEPT ![u] = i]
                  ELSE UNCHANGED <<pc, id>>
       /\ made' = made + 1
  /\ UNCHANGED <<handle, removed, loopVars, closed, wire, pushed, byID, stream>>

(* The next Stream object to allocate.                                      *)
Unused(s) == stream[s].id = None /\ \A t \in 1 .. s - 1 : stream[t].id # None

RegisterOver(u) ==
  /\ pc[u] = "register"
  /\ \E s \in Streams :
       /\ Unused(s)
       /\ stream' = [stream EXCEPT ![s] = NewStream(id[u])]
       /\ byID' = [byID EXCEPT ![id[u]] = s]
       /\ handle' = [handle EXCEPT ![u] = s]
  /\ Goto(u, "holding")
  /\ UNCHANGED <<id, made, removed, serverVars, loopVars, closed, wire, pushed>>

(* AddStream: under the mutex, the Stream registered for the id, or a new   *)
(* one.                                                                     *)
Register(u) ==
  /\ pc[u] = "register"
  /\ \E s \in Streams :
       /\ \/ s = byID[id[u]] /\ UNCHANGED <<stream, byID>>
          \/ /\ byID[id[u]] = None /\ Unused(s)
             /\ stream' = [stream EXCEPT ![s] = NewStream(id[u])]
             /\ byID' = [byID EXCEPT ![id[u]] = s]
       /\ handle' = [handle EXCEPT ![u] = s]
  /\ Goto(u, "holding")
  /\ UNCHANGED <<id, made, removed, serverVars, loopVars, closed, wire, pushed>>

(* WaitReady returns nil: ready is closed, and Value shows no error.  (When *)
(* it times out or returns the error nothing changes.)                      *)
WaitReady(u) ==
  /\ pc[u] = "holding"
  /\ stream[handle[u]].ready /\ stream[handle[u]].err = None
  /\ Goto(u, "told")
  /\ UNCHANGED <<id, handle, made, removed, serverVars, loopVars, closed, wire,
                 pushed, byID, stream>>

(* RemoveStream: forget the id under the mutex, then tell the game.         *)
Forget(u) ==
  /\ pc[u] \in {"holding", "told"}
  /\ byID' = [byID EXCEPT ![stream[handle[u]].id] = None]
  /\ removed' = removed \cup {stream[handle[u]].id}
  /\ Goto(u, "unsubscribe")
  /\ UNCHANGED <<id, handle, made, serverVars, loopVars, closed, wire, pushed,
                 stream>>

RemoveStream(u) ==
  /\ pc[u] = "unsubscribe"
  /\ \E o \in Outcomes :
       running' = IF o.done
                  THEN [c \in Calls |->
                          IF running[c] = stream[handle[u]].id THEN None
                          ELSE running[c]]
                  ELSE running
  /\ handle' = [handle EXCEPT ![u] = None]
  /\ id' = [id EXCEPT ![u] = None]
  /\ Goto(u, "idle")
  /\ UNCHANGED <<made, removed, nextId, loopVars, closed, wire, pushed, byID,
                 stream>>

-----------------------------------------------------------------------------
(* The game pushes an update with results of some of its streams.           *)
Push ==
  /\ ~closed /\ loop # "off"
  /\ pushed < MaxPushes /\ Len(wire) < MaxWire
  /\ pushed' = pushed + 1
  /\ \E ids \in (SUBSET {i \in Ids : \E c \in Calls : running[c] = i}) \ {{}} :
       \E order \in SetToSeqs(ids), kind \in [ids -> {"value", "error", "nil"}] :
         wire' = Append(wire, [j \in DOMAIN order |->
                   [id |-> order[j], n |-> pushed + 1, kind |-> kind[order[j]]]])
  /\ UNCHANGED <<userVars, serverVars, loopVars, closed, byID, stream>>

-----------------------------------------------------------------------------
(* The read loop                                                            *)

(* A registered Stream gets the result r.                                   *)
Target(r) == [stream |-> byID[r.id], n |-> r.n, kind |-> r.kind]

WantedNil(update) ==
  [j \in {k \in DOMAIN update : byID[update[k].id] # None} |->
     Target(update[j])]

(* The results of an update that are for a registered Stream.               *)
Wanted(update) ==
  [j \in {k \in DOMAIN update :
            update[k].kind # "nil" /\ byID[update[k].id] # None} |->
     Target(update[j])]

CollectUntilNil ==
  /\ loop = "read" /\ wire # << >>
  /\ wire' = Tail(wire)
  /\ targets' = IF \E j \in DOMAIN wire[1] : wire[1][j].kind = "nil"
                THEN << >> ELSE Wanted(wire[1])
  /\ loop' = IF DOMAIN targets' = {} THEN "read" ELSE "set"
  /\ UNCHANGED <<userVars, serverVars, closed, pushed, byID, stream>>

CollectAhead ==
  /\ loop \in {"read", "set"} /\ wire # << >>
  /\ wire' = Tail(wire)
  /\ LET w == Wanted(wire[1])
         late == {j + Len(wire[1]) : j \in DOMAIN targets}
     IN  targets' = [j \in DOMAIN w \cup late |->
                       IF j \in late THEN targets[j - Len(wire[1])] ELSE w[j]]
  /\ loop' = IF DOMAIN targets' = {} THEN "read" ELSE "set"
  /\ UNCHANGED <<userVars, serverVars, closed, pushed, byID, stream>>

(* readMessage and the part of dispatch under the mutex: collect the        *)
(* results that are for a registered Stream.                                *)
Collect ==
  /\ loop = "read" /\ wire # << >>
  /\ wire' = Tail(wire)
  /\ targets' = Wanted(wire[1])
  /\ loop' = IF DOMAIN targets' = {} THEN "read" ELSE "set"
  /\ UNCHANGED <<userVars, serverVars, closed, pushed, byID, stream>>

(* dispatch sets the results in their order.                                *)
IsNext(j) == j \in DOMAIN targets /\ \A k \in DOMAIN targets : j <= k

SetKeepsErr ==
  /\ loop = "set"
  /\ \E j \in DOMAIN targets : IsNext(j) /\
       LET t == targets[j] IN
       stream' = [stream EXCEPT ![t.stream] =
         IF t.kind = "error" THEN [@ EXCEPT !.err = t.n, !.got = TRUE]
         ELSE [@ EXCEPT !.value = t.n, !.got = TRUE]]
  /\ loop' = "wake"
  /\ UNCHANGED <<userVars, serverVars, targets, closed, wire, pushed, byID>>

(* Stream.set: the value or the error, under the Stream's own mutex.        *)
Set ==
  /\ loop = "set"
  /\ \E j \in DOMAIN targets : IsNext(j) /\
       LET t == targets[j] IN
       stream' = [stream EXCEPT ![t.stream] =
         IF t.kind = "error" THEN [@ EXCEPT !.err = t.n, !.got = TRUE]
         ELSE [@ EXCEPT !.value = t.n, !.err = None, !.got = TRUE]]
  /\ loop' = "wake"
  /\ UNCHANGED <<userVars, serverVars, targets, closed, wire, pushed, byID>>

(* Stream.set: close ready, once; then the next result, or the next update. *)
Wake ==
  /\ loop = "wake"
  /\ \E j \in DOMAIN targets : IsNext(j) /\
       /\ stream' = [stream EXCEPT ![targets[j].stream].ready = TRUE]
       /\ targets' = [k \in DOMAIN targets \ {j} |-> targets[k]]
  /\ loop' = IF DOMAIN targets' = {} THEN "read" ELSE "set"
  /\ UNCHANGED <<userVars, serverVars, closed, wire, pushed, byID>>

(* readMessage fails: the loop ends, and tells nobody.                      *)
LoopEnds ==
  /\ loop = "read" /\ closed
  /\ loop' = "ended"
  /\ UNCHANGED <<userVars, serverVars, targets, closed, wire, pushed, byID,
                 stream>>

ReadLoop == Collect \/ Set \/ Wake \/ LoopEnds

-----------------------------------------------------------------------------
User(u) ==
  \/ \E c \in Calls : AddStream(u, c)
  \/ Register(u) \/ WaitReady(u) \/ Forget(u) \/ RemoveStream(u)

Next == Dial \/ Close \/ Push \/ ReadLoop \/ \E u \in Users : User(u)

(* The read loop is a goroutine that is always scheduled.                   *)
Spec == Init /\ [][Next]_vars /\ WF_vars(ReadLoop)

-----------------------------------------------------------------------------
(* Both callers of the same call see its updates (stream.go:199): whoever   *)
(* holds a Stream holds the one that the read loop feeds and that the game  *)
(* streams, until somebody removes it or the connection is closed.          *)
HoldersAreFed ==
  \A u \in Users :
    Holding(u) /\ stream[handle[u]].id \notin removed =>
      /\ Registered(handle[u])
      /\ closed \/ \E c \in Calls : running[c] = stream[handle[u]].id

(* A WaitReady that returned nil left a value to read, and an error stands  *)
(* in Value only until the next value.                                      *)
ToldOfAValue ==
  /\ \A u \in Users : pc[u] = "told" => stream[handle[u]].value # None
  /\ \A s \in Streams : stream[s].err # None => stream[s].err > stream[s].value

(* Each Stream is a feed of what the game pushed: it shows the pushes in    *)
(* their order, none late and none twice, although dispatch sets values     *)
(* after it has let go of the registry.                                     *)
Abstract == INSTANCE Feed WITH Feeds <- Streams,
                               seen <- [s \in Streams |-> Shows(s)]
IsAFeed == Abstract!FeedSpec

(* A result that is on its way to a registered Stream reaches it, unless    *)
(* the Stream is removed or the connection is closed first: nothing before  *)
(* it in the update or the queue stops it.                                  *)
Arrives ==
  \A s \in Streams, n \in Pushes :
    (/\ Registered(s)
     /\ \E j \in DOMAIN wire : \E k \in DOMAIN wire[j] :
          /\ wire[j][k].id = stream[s].id
          /\ wire[j][k].n = n /\ wire[j][k].kind # "nil")
    ~> (Shows(s) >= n \/ ~Registered(s) \/ closed)
=============================================================================
