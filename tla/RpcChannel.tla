----------------------------- MODULE RpcChannel -----------------------------
(***************************************************************************)
(* One kRPC connection (krpc/client.go): Call, serialised by rpcMu and     *)
(* bounded by a deadline, and the service catalogue that a scalar or enum  *)
(* call loads on first use under discMu.  Requests carry no identifier     *)
(* that a reply repeats: a reply belongs to a request only by its place on *)
(* the wire.  Here each request has a number, which the code cannot see.   *)
(*                                                                         *)
(* The model is the life of one Conn; after Close its calls fail.  Left    *)
(* out: a deadline that passes inside a message, half written or half read.*)
(*                                                                         *)
(* An operator named for a slip (SendUnlocked, DiscoverTwice, ...) is a    *)
(* faulty variant of the definition after it, which the properties must    *)
(* tell from the real one.                                                 *)
(***************************************************************************)
EXTENDS Integers, Sequences, FiniteSets

CONSTANTS
  Clients,   \* goroutines calling on the connection
  NoClient,  \* a mutex that is free
  MaxCalls,  \* bound on the requests sent
  Faults     \* which of FaultKinds may happen

(* refusal: the game answers with an error; close: some tool drops the      *)
(* connection; timeout: a call's deadline passes before its reply is read.  *)
FaultKinds == {"refusal", "close", "timeout"}

ASSUME NoClientAssumption == NoClient \notin Clients
ASSUME MaxCallsAssumption == MaxCalls \in Nat
ASSUME FaultsAssumption   == Faults \subseteq FaultKinds

VARIABLES
  pc,       \* where each client is
  typed,    \* its call decodes by the catalogue (callScalar, callEnum)
  rpcMu,    \* who holds rpcMu
  discMu,   \* who holds discMu
  loaded,   \* the catalogue (enums, procs) is set
  sent,     \* requests sent so far: their numbers are 1 .. sent
  mine,     \* the number of each client's last request
  got,      \* the number of the request whose reply the client last read
  inbox,    \* requests on their way to the game
  outbox,   \* replies on their way back
  closed,   \* the connection is closed
  late      \* history: some call has given up on its reply

vars == <<pc, typed, rpcMu, discMu, loaded, sent, mine, got, inbox, outbox,
          closed, late>>

(* call, wait: Call before and after its write; discover: at ensureDiscovery; *)
(* store: about to set the catalogue; lookup: reading it, discMu released.  *)
Places == {"idle", "call", "wait", "discover", "store", "lookup"}

Reply == [id: 1 .. MaxCalls, ok: BOOLEAN]

(* Each lock is in the hands of a client that is inside it.                 *)
LocksHeld ==
  \A c \in Clients :
    /\ rpcMu = c <=> pc[c] = "wait"
    /\ discMu = c => pc[c] \in {"call", "wait", "store"}
    /\ pc[c] = "store" => discMu = c

ClientsOK ==
  /\ pc \in [Clients -> Places]
  /\ typed \in [Clients -> BOOLEAN]
  /\ rpcMu \in Clients \cup {NoClient}
  /\ discMu \in Clients \cup {NoClient}

WireOK ==
  /\ sent \in 0 .. MaxCalls
  /\ mine \in [Clients -> 0 .. MaxCalls]
  /\ got \in [Clients -> 0 .. MaxCalls]
  /\ inbox \in Seq(1 .. MaxCalls)
  /\ outbox \in Seq(Reply)

FlagsOK == loaded \in BOOLEAN /\ closed \in BOOLEAN /\ late \in BOOLEAN

(* Types, and no lock left behind.                                          *)
TypeOK == ClientsOK /\ WireOK /\ FlagsOK /\ LocksHeld

Init ==
  /\ pc = [c \in Clients |-> "idle"]
  /\ typed = [c \in Clients |-> FALSE]
  /\ rpcMu = NoClient
  /\ discMu = NoClient
  /\ loaded = FALSE
  /\ sent = 0
  /\ mine = [c \in Clients |-> 0]
  /\ got = [c \in Clients |-> 0]
  /\ inbox = << >>
  /\ outbox = << >>
  /\ closed = FALSE
  /\ late = FALSE

Goto(c, place) == pc' = [pc EXCEPT ![c] = place]

Discovering(c) == discMu = c

(* Call has returned to client c, with an answer or with an error.  In      *)
(* ensureDiscovery an error is swallowed and the catalogue stays unset.     *)
ReturnAnswer(c) ==
  /\ Goto(c, IF Discovering(c) THEN "store"
             ELSE IF typed[c] THEN "discover" ELSE "idle")
  /\ UNCHANGED discMu

ReturnErrorLocked(c) ==
  /\ Goto(c, IF Discovering(c) THEN "lookup" ELSE "idle")
  /\ UNCHANGED discMu

ReturnError(c) ==
  /\ Goto(c, IF Discovering(c) THEN "lookup" ELSE "idle")
  /\ discMu' = IF Discovering(c) THEN NoClient ELSE discMu

-----------------------------------------------------------------------------
(* A call sends at most two requests: its own and one of GetServices.  The  *)
(* second conjunct is the bound of the model.                               *)
Busy == {c \in Clients : pc[c] # "idle"}

Start(c) ==
  /\ pc[c] = "idle"
  /\ sent + 2 * (Cardinality(Busy) + 1) =< MaxCalls
  /\ Goto(c, "call")
  /\ \E b \in BOOLEAN : typed' = [typed EXCEPT ![c] = b]
  /\ UNCHANGED <<rpcMu, discMu, loaded, sent, mine, got, inbox, outbox, closed,
                 late>>

(* Call: take rpcMu, set the deadline, write the request.                   *)
Write(c) ==
  /\ sent' = sent + 1
  /\ mine' = [mine EXCEPT ![c] = sent + 1]
  /\ inbox' = Append(inbox, sent + 1)
  /\ Goto(c, "wait")
  /\ UNCHANGED <<typed, discMu, loaded, got, outbox, closed, late>>

SendUnlocked(c) ==
  /\ pc[c] = "call"
  /\ ~closed
  /\ sent < MaxCalls
  /\ rpcMu' = c
  /\ Write(c)

Send(c) ==
  /\ pc[c] = "call"
  /\ rpcMu = NoClient
  /\ ~closed
  /\ sent < MaxCalls
  /\ rpcMu' = c
  /\ Write(c)

(* The write fails on a connection that was closed.                         *)
SendFails(c) ==
  /\ pc[c] = "call"
  /\ rpcMu = NoClient
  /\ closed
  /\ ReturnError(c)
  /\ UNCHANGED <<typed, rpcMu, loaded, sent, mine, got, inbox, outbox, closed,
                 late>>

(* Call reads the next reply on the wire and takes it for its own.  A reply *)
(* that is another request's may also fail to decode.                       *)
Receive(c) ==
  /\ pc[c] = "wait"
  /\ ~closed
  /\ outbox # << >>
  /\ got' = [got EXCEPT ![c] = Head(outbox).id]
  /\ outbox' = Tail(outbox)
  /\ rpcMu' = NoClient
  /\ \/ Head(outbox).ok /\ ReturnAnswer(c)
     \/ (~Head(outbox).ok \/ Head(outbox).id # mine[c]) /\ ReturnError(c)
  /\ UNCHANGED <<typed, loaded, sent, mine, inbox, closed, late>>

(* The deadline passes or the connection is closed under the read: Call     *)
(* returns an error and leaves whatever is still on the wire where it is.   *)
ReadMayFail == closed \/ ("timeout" \in Faults /\ outbox = << >>)

ReadFailsLocked(c) ==
  /\ pc[c] = "wait"
  /\ ReadMayFail
  /\ ReturnError(c)
  /\ late' = (late \/ ~closed)
  /\ UNCHANGED <<typed, rpcMu, loaded, sent, mine, got, inbox, outbox, closed>>

ReadFails(c) ==
  /\ pc[c] = "wait"
  /\ ReadMayFail
  /\ rpcMu' = NoClient
  /\ ReturnError(c)
  /\ late' = (late \/ ~closed)
  /\ UNCHANGED <<typed, loaded, sent, mine, got, inbox, outbox, closed>>

-----------------------------------------------------------------------------
(* ensureDiscovery: with the catalogue set it only takes and releases the   *)
(* lock; otherwise it holds it over a call of KRPC.GetServices.             *)
DiscoverTwice(c) ==
  /\ pc[c] = "discover"
  /\ discMu = NoClient
  /\ Goto(c, "call")
  /\ discMu' = c
  /\ UNCHANGED <<typed, rpcMu, loaded, sent, mine, got, inbox, outbox, closed,
                 late>>

Discover(c) ==
  /\ pc[c] = "discover"
  /\ discMu = NoClient
  /\ IF loaded THEN Goto(c, "lookup") /\ UNCHANGED discMu
     ELSE Goto(c, "call") /\ discMu' = c
  /\ UNCHANGED <<typed, rpcMu, loaded, sent, mine, got, inbox, outbox, closed,
                 late>>

Store(c) ==
  /\ pc[c] = "store"
  /\ loaded' = TRUE
  /\ discMu' = NoClient
  /\ Goto(c, "lookup")
  /\ UNCHANGED <<typed, rpcMu, sent, mine, got, inbox, outbox, closed, late>>

(* enumName and returnCode read the catalogue after discMu is released.     *)
Lookup(c) ==
  /\ pc[c] = "lookup"
  /\ Goto(c, "idle")
  /\ UNCHANGED <<typed, rpcMu, discMu, loaded, sent, mine, got, inbox, outbox,
                 closed, late>>

-----------------------------------------------------------------------------
(* The game answers requests in the order they arrive.                      *)
Serve ==
  /\ inbox # << >>
  /\ inbox' = Tail(inbox)
  /\ \E b \in BOOLEAN :
       /\ b \/ "refusal" \in Faults
       /\ outbox' = Append(outbox, [id |-> Head(inbox), ok |-> b])
  /\ UNCHANGED <<pc, typed, rpcMu, discMu, loaded, sent, mine, got, closed,
                 late>>

(* Conn.Close, called by kspServer.drop without rpcMu.                      *)
Close ==
  /\ "close" \in Faults
  /\ ~closed
  /\ closed' = TRUE
  /\ UNCHANGED <<pc, typed, rpcMu, discMu, loaded, sent, mine, got, inbox,
                 outbox, late>>

ClientStep(c) ==
  \/ Send(c) \/ SendFails(c) \/ Receive(c) \/ ReadFails(c)
  \/ Discover(c) \/ Store(c) \/ Lookup(c)

Next ==
  \/ \E c \in Clients : Start(c) \/ ClientStep(c)
  \/ Serve
  \/ Close

Spec == Init /\ [][Next]_vars

(* Every call has a deadline, and Go's mutexes hand over to a waiter that   *)
(* has waited long enough.                                                  *)
FairSpec == Spec /\ \A c \in Clients : SF_vars(ClientStep(c))

-----------------------------------------------------------------------------
(* The reply a call reads is the one to the request it has just sent, as    *)
(* client.go:60-62 says that its serialisation under rpcMu gives, until the *)
(* first call gives up on its reply: that reply is then taken by the next.  *)
OwnAnswerInTime ==
  [][\A c \in Clients : ~late /\ got'[c] # got[c] => got'[c] = mine[c]]_vars

(* ensureDiscovery (client.go:221) loads the catalogues "once": whoever     *)
(* holds discMu over a call is there because they are not loaded.           *)
LoadedOnce ==
  \A c \in Clients : Discovering(c) => ~loaded

(* Every call returns, with its deadline if not with its reply: no client   *)
(* waits for ever on the game, or on the two locks the others hold.         *)
EveryCallReturns ==
  \A c \in Clients : pc[c] # "idle" ~> pc[c] = "idle"
=============================================================================
