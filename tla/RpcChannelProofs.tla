-------------------------- MODULE RpcChannelProofs --------------------------
(***************************************************************************)
(* Proofs about RpcChannel for any set of clients and any bound: its types *)
(* and locks, the catalogue's being loaded once, and that every call reads *)
(* its own reply until some call has given up on one.                      *)
(***************************************************************************)
EXTENDS RpcChannel, TLAPS

USE NoClientAssumption, MaxCallsAssumption

(* The types and locks hold at first.                                       *)
LEMMA TypesInit == Init => TypeOK
<1> SUFFICES ASSUME Init PROVE TypeOK
  OBVIOUS
<1>1. FlagsOK
  BY Zenon DEF Init, FlagsOK
<1>2. pc \in [Clients -> Places] /\ \A c \in Clients : pc[c] = "idle"
  BY DEF Init, Places
<1>3. ClientsOK /\ LocksHeld
  BY <1>2 DEF Init, ClientsOK, LocksHeld
<1>4. WireOK
  BY DEF Init, WireOK
<1> QED
  BY <1>1, <1>3, <1>4 DEF TypeOK

(* The flags stay flags.                                                    *)
LEMMA FlagsStep == FlagsOK /\ [Next]_vars => FlagsOK'
<1> SUFFICES ASSUME FlagsOK, [Next]_vars PROVE FlagsOK'
  OBVIOUS
<1>1. loaded' \in {loaded, TRUE}
  BY DEF Next, ClientStep, Start, Send, Write, SendFails, Receive, ReadFails,
         Discover, Store, Lookup, Serve, Close, vars
<1>2. closed' \in {closed, TRUE}
  BY DEF Next, ClientStep, Start, Send, Write, SendFails, Receive, ReadFails,
         Discover, Store, Lookup, Serve, Close, vars
<1>3. late' = late \/ late' = (late \/ ~closed)
  BY DEF Next, ClientStep, Start, Send, Write, SendFails, Receive, ReadFails,
         Discover, Store, Lookup, Serve, Close, vars
<1> QED
  BY <1>1, <1>2, <1>3, Zenon DEF FlagsOK

(* Requests and replies stay numbered within the bound.                     *)
LEMMA WireStep == WireOK /\ [Next]_vars => WireOK'
<1> SUFFICES ASSUME WireOK, [Next]_vars PROVE WireOK'
  OBVIOUS
<1>1. ASSUME NEW c \in Clients, Send(c) PROVE WireOK'
  <2>1. inbox' \in Seq(1 .. MaxCalls)
    BY <1>1 DEF WireOK, Send, Write
  <2> QED
    BY <1>1, <2>1 DEF WireOK, Send, Write
<1>2. ASSUME NEW c \in Clients, Receive(c) PROVE WireOK'
  <2>1. Head(outbox) \in Reply /\ outbox' \in Seq(Reply)
    BY <1>2 DEF WireOK, Receive
  <2>2. Head(outbox).id \in 1 .. MaxCalls
    BY <2>1 DEF Reply
  <2> QED
    BY <1>2, <2>1, <2>2 DEF WireOK, Receive
<1>3. ASSUME Serve PROVE WireOK'
  BY <1>3 DEF WireOK, Serve, Reply
<1>4. ASSUME UNCHANGED <<sent, mine, got, inbox, outbox>> PROVE WireOK'
  BY <1>4 DEF WireOK
<1>5. ASSUME NEW c \in Clients,
             \/ Start(c) \/ SendFails(c) \/ ReadFails(c)
             \/ Discover(c) \/ Store(c) \/ Lookup(c)
      PROVE  UNCHANGED <<sent, mine, got, inbox, outbox>>
  BY <1>5 DEF Start, SendFails, ReadFails, Discover, Store, Lookup
<1>6. Close \/ UNCHANGED vars => UNCHANGED <<sent, mine, got, inbox, outbox>>
  BY DEF Close, vars
<1> QED
  BY <1>1, <1>2, <1>3, <1>4, <1>5, <1>6 DEF Next, ClientStep

(* Every step leaves the locks with clients that are inside them.           *)
LEMMA ClientsStep ==
  ASSUME ClientsOK, LocksHeld, [Next]_vars
  PROVE  ClientsOK' /\ LocksHeld'
<1> USE DEF ClientsOK, LocksHeld, Places
<1>1. ASSUME NEW c \in Clients, Start(c) PROVE ClientsOK' /\ LocksHeld'
  BY <1>1 DEF Start, Goto
<1>2. ASSUME NEW c \in Clients, Send(c) PROVE ClientsOK' /\ LocksHeld'
  BY <1>2 DEF Send, Write, Goto
<1>3. ASSUME NEW c \in Clients, SendFails(c) PROVE ClientsOK' /\ LocksHeld'
  BY <1>3 DEF SendFails, ReturnError, Discovering, Goto
<1>4. ASSUME NEW c \in Clients, pc[c] = "wait", rpcMu' = NoClient,
             typed' = typed, ReturnAnswer(c) \/ ReturnError(c)
      PROVE  ClientsOK' /\ LocksHeld'
  <2>1. CASE ReturnAnswer(c)
    BY <1>4, <2>1 DEF ReturnAnswer, Discovering, Goto
  <2>2. CASE ReturnError(c)
    BY <1>4, <2>2 DEF ReturnError, Discovering, Goto
  <2> QED
    BY <1>4, <2>1, <2>2
<1>5. ASSUME NEW c \in Clients, Receive(c) \/ ReadFails(c)
      PROVE  ClientsOK' /\ LocksHeld'
  <2>1. /\ pc[c] = "wait" /\ rpcMu' = NoClient /\ typed' = typed
        /\ ReturnAnswer(c) \/ ReturnError(c)
    BY <1>5 DEF Receive, ReadFails
  <2> QED
    BY <1>4, <2>1
<1>6. ASSUME NEW c \in Clients, Discover(c) PROVE ClientsOK' /\ LocksHeld'
  <2>1. UNCHANGED <<typed, rpcMu>>
    BY <1>6 DEF Discover
  <2>2. CASE pc' = [pc EXCEPT ![c] = "lookup"] /\ discMu' = discMu
    BY <1>6, <2>1, <2>2 DEF Discover
  <2>3. CASE pc' = [pc EXCEPT ![c] = "call"] /\ discMu' = c
    BY <1>6, <2>1, <2>3 DEF Discover
  <2> QED
    BY <1>6, <2>2, <2>3 DEF Discover, Goto
<1>7. ASSUME NEW c \in Clients, Store(c) PROVE ClientsOK' /\ LocksHeld'
  BY <1>7 DEF Store, Goto
<1>8. ASSUME NEW c \in Clients, Lookup(c) PROVE ClientsOK' /\ LocksHeld'
  BY <1>8 DEF Lookup, Goto
<1>9. ASSUME Serve \/ Close \/ UNCHANGED vars PROVE ClientsOK' /\ LocksHeld'
  BY <1>9 DEF Serve, Close, vars
<1> QED
  BY <1>1, <1>2, <1>3, <1>5, <1>6, <1>7, <1>8, <1>9 DEF Next, ClientStep

(* Both locks of a Conn are only ever held by a client that is inside them. *)
THEOREM ChannelTypes == Spec => []TypeOK
<1>1. TypeOK /\ [Next]_vars => TypeOK'
  BY FlagsStep, WireStep, ClientsStep DEF TypeOK
<1> QED
  BY TypesInit, <1>1, PTL DEF Spec

-----------------------------------------------------------------------------
(* Whatever fails, the catalogue is fetched by one client at most, and no   *)
(* more once it is set.                                                     *)
THEOREM CatalogueLoadedOnce == Spec => []LoadedOnce
<1>1. Init => LoadedOnce
  BY DEF Init, LoadedOnce, Discovering
<1>2. TypeOK /\ LoadedOnce /\ [Next]_vars => LoadedOnce'
  <2> SUFFICES ASSUME TypeOK, LoadedOnce, [Next]_vars PROVE LoadedOnce'
    OBVIOUS
  <2>1. ASSUME NEW c \in Clients, Discover(c) PROVE LoadedOnce'
    BY <2>1 DEF LoadedOnce, Discovering, Discover
  <2>2. ASSUME NEW c \in Clients, Store(c) PROVE LoadedOnce'
    BY <2>2 DEF LoadedOnce, Discovering, Store
  <2>3. loaded' = loaded /\ discMu' \in {discMu, NoClient} => LoadedOnce'
    BY DEF LoadedOnce, Discovering
  <2>4. ASSUME NEW c \in Clients,
               \/ Start(c) \/ Send(c) \/ SendFails(c) \/ Receive(c)
               \/ ReadFails(c) \/ Lookup(c)
        PROVE  loaded' = loaded /\ discMu' \in {discMu, NoClient}
    BY <2>4 DEF Start, Send, Write, SendFails, Receive, ReadFails, Lookup,
                ReturnAnswer, ReturnError
  <2>5. Serve \/ Close \/ UNCHANGED vars
        => loaded' = loaded /\ discMu' \in {discMu, NoClient}
    BY DEF Serve, Close, vars
  <2> QED
    BY <2>1, <2>2, <2>3, <2>4, <2>5 DEF Next, ClientStep
<1> QED
  BY <1>1, <1>2, ChannelTypes, PTL DEF Spec

-----------------------------------------------------------------------------
(* Only what the holder of rpcMu is owed is on the wire of an open          *)
(* connection, and it is one request or the one reply to it.                *)
NothingOnWire == inbox = << >> /\ outbox = << >>

OwedOnly(c) ==
  \/ inbox = <<mine[c]>> /\ outbox = << >>
  \/ inbox = << >> /\ \E b \in BOOLEAN : outbox = <<[id |-> mine[c], ok |-> b]>>

InStep ==
  ~closed /\ ~late =>
    /\ rpcMu = NoClient => NothingOnWire
    /\ \A c \in Clients : rpcMu = c => OwedOnly(c)

(* Nothing but a deadline puts an open connection out of step.              *)
LEMMA InStepKept == TypeOK /\ InStep /\ [Next]_vars => InStep'
<1> SUFFICES ASSUME TypeOK, InStep, [Next]_vars, ~closed', ~late' PROVE InStep'
  BY DEF InStep
<1>1. ASSUME NEW c \in Clients, Send(c) PROVE InStep'
  <2>1. /\ rpcMu = NoClient /\ ~closed /\ ~late /\ rpcMu' = c
        /\ mine'[c] = sent + 1
        /\ inbox' = Append(inbox, sent + 1)
        /\ outbox' = outbox
    BY <1>1 DEF Send, Write, TypeOK, ClientsOK, WireOK, LocksHeld
  <2>2. inbox' = <<mine'[c]>> /\ outbox' = << >>
    BY <2>1 DEF InStep, NothingOnWire, TypeOK, ClientsOK
  <2> QED
    BY <2>1, <2>2 DEF InStep, OwedOnly
<1>2. ASSUME NEW c \in Clients, Receive(c) PROVE InStep'
  <2>1. /\ ~closed /\ ~late
        /\ rpcMu = c /\ outbox # << >> /\ rpcMu' = NoClient
        /\ inbox' = inbox /\ outbox' = Tail(outbox)
    BY <1>2 DEF Receive, TypeOK, ClientsOK, WireOK, LocksHeld
  <2>2. inbox = << >> /\ \E b \in BOOLEAN : outbox = <<[id |-> mine[c], ok |-> b]>>
    BY <2>1 DEF InStep, OwedOnly
  <2>3. NothingOnWire'
    BY <2>1, <2>2 DEF NothingOnWire
  <2> QED
    BY <2>1, <2>3 DEF InStep
<1>3. ASSUME NEW c \in Clients, ReadFails(c) PROVE InStep'
  BY <1>3 DEF ReadFails
<1>4. ASSUME Serve PROVE InStep'
  <2>0. ~closed /\ ~late
    BY <1>4 DEF Serve
  <2>1. rpcMu \in Clients
    BY <1>4, <2>0 DEF Serve, InStep, NothingOnWire, TypeOK, ClientsOK
  <2>2. inbox = <<mine[rpcMu]>> /\ outbox = << >>
    BY <1>4, <2>0, <2>1 DEF Serve, InStep, OwedOnly
  <2>3. PICK b \in BOOLEAN :
          outbox' = Append(outbox, [id |-> Head(inbox), ok |-> b])
    BY <1>4 DEF Serve
  <2>4. inbox' = << >> /\ outbox' = <<[id |-> mine[rpcMu], ok |-> b]>>
    BY <1>4, <2>2, <2>3 DEF Serve
  <2> QED
    BY <1>4, <2>1, <2>4 DEF Serve, InStep, OwedOnly
<1>5. ASSUME Close PROVE InStep'
  BY <1>5 DEF Close
<1>6. ASSUME UNCHANGED <<rpcMu, mine, inbox, outbox, closed, late>> PROVE InStep'
  BY <1>6 DEF InStep, NothingOnWire, OwedOnly
<1>7. ASSUME NEW c \in Clients,
             Start(c) \/ SendFails(c) \/ Discover(c) \/ Store(c) \/ Lookup(c)
      PROVE  UNCHANGED <<rpcMu, mine, inbox, outbox, closed, late>>
  BY <1>7 DEF Start, SendFails, Discover, Store, Lookup
<1> QED
  BY <1>1, <1>2, <1>3, <1>4, <1>5, <1>6, <1>7 DEF Next, ClientStep, vars

(* For any clients and whatever is refused or closed, every reply read is   *)
(* the reader's own until some call has given up on its reply.  The run     *)
(* RpcChannel_timeout shows what comes after.                               *)
THEOREM InTimeCallsMatch == Spec => OwnAnswerInTime
<1>1. Init => InStep
  BY DEF Init, InStep, NothingOnWire
<1>2. TypeOK /\ InStep /\ [Next]_vars
      => [\A c \in Clients :
            ~late /\ got'[c] # got[c] => got'[c] = mine[c]]_vars
  <2> SUFFICES ASSUME TypeOK, InStep, [Next]_vars,
                      NEW c \in Clients, ~late, got'[c] # got[c]
               PROVE  got'[c] = mine[c]
    OBVIOUS
  <2>1. Receive(c)
    <3>1. got' # got
      OBVIOUS
    <3>2. PICK d \in Clients : Receive(d)
      BY <3>1 DEF Next, ClientStep, vars, Start, Send, Write, SendFails,
                  ReadFails, Discover, Store, Lookup, Serve, Close
    <3> QED
      BY <3>2 DEF Receive, TypeOK, ClientsOK, WireOK, LocksHeld
  <2>2. ~closed /\ rpcMu = c /\ outbox # << >> /\ got'[c] = Head(outbox).id
    BY <2>1 DEF Receive, TypeOK, ClientsOK, WireOK, LocksHeld
  <2>3. PICK b \in BOOLEAN : outbox = <<[id |-> mine[c], ok |-> b]>>
    BY <2>2 DEF InStep, OwedOnly
  <2> QED
    BY <2>2, <2>3
<1>3. TypeOK /\ InStep /\ [Next]_vars => InStep'
  BY InStepKept
<1> QED
  BY <1>1, <1>2, <1>3, ChannelTypes, PTL DEF Spec, OwnAnswerInTime
=============================================================================
