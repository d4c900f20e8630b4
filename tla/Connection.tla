----------------------------- MODULE Connection -----------------------------
(***************************************************************************)
(* The server's one kRPC connection: kspServer.c with conn and drop of     *)
(* cmd/ksp-mcp/server.go.  Every tool call and every flight works on the   *)
(* connection it was given, which any failing tool call closes under it.   *)
(*                                                                         *)
(* A call on an open connection either succeeds, is refused by the game    *)
(* (a procedure error: the connection stays healthy), or loses its request *)
(* or its reply, as a call does whose connection is closed under it.  A    *)
(* call on a closed connection fails and does nothing.                     *)
(*                                                                         *)
(* An operator named for a slip (DropUnforgotten)                          *)
(* is a faulty variant of the definition after it, which the properties    *)
(* must tell from the real one.                                            *)
(***************************************************************************)
EXTENDS Integers, FiniteSets

CONSTANTS
  MaxConns,  \* bound on the connections dialled
  Faults     \* which of FaultKinds may happen

(* tool and flight: the game refuses a call of a tool, of a flight's loop;  *)
(* transport: a request or a reply is lost; panic: the loop panics.         *)
FaultKinds == {"tool", "flight", "transport", "panic"}

ASSUME MaxConnsAssumption == MaxConns \in Nat \ {0}
ASSUME FaultsAssumption   == Faults \subseteq FaultKinds

VARIABLES
  dialed,   \* connections dialled so far; each has a number of its own
  open,     \* the connections not closed yet
  current   \* kspServer.c: the connection the server holds, or NoConn

linkVars == <<dialed, open, current>>

NoConn      == 0
Connections == 1 .. MaxConns

ConnTypeOK ==
  /\ dialed \in 0 .. MaxConns
  /\ open \subseteq 1 .. dialed
  /\ current \in open \cup {NoConn}

ConnInit ==
  /\ dialed = 0
  /\ open = {}
  /\ current = NoConn

Succeeds(k) == k \in open
MayFail(k, kind) == k \notin open \/ Faults \cap {kind, "transport"} # {}

(* How a writing call on connection k can end: whether it returns without   *)
(* an error, and whether the game carried it out.                           *)
CallOutcomes(k, kind) ==
  {o \in [ok: BOOLEAN, done: BOOLEAN] :
     /\ o.done => k \in open
     /\ o.ok => o.done
     /\ o.ok \/ MayFail(k, kind)
     /\ o.done /\ ~o.ok => "transport" \in Faults}

(* conn: the connection held, or a new one.  k is what the caller gets.     *)
Acquire(k) ==
  \/ /\ current # NoConn
     /\ k = current
     /\ UNCHANGED linkVars
  \/ /\ current = NoConn
     /\ dialed < MaxConns
     /\ k = dialed + 1
     /\ dialed' = k
     /\ open' = open \cup {k}
     /\ current' = k

(* conn when the dial fails: the game is not there (or the bound is met).   *)
DialFails ==
  /\ current = NoConn
  /\ "transport" \in Faults \/ dialed = MaxConns
  /\ UNCHANGED linkVars

DropUnforgotten ==
  /\ open' = open \ {current}
  /\ UNCHANGED <<current, dialed>>

(* drop: close and forget whatever connection the server holds now.         *)
Drop ==
  /\ open' = open \ {current}
  /\ current' = NoConn
  /\ UNCHANGED dialed
=============================================================================
