------------------------------- MODULE Flight -------------------------------
(***************************************************************************)
(* The Tier-4 flight control of cmd/ksp-mcp/flight.go: flight_arm,         *)
(* flight_execute and flight_abort over the flightState they share, the    *)
(* flight goroutines they start (Runner), and the read tools of the same   *)
(* server, which use and may drop the same connection.                     *)
(*                                                                         *)
(* A caller is one tool call at a time: a client that waits for each       *)
(* answer is one caller, the HTTP transport serves several.  A refusal     *)
(* changes nothing and is no step.                                         *)
(*                                                                         *)
(* An operator named for a slip (ExecuteWhileRunning)                      *)
(* is a faulty variant of the definition after it, which the properties    *)
(* must tell from the real one.                                            *)
(***************************************************************************)
EXTENDS Runner

CONSTANTS
  Callers,       \* tool calls that can be in progress together
  NoFlight,      \* flightState.cancel = nil
  AscentInputs   \* the inputs flight_arm is given

ASSUME NoFlightAssumption == NoFlight \notin Flights
ASSUME InputsAssumption   == AscentInputs \subseteq AscentInput
ASSUME HorizonAssumption  ==
  \A in \in AscentInputs : BuildAscent(in).maxDuration + Dt < Horizon

VARIABLES
  armed,    \* flightState.armed (the read-back is a function of it)
  running,  \* flightState.running
  cancel,   \* flightState.cancel: the flight whose context it cancels
  phase,    \* flightState.phase
  shown,    \* flightState.lastCtrl, its throttle
  result,   \* flightState.result
  failed,   \* flightState.resultErr is not empty
  call      \* each caller's tool call in progress: its place and its locals

flightState == <<armed, running, cancel, phase, shown, result, failed>>
vars        == <<linkVars, vessel, runVars, flightState, call>>

CallPlaces == {"idle", "conn", "vessel", "handles", "launch", "read", "drop",
               "cancel"}
Results    == {"none", "completed", "aborted"}

(* tool is "execute" or a read tool; handle is the connection conn() gave   *)
(* it, plan flight_execute's copy of armed, target flight_abort's copy of   *)
(* cancel.                                                                  *)
Call == [at: CallPlaces, tool: {"execute", "read"}, handle: 0 .. MaxConns,
         plan: Program \cup {NoProgram}, target: Flights \cup {NoFlight}]

NoCall == [at |-> "idle", tool |-> "read", handle |-> NoConn,
           plan |-> NoProgram, target |-> NoFlight]

(* A call in progress: only flight_execute resolves a vessel, and it flies  *)
(* a program; only flight_abort has a flight to cancel.                     *)
CallOK(c) ==
  /\ call[c].at = "idle" => call[c].tool = "read"
  /\ call[c].at \in {"vessel", "handles", "launch"} => call[c].tool = "execute"
  /\ call[c].tool = "execute" => call[c].plan \in Program
  /\ call[c].at = "cancel" => call[c].target \in Flights

FlightTypeOK ==
  /\ armed \in Program \cup {NoProgram}
  /\ running \in BOOLEAN
  /\ cancel \in Flights \cup {NoFlight}
  /\ phase \in PhaseNames \cup {"starting", "complete", "aborted"}
  /\ shown \in 0 .. 100
  /\ result \in Results
  /\ failed \in BOOLEAN

CallTypeOK ==
  /\ call \in [Callers -> Call]
  /\ \A c \in Callers : CallOK(c)

TypeOK == LinkTypeOK /\ RunTypeOK /\ FlightTypeOK /\ CallTypeOK

Init ==
  /\ LinkInit
  /\ RunInit
  /\ armed = NoProgram
  /\ running = FALSE
  /\ cancel = NoFlight
  /\ phase = ""
  /\ shown = 0
  /\ result = "none"
  /\ failed = FALSE
  /\ call = [c \in Callers |-> NoCall]

(* A call moves on, or returns: its locals are gone.                        *)
Move(c, from, to) ==
  /\ call[c].at = from
  /\ call' = [call EXCEPT ![c].at = to]
Return(c, from) ==
  /\ call[c].at = from
  /\ call' = [call EXCEPT ![c] = NoCall]

-----------------------------------------------------------------------------
(* flight_arm: a valid ascent is held armed, unless a flight is running.    *)
Arm(c) ==
  /\ call[c].at = "idle"
  /\ ~running
  /\ \E in \in AscentInputs :
       /\ in.target > 0
       /\ Valid(BuildAscent(in))
       /\ armed' = BuildAscent(in)
  /\ UNCHANGED <<linkVars, vessel, runVars, running, cancel, phase, shown,
                 result, failed, call>>

(* flight_execute with a confirmation isGo accepts: the first look at the   *)
(* flight state.  The bound on Flights is met here, before anything is      *)
(* resolved: one flight is kept for every execute in progress.              *)
Executing(c) == call[c].tool = "execute"

ExecuteWhileRunning(c) ==
  /\ call[c].at = "idle"
  /\ armed # NoProgram
  /\ Cardinality({d \in Callers : Executing(d)})
       < Cardinality({f \in Flights : pc[f] = "none"})
  /\ call' = [call EXCEPT ![c].at = "conn", ![c].tool = "execute",
                          ![c].plan = armed]
  /\ UNCHANGED <<linkVars, vessel, runVars, flightState>>

Execute(c) ==
  /\ call[c].at = "idle"
  /\ ~running
  /\ armed # NoProgram
  /\ Cardinality({d \in Callers : Executing(d)})
       < Cardinality({f \in Flights : pc[f] = "none"})
  /\ call' = [call EXCEPT ![c].at = "conn", ![c].tool = "execute",
                          ![c].plan = armed]
  /\ UNCHANGED <<linkVars, vessel, runVars, flightState>>

(* Any read tool of the server.                                             *)
ReadTool(c) ==
  /\ Move(c, "idle", "conn")
  /\ UNCHANGED <<linkVars, vessel, runVars, flightState>>

(* kspServer.conn, for either.                                              *)
GetConn(c) ==
  /\ call[c].at = "conn"
  /\ \E k \in Connections :
       /\ Acquire(k)
       /\ call' = [call EXCEPT ![c].handle = k,
                     ![c].at = IF Executing(c) THEN "vessel" ELSE "read"]
  /\ UNCHANGED <<vessel, runVars, flightState>>

NoConnection(c) ==
  /\ Return(c, "conn")
  /\ DialFails
  /\ UNCHANGED <<vessel, runVars, flightState>>

(* flight_execute's ActiveVessel: a vessel, no vessel, or an error.         *)
ResolveVessel(c) ==
  /\ \/ Succeeds(call[c].handle) /\ Move(c, "vessel", "handles")
     \/ Succeeds(call[c].handle) /\ Return(c, "vessel")
     \/ MayFail(call[c].handle, "tool") /\ Move(c, "vessel", "drop")
  /\ UNCHANGED <<linkVars, vessel, runVars, flightState>>

(* The control, autopilot and frame handles: a failure does not drop.       *)
GetHandles(c) ==
  /\ \/ Succeeds(call[c].handle) /\ Move(c, "handles", "launch")
     \/ MayFail(call[c].handle, "tool") /\ Return(c, "handles")
  /\ UNCHANGED <<linkVars, vessel, runVars, flightState>>

(* flight_execute's second locked section, and the goroutine it starts.     *)
Launch(c) ==
  /\ Return(c, "launch")
  /\ running' = TRUE
  /\ result' = "none"
  /\ failed' = FALSE
  /\ phase' = "starting"
  /\ \E f \in Flights :
       /\ pc[f] = "none"
       /\ Goto(f, "select")
       /\ prog' = [prog EXCEPT ![f] = call[c].plan]
       /\ conn' = [conn EXCEPT ![f] = call[c].handle]
       /\ cancel' = f
  /\ UNCHANGED <<linkVars, vessel, st, ctrl, engaged, cancelled, exit,
                 stopFailed, armed, shown>>

(* A read tool's own calls: their error, whatever it is, drops.             *)
ReadVessel(c) ==
  /\ \/ Succeeds(call[c].handle) /\ Return(c, "read")
     \/ MayFail(call[c].handle, "tool") /\ Move(c, "read", "drop")
  /\ UNCHANGED <<linkVars, vessel, runVars, flightState>>

DropConn(c) ==
  /\ Return(c, "drop")
  /\ Drop
  /\ UNCHANGED <<vessel, runVars, flightState>>

(* flight_abort: what it reads under the lock, then the cancel outside it.  *)
Abort(c) ==
  /\ call[c].at = "idle"
  /\ running
  /\ cancel # NoFlight
  /\ call' = [call EXCEPT ![c].at = "cancel", ![c].target = cancel]
  /\ UNCHANGED <<linkVars, vessel, runVars, flightState>>

CancelFlight(c) ==
  /\ Return(c, "cancel")
  /\ cancelled' = [cancelled EXCEPT ![call[c].target] = TRUE]
  /\ UNCHANGED <<linkVars, vessel, pc, prog, conn, st, ctrl, engaged, exit,
                 stopFailed, flightState>>

-----------------------------------------------------------------------------
(* onTick publishes the applied control, then the loop looks at it.         *)
Publish(f) ==
  /\ EndOfTick(f)
  /\ shown' = ctrl[f].throttle
  /\ phase' = IF ctrl[f].phase # "" THEN ctrl[f].phase ELSE phase
  /\ UNCHANGED <<armed, running, cancel, result, failed, call>>

(* The goroutine's last section, after Run has returned; the locals of Run  *)
(* are gone with it.                                                        *)
Report(f) ==
  /\ pc[f] = "finish"
  /\ Goto(f, "ended")
  /\ running' = FALSE
  /\ cancel' = NoFlight
  /\ result' = IF Completed(f) THEN "completed" ELSE "aborted"
  /\ failed' = (failed \/ RunFailed(f))
  /\ phase' = IF Completed(f) THEN "complete" ELSE "aborted"
  /\ st' = [st EXCEPT ![f] = InitState]
  /\ ctrl' = [ctrl EXCEPT ![f] = Neutral]
  /\ conn' = [conn EXCEPT ![f] = NoConn]
  /\ exit' = [exit EXCEPT ![f] = "none"]
  /\ UNCHANGED <<linkVars, vessel, prog, engaged, cancelled, stopFailed, armed,
                 shown, call>>

FlightStep(f) ==
  \/ RunStep(f) /\ UNCHANGED <<flightState, call>>
  \/ Publish(f)
  \/ Report(f)

(* A client starts a call when it likes; the server finishes it.            *)
StartCall(c) == Arm(c) \/ Execute(c) \/ ReadTool(c) \/ Abort(c)
ServeCall(c) ==
  \/ GetConn(c) \/ NoConnection(c) \/ ResolveVessel(c) \/ GetHandles(c)
  \/ Launch(c) \/ ReadVessel(c) \/ DropConn(c) \/ CancelFlight(c)

Next ==
  \/ \E f \in Flights : FlightStep(f)
  \/ \E c \in Callers : StartCall(c) \/ ServeCall(c)

Spec == Init /\ [][Next]_vars

(* The ticker keeps firing, every call has a deadline and the Go scheduler  *)
(* runs every goroutine: a flight or a call in progress keeps moving.       *)
FairSpec ==
  /\ Spec
  /\ \A f \in Flights : WF_vars(FlightStep(f))
  /\ \A c \in Callers : WF_vars(ServeCall(c))

-----------------------------------------------------------------------------
(* The vessel is under power only while some flight has still to cut the    *)
(* throttle, or after a flight whose Stop reported that it failed.  This is *)
(* what the runner's guaranteed Stop gives whatever fails and however many  *)
(* flights there are.                                                       *)
PowerAccounted ==
  vessel.throttle # 0 => \E f \in Flights : Powered(f) \/ stopFailed[f]

(* runner.go, flight.go and the README: every exit cuts the throttle, and   *)
(* the vessel is never left under power because the loop returned.          *)
NeverLeftUnderPower ==
  vessel.throttle # 0 => \E f \in Flights : Live(f)

(* While a flight is in its loop, flight_abort has its cancel function: the *)
(* flight can be stopped at any time.                                       *)
AbortReaches ==
  \A f \in Flights : Live(f) => running /\ cancel = f

(* The program being flown is the one armed and read back to the crew.      *)
ReadbackIsFlown ==
  \A f \in Flights : Live(f) => prog[f] = armed

(* Why it is so with a client that waits for each answer: an execute in     *)
(* progress holds the armed program and no flight runs, a flight that runs  *)
(* is the one flight_abort cancels, and engines left on are on record.      *)
SerialInv ==
  /\ AbortReaches
  /\ ReadbackIsFlown
  /\ running => \E f \in Flights : Live(f)
  /\ \A c \in Callers : Executing(c) =>
       ~running /\ armed # NoProgram /\ call[c].plan = armed
  /\ vessel.throttle # 0 =>
       failed \/ \E f \in Flights : Live(f) /\ (Powered(f) \/ stopFailed[f])

(* A flight reported complete cut the engines, even when its Stop failed:   *)
(* the control of its last tick already had.                                *)
CompletedMeansCut ==
  ~running /\ result = "completed" => vessel.throttle = 0

(* Every flight ends: by its program, its dead-man, an error or an abort.   *)
EveryFlightEnds ==
  \A f \in Flights : Live(f) ~> pc[f] = "ended"

-----------------------------------------------------------------------------
(* With a client that waits for each answer, flight control keeps the       *)
(* promise of FlightGate: arm, go, fly the armed plan, cut or report.       *)
Gate == INSTANCE FlightGate WITH
  Plans   <- Program,
  NoPlan  <- NoProgram,
  plan    <- armed,
  flying  <- {prog[f] : f \in {g \in Flights : Live(g)}},
  power   <- vessel.throttle # 0,
  trouble <- failed

KeepsTheGate == Gate!Spec
=============================================================================
