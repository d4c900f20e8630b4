------------------------------- MODULE Runner -------------------------------
(***************************************************************************)
(* autopilot.Run (autopilot/runner.go) flying a program through the kRPC   *)
(* telemetry source and control sink of cmd/ksp-mcp/flight.go: one         *)
(* goroutine per flight, with one step per kRPC call that changes the      *)
(* vessel, so that anything else may happen between two calls.             *)
(*                                                                         *)
(* An operator named for a slip (ContinueUnstopped, ...)                   *)
(* is a faulty variant of the definition after it, which the properties    *)
(* must tell from the real one.                                            *)
(***************************************************************************)
EXTENDS Executor, KrpcLink

CONSTANTS
  Flights,    \* the flights that can be launched, each at most once
  Snapshots,  \* the telemetry the vessel may report on a tick
  Dt,         \* flightTickRate
  Horizon     \* bound on the executor's clock, beyond every dead-man

ASSUME SnapshotsAssumption == Snapshots \subseteq Telemetry
ASSUME DtAssumption        == Dt \in Nat \ {0}
ASSUME HorizonIsNat        == Horizon \in Nat

VARIABLES
  pc,         \* where each flight's goroutine is
  prog,       \* the program it flies
  conn,       \* the connection its source and sink were built on
  st,         \* the executor's memory
  ctrl,       \* the control being applied
  engaged,    \* kspControlSink.engaged
  cancelled,  \* its context is done
  exit,       \* why the loop was left
  stopFailed  \* sink.Stop returned an error

runVars == <<pc, prog, conn, st, ctrl, engaged, cancelled, exit, stopFailed>>

NoProgram == [phases |-> << >>]

(* The places where the loop is still commanding, in program order, and the *)
(* places of Stop and of the goroutine's last section.                      *)
Loop   == {"select", "read", "throttle", "sasOff", "frame", "engage",
           "target", "sasOn", "stage", "publish"}
Places == {"none", "cut", "disengage", "finish", "ended"} \cup Loop

Exits == {"none", "cancelled", "read", "apply", "panic", "abort", "done"}

(* A flight is live from its launch until its goroutine has reported.       *)
Live(f) == pc[f] \notin {"none", "ended"}

(* A live flight whose Stop has not cut the throttle yet.                   *)
Powered(f) == pc[f] \in Loop \cup {"cut"}

RunTypeOK ==
  /\ pc \in [Flights -> Places]
  /\ prog \in [Flights -> Program \cup {NoProgram}]
  /\ \A f \in Flights : prog[f] \in Program \/ pc[f] = "none"
  /\ conn \in [Flights -> 0 .. MaxConns]
  /\ st \in [Flights -> State]
  /\ ctrl \in [Flights -> Control]
  /\ engaged \in [Flights -> BOOLEAN]
  /\ cancelled \in [Flights -> BOOLEAN]
  /\ exit \in [Flights -> Exits]
  /\ stopFailed \in [Flights -> BOOLEAN]

RunInit ==
  /\ pc = [f \in Flights |-> "none"]
  /\ prog = [f \in Flights |-> NoProgram]
  /\ conn = [f \in Flights |-> NoConn]
  /\ st = [f \in Flights |-> InitState]
  /\ ctrl = [f \in Flights |-> Neutral]
  /\ engaged = [f \in Flights |-> FALSE]
  /\ cancelled = [f \in Flights |-> FALSE]
  /\ exit = [f \in Flights |-> "none"]
  /\ stopFailed = [f \in Flights |-> FALSE]

Goto(f, place) == pc' = [pc EXCEPT ![f] = place]

(* Every way out of the loop goes to Stop, which begins with the cut.       *)
Leave(f, why) ==
  /\ Goto(f, "cut")
  /\ exit' = [exit EXCEPT ![f] = why]

(* The places still to visit in this tick.                                  *)
AfterSteering(f) == IF ctrl[f].stage THEN "stage" ELSE "publish"

AfterThrottle(f) ==
  IF ctrl[f].steer = "pitch_heading"
    THEN IF engaged[f] THEN "target" ELSE "sasOff"
    ELSE IF ctrl[f].steer = "prograde" THEN "sasOn" ELSE AfterSteering(f)

-----------------------------------------------------------------------------
(* The loop's select: a tick or, once the context is done, the way out.     *)
(* When both are ready Go picks either.                                     *)
Tick(f) ==
  /\ pc[f] = "select"
  /\ Goto(f, "read")
  /\ UNCHANGED <<linkVars, vessel, prog, conn, st, ctrl, engaged, cancelled,
                 exit, stopFailed>>

SeeCancel(f) ==
  /\ pc[f] = "select"
  /\ cancelled[f]
  /\ Leave(f, "cancelled")
  /\ UNCHANGED <<linkVars, vessel, prog, conn, st, ctrl, engaged, cancelled,
                 stopFailed>>

(* src.Read followed by Step.                                               *)
ReadAndStep(f, t) ==
  LET r == Step(prog[f], t, st[f], Dt)
  IN  /\ pc[f] = "read"
      /\ Succeeds(conn[f])
      /\ st[f].totalElapsed < Horizon
      /\ st' = [st EXCEPT ![f] = r.st]
      /\ ctrl' = [ctrl EXCEPT ![f] = r.ctrl]
      /\ Goto(f, "throttle")
      /\ UNCHANGED <<linkVars, vessel, prog, conn, engaged, cancelled, exit,
                     stopFailed>>

ReadFails(f) ==
  /\ pc[f] = "read"
  /\ MayFail(conn[f], "flight")
  /\ Leave(f, "read")
  /\ UNCHANGED <<linkVars, vessel, prog, conn, st, ctrl, engaged, cancelled,
                 stopFailed>>

(* sink.Apply, call by call.  A checked call that fails leaves the loop.    *)
ContinueUnstopped(f, o, place) ==
  IF o.ok THEN Goto(f, place) /\ UNCHANGED exit
  ELSE Goto(f, "finish") /\ exit' = [exit EXCEPT ![f] = "apply"]

Continue(f, o, place) ==
  IF o.ok THEN Goto(f, place) /\ UNCHANGED exit ELSE Leave(f, "apply")

ApplyThrottle(f) ==
  /\ pc[f] = "throttle"
  /\ \E o \in Outcomes(conn[f]) :
       /\ Command(o, [vessel EXCEPT !.throttle = ctrl[f].throttle])
       /\ Continue(f, o, AfterThrottle(f))
  /\ UNCHANGED <<linkVars, prog, conn, st, ctrl, engaged, cancelled,
                 stopFailed>>

(* SetSAS: its error is ignored, whichever way it sets it.                  *)
ApplySAS(f) ==
  /\ pc[f] \in {"sasOff", "sasOn"}
  /\ \E o \in Outcomes(conn[f]) :
       Command(o, [vessel EXCEPT !.sas = (pc[f] = "sasOn")])
  /\ Goto(f, IF pc[f] = "sasOff" THEN "frame" ELSE AfterSteering(f))
  /\ UNCHANGED <<linkVars, prog, conn, st, ctrl, engaged, cancelled, exit,
                 stopFailed>>

(* AutopilotSetReferenceFrame: its error is ignored too.                    *)
ApplyFrame(f) ==
  /\ pc[f] = "frame"
  /\ \E o \in Outcomes(conn[f]) :
       Command(o, [vessel EXCEPT !.frame = "surface"])
  /\ Goto(f, "engage")
  /\ UNCHANGED <<linkVars, prog, conn, st, ctrl, engaged, cancelled, exit,
                 stopFailed>>

ApplyEngage(f) ==
  /\ pc[f] = "engage"
  /\ \E o \in Outcomes(conn[f]) :
       /\ Command(o, [vessel EXCEPT !.autopilot = TRUE])
       /\ engaged' = [engaged EXCEPT ![f] = o.ok]
       /\ Continue(f, o, "target")
  /\ UNCHANGED <<linkVars, prog, conn, st, ctrl, cancelled, stopFailed>>

(* The target attitude itself is data: only the call's outcome is kept.     *)
ApplyTarget(f) ==
  /\ pc[f] = "target"
  /\ \E o \in Outcomes(conn[f]) : Continue(f, o, AfterSteering(f))
  /\ UNCHANGED <<linkVars, vessel, prog, conn, st, ctrl, engaged, cancelled,
                 stopFailed>>

ApplyStage(f) ==
  /\ pc[f] = "stage"
  /\ \E o \in Outcomes(conn[f]) :
       /\ Command(o, [vessel EXCEPT !.stagesLeft = IF @ = 0 THEN 0 ELSE @ - 1])
       /\ Continue(f, o, "publish")
  /\ UNCHANGED <<linkVars, prog, conn, st, ctrl, engaged, cancelled,
                 stopFailed>>

EndOfTickUnaborted(f) ==
  /\ pc[f] = "publish"
  /\ IF ctrl[f].done THEN Leave(f, "done")
     ELSE Goto(f, "select") /\ UNCHANGED exit
  /\ UNCHANGED <<linkVars, vessel, prog, conn, st, ctrl, engaged, cancelled,
                 stopFailed>>

(* After onTick: stop on Abort or Done, else back to the select.            *)
EndOfTick(f) ==
  /\ pc[f] = "publish"
  /\ IF ctrl[f].abort THEN Leave(f, "abort")
     ELSE IF ctrl[f].done THEN Leave(f, "done")
     ELSE Goto(f, "select") /\ UNCHANGED exit
  /\ UNCHANGED <<linkVars, vessel, prog, conn, st, ctrl, engaged, cancelled,
                 stopFailed>>

(* A panic anywhere in a tick is recovered, and stops the vessel.           *)
Panic(f) ==
  /\ "panic" \in Faults
  /\ pc[f] \in Loop \ {"select"}
  /\ Leave(f, "panic")
  /\ UNCHANGED <<linkVars, vessel, prog, conn, st, ctrl, engaged, cancelled,
                 stopFailed>>

-----------------------------------------------------------------------------
(* sink.Stop: cut the throttle, then disengage what this sink engaged; one  *)
(* failing does not skip the other.                                         *)
CutThrottle(f) ==
  /\ pc[f] = "cut"
  /\ \E o \in Outcomes(conn[f]) :
       /\ Command(o, [vessel EXCEPT !.throttle = 0])
       /\ stopFailed' = [stopFailed EXCEPT ![f] = ~o.ok]
  /\ Goto(f, IF engaged[f] THEN "disengage" ELSE "finish")
  /\ UNCHANGED <<linkVars, prog, conn, st, ctrl, engaged, cancelled, exit>>

Disengage(f) ==
  /\ pc[f] = "disengage"
  /\ \E o \in Outcomes(conn[f]) :
       /\ Command(o, [vessel EXCEPT !.autopilot = FALSE])
       /\ stopFailed' = [stopFailed EXCEPT ![f] = @ \/ ~o.ok]
  /\ engaged' = [engaged EXCEPT ![f] = FALSE]
  /\ Goto(f, "finish")
  /\ UNCHANGED <<linkVars, prog, conn, st, ctrl, cancelled, exit>>

(* What Run returns: whether it completed, and whether with an error.       *)
Completed(f) == exit[f] = "done"
RunFailedQuietly(f) == exit[f] \in {"read", "apply", "panic"}
RunFailed(f) == stopFailed[f] \/ exit[f] \in {"read", "apply", "panic"}

(* The steps of the goroutine that touch no flight lifecycle state.         *)
RunStep(f) ==
  \/ Tick(f) \/ SeeCancel(f)
  \/ \E t \in Snapshots : ReadAndStep(f, t)
  \/ ReadFails(f)
  \/ ApplyThrottle(f) \/ ApplySAS(f) \/ ApplyFrame(f) \/ ApplyEngage(f)
  \/ ApplyTarget(f) \/ ApplyStage(f)
  \/ Panic(f)
  \/ CutThrottle(f) \/ Disengage(f)
=============================================================================
