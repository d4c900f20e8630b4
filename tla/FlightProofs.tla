---------------------------- MODULE FlightProofs ----------------------------
(***************************************************************************)
(* Theorems about Flight, for every value of its constants: any number of  *)
(* flights and callers, any telemetry, any faults.                         *)
(***************************************************************************)
EXTENDS Flight, ExecutorProofs

-----------------------------------------------------------------------------
(* Type correctness                                                        *)

(* The zero values of the per-flight state.                                *)
LEMMA ConstantFunction ==
  ASSUME NEW S, NEW T, NEW v \in T
  PROVE  [x \in S |-> v] \in [S -> T]
OBVIOUS

(* The server starts well formed.                                          *)
LEMMA InitIsTyped == Init => TypeOK
<1> SUFFICES ASSUME Init PROVE TypeOK
  OBVIOUS
<1>1. LinkTypeOK
  <2>1. LinkInit
    BY Zenon DEF Init
  <2>2. QED
    BY <2>1, MaxConnsAssumption, StagesAssumption
    DEF LinkInit, LinkTypeOK, ConnInit, ConnTypeOK, Vessel, Frames, NoConn
<1>2. Neutral \in Control /\ InitState \in State
  BY DEF Neutral, Control, Steers, PhaseNames, InitState, State
<1>3. RunTypeOK
  <2>1. RunInit
    BY Zenon DEF Init
  <2>2. pc \in [Flights -> Places] /\ \A f \in Flights : pc[f] = "none"
    BY <2>1 DEF RunInit, Places
  <2>3. prog \in [Flights -> Program \cup {NoProgram}]
    BY <2>1, ConstantFunction, Zenon DEF RunInit
  <2>4. conn \in [Flights -> 0 .. MaxConns]
    BY <2>1, MaxConnsAssumption DEF RunInit, NoConn
  <2>5. st \in [Flights -> State] /\ ctrl \in [Flights -> Control]
    BY <2>1, <1>2, ConstantFunction, Zenon DEF RunInit
  <2>6. /\ engaged \in [Flights -> BOOLEAN]
        /\ cancelled \in [Flights -> BOOLEAN]
        /\ stopFailed \in [Flights -> BOOLEAN]
    BY <2>1, ConstantFunction, Zenon DEF RunInit
  <2>7. exit \in [Flights -> Exits]
    BY <2>1 DEF RunInit, Exits
  <2>8. QED
    BY <2>2, <2>3, <2>4, <2>5, <2>6, <2>7, Zenon DEF RunTypeOK
<1>4. FlightTypeOK
  <2>1. armed = NoProgram /\ running = FALSE /\ cancel = NoFlight /\ failed = FALSE
    BY Zenon DEF Init
  <2>2. phase = "" /\ result = "none"
    BY Zenon DEF Init
  <2>3. phase \in PhaseNames
    BY <2>2 DEF PhaseNames
  <2>4. shown \in 0 .. 100
    <3>1. shown = 0
      BY Zenon DEF Init
    <3>2. QED
      BY <3>1
  <2>5. result \in Results
    BY <2>2 DEF Results
  <2>6. QED
    BY <2>1, <2>3, <2>4, <2>5, Zenon DEF FlightTypeOK
<1>5. CallTypeOK
  <2>1. NoCall \in Call
    BY MaxConnsAssumption DEF NoCall, Call, CallPlaces, NoConn
  <2>2. call = [c \in Callers |-> NoCall]
    BY Zenon DEF Init
  <2>3. call \in [Callers -> Call]
    BY <2>1, <2>2, ConstantFunction, Zenon
  <2>4. \A c \in Callers : call[c] = NoCall
    BY <2>2, Zenon
  <2>5. \A c \in Callers : call[c].at = "idle" /\ call[c].tool = "read"
    BY <2>4 DEF NoCall
  <2>6. QED
    BY <2>3, <2>5 DEF CallTypeOK, CallOK
<1>6. QED
  BY <1>1, <1>3, <1>4, <1>5, Zenon DEF TypeOK

(* A control write leaves the vessel's controls well formed.               *)
LEMMA CommandTyped ==
  ASSUME vessel \in Vessel, NEW v \in Vessel, NEW o, Command(o, v)
  PROVE  vessel' \in Vessel
BY DEF Command

(* What a step of Run does to the vessel, action by action.                *)
LEMMA RunStepVessel ==
  ASSUME LinkTypeOK, RunTypeOK, NEW f \in Flights, RunStep(f)
  PROVE  LinkTypeOK'
<1> USE DEF LinkTypeOK, ConnTypeOK
<1>1. CASE vessel' \in Vessel /\ UNCHANGED linkVars
  BY <1>1 DEF linkVars
<1>2. UNCHANGED linkVars
  BY Zenon DEF RunStep, Tick, SeeCancel, ReadAndStep, ReadFails, ApplyThrottle,
    ApplySAS, ApplyFrame, ApplyEngage, ApplyTarget, ApplyStage, Panic,
    CutThrottle, Disengage
<1>3. CASE UNCHANGED vessel
  BY <1>1, <1>2, <1>3
<1>4. CASE ApplyThrottle(f)
  <2>1. [vessel EXCEPT !.throttle = ctrl[f].throttle] \in Vessel
    BY DEF RunTypeOK, Control, Vessel
  <2>2. QED
    BY <1>1, <1>2, <1>4, <2>1, CommandTyped DEF ApplyThrottle
<1>5. CASE ApplySAS(f)
  <2> DEFINE on == pc[f] = "sasOn"
  <2>1. on \in BOOLEAN
    OBVIOUS
  <2>2. \E o : Command(o, [vessel EXCEPT !.sas = on])
    BY <1>5, Zenon DEF ApplySAS
  <2> HIDE DEF on
  <2>3. [vessel EXCEPT !.sas = on] \in Vessel
    BY <2>1 DEF Vessel
  <2>4. QED
    BY <1>1, <1>2, <2>2, <2>3, CommandTyped
<1>6. CASE ApplyFrame(f)
  <2>1. [vessel EXCEPT !.frame = "surface"] \in Vessel
    BY DEF Vessel, Frames
  <2>2. QED
    BY <1>1, <1>2, <1>6, <2>1, CommandTyped DEF ApplyFrame
<1>7. CASE ApplyEngage(f)
  <2>1. [vessel EXCEPT !.autopilot = TRUE] \in Vessel
    BY DEF Vessel
  <2>2. QED
    BY <1>1, <1>2, <1>7, <2>1, CommandTyped DEF ApplyEngage
<1>8. CASE ApplyStage(f)
  <2> DEFINE left == IF vessel.stagesLeft = 0 THEN 0 ELSE vessel.stagesLeft - 1
  <2>1. left \in 0 .. Stages
    BY StagesAssumption DEF Vessel
  <2>2. \E o : Command(o, [vessel EXCEPT !.stagesLeft = left])
    BY <1>8, Zenon DEF ApplyStage
  <2> HIDE DEF left
  <2>3. [vessel EXCEPT !.stagesLeft = left] \in Vessel
    BY <2>1 DEF Vessel
  <2>4. QED
    BY <1>1, <1>2, <2>2, <2>3, CommandTyped
<1>9. CASE CutThrottle(f)
  <2>1. [vessel EXCEPT !.throttle = 0] \in Vessel
    BY DEF Vessel
  <2>2. QED
    BY <1>1, <1>2, <1>9, <2>1, CommandTyped DEF CutThrottle
<1>10. CASE Disengage(f)
  <2>1. [vessel EXCEPT !.autopilot = FALSE] \in Vessel
    BY DEF Vessel
  <2>2. QED
    BY <1>1, <1>2, <1>10, <2>1, CommandTyped DEF Disengage
<1>11. QED
  BY <1>3, <1>4, <1>5, <1>6, <1>7, <1>8, <1>9, <1>10, Zenon
  DEF RunStep, Tick, SeeCancel, ReadAndStep, ReadFails, ApplyTarget, Panic

(* A step of Run keeps the goroutine's own state well formed.              *)
LEMMA RunStepTyped ==
  ASSUME RunTypeOK, NEW f \in Flights, RunStep(f)
  PROVE  RunTypeOK'
<1> USE DEF RunTypeOK, Places, Loop, Goto
<1>1. CASE Tick(f)
  BY <1>1 DEF Tick
<1>2. CASE SeeCancel(f)
  BY <1>2 DEF SeeCancel, Leave, Exits
<1>3. CASE ReadFails(f)
  BY <1>3 DEF ReadFails, Leave, Exits
<1>4. CASE ApplyThrottle(f)
  BY <1>4 DEF ApplyThrottle, Continue, Leave, Exits, AfterThrottle, AfterSteering
<1>5. CASE ApplySAS(f)
  BY <1>5 DEF ApplySAS, AfterSteering
<1>6. CASE ApplyFrame(f)
  BY <1>6 DEF ApplyFrame
<1>7. CASE ApplyEngage(f)
  BY <1>7 DEF ApplyEngage, Continue, Leave, Exits, Outcomes, CallOutcomes
<1>8. CASE ApplyTarget(f)
  BY <1>8 DEF ApplyTarget, Continue, Leave, Exits, AfterSteering
<1>9. CASE ApplyStage(f)
  BY <1>9 DEF ApplyStage, Continue, Leave, Exits
<1>10. CASE Panic(f)
  BY <1>10 DEF Panic, Leave, Exits
<1>11. CASE CutThrottle(f)
  BY <1>11 DEF CutThrottle, Outcomes, CallOutcomes
<1>12. CASE Disengage(f)
  BY <1>12 DEF Disengage, Outcomes, CallOutcomes
<1>13. ASSUME NEW t \in Snapshots, ReadAndStep(f, t)
       PROVE  RunTypeOK'
  <2>1. Step(prog[f], t, st[f], Dt) \in [ctrl: Control, st: State]
    BY <1>13, StepIsTyped, SnapshotsAssumption, DtAssumption DEF ReadAndStep
  <2>2. QED
    BY <1>13, <2>1 DEF ReadAndStep
<1>14. QED
  BY <1>1, <1>2, <1>3, <1>4, <1>5, <1>6, <1>7, <1>8, <1>9, <1>10, <1>11, <1>12,
    <1>13, Zenon DEF RunStep

(* A step of a flight's goroutine keeps everything well formed.            *)
LEMMA FlightStepTyped ==
  ASSUME TypeOK, NEW f \in Flights, FlightStep(f)
  PROVE  TypeOK'
<1>1. CASE RunStep(f) /\ UNCHANGED <<flightState, call>>
  <2>1. LinkTypeOK' /\ RunTypeOK'
    BY <1>1, RunStepVessel, RunStepTyped, Zenon DEF TypeOK
  <2>2. FlightTypeOK'
    BY <1>1 DEF TypeOK, FlightTypeOK, flightState
  <2>3. CallTypeOK'
    BY <1>1 DEF TypeOK, CallTypeOK, CallOK
  <2>4. QED
    BY <2>1, <2>2, <2>3, Zenon DEF TypeOK
<1>2. CASE Publish(f)
  <2>1. LinkTypeOK'
    BY <1>2 DEF TypeOK, LinkTypeOK, ConnTypeOK, Publish, EndOfTick, linkVars
  <2>2. RunTypeOK'
    BY <1>2 DEF TypeOK, RunTypeOK, Publish, EndOfTick, Leave, Goto, Places,
      Loop, Exits
  <2>3. ctrl[f].throttle \in 0 .. 100 /\ ctrl[f].phase \in PhaseNames
    BY DEF TypeOK, RunTypeOK, Control
  <2>4. FlightTypeOK'
    BY <1>2, <2>3 DEF TypeOK, FlightTypeOK, Publish
  <2>5. CallTypeOK'
    BY <1>2 DEF TypeOK, CallTypeOK, CallOK, Publish
  <2>6. QED
    BY <2>1, <2>2, <2>4, <2>5, Zenon DEF TypeOK
<1>3. CASE Report(f)
  <2>1. LinkTypeOK'
    BY <1>3 DEF TypeOK, LinkTypeOK, ConnTypeOK, Report, linkVars
  <2>2. Neutral \in Control /\ InitState \in State
    BY DEF Neutral, Control, Steers, PhaseNames, InitState, State
  <2>3. RunTypeOK'
    <3>1. pc' \in [Flights -> Places] /\ exit' \in [Flights -> Exits]
      BY <1>3 DEF TypeOK, RunTypeOK, Report, Goto, Places, Exits
    <3>2. st' \in [Flights -> State] /\ ctrl' \in [Flights -> Control]
      BY <1>3, <2>2 DEF TypeOK, RunTypeOK, Report
    <3>3. conn' \in [Flights -> 0 .. MaxConns]
      BY <1>3, MaxConnsAssumption DEF TypeOK, RunTypeOK, Report, NoConn
    <3>4. \A g \in Flights : prog[g] \in Program \/ pc'[g] = "none"
      BY <1>3 DEF TypeOK, RunTypeOK, Report, Goto
    <3>5. UNCHANGED <<prog, engaged, cancelled, stopFailed>>
      BY <1>3 DEF Report
    <3>6. QED
      BY <3>1, <3>2, <3>3, <3>4, <3>5 DEF TypeOK, RunTypeOK
  <2>4. FlightTypeOK'
    <3>1. failed' \in BOOLEAN
      BY <1>3, Zenon DEF TypeOK, FlightTypeOK, RunTypeOK, Report, RunFailed
    <3>2. QED
      BY <1>3, <3>1 DEF TypeOK, FlightTypeOK, Report, Results
  <2>5. CallTypeOK'
    BY <1>3 DEF TypeOK, CallTypeOK, CallOK, Report
  <2>6. QED
    BY <2>1, <2>3, <2>4, <2>5, Zenon DEF TypeOK
<1>4. QED
  BY <1>1, <1>2, <1>3 DEF FlightStep

(* A tool call's steps touch the connection, the lifecycle and their own   *)
(* place; only Launch and the cancel of an abort reach into a flight.      *)
LEMMA CallStepTyped ==
  ASSUME TypeOK, NEW c \in Callers, StartCall(c) \/ ServeCall(c)
  PROVE  TypeOK'
<1> USE DEF CallPlaces
<1>1. NoCall \in Call /\ NoCall.at = "idle" /\ NoCall.tool = "read"
  BY MaxConnsAssumption DEF NoCall, Call, NoConn
<1>2. CallTypeOK'
  <2> SUFFICES ASSUME CallTypeOK, LinkTypeOK, FlightTypeOK
               PROVE  CallTypeOK'
    BY DEF TypeOK
  <2> USE DEF CallTypeOK, CallOK, Call
  <2>1. CASE \E from \in CallPlaces : Return(c, from)
    BY <2>1, <1>1 DEF Return
  <2>2. CASE Arm(c)
    BY <2>2 DEF Arm
  <2>3. CASE Execute(c)
    BY <2>3 DEF Execute, FlightTypeOK
  <2>4. CASE ReadTool(c)
    BY <2>4 DEF ReadTool, Move
  <2>5. CASE Abort(c)
    BY <2>5 DEF Abort, FlightTypeOK
  <2>6. CASE GetConn(c)
    BY <2>6 DEF GetConn, Executing, Connections
  <2>7. CASE ResolveVessel(c)
    <3>1. CASE Move(c, "vessel", "handles")
      BY <3>1 DEF Move
    <3>2. CASE Move(c, "vessel", "drop")
      BY <3>2 DEF Move
    <3>3. QED
      BY <2>1, <2>7, <3>1, <3>2 DEF ResolveVessel
  <2>8. CASE GetHandles(c)
    <3>1. CASE Move(c, "handles", "launch")
      BY <3>1 DEF Move
    <3>2. QED
      BY <2>1, <2>8, <3>1 DEF GetHandles
  <2>9. CASE ReadVessel(c)
    <3>1. CASE Move(c, "read", "drop")
      BY <3>1 DEF Move
    <3>2. QED
      BY <2>1, <2>9, <3>1 DEF ReadVessel
  <2>10. QED
    BY <2>1, <2>2, <2>3, <2>4, <2>5, <2>6, <2>7, <2>8, <2>9
    DEF StartCall, ServeCall, NoConnection, Launch, DropConn, CancelFlight
<1>3. LinkTypeOK'
  <2> SUFFICES ASSUME LinkTypeOK PROVE LinkTypeOK'
    BY DEF TypeOK
  <2> USE DEF LinkTypeOK, ConnTypeOK, linkVars
  <2>1. CASE GetConn(c)
    BY <2>1, MaxConnsAssumption DEF GetConn, Acquire, Connections, NoConn
  <2>2. CASE DropConn(c)
    BY <2>2 DEF DropConn, Drop, NoConn
  <2>3. CASE UNCHANGED <<linkVars, vessel>>
    BY <2>3
  <2>4. QED
    BY <2>1, <2>2, <2>3
    DEF StartCall, ServeCall, Arm, Execute, ReadTool, Abort, NoConnection,
      DialFails, ResolveVessel, GetHandles, Launch, ReadVessel, CancelFlight
<1>4. RunTypeOK'
  <2> SUFFICES ASSUME RunTypeOK, CallTypeOK PROVE RunTypeOK'
    BY DEF TypeOK
  <2> USE DEF RunTypeOK, runVars
  <2>1. CASE Launch(c)
    <3>1. call[c].plan \in Program /\ call[c].handle \in 0 .. MaxConns
      BY <2>1 DEF Launch, Return, CallTypeOK, CallOK, Call
    <3>2. QED
      BY <2>1, <3>1 DEF Launch, Goto, Places, Loop
  <2>2. CASE CancelFlight(c)
    BY <2>2 DEF CancelFlight
  <2>3. CASE UNCHANGED runVars
    BY <2>3
  <2>4. QED
    BY <2>1, <2>2, <2>3
    DEF StartCall, ServeCall, Arm, Execute, ReadTool, Abort, GetConn,
      NoConnection, ResolveVessel, GetHandles, ReadVessel, DropConn
<1>5. FlightTypeOK'
  <2> SUFFICES ASSUME FlightTypeOK PROVE FlightTypeOK'
    BY DEF TypeOK
  <2> USE DEF FlightTypeOK, flightState
  <2>1. CASE Arm(c)
    BY <2>1, AscentIsProgram, InputsAssumption DEF Arm
  <2>2. CASE Launch(c)
    BY <2>2 DEF Launch, Results
  <2>3. CASE UNCHANGED flightState
    BY <2>3
  <2>4. QED
    BY <2>1, <2>2, <2>3
    DEF StartCall, ServeCall, Execute, ReadTool, Abort, GetConn, NoConnection,
      ResolveVessel, GetHandles, ReadVessel, DropConn, CancelFlight
<1>6. QED
  BY <1>2, <1>3, <1>4, <1>5, Zenon DEF TypeOK

(* So does a step that changes nothing.                                    *)
LEMMA StutterTyped == ASSUME TypeOK, UNCHANGED vars PROVE TypeOK'
BY DEF vars, linkVars, runVars, flightState, TypeOK, LinkTypeOK, ConnTypeOK, RunTypeOK,
  FlightTypeOK, CallTypeOK, CallOK

(* Every reachable state of flight control is well formed: the throttle is *)
(* within its bounds, a flight flies a program, a cancel is of a flight.   *)
THEOREM TypeCorrect == Spec => []TypeOK
<1>1. TypeOK /\ [Next]_vars => TypeOK'
  BY FlightStepTyped, CallStepTyped, StutterTyped, Zenon DEF Next
<1>2. QED
  BY InitIsTyped, <1>1, PTL DEF Spec

-----------------------------------------------------------------------------
(* The engines                                                             *)

(* What a step of Run can do to the engines: it stays under power, it cuts *)
(* them, it records that it could not, or it is past the cut.              *)
LEMMA RunStepEffect ==
  ASSUME LinkTypeOK, RunTypeOK, NEW f \in Flights, RunStep(f)
  PROVE  /\ Live(f) /\ Live(f)'
         /\ prog' = prog
         /\ \A g \in Flights \ {f} :
              pc'[g] = pc[g] /\ stopFailed'[g] = stopFailed[g]
         /\ \/ Powered(f)'
            \/ vessel'.throttle = 0
            \/ stopFailed'[f]
            \/ /\ ~Powered(f) /\ ~stopFailed[f]
               /\ vessel'.throttle = vessel.throttle
<1> USE DEF RunTypeOK, Live, Powered, Loop, Goto
<1>1. CASE Tick(f)
  BY <1>1 DEF Tick
<1>2. CASE SeeCancel(f)
  BY <1>2 DEF SeeCancel, Leave
<1>3. CASE ReadFails(f)
  BY <1>3 DEF ReadFails, Leave
<1>4. CASE ApplyThrottle(f)
  BY <1>4 DEF ApplyThrottle, Continue, Leave, AfterThrottle, AfterSteering
<1>5. CASE ApplySAS(f)
  BY <1>5 DEF ApplySAS, AfterSteering
<1>6. CASE ApplyFrame(f)
  BY <1>6 DEF ApplyFrame
<1>7. CASE ApplyEngage(f)
  BY <1>7 DEF ApplyEngage, Continue, Leave
<1>8. CASE ApplyTarget(f)
  BY <1>8 DEF ApplyTarget, Continue, Leave, AfterSteering
<1>9. CASE ApplyStage(f)
  BY <1>9 DEF ApplyStage, Continue, Leave
<1>10. CASE Panic(f)
  BY <1>10 DEF Panic, Leave
<1>11. CASE CutThrottle(f)
  <2>1. PICK o \in Outcomes(conn[f]) :
          /\ Command(o, [vessel EXCEPT !.throttle = 0])
          /\ stopFailed' = [stopFailed EXCEPT ![f] = ~o.ok]
    BY <1>11 DEF CutThrottle
  <2>2. vessel'.throttle = 0 \/ stopFailed'[f]
    BY <2>1 DEF Command, Outcomes, CallOutcomes, LinkTypeOK, Vessel
  <2>3. QED
    BY <1>11, <2>1, <2>2 DEF CutThrottle
<1>12. CASE Disengage(f)
  <2>1. PICK o \in Outcomes(conn[f]) :
          /\ Command(o, [vessel EXCEPT !.autopilot = FALSE])
          /\ stopFailed' = [stopFailed EXCEPT ![f] = @ \/ ~o.ok]
    BY <1>12 DEF Disengage
  <2>2. vessel'.throttle = vessel.throttle
    BY <2>1 DEF Command, LinkTypeOK, Vessel
  <2>3. stopFailed[f] => stopFailed'[f]
    BY <2>1, Zenon
  <2>4. QED
    BY <1>12, <2>1, <2>2, <2>3 DEF Disengage
<1>13. ASSUME NEW t \in Snapshots, ReadAndStep(f, t)
       PROVE  /\ Live(f) /\ Powered(f)' /\ prog' = prog
              /\ \A g \in Flights \ {f} :
                   pc'[g] = pc[g] /\ stopFailed'[g] = stopFailed[g]
  BY <1>13 DEF ReadAndStep
<1>14. QED
  BY <1>1, <1>2, <1>3, <1>4, <1>5, <1>6, <1>7, <1>8, <1>9, <1>10, <1>11, <1>12,
    <1>13 DEF RunStep

(* A tick's end moves its flight on, or to the cut.                        *)
LEMMA PublishEffect ==
  ASSUME RunTypeOK, NEW f \in Flights, Publish(f)
  PROVE  /\ Live(f) /\ Powered(f)' /\ Live(f)'
         /\ prog' = prog
         /\ \A g \in Flights \ {f} : pc'[g] = pc[g]
         /\ UNCHANGED <<vessel, stopFailed, armed, running, cancel, failed, call>>
BY DEF RunTypeOK, Publish, EndOfTick, Leave, Goto, Live, Powered, Loop

(* A call changes no throttle; only Launch moves a flight.                 *)
LEMMA CallEffect ==
  ASSUME NEW c \in Callers, StartCall(c) \/ ServeCall(c)
  PROVE  UNCHANGED <<vessel, stopFailed>> /\ (UNCHANGED pc \/ Launch(c))
BY DEF StartCall, ServeCall, Arm, Execute, ReadTool, Abort, GetConn,
  NoConnection, ResolveVessel, GetHandles, Launch, ReadVessel, DropConn,
  CancelFlight, runVars

(* The engines run only while some flight has still to cut them, or after  *)
(* a flight whose Stop said that it failed: what the runner's one Stop on  *)
(* every exit gives, whatever fails and however many flights there are.    *)
THEOREM EnginesAccounted == Spec => []PowerAccounted
<1>1. Init => PowerAccounted
  <2>1. Init => LinkInit
    BY Zenon DEF Init
  <2>2. LinkInit => vessel.throttle = 0
    BY DEF LinkInit
  <2>3. QED
    BY <2>1, <2>2, Zenon DEF PowerAccounted
<1>2. TypeOK /\ PowerAccounted /\ [Next]_vars => PowerAccounted'
  <2> SUFFICES ASSUME TypeOK, PowerAccounted, [Next]_vars
               PROVE  PowerAccounted'
    OBVIOUS
  <2> USE DEF PowerAccounted
  <2>1. ASSUME vessel' = vessel,
               \A g \in Flights : Powered(g) \/ stopFailed[g]
                                   => Powered(g)' \/ stopFailed'[g]
        PROVE  PowerAccounted'
    BY <2>1, Zenon
  <2>2. ASSUME NEW f \in Flights, RunStep(f) PROVE PowerAccounted'
    <3>1. \A g \in Flights \ {f} : Powered(g) => Powered(g)'
      BY <2>2, RunStepEffect DEF TypeOK, Powered
    <3>2. QED
      BY <2>2, <3>1, RunStepEffect, Zenon DEF TypeOK
  <2>3. ASSUME NEW f \in Flights, Publish(f) PROVE PowerAccounted'
    BY <2>3, PublishEffect, Zenon DEF TypeOK
  <2>4. ASSUME NEW f \in Flights, Report(f) PROVE PowerAccounted'
    <3>1. \A g \in Flights : Powered(g) => Powered(g)'
      BY <2>4 DEF Report, Goto, Powered, Loop, TypeOK, RunTypeOK
    <3>2. QED
      BY <2>1, <2>4, <3>1, Zenon DEF Report
  <2>5. ASSUME NEW c \in Callers, StartCall(c) \/ ServeCall(c)
        PROVE  PowerAccounted'
    <3>1. \A g \in Flights : Powered(g) => Powered(g)'
      BY <2>5, CallEffect
      DEF Launch, Goto, Powered, Loop, TypeOK, RunTypeOK
    <3>2. QED
      BY <2>1, <2>5, <3>1, CallEffect, Zenon
  <2>6. CASE UNCHANGED vars
    BY <2>1, <2>6, Zenon DEF vars, runVars, Powered
  <2>7. QED
    BY <2>2, <2>3, <2>4, <2>5, <2>6, Zenon DEF Next, FlightStep
<1>3. QED
  BY <1>1, <1>2, TypeCorrect, PTL DEF Spec
-----------------------------------------------------------------------------
(* With one tool call at a time (any number of flights, any telemetry, any *)
(* fault), the go cannot be given twice, an abort reaches the flight, and  *)
(* Flight implements FlightGate.                                           *)

Serial == \A c, d \in Callers : c = d

(* The serial invariant holds at first.                                    *)
LEMMA InitSerial == Init => SerialInv
<1> SUFFICES ASSUME Init PROVE SerialInv
  OBVIOUS
<1>1. \A f \in Flights : ~Live(f)
  <2>1. RunInit
    BY Zenon DEF Init
  <2>2. QED
    BY <2>1 DEF RunInit, Live
<1>2. ~running /\ vessel.throttle = 0
  <2>1. LinkInit /\ running = FALSE
    BY Zenon DEF Init
  <2>2. QED
    BY <2>1 DEF LinkInit
<1>3. \A c \in Callers : ~Executing(c)
  <2>1. call = [c \in Callers |-> NoCall]
    BY Zenon DEF Init
  <2>2. \A c \in Callers : call[c] = NoCall
    BY <2>1, Zenon
  <2>3. QED
    BY <2>2 DEF NoCall, Executing
<1>4. QED
  BY <1>1, <1>2, <1>3 DEF SerialInv, AbortReaches, ReadbackIsFlown

(* A goroutine's step before its report.                                   *)
LEMMA RunSerial ==
  ASSUME TypeOK, SerialInv, NEW f \in Flights,
         \/ RunStep(f) /\ UNCHANGED <<flightState, call>>
         \/ Publish(f)
  PROVE  SerialInv'
<1>1. /\ Live(f) /\ Live(f)' /\ prog' = prog
      /\ \A g \in Flights \ {f} : pc'[g] = pc[g]
      /\ UNCHANGED <<armed, running, cancel, failed, call>>
  BY RunStepEffect, PublishEffect DEF TypeOK, flightState
<1>2. \A g \in Flights : g # f => ~Live(g)
  BY <1>1 DEF SerialInv, AbortReaches
<1>3. \A g \in Flights : Live(g)' <=> Live(g)
  BY <1>1 DEF Live
<1>4. AbortReaches' /\ ReadbackIsFlown'
  BY <1>1, <1>3 DEF SerialInv, AbortReaches, ReadbackIsFlown
<1>5. running' => \E g \in Flights : Live(g)'
  BY <1>1
<1>6. \A c \in Callers : Executing(c)' =>
        ~running' /\ armed' # NoProgram /\ call'[c].plan = armed'
  BY <1>1 DEF SerialInv, Executing
<1>7. vessel'.throttle # 0 =>
        failed' \/ \E g \in Flights : Live(g)' /\ (Powered(g)' \/ stopFailed'[g])
  <2>1. \/ Powered(f)'
        \/ vessel'.throttle = 0
        \/ stopFailed'[f]
        \/ ~Powered(f) /\ ~stopFailed[f] /\ vessel'.throttle = vessel.throttle
    BY RunStepEffect, PublishEffect DEF TypeOK
  <2>2. CASE ~Powered(f) /\ ~stopFailed[f] /\ vessel'.throttle = vessel.throttle
    BY <2>2, <1>1, <1>2, Zenon DEF SerialInv
  <2>3. QED
    BY <2>1, <2>2, <1>1, Zenon
<1>8. QED
  BY <1>4, <1>5, <1>6, <1>7, Zenon DEF SerialInv

(* The report: the flight is over, and what its Stop could not do is on    *)
(* record.                                                                 *)
LEMMA ReportSerial ==
  ASSUME TypeOK, SerialInv, NEW f \in Flights, Report(f)
  PROVE  SerialInv'
<1>1. Live(f) /\ ~Powered(f)
  BY DEF Report, Live, Powered, Loop
<1>2. \A g \in Flights : g # f => ~Live(g)
  BY <1>1 DEF SerialInv, AbortReaches
<1>3. \A g \in Flights : ~Live(g)'
  BY <1>2 DEF Report, Goto, Live, TypeOK, RunTypeOK
<1>4. \A c \in Callers : ~Executing(c)'
  BY <1>1 DEF SerialInv, AbortReaches, Executing, Report
<1>5. vessel'.throttle # 0 => failed'
  <2>1. vessel' = vessel /\ failed' = (failed \/ RunFailed(f))
    BY DEF Report
  <2>2. QED
    BY <2>1, <1>1, <1>2, Zenon DEF SerialInv, RunFailed
<1>6. ~running'
  BY DEF Report
<1>7. QED
  BY <1>3, <1>4, <1>5, <1>6, Zenon DEF SerialInv, AbortReaches, ReadbackIsFlown

(* A call's step, when there is no other call: an execute starts on an     *)
(* armed program with no flight live, and finds both so when it launches.  *)
LEMMA CallSerial ==
  ASSUME Serial, TypeOK, SerialInv, NEW c \in Callers, StartCall(c) \/ ServeCall(c)
  PROVE  SerialInv'
<1> USE DEF Serial
<1>1. call \in [Callers -> Call] /\ \A d \in Callers : CallOK(d)
  BY DEF TypeOK, CallTypeOK
<1>2. \A d \in Callers : Executing(d) => Executing(c)
  OBVIOUS
<1>3. CASE Launch(c)
  <2>1. Executing(c) /\ call[c].plan = armed /\ ~running
    BY <1>1, <1>3 DEF Launch, Return, CallOK, Executing, SerialInv
  <2>2. \A g \in Flights : ~Live(g)
    BY <2>1 DEF SerialInv, AbortReaches
  <2>3. PICK f \in Flights : /\ pc[f] = "none"
                             /\ Goto(f, "select")
                             /\ prog' = [prog EXCEPT ![f] = call[c].plan]
                             /\ cancel' = f
    BY <1>3 DEF Launch
  <2>4. /\ Live(f)' /\ Powered(f)'
        /\ prog'[f] = armed
        /\ \A g \in Flights : Live(g)' => g = f
    BY <2>1, <2>2, <2>3 DEF Goto, Live, Powered, Loop, TypeOK, RunTypeOK
  <2>5. running' /\ armed' = armed
    BY <1>3 DEF Launch
  <2>6. \A d \in Callers : ~Executing(d)'
    BY <1>1, <1>3 DEF Launch, Return, Executing, NoCall
  <2>7. QED
    BY <2>3, <2>4, <2>5, <2>6, Zenon DEF SerialInv, AbortReaches, ReadbackIsFlown
<1>4. CASE Arm(c)
  <2>1. ~running /\ \A g \in Flights : ~Live(g)
    BY <1>4 DEF Arm, SerialInv, AbortReaches
  <2>2. ~Executing(c)
    BY <1>1, <1>4 DEF Arm, CallOK, Executing
  <2>3. UNCHANGED <<pc, vessel, running, failed, call>>
    BY <1>4 DEF Arm, runVars
  <2>4. \A g \in Flights : ~Live(g)'
    BY <2>1, <2>3 DEF Live
  <2>5. \A d \in Callers : ~Executing(d)'
    BY <2>2, <2>3 DEF Executing
  <2>6. vessel'.throttle # 0 => failed'
    BY <2>1, <2>3 DEF SerialInv
  <2>7. QED
    BY <2>1, <2>3, <2>4, <2>5, <2>6, Zenon
    DEF SerialInv, AbortReaches, ReadbackIsFlown
<1>5. CASE Execute(c)
  <2>1. UNCHANGED <<pc, prog, stopFailed, vessel, running, cancel, failed, armed>>
    BY <1>5 DEF Execute, runVars, flightState
  <2>2. ~running /\ armed # NoProgram /\ call'[c].plan = armed
    BY <1>1, <1>5 DEF Execute, Call
  <2>3. \A g \in Flights : /\ Live(g)' <=> Live(g)
                           /\ Powered(g)' <=> Powered(g)
    BY <2>1 DEF Live, Powered
  <2>4. QED
    BY <2>1, <2>2, <2>3, Zenon DEF SerialInv, AbortReaches, ReadbackIsFlown
<1>6. CASE ~(Launch(c) \/ Arm(c) \/ Execute(c))
  <2>1. UNCHANGED <<pc, prog, stopFailed, vessel, flightState>>
    BY <1>6 DEF StartCall, ServeCall, ReadTool, Abort, GetConn, NoConnection,
      ResolveVessel, GetHandles, ReadVessel, DropConn, CancelFlight, runVars
  <2>2. Executing(c)' => Executing(c) /\ call'[c].plan = call[c].plan
    <3> USE <1>1 DEF Executing, Call
    <3>1. CASE \E from \in CallPlaces : Return(c, from)
      BY <3>1 DEF Return, NoCall
    <3>2. CASE \E from, to \in CallPlaces : Move(c, from, to)
      BY <3>2 DEF Move
    <3>3. CASE GetConn(c)
      BY <3>3 DEF GetConn
    <3>4. CASE Abort(c)
      BY <3>4 DEF Abort
    <3>5. QED
      BY <1>6, <3>1, <3>2, <3>3, <3>4
      DEF StartCall, ServeCall, ReadTool, NoConnection, ResolveVessel,
        GetHandles, ReadVessel, DropConn, CancelFlight, CallPlaces
  <2>3. \A g \in Flights : /\ Live(g)' <=> Live(g)
                           /\ Powered(g)' <=> Powered(g)
    BY <2>1 DEF Live, Powered
  <2>4. UNCHANGED <<armed, running, cancel, failed>>
    BY <2>1 DEF flightState
  <2>5. QED
    BY <2>1, <2>2, <2>3, <2>4, Zenon DEF SerialInv, AbortReaches, ReadbackIsFlown
<1>7. QED
  BY <1>3, <1>4, <1>5, <1>6

(* A step that changes nothing.                                            *)
LEMMA StutterSerial == ASSUME SerialInv, UNCHANGED vars PROVE SerialInv'
<1>1. UNCHANGED <<pc, prog, stopFailed, vessel, armed, running, cancel, failed, call>>
  BY DEF vars, runVars, flightState
<1>2. \A g \in Flights : (Live(g)' <=> Live(g)) /\ (Powered(g)' <=> Powered(g))
  BY <1>1 DEF Live, Powered
<1>3. \A c \in Callers : Executing(c)' <=> Executing(c)
  BY <1>1 DEF Executing
<1>4. QED
  BY <1>1, <1>2, <1>3, Zenon DEF SerialInv, AbortReaches, ReadbackIsFlown

(* Every step keeps the serial invariant.                                  *)
LEMMA SerialStep ==
  ASSUME Serial, TypeOK, SerialInv, [Next]_vars
  PROVE  SerialInv'
BY RunSerial, ReportSerial, CallSerial, StutterSerial, Zenon DEF Next, FlightStep

(* flight.go, one call at a time: nothing changes between flight_execute's *)
(* two locked sections, so the program read back is the one flown, by one  *)
(* flight at a time, which flight_abort can cancel.                        *)
THEOREM SerialInvariant == Serial /\ Spec => []SerialInv
<1> SUFFICES ASSUME Serial PROVE Spec => []SerialInv
  OBVIOUS
<1>1. TypeOK /\ SerialInv /\ [Next]_vars => SerialInv'
  BY SerialStep
<1>2. QED
  BY InitSerial, <1>1, TypeCorrect, PTL DEF Spec

(* flight_abort (flight.go): one call at a time, the flight in progress is *)
(* always the one whose cancel function flight_abort finds.                *)
THEOREM AbortAlwaysReaches == Serial /\ Spec => []AbortReaches
<1>1. SerialInv => AbortReaches
  BY DEF SerialInv
<1>2. QED
  BY <1>1, SerialInvariant, PTL

-----------------------------------------------------------------------------
(* A completed flight                                                      *)

(* The places of a tick after its throttle is applied.                     *)
Applied == {"sasOff", "frame", "engage", "target", "sasOn", "stage", "publish"}

(* Why a completed flight has cut the engines: a control that is done has  *)
(* no throttle, the vessel has the throttle of the control being applied,  *)
(* and so the loop is left complete only after a tick that cut it.  With   *)
(* one call at a time no other flight opens it again.                      *)
DoneIsCut == \A f \in Flights : ctrl[f].done => ctrl[f].throttle = 0

AppliedHolds ==
  \A f \in Flights : pc[f] \in Applied => vessel.throttle = ctrl[f].throttle

LeftComplete ==
  \A f \in Flights : exit[f] = "done" =>
    pc[f] \in {"cut", "disengage", "finish"} /\ vessel.throttle = 0

CutInv == DoneIsCut /\ AppliedHolds /\ LeftComplete /\ CompletedMeansCut

(* What a step of Run does to its own flight's part of it.                 *)
LEMMA RunStepCut ==
  ASSUME LinkTypeOK, RunTypeOK, CutInv, NEW f \in Flights, RunStep(f)
  PROVE  /\ ctrl'[f].done => ctrl'[f].throttle = 0
         /\ pc'[f] \in Applied => vessel'.throttle = ctrl'[f].throttle
         /\ exit'[f] = "done" =>
              pc'[f] \in {"cut", "disengage", "finish"} /\ vessel'.throttle = 0
         /\ \A g \in Flights \ {f} : ctrl'[g] = ctrl[g] /\ exit'[g] = exit[g]
<1> SUFFICES ASSUME ctrl[f].done => ctrl[f].throttle = 0,
                    pc[f] \in Applied => vessel.throttle = ctrl[f].throttle,
                    exit[f] = "done" =>
                      /\ pc[f] \in {"cut", "disengage", "finish"}
                      /\ vessel.throttle = 0
             PROVE  /\ ctrl'[f].done => ctrl'[f].throttle = 0
                    /\ pc'[f] \in Applied
                         => vessel'.throttle = ctrl'[f].throttle
                    /\ exit'[f] = "done" =>
                         /\ pc'[f] \in {"cut", "disengage", "finish"}
                         /\ vessel'.throttle = 0
                    /\ \A g \in Flights \ {f} :
                         ctrl'[g] = ctrl[g] /\ exit'[g] = exit[g]
  BY DEF CutInv, DoneIsCut, AppliedHolds, LeftComplete
<1> USE DEF RunTypeOK, Goto, Applied
<1>1. CASE Tick(f)
  BY <1>1 DEF Tick
<1>2. CASE SeeCancel(f)
  BY <1>2 DEF SeeCancel, Leave
<1>3. CASE ReadFails(f)
  BY <1>3 DEF ReadFails, Leave
<1>4. CASE Panic(f)
  BY <1>4 DEF Panic, Leave
<1>5. ASSUME NEW t \in Snapshots, ReadAndStep(f, t)
      PROVE  /\ ctrl'[f].done => ctrl'[f].throttle = 0
             /\ pc'[f] = "throttle" /\ exit' = exit /\ pc[f] = "read"
             /\ \A g \in Flights \ {f} : ctrl'[g] = ctrl[g]
  <2>1. ctrl' = [ctrl EXCEPT ![f] = Step(prog[f], t, st[f], Dt).ctrl]
    BY <1>5 DEF ReadAndStep
  <2>2. pc'[f] = "throttle" /\ exit' = exit /\ pc[f] = "read"
    BY <1>5 DEF ReadAndStep
  <2>3. QED
    BY <2>1, <2>2, StepDoneIsCut
<1>6. CASE ApplyThrottle(f)
  <2>1. PICK o \in Outcomes(conn[f]) :
          /\ Command(o, [vessel EXCEPT !.throttle = ctrl[f].throttle])
          /\ Continue(f, o, AfterThrottle(f))
    BY <1>6 DEF ApplyThrottle
  <2>2. o.ok => vessel'.throttle = ctrl[f].throttle
    BY <2>1 DEF Command, Outcomes, CallOutcomes, LinkTypeOK, Vessel
  <2>3. pc[f] = "throttle" /\ UNCHANGED ctrl
    BY <1>6 DEF ApplyThrottle
  <2>4. \/ o.ok /\ exit' = exit
        \/ pc'[f] = "cut" /\ exit' = [exit EXCEPT ![f] = "apply"]
    BY <2>1 DEF Continue, Leave
  <2>5. QED
    BY <2>2, <2>3, <2>4
<1>7. ASSUME vessel'.throttle = vessel.throttle, UNCHANGED ctrl,
             pc[f] \in Applied,
             \/ pc'[f] \in Applied /\ UNCHANGED exit
             \/ pc'[f] = "cut" /\ exit' = [exit EXCEPT ![f] = "apply"]
      PROVE  /\ ctrl'[f].done => ctrl'[f].throttle = 0
             /\ pc'[f] \in Applied => vessel'.throttle = ctrl'[f].throttle
             /\ exit'[f] # "done"
             /\ \A g \in Flights \ {f} :
                  ctrl'[g] = ctrl[g] /\ exit'[g] = exit[g]
  BY <1>7
<1>8. \A v, o : /\ \/ v = [vessel EXCEPT !.autopilot = TRUE]
                   \/ v = [vessel EXCEPT !.autopilot = FALSE]
                   \/ v = [vessel EXCEPT !.frame = "surface"]
                   \/ \E on : v = [vessel EXCEPT !.sas = on]
                   \/ \E n : v = [vessel EXCEPT !.stagesLeft = n]
                /\ Command(o, v)
                => vessel'.throttle = vessel.throttle
  BY DEF Command, LinkTypeOK, Vessel
<1>9. CASE ApplySAS(f)
  <2>1. vessel'.throttle = vessel.throttle
    BY <1>8, <1>9, Zenon DEF ApplySAS
  <2>2. QED
    BY <1>7, <1>9, <2>1 DEF ApplySAS, AfterSteering
<1>10. CASE ApplyFrame(f)
  <2>1. vessel'.throttle = vessel.throttle
    BY <1>8, <1>10, Zenon DEF ApplyFrame
  <2>2. QED
    BY <1>7, <1>10, <2>1 DEF ApplyFrame
<1>11. CASE ApplyEngage(f)
  <2>1. vessel'.throttle = vessel.throttle
    BY <1>8, <1>11, Zenon DEF ApplyEngage
  <2>2. QED
    BY <1>7, <1>11, <2>1 DEF ApplyEngage, Continue, Leave
<1>12. CASE ApplyTarget(f)
  BY <1>7, <1>12 DEF ApplyTarget, Continue, Leave, AfterSteering
<1>13. CASE ApplyStage(f)
  <2>1. vessel'.throttle = vessel.throttle
    BY <1>8, <1>13, Zenon DEF ApplyStage
  <2>2. QED
    BY <1>7, <1>13, <2>1 DEF ApplyStage, Continue, Leave
<1>14. CASE CutThrottle(f)
  <2>1. vessel.throttle = 0 => vessel'.throttle = 0
    BY <1>14 DEF CutThrottle, Command, LinkTypeOK, Vessel
  <2>2. QED
    BY <1>14, <2>1 DEF CutThrottle
<1>15. CASE Disengage(f)
  <2>1. vessel'.throttle = vessel.throttle
    BY <1>8, <1>15, Zenon DEF Disengage
  <2>2. QED
    BY <1>15, <2>1 DEF Disengage
<1>16. QED
  BY <1>1, <1>2, <1>3, <1>4, <1>5, <1>6, <1>9, <1>10, <1>11, <1>12, <1>13,
    <1>14, <1>15 DEF RunStep

(* Every step keeps it, when the flight that steps is the only one.        *)
LEMMA CutStep ==
  ASSUME TypeOK, SerialInv, CutInv, [Next]_vars
  PROVE  CutInv'
<1> USE DEF CutInv, DoneIsCut, AppliedHolds, LeftComplete, CompletedMeansCut
<1>1. ASSUME NEW f \in Flights, RunStep(f), UNCHANGED <<flightState, call>>
      PROVE  CutInv'
  <2>1. LinkTypeOK /\ RunTypeOK
    BY DEF TypeOK
  <2>2. /\ Live(f) /\ \A g \in Flights \ {f} : pc'[g] = pc[g] /\ ~Live(g)
        /\ running'
    BY <1>1, <2>1, RunStepEffect DEF SerialInv, AbortReaches, flightState
  <2>3. \A g \in Flights \ {f} : /\ pc'[g] \notin Applied
                                /\ exit[g] # "done"
    BY <2>2 DEF Live, Applied
  <2>4. QED
    BY <1>1, <2>1, <2>2, <2>3, RunStepCut, Zenon
<1>2. ASSUME NEW f \in Flights, Publish(f)
      PROVE  CutInv'
  <2>1. /\ Live(f) /\ \A g \in Flights \ {f} : pc'[g] = pc[g] /\ ~Live(g)
        /\ running'
    BY <1>2, PublishEffect DEF TypeOK, SerialInv, AbortReaches
  <2>2. /\ UNCHANGED <<ctrl, vessel>>
        /\ pc[f] \in Applied
        /\ \/ pc'[f] = "select" /\ UNCHANGED exit
           \/ /\ pc'[f] = "cut"
              /\ exit' = [exit EXCEPT ![f] = "abort"]
           \/ /\ pc'[f] = "cut" /\ ctrl[f].done
              /\ exit' = [exit EXCEPT ![f] = "done"]
    BY <1>2 DEF Publish, EndOfTick, Leave, Goto, TypeOK, RunTypeOK, Applied
  <2>3. \A g \in Flights \ {f} : pc'[g] \notin Applied /\ exit'[g] # "done"
    BY <2>1, <2>2 DEF Live, Applied, TypeOK, RunTypeOK
  <2>4. /\ pc'[f] \notin Applied
        /\ exit'[f] = "done" => pc'[f] = "cut" /\ vessel'.throttle = 0
    BY <2>2 DEF TypeOK, RunTypeOK, Applied
  <2>5. QED
    BY <2>1, <2>2, <2>3, <2>4, Zenon
<1>3. ASSUME NEW f \in Flights, Report(f)
      PROVE  CutInv'
  <2>1. \A g \in Flights \ {f} : ~Live(g)
    BY <1>3 DEF Report, Live, SerialInv, AbortReaches
  <2>2. /\ vessel' = vessel
        /\ ctrl' = [ctrl EXCEPT ![f] = Neutral]
        /\ exit' = [exit EXCEPT ![f] = "none"]
        /\ pc' = [pc EXCEPT ![f] = "ended"]
        /\ result' = "completed" => exit[f] = "done"
    BY <1>3 DEF Report, Goto, Completed
  <2>3. \A g \in Flights : pc'[g] \notin Applied /\ exit'[g] # "done"
    BY <2>1, <2>2 DEF TypeOK, RunTypeOK, Live, Applied
  <2>4. \A g \in Flights : ctrl'[g].done => ctrl'[g].throttle = 0
    BY <2>2 DEF TypeOK, RunTypeOK, Neutral
  <2>5. QED
    BY <2>2, <2>3, <2>4, Zenon
<1>4. ASSUME NEW c \in Callers, StartCall(c) \/ ServeCall(c)
      PROVE  CutInv'
  <2>1. /\ UNCHANGED <<vessel, ctrl, exit>>
        /\ \A g \in Flights : \/ pc'[g] = pc[g]
                              \/ pc[g] = "none" /\ pc'[g] = "select"
        /\ ~running' => UNCHANGED <<running, result>>
    <3>1. CASE Launch(c)
      BY <3>1 DEF Launch, Goto, TypeOK, RunTypeOK
    <3>2. CASE ~Launch(c)
      BY <1>4, <3>2 DEF StartCall, ServeCall, Arm, Execute, ReadTool, Abort,
        GetConn, NoConnection, ResolveVessel, GetHandles, ReadVessel, DropConn,
        CancelFlight, runVars, flightState
    <3>3. QED
      BY <3>1, <3>2
  <2>2. \A g \in Flights : /\ pc'[g] \in Applied => pc'[g] = pc[g]
                           /\ exit[g] = "done" => pc'[g] = pc[g]
    BY <2>1 DEF Applied
  <2>3. QED
    BY <2>1, <2>2
<1>5. CASE UNCHANGED vars
  <2>1. UNCHANGED <<vessel, ctrl, exit, pc, running, result>>
    BY <1>5 DEF vars, runVars, flightState
  <2>2. QED
    BY <2>1
<1>6. QED
  BY <1>1, <1>2, <1>3, <1>4, <1>5, Zenon DEF Next, FlightStep

(* flight.go and runner.go, one call at a time: a flight reported complete *)
(* has cut the engines, even when its Stop failed, because the control of  *)
(* its last tick did, and nothing opens them again before the next go.     *)
THEOREM CompletedIsCut == Serial /\ Spec => []CompletedMeansCut
<1> SUFFICES ASSUME Serial PROVE Spec => []CompletedMeansCut
  OBVIOUS
<1>1. Init => CutInv
  <2> SUFFICES ASSUME Init PROVE CutInv
    OBVIOUS
  <2>1. RunInit /\ result = "none"
    BY Zenon DEF Init
  <2>2. QED
    BY <2>1 DEF RunInit, Neutral, Applied, CutInv, DoneIsCut, AppliedHolds,
      LeftComplete, CompletedMeansCut
<1>2. TypeOK /\ SerialInv /\ CutInv /\ [Next]_vars => CutInv'
  BY CutStep
<1>3. CutInv => CompletedMeansCut
  BY DEF CutInv
<1>4. Serial /\ Spec => []SerialInv
  BY SerialInvariant
<1>5. QED
  BY <1>1, <1>2, <1>3, <1>4, TypeCorrect, PTL DEF Spec

-----------------------------------------------------------------------------
(* Refinement                                                              *)

(* Flight control starts as FlightGate does.                               *)
LEMMA GateInit == Init => Gate!Init
<1> SUFFICES ASSUME Init PROVE Gate!Init
  OBVIOUS
<1>1. LinkInit /\ RunInit /\ armed = NoProgram /\ failed = FALSE
  BY Zenon DEF Init
<1>2. ~(vessel.throttle # 0)
  BY <1>1 DEF LinkInit
<1>3. \A f \in Flights : ~Live(f)
  BY <1>1 DEF RunInit, Live
<1>4. QED
  BY <1>1, <1>2, <1>3, Zenon DEF Gate!Init

(* Every step is a step of FlightGate or changes nothing it sees.          *)
LEMMA GateStep ==
  ASSUME Serial, TypeOK, SerialInv, [Next]_vars
  PROVE  [Gate!Next]_Gate!vars
<1> DEFINE flying == {prog[f] : f \in {g \in Flights : Live(g)}}
<1>1. ASSUME NEW f \in Flights,
             \/ RunStep(f) /\ UNCHANGED <<flightState, call>>
             \/ Publish(f)
      PROVE  Gate!Throttle
  <2>1. /\ Live(f) /\ prog' = prog
        /\ \A g \in Flights : Live(g)' <=> Live(g)
        /\ UNCHANGED <<armed, failed>>
    BY <1>1, RunStepEffect, PublishEffect DEF TypeOK, flightState, Live
  <2>2. flying' = flying /\ flying # {}
    BY <2>1, Zenon
  <2>3. (vessel.throttle # 0)' \in BOOLEAN
    OBVIOUS
  <2>4. QED
    BY <2>1, <2>2, <2>3, Zenon DEF Gate!Throttle
<1>2. ASSUME NEW f \in Flights, Report(f)
      PROVE  Gate!Finish
  <2>1. Live(f) /\ ~Powered(f)
    BY <1>2 DEF Report, Live, Powered, Loop
  <2>2. \A g \in Flights : g # f => ~Live(g)
    BY <2>1 DEF SerialInv, AbortReaches
  <2>3. \A g \in Flights : ~Live(g)'
    BY <1>2, <2>2 DEF Report, Goto, Live, TypeOK, RunTypeOK
  <2>4. flying # {} /\ flying' = {}
    BY <2>1, <2>3, Zenon
  <2>5. vessel' = vessel /\ armed' = armed /\ failed' = (failed \/ RunFailed(f))
    BY <1>2 DEF Report
  <2>6. vessel.throttle # 0 => failed'
    BY <2>1, <2>2, <2>5, Zenon DEF SerialInv, RunFailed
  <2>7. failed' \in BOOLEAN
    BY <2>5, Zenon
  <2>8. QED
    BY <2>4, <2>5, <2>6, <2>7, Zenon DEF Gate!Finish
<1>3. ASSUME NEW c \in Callers, Arm(c)
      PROVE  Gate!Arm
  <2>1. ~running /\ \A g \in Flights : ~Live(g)
    BY <1>3 DEF Arm, SerialInv, AbortReaches
  <2>2. UNCHANGED <<pc, prog, vessel, failed>> /\ armed' \in Program
    BY <1>3, AscentIsProgram, InputsAssumption DEF Arm, runVars
  <2>3. \A g \in Flights : ~Live(g)'
    BY <2>1, <2>2 DEF Live
  <2>4. flying = {} /\ flying' = {}
    BY <2>1, <2>3, Zenon
  <2>5. QED
    BY <2>2, <2>4, Zenon DEF Gate!Arm
<1>4. ASSUME NEW c \in Callers, Launch(c)
      PROVE  Gate!Go
  <2>1. CallOK(c) /\ call[c].at = "launch"
    BY <1>4 DEF TypeOK, CallTypeOK, Launch, Return
  <2>2. call[c].plan = armed /\ armed # NoProgram /\ ~running
    BY <2>1 DEF CallOK, Executing, SerialInv
  <2>3. \A g \in Flights : ~Live(g)
    BY <2>2 DEF SerialInv, AbortReaches
  <2>4. PICK f \in Flights : /\ pc[f] = "none"
                             /\ Goto(f, "select")
                             /\ prog' = [prog EXCEPT ![f] = call[c].plan]
    BY <1>4 DEF Launch
  <2>5. Live(f)' /\ prog'[f] = armed /\ \A g \in Flights : Live(g)' => g = f
    BY <2>2, <2>3, <2>4 DEF Goto, Live, TypeOK, RunTypeOK
  <2>6. flying = {} /\ flying' = {armed}
    BY <2>3, <2>5, Zenon
  <2>7. UNCHANGED <<vessel, armed>> /\ failed' = FALSE
    BY <1>4 DEF Launch
  <2>8. QED
    BY <2>2, <2>6, <2>7, Zenon DEF Gate!Go
<1>5. CASE UNCHANGED <<pc, prog, vessel, armed, failed>>
  <2>1. \A g \in Flights : Live(g)' <=> Live(g)
    BY <1>5 DEF Live
  <2>2. flying' = flying
    BY <1>5, <2>1, Zenon
  <2>3. QED
    BY <1>5, <2>2, Zenon DEF Gate!vars
<1>6. ASSUME NEW c \in Callers, StartCall(c) \/ ServeCall(c),
             ~Arm(c), ~Launch(c)
      PROVE  UNCHANGED <<pc, prog, vessel, armed, failed>>
  BY <1>6 DEF StartCall, ServeCall, Execute, ReadTool, Abort, GetConn,
    NoConnection, ResolveVessel, GetHandles, ReadVessel, DropConn,
    CancelFlight, runVars, flightState
<1>7. CASE UNCHANGED vars
  BY <1>5, <1>7 DEF vars, runVars, flightState
<1>8. CASE Next
  BY <1>1, <1>2, <1>3, <1>4, <1>5, <1>6, <1>8, Zenon
  DEF Next, FlightStep, Gate!Next
<1>9. QED
  BY <1>7, <1>8

(* One call at a time, flight control is a FlightGate: nothing flies but   *)
(* the plan that was armed, one flight at a time, only after a go, and     *)
(* engines left running are on record.                                     *)
THEOREM ImplementsGate == Serial /\ Spec => KeepsTheGate
<1> SUFFICES ASSUME Serial PROVE Spec => Gate!Spec
  BY DEF KeepsTheGate
<1>1. TypeOK /\ SerialInv /\ [Next]_vars => [Gate!Next]_Gate!vars
  BY GateStep
<1>2. Serial /\ Spec => []SerialInv
  BY SerialInvariant
<1>3. QED
  BY GateInit, <1>1, <1>2, TypeCorrect, PTL DEF Spec, Gate!Spec

(* What FlightGate gives, and so flight control with a client that waits   *)
(* for each answer: engines that run are a flight's or on record, and only *)
(* the plan that was read back is flown.                                   *)
THEOREM GatePromises ==
  Gate!Spec => [](Gate!PowerIsOnRecord /\ Gate!FlownAsArmed)
<1> DEFINE Promise == Gate!PowerIsOnRecord /\ Gate!FlownAsArmed
<1>1. Gate!Init => Promise
  BY DEF Gate!Init, Gate!PowerIsOnRecord, Gate!FlownAsArmed
<1>2. Promise /\ [Gate!Next]_Gate!vars => Promise'
  BY DEF Gate!Next, Gate!vars, Gate!Arm, Gate!Go, Gate!Throttle, Gate!Finish,
         Gate!PowerIsOnRecord, Gate!FlownAsArmed
<1>3. QED
  BY <1>1, <1>2, PTL DEF Gate!Spec
=============================================================================
