-------------------------------- MODULE Reads -------------------------------
(***************************************************************************)
(* The tools that only read: those of cmd/ksp-mcp/server.go, Tier 1 of     *)
(* flightcomp.go, the burn math of plan.go, preflight.go and stagedv.go,   *)
(* with the helpers of package krpc that they call.                        *)
(*                                                                         *)
(* A tool is a script of reads.  When a read that the tool must have fails *)
(* the tool drops the connection and answers with the error; when one that *)
(* it only tries fails, the value stays zero and the tool goes on on the   *)
(* same connection.  A read that fails by its deadline leaves its reply to *)
(* come, and the next read on that connection takes it for its own         *)
(* (RpcChannel): such a connection is late.  Reads of one helper that      *)
(* share their outcome are one read.  What is read matters for the tools   *)
(* about the craft's parts only.                                           *)
(*                                                                         *)
(* An operator named for a slip (ErrorUndropped) is a faulty variant of    *)
(* the definition after it, which the properties must tell from the real   *)
(* one.                                                                    *)
(***************************************************************************)
EXTENDS Connection, Preflight, StageDeltaV

CONSTANTS
  Callers,  \* tool calls that can be in progress together
  Crafts,   \* the crafts that may be flown
  Offered   \* the tools that each client calls with a craft (a bound)

VARIABLES
  inFlight, \* the game has an active vessel
  craft,    \* what the active vessel is
  late,     \* the open connections on which a reply is still to come
  ignored,  \* history: connections on which a tool went on after a deadline
  call,     \* each caller's tool call in progress
  answer    \* the answer a tool call gave in the last step, if any

vars == <<linkVars, inFlight, craft, late, ignored, call, answer>>

-----------------------------------------------------------------------------
(* The reads of a script.  "ends" is a read that must succeed and after     *)
(* which the tool may have its answer already, by what it read.             *)
Must(r) == <<[read |-> r, policy |-> "must"]>>
Ends(r) == <<[read |-> r, policy |-> "ends"]>>
Try(r)  == <<[read |-> r, policy |-> "try"]>>

(* krpc/spacecenter.go, spacecenter_ext.go                                  *)
ReadVesselStatus    == Must("status")
ReadOrbit           == Must("orbit")
ReadFlightTelemetry == Must("telemetry")
ReadCrewMembers     == Must("crew")
ReadResources       == Must("totals") \o Try("stage resources")
ReadManeuverNodes   == Ends("nodes") \o Try("ship") \o Must("node details")
ReadDeltaVInputs    == Must("masses and thrusts")
ReadBodies          == Ends("bodies")
ReadBodyFacts       == Must("body facts")
ReadVessels         == Must("vessels") \o Must("position") \o Must("brief")
                         \o Try("distance")
ReadTarget          == Ends("target")
ReadPosVel          == Must("position")
ReadGravity         == Must("gravity")
ReadRadii           == Must("radii")

(* krpc/parts.go, dv.go: each category is tried on its own.                 *)
PartsSnapshotFor == Must("parts") \o Try("count") \o Try("stage") \o Try("chutes")
                      \o Try("engines") \o Try("decouplers")
StageMassProfile == Must("parts") \o Try("tanks") \o Must("engine list")
                      \o Try("motors")

(* resolveVessel and the rest of flightContext                              *)
ResolveVessel == Must("connection") \o Must("vessel")
FlightContext == ResolveVessel \o Must("context")

VesselStatus    == ResolveVessel \o ReadVesselStatus
Orbit           == ResolveVessel \o ReadOrbit
FlightTelemetry == ResolveVessel \o ReadFlightTelemetry
Resources       == ResolveVessel \o ReadResources
ManeuverNodes   == ResolveVessel \o ReadManeuverNodes
Crew            == ResolveVessel \o ReadCrewMembers
GameState       == Must("connection") \o Must("server status") \o Try("scene")
                     \o Try("paused") \o Try("has vessel")
TargetInfo      == FlightContext \o ReadTarget \o ReadPosVel
                     \o Try("target details")
ListVessels     == FlightContext \o ReadVessels
DeltaVStatus    == FlightContext \o ReadDeltaVInputs \o ReadGravity
Attitude        == FlightContext \o ReadFlightTelemetry \o Must("direction")
                     \o ReadPosVel \o ReadTarget
Bodies          == Must("connection") \o ReadBodies \o ReadBodyFacts
CalcCircularize == FlightContext \o ReadRadii \o Ends("elements")
                     \o Try("burn estimate")
CalcHohmann     == FlightContext \o Must("radius") \o Ends("target or body radius")
                     \o ReadRadii \o ReadPosVel \o Try("burn estimate")
CalcPlaneChange == FlightContext \o ReadTarget \o Must("inclination") \o ReadRadii
CalcBurnTime    == FlightContext \o ReadDeltaVInputs
PreflightTool   == FlightContext \o ReadVesselStatus \o ReadCrewMembers
                     \o PartsSnapshotFor \o ReadResources \o ReadDeltaVInputs
                     \o ReadGravity
StagingPlan     == ResolveVessel \o PartsSnapshotFor
StageDeltaVTool == ResolveVessel \o StageMassProfile

Script(t) ==
  CASE t = "vessel_status"     -> VesselStatus
    [] t = "orbit"             -> Orbit
    [] t = "flight_telemetry"  -> FlightTelemetry
    [] t = "resources"         -> Resources
    [] t = "maneuver_nodes"    -> ManeuverNodes
    [] t = "crew"              -> Crew
    [] t = "game_state"        -> GameState
    [] t = "target_info"       -> TargetInfo
    [] t = "list_vessels"      -> ListVessels
    [] t = "delta_v_status"    -> DeltaVStatus
    [] t = "attitude"          -> Attitude
    [] t = "bodies"            -> Bodies
    [] t = "calc_circularize"  -> CalcCircularize
    [] t = "calc_hohmann"      -> CalcHohmann
    [] t = "calc_plane_change" -> CalcPlaneChange
    [] t = "calc_burn_time"    -> CalcBurnTime
    [] t = "preflight"         -> PreflightTool
    [] t = "staging_plan"      -> StagingPlan
    [] t = "stage_delta_v"     -> StageDeltaVTool

Tools == {"vessel_status", "orbit", "flight_telemetry", "resources",
          "maneuver_nodes", "crew", "game_state", "target_info", "list_vessels",
          "delta_v_status", "attitude", "bodies", "calc_circularize",
          "calc_hohmann", "calc_plane_change", "calc_burn_time", "preflight",
          "staging_plan", "stage_delta_v"}

Categories == {"chutes", "engines", "decouplers", "tanks", "motors"}

(* Of a part of each category, what the tools look at.  A stage is -1 when  *)
(* none activates the part, or none sheds it.                               *)
Staging == Nat \cup {-1}
ChuteStates == {"Stowed", "Armed", "SemiDeployed", "Deployed", "Cut"}
PartOf ==
  [chutes     |-> [stage: Staging, deployed: BOOLEAN, state: ChuteStates \cup {""}],
   engines    |-> [stage: Staging, active: BOOLEAN, thrust: Nat],
   decouplers |-> [stage: Staging],
   tanks      |-> [dec: Staging, wet: Nat, dry: Nat],
   motors     |-> [stage: Staging, dec: Staging, thrust: Nat, isp: Nat]]

ASSUME OfferedAssumption == Offered \in [Crafts -> [Callers -> SUBSET Tools]]
ASSUME CraftsAssumption ==
  \A k \in Crafts, category \in Categories : k[category] \in Seq(PartOf[category])

-----------------------------------------------------------------------------
(* Readings of the parts                                                    *)

Zero == [deployed |-> FALSE, state |-> "", active |-> FALSE,
         thrust |-> 0, stage |-> 0, dec |-> 0, wet |-> 0, dry |-> 0, isp |-> 0]

(* The properties of a part that are read with their errors ignored.        *)
Secondary(category) ==
  CASE category = "chutes"     -> {"deployed", "state"}
    [] category = "engines"    -> {"active", "thrust"}
    [] category = "decouplers" -> {}
    [] category = "tanks"      -> {"dec", "wet", "dry"}
    [] category = "motors"     -> {"stage", "dec", "thrust", "isp"}

(* readParachutes, readEngines, readDecouplers stop a category at the first *)
(* part whose stage or title fails, and keep what they have; StageMassProfile *)
(* goes on to the next.                                                     *)
Lengths(category) ==
  IF category \in {"tanks", "motors"} THEN {Len(craft[category])}
  ELSE 0 .. Len(craft[category])

(* What a category can read as.                                             *)
Readings(category) ==
  LET real == craft[category] IN
  UNION {{[i \in 1 .. n |-> [x \in DOMAIN real[i] |->
             IF x \in lost[i] THEN Zero[x] ELSE real[i][x]]] :
            lost \in [1 .. n -> SUBSET Secondary(category)]} :
         n \in Lengths(category)}

NothingRead == [category \in Categories |-> << >>]

-----------------------------------------------------------------------------
(* pos is the next read of the script; seen the parts read; short the       *)
(* categories that were cut off (the *Err fields); missed: some read was    *)
(* ignored; foreign: some read took a reply that was not its own.           *)
NoCall == [tool |-> "none", pos |-> 1, failed |-> FALSE, handle |-> NoConn,
           seen |-> NothingRead, short |-> {}, missed |-> FALSE,
           foreign |-> FALSE]

NoAnswer == [kind |-> "none", tool |-> "none", says |-> NoCall]
Silent   == answer' = NoAnswer

Busy(c) == call[c].tool # "none"
Step(c) == Script(call[c].tool)[call[c].pos]
At(c, r) == Busy(c) /\ ~call[c].failed /\ Step(c).read = r
AtEnd(c) == call[c].pos = Len(Script(call[c].tool))

Sees(s) == /\ DOMAIN s = Categories
           /\ \A category \in Categories :
                s[category] \in Seq(PartOf[category])

CallOK(r) ==
  /\ DOMAIN r = DOMAIN NoCall
  /\ r.tool \in Tools \cup {"none"}
  /\ r.pos \in 1 .. (IF r.tool = "none" THEN 1 ELSE Len(Script(r.tool)))
  /\ r.failed \in BOOLEAN /\ r.missed \in BOOLEAN /\ r.foreign \in BOOLEAN
  /\ r.handle \in Connections \cup {NoConn}
  /\ r.short \subseteq Categories
  /\ Sees(r.seen)

TypeOK ==
  /\ ConnTypeOK
  /\ inFlight \in BOOLEAN
  /\ craft \in Crafts
  /\ late \subseteq open
  /\ ignored \subseteq Connections
  /\ DOMAIN call = Callers /\ \A c \in Callers : CallOK(call[c])
  /\ answer.kind \in {"none", "unavailable", "data", "error"}

Init ==
  /\ ConnInit
  /\ inFlight \in BOOLEAN
  /\ craft \in Crafts
  /\ late = {}
  /\ ignored = {}
  /\ call = [c \in Callers |-> NoCall]
  /\ answer = NoAnswer

(* The answer, and what the tool had read when it gave it.                  *)
Answer(c, kind) ==
  /\ call' = [call EXCEPT ![c] = NoCall]
  /\ answer' = [kind |-> kind, tool |-> call[c].tool, says |-> call[c]]

(* The next read with locals r, or the answer after the last.               *)
Proceed(c, r) ==
  IF AtEnd(c)
    THEN /\ call' = [call EXCEPT ![c] = NoCall]
         /\ answer' = [kind |-> "data", tool |-> r.tool, says |-> r]
    ELSE /\ call' = [call EXCEPT ![c] = [r EXCEPT !.pos = @ + 1]]
         /\ Silent

Fail(c) == call' = [call EXCEPT ![c].failed = TRUE] /\ Silent

(* The outcomes of a read on the caller's connection.  One that fails may   *)
(* have left its reply to come.                                             *)
Replied(c) == call[c].handle \in open /\ UNCHANGED late
Refused(c) == call[c].handle \in open /\ "tool" \in Faults /\ UNCHANGED late
Lost(c)    == \/ /\ call[c].handle \notin open \/ call[c].handle \in late
                 /\ UNCHANGED late
              \/ /\ call[c].handle \in open /\ "transport" \in Faults
                 /\ late' \in {late, late \cup {call[c].handle}}

Reply(c) == [call[c] EXCEPT !.foreign = @ \/ call[c].handle \in late]

(* A read was ignored.  What came after it in the same helper may have read *)
(* a foreign reply.                                                         *)
Missed(c) == [call[c] EXCEPT !.missed = TRUE,
                             !.foreign = @ \/ call[c].handle \in late']
Ignore(c) ==
  ignored' = IF call[c].handle \in late' \ late THEN ignored \cup {call[c].handle}
             ELSE ignored

-----------------------------------------------------------------------------
Begin(c, t) ==
  /\ ~Busy(c)
  /\ call' = [call EXCEPT ![c].tool = t]
  /\ Silent
  /\ UNCHANGED <<linkVars, inFlight, craft, late, ignored>>

(* kspServer.conn; a dial that fails is an answer.                          *)
GetConn(c) ==
  /\ At(c, "connection")
  /\ \/ \E k \in Connections :
          Acquire(k) /\ Proceed(c, [call[c] EXCEPT !.handle = k])
     \/ DialFails /\ Answer(c, "unavailable")
  /\ UNCHANGED <<inFlight, craft, late, ignored>>

(* ActiveVessel: any refusal means no vessel, which is an answer; it names  *)
(* the scene when that can be read (noVesselMsg).                           *)
FindVessel(c) ==
  /\ At(c, "vessel")
  /\ \/ Replied(c) /\ inFlight /\ Proceed(c, Reply(c)) /\ UNCHANGED ignored
     \/ /\ call[c].handle \in open
        /\ ~inFlight \/ "tool" \in Faults \/ call[c].handle \in late
        /\ Replied(c) \/ Lost(c)
        /\ Ignore(c)
        /\ Answer(c, "unavailable")
     \/ Lost(c) /\ Fail(c) /\ UNCHANGED ignored
  /\ UNCHANGED <<linkVars, inFlight, craft>>

Reading(c) == /\ Busy(c) /\ ~call[c].failed
              /\ Step(c).read \notin {"connection", "vessel"} \cup Categories

(* A read that must succeed.                                                *)
MustRead(c) ==
  /\ Reading(c) /\ Step(c).policy \in {"must", "ends"}
  /\ \/ Replied(c) /\ Proceed(c, Reply(c))
     \/ /\ Replied(c) /\ Step(c).policy = "ends"
        /\ call' = [call EXCEPT ![c] = NoCall]
        /\ answer' = [kind |-> "data", tool |-> call[c].tool, says |-> Reply(c)]
     \/ (Refused(c) \/ Lost(c)) /\ Fail(c)
  /\ UNCHANGED <<linkVars, inFlight, craft, ignored>>

(* A read that is only tried.                                               *)
TryRead(c) ==
  /\ Reading(c) /\ Step(c).policy = "try"
  /\ \/ Replied(c) /\ Proceed(c, Reply(c)) /\ UNCHANGED ignored
     \/ (Refused(c) \/ Lost(c)) /\ Ignore(c) /\ Proceed(c, Missed(c))
  /\ UNCHANGED <<linkVars, inFlight, craft>>

(* A category of parts: all of it, or what can be read of it.               *)
ReadParts(c) ==
  /\ \E category \in Categories :
       /\ At(c, category)
       /\ \/ /\ Replied(c)
             /\ Proceed(c, [Reply(c) EXCEPT !.seen[category] = craft[category]])
             /\ UNCHANGED ignored
          \/ /\ Refused(c) \/ Lost(c)
             /\ Ignore(c)
             /\ \E reading \in Readings(category) :
                  Proceed(c, [Missed(c) EXCEPT
                    !.seen[category] = reading,
                    !.short = IF Len(reading) < Len(craft[category])
                              THEN @ \cup {category} ELSE @])
  /\ UNCHANGED <<linkVars, inFlight, craft>>

ErrorUndropped(c) ==
  /\ Busy(c) /\ call[c].failed
  /\ Answer(c, "error")
  /\ UNCHANGED <<linkVars, late, inFlight, craft, ignored>>

(* drop, and the error as the answer; game_state answers "not connected".   *)
DropConn(c) ==
  /\ Busy(c) /\ call[c].failed
  /\ Drop
  /\ late' = late \cap open'
  /\ Answer(c, IF call[c].tool = "game_state" THEN "unavailable" ELSE "error")
  /\ UNCHANGED <<inFlight, craft, ignored>>

Serve(c) == \/ GetConn(c) \/ FindVessel(c) \/ MustRead(c) \/ TryRead(c)
            \/ ReadParts(c) \/ DropConn(c)

(* The game goes to another scene, or back.                                 *)
ChangeScene ==
  /\ inFlight' = ~inFlight
  /\ Silent
  /\ UNCHANGED <<linkVars, craft, late, ignored, call>>

Next ==
  \/ \E c \in Callers : Serve(c) \/ \E t \in Offered[craft][c] : Begin(c, t)
  \/ ChangeScene

Spec == Init /\ [][Next]_vars

-----------------------------------------------------------------------------
(* The answers about the craft                                              *)
Said(t) == answer.kind = "data" /\ answer.tool = t /\ ~answer.says.foreign

(* preflight: the facts, from what was read of a craft.                     *)
FactsOf(s) == [situation |-> craft.situation, amount |-> craft.amount,
               max |-> craft.max, weight |-> craft.weight,
               engines |-> s.engines, chutes |-> s.chutes]

Lines == Checklist(FactsOf(answer.says.seen))

-----------------------------------------------------------------------------
(* A connection on which a reply is still to come is dropped before anybody *)
(* goes on with it, except where a tool ignored the failure: whoever        *)
(* noticed it is about to drop (resolveVessel, and every tool after it).    *)
LateReplyIsDropped ==
  \A k \in late \ ignored :
    \E c \in Callers : call[c].failed /\ call[c].handle = k

(* A no-go for power or parachutes is so, whatever could not be read: an    *)
(* ignored failure reads as the harmless value.  (preflight.go:14)          *)
NoGoIsSo ==
  Said("preflight") =>
    \A item \in {"power", "parachutes"} :
      Lines[item] = "no-go" => Checklist(FactsOf(craft))[item] = "no-go"

(* Better a true fact than a false alarm (preflight.go:14-18): whoever is   *)
(* told NO-GO has a craft that is not to go.                                *)
NoFalseAlarm ==
  Said("preflight") =>
    (Verdict(Lines) = "NO-GO" => Verdict(Checklist(FactsOf(craft))) = "NO-GO")

(* The staging plan tells where every part fires that was read, once, in    *)
(* the order of firing, and every part of the craft unless it says that a   *)
(* category is incomplete (preflight.go:205, 392).                          *)
StagingComplete ==
  Said("staging_plan") =>
    LET s == answer.says.seen
        steps == StagingSteps(s.engines, s.decouplers, s.chutes)
        rest  == NotStaged(s.engines, s.decouplers, s.chutes)
        told  == {steps[n].parts : n \in DOMAIN steps} \cup {rest}
        parts == [engine |-> "engines", decoupler |-> "decouplers",
                  parachute |-> "chutes"]
    IN /\ \A n \in 2 .. Len(steps) : steps[n].stage < steps[n - 1].stage
       /\ \A kind \in DOMAIN parts :
            parts[kind] \notin answer.says.short =>
              \A i \in DOMAIN craft[parts[kind]] :
                Cardinality({p \in told : <<kind, i>> \in p}) = 1

(* The stage rows come in the order of firing, and every one is the stage   *)
(* of the rocket flown, when all was read: its masses are those before and  *)
(* after its burn, what the stages between shed accounts for the difference, *)
(* and no stage that burns is left out (astro/stagedv.go:10-26).            *)
RowsAreFlown ==
  Said("stage_delta_v") /\ ~answer.says.missed =>
    LET s == answer.says.seen
        rows == StageDeltaVs(s.tanks, s.motors)
        flight == Flown(craft.tanks, craft.motors)
    IN /\ \A n \in 2 .. Len(rows) : rows[n].stage < rows[n - 1].stage
       /\ \A n \in DOMAIN rows :
            /\ rows[n].start = flight[rows[n].stage].start
            /\ rows[n].end > 0 => rows[n].end = flight[rows[n].stage].end
       /\ \A t \in DOMAIN flight :
            flight[t].end < flight[t].start /\ flight[t].end > 0 =>
              \E n \in DOMAIN rows : rows[n].stage = t /\ rows[n].end > 0

(* Whatever could not be read, a stage that claims a delta-v burns from its *)
(* start mass to a smaller one that is not nothing.                         *)
DeltaVMakesSense ==
  Said("stage_delta_v") =>
    LET s == answer.says.seen
        rows == StageDeltaVs(s.tanks, s.motors)
    IN \A n \in DOMAIN rows : \/ rows[n].end = 0
                              \/ rows[n].end \in 1 .. rows[n].start - 1
=============================================================================
