------------------------ MODULE PlannerGuardProofs --------------------------
(***************************************************************************)
(* What the tools promise of the flight plans, for any number of callers,  *)
(* vessels and nodes: the planners that refuse a plan with nodes keep      *)
(* their word (NeverStacks), and what an answer says is so (AnswersTrue).  *)
(***************************************************************************)
EXTENDS PlannerProofs

-----------------------------------------------------------------------------
(* The inductive invariant                                                 *)

(* The steps of tool t's own script that come after noExistingNodesOrNote.  *)
PastStep(t, step) == \/ step \in {"operate", "match", "readback"}
                     \/ step = "mechjeb" /\ t \in WithFallback

(* The guard has passed: it did before the native fallback took over.       *)
Past(r) == \/ r.script # r.asked
           \/ PastStep(r.asked, Script(r.script)[r.pos])

(* What c's plan was when the guard passed is its plan now: no node but c's *)
(* own, on the active vessel, as long as nobody disturbs it.                *)
Kept(c) ==
  call[c].asked \in Guarded /\ ~call[c].failed =>
    /\ call[c].script \in {call[c].asked, "plan_hohmann"}
    /\ call[c].undisturbed /\ call[c].pos > 2 => active = call[c].vessel
    /\ call[c].undisturbed /\ Past(call[c]) =>
         /\ active = call[c].vessel /\ call[c].vessel \in Vessels
         /\ \A n \in plan[call[c].vessel] : fate[n] = c

GInv == IInv /\ \A c \in Callers : Kept(c)

(* A guarded planner places nothing before its guard, and what follows a    *)
(* step before the guard is before the guard, or the guard.                 *)
LEMMA GuardFacts ==
  ASSUME NEW t \in Guarded
  PROVE  \A p \in 1 .. Len(Script(t)) :
           /\ Script(t)[p] # "add"
           /\ /\ p + 1 \in 1 .. Len(Script(t))
              /\ PastStep(t, Script(t)[p + 1])
              => PastStep(t, Script(t)[p]) \/ Script(t)[p] = "guard"
<1> USE DEF PastStep, WithFallback, Script
<1>1. CASE t = "plan_intercept"
  BY <1>1 DEF PlanIntercept
<1>2. CASE t = "plan_rendezvous"
  BY <1>2 DEF PlanRendezvous
<1>3. CASE t = "plan_interplanetary"
  BY <1>3 DEF PlanInterplanetary
<1>4. CASE t = "plan_return"
  BY <1>4 DEF PlanReturn
<1>5. CASE t = "plan_match_planes"
  BY <1>5 DEF PlanMatchPlanes
<1>6. QED
  BY <1>1, <1>2, <1>3, <1>4, <1>5 DEF Guarded

-----------------------------------------------------------------------------
(* The others                                                              *)

(* c leaves the game and the others' nodes alone.                           *)
Quiet(c) ==
  /\ active' = active /\ plan' = plan
  /\ \A d \in Callers \ {c} : call'[d] = call[d]
  /\ \A n \in Nodes : fate[n] # c => fate'[n] = fate[n]

LEMMA QuietKeeps ==
  ASSUME GInv, NEW c \in Callers, Quiet(c), NEW d \in Callers, d # c
  PROVE  Kept(d)'
<1>1. Kept(d) /\ plan \in [Vessels -> SUBSET Nodes]
  BY DEF GInv, IInv, GameTyped
<1>2. call'[d] = call[d] /\ active' = active /\ plan' = plan
  BY DEF Quiet
<1>3. \A n \in Nodes : fate[n] = d => fate'[n] = d
  BY DEF Quiet
<1>4. QED
  BY <1>1, <1>2, <1>3 DEF Kept, Past

(* Whoever hears of a change promises nothing more.                         *)
LEMMA HearingKeeps ==
  ASSUME GInv, NEW d \in Callers,
         \/ ~Busy(d) /\ call'[d] = call[d]
         \/ call'[d] = [call[d] EXCEPT !.undisturbed = FALSE]
  PROVE  Kept(d)'
<1>1. Kept(d) /\ call[d] \in Call
  BY DEF GInv, IInv, CallsGood
<1>2. CASE ~Busy(d) /\ call'[d] = call[d]
  BY <1>2 DEF Busy, Kept, Guarded, WithFallback
<1>3. CASE call'[d] = [call[d] EXCEPT !.undisturbed = FALSE]
  <2>1. /\ call'[d].asked = call[d].asked /\ call'[d].failed = call[d].failed
        /\ call'[d].script = call[d].script /\ ~call'[d].undisturbed
    BY <1>1, <1>3 DEF Call
  <2>2. QED
    BY <1>1, <2>1 DEF Kept
<1>4. QED
  BY <1>2, <1>3

(* c itself, when it has failed or answered.                                *)
LEMMA EndKeeps ==
  ASSUME NEW c \in Callers, call'[c].failed \/ call'[c].asked = "none"
  PROVE  Kept(c)'
BY DEF Kept, Guarded, WithFallback

-----------------------------------------------------------------------------
(* The caller                                                              *)

(* c goes on to its next step as r, having passed the guard if it did.      *)
LEMMA OnKeeps ==
  ASSUME GInv, NEW c \in Callers, NEW step, At(c, step), step \notin LastSteps,
         NEW r \in Call, call'[c] = [r EXCEPT !.pos = @ + 1],
         r.asked = call[c].asked, r.script = call[c].script,
         r.pos = call[c].pos, r.undisturbed = call[c].undisturbed,
         active' = active,
         IF step = "vessel" THEN r.vessel = active /\ active \in Vessels
                            ELSE r.vessel = call[c].vessel,
         IF step = "guard" THEN plan'[r.vessel] = {}
         ELSE call[c].asked \in Guarded /\ Past(call[c]) /\ call[c].undisturbed
                => \A n \in plan'[call[c].vessel] : fate'[n] = c
  PROVE  Kept(c)'
<1> DEFINE next == [r EXCEPT !.pos = @ + 1]
           s == Script(call[c].script)
<1>1. /\ CallGood(call[c]) /\ call[c].asked # "none" /\ ~call[c].failed
      /\ Kept(c)
  BY DEF GInv, IInv, CallsGood, At, Busy
<1>2. /\ Starts(s) /\ Ends(s) /\ call[c].pos \in 1 .. Len(s)
      /\ s[call[c].pos] = step
  BY <1>1, ScriptFacts DEF CallGood, Call, At, Starts
<1>3. call[c].pos + 1 \in 1 .. Len(s)
  BY <1>2 DEF Ends
<1>4. /\ next.asked = call[c].asked /\ next.script = call[c].script
      /\ next.pos = call[c].pos + 1 /\ next.vessel = r.vessel
      /\ next.undisturbed = call[c].undisturbed
  BY DEF Call
<1> HIDE DEF next
<1> SUFFICES ASSUME call[c].asked \in Guarded, call[c].undisturbed
             PROVE  /\ call[c].pos + 1 > 2 => active = r.vessel
                    /\ Past(next) =>
                         /\ active = r.vessel /\ r.vessel \in Vessels
                         /\ \A n \in plan'[r.vessel] : fate'[n] = c
  <2>1. call'[c] = next
    BY DEF next
  <2>2. call[c].asked \in Guarded =>
          call[c].script \in {call[c].asked, "plan_hohmann"}
    BY <1>1 DEF Kept
  <2>3. call[c].undisturbed \in BOOLEAN
    BY <1>1 DEF CallGood, Call
  <2>4. QED
    BY <1>4, <2>1, <2>2, <2>3 DEF Kept
<1>5. call[c].pos + 1 > 2 => active = r.vessel
  <2>1. CASE call[c].pos = 2
    BY <1>2, <2>1 DEF Starts
  <2>2. CASE call[c].pos > 2
    <3>1. step # "vessel"
      BY <1>2, <2>2 DEF Starts
    <3>2. QED
      BY <1>1, <2>2, <3>1 DEF Kept
  <2>3. QED
    BY <1>2, <2>1, <2>2
<1>6. ASSUME Past(next)
      PROVE  /\ active = r.vessel /\ r.vessel \in Vessels
             /\ \A n \in plan'[r.vessel] : fate'[n] = c
  <2>1. Past(call[c]) \/ step = "guard"
    <3>1. CASE call[c].script # call[c].asked
      BY <3>1 DEF Past
    <3>2. CASE call[c].script = call[c].asked
      <4>1. PastStep(call[c].asked, s[call[c].pos + 1])
        BY <1>4, <1>6, <3>2 DEF Past
      <4>2. PastStep(call[c].asked, s[call[c].pos]) \/ step = "guard"
        BY <1>2, <1>3, <3>2, <4>1, GuardFacts
      <4>3. QED
        BY <4>2 DEF Past
    <3>3. QED
      BY <3>1, <3>2
  <2>2. CASE step = "guard"
    <3>1. call[c].vessel \in Vessels
      BY <2>2, VesselKnown DEF GInv
    <3>2. call[c].pos # 1
      BY <1>2, <2>2 DEF Starts
    <3>3. QED
      BY <1>2, <1>5, <2>2, <3>1, <3>2
  <2>3. CASE Past(call[c]) /\ step # "guard"
    <3>1. active = call[c].vessel /\ call[c].vessel \in Vessels
      BY <1>1, <2>3 DEF Kept
    <3>2. \A n \in plan'[call[c].vessel] : fate'[n] = c
      BY <2>3
    <3>3. r.vessel = call[c].vessel
      BY <3>1
    <3>4. QED
      BY <3>1, <3>2, <3>3
  <2>4. QED
    BY <2>1, <2>2, <2>3
<1>7. QED
  BY <1>5, <1>6

-----------------------------------------------------------------------------
(* The moves of a call                                                     *)

(* What a step may do to the plans: NeverStacks.                            *)
Honoured ==
  \A c \in Callers, v \in Vessels :
    /\ call[c].asked \in Guarded /\ call[c].undisturbed
    /\ \E n \in plan'[v] \ plan[v] : fate'[n] = c
    => \A n \in plan[v] : fate[n] = c

Holds == (\A d \in Callers : Kept(d)') /\ Honoured

LEMMA QuietHolds ==
  ASSUME GInv, NEW c \in Callers, Quiet(c), Kept(c)'
  PROVE  Holds
<1>1. Honoured
  BY DEF Quiet, Honoured
<1>2. QED
  BY <1>1, QuietKeeps DEF Holds

LEMMA FailHolds ==
  ASSUME GInv, NEW c \in Callers, Fail(c), UNCHANGED gameVars
  PROVE  Holds
<1>1. call \in [Callers -> Call]
  BY DEF GInv, IInv, CallsGood
<1>2. Quiet(c)
  BY <1>1 DEF Fail, Quiet, gameVars
<1>3. call'[c].failed
  BY <1>1 DEF Fail, Call
<1>4. QED
  BY <1>2, <1>3, EndKeeps, QuietHolds

LEMMA AnswerHolds ==
  ASSUME GInv, NEW c \in Callers, NEW kind, NEW ns, NEW count,
         Answer(c, kind, ns, count)
  PROVE  Holds
<1>1. call \in [Callers -> Call] /\ fate \in [Nodes -> Fates \cup Callers]
  BY DEF GInv, IInv, CallsGood, GameTyped
<1>2. Quiet(c)
  BY <1>1 DEF Answer, Settle, Quiet
<1>3. call'[c].asked = "none"
  BY <1>1 DEF Answer, NoCall
<1>4. QED
  BY <1>2, <1>3, EndKeeps, QuietHolds

LEMMA ReadOnHolds ==
  ASSUME GInv, NEW c \in Callers, NEW step, At(c, step), step \notin LastSteps,
         NEW r \in Call, ReadOn(c, r),
         r.asked = call[c].asked, r.script = call[c].script,
         r.pos = call[c].pos, r.undisturbed = call[c].undisturbed,
         IF step = "vessel" THEN r.vessel = active /\ active \in Vessels
                            ELSE r.vessel = call[c].vessel,
         step = "guard" => plan[r.vessel] = {}
  PROVE  Holds
<1> DEFINE next == [r EXCEPT !.pos = @ + 1]
<1>1. /\ call \in [Callers -> Call] /\ Kept(c) /\ ~call[c].failed
      /\ plan \in [Vessels -> SUBSET Nodes]
  BY DEF GInv, IInv, CallsGood, GameTyped, At
<1>2. call' = [call EXCEPT ![c] = next] /\ UNCHANGED gameVars
  BY DEF ReadOn, Proceed
<1>3. Quiet(c) /\ call'[c] = next
  <2> HIDE DEF next
  <2>1. QED
    BY <1>1, <1>2 DEF Quiet, gameVars
<1>4. active' = active /\ plan' = plan /\ fate' = fate
  BY <1>2 DEF gameVars
<1>5. IF step = "guard" THEN plan'[r.vessel] = {}
      ELSE call[c].asked \in Guarded /\ Past(call[c]) /\ call[c].undisturbed
             => \A n \in plan'[call[c].vessel] : fate'[n] = c
  BY <1>1, <1>4 DEF Kept
<1>6. Kept(c)'
  BY <1>3, <1>4, <1>5, OnKeeps
<1>7. QED
  BY <1>3, <1>6, QuietHolds

LEMMA ReadOnSameHolds ==
  ASSUME GInv, NEW c \in Callers, NEW step, At(c, step),
         step \notin LastSteps \cup {"vessel"}, ReadOn(c, call[c]),
         step = "guard" => plan[call[c].vessel] = {}
  PROVE  Holds
<1>1. call[c] \in Call
  BY DEF GInv, IInv, CallsGood
<1>2. QED
  BY <1>1, ReadOnHolds

(* Others hear of what c does to the plans.                                 *)
LEMMA OthersKept ==
  ASSUME GInv, NEW c \in Callers, NEW r,
         call' = [Disturbed(c) EXCEPT ![c] = r],
         NEW d \in Callers, d # c
  PROVE  Kept(d)'
BY HearingKeeps DEF Disturbed

LEMMA EraseHolds ==
  ASSUME GInv, NEW c \in Callers, NEW ns, NEW o, NEW kind, NEW count,
         Erase(c, ns, o, kind, count)
  PROVE  Holds
<1> DEFINE r == IF o.ok THEN NoCall ELSE [call[c] EXCEPT !.failed = TRUE]
<1>1. call \in [Callers -> Call] /\ Disturbed(c)[c] = call[c]
  BY DEF GInv, IInv, CallsGood, Disturbed
<1>2. call' = [Disturbed(c) EXCEPT ![c] = r]
  BY <1>1 DEF Erase
<1>3. r.failed \/ r.asked = "none"
  BY <1>1 DEF NoCall, Call
<1> HIDE DEF r
<1>4. call'[c] = r
  BY <1>2 DEF Disturbed
<1>5. \A d \in Callers : Kept(d)'
  BY <1>2, <1>3, <1>4, OthersKept, EndKeeps
<1>6. \A v \in Vessels : plan'[v] \subseteq plan[v]
  BY DEF Erase
<1>7. Honoured
  BY <1>6 DEF Honoured
<1>8. QED
  BY <1>5, <1>7 DEF Holds

(* The only step that places: past the guard, on a plan that was empty.     *)
LEMMA PlaceHolds ==
  ASSUME GInv, NEW c \in Callers, NEW step \in PlaceSteps, At(c, step),
         NEW v \in Vessels, v \in {active, call[c].vessel},
         NEW ns \in SUBSET Nodes, NEW o, Place(c, v, ns),
         call' = [Disturbed(c) EXCEPT ![c] = Placed(c, ns, o)]
  PROVE  Holds
<1>1. /\ call \in [Callers -> Call] /\ Kept(c) /\ CallGood(call[c])
      /\ ~call[c].failed /\ call[c].asked # "none"
      /\ plan \in [Vessels -> SUBSET Nodes]
      /\ fate \in [Nodes -> Fates \cup Callers]
      /\ call[c].vessel \in Vessels
  BY VesselKnown DEF GInv, IInv, CallsGood, GameTyped, At, Busy, PlaceSteps
<1>2. call'[c] = Placed(c, ns, o)
  BY DEF Disturbed
<1>3. ASSUME call[c].asked \in Guarded
      PROVE  Past(call[c])
  <2>1. CASE step = "add"
    <3>1. Starts(Script(call[c].script)) /\ call[c].pos \in 1 .. Len(Script(call[c].script))
      BY <1>1, ScriptFacts DEF CallGood, Call, Starts
    <3>2. call[c].script # call[c].asked
      BY <1>3, <2>1, <3>1, GuardFacts DEF At
    <3>3. QED
      BY <3>2 DEF Past
  <2>2. CASE step \in {"operate", "match"}
    BY <2>2 DEF Past, PastStep, At
  <2>3. QED
    BY <2>1, <2>2 DEF PlaceSteps
<1>4. /\ plan' = [plan EXCEPT ![v] = @ \cup ns]
      /\ fate' = [n \in Nodes |-> IF n \in ns THEN c ELSE fate[n]]
      /\ active' = active
  BY DEF Place
<1>5. Kept(c)'
  <2> DEFINE r == [call[c] EXCEPT !.made = @ \cup ns]
  <2>1. CASE o.ok
    <3>1. /\ r \in Call /\ r.asked = call[c].asked /\ r.script = call[c].script
          /\ r.pos = call[c].pos /\ r.undisturbed = call[c].undisturbed
          /\ r.vessel = call[c].vessel
      BY <1>1 DEF CallGood, Call
    <3>2. call'[c] = [r EXCEPT !.pos = @ + 1]
      BY <1>1, <1>2, <2>1 DEF Placed, Call
    <3>3. step \notin LastSteps \cup {"vessel", "guard"}
      BY DEF PlaceSteps, LastSteps
    <3>4. call[c].asked \in Guarded /\ Past(call[c]) /\ call[c].undisturbed
            => \A n \in plan'[call[c].vessel] : fate'[n] = c
      BY <1>1, <1>4 DEF Kept
    <3> HIDE DEF r
    <3>5. QED
      BY <1>4, <3>1, <3>2, <3>3, <3>4, OnKeeps
  <2>2. CASE ~o.ok
    <3>1. call'[c].failed
      BY <1>1, <1>2, <2>2 DEF Placed, Call
    <3>2. QED
      BY <3>1, EndKeeps
  <2>3. QED
    BY <2>1, <2>2
<1>6. \A d \in Callers : Kept(d)'
  BY <1>5, OthersKept
<1>7. Honoured
  <2> SUFFICES ASSUME NEW d \in Callers, NEW w \in Vessels,
                      call[d].asked \in Guarded, call[d].undisturbed,
                      NEW n \in plan'[w] \ plan[w], fate'[n] = d
               PROVE  \A m \in plan[w] : fate[m] = d
    BY DEF Honoured
  <2>1. w = v /\ n \in ns
    BY <1>1, <1>4
  <2>2. d = c
    BY <1>4, <2>1
  <2>3. active = call[c].vessel /\ \A m \in plan[call[c].vessel] : fate[m] = c
    BY <1>1, <1>3, <2>2 DEF Kept
  <2>4. QED
    BY <2>1, <2>2, <2>3
<1>8. QED
  BY <1>6, <1>7 DEF Holds

-----------------------------------------------------------------------------
(* The actions                                                             *)

LEMMA BeginHolds ==
  ASSUME GInv, NEW c \in Callers, NEW t \in Tools, Begin(c, t)
  PROVE  Holds
<1>1. call \in [Callers -> Call] /\ call[c] = NoCall
  BY DEF Begin, Busy, GInv, IInv, CallsGood, CallGood
<1>2. Quiet(c)
  BY <1>1 DEF Begin, Quiet, gameVars
<1> DEFINE r == [NoCall EXCEPT !.asked = t, !.script = t]
<1>3. call'[c] = r
  BY <1>1 DEF Begin
<1>4. r.asked = t /\ r.script = t /\ r.pos = 1
  BY DEF NoCall
<1> HIDE DEF r
<1>5. Starts(Script(t))
  BY ScriptFacts
<1>6. ~PastStep(t, Script(t)[1])
  BY <1>5 DEF Starts, PastStep
<1>7. Kept(c)'
  BY <1>3, <1>4, <1>6 DEF Kept, Past
<1>8. QED
  BY <1>2, <1>7, QuietHolds

LEMMA GetConnHolds ==
  ASSUME GInv, NEW c \in Callers, GetConn(c)
  PROVE  Holds
<1>1. CASE Answer(c, "unavailable", {}, 0)
  BY <1>1, AnswerHolds
<1>2. ASSUME NEW k \in Connections, ReadOn(c, [call[c] EXCEPT !.handle = k])
      PROVE  Holds
  <2> DEFINE r == [call[c] EXCEPT !.handle = k]
  <2>1. At(c, "conn") /\ call[c] \in Call /\ "conn" \notin LastSteps
    BY DEF GetConn, GInv, IInv, CallsGood, LastSteps
  <2>2. /\ r \in Call /\ r.asked = call[c].asked /\ r.script = call[c].script
        /\ r.pos = call[c].pos /\ r.undisturbed = call[c].undisturbed
        /\ r.vessel = call[c].vessel
    BY <2>1, MaxConnsAssumption DEF Call, Connections
  <2>3. ReadOn(c, r)
    BY <1>2
  <2> HIDE DEF r
  <2>4. QED
    BY <2>1, <2>2, <2>3, ReadOnHolds
<1>3. QED
  BY <1>1, <1>2 DEF GetConn

LEMMA ResolveVesselHolds ==
  ASSUME GInv, NEW c \in Callers, ResolveVessel(c)
  PROVE  Holds
<1> DEFINE r == [call[c] EXCEPT !.vessel = active]
<1>1. CASE active # NoVessel /\ ReadOn(c, r)
  <2>1. At(c, "vessel") /\ call[c] \in Call /\ "vessel" \notin LastSteps
    BY DEF ResolveVessel, CanRead, ReadFails, GInv, IInv, CallsGood, LastSteps
  <2>2. active \in Vessels
    BY <1>1 DEF GInv, IInv, GameTyped
  <2>3. /\ r \in Call /\ r.asked = call[c].asked /\ r.script = call[c].script
        /\ r.pos = call[c].pos /\ r.undisturbed = call[c].undisturbed
        /\ r.vessel = active
    BY <2>1, <2>2 DEF Call
  <2> HIDE DEF r
  <2>4. QED
    BY <1>1, <2>1, <2>2, <2>3, ReadOnHolds
<1>2. CASE Answer(c, "unavailable", {}, 0)
  BY <1>2, AnswerHolds
<1>3. CASE ReadFails(c, "vessel")
  BY <1>3, FailHolds DEF ReadFails
<1>4. QED
  BY <1>1, <1>2, <1>3 DEF ResolveVessel

LEMMA CheckHolds ==
  ASSUME GInv, NEW c \in Callers,
         RequireTarget(c) \/ Guard(c) \/ ProbeMechJeb(c) \/ Prepare(c)
  PROVE  Holds
<1>1. PICK step \in {"target", "guard", "mechjeb", "time", "apsis", "window"} :
        /\ At(c, step)
        /\ \/ ReadOn(c, call[c]) /\ (step = "guard" => plan[call[c].vessel] = {})
           \/ Note(c)
           \/ ReadFails(c, step)
  BY DEF RequireTarget, Guard, ProbeMechJeb, Prepare, CanRead, ReadFails
<1>2. step \notin LastSteps \cup {"vessel"}
  BY DEF LastSteps
<1>3. CASE ReadOn(c, call[c]) /\ (step = "guard" => plan[call[c].vessel] = {})
  BY <1>1, <1>2, <1>3, ReadOnSameHolds
<1>4. CASE Note(c)
  BY <1>4, AnswerHolds DEF Note
<1>5. CASE ReadFails(c, step)
  BY <1>5, FailHolds DEF ReadFails
<1>6. QED
  BY <1>1, <1>3, <1>4, <1>5

(* The fallback has passed the guard of the tool that was asked for.        *)
LEMMA DegradeHolds ==
  ASSUME GInv, NEW c \in Callers, Degrade(c)
  PROVE  Holds
<1>1. CASE Note(c)
  BY <1>1, AnswerHolds DEF Note
<1>2. CASE /\ call[c].asked \in WithFallback
           /\ call' = [call EXCEPT ![c].script = "plan_hohmann", ![c].pos = 1]
           /\ UNCHANGED gameVars
  <2>1. call \in [Callers -> Call] /\ Kept(c) /\ ~call[c].failed
    BY DEF GInv, IInv, CallsGood, Degrade, At
  <2>2. Quiet(c)
    BY <1>2, <2>1 DEF Quiet, gameVars
  <2> DEFINE moved == [call[c] EXCEPT !.script = "plan_hohmann"]
             r     == [moved EXCEPT !.pos = 1]
  <2>3. /\ r.script = "plan_hohmann" /\ r.pos = 1 /\ r.asked = call[c].asked
        /\ r.vessel = call[c].vessel /\ r.undisturbed = call[c].undisturbed
    BY <2>1 DEF Call
  <2>4. call'[c] = r
    BY <1>2, <2>1
  <2> HIDE DEF r
  <2>5. Past(call[c])
    BY <1>2 DEF Past, PastStep, Degrade, At
  <2>6. active' = active /\ plan' = plan /\ fate' = fate
    BY <1>2 DEF gameVars
  <2>7. call[c].asked \in Guarded
    BY <1>2 DEF Guarded
  <2>8. Kept(c)'
    BY <2>1, <2>3, <2>4, <2>5, <2>6, <2>7 DEF Kept
  <2>9. QED
    BY <2>2, <2>8, QuietHolds
<1>3. QED
  BY <1>1, <1>2 DEF Degrade

LEMMA AddNodeHolds ==
  ASSUME GInv, NEW c \in Callers, AddNode(c)
  PROVE  Holds
<1>1. CASE Fail(c) /\ UNCHANGED gameVars
  BY <1>1, FailHolds
<1>2. ASSUME NEW n \in Nodes, NEW o, Place(c, call[c].vessel, {n}),
             call' = [Disturbed(c) EXCEPT ![c] = Placed(c, {n}, o)]
      PROVE  Holds
  <2>1. At(c, "add") /\ "add" \in PlaceSteps /\ {n} \in SUBSET Nodes
    BY DEF AddNode, PlaceSteps
  <2>2. call[c].vessel \in Vessels
    BY <2>1, VesselKnown DEF GInv
  <2>3. QED
    BY <1>2, <2>1, <2>2, PlaceHolds
<1>3. QED
  BY <1>1, <1>2 DEF AddNode

LEMMA MakeNodesHolds ==
  ASSUME GInv, NEW c \in Callers, NEW step \in PlaceSteps, MakeNodes(c, step)
  PROVE  Holds
<1>1. At(c, step) /\ active \in Vessels
  BY DEF MakeNodes, GInv, IInv, GameTyped
<1>2. PICK ns \in SUBSET Nodes, o \in CallOutcomes(call[c].handle, "tool") :
        /\ Place(c, active, ns)
        /\ call' = [Disturbed(c) EXCEPT ![c] = Placed(c, ns, o)]
  BY DEF MakeNodes
<1>3. QED
  BY <1>1, <1>2, PlaceHolds

LEMMA PlanOpHolds ==
  ASSUME GInv, NEW c \in Callers, Operate(c) \/ MatchVelocity(c)
  PROVE  Holds
<1>1. ASSUME NEW step \in {"operate", "match"}, MakeNodes(c, step)
      PROVE  Holds
  BY <1>1, MakeNodesHolds DEF PlaceSteps
<1>2. CASE Note(c)
  BY <1>2, AnswerHolds DEF Note
<1>3. CASE CanRead(c, "match") /\ ReadOn(c, call[c])
  BY <1>3, ReadOnSameHolds DEF CanRead, LastSteps
<1>4. ASSUME NEW step, MechJebLost(c, step)
      PROVE  Holds
  BY <1>4, FailHolds DEF MechJebLost
<1>5. QED
  BY <1>1, <1>2, <1>3, <1>4 DEF Operate, MatchVelocity

LEMMA ReportHolds ==
  ASSUME GInv, NEW c \in Callers, ReadBack(c) \/ DescribeNodes(c) \/ DropConn(c)
  PROVE  Holds
BY AnswerHolds, FailHolds DEF ReadBack, DescribeNodes, DropConn, ReadFails

LEMMA ListNodesHolds ==
  ASSUME GInv, NEW c \in Callers, ListNodes(c)
  PROVE  Holds
<1> DEFINE r == [call[c] EXCEPT !.found = plan[call[c].vessel]]
<1>1. At(c, "list") /\ call[c] \in Call /\ "list" \notin LastSteps
  BY DEF ListNodes, CanRead, ReadFails, GInv, IInv, CallsGood, LastSteps
<1>2. CASE ReadOn(c, r)
  <2>1. call[c].vessel \in Vessels
    BY <1>1, VesselKnown DEF GInv
  <2>2. plan[call[c].vessel] \in SUBSET Nodes
    BY <2>1 DEF GInv, IInv, GameTyped
  <2>3. /\ r \in Call /\ r.asked = call[c].asked /\ r.script = call[c].script
        /\ r.pos = call[c].pos /\ r.undisturbed = call[c].undisturbed
        /\ r.vessel = call[c].vessel
    BY <1>1, <2>2 DEF Call
  <2> HIDE DEF r
  <2>4. QED
    BY <1>1, <1>2, <2>3, ReadOnHolds
<1>3. ASSUME NEW kind, Answer(c, kind, {}, 0)
      PROVE  Holds
  BY <1>3, AnswerHolds
<1>4. CASE ReadFails(c, "list")
  BY <1>4, FailHolds DEF ReadFails
<1>5. QED
  BY <1>2, <1>3, <1>4 DEF ListNodes

LEMMA RemoveHolds ==
  ASSUME GInv, NEW c \in Callers, RemoveNode(c) \/ RemoveAll(c)
  PROVE  Holds
<1>1. ASSUME NEW ns, NEW o, NEW kind, NEW count, Erase(c, ns, o, kind, count)
      PROVE  Holds
  BY <1>1, EraseHolds
<1>2. CASE Answer(c, "note", {}, Cardinality(call[c].found))
  BY <1>2, AnswerHolds
<1>3. CASE Fail(c) /\ UNCHANGED gameVars
  BY <1>3, FailHolds
<1>4. QED
  BY <1>1, <1>2, <1>3 DEF RemoveNode, RemoveAll

LEMMA PilotHolds ==
  ASSUME GInv, Pilot
  PROVE  Holds
<1>1. \A d \in Callers : Kept(d)'
  BY HearingKeeps DEF Pilot, Meanwhile
<1>2. Honoured
  <2>1. /\ plan \in [Vessels -> SUBSET Nodes]
        /\ fate \in [Nodes -> Fates \cup Callers]
    BY DEF GInv, IInv, GameTyped
  <2>2. CASE PilotAdds
    <3>1. PICK n \in Nodes : /\ plan' = [plan EXCEPT ![active] = @ \cup {n}]
                             /\ fate' = [fate EXCEPT ![n] = "known"]
      BY <2>2 DEF PilotAdds
    <3>2. \A v \in Vessels : plan'[v] \ plan[v] \subseteq {n}
      BY <2>1, <3>1
    <3>3. fate'[n] \notin Callers
      BY <2>1, <3>1, CallersAssumption DEF Fates
    <3>4. QED
      BY <3>2, <3>3 DEF Honoured
  <2>3. CASE ~PilotAdds
    <3>1. \A v \in Vessels : plan'[v] \subseteq plan[v]
      BY <2>3 DEF Pilot, PilotRemoves, PilotSwitches, PilotTargets
    <3>2. QED
      BY <3>1 DEF Honoured
  <2>4. QED
    BY <2>2, <2>3
<1>3. QED
  BY <1>1, <1>2 DEF Holds

-----------------------------------------------------------------------------
(* The theorem                                                             *)

LEMMA NextHolds ==
  ASSUME GInv, Next
  PROVE  Holds
<1>1. ASSUME NEW c \in Callers, Serve(c)
      PROVE  Holds
  BY <1>1, GetConnHolds, ResolveVesselHolds, CheckHolds, DegradeHolds,
     AddNodeHolds, PlanOpHolds, ReportHolds, ListNodesHolds, RemoveHolds
     DEF Serve
<1>2. ASSUME NEW c \in Callers, NEW t \in Offered[c], Begin(c, t)
      PROVE  Holds
  <2>1. t \in Tools
    BY OfferedAssumption
  <2>2. QED
    BY <1>2, <2>1, BeginHolds
<1>3. CASE Pilot
  BY <1>3, PilotHolds
<1>4. QED
  BY <1>1, <1>2, <1>3 DEF Next

LEMMA InitGInv == Init => GInv
<1> SUFFICES ASSUME Init
             PROVE  GInv
  OBVIOUS
<1>1. \A c \in Callers : Kept(c)
  BY DEF Init, NoCall, Kept, Guarded, WithFallback
<1>2. QED
  BY <1>1, InitIInv DEF GInv

LEMMA NextGInv == GInv /\ [Next]_vars => GInv'
<1> SUFFICES ASSUME GInv, [Next]_vars
             PROVE  GInv'
  OBVIOUS
<1>1. IInv'
  BY NextIInv DEF GInv
<1>2. CASE Next
  BY <1>1, <1>2, NextHolds DEF Holds, GInv
<1>3. CASE UNCHANGED vars
  BY <1>1, <1>3 DEF vars, gameVars, GInv, Kept, Past
<1>4. QED
  BY <1>2, <1>3

(* A planner that refuses a plan with nodes never adds to one, by its       *)
(* native fallback neither, while nobody else touches the game              *)
(* (mechjeb.go:73-90, 155-162, 189-213).                                    *)
THEOREM GuardKept == Spec => NeverStacks
<1>1. GInv /\ [Next]_vars => [Honoured]_vars
  BY NextHolds DEF Holds
<1>2. NeverStacks <=> [][Honoured]_vars
  BY DEF NeverStacks, Honoured
<1>3. QED
  BY <1>1, <1>2, InitGInv, NextGInv, PTL DEF Spec
-----------------------------------------------------------------------------
(* What the answers say                                                    *)

(* The steps that use the list of the nodes found.                          *)
FoundSteps == {"remove", "removeAll", "describe"}
StepOf(r)  == Script(r.script)[r.pos]

(* What c knows of the game is so as long as nobody disturbs it: the active *)
(* vessel is the one it resolved, the nodes it has made are on that plan,   *)
(* and the nodes it found are all that is on it.                            *)
Known(c) ==
  call[c].asked # "none" /\ ~call[c].failed =>
    /\ call[c].undisturbed /\ call[c].pos > 2 => active = call[c].vessel
    /\ call[c].undisturbed =>
         \A n \in call[c].made : n \in plan[call[c].vessel]
    /\ StepOf(call[c]) \in HoldSteps => call[c].made # {}
    /\ StepOf(call[c]) \in FoundSteps =>
         /\ call[c].found # {}
         /\ call[c].undisturbed => call[c].found = plan[call[c].vessel]

AInv == IInv /\ \A c \in Callers : Known(c)

(* What an answer claims, with now on the plan.                             *)
SaidTrue(kind, ns, count, now) ==
  /\ kind = "placed" => ns # {} /\ ns \subseteq now
  /\ kind \in {"nodes", "deleted"} => count = Cardinality(now)
  /\ kind = "cleared" => now = {} /\ count > 0

(* What a step may say: AnswersTrue.                                        *)
Truthful ==
  \A c \in Callers :
    call[c].asked # "none" /\ call[c].undisturbed /\ call'[c].asked = "none" =>
      SaidTrue(answer'.kind, answer'.nodes, answer'.count,
               plan'[call[c].vessel])

Told == (\A d \in Callers : Known(d)') /\ Truthful

(* Nodes are held only after a step that makes them, and used as found only *)
(* after the list.                                                          *)
LEMMA ComesAfter ==
  ASSUME NEW t \in Tools
  PROVE  \A p \in 1 .. Len(Script(t)) : p + 1 \in 1 .. Len(Script(t)) =>
           /\ Script(t)[p + 1] \in HoldSteps => Script(t)[p] \in PlaceSteps
           /\ Script(t)[p + 1] \in FoundSteps => Script(t)[p] = "list"
<1> USE DEF HoldSteps, PlaceSteps, FoundSteps, Script
<1>1. CASE t = "node_create"
  BY <1>1 DEF NodeCreate
<1>2. CASE t = "node_delete"
  BY <1>2 DEF NodeDelete
<1>3. CASE t = "node_clear"
  BY <1>3 DEF NodeClear
<1>4. CASE t = "maneuver_nodes"
  BY <1>4 DEF ManeuverNodes
<1>5. CASE t = "plan_circularize"
  BY <1>5 DEF PlanCircularize
<1>6. CASE t = "plan_hohmann"
  BY <1>6 DEF PlanHohmann
<1>7. CASE t = "plan_intercept"
  BY <1>7 DEF PlanIntercept
<1>8. CASE t = "plan_rendezvous"
  BY <1>8 DEF PlanRendezvous
<1>9. CASE t = "plan_match_velocity"
  BY <1>9 DEF PlanMatchVelocity
<1>10. CASE t = "plan_interplanetary"
  BY <1>10 DEF PlanInterplanetary
<1>11. CASE t = "plan_return"
  BY <1>11 DEF PlanReturn
<1>12. CASE t = "plan_match_planes"
  BY <1>12 DEF PlanMatchPlanes
<1>13. CASE t = "refine_closest_approach"
  BY <1>13 DEF RefineClosestApproach
<1>14. QED
  BY <1>1, <1>2, <1>3, <1>4, <1>5, <1>6, <1>7, <1>8, <1>9, <1>10, <1>11,
     <1>12, <1>13 DEF Tools

(* The others: whom c's step leaves alone, and who hears of it.             *)
LEMMA HearingKnows ==
  ASSUME AInv, NEW d \in Callers,
         \/ ~Busy(d) /\ call'[d] = call[d]
         \/ call'[d] = [call[d] EXCEPT !.undisturbed = FALSE]
  PROVE  Known(d)' /\ (call[d].asked # "none" => call'[d].asked # "none")
<1>1. Known(d) /\ call[d] \in Call
  BY DEF AInv, IInv, CallsGood
<1>2. CASE ~Busy(d) /\ call'[d] = call[d]
  BY <1>2 DEF Busy, Known
<1>3. CASE call'[d] = [call[d] EXCEPT !.undisturbed = FALSE]
  <2>1. /\ call'[d].asked = call[d].asked /\ call'[d].failed = call[d].failed
        /\ call'[d].script = call[d].script /\ call'[d].pos = call[d].pos
        /\ call'[d].made = call[d].made /\ call'[d].found = call[d].found
        /\ ~call'[d].undisturbed
    BY <1>1, <1>3 DEF Call
  <2>2. QED
    BY <1>1, <2>1 DEF Known, StepOf
<1>4. QED
  BY <1>2, <1>3

LEMMA QuietTells ==
  ASSUME AInv, NEW c \in Callers, Quiet(c), Known(c)',
         call[c].asked # "none" /\ call[c].undisturbed
           /\ call'[c].asked = "none" =>
           SaidTrue(answer'.kind, answer'.nodes, answer'.count,
                    plan[call[c].vessel])
  PROVE  Told
<1>1. plan' = plan /\ active' = active
  BY DEF Quiet
<1>2. ASSUME NEW d \in Callers, d # c
      PROVE  call'[d] = call[d] /\ Known(d)'
  <2>1. Known(d) /\ call'[d] = call[d]
    BY <1>2 DEF AInv, Quiet
  <2>2. QED
    BY <1>1, <2>1 DEF Known, StepOf
<1>3. QED
  BY <1>1, <1>2 DEF Told, Truthful

LEMMA FailTells ==
  ASSUME AInv, NEW c \in Callers, Fail(c), UNCHANGED gameVars
  PROVE  Told
<1>1. call \in [Callers -> Call]
  BY DEF AInv, IInv, CallsGood
<1>2. Quiet(c)
  BY <1>1 DEF Fail, Quiet, gameVars
<1>3. call'[c].failed /\ call'[c].asked = call[c].asked
  BY <1>1 DEF Fail, Call
<1>4. QED
  BY <1>2, <1>3, QuietTells DEF Known

LEMMA AnswerTells ==
  ASSUME AInv, NEW c \in Callers, NEW kind, NEW ns, NEW count,
         Answer(c, kind, ns, count),
         call[c].undisturbed =>
           SaidTrue(kind, ns, count, plan[call[c].vessel])
  PROVE  Told
<1>1. call \in [Callers -> Call] /\ fate \in [Nodes -> Fates \cup Callers]
  BY DEF AInv, IInv, CallsGood, GameTyped
<1>2. Quiet(c)
  BY <1>1 DEF Answer, Settle, Quiet
<1>3. call'[c].asked = "none"
  BY <1>1 DEF Answer, NoCall
<1>4. answer'.kind = kind /\ answer'.nodes = ns /\ answer'.count = count
  BY DEF Answer, Say
<1>5. QED
  BY <1>2, <1>3, <1>4, QuietTells DEF Known

(* An answer that claims nothing of the plan.                               *)
LEMMA ModestTells ==
  ASSUME AInv, NEW c \in Callers, NEW kind, NEW ns, NEW count,
         Answer(c, kind, ns, count),
         kind \notin {"placed", "nodes", "deleted", "cleared"}
  PROVE  Told
<1>1. SaidTrue(kind, ns, count, plan[call[c].vessel])
  BY DEF SaidTrue
<1>2. QED
  BY <1>1, AnswerTells

(* c goes on to its next step as r.                                         *)
LEMMA OnKnows ==
  ASSUME AInv, NEW c \in Callers, NEW step, At(c, step), step \notin LastSteps,
         NEW r \in Call, call'[c] = [r EXCEPT !.pos = @ + 1],
         r.asked = call[c].asked, r.script = call[c].script,
         r.pos = call[c].pos, r.undisturbed = call[c].undisturbed,
         active' = active,
         r.vessel = IF step = "vessel" THEN active ELSE call[c].vessel,
         IF step \in PlaceSteps
           THEN /\ r.made # {}
                /\ call[c].undisturbed =>
                     \A n \in r.made : n \in plan'[call[c].vessel]
           ELSE r.made = call[c].made /\ plan' = plan,
         step = "list" => r.found # {} /\ r.found = plan'[r.vessel]
  PROVE  Known(c)' /\ call'[c].asked # "none"
<1> DEFINE next == [r EXCEPT !.pos = @ + 1]
           s == Script(call[c].script)
<1>1. /\ CallGood(call[c]) /\ call[c].asked # "none" /\ ~call[c].failed
      /\ Known(c)
  BY DEF AInv, IInv, CallsGood, At, Busy
<1>2. /\ call[c].script \in Tools
      /\ Starts(s) /\ Ends(s) /\ call[c].pos \in 1 .. Len(s)
      /\ s[call[c].pos] = step
  BY <1>1, ScriptFacts DEF CallGood, Call, At, Starts
<1>3. call[c].pos + 1 \in 1 .. Len(s)
  BY <1>2 DEF Ends
<1>4. /\ next.asked = call[c].asked /\ next.script = call[c].script
      /\ next.pos = call[c].pos + 1 /\ next.vessel = r.vessel
      /\ next.undisturbed = call[c].undisturbed
      /\ next.made = r.made /\ next.found = r.found
  BY DEF Call
<1>5. StepOf(next) = s[call[c].pos + 1]
  BY <1>4 DEF StepOf
<1>6. call[c].undisturbed /\ call[c].pos + 1 > 2 => active = r.vessel
  <2>1. CASE call[c].pos = 2
    BY <1>2, <2>1 DEF Starts
  <2>2. CASE call[c].pos > 2
    <3>1. step # "vessel"
      BY <1>2, <2>2 DEF Starts
    <3>2. QED
      BY <1>1, <2>2, <3>1 DEF Known
  <2>3. QED
    BY <1>2, <2>1, <2>2
<1>7. call[c].undisturbed => \A n \in r.made : n \in plan'[r.vessel]
  <2>1. CASE step \in PlaceSteps
    BY <2>1 DEF PlaceSteps
  <2>2. CASE step = "vessel"
    <3>1. call[c].made = {}
      BY <1>1, <1>2, <2>2 DEF CallGood, HoldSteps
    <3>2. QED
      BY <2>2, <3>1 DEF PlaceSteps
  <2>3. CASE step \notin PlaceSteps \cup {"vessel"}
    BY <1>1, <2>3 DEF Known
  <2>4. QED
    BY <2>1, <2>2, <2>3
<1>8. StepOf(next) \in HoldSteps => r.made # {}
  BY <1>2, <1>3, <1>5, ComesAfter
<1>9. StepOf(next) \in FoundSteps => r.found # {} /\ r.found = plan'[r.vessel]
  BY <1>2, <1>3, <1>5, ComesAfter
<1>10. call'[c] = next
  OBVIOUS
<1> HIDE DEF next, s
<1>11. QED
  BY <1>1, <1>4, <1>6, <1>7, <1>8, <1>9, <1>10 DEF Known

LEMMA ReadOnTells ==
  ASSUME AInv, NEW c \in Callers, NEW step, At(c, step),
         step \notin LastSteps,
         NEW r \in Call, ReadOn(c, r),
         r.asked = call[c].asked, r.script = call[c].script,
         r.pos = call[c].pos, r.undisturbed = call[c].undisturbed,
         r.vessel = IF step = "vessel" THEN active ELSE call[c].vessel,
         r.made = call[c].made,
         step \in PlaceSteps => step = "match",
         step = "list" => r.found # {} /\ r.found = plan[r.vessel]
  PROVE  Told
<1> DEFINE next == [r EXCEPT !.pos = @ + 1]
<1>1. call \in [Callers -> Call] /\ Known(c) /\ ~call[c].failed
      /\ call[c].asked # "none"
  BY DEF AInv, IInv, CallsGood, At, Busy
<1>2. call' = [call EXCEPT ![c] = next] /\ UNCHANGED gameVars
  BY DEF ReadOn, Proceed
<1>3. active' = active /\ plan' = plan /\ fate' = fate
  BY <1>2 DEF gameVars
<1>4. Quiet(c) /\ call'[c] = next
  <2> HIDE DEF next
  <2>1. QED
    BY <1>1, <1>2, <1>3 DEF Quiet
<1>5. step = "match" => call[c].made # {}
  BY <1>1 DEF Known, StepOf, HoldSteps, At
<1>6. call[c].undisturbed => \A n \in call[c].made : n \in plan[call[c].vessel]
  BY <1>1 DEF Known
<1>7. Known(c)' /\ call'[c].asked # "none"
  BY <1>3, <1>4, <1>5, <1>6, OnKnows
<1>8. QED
  BY <1>4, <1>7, QuietTells

LEMMA ReadOnSameTells ==
  ASSUME AInv, NEW c \in Callers, NEW step, At(c, step),
         step \notin LastSteps \cup {"vessel", "list", "add", "operate"},
         ReadOn(c, call[c])
  PROVE  Told
<1>1. call[c] \in Call
  BY DEF AInv, IInv, CallsGood
<1>2. QED
  BY <1>1, ReadOnTells DEF PlaceSteps

(* The others hear of what c does to the plans, and c has not answered or   *)
(* has said the truth.                                                      *)
LEMMA ChangeTells ==
  ASSUME AInv, NEW c \in Callers, NEW r,
         call' = [Disturbed(c) EXCEPT ![c] = r], Known(c)',
         call[c].undisturbed /\ r.asked = "none" =>
           SaidTrue(answer'.kind, answer'.nodes, answer'.count,
                    plan'[call[c].vessel])
  PROVE  Told
<1>1. call'[c] = r
  BY DEF Disturbed
<1>2. ASSUME NEW d \in Callers, d # c
      PROVE  Known(d)' /\ (call[d].asked # "none" => call'[d].asked # "none")
  BY <1>2, HearingKnows DEF Disturbed
<1>3. QED
  BY <1>1, <1>2 DEF Told, Truthful

LEMMA EraseTells ==
  ASSUME AInv, NEW c \in Callers, Busy(c), call[c].vessel \in Vessels,
         NEW ns, NEW o, NEW kind, NEW count,
         Erase(c, ns, o, kind, count),
         call[c].undisturbed =>
           SaidTrue(kind, {}, count, plan[call[c].vessel] \ ns)
  PROVE  Told
<1> DEFINE r == IF o.ok THEN NoCall ELSE [call[c] EXCEPT !.failed = TRUE]
<1>1. call \in [Callers -> Call] /\ Disturbed(c)[c] = call[c]
  BY DEF AInv, IInv, CallsGood, Disturbed
<1>2. call' = [Disturbed(c) EXCEPT ![c] = r]
  BY <1>1 DEF Erase
<1>3. r.failed \/ r.asked = "none"
  BY <1>1 DEF NoCall, Call
<1>4. r.asked = "none" => o.ok
  BY <1>1 DEF NoCall, Call, Busy
<1> HIDE DEF r
<1>5. call'[c] = r
  BY <1>2 DEF Disturbed
<1>6. o.ok => answer'.kind = kind /\ answer'.nodes = {} /\ answer'.count = count
  BY DEF Erase, Say
<1>7. plan'[call[c].vessel] = plan[call[c].vessel] \ ns
  BY DEF Erase
<1>8. Known(c)'
  BY <1>3, <1>5 DEF Known
<1>9. QED
  BY <1>2, <1>4, <1>6, <1>7, <1>8, ChangeTells

LEMMA PlaceTells ==
  ASSUME AInv, NEW c \in Callers, NEW step \in PlaceSteps, At(c, step),
         NEW v \in Vessels, v \in {active, call[c].vessel},
         NEW ns \in SUBSET Nodes, ns # {}, NEW o, Place(c, v, ns),
         call' = [Disturbed(c) EXCEPT ![c] = Placed(c, ns, o)]
  PROVE  Told
<1> DEFINE placed == Placed(c, ns, o)
           r == [call[c] EXCEPT !.made = @ \cup ns]
<1>1. /\ call \in [Callers -> Call] /\ Known(c) /\ CallGood(call[c])
      /\ ~call[c].failed /\ call[c].asked # "none"
      /\ plan \in [Vessels -> SUBSET Nodes]
      /\ call[c].vessel \in Vessels
  BY VesselKnown DEF AInv, IInv, CallsGood, GameTyped, At, Busy, PlaceSteps
<1>2. call'[c] = placed /\ active' = active
      /\ plan' = [plan EXCEPT ![v] = @ \cup ns]
  BY DEF Disturbed, Place
<1>3. call[c].undisturbed => v = call[c].vessel
  <2>1. Starts(Script(call[c].script)) /\ call[c].pos \in 1 .. Len(Script(call[c].script))
    BY <1>1, ScriptFacts DEF CallGood, Call, Starts
  <2>2. call[c].pos # 1 /\ call[c].pos # 2
    BY <2>1 DEF Starts, At, PlaceSteps
  <2>3. QED
    BY <1>1, <2>1, <2>2 DEF Known
<1>4. CASE o.ok
  <2>1. /\ r \in Call /\ r.asked = call[c].asked /\ r.script = call[c].script
        /\ r.pos = call[c].pos /\ r.undisturbed = call[c].undisturbed
        /\ r.vessel = call[c].vessel /\ r.made = call[c].made \cup ns
    BY <1>1 DEF CallGood, Call
  <2>2. call'[c] = [r EXCEPT !.pos = @ + 1]
    BY <1>1, <1>2, <1>4 DEF Placed, Call
  <2>3. step \notin LastSteps \cup {"vessel", "list"}
    BY DEF PlaceSteps, LastSteps
  <2>4. call[c].undisturbed => \A n \in r.made : n \in plan'[call[c].vessel]
    BY <1>1, <1>2, <1>3, <2>1 DEF Known
  <2> HIDE DEF r
  <2>5. Known(c)' /\ call'[c].asked # "none"
    BY <1>2, <2>1, <2>2, <2>3, <2>4, OnKnows
  <2> HIDE DEF placed
  <2>6. call' = [Disturbed(c) EXCEPT ![c] = placed] /\ placed.asked # "none"
    BY <1>2, <2>5 DEF placed
  <2>7. QED
    BY <2>5, <2>6, ChangeTells
<1>5. CASE ~o.ok
  <2>1. placed.failed /\ placed.asked # "none"
    BY <1>1, <1>5 DEF Placed, Call
  <2> HIDE DEF placed
  <2>2. Known(c)'
    BY <1>2, <2>1 DEF Known
  <2>3. call' = [Disturbed(c) EXCEPT ![c] = placed]
    BY DEF placed
  <2>4. QED
    BY <2>1, <2>2, <2>3, ChangeTells
<1>6. QED
  BY <1>4, <1>5

-----------------------------------------------------------------------------
(* What the actions say                                                     *)

LEMMA BeginTells ==
  ASSUME AInv, NEW c \in Callers, NEW t \in Tools, Begin(c, t)
  PROVE  Told
<1>1. call \in [Callers -> Call] /\ call[c] = NoCall
  BY DEF Begin, Busy, AInv, IInv, CallsGood, CallGood
<1>2. Quiet(c)
  BY <1>1 DEF Begin, Quiet, gameVars
<1> DEFINE r == [NoCall EXCEPT !.asked = t, !.script = t]
<1>3. call'[c] = r
  BY <1>1 DEF Begin
<1>4. r.script = t /\ r.pos = 1 /\ r.made = {}
  BY DEF NoCall
<1> HIDE DEF r
<1>5. StepOf(r) = "conn"
  BY <1>4, ScriptFacts DEF StepOf, Starts
<1>6. Known(c)'
  BY <1>3, <1>4, <1>5 DEF Known, HoldSteps, FoundSteps
<1>7. call[c].asked = "none"
  BY <1>1 DEF NoCall
<1>8. QED
  BY <1>2, <1>6, <1>7, QuietTells

LEMMA GetConnTells ==
  ASSUME AInv, NEW c \in Callers, GetConn(c)
  PROVE  Told
<1>1. CASE Answer(c, "unavailable", {}, 0)
  BY <1>1, ModestTells
<1>2. ASSUME NEW k \in Connections, ReadOn(c, [call[c] EXCEPT !.handle = k])
      PROVE  Told
  <2> DEFINE r == [call[c] EXCEPT !.handle = k]
  <2>1. At(c, "conn") /\ call[c] \in Call /\ "conn" \notin LastSteps \cup PlaceSteps
    BY DEF GetConn, AInv, IInv, CallsGood, LastSteps, PlaceSteps
  <2>2. /\ r \in Call /\ r.asked = call[c].asked /\ r.script = call[c].script
        /\ r.pos = call[c].pos /\ r.undisturbed = call[c].undisturbed
        /\ r.vessel = call[c].vessel /\ r.made = call[c].made
    BY <2>1, MaxConnsAssumption DEF Call, Connections
  <2>3. ReadOn(c, r)
    BY <1>2
  <2> HIDE DEF r
  <2>4. QED
    BY <2>1, <2>2, <2>3, ReadOnTells
<1>3. QED
  BY <1>1, <1>2 DEF GetConn

LEMMA ResolveVesselTells ==
  ASSUME AInv, NEW c \in Callers, ResolveVessel(c)
  PROVE  Told
<1> DEFINE r == [call[c] EXCEPT !.vessel = active]
<1>1. CASE active # NoVessel /\ ReadOn(c, r)
  <2>1. At(c, "vessel") /\ call[c] \in Call /\ "vessel" \notin LastSteps \cup PlaceSteps
    BY DEF ResolveVessel, CanRead, ReadFails, AInv, IInv, CallsGood, LastSteps,
       PlaceSteps
  <2>2. active \in Vessels
    BY <1>1 DEF AInv, IInv, GameTyped
  <2>3. /\ r \in Call /\ r.asked = call[c].asked /\ r.script = call[c].script
        /\ r.pos = call[c].pos /\ r.undisturbed = call[c].undisturbed
        /\ r.vessel = active /\ r.made = call[c].made
    BY <2>1, <2>2 DEF Call
  <2> HIDE DEF r
  <2>4. QED
    BY <1>1, <2>1, <2>2, <2>3, ReadOnTells
<1>2. CASE Answer(c, "unavailable", {}, 0)
  BY <1>2, ModestTells
<1>3. CASE ReadFails(c, "vessel")
  BY <1>3, FailTells DEF ReadFails
<1>4. QED
  BY <1>1, <1>2, <1>3 DEF ResolveVessel

LEMMA CheckTells ==
  ASSUME AInv, NEW c \in Callers,
         RequireTarget(c) \/ Guard(c) \/ ProbeMechJeb(c) \/ Prepare(c)
  PROVE  Told
<1>1. PICK step \in {"target", "guard", "mechjeb", "time", "apsis", "window"} :
        /\ At(c, step)
        /\ ReadOn(c, call[c]) \/ Note(c) \/ ReadFails(c, step)
  BY DEF RequireTarget, Guard, ProbeMechJeb, Prepare, CanRead, ReadFails
<1>2. step \notin LastSteps \cup {"vessel", "list", "add", "operate"}
  BY DEF LastSteps
<1>3. CASE ReadOn(c, call[c])
  BY <1>1, <1>2, <1>3, ReadOnSameTells
<1>4. CASE Note(c)
  BY <1>4, ModestTells DEF Note
<1>5. CASE ReadFails(c, step)
  BY <1>5, FailTells DEF ReadFails
<1>6. QED
  BY <1>1, <1>3, <1>4, <1>5

LEMMA DegradeTells ==
  ASSUME AInv, NEW c \in Callers, Degrade(c)
  PROVE  Told
<1>1. CASE Note(c)
  BY <1>1, ModestTells DEF Note
<1>2. CASE /\ call' = [call EXCEPT ![c].script = "plan_hohmann", ![c].pos = 1]
           /\ UNCHANGED gameVars
  <2>1. /\ call \in [Callers -> Call] /\ Known(c) /\ ~call[c].failed
        /\ CallGood(call[c]) /\ call[c].asked # "none"
    BY DEF AInv, IInv, CallsGood, Degrade, At, Busy
  <2>2. Quiet(c) /\ active' = active /\ plan' = plan
    BY <1>2, <2>1 DEF Quiet, gameVars
  <2> DEFINE moved == [call[c] EXCEPT !.script = "plan_hohmann"]
             r     == [moved EXCEPT !.pos = 1]
  <2>3. /\ r.script = "plan_hohmann" /\ r.pos = 1 /\ r.asked = call[c].asked
        /\ r.made = call[c].made
    BY <2>1 DEF Call
  <2>4. call'[c] = r
    BY <1>2, <2>1
  <2> HIDE DEF r
  <2>5. call[c].made = {}
    BY <2>1 DEF CallGood, HoldSteps, Degrade, At
  <2>6. StepOf(r) = "conn"
    BY <2>3, ScriptFacts DEF StepOf, Starts, Tools
  <2>7. Known(c)' /\ call'[c].asked # "none"
    BY <2>1, <2>2, <2>3, <2>4, <2>5, <2>6 DEF Known, HoldSteps, FoundSteps
  <2>8. QED
    BY <2>2, <2>7, QuietTells
<1>3. QED
  BY <1>1, <1>2 DEF Degrade

LEMMA AddNodeTells ==
  ASSUME AInv, NEW c \in Callers, AddNode(c)
  PROVE  Told
<1>1. CASE Fail(c) /\ UNCHANGED gameVars
  BY <1>1, FailTells
<1>2. ASSUME NEW n \in Nodes, NEW o, Place(c, call[c].vessel, {n}),
             call' = [Disturbed(c) EXCEPT ![c] = Placed(c, {n}, o)]
      PROVE  Told
  <2>1. At(c, "add") /\ "add" \in PlaceSteps /\ {n} \in SUBSET Nodes /\ {n} # {}
    BY DEF AddNode, PlaceSteps
  <2>2. call[c].vessel \in Vessels
    BY <2>1, VesselKnown DEF AInv
  <2>3. QED
    BY <1>2, <2>1, <2>2, PlaceTells
<1>3. QED
  BY <1>1, <1>2 DEF AddNode

LEMMA MakeNodesTells ==
  ASSUME AInv, NEW c \in Callers, NEW step \in PlaceSteps, MakeNodes(c, step)
  PROVE  Told
<1>1. At(c, step) /\ active \in Vessels
  BY DEF MakeNodes, AInv, IInv, GameTyped
<1>2. PICK ns \in SUBSET Nodes, o \in CallOutcomes(call[c].handle, "tool") :
        /\ Cardinality(ns) \in {1, 2}
        /\ Place(c, active, ns)
        /\ call' = [Disturbed(c) EXCEPT ![c] = Placed(c, ns, o)]
  BY DEF MakeNodes
<1>3. ns # {}
  BY <1>2, FS_EmptySet
<1>4. QED
  BY <1>1, <1>2, <1>3, PlaceTells

LEMMA PlanOpTells ==
  ASSUME AInv, NEW c \in Callers, Operate(c) \/ MatchVelocity(c)
  PROVE  Told
<1>1. ASSUME NEW step \in {"operate", "match"}, MakeNodes(c, step)
      PROVE  Told
  BY <1>1, MakeNodesTells DEF PlaceSteps
<1>2. CASE Note(c)
  BY <1>2, ModestTells DEF Note
<1>3. CASE CanRead(c, "match") /\ ReadOn(c, call[c])
  BY <1>3, ReadOnSameTells DEF CanRead, LastSteps
<1>4. ASSUME NEW step, MechJebLost(c, step)
      PROVE  Told
  BY <1>4, FailTells DEF MechJebLost
<1>5. QED
  BY <1>1, <1>2, <1>3, <1>4 DEF Operate, MatchVelocity

LEMMA ReadBackTells ==
  ASSUME AInv, NEW c \in Callers, ReadBack(c)
  PROVE  Told
<1>1. CASE /\ At(c, "readback")
           /\ Answer(c, "placed", call[c].made, Cardinality(call[c].made))
  <2>1. Known(c) /\ call[c].asked # "none" /\ ~call[c].failed
    BY <1>1 DEF AInv, At, Busy
  <2>2. call[c].made # {}
    BY <1>1, <2>1 DEF Known, StepOf, At, HoldSteps
  <2>3. call[c].undisturbed => call[c].made \subseteq plan[call[c].vessel]
    BY <2>1 DEF Known
  <2>4. QED
    BY <1>1, <2>2, <2>3, AnswerTells DEF SaidTrue
<1>2. CASE Fail(c) /\ UNCHANGED gameVars
  BY <1>2, FailTells
<1>3. QED
  BY <1>1, <1>2 DEF ReadBack, CanRead, ReadFails

LEMMA DropConnTells ==
  ASSUME AInv, NEW c \in Callers, DropConn(c)
  PROVE  Told
BY ModestTells DEF DropConn

LEMMA ListNodesTells ==
  ASSUME AInv, NEW c \in Callers, ListNodes(c)
  PROVE  Told
<1> DEFINE r == [call[c] EXCEPT !.found = plan[call[c].vessel]]
<1>1. /\ At(c, "list") /\ call[c] \in Call
      /\ "list" \notin LastSteps \cup PlaceSteps \cup {"vessel"}
  BY DEF ListNodes, CanRead, ReadFails, AInv, IInv, CallsGood, LastSteps,
     PlaceSteps
<1>2. CASE plan[call[c].vessel] # {} /\ ReadOn(c, r)
  <2>1. call[c].vessel \in Vessels
    BY <1>1, VesselKnown DEF AInv
  <2>2. plan[call[c].vessel] \in SUBSET Nodes
    BY <2>1 DEF AInv, IInv, GameTyped
  <2>3. /\ r \in Call /\ r.asked = call[c].asked /\ r.script = call[c].script
        /\ r.pos = call[c].pos /\ r.undisturbed = call[c].undisturbed
        /\ r.vessel = call[c].vessel /\ r.made = call[c].made
        /\ r.found = plan[r.vessel]
    BY <1>1, <2>2 DEF Call
  <2> HIDE DEF r
  <2>4. QED
    BY <1>1, <1>2, <2>3, ReadOnTells
<1>3. ASSUME NEW kind, plan[call[c].vessel] = {}, kind \in {"nodes", "note"},
             Answer(c, kind, {}, 0)
      PROVE  Told
  <2>1. Cardinality({}) = 0
    BY FS_EmptySet
  <2>2. SaidTrue(kind, {}, 0, plan[call[c].vessel])
    BY <1>3, <2>1 DEF SaidTrue
  <2>3. QED
    BY <1>3, <2>2, AnswerTells
<1>4. CASE ReadFails(c, "list")
  BY <1>4, FailTells DEF ReadFails
<1>5. QED
  BY <1>2, <1>3, <1>4 DEF ListNodes

(* What c has found is a finite set, and all of its plan when undisturbed.  *)
LEMMA FoundNodes ==
  ASSUME AInv, NEW c \in Callers, NEW step \in FoundSteps, At(c, step)
  PROVE  /\ Busy(c) /\ call[c].vessel \in Vessels
         /\ IsFiniteSet(call[c].found) /\ call[c].found # {}
         /\ call[c].undisturbed => call[c].found = plan[call[c].vessel]
<1>1. Known(c) /\ Busy(c) /\ call[c].asked # "none" /\ ~call[c].failed
  BY DEF AInv, At, Busy
<1>2. /\ call[c].found # {}
      /\ call[c].undisturbed => call[c].found = plan[call[c].vessel]
  BY <1>1 DEF Known, StepOf, At
<1>3. call[c].found \in SUBSET Nodes
  BY DEF AInv, IInv, CallsGood, Call
<1>4. IsFiniteSet(call[c].found)
  BY <1>3, NodesAssumption, FS_Subset
<1>5. call[c].vessel \in Vessels
  BY VesselKnown DEF AInv, FoundSteps
<1>6. QED
  BY <1>1, <1>2, <1>4, <1>5

LEMMA DescribeNodesTells ==
  ASSUME AInv, NEW c \in Callers, DescribeNodes(c)
  PROVE  Told
<1>1. At(c, "describe") /\ "describe" \in FoundSteps
  BY DEF DescribeNodes, CanRead, ReadFails, FoundSteps
<1>2. CASE Answer(c, "nodes", {}, Cardinality(call[c].found))
  BY <1>1, <1>2, FoundNodes, AnswerTells DEF SaidTrue
<1>3. CASE Fail(c) /\ UNCHANGED gameVars
  BY <1>3, FailTells
<1>4. QED
  BY <1>2, <1>3 DEF DescribeNodes, ReadFails

LEMMA RemoveNodeTells ==
  ASSUME AInv, NEW c \in Callers, RemoveNode(c)
  PROVE  Told
<1>1. At(c, "remove") /\ "remove" \in FoundSteps
  BY DEF RemoveNode, FoundSteps
<1>2. ASSUME NEW n \in call[c].found, NEW o,
             Erase(c, {n}, o, "deleted", Cardinality(call[c].found) - 1)
      PROVE  Told
  <2>1. Cardinality(call[c].found \ {n}) = Cardinality(call[c].found) - 1
    BY <1>1, FoundNodes, FS_RemoveElement
  <2>2. call[c].undisturbed =>
          SaidTrue("deleted", {}, Cardinality(call[c].found) - 1,
                   plan[call[c].vessel] \ {n})
    BY <1>1, <2>1, FoundNodes DEF SaidTrue
  <2>3. QED
    BY <1>1, <1>2, <2>2, FoundNodes, EraseTells
<1>3. CASE Answer(c, "note", {}, Cardinality(call[c].found))
  BY <1>3, ModestTells
<1>4. CASE Fail(c) /\ UNCHANGED gameVars
  BY <1>4, FailTells
<1>5. QED
  BY <1>2, <1>3, <1>4 DEF RemoveNode

LEMMA RemoveAllTells ==
  ASSUME AInv, NEW c \in Callers, RemoveAll(c)
  PROVE  Told
<1>1. At(c, "removeAll") /\ "removeAll" \in FoundSteps
  BY DEF RemoveAll, FoundSteps
<1>2. ASSUME NEW o, Erase(c, plan[call[c].vessel], o, "cleared",
                          Cardinality(call[c].found))
      PROVE  Told
  <2>1. Cardinality(call[c].found) > 0
    BY <1>1, FoundNodes, FS_EmptySet, FS_CardinalityType
  <2>2. plan[call[c].vessel] \ plan[call[c].vessel] = {}
    OBVIOUS
  <2>3. SaidTrue("cleared", {}, Cardinality(call[c].found),
                 plan[call[c].vessel] \ plan[call[c].vessel])
    BY <2>1, <2>2 DEF SaidTrue
  <2>4. QED
    BY <1>1, <1>2, <2>3, FoundNodes, EraseTells
<1>3. CASE Fail(c) /\ UNCHANGED gameVars
  BY <1>3, FailTells
<1>4. QED
  BY <1>2, <1>3 DEF RemoveAll

LEMMA NextTells ==
  ASSUME AInv, Next
  PROVE  Told
<1>1. ASSUME NEW c \in Callers, Serve(c)
      PROVE  Told
  BY <1>1, GetConnTells, ResolveVesselTells, CheckTells, DegradeTells,
     AddNodeTells, PlanOpTells, ReadBackTells, ListNodesTells,
     DescribeNodesTells, RemoveNodeTells, RemoveAllTells, DropConnTells
     DEF Serve
<1>2. ASSUME NEW c \in Callers, NEW t \in Offered[c], Begin(c, t)
      PROVE  Told
  <2>1. t \in Tools
    BY OfferedAssumption
  <2>2. QED
    BY <1>2, <2>1, BeginTells
<1>3. CASE Pilot
  BY <1>3, HearingKnows DEF Pilot, Meanwhile, Told, Truthful
<1>4. QED
  BY <1>1, <1>2, <1>3 DEF Next

LEMMA InitAInv == Init => AInv
<1> SUFFICES ASSUME Init
             PROVE  AInv
  OBVIOUS
<1>1. \A c \in Callers : Known(c)
  BY DEF Init, NoCall, Known
<1>2. QED
  BY <1>1, InitIInv DEF AInv

LEMMA NextAInv == AInv /\ [Next]_vars => AInv'
<1> SUFFICES ASSUME AInv, [Next]_vars
             PROVE  AInv'
  OBVIOUS
<1>1. IInv'
  BY NextIInv DEF AInv
<1>2. CASE Next
  BY <1>1, <1>2, NextTells DEF Told, AInv
<1>3. CASE UNCHANGED vars
  BY <1>1, <1>3 DEF vars, gameVars, AInv, Known, StepOf
<1>4. QED
  BY <1>2, <1>3

(* While nobody else touches the game, what plan.go and mechjeb.go say of   *)
(* the plan is so when they say it: the nodes named are on it, the count    *)
(* that remains is its count, and a cleared plan is empty and was not.      *)
THEOREM AnswersAreTrue == Spec => AnswersTrue
<1>1. AInv /\ [Next]_vars => [Truthful]_vars
  BY NextTells DEF Told
<1>2. AnswersTrue <=> [][Truthful]_vars
  BY DEF AnswersTrue, Truthful, SaidTrue, Busy
<1>3. QED
  BY <1>1, <1>2, InitAInv, NextAInv, PTL DEF Spec
=============================================================================
