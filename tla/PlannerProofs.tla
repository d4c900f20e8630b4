---------------------------- MODULE PlannerProofs ---------------------------
(***************************************************************************)
(* Theorems about Planner, for any number of callers, vessels and nodes,   *)
(* any tools offered and any faults.                                       *)
(***************************************************************************)
EXTENDS Planner, FiniteSetTheorems, TLAPS

-----------------------------------------------------------------------------
(* The scripts                                                             *)

(* Every script starts with flightContext, and none repeats it.            *)
Starts(s) ==
  /\ Len(s) \in 4 .. 8
  /\ s[1] = "conn" /\ s[2] = "vessel"
  /\ \A p \in 3 .. Len(s) : s[p] \notin {"conn", "vessel"}

(* No script ends but by a step that always answers or fails.              *)
LastSteps == {"readback", "remove", "removeAll", "describe"}
Ends(s) == \A p \in 1 .. Len(s) : s[p] \notin LastSteps => p + 1 \in 1 .. Len(s)

(* What placed a node is followed by the read-back of it, or by the second  *)
(* burn of a rendezvous.                                                    *)
HoldSteps == {"match", "readback"}
PlaceSteps == {"add", "operate", "match"}
Places(s) ==
  \A p \in 1 .. Len(s) : s[p] \in PlaceSteps =>
    /\ p + 1 \in 1 .. Len(s)
    /\ s[p + 1] \in (IF s[p] = "operate" THEN HoldSteps ELSE {"readback"})

(* The scripts of plan.go and mechjeb.go are of that form.                  *)
LEMMA ScriptFacts ==
  ASSUME NEW t \in Tools
  PROVE  Starts(Script(t)) /\ Ends(Script(t)) /\ Places(Script(t))
<1> USE DEF Starts, Ends, Places, LastSteps, HoldSteps, PlaceSteps, Script
<1>1. CASE t = "node_create"
  BY <1>1 DEF NodeCreate
<1>2. CASE t = "node_delete"
  BY <1>2 DEF NodeDelete
<1>3. CASE t = "node_clear"
  BY <1>3 DEF NodeClear
<1>4. CASE t = "maneuver_nodes"
  BY <1>4 DEF ManeuverNodes
<1>5. CASE t = "plan_circularize"
  BY <1>5 DEF PlanCircularize
<1>6. CASE t = "plan_hohmann"
  BY <1>6 DEF PlanHohmann
<1>7. CASE t = "plan_intercept"
  BY <1>7 DEF PlanIntercept
<1>8. CASE t = "plan_rendezvous"
  BY <1>8 DEF PlanRendezvous
<1>9. CASE t = "plan_match_velocity"
  BY <1>9 DEF PlanMatchVelocity
<1>10. CASE t = "plan_interplanetary"
  BY <1>10 DEF PlanInterplanetary
<1>11. CASE t = "plan_return"
  BY <1>11 DEF PlanReturn
<1>12. CASE t = "plan_match_planes"
  BY <1>12 DEF PlanMatchPlanes
<1>13. CASE t = "refine_closest_approach"
  BY <1>13 DEF RefineClosestApproach
<1>14. QED
  BY <1>1, <1>2, <1>3, <1>4, <1>5, <1>6, <1>7, <1>8, <1>9, <1>10, <1>11,
     <1>12, <1>13 DEF Tools

-----------------------------------------------------------------------------
(* The inductive invariant                                                 *)

(* A call in progress is at a step of its script, knows its vessel once it *)
(* has resolved it, and holds nodes only between placing and describing    *)
(* them.                                                                   *)
CallGood(r) ==
  /\ r \in Call
  /\ r.asked = "none" => r = NoCall
  /\ r.asked # "none" => /\ r.script \in Tools
                         /\ r.pos <= Len(Script(r.script))
  /\ r.asked # "none" /\ r.pos > 2 => r.vessel \in Vessels
  /\ r.asked # "none" /\ ~r.failed /\ r.made # {} =>
       Script(r.script)[r.pos] \in HoldSteps

(* A node that is some caller's is in its hands, or it has failed and its   *)
(* answer will be an error.                                                 *)
NodesHeld ==
  \A n \in Nodes, c \in Callers :
    fate[n] = c => Busy(c) /\ (call[c].failed \/ n \in call[c].made)

GameTyped ==
  /\ active \in Vessels \cup {NoVessel}
  /\ target \in Targets
  /\ mod \in Mods
  /\ plan \in [Vessels -> SUBSET Nodes]
  /\ fate \in [Nodes -> Fates \cup Callers]
  /\ \A n \in Nodes : fate[n] = "free" <=> n \notin OnPlans

AnswerTyped == answer \in [kind: Kinds, nodes: SUBSET Nodes, count: Int]

CallsGood == /\ call \in [Callers -> Call]
             /\ \A c \in Callers : CallGood(call[c])

IInv ==
  /\ ConnTypeOK
  /\ GameTyped
  /\ AnswerTyped
  /\ CallsGood
  /\ NodesHeld
  /\ AnswersAccount

LEMMA IInvIsTyped == IInv => TypeOK
BY DEF IInv, TypeOK, GameTyped, AnswerTyped, CallsGood, CallGood, Busy

-----------------------------------------------------------------------------
(* What becomes of the record of a call                                     *)

LEMMA NoCallGood == CallGood(NoCall)
BY MaxConnsAssumption DEF CallGood, Call, NoCall, NoConn

(* Going on to the next step keeps a call good.                             *)
LEMMA ProceedGood ==
  ASSUME NEW old, CallGood(old), old.asked # "none",
         NEW r \in Call,
         r.asked = old.asked, r.script = old.script, r.pos = old.pos,
         r.failed = FALSE,
         Script(old.script)[old.pos] \notin LastSteps,
         Script(old.script)[old.pos] # "conn" => r.vessel \in Vessels,
         r.made # {} => Script(old.script)[old.pos + 1] \in HoldSteps
  PROVE  CallGood([r EXCEPT !.pos = @ + 1])
<1> DEFINE s == Script(old.script)
           next == [r EXCEPT !.pos = @ + 1]
<1>1. old.script \in Tools /\ old.pos \in 1 .. 8 /\ old.pos <= Len(s)
  BY DEF CallGood, Call
<1>2. Starts(s) /\ Ends(s)
  BY <1>1, ScriptFacts
<1>3. old.pos + 1 \in 1 .. 8 /\ old.pos + 1 <= Len(s)
  BY <1>1, <1>2 DEF Starts, Ends
<1>4. old.pos + 1 > 2 => r.vessel \in Vessels
  <2>1. old.pos + 1 > 2 => old.pos = 2 \/ old.pos \in 3 .. Len(s)
    BY <1>1
  <2>2. QED
    BY <2>1, <1>2 DEF Starts
<1>5. next \in Call
  BY <1>3 DEF Call
<1>6. /\ next.asked = old.asked /\ next.script = old.script
      /\ next.pos = old.pos + 1 /\ next.vessel = r.vessel
      /\ next.made = r.made
  BY DEF Call
<1> HIDE DEF next
<1>7. CallGood(next)
  BY <1>1, <1>3, <1>4, <1>5, <1>6 DEF CallGood
<1>8. QED
  BY <1>7 DEF next

(* Failing, or hearing of a change by another, keeps a call good.           *)
LEMMA FailedGood ==
  ASSUME NEW r, CallGood(r), r.asked # "none"
  PROVE  CallGood([r EXCEPT !.failed = TRUE])
<1> DEFINE next == [r EXCEPT !.failed = TRUE]
<1>1. next \in Call
  BY DEF CallGood, Call
<1>2. /\ next.asked = r.asked /\ next.script = r.script /\ next.pos = r.pos
      /\ next.vessel = r.vessel /\ next.failed
  BY DEF CallGood, Call
<1> HIDE DEF next
<1>3. CallGood(next)
  BY <1>1, <1>2 DEF CallGood
<1>4. QED
  BY <1>3 DEF next

LEMMA DisturbedGood ==
  ASSUME NEW r, CallGood(r), r.asked # "none",
         NEW next, next = [r EXCEPT !.undisturbed = FALSE]
  PROVE  /\ CallGood(next)
         /\ next.asked = r.asked /\ next.failed = r.failed /\ next.made = r.made
<1>1. next \in Call
  BY DEF CallGood, Call
<1>2. /\ next.asked = r.asked /\ next.script = r.script /\ next.pos = r.pos
      /\ next.vessel = r.vessel /\ next.failed = r.failed /\ next.made = r.made
  BY DEF CallGood, Call
<1>3. QED
  BY <1>1, <1>2 DEF CallGood

(* How the others' records change: not at all, or by what they hear of.     *)
Heard(d) ==
  /\ CallGood(call'[d])
  /\ call'[d].asked = call[d].asked
  /\ call'[d].failed = call[d].failed
  /\ call'[d].made = call[d].made

LEMMA OthersHear ==
  ASSUME IInv, NEW c \in Callers, NEW r,
         \/ call' = [call EXCEPT ![c] = r]
         \/ call' = [Disturbed(c) EXCEPT ![c] = r],
         NEW d \in Callers, d # c
  PROVE  Heard(d)
<1>1. CallGood(call[d]) /\ call \in [Callers -> Call]
  BY DEF IInv, CallsGood
<1>2. CASE call'[d] = call[d]
  BY <1>1, <1>2 DEF Heard
<1>3. CASE Busy(d) /\ call'[d] = [call[d] EXCEPT !.undisturbed = FALSE]
  BY <1>1, <1>3, DisturbedGood DEF Heard, Busy
<1>4. QED
  BY <1>1, <1>2, <1>3 DEF Disturbed

(* What the steps of caller c leave of the invariant about the calls.       *)
LEMMA CallsStayGood ==
  ASSUME IInv, NEW c \in Callers, NEW r,
         \/ call' = [call EXCEPT ![c] = r]
         \/ call' = [Disturbed(c) EXCEPT ![c] = r],
         CallGood(r)
  PROVE  /\ CallsGood'
         /\ call'[c] = r
         /\ \A d \in Callers \ {c} : Heard(d)
<1>1. call \in [Callers -> Call]
  BY DEF IInv, CallsGood
<1>2. DOMAIN call' = Callers /\ call' = [d \in Callers |-> call'[d]]
  BY <1>1 DEF Disturbed
<1>3. call'[c] = r
  BY <1>1 DEF Disturbed
<1>4. \A d \in Callers \ {c} : Heard(d)
  BY OthersHear
<1>5. \A d \in Callers : CallGood(call'[d])
  BY <1>3, <1>4 DEF Heard
<1>6. \A d \in Callers : call'[d] \in Call
  BY <1>5 DEF CallGood
<1>7. call' \in [Callers -> Call]
  BY <1>2, <1>6
<1>8. QED
  BY <1>3, <1>4, <1>5, <1>7 DEF CallsGood

(* A step of c that leaves the game alone and goes on as r.                 *)
LEMMA QuietStep ==
  ASSUME IInv, NEW c \in Callers, NEW r,
         call' = [call EXCEPT ![c] = r],
         CallGood(r), r.asked # "none",
         r.failed \/ ~Busy(c) \/ (~call[c].failed /\ r.made = call[c].made),
         UNCHANGED gameVars, Silent, ConnTypeOK'
  PROVE  IInv'
<1>1. /\ CallsGood' /\ call'[c] = r
      /\ \A d \in Callers \ {c} : Heard(d)
  BY CallsStayGood
<1>2. GameTyped' /\ AnswersAccount'
  BY DEF IInv, GameTyped, OnPlans, AnswersAccount, gameVars
<1>3. AnswerTyped'
  BY DEF Silent, NoAnswer, AnswerTyped, Kinds
<1>4. NodesHeld'
  <2> SUFFICES ASSUME NEW n \in Nodes, NEW d \in Callers, fate[n] = d
               PROVE  call'[d].asked # "none"
                        /\ (call'[d].failed \/ n \in call'[d].made)
    BY DEF NodesHeld, Busy, gameVars
  <2>1. Busy(d) /\ (call[d].failed \/ n \in call[d].made)
    BY DEF IInv, NodesHeld
  <2>2. CASE d = c
    BY <1>1, <2>1, <2>2
  <2>3. CASE d # c
    BY <1>1, <2>1, <2>3 DEF Heard, Busy
  <2>4. QED
    BY <2>2, <2>3
<1>5. QED
  BY <1>1, <1>2, <1>3, <1>4 DEF IInv

(* c answers: no node of its own is forgotten but by an error.              *)
LEMMA AnswerStep ==
  ASSUME IInv, NEW c \in Callers, NEW kind \in Kinds, NEW ns \in SUBSET Nodes,
         NEW count \in Int,
         Answer(c, kind, ns, count), ConnTypeOK',
         kind = "error" \/ \A n \in Nodes : fate[n] = c => n \in ns
  PROVE  IInv'
<1>1. /\ CallsGood' /\ call'[c] = NoCall
      /\ \A d \in Callers \ {c} : Heard(d)
  BY CallsStayGood, NoCallGood DEF Answer
<1>2. AnswerTyped'
  BY DEF Answer, Say, AnswerTyped
<1>3. /\ fate \in [Nodes -> Fates \cup Callers]
      /\ fate' = Settle(fate, c, kind, ns)
      /\ c \notin Fates
  BY CallersAssumption DEF Answer, IInv, GameTyped
<1>4. \A n \in Nodes :
        /\ fate[n] # c => fate'[n] = fate[n]
        /\ fate[n] = c => fate'[n] \in {"known", "unreported"}
  BY <1>3 DEF Settle
<1>5. fate' \in [Nodes -> Fates \cup Callers]
  BY <1>3, <1>4 DEF Settle, Fates
<1>6. \A n \in Nodes : fate'[n] = "free" <=> fate[n] = "free"
  BY <1>3, <1>4 DEF Fates
<1>7. GameTyped'
  BY <1>5, <1>6 DEF IInv, GameTyped, OnPlans, Answer
<1>8. AnswersAccount'
  BY <1>4 DEF IInv, AnswersAccount
<1>9. NodesHeld'
  <2> SUFFICES ASSUME NEW n \in Nodes, NEW d \in Callers, fate'[n] = d
               PROVE  call'[d].asked # "none"
                        /\ (call'[d].failed \/ n \in call'[d].made)
    BY DEF NodesHeld, Busy
  <2>1. fate[n] = d /\ d # c
    BY <1>4, CallersAssumption DEF Fates
  <2>2. Busy(d) /\ (call[d].failed \/ n \in call[d].made)
    BY <2>1 DEF IInv, NodesHeld
  <2>3. QED
    BY <1>1, <2>1, <2>2 DEF Heard, Busy
<1>10. QED
  BY <1>1, <1>2, <1>7, <1>8, <1>9 DEF IInv

(* c places nodes that were nobody's, and holds them or has failed.         *)
LEMMA PlaceStep ==
  ASSUME IInv, NEW c \in Callers, NEW v \in Vessels, NEW ns \in SUBSET Nodes,
         NEW r,
         Place(c, v, ns), \A n \in ns : Fresh(n),
         call' = [Disturbed(c) EXCEPT ![c] = r],
         CallGood(r), r.asked # "none", ~call[c].failed,
         r.failed \/ r.made = call[c].made \cup ns,
         UNCHANGED linkVars
  PROVE  IInv'
<1>1. /\ CallsGood' /\ call'[c] = r
      /\ \A d \in Callers \ {c} : Heard(d)
  BY CallsStayGood
<1>2. ConnTypeOK' /\ AnswerTyped'
  BY DEF IInv, ConnTypeOK, linkVars, Place, Silent, NoAnswer, AnswerTyped, Kinds
<1>3. /\ plan \in [Vessels -> SUBSET Nodes]
      /\ plan' = [plan EXCEPT ![v] = @ \cup ns]
      /\ fate \in [Nodes -> Fates \cup Callers]
      /\ fate' = [n \in Nodes |-> IF n \in ns THEN c ELSE fate[n]]
      /\ UNCHANGED <<active, target, mod>>
      /\ c \notin Fates
  BY CallersAssumption DEF Place, IInv, GameTyped
<1>4. OnPlans' = OnPlans \cup ns
  BY <1>3 DEF OnPlans
<1>5. \A n \in Nodes : fate'[n] = "free" <=> n \notin OnPlans'
  BY <1>3, <1>4 DEF IInv, GameTyped, Fates
<1>6. GameTyped'
  BY <1>3, <1>5 DEF IInv, GameTyped
<1>7. AnswersAccount'
  BY <1>3 DEF IInv, AnswersAccount, Fates
<1>8. NodesHeld'
  <2> SUFFICES ASSUME NEW n \in Nodes, NEW d \in Callers, fate'[n] = d
               PROVE  call'[d].asked # "none"
                        /\ (call'[d].failed \/ n \in call'[d].made)
    BY DEF NodesHeld, Busy
  <2>1. (d = c /\ n \in ns) \/ fate[n] = d
    BY <1>3
  <2>2. fate[n] = d => Busy(d) /\ (call[d].failed \/ n \in call[d].made)
    BY DEF IInv, NodesHeld
  <2>3. CASE d = c
    BY <1>1, <2>1, <2>2, <2>3
  <2>4. CASE d # c
    BY <1>1, <2>1, <2>2, <2>4 DEF Heard, Busy
  <2>5. QED
    BY <2>3, <2>4
<1>9. QED
  BY <1>1, <1>2, <1>6, <1>7, <1>8 DEF IInv

(* c, which has placed nothing, erases nodes and answers or fails.          *)
LEMMA EraseStep ==
  ASSUME IInv, NEW c \in Callers, NEW ns, NEW o, NEW kind \in Kinds,
         NEW count \in Int,
         Erase(c, ns, o, kind, count),
         Busy(c), ~call[c].failed, call[c].made = {},
         UNCHANGED linkVars
  PROVE  IInv'
<1> DEFINE r == IF o.ok THEN NoCall ELSE [call[c] EXCEPT !.failed = TRUE]
<1>1. /\ CallsGood' /\ call'[c] = r
      /\ \A d \in Callers \ {c} : Heard(d)
  <2>1. CallGood(r)
    BY NoCallGood, FailedGood DEF IInv, CallsGood, Busy
  <2>2. call' = [Disturbed(c) EXCEPT ![c] = r]
    <3>1. Disturbed(c)[c] = call[c]
      BY DEF Disturbed
    <3>2. QED
      BY <3>1 DEF Erase
  <2> HIDE DEF r
  <2>3. QED
    BY <2>1, <2>2, CallsStayGood
<1>2. ConnTypeOK' /\ AnswerTyped'
  BY DEF IInv, ConnTypeOK, linkVars, Erase, Say, Silent, NoAnswer, AnswerTyped,
         Kinds
<1>3. /\ plan \in [Vessels -> SUBSET Nodes]
      /\ plan' = [v \in Vessels |-> plan[v] \ ns]
      /\ fate \in [Nodes -> Fates \cup Callers]
      /\ UNCHANGED <<active, target, mod>>
  BY DEF Erase, IInv, GameTyped
<1>4. \A n \in Nodes : fate[n] # c
  BY DEF IInv, NodesHeld
<1>5. \A n \in Nodes : fate'[n] = IF n \in ns THEN "free" ELSE fate[n]
  BY <1>3, <1>4, CallersAssumption DEF Erase, Settle, Fates
<1>6. fate' \in [Nodes -> Fates \cup Callers]
  <2>1. \A n \in Nodes : fate'[n] \in Fates \cup Callers
    BY <1>3, <1>5 DEF Fates
  <2>2. fate' = [n \in Nodes |-> fate'[n]]
    BY DEF Erase, Settle
  <2>3. QED
    BY <2>1, <2>2
<1>7. OnPlans' = OnPlans \ ns
  BY <1>3 DEF OnPlans
<1>8. GameTyped'
  BY <1>3, <1>5, <1>6, <1>7 DEF IInv, GameTyped
<1>9. AnswersAccount'
  BY <1>5 DEF IInv, AnswersAccount
<1>10. NodesHeld'
  <2> SUFFICES ASSUME NEW n \in Nodes, NEW d \in Callers, fate'[n] = d
               PROVE  call'[d].asked # "none"
                        /\ (call'[d].failed \/ n \in call'[d].made)
    BY DEF NodesHeld, Busy
  <2>1. fate[n] = d /\ d # c
    BY <1>4, <1>5, CallersAssumption DEF Fates
  <2>2. Busy(d) /\ (call[d].failed \/ n \in call[d].made)
    BY <2>1 DEF IInv, NodesHeld
  <2>3. QED
    BY <1>1, <2>1, <2>2 DEF Heard, Busy
<1>11. QED
  BY <1>1, <1>2, <1>8, <1>9, <1>10 DEF IInv

-----------------------------------------------------------------------------
(* The steps                                                               *)

(* Away from the steps between placing and describing, nothing is held.     *)
LEMMA NothingMade ==
  ASSUME IInv, NEW c \in Callers, NEW step, At(c, step), step \notin HoldSteps
  PROVE  call[c].made = {} /\ \A n \in Nodes : fate[n] # c
<1>1. call[c].made = {}
  BY DEF IInv, CallsGood, CallGood, At, Busy
<1>2. QED
  BY <1>1 DEF IInv, NodesHeld, At

(* Past flightContext the vessel is known.                                  *)
LEMMA VesselKnown ==
  ASSUME IInv, NEW c \in Callers, NEW step, At(c, step),
         step \notin {"conn", "vessel"}
  PROVE  call[c].vessel \in Vessels
<1>1. CallGood(call[c]) /\ call[c].asked # "none"
  BY DEF IInv, CallsGood, At, Busy
<1>2. call[c].pos \in 1 .. 8 /\ Starts(Script(call[c].script))
  BY <1>1, ScriptFacts DEF CallGood, Call
<1>3. call[c].pos # 1 /\ call[c].pos # 2
  BY <1>2 DEF Starts, At
<1>4. QED
  BY <1>1, <1>2, <1>3 DEF CallGood

LEMMA FailStep ==
  ASSUME IInv, NEW c \in Callers, NEW step, At(c, step), Fail(c), Silent,
         UNCHANGED gameVars, UNCHANGED linkVars
  PROVE  IInv'
<1>1. CallGood([call[c] EXCEPT !.failed = TRUE])
  BY FailedGood DEF IInv, CallsGood, At, Busy
<1>2. [call[c] EXCEPT !.failed = TRUE].failed = TRUE
  BY DEF IInv, CallsGood, CallGood, Call
<1>3. [call[c] EXCEPT !.failed = TRUE].asked # "none"
  BY DEF IInv, CallsGood, CallGood, Call, At, Busy
<1>4. ConnTypeOK'
  BY DEF IInv, ConnTypeOK, linkVars
<1> DEFINE r == [call[c] EXCEPT !.failed = TRUE]
<1>5. call' = [call EXCEPT ![c] = r]
  BY DEF Fail
<1> HIDE DEF r
<1>6. CallGood(r) /\ r.failed = TRUE /\ r.asked # "none"
  BY <1>1, <1>2, <1>3 DEF r
<1>7. QED
  BY <1>4, <1>5, <1>6, QuietStep

(* A reading step that goes on, perhaps with a handle more.                 *)
LEMMA ReadOnStep ==
  ASSUME IInv, NEW c \in Callers, NEW step, At(c, step),
         step \notin LastSteps \cup PlaceSteps,
         NEW r \in Call, ReadOn(c, r), ConnTypeOK',
         r.asked = call[c].asked, r.script = call[c].script,
         r.pos = call[c].pos, r.failed = FALSE, r.made = call[c].made,
         step # "conn" => r.vessel \in Vessels
  PROVE  IInv'
<1>1. call[c].made = {}
  BY NothingMade DEF HoldSteps, LastSteps, PlaceSteps
<1> DEFINE next == [r EXCEPT !.pos = @ + 1]
<1>2. CallGood(next)
  BY <1>1, ProceedGood DEF IInv, CallsGood, At, Busy
<1>3. next.asked # "none" /\ next.made = call[c].made
  BY DEF Call, At, Busy
<1>4. call' = [call EXCEPT ![c] = next]
  BY DEF ReadOn, Proceed
<1>5. Silent /\ UNCHANGED gameVars /\ ~call[c].failed
  BY DEF ReadOn, At
<1> HIDE DEF next
<1>6. QED
  BY <1>2, <1>3, <1>4, <1>5, QuietStep

(* The same, with nothing learned.                                          *)
LEMMA ReadOnSame ==
  ASSUME IInv, NEW c \in Callers, NEW step, At(c, step),
         step \notin LastSteps \cup PlaceSteps \cup {"conn", "vessel"},
         ReadOn(c, call[c]), UNCHANGED linkVars
  PROVE  IInv'
<1>1. call[c] \in Call /\ call[c].failed = FALSE
  BY DEF IInv, CallsGood, CallGood, At, Call
<1>2. call[c].vessel \in Vessels
  BY VesselKnown
<1>3. ConnTypeOK'
  BY DEF IInv, ConnTypeOK, linkVars
<1>4. QED
  BY <1>1, <1>2, <1>3, ReadOnStep

(* An answer at a step where nothing is held.                               *)
LEMMA EarlyAnswer ==
  ASSUME IInv, NEW c \in Callers, NEW step, At(c, step), step \notin HoldSteps,
         NEW kind \in Kinds, NEW count \in Int,
         Answer(c, kind, {}, count), UNCHANGED linkVars
  PROVE  IInv'
<1>1. ConnTypeOK'
  BY DEF IInv, ConnTypeOK, linkVars
<1>2. QED
  BY <1>1, NothingMade, AnswerStep

LEMMA EarlyNote ==
  ASSUME IInv, NEW c \in Callers, NEW step, At(c, step), step \notin HoldSteps,
         Note(c), UNCHANGED linkVars
  PROVE  IInv'
BY EarlyAnswer DEF Note, Kinds

-----------------------------------------------------------------------------
(* The actions                                                             *)

LEMMA BeginInv ==
  ASSUME IInv, NEW c \in Callers, NEW t \in Tools, Begin(c, t)
  PROVE  IInv'
<1> DEFINE r == [NoCall EXCEPT !.asked = t, !.script = t]
<1>1. call[c] = NoCall
  BY DEF Begin, Busy, IInv, CallsGood, CallGood
<1>2. call' = [call EXCEPT ![c] = r]
  BY <1>1 DEF Begin, IInv, CallsGood
<1>3. t # "none"
  BY DEF Tools
<1>4. r \in Call /\ r.asked = t /\ r.script = t /\ r.pos = 1 /\ r.made = {}
  BY NoCallGood DEF CallGood, Call, NoCall
<1>5. r.pos <= Len(Script(r.script))
  BY <1>4, ScriptFacts DEF Starts
<1> HIDE DEF r
<1>6. CallGood(r)
  BY <1>3, <1>4, <1>5 DEF CallGood
<1>7. ConnTypeOK'
  BY DEF Begin, IInv, ConnTypeOK, linkVars
<1>8. QED
  BY <1>2, <1>3, <1>4, <1>6, <1>7, QuietStep DEF Begin

LEMMA GetConnInv ==
  ASSUME IInv, NEW c \in Callers, GetConn(c)
  PROVE  IInv'
<1>1. At(c, "conn")
  BY DEF GetConn
<1>2. CASE DialFails /\ Answer(c, "unavailable", {}, 0)
  <2>1. UNCHANGED linkVars
    BY <1>2 DEF DialFails
  <2>2. QED
    BY <1>1, <1>2, <2>1, EarlyAnswer DEF Kinds, HoldSteps
<1>3. ASSUME NEW k \in Connections, Acquire(k),
             ReadOn(c, [call[c] EXCEPT !.handle = k])
      PROVE  IInv'
  <2> DEFINE r == [call[c] EXCEPT !.handle = k]
  <2>1. call[c] \in Call /\ ~call[c].failed
    BY <1>1 DEF IInv, CallsGood, CallGood, At
  <2>2. /\ r \in Call /\ r.asked = call[c].asked /\ r.script = call[c].script
        /\ r.pos = call[c].pos /\ r.failed = FALSE /\ r.made = call[c].made
    BY <2>1, MaxConnsAssumption DEF Call, Connections
  <2>3. ConnTypeOK'
    BY <1>3, MaxConnsAssumption
       DEF IInv, ConnTypeOK, Acquire, linkVars, NoConn, Connections
  <2> HIDE DEF r
  <2>4. ReadOn(c, r)
    BY <1>3 DEF r
  <2>5. "conn" \notin LastSteps \cup PlaceSteps
    BY DEF LastSteps, PlaceSteps
  <2>6. QED
    BY <1>1, <2>2, <2>3, <2>4, <2>5, ReadOnStep
<1>4. QED
  BY <1>2, <1>3 DEF GetConn

LEMMA ResolveVesselInv ==
  ASSUME IInv, NEW c \in Callers, ResolveVessel(c)
  PROVE  IInv'
<1> DEFINE r == [call[c] EXCEPT !.vessel = active]
<1>1. At(c, "vessel") /\ UNCHANGED linkVars
  BY DEF ResolveVessel, CanRead, ReadFails
<1>2. CASE active # NoVessel /\ ReadOn(c, r)
  <2>1. active \in Vessels
    BY <1>2 DEF IInv, GameTyped
  <2>2. call[c] \in Call /\ ~call[c].failed
    BY <1>1 DEF IInv, CallsGood, CallGood, At
  <2>3. /\ r \in Call /\ r.asked = call[c].asked /\ r.script = call[c].script
        /\ r.pos = call[c].pos /\ r.failed = FALSE /\ r.made = call[c].made
        /\ r.vessel \in Vessels
    BY <2>1, <2>2 DEF Call
  <2>4. ConnTypeOK'
    BY <1>1 DEF IInv, ConnTypeOK, linkVars
  <2>5. "vessel" \notin LastSteps \cup PlaceSteps
    BY DEF LastSteps, PlaceSteps
  <2> HIDE DEF r
  <2>6. QED
    BY <1>1, <1>2, <2>3, <2>4, <2>5, ReadOnStep
<1>3. CASE Answer(c, "unavailable", {}, 0)
  BY <1>1, <1>3, EarlyAnswer DEF Kinds, HoldSteps
<1>4. CASE ReadFails(c, "vessel")
  BY <1>1, <1>4, FailStep DEF ReadFails
<1>5. QED
  BY <1>2, <1>3, <1>4 DEF ResolveVessel

(* The checks that answer with a note, or go on with nothing learned.       *)
LEMMA CheckInv ==
  ASSUME IInv, NEW c \in Callers,
         RequireTarget(c) \/ Guard(c) \/ ProbeMechJeb(c) \/ Prepare(c)
  PROVE  IInv'
<1>1. PICK step \in {"target", "guard", "mechjeb", "time", "apsis", "window"} :
        /\ At(c, step)
        /\ ReadOn(c, call[c]) \/ Note(c) \/ ReadFails(c, step)
        /\ UNCHANGED linkVars
  BY DEF RequireTarget, Guard, ProbeMechJeb, Prepare, CanRead, ReadFails
<1>2. step \notin LastSteps \cup PlaceSteps \cup {"conn", "vessel"} \cup HoldSteps
  BY DEF LastSteps, PlaceSteps, HoldSteps
<1>3. CASE ReadOn(c, call[c])
  BY <1>1, <1>2, <1>3, ReadOnSame
<1>4. CASE Note(c)
  BY <1>1, <1>2, <1>4, EarlyNote
<1>5. CASE ReadFails(c, step)
  BY <1>1, <1>5, FailStep DEF ReadFails
<1>6. QED
  BY <1>1, <1>3, <1>4, <1>5

LEMMA DegradeInv ==
  ASSUME IInv, NEW c \in Callers, Degrade(c)
  PROVE  IInv'
<1>1. At(c, "mechjeb") /\ UNCHANGED linkVars
  BY DEF Degrade
<1>2. CASE Note(c)
  BY <1>1, <1>2, EarlyNote DEF HoldSteps
<1>3. CASE /\ call' = [call EXCEPT ![c].script = "plan_hohmann", ![c].pos = 1]
           /\ Silent /\ UNCHANGED gameVars
  <2> DEFINE moved == [call[c] EXCEPT !.script = "plan_hohmann"]
             r     == [moved EXCEPT !.pos = 1]
  <2>1. call[c] \in Call /\ call[c].asked # "none" /\ call[c].made = {}
    BY <1>1, NothingMade DEF IInv, CallsGood, CallGood, At, Busy, HoldSteps
  <2>2. "plan_hohmann" \in Tools
    BY DEF Tools
  <2>3. /\ moved \in Call /\ moved.asked # "none"
        /\ moved.script = "plan_hohmann" /\ moved.made = {}
    BY <2>1, <2>2 DEF Call
  <2>4. call' = [call EXCEPT ![c] = r]
    BY <1>3 DEF IInv, CallsGood
  <2> HIDE DEF moved
  <2>5. /\ r \in Call /\ r.asked # "none" /\ r.script = "plan_hohmann"
        /\ r.pos = 1 /\ r.made = {}
    BY <2>3 DEF Call
  <2>6. 1 <= Len(Script("plan_hohmann"))
    BY <2>2, ScriptFacts DEF Starts
  <2>7. ConnTypeOK' /\ ~call[c].failed
    BY <1>1 DEF IInv, ConnTypeOK, linkVars, At
  <2> HIDE DEF r
  <2>8. CallGood(r)
    BY <2>2, <2>5, <2>6 DEF CallGood
  <2>9. QED
    BY <1>3, <2>1, <2>4, <2>5, <2>7, <2>8, QuietStep
<1>4. QED
  BY <1>2, <1>3 DEF Degrade

LEMMA PlacedGood ==
  ASSUME IInv, NEW c \in Callers, NEW step \in PlaceSteps, At(c, step),
         NEW ns \in SUBSET Nodes, NEW o
  PROVE  LET r == Placed(c, ns, o) IN
           /\ CallGood(r) /\ r.asked # "none"
           /\ r.failed \/ r.made = call[c].made \cup ns
<1>1. CallGood(call[c]) /\ call[c] \in Call /\ call[c].asked # "none"
  BY DEF IInv, CallsGood, CallGood, At, Busy
<1>2. CASE o.ok
  <2> DEFINE held == [call[c] EXCEPT !.made = @ \cup ns]
             r    == [held EXCEPT !.pos = @ + 1]
  <2>1. /\ held \in Call /\ held.asked = call[c].asked
        /\ held.script = call[c].script /\ held.pos = call[c].pos
        /\ held.failed = FALSE /\ held.vessel = call[c].vessel
        /\ held.made = call[c].made \cup ns
    BY <1>1 DEF Call, At
  <2>2. call[c].vessel \in Vessels
    BY VesselKnown DEF PlaceSteps
  <2>3. step \notin LastSteps
    BY DEF PlaceSteps, LastSteps
  <2>4. Script(call[c].script)[call[c].pos + 1] \in HoldSteps
    <3>1. Places(Script(call[c].script)) /\ Starts(Script(call[c].script))
      BY <1>1, ScriptFacts DEF CallGood
    <3>2. call[c].pos \in 1 .. Len(Script(call[c].script))
      BY <1>1, <3>1 DEF CallGood, Call, Starts
    <3>3. QED
      BY <3>1, <3>2 DEF Places, At, HoldSteps
  <2>5. Placed(c, ns, o) = r
    BY <1>1, <1>2 DEF Placed, Call
  <2> HIDE DEF held
  <2>6. CallGood(r)
    BY <1>1, <2>1, <2>2, <2>3, <2>4, ProceedGood DEF At
  <2>7. r.asked = call[c].asked /\ r.made = call[c].made \cup ns
    BY <2>1 DEF Call
  <2> HIDE DEF r
  <2>8. QED
    BY <1>1, <2>5, <2>6, <2>7
<1>3. CASE ~o.ok
  <2> DEFINE r == [call[c] EXCEPT !.failed = TRUE]
  <2>1. CallGood(r) /\ r.asked # "none" /\ r.failed
    BY <1>1, FailedGood DEF Call
  <2>2. Placed(c, ns, o) = r
    BY <1>3 DEF Placed
  <2> HIDE DEF r
  <2>3. QED
    BY <2>1, <2>2
<1>4. QED
  BY <1>2, <1>3

LEMMA AddNodeInv ==
  ASSUME IInv, NEW c \in Callers, AddNode(c)
  PROVE  IInv'
<1>1. At(c, "add") /\ UNCHANGED linkVars
  BY DEF AddNode
<1>2. CASE Fail(c) /\ Silent /\ UNCHANGED gameVars
  BY <1>1, <1>2, FailStep
<1>3. ASSUME NEW n \in Nodes, NEW o, Fresh(n), Place(c, call[c].vessel, {n}),
             call' = [Disturbed(c) EXCEPT ![c] = Placed(c, {n}, o)]
      PROVE  IInv'
  <2> DEFINE r == Placed(c, {n}, o)
  <2>1. "add" \in PlaceSteps
    BY DEF PlaceSteps
  <2>2. /\ CallGood(r) /\ r.asked # "none"
        /\ r.failed \/ r.made = call[c].made \cup {n}
    BY <1>1, <2>1, PlacedGood
  <2>3. call[c].vessel \in Vessels /\ ~call[c].failed
    BY <1>1, VesselKnown DEF At
  <2> HIDE DEF r
  <2>4. call' = [Disturbed(c) EXCEPT ![c] = r]
    BY <1>3 DEF r
  <2>5. {n} \in SUBSET Nodes /\ \A m \in {n} : Fresh(m)
    BY <1>3
  <2>6. QED
    BY <1>1, <1>3, <2>2, <2>3, <2>4, <2>5, PlaceStep
<1>4. QED
  BY <1>2, <1>3 DEF AddNode

LEMMA MakeNodesInv ==
  ASSUME IInv, NEW c \in Callers, NEW step \in PlaceSteps, MakeNodes(c, step),
         UNCHANGED linkVars
  PROVE  IInv'
<1>1. At(c, step) /\ ~call[c].failed /\ active \in Vessels
  BY DEF MakeNodes, At, IInv, GameTyped
<1>2. PICK ns \in SUBSET Nodes, o \in CallOutcomes(call[c].handle, "tool") :
        /\ \A n \in ns : Fresh(n)
        /\ Place(c, active, ns)
        /\ call' = [Disturbed(c) EXCEPT ![c] = Placed(c, ns, o)]
  BY DEF MakeNodes
<1> DEFINE r == Placed(c, ns, o)
<1>3. /\ CallGood(r) /\ r.asked # "none"
      /\ r.failed \/ r.made = call[c].made \cup ns
  BY <1>1, PlacedGood
<1> HIDE DEF r
<1>4. call' = [Disturbed(c) EXCEPT ![c] = r]
  BY <1>2 DEF r
<1>5. QED
  BY <1>1, <1>2, <1>3, <1>4, PlaceStep

LEMMA OperateInv ==
  ASSUME IInv, NEW c \in Callers, Operate(c)
  PROVE  IInv'
<1>1. UNCHANGED linkVars
  BY DEF Operate
<1>2. CASE MakeNodes(c, "operate")
  BY <1>1, <1>2, MakeNodesInv DEF PlaceSteps
<1>3. CASE CanRead(c, "operate") /\ Note(c)
  BY <1>1, <1>3, EarlyNote DEF CanRead, HoldSteps
<1>4. CASE MechJebLost(c, "operate")
  BY <1>1, <1>4, FailStep DEF MechJebLost
<1>5. QED
  BY <1>2, <1>3, <1>4 DEF Operate

LEMMA MatchVelocityInv ==
  ASSUME IInv, NEW c \in Callers, MatchVelocity(c)
  PROVE  IInv'
<1>1. UNCHANGED linkVars
  BY DEF MatchVelocity
<1>2. CASE MakeNodes(c, "match")
  BY <1>1, <1>2, MakeNodesInv DEF PlaceSteps
<1>3. CASE CanRead(c, "match") /\ ReadOn(c, call[c])
  <2> DEFINE r == [call[c] EXCEPT !.pos = @ + 1]
  <2>1. At(c, "match") /\ CallGood(call[c]) /\ call[c] \in Call
        /\ call[c].asked # "none" /\ call[c].failed = FALSE
    BY <1>3 DEF CanRead, At, Busy, IInv, CallsGood, CallGood, Call
  <2>2. Script(call[c].script)[call[c].pos + 1] \in HoldSteps
    <3>1. Places(Script(call[c].script)) /\ Starts(Script(call[c].script))
      BY <2>1, ScriptFacts DEF CallGood
    <3>2. call[c].pos \in 1 .. Len(Script(call[c].script))
      BY <2>1, <3>1 DEF CallGood, Call, Starts
    <3>3. QED
      BY <2>1, <3>1, <3>2 DEF Places, At, HoldSteps, PlaceSteps
  <2>3. call[c].vessel \in Vessels
    BY <2>1, VesselKnown
  <2>4. "match" \notin LastSteps
    BY DEF LastSteps
  <2>5. CallGood(r)
    BY <2>1, <2>2, <2>3, <2>4, ProceedGood DEF At
  <2>6. r.asked # "none" /\ r.made = call[c].made
    BY <2>1 DEF Call
  <2>7. call' = [call EXCEPT ![c] = r] /\ ConnTypeOK'
    BY <1>1, <1>3 DEF ReadOn, Proceed, IInv, ConnTypeOK, linkVars
  <2> HIDE DEF r
  <2>8. QED
    BY <1>3, <2>1, <2>5, <2>6, <2>7, QuietStep DEF ReadOn
<1>4. CASE MechJebLost(c, "match")
  BY <1>1, <1>4, FailStep DEF MechJebLost
<1>5. QED
  BY <1>2, <1>3, <1>4 DEF MatchVelocity

LEMMA ReadBackInv ==
  ASSUME IInv, NEW c \in Callers, ReadBack(c)
  PROVE  IInv'
<1>1. At(c, "readback") /\ UNCHANGED linkVars
  BY DEF ReadBack, CanRead, ReadFails
<1>2. CASE Answer(c, "placed", call[c].made, Cardinality(call[c].made))
  <2>1. call[c].made \in SUBSET Nodes
    BY DEF IInv, CallsGood, Call
  <2>2. Cardinality(call[c].made) \in Int
    BY <2>1, NodesAssumption, FS_Subset, FS_CardinalityType
  <2>3. \A n \in Nodes : fate[n] = c => n \in call[c].made
    BY <1>1 DEF At, IInv, NodesHeld
  <2>4. ConnTypeOK' /\ "placed" \in Kinds
    BY <1>1 DEF IInv, ConnTypeOK, linkVars, Kinds
  <2>5. QED
    BY <1>2, <2>1, <2>2, <2>3, <2>4, AnswerStep
<1>3. CASE (Fail(c) /\ Silent /\ UNCHANGED gameVars) \/ ReadFails(c, "readback")
  BY <1>1, <1>3, FailStep DEF ReadFails
<1>4. QED
  BY <1>2, <1>3 DEF ReadBack

LEMMA FoundIsCounted ==
  ASSUME IInv, NEW c \in Callers
  PROVE  Cardinality(call[c].found) \in Int
<1>1. call[c].found \in SUBSET Nodes
  BY DEF IInv, CallsGood, Call
<1>2. QED
  BY <1>1, NodesAssumption, FS_Subset, FS_CardinalityType

LEMMA ListNodesInv ==
  ASSUME IInv, NEW c \in Callers, ListNodes(c)
  PROVE  IInv'
<1> DEFINE r == [call[c] EXCEPT !.found = plan[call[c].vessel]]
<1>1. At(c, "list") /\ UNCHANGED linkVars
  BY DEF ListNodes, CanRead, ReadFails
<1>2. CASE ReadOn(c, r)
  <2>1. call[c].vessel \in Vessels
    BY <1>1, VesselKnown
  <2>2. call[c] \in Call /\ plan[call[c].vessel] \in SUBSET Nodes
    BY <2>1 DEF IInv, CallsGood, GameTyped
  <2>3. /\ r \in Call /\ r.asked = call[c].asked /\ r.script = call[c].script
        /\ r.pos = call[c].pos /\ r.failed = FALSE /\ r.made = call[c].made
        /\ r.vessel \in Vessels
    BY <1>1, <2>1, <2>2 DEF Call, At
  <2>4. ConnTypeOK' /\ "list" \notin LastSteps \cup PlaceSteps
    BY <1>1 DEF IInv, ConnTypeOK, linkVars, LastSteps, PlaceSteps
  <2> HIDE DEF r
  <2>5. QED
    BY <1>1, <1>2, <2>3, <2>4, ReadOnStep
<1>3. CASE \E kind \in {"nodes", "note"} : Answer(c, kind, {}, 0)
  BY <1>1, <1>3, EarlyAnswer DEF Kinds, HoldSteps
<1>4. CASE ReadFails(c, "list")
  BY <1>1, <1>4, FailStep DEF ReadFails
<1>5. QED
  BY <1>2, <1>3, <1>4 DEF ListNodes

LEMMA DescribeNodesInv ==
  ASSUME IInv, NEW c \in Callers, DescribeNodes(c)
  PROVE  IInv'
<1>1. At(c, "describe") /\ UNCHANGED linkVars
  BY DEF DescribeNodes, CanRead, ReadFails
<1>2. CASE Answer(c, "nodes", {}, Cardinality(call[c].found))
  BY <1>1, <1>2, FoundIsCounted, EarlyAnswer DEF Kinds, HoldSteps
<1>3. CASE (Fail(c) /\ Silent /\ UNCHANGED gameVars) \/ ReadFails(c, "describe")
  BY <1>1, <1>3, FailStep DEF ReadFails
<1>4. QED
  BY <1>2, <1>3 DEF DescribeNodes

LEMMA RemoveNodeInv ==
  ASSUME IInv, NEW c \in Callers, RemoveNode(c)
  PROVE  IInv'
<1>1. At(c, "remove") /\ UNCHANGED linkVars
  BY DEF RemoveNode
<1>2. "remove" \notin HoldSteps /\ Busy(c) /\ ~call[c].failed
  BY <1>1 DEF HoldSteps, At
<1>3. ASSUME NEW n, NEW o,
             Erase(c, {n}, o, "deleted", Cardinality(call[c].found) - 1)
      PROVE  IInv'
  <2>1. Cardinality(call[c].found) - 1 \in Int
    BY FoundIsCounted
  <2>2. call[c].made = {}
    BY <1>1, <1>2, NothingMade
  <2>3. "deleted" \in Kinds
    BY DEF Kinds
  <2>4. QED
    BY <1>1, <1>2, <1>3, <2>1, <2>2, <2>3, EraseStep
<1>4. CASE Answer(c, "note", {}, Cardinality(call[c].found))
  BY <1>1, <1>2, <1>4, FoundIsCounted, EarlyAnswer DEF Kinds
<1>5. CASE Fail(c) /\ Silent /\ UNCHANGED gameVars
  BY <1>1, <1>5, FailStep
<1>6. QED
  BY <1>3, <1>4, <1>5 DEF RemoveNode

LEMMA RemoveAllInv ==
  ASSUME IInv, NEW c \in Callers, RemoveAll(c)
  PROVE  IInv'
<1>1. At(c, "removeAll") /\ UNCHANGED linkVars
  BY DEF RemoveAll
<1>2. "removeAll" \notin HoldSteps /\ Busy(c) /\ ~call[c].failed
  BY <1>1 DEF HoldSteps, At
<1>3. ASSUME NEW o, Erase(c, plan[call[c].vessel], o, "cleared",
                          Cardinality(call[c].found))
      PROVE  IInv'
  <2>1. call[c].made = {} /\ "cleared" \in Kinds
    BY <1>1, <1>2, NothingMade DEF Kinds
  <2>2. QED
    BY <1>1, <1>2, <1>3, <2>1, FoundIsCounted, EraseStep
<1>4. CASE Fail(c) /\ Silent /\ UNCHANGED gameVars
  BY <1>1, <1>4, FailStep
<1>5. QED
  BY <1>3, <1>4 DEF RemoveAll

LEMMA DropConnInv ==
  ASSUME IInv, NEW c \in Callers, DropConn(c)
  PROVE  IInv'
<1>1. ConnTypeOK'
  BY DEF DropConn, Drop, IInv, ConnTypeOK, NoConn
<1>2. QED
  BY <1>1, AnswerStep DEF DropConn, Kinds

(* The pilot.                                                               *)
LEMMA PilotInv ==
  ASSUME IInv, Pilot
  PROVE  IInv'
<1>1. ConnTypeOK' /\ AnswerTyped'
  BY DEF IInv, Pilot, ConnTypeOK, linkVars, Silent, NoAnswer, AnswerTyped, Kinds
<1>2. \A c \in Callers : Heard(c)
  <2> SUFFICES ASSUME NEW c \in Callers
               PROVE  Heard(c)
    OBVIOUS
  <2>1. CallGood(call[c])
    BY DEF IInv, CallsGood
  <2>2. CASE ~Busy(c)
    BY <2>1, <2>2 DEF Pilot, Meanwhile, Heard
  <2>3. CASE Busy(c)
    BY <2>1, <2>3, DisturbedGood DEF Pilot, Meanwhile, Heard, Busy
  <2>4. QED
    BY <2>2, <2>3
<1>3. CallsGood'
  <2>1. call' = [c \in Callers |-> call'[c]]
    BY DEF Pilot, Meanwhile
  <2>2. \A c \in Callers : call'[c] \in Call /\ CallGood(call'[c])
    BY <1>2 DEF Heard, CallGood
  <2>3. call' \in [Callers -> Call]
    BY <2>1, <2>2
  <2>4. QED
    BY <2>2, <2>3 DEF CallsGood
<1>4. /\ GameTyped'
      /\ \A n \in Nodes : fate'[n] \in {fate[n], "known", "free"}
  <2> USE DEF IInv, GameTyped, Pilot
  <2>1. CASE PilotAdds
    <3>1. PICK n \in Nodes : /\ plan' = [plan EXCEPT ![active] = @ \cup {n}]
                             /\ fate' = [fate EXCEPT ![n] = "known"]
      BY <2>1 DEF PilotAdds
    <3>2. active \in Vessels /\ UNCHANGED <<active, target, mod>>
      BY <2>1 DEF PilotAdds
    <3>3. OnPlans' = OnPlans \cup {n}
      BY <3>1, <3>2 DEF OnPlans
    <3>4. plan' \in [Vessels -> SUBSET Nodes] /\ fate' \in [Nodes -> Fates \cup Callers]
      BY <3>1, <3>2 DEF Fates
    <3>5. \A m \in Nodes : fate'[m] = "free" <=> m \notin OnPlans'
      BY <3>1, <3>3
    <3>6. QED
      BY <3>1, <3>2, <3>4, <3>5
  <2>2. CASE PilotRemoves
    <3>1. PICK n \in plan[active] : /\ plan' = [v \in Vessels |-> plan[v] \ {n}]
                                    /\ fate' = [fate EXCEPT ![n] = "free"]
      BY <2>2 DEF PilotRemoves
    <3>2. active \in Vessels /\ n \in Nodes /\ UNCHANGED <<active, target, mod>>
      BY <2>2 DEF PilotRemoves
    <3>3. OnPlans' = OnPlans \ {n}
      BY <3>1, <3>2 DEF OnPlans
    <3>4. plan' \in [Vessels -> SUBSET Nodes] /\ fate' \in [Nodes -> Fates \cup Callers]
      BY <3>1, <3>2 DEF Fates
    <3>5. \A m \in Nodes : fate'[m] = "free" <=> m \notin OnPlans'
      BY <3>1, <3>2, <3>3
    <3>6. QED
      BY <3>1, <3>2, <3>4, <3>5
  <2>3. CASE PilotSwitches \/ PilotTargets
    BY <2>3 DEF PilotSwitches, PilotTargets, OnPlans
  <2>4. QED
    BY <2>1, <2>2, <2>3
<1>5. AnswersAccount'
  BY <1>4 DEF IInv, AnswersAccount
<1>6. NodesHeld'
  <2> SUFFICES ASSUME NEW n \in Nodes, NEW c \in Callers, fate'[n] = c
               PROVE  call'[c].asked # "none"
                        /\ (call'[c].failed \/ n \in call'[c].made)
    BY DEF NodesHeld, Busy
  <2>1. fate[n] = c
    BY <1>4, CallersAssumption DEF Fates
  <2>2. QED
    BY <1>2, <2>1 DEF IInv, NodesHeld, Heard, Busy
<1>7. QED
  BY <1>1, <1>3, <1>4, <1>5, <1>6 DEF IInv

-----------------------------------------------------------------------------
(* The theorems                                                            *)

LEMMA InitIInv == Init => IInv
<1> SUFFICES ASSUME Init
             PROVE  IInv
  OBVIOUS
<1>1. ConnTypeOK
  BY MaxConnsAssumption DEF Init, ConnInit, ConnTypeOK, NoConn
<1>2. OnPlans = {}
  BY DEF Init, OnPlans
<1>3. GameTyped
  BY <1>2 DEF Init, GameTyped, Fates
<1>4. AnswerTyped
  BY DEF Init, NoAnswer, AnswerTyped, Kinds
<1>5. CallsGood
  BY NoCallGood DEF Init, CallsGood, CallGood
<1>6. NodesHeld /\ AnswersAccount
  BY CallersAssumption DEF Init, NodesHeld, AnswersAccount, Fates
<1>7. QED
  BY <1>1, <1>3, <1>4, <1>5, <1>6 DEF IInv

LEMMA NextIInv == IInv /\ [Next]_vars => IInv'
<1> SUFFICES ASSUME IInv, [Next]_vars
             PROVE  IInv'
  OBVIOUS
<1>1. ASSUME NEW c \in Callers, Serve(c)
      PROVE  IInv'
  BY <1>1, GetConnInv, ResolveVesselInv, CheckInv, DegradeInv, AddNodeInv,
     OperateInv, MatchVelocityInv, ReadBackInv, ListNodesInv, DescribeNodesInv,
     RemoveNodeInv, RemoveAllInv, DropConnInv DEF Serve
<1>2. ASSUME NEW c \in Callers, NEW t \in Offered[c], Begin(c, t)
      PROVE  IInv'
  <2>1. t \in Tools
    BY OfferedAssumption
  <2>2. QED
    BY <1>2, <2>1, BeginInv
<1>3. CASE Pilot
  BY <1>3, PilotInv
<1>4. CASE UNCHANGED vars
  BY <1>4 DEF vars, linkVars, gameVars, IInv, ConnTypeOK, GameTyped, OnPlans,
     AnswerTyped, CallsGood, NodesHeld, Busy, AnswersAccount
<1>5. QED
  BY <1>1, <1>2, <1>3, <1>4 DEF Next

THEOREM Invariance == Spec => []IInv
BY InitIInv, NextIInv, PTL DEF Spec

(* The tools that write nodes and the pilot keep the flight plans, the      *)
(* calls in progress and the connection well formed; every node on a plan   *)
(* was placed by someone (plan.go, mechjeb.go, server.go).                  *)
THEOREM TypeCorrect == Spec => []TypeOK
BY Invariance, IInvIsTyped, PTL

(* No answer of plan.go or mechjeb.go but an error passes over a node that  *)
(* the tool placed, whoever else edits the plans, whatever the mod refuses  *)
(* and whichever connection is dropped under it.                            *)
THEOREM EveryNodeAccounted == Spec => []AnswersAccount
<1>1. IInv => AnswersAccount
  BY DEF IInv
<1>2. QED
  BY <1>1, Invariance, PTL
=============================================================================
