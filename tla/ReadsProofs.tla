----------------------------- MODULE ReadsProofs ----------------------------
(***************************************************************************)
(* Theorems about Reads, for any number of callers, any crafts, any tools  *)
(* offered and any faults.                                                 *)
(***************************************************************************)
EXTENDS Reads, FiniteSetTheorems, TLAPS

-----------------------------------------------------------------------------
(* The inductive invariant                                                 *)

(* drop forgets the connection it closes, so the open one is the current.  *)
OneOpen == open \subseteq {current}

CallsShaped ==
  /\ DOMAIN call = Callers
  /\ \A c \in Callers : DOMAIN call[c] = DOMAIN NoCall

RInv == ConnTypeOK /\ OneOpen /\ CallsShaped /\ late \subseteq open
          /\ LateReplyIsDropped

LEMMA InitRInv == Init => RInv
BY MaxConnsAssumption
   DEF Init, ConnInit, RInv, ConnTypeOK, OneOpen, CallsShaped,
       LateReplyIsDropped, NoConn

-----------------------------------------------------------------------------
(* The steps                                                               *)

(* The record of the caller changes, and nobody else's.                     *)
Moves(c) ==
  \E r : call' = [call EXCEPT ![c] = r] /\ DOMAIN r = DOMAIN NoCall

LEMMA ShapesOf ==
  ASSUME CallsShaped, NEW c \in Callers
  PROVE  /\ Moves(c) => CallsShaped'
         /\ Moves(c) => \A d \in Callers \ {c} : call'[d] = call[d]
         /\ DOMAIN Reply(c) = DOMAIN NoCall
         /\ DOMAIN Missed(c) = DOMAIN NoCall
BY DEF Moves, CallsShaped, Reply, Missed

LEMMA ProceedMoves ==
  ASSUME CallsShaped, NEW c \in Callers, NEW r, DOMAIN r = DOMAIN NoCall,
         Proceed(c, r)
  PROVE  Moves(c)
BY DEF Moves, Proceed

LEMMA AnswerMoves ==
  ASSUME NEW c \in Callers, NEW kind, Answer(c, kind)
  PROVE  Moves(c)
BY DEF Moves, Answer

LEMMA FailMoves ==
  ASSUME CallsShaped, NEW c \in Callers, Fail(c)
  PROVE  /\ Moves(c)
         /\ call'[c].failed /\ call'[c].handle = call[c].handle
<1> DEFINE r == [call[c] EXCEPT !.failed = TRUE]
<1>1. call' = [call EXCEPT ![c] = r]
  BY DEF Fail
<1>2. DOMAIN r = DOMAIN NoCall
  BY DEF CallsShaped
<1>3. r.failed /\ r.handle = call[c].handle
  BY DEF CallsShaped, NoCall
<1> HIDE DEF r
<1>4. Moves(c)
  BY <1>1, <1>2 DEF Moves
<1>5. call'[c] = r
  BY <1>1 DEF CallsShaped
<1>6. QED
  BY <1>3, <1>4, <1>5

(* A read by a caller that has not failed: whoever is about to drop stays   *)
(* so, and a reply that is now to come is ignored, or fails the caller.     *)
LEMMA ReadStep ==
  ASSUME RInv, NEW c \in Callers, ~call[c].failed, Moves(c),
         UNCHANGED linkVars,
         \/ /\ UNCHANGED <<late, ignored>>
         \/ /\ Replied(c) \/ Refused(c) \/ Lost(c)
            /\ \/ Ignore(c)
               \/ /\ UNCHANGED ignored
                  /\ call'[c].failed /\ call'[c].handle = call[c].handle
  PROVE  RInv'
<1>1. ConnTypeOK' /\ OneOpen'
  BY DEF RInv, ConnTypeOK, OneOpen, linkVars
<1>2. CallsShaped' /\ \A d \in Callers \ {c} : call'[d] = call[d]
  BY ShapesOf DEF RInv
<1>3. late' \subseteq open'
  BY DEF RInv, Replied, Refused, Lost, linkVars
<1>4. ignored \subseteq ignored'
  BY DEF Ignore
<1>5. LateReplyIsDropped'
  <2> SUFFICES ASSUME NEW k \in late', k \notin ignored'
               PROVE  \E d \in Callers : call'[d].failed /\ call'[d].handle = k
    BY DEF LateReplyIsDropped
  <2>1. CASE k \in late
    <3>1. PICK d \in Callers : call[d].failed /\ call[d].handle = k
      BY <1>4, <2>1 DEF RInv, LateReplyIsDropped
    <3>2. d # c
      BY <3>1
    <3>3. QED
      BY <1>2, <3>1, <3>2
  <2>2. CASE k \notin late
    <3>1. k = call[c].handle
      BY <2>2 DEF Replied, Refused, Lost
    <3>2. ~Ignore(c)
      BY <2>2, <3>1 DEF Ignore
    <3>3. QED
      BY <2>2, <3>1, <3>2
  <2>3. QED
    BY <2>1, <2>2
<1>6. QED
  BY <1>1, <1>2, <1>3, <1>5 DEF RInv

LEMMA BeginInv ==
  ASSUME RInv, NEW c \in Callers, NEW t, Begin(c, t)
  PROVE  RInv'
<1>1. CallsShaped' /\ \A d \in Callers : /\ call'[d].failed = call[d].failed
                                         /\ call'[d].handle = call[d].handle
  <2> DEFINE r == [call[c] EXCEPT !.tool = t]
  <2>1. /\ DOMAIN r = DOMAIN NoCall
        /\ r.failed = call[c].failed /\ r.handle = call[c].handle
    BY DEF RInv, CallsShaped, NoCall
  <2>2. call' = [call EXCEPT ![c] = r]
    BY DEF Begin
  <2> HIDE DEF r
  <2>3. QED
    BY <2>1, <2>2 DEF RInv, CallsShaped
<1>2. QED
  BY <1>1 DEF Begin, RInv, ConnTypeOK, OneOpen, LateReplyIsDropped, linkVars

LEMMA GetConnInv ==
  ASSUME RInv, NEW c \in Callers, GetConn(c)
  PROVE  RInv'
<1>1. ~call[c].failed /\ UNCHANGED <<late, ignored>>
  BY DEF GetConn, At
<1>2. Moves(c)
  <2>1. CASE DialFails /\ Answer(c, "unavailable")
    BY <2>1, AnswerMoves
  <2>2. ASSUME NEW k \in Connections, Proceed(c, [call[c] EXCEPT !.handle = k])
        PROVE  Moves(c)
    <3>1. DOMAIN [call[c] EXCEPT !.handle = k] = DOMAIN NoCall
      BY DEF RInv, CallsShaped
    <3>2. QED
      BY <2>2, <3>1, ProceedMoves DEF RInv
  <2>3. QED
    BY <2>1, <2>2 DEF GetConn
<1>3. ConnTypeOK' /\ OneOpen' /\ open \subseteq open'
  <2>1. CASE UNCHANGED linkVars
    BY <2>1 DEF RInv, ConnTypeOK, OneOpen, linkVars
  <2>2. CASE /\ current = NoConn /\ dialed < MaxConns
             /\ dialed' = dialed + 1
             /\ open' = open \cup {dialed + 1}
             /\ current' = dialed + 1
    <3>1. open = {}
      BY <2>2 DEF RInv, ConnTypeOK, OneOpen, NoConn
    <3>2. QED
      BY <2>2, <3>1, MaxConnsAssumption DEF RInv, ConnTypeOK, OneOpen, NoConn
  <2>3. QED
    BY <2>1, <2>2 DEF GetConn, Acquire, DialFails
<1>4. CallsShaped' /\ \A d \in Callers \ {c} : call'[d] = call[d]
  BY <1>2, ShapesOf DEF RInv
<1>5. LateReplyIsDropped'
  BY <1>1, <1>4 DEF RInv, LateReplyIsDropped
<1>6. QED
  BY <1>1, <1>3, <1>4, <1>5 DEF RInv

LEMMA FindVesselInv ==
  ASSUME RInv, NEW c \in Callers, FindVessel(c)
  PROVE  RInv'
<1>1. ~call[c].failed /\ UNCHANGED linkVars /\ CallsShaped
  BY DEF FindVessel, At, RInv
<1>2. CASE Replied(c) /\ Proceed(c, Reply(c)) /\ UNCHANGED ignored
  BY <1>1, <1>2, ShapesOf, ProceedMoves, ReadStep DEF Replied
<1>3. CASE (Replied(c) \/ Lost(c)) /\ Ignore(c) /\ Answer(c, "unavailable")
  BY <1>1, <1>3, AnswerMoves, ReadStep
<1>4. CASE Lost(c) /\ Fail(c) /\ UNCHANGED ignored
  BY <1>1, <1>4, FailMoves, ReadStep
<1>5. QED
  BY <1>2, <1>3, <1>4 DEF FindVessel

LEMMA MustReadInv ==
  ASSUME RInv, NEW c \in Callers, MustRead(c)
  PROVE  RInv'
<1>1. /\ ~call[c].failed /\ UNCHANGED linkVars /\ UNCHANGED ignored
      /\ CallsShaped
  BY DEF MustRead, Reading, RInv
<1>2. CASE Replied(c) /\ Proceed(c, Reply(c))
  BY <1>1, <1>2, ShapesOf, ProceedMoves, ReadStep DEF Replied
<1>3. CASE Replied(c) /\ call' = [call EXCEPT ![c] = NoCall]
  <2>1. Moves(c)
    BY <1>3 DEF Moves
  <2>2. QED
    BY <1>1, <1>3, <2>1, ReadStep DEF Replied
<1>4. CASE (Refused(c) \/ Lost(c)) /\ Fail(c)
  BY <1>1, <1>4, FailMoves, ReadStep
<1>5. QED
  BY <1>2, <1>3, <1>4 DEF MustRead

LEMMA TryReadInv ==
  ASSUME RInv, NEW c \in Callers, TryRead(c)
  PROVE  RInv'
<1>1. ~call[c].failed /\ UNCHANGED linkVars /\ CallsShaped
  BY DEF TryRead, Reading, RInv
<1>2. CASE Replied(c) /\ Proceed(c, Reply(c)) /\ UNCHANGED ignored
  BY <1>1, <1>2, ShapesOf, ProceedMoves, ReadStep DEF Replied
<1>3. CASE (Refused(c) \/ Lost(c)) /\ Ignore(c) /\ Proceed(c, Missed(c))
  BY <1>1, <1>3, ShapesOf, ProceedMoves, ReadStep
<1>4. QED
  BY <1>2, <1>3 DEF TryRead

LEMMA ReadPartsInv ==
  ASSUME RInv, NEW c \in Callers, ReadParts(c)
  PROVE  RInv'
<1>1. UNCHANGED linkVars /\ CallsShaped
  BY DEF ReadParts, RInv
<1>2. PICK category \in Categories :
        /\ At(c, category)
        /\ \/ /\ Replied(c)
              /\ Proceed(c, [Reply(c) EXCEPT !.seen[category] = craft[category]])
              /\ UNCHANGED ignored
           \/ /\ Refused(c) \/ Lost(c)
              /\ Ignore(c)
              /\ \E reading \in Readings(category) :
                   Proceed(c, [Missed(c) EXCEPT
                     !.seen[category] = reading,
                     !.short = IF Len(reading) < Len(craft[category])
                               THEN @ \cup {category} ELSE @])
  BY DEF ReadParts
<1>3. ~call[c].failed
  BY <1>2 DEF At
<1>4. Moves(c)
  <2>1. \A r : DOMAIN r = DOMAIN NoCall /\ Proceed(c, r) => Moves(c)
    BY <1>1, ProceedMoves
  <2>2. /\ DOMAIN Reply(c) = DOMAIN NoCall
        /\ DOMAIN Missed(c) = DOMAIN NoCall
    BY <1>1, ShapesOf
  <2>3. \A s : DOMAIN [Reply(c) EXCEPT !.seen[category] = s] = DOMAIN NoCall
    BY <2>2
  <2>4. \A s, t : DOMAIN [Missed(c) EXCEPT !.seen[category] = s, !.short = t]
                   = DOMAIN NoCall
    BY <2>2
  <2>5. QED
    BY <1>2, <2>1, <2>3, <2>4
<1>5. QED
  BY <1>1, <1>2, <1>3, <1>4, ReadStep DEF Replied

LEMMA DropConnInv ==
  ASSUME RInv, NEW c \in Callers, DropConn(c)
  PROVE  RInv'
<1>1. open' = {} /\ late' = {} /\ current' = NoConn /\ dialed' = dialed
  BY DEF DropConn, Drop, RInv, OneOpen
<1>2. CallsShaped'
  BY AnswerMoves, ShapesOf DEF DropConn, RInv
<1>3. QED
  BY <1>1, <1>2 DEF RInv, ConnTypeOK, OneOpen, LateReplyIsDropped, NoConn

LEMMA NextRInv == RInv /\ [Next]_vars => RInv'
<1> SUFFICES ASSUME RInv, [Next]_vars
             PROVE  RInv'
  OBVIOUS
<1>1. ASSUME NEW c \in Callers, Serve(c)
      PROVE  RInv'
  BY <1>1, GetConnInv, FindVesselInv, MustReadInv, TryReadInv, ReadPartsInv,
     DropConnInv DEF Serve
<1>2. ASSUME NEW c \in Callers, NEW t \in Offered[craft][c], Begin(c, t)
      PROVE  RInv'
  BY <1>2, BeginInv
<1>3. CASE ChangeScene \/ UNCHANGED vars
  BY <1>3 DEF ChangeScene, vars, linkVars, RInv, ConnTypeOK, OneOpen,
     CallsShaped, LateReplyIsDropped
<1>4. QED
  BY <1>1, <1>2, <1>3 DEF Next

-----------------------------------------------------------------------------
(* No connection with a reply still to come is used by the next tool call:  *)
(* whoever saw the deadline pass is about to drop it, unless the tool chose *)
(* to go on without what it asked for (server.go, flightcomp.go, plan.go,   *)
(* preflight.go, stagedv.go).                                               *)
THEOREM LateReplies == Spec => []LateReplyIsDropped
<1>1. RInv => LateReplyIsDropped
  BY DEF RInv
<1>2. QED
  BY <1>1, InitRInv, NextRInv, PTL DEF Spec

-----------------------------------------------------------------------------
(* What a tool says of the parachutes                                      *)

(* Of the parachutes read, only those that are out look as if they were.    *)
ChutesSo(chutes) ==
  \A i \in DOMAIN chutes :
    /\ i \in DOMAIN craft.chutes
    /\ Early(chutes[i]) => Early(craft.chutes[i])

Sound(r) == /\ DOMAIN r = DOMAIN NoCall
            /\ DOMAIN r.seen = Categories
            /\ ChutesSo(r.seen.chutes)

PInv == /\ craft \in Crafts
        /\ DOMAIN call = Callers
        /\ \A c \in Callers : Sound(call[c])
        /\ answer.kind = "data" => Sound(answer.says)

(* A property whose read is ignored reads as the harmless value, and a      *)
(* category that is cut short as its first parts (krpc/parts.go).           *)
LEMMA ReadingsAreSound ==
  ASSUME craft \in Crafts, NEW reading \in Readings("chutes")
  PROVE  ChutesSo(reading)
<1> DEFINE real == craft.chutes
<1>1. real \in Seq(PartOf.chutes)
  BY CraftsAssumption DEF Categories
<1>2. PICK n \in Lengths("chutes") :
        \E lost \in [1 .. n -> SUBSET Secondary("chutes")] :
          reading = [i \in 1 .. n |-> [x \in DOMAIN real[i] |->
                      IF x \in lost[i] THEN Zero[x] ELSE real[i][x]]]
  BY DEF Readings
<1>3. n \in 0 .. Len(real)
  BY <1>2 DEF Lengths
<1> PICK lost \in [1 .. n -> SUBSET Secondary("chutes")] :
      reading = [i \in 1 .. n |-> [x \in DOMAIN real[i] |->
                  IF x \in lost[i] THEN Zero[x] ELSE real[i][x]]]
  BY <1>2
<1>4. Zero["deployed"] = FALSE /\ Zero["state"] = ""
  BY DEF Zero
<1> SUFFICES ASSUME NEW i \in DOMAIN reading
             PROVE  /\ i \in DOMAIN craft.chutes
                    /\ Early(reading[i]) => Early(craft.chutes[i])
  BY DEF ChutesSo
<1>5. i \in 1 .. n /\ i \in 1 .. Len(real) /\ i \in DOMAIN real
  BY <1>1, <1>2, <1>3
<1>6. real[i] \in PartOf.chutes
  <2>1. \A S : \A s \in Seq(S) : \A j \in 1 .. Len(s) : s[j] \in S
    OBVIOUS
  <2>2. QED
    BY <1>1, <1>5, <2>1
<1>7. /\ reading[i].deployed \in {FALSE, real[i].deployed}
      /\ reading[i].state \in {"", real[i].state}
  BY <1>2, <1>4, <1>5, <1>6 DEF PartOf
<1>8. QED
  BY <1>5, <1>7 DEF Early

LEMMA NoCallSound == Sound(NoCall)
BY DEF Sound, NoCall, NothingRead, ChutesSo, Categories

(* Records made from a sound one by what leaves its readings alone.         *)
LEMMA SameReadings ==
  ASSUME NEW old, Sound(old), NEW r,
         DOMAIN r = DOMAIN NoCall, r.seen = old.seen
  PROVE  Sound(r)
BY DEF Sound

LEMMA Derived ==
  ASSUME PInv, NEW c \in Callers
  PROVE  /\ Sound(call[c]) /\ Sound(Reply(c)) /\ Sound(Missed(c))
         /\ \A k : Sound([call[c] EXCEPT !.handle = k])
         /\ \A t : Sound([call[c] EXCEPT !.tool = t])
         /\ Sound([call[c] EXCEPT !.failed = TRUE])
<1>1. Sound(call[c]) /\ DOMAIN call[c] = DOMAIN NoCall
  BY DEF PInv, Sound
<1>2. /\ Reply(c).seen = call[c].seen /\ Missed(c).seen = call[c].seen
      /\ DOMAIN Reply(c) = DOMAIN NoCall /\ DOMAIN Missed(c) = DOMAIN NoCall
  BY <1>1 DEF Reply, Missed, NoCall
<1>3. \A k : /\ [call[c] EXCEPT !.handle = k].seen = call[c].seen
             /\ DOMAIN [call[c] EXCEPT !.handle = k] = DOMAIN NoCall
  BY <1>1 DEF NoCall
<1>4. \A t : /\ [call[c] EXCEPT !.tool = t].seen = call[c].seen
             /\ DOMAIN [call[c] EXCEPT !.tool = t] = DOMAIN NoCall
  BY <1>1 DEF NoCall
<1>5. /\ [call[c] EXCEPT !.failed = TRUE].seen = call[c].seen
      /\ DOMAIN [call[c] EXCEPT !.failed = TRUE] = DOMAIN NoCall
  BY <1>1 DEF NoCall
<1>6. QED
  BY <1>1, <1>2, <1>3, <1>4, <1>5, SameReadings

(* What a step of c makes of its record, and says, is sound.                *)
LEMMA SoundStep ==
  ASSUME PInv, NEW c \in Callers, NEW r, Sound(r),
         call' = [call EXCEPT ![c] = r],
         answer'.kind = "data" => Sound(answer'.says),
         craft' = craft
  PROVE  PInv'
BY DEF PInv, Sound, ChutesSo

LEMMA SoundProceed ==
  ASSUME PInv, NEW c \in Callers, NEW r, Sound(r), Proceed(c, r), craft' = craft
  PROVE  PInv'
<1>1. CASE AtEnd(c)
  BY <1>1, NoCallSound, SoundStep DEF Proceed
<1>2. CASE ~AtEnd(c)
  <2> DEFINE next == [r EXCEPT !.pos = @ + 1]
  <2>1. next.seen = r.seen /\ DOMAIN next = DOMAIN NoCall
    BY DEF Sound, NoCall
  <2>2. Sound(next)
    BY <2>1, SameReadings
  <2>3. call' = [call EXCEPT ![c] = next] /\ answer'.kind # "data"
    BY <1>2 DEF Proceed, Silent, NoAnswer
  <2> HIDE DEF next
  <2>4. QED
    BY <2>2, <2>3, SoundStep
<1>3. QED
  BY <1>1, <1>2

LEMMA SoundAnswer ==
  ASSUME PInv, NEW c \in Callers, NEW kind, Answer(c, kind), craft' = craft
  PROVE  PInv'
BY NoCallSound, Derived, SoundStep DEF Answer

LEMMA SoundFail ==
  ASSUME PInv, NEW c \in Callers, Fail(c), craft' = craft
  PROVE  PInv'
<1> DEFINE r == [call[c] EXCEPT !.failed = TRUE]
<1>1. Sound(r) /\ call' = [call EXCEPT ![c] = r] /\ answer'.kind # "data"
  BY Derived DEF Fail, Silent, NoAnswer
<1> HIDE DEF r
<1>2. QED
  BY <1>1, SoundStep

LEMMA ReadPartsSound ==
  ASSUME PInv, NEW c \in Callers, ReadParts(c)
  PROVE  PInv'
<1>1. craft' = craft
  BY DEF ReadParts
<1>2. PICK category \in Categories :
        \/ Proceed(c, [Reply(c) EXCEPT !.seen[category] = craft[category]])
        \/ \E reading \in Readings(category) :
             Proceed(c, [Missed(c) EXCEPT
               !.seen[category] = reading,
               !.short = IF Len(reading) < Len(craft[category])
                         THEN @ \cup {category} ELSE @])
  BY DEF ReadParts
<1>3. Sound(Reply(c)) /\ Sound(Missed(c))
  BY Derived
<1>4. ASSUME NEW old, Sound(old), NEW reading, NEW r,
             category = "chutes" => ChutesSo(reading),
             DOMAIN r = DOMAIN NoCall,
             r.seen = [old.seen EXCEPT ![category] = reading]
      PROVE  Sound(r)
  BY <1>4 DEF Sound, Categories
<1>5. ChutesSo(craft.chutes)
  BY DEF ChutesSo
<1>6. CASE Proceed(c, [Reply(c) EXCEPT !.seen[category] = craft[category]])
  <2> DEFINE r == [Reply(c) EXCEPT !.seen[category] = craft[category]]
  <2>1. /\ DOMAIN r = DOMAIN NoCall
        /\ r.seen = [Reply(c).seen EXCEPT ![category] = craft[category]]
    BY <1>3 DEF Sound, NoCall
  <2>2. Sound(r)
    BY <1>3, <1>4, <1>5, <2>1
  <2> HIDE DEF r
  <2>3. Proceed(c, r)
    BY <1>6 DEF r
  <2>4. QED
    BY <1>1, <2>2, <2>3, SoundProceed
<1>7. ASSUME NEW reading \in Readings(category),
             Proceed(c, [Missed(c) EXCEPT
               !.seen[category] = reading,
               !.short = IF Len(reading) < Len(craft[category])
                         THEN @ \cup {category} ELSE @])
      PROVE  PInv'
  <2> DEFINE r == [Missed(c) EXCEPT
               !.seen[category] = reading,
               !.short = IF Len(reading) < Len(craft[category])
                         THEN @ \cup {category} ELSE @]
  <2>1. /\ DOMAIN r = DOMAIN NoCall
        /\ r.seen = [Missed(c).seen EXCEPT ![category] = reading]
    BY <1>3 DEF Sound, NoCall
  <2>2. Sound(r)
    BY <1>3, <1>4, <2>1, ReadingsAreSound DEF PInv
  <2> HIDE DEF r
  <2>3. Proceed(c, r)
    BY <1>7 DEF r
  <2>4. QED
    BY <1>1, <2>2, <2>3, SoundProceed
<1>8. QED
  BY <1>2, <1>6, <1>7

LEMMA NextPInv == PInv /\ [Next]_vars => PInv'
<1> SUFFICES ASSUME PInv, [Next]_vars
             PROVE  PInv'
  OBVIOUS
<1>1. ASSUME NEW c \in Callers, Serve(c)
      PROVE  PInv'
  <2>1. CASE ReadParts(c)
    BY <2>1, ReadPartsSound
  <2>2. CASE MustRead(c)
    <3>1. CASE Proceed(c, Reply(c)) \/ Fail(c)
      BY <2>2, <3>1, Derived, SoundProceed, SoundFail DEF MustRead
    <3>2. CASE /\ call' = [call EXCEPT ![c] = NoCall]
               /\ answer' = [kind |-> "data", tool |-> call[c].tool,
                             says |-> Reply(c)]
      BY <2>2, <3>2, NoCallSound, Derived, SoundStep DEF MustRead
    <3>3. QED
      BY <2>2, <3>1, <3>2 DEF MustRead
  <2>3. CASE TryRead(c)
    BY <2>3, Derived, SoundProceed DEF TryRead
  <2>4. CASE FindVessel(c)
    BY <2>4, Derived, SoundProceed, SoundAnswer, SoundFail DEF FindVessel
  <2>5. CASE GetConn(c)
    BY <2>5, Derived, SoundProceed, SoundAnswer DEF GetConn
  <2>6. CASE DropConn(c)
    BY <2>6, SoundAnswer DEF DropConn
  <2>7. QED
    BY <1>1, <2>1, <2>2, <2>3, <2>4, <2>5, <2>6 DEF Serve
<1>2. ASSUME NEW c \in Callers, NEW t, Begin(c, t)
      PROVE  PInv'
  <2> DEFINE r == [call[c] EXCEPT !.tool = t]
  <2>1. /\ Sound(r) /\ call' = [call EXCEPT ![c] = r] /\ craft' = craft
        /\ answer'.kind # "data"
    BY <1>2, Derived DEF Begin, Silent, NoAnswer
  <2> HIDE DEF r
  <2>2. QED
    BY <2>1, SoundStep
<1>3. CASE ChangeScene
  BY <1>3 DEF ChangeScene, Silent, NoAnswer, PInv, Sound, ChutesSo
<1>4. CASE UNCHANGED vars
  BY <1>4 DEF vars, PInv, Sound, ChutesSo
<1>5. QED
  BY <1>1, <1>2, <1>3, <1>4 DEF Next

(* preflight never says no-go for power or parachutes of a craft that is    *)
(* fit for both, whatever reads of its parts fail (preflight.go:73, 101;    *)
(* krpc/parts.go:109).                                                      *)
THEOREM NoGoIsTrue == Spec => []NoGoIsSo
<1>1. Init => PInv
  BY NoCallSound DEF Init, PInv, NoAnswer
<1>2. PInv => NoGoIsSo
  <2> SUFFICES ASSUME PInv, Said("preflight"),
                      NEW item \in {"power", "parachutes"},
                      Lines[item] = "no-go"
               PROVE  Checklist(FactsOf(craft))[item] = "no-go"
    BY DEF NoGoIsSo
  <2> DEFINE told == FactsOf(answer.says.seen)
             so   == FactsOf(craft)
  <2>1. /\ told.situation = so.situation /\ told.amount = so.amount
        /\ told.max = so.max
        /\ told.chutes = answer.says.seen.chutes /\ so.chutes = craft.chutes
    BY DEF FactsOf
  <2>2. ChutesSo(told.chutes)
    BY <2>1 DEF PInv, Said, Sound
  <2> HIDE DEF told, so
  <2>3. CASE item = "power"
    <3>1. PowerLine(told) = PowerLine(so)
      BY <2>1 DEF PowerLine
    <3>2. QED
      BY <2>3, <3>1 DEF Lines, Checklist, told, so
  <2>4. CASE item = "parachutes"
    <3>1. ParachutesLine(told) = "no-go"
      BY <2>4 DEF Lines, Checklist, told
    <3>2. /\ told.situation = "PreLaunch"
          /\ \E i \in DOMAIN told.chutes : Early(told.chutes[i])
      BY <3>1 DEF ParachutesLine
    <3>3. PICK i \in DOMAIN so.chutes : Early(so.chutes[i])
      BY <2>1, <2>2, <3>2 DEF ChutesSo
    <3>4. so.chutes # << >> /\ so.situation = "PreLaunch"
      BY <2>1, <3>2, <3>3
    <3>5. ParachutesLine(so) = "no-go"
      BY <3>3, <3>4 DEF ParachutesLine
    <3>6. QED
      BY <2>4, <3>5 DEF Checklist, so
  <2>5. QED
    BY <2>3, <2>4
<1>3. QED
  BY <1>1, <1>2, NextPInv, PTL DEF Spec

-----------------------------------------------------------------------------
(* The scripts                                                             *)

IsScript(s) == /\ \E S : s \in Seq(S)
               /\ Len(s) \in Nat \ {0}

LEMMA OneRead == \A r : IsScript(Must(r)) /\ IsScript(Ends(r)) /\ IsScript(Try(r))
<1>1. ASSUME NEW x
      PROVE  IsScript(<<x>>)
  <2>1. <<x>> \in Seq({x}) /\ Len(<<x>>) \in Nat \ {0}
    OBVIOUS
  <2>2. \E S : <<x>> \in Seq(S)
    BY <2>1
  <2>3. QED
    BY <2>1, <2>2 DEF IsScript
<1>2. QED
  BY <1>1 DEF Must, Ends, Try

LEMMA ReadsFollow == \A s, t : IsScript(s) /\ IsScript(t) => IsScript(s \o t)
<1> SUFFICES ASSUME NEW s, NEW t, IsScript(s), IsScript(t)
             PROVE  IsScript(s \o t)
  OBVIOUS
<1> PICK S : s \in Seq(S)
  BY DEF IsScript
<1> PICK T : t \in Seq(T)
  BY DEF IsScript
<1>1. s \in Seq(S \cup T) /\ t \in Seq(S \cup T)
  OBVIOUS
<1>2. s \o t \in Seq(S \cup T) /\ Len(s \o t) = Len(s) + Len(t)
  BY <1>1
<1>3. QED
  BY <1>2 DEF IsScript

LEMMA CommonScripts ==
  /\ IsScript(ResolveVessel) /\ IsScript(FlightContext)
  /\ IsScript(ReadManeuverNodes) /\ IsScript(ReadVessels)
  /\ IsScript(ReadResources) /\ IsScript(PartsSnapshotFor)
  /\ IsScript(StageMassProfile)
<1>1. IsScript(ResolveVessel)
  BY OneRead, ReadsFollow DEF ResolveVessel
<1>2. IsScript(FlightContext)
  BY <1>1, OneRead, ReadsFollow DEF FlightContext
<1>3. IsScript(ReadManeuverNodes)
  BY OneRead, ReadsFollow DEF ReadManeuverNodes
<1>4. IsScript(ReadVessels)
  BY OneRead, ReadsFollow DEF ReadVessels
<1>5. IsScript(ReadResources)
  BY OneRead, ReadsFollow DEF ReadResources
<1>6. IsScript(PartsSnapshotFor)
  BY OneRead, ReadsFollow DEF PartsSnapshotFor
<1>7. IsScript(StageMassProfile)
  BY OneRead, ReadsFollow DEF StageMassProfile
<1>8. QED
  BY <1>1, <1>2, <1>3, <1>4, <1>5, <1>6, <1>7

LEMMA Scripts == \A t \in Tools : IsScript(Script(t))
<1>1. /\ IsScript(VesselStatus) /\ IsScript(Orbit) /\ IsScript(FlightTelemetry)
      /\ IsScript(Resources) /\ IsScript(ManeuverNodes) /\ IsScript(Crew)
  BY CommonScripts, OneRead, ReadsFollow
     DEF VesselStatus, Orbit, FlightTelemetry, Resources, ManeuverNodes, Crew,
         ReadVesselStatus, ReadOrbit, ReadFlightTelemetry, ReadCrewMembers
<1>2. IsScript(GameState)
  BY OneRead, ReadsFollow DEF GameState
<1>3. IsScript(TargetInfo)
  BY CommonScripts, OneRead, ReadsFollow DEF TargetInfo, ReadTarget, ReadPosVel
<1>4. IsScript(ListVessels)
  BY CommonScripts, ReadsFollow DEF ListVessels
<1>5. IsScript(DeltaVStatus)
  BY CommonScripts, OneRead, ReadsFollow
     DEF DeltaVStatus, ReadDeltaVInputs, ReadGravity
<1>6. IsScript(Attitude)
  BY CommonScripts, OneRead, ReadsFollow
     DEF Attitude, ReadFlightTelemetry, ReadPosVel, ReadTarget
<1>7. IsScript(Bodies)
  BY OneRead, ReadsFollow DEF Bodies, ReadBodies, ReadBodyFacts
<1>8. IsScript(CalcCircularize)
  BY CommonScripts, OneRead, ReadsFollow DEF CalcCircularize, ReadRadii
<1>9. IsScript(CalcHohmann)
  BY CommonScripts, OneRead, ReadsFollow DEF CalcHohmann, ReadRadii, ReadPosVel
<1>10. IsScript(CalcPlaneChange)
  BY CommonScripts, OneRead, ReadsFollow
     DEF CalcPlaneChange, ReadTarget, ReadRadii
<1>11. IsScript(CalcBurnTime)
  BY CommonScripts, OneRead, ReadsFollow DEF CalcBurnTime, ReadDeltaVInputs
<1>12. IsScript(PreflightTool)
  BY CommonScripts, OneRead, ReadsFollow
     DEF PreflightTool, ReadVesselStatus, ReadCrewMembers, ReadDeltaVInputs,
         ReadGravity
<1>13. IsScript(StagingPlan) /\ IsScript(StageDeltaVTool)
  BY CommonScripts, ReadsFollow DEF StagingPlan, StageDeltaVTool
<1>14. QED
  BY <1>1, <1>2, <1>3, <1>4, <1>5, <1>6, <1>7, <1>8, <1>9, <1>10, <1>11,
     <1>12, <1>13 DEF Script, Tools

-----------------------------------------------------------------------------
(* Types, and what a tool has read when it has read its script             *)

(* A category that is not called incomplete is all there, but for what is   *)
(* read with its errors ignored; one of which nothing was missed is exact.  *)
Whole(k, r, category) ==
  category \notin r.short =>
    /\ DOMAIN r.seen[category] = DOMAIN k[category]
    /\ \A i \in DOMAIN k[category] :
         \A x \in DOMAIN k[category][i] \ Secondary(category) :
           r.seen[category][i][x] = k[category][i][x]
Exact(k, r, category) == ~r.missed => r.seen[category] = k[category]

(* So with every category among the first n reads, of craft k.              *)
HasRead(k, r, n) ==
  \A m \in 1 .. n : \A category \in Categories :
    Script(r.tool)[m].read = category =>
      Whole(k, r, category) /\ Exact(k, r, category)

Ended(t) == \E m \in 1 .. Len(Script(t)) : Script(t)[m].policy = "ends"

Told ==
  answer.kind = "data" =>
    /\ answer.tool \in Tools /\ answer.says.tool = answer.tool
    /\ CallOK(answer.says)
    /\ HasRead(craft, answer.says, Len(Script(answer.tool))) \/ Ended(answer.tool)

GInv == /\ inFlight \in BOOLEAN /\ craft \in Crafts
        /\ DOMAIN call = Callers
        /\ \A c \in Callers : /\ CallOK(call[c])
                              /\ HasRead(craft, call[c], call[c].pos - 1)
        /\ answer.kind \in {"none", "unavailable", "data", "error"}
        /\ Told

LEMMA CraftTyped ==
  ASSUME craft \in Crafts, NEW category \in Categories
  PROVE  /\ craft[category] \in Seq(PartOf[category])
         /\ Len(craft[category]) \in Nat
         /\ DOMAIN craft[category] = 1 .. Len(craft[category])
         /\ \A i \in 1 .. Len(craft[category]) :
              craft[category][i] \in PartOf[category]
<1>1. craft[category] \in Seq(PartOf[category])
  BY CraftsAssumption
<1>2. \A S : \A s \in Seq(S) : /\ Len(s) \in Nat /\ DOMAIN s = 1 .. Len(s)
                               /\ \A j \in 1 .. Len(s) : s[j] \in S
  OBVIOUS
<1>3. QED
  BY <1>1, <1>2

(* A part of which some properties read as zero is still a part.            *)
LEMMA PartsStayTyped ==
  ASSUME NEW category \in Categories, NEW part \in PartOf[category],
         NEW lost \in SUBSET Secondary(category)
  PROVE  [x \in DOMAIN part |-> IF x \in lost THEN Zero[x] ELSE part[x]]
           \in PartOf[category]
<1> DEFINE new == [x \in DOMAIN part |-> IF x \in lost THEN Zero[x] ELSE part[x]]
<1>1. CASE category = "chutes"
  BY <1>1 DEF PartOf, Zero, Staging
<1>2. CASE category = "engines"
  BY <1>2 DEF PartOf, Zero, Staging
<1>3. CASE category = "decouplers"
  BY <1>3 DEF PartOf, Zero, Staging
<1>4. CASE category = "tanks"
  BY <1>4 DEF PartOf, Zero, Staging
<1>5. CASE category = "motors"
  BY <1>5 DEF PartOf, Zero, Staging
<1>6. QED
  BY <1>1, <1>2, <1>3, <1>4, <1>5 DEF Categories

LEMMA ReadingsTyped ==
  ASSUME craft \in Crafts, NEW category \in Categories,
         NEW reading \in Readings(category)
  PROVE  /\ reading \in Seq(PartOf[category])
         /\ Len(reading) <= Len(craft[category])
         /\ \A i \in DOMAIN reading :
              \A x \in DOMAIN craft[category][i] \ Secondary(category) :
                reading[i][x] = craft[category][i][x]
<1> DEFINE real == craft[category]
<1>1. PICK n \in Lengths(category) :
        \E lost \in [1 .. n -> SUBSET Secondary(category)] :
          reading = [i \in 1 .. n |-> [x \in DOMAIN real[i] |->
                      IF x \in lost[i] THEN Zero[x] ELSE real[i][x]]]
  BY DEF Readings
<1>2. n \in 0 .. Len(real)
  BY <1>1, CraftTyped DEF Lengths
<1> PICK lost \in [1 .. n -> SUBSET Secondary(category)] :
      reading = [i \in 1 .. n |-> [x \in DOMAIN real[i] |->
                  IF x \in lost[i] THEN Zero[x] ELSE real[i][x]]]
  BY <1>1
<1>3. \A i \in 1 .. n : reading[i] \in PartOf[category]
  <2> SUFFICES ASSUME NEW i \in 1 .. n
               PROVE  reading[i] \in PartOf[category]
    OBVIOUS
  <2>1. real[i] \in PartOf[category] /\ lost[i] \in SUBSET Secondary(category)
    BY <1>2, CraftTyped
  <2>2. reading[i] = [x \in DOMAIN real[i] |->
                       IF x \in lost[i] THEN Zero[x] ELSE real[i][x]]
    OBVIOUS
  <2> HIDE DEF real
  <2>3. QED
    BY <2>1, <2>2, PartsStayTyped
<1>4. reading \in [1 .. n -> PartOf[category]] /\ DOMAIN reading = 1 .. n
  BY <1>3
<1>5. reading \in Seq(PartOf[category]) /\ Len(reading) = n
  BY <1>2, <1>4, CraftTyped
<1>6. ASSUME NEW i \in 1 .. n, NEW x \in DOMAIN real[i] \ Secondary(category)
      PROVE  reading[i][x] = real[i][x]
  BY <1>6
<1>7. QED
  BY <1>2, <1>4, <1>5, <1>6, CraftTyped

(* What was read stays read.                                                *)
LEMMA StaysRead ==
  ASSUME NEW k, NEW old, NEW r, NEW n, HasRead(k, old, n),
         r.tool = old.tool, r.seen = old.seen, old.short \subseteq r.short,
         old.missed => r.missed
  PROVE  HasRead(k, r, n)
BY DEF HasRead, Whole, Exact

LEMMA NoCallTyped == CallOK(NoCall) /\ HasRead(craft, NoCall, NoCall.pos - 1)
<1>1. \A category \in Categories : << >> \in Seq(PartOf[category])
  OBVIOUS
<1>2. Sees(NothingRead)
  BY <1>1 DEF Sees, NothingRead
<1>3. CallOK(NoCall)
  BY <1>2 DEF CallOK, NoCall
<1>4. HasRead(craft, NoCall, NoCall.pos - 1)
  BY DEF HasRead, NoCall
<1>5. QED
  BY <1>3, <1>4

LEMMA TypedStep ==
  ASSUME GInv, NEW c \in Callers, NEW r, CallOK(r), HasRead(craft, r, r.pos - 1),
         call' = [call EXCEPT ![c] = r], craft' = craft, inFlight' \in BOOLEAN,
         answer'.kind \in {"none", "unavailable", "data", "error"}, Told'
  PROVE  GInv'
BY DEF GInv

LEMMA SilentTold ==
  ASSUME answer'.kind # "data"
  PROVE  Told'
BY DEF Told

LEMMA TypedCall ==
  ASSUME GInv, NEW c \in Callers
  PROVE  /\ CallOK(call[c]) /\ HasRead(craft, call[c], call[c].pos - 1)
         /\ Busy(c) => /\ call[c].tool \in Tools
                       /\ IsScript(Script(call[c].tool))
                       /\ call[c].pos \in 1 .. Len(Script(call[c].tool))
BY Scripts DEF GInv, CallOK, Busy

(* The records that reads make of a call.                                   *)
LEMMA TypedRecords ==
  ASSUME GInv, NEW c \in Callers, Busy(c)
  PROVE  /\ CallOK(Reply(c)) /\ CallOK(Missed(c))
         /\ Reply(c).tool = call[c].tool /\ Reply(c).pos = call[c].pos
         /\ Missed(c).tool = call[c].tool /\ Missed(c).pos = call[c].pos
         /\ Reply(c).seen = call[c].seen /\ Reply(c).short = call[c].short
         /\ Missed(c).seen = call[c].seen /\ Missed(c).short = call[c].short
         /\ Reply(c).missed = call[c].missed /\ Missed(c).missed = TRUE
         /\ \A n : HasRead(craft, call[c], n) => HasRead(craft, Reply(c), n)
         /\ \A n : HasRead(craft, call[c], n) => HasRead(craft, Missed(c), n)
<1>1. CallOK(call[c]) /\ call[c].foreign \in BOOLEAN
  BY TypedCall DEF CallOK
<1>2. /\ DOMAIN Reply(c) = DOMAIN NoCall
      /\ Reply(c).tool = call[c].tool /\ Reply(c).pos = call[c].pos
      /\ Reply(c).failed = call[c].failed /\ Reply(c).handle = call[c].handle
      /\ Reply(c).seen = call[c].seen /\ Reply(c).short = call[c].short
      /\ Reply(c).missed = call[c].missed
      /\ Reply(c).foreign = (call[c].foreign \/ call[c].handle \in late)
  BY <1>1 DEF CallOK, NoCall, Reply
<1>3. /\ DOMAIN Missed(c) = DOMAIN NoCall
      /\ Missed(c).tool = call[c].tool /\ Missed(c).pos = call[c].pos
      /\ Missed(c).failed = call[c].failed /\ Missed(c).handle = call[c].handle
      /\ Missed(c).seen = call[c].seen /\ Missed(c).short = call[c].short
      /\ Missed(c).missed = TRUE
      /\ Missed(c).foreign = (call[c].foreign \/ call[c].handle \in late')
  BY <1>1 DEF CallOK, NoCall, Missed
<1>4. Reply(c).foreign \in BOOLEAN /\ Missed(c).foreign \in BOOLEAN
  BY <1>2, <1>3
<1>5. CallOK(Reply(c)) /\ CallOK(Missed(c))
  BY <1>1, <1>2, <1>3, <1>4 DEF CallOK
<1>6. QED
  BY <1>2, <1>3, <1>5, StaysRead

(* r: the caller's record with the current read done.                       *)
LEMMA TypedProceed ==
  ASSUME GInv, NEW c \in Callers, Busy(c), NEW r, CallOK(r),
         r.tool = call[c].tool, r.pos = call[c].pos, HasRead(craft, r, r.pos),
         Proceed(c, r), craft' = craft, inFlight' \in BOOLEAN
  PROVE  GInv'
<1>1. r.tool \in Tools /\ r.pos \in 1 .. Len(Script(r.tool))
      /\ Len(Script(r.tool)) \in Nat
  BY TypedCall DEF IsScript
<1>3. CASE AtEnd(c)
  <2>1. /\ call' = [call EXCEPT ![c] = NoCall]
        /\ answer' = [kind |-> "data", tool |-> r.tool, says |-> r]
    BY <1>3 DEF Proceed
  <2>2. r.pos = Len(Script(r.tool))
    BY <1>3 DEF AtEnd
  <2>3. HasRead(craft', r, Len(Script(r.tool)))
    BY <2>2
  <2>4. /\ answer'.kind = "data" /\ answer'.tool = r.tool /\ answer'.says = r
    BY <2>1
  <2>5. Told'
    BY <1>1, <2>3, <2>4 DEF Told
  <2>6. QED
    BY <2>1, <2>4, <2>5, NoCallTyped, TypedStep
<1>4. CASE ~AtEnd(c)
  <2> DEFINE next == [r EXCEPT !.pos = @ + 1]
  <2>1. /\ DOMAIN next = DOMAIN NoCall
        /\ next.tool = r.tool /\ next.pos = r.pos + 1
        /\ next.failed = r.failed /\ next.handle = r.handle
        /\ next.seen = r.seen /\ next.short = r.short
        /\ next.missed = r.missed /\ next.foreign = r.foreign
    BY DEF CallOK, NoCall
  <2>2. call' = [call EXCEPT ![c] = next] /\ answer'.kind = "none"
    BY <1>4 DEF Proceed, Silent, NoAnswer
  <2> HIDE DEF next
  <2>3. r.pos # Len(Script(r.tool))
    BY <1>4 DEF AtEnd
  <2>4. next.pos \in 1 .. Len(Script(next.tool)) /\ next.tool # "none"
    BY <1>1, <2>1, <2>3 DEF Tools
  <2>5. CallOK(next)
    BY <2>1, <2>4 DEF CallOK
  <2>6. HasRead(craft, next, next.pos - 1)
    <3>1. next.pos - 1 = r.pos
      BY <1>1, <2>1
    <3>2. QED
      BY <2>1, <3>1, StaysRead
  <2>7. QED
    BY <2>2, <2>5, <2>6, SilentTold, TypedStep
<1>5. QED
  BY <1>3, <1>4

(* A read of no category of parts.                                          *)
LEMMA TypedReadOn ==
  ASSUME GInv, NEW c \in Callers, Busy(c), NEW r, CallOK(r),
         r.tool = call[c].tool, r.pos = call[c].pos, HasRead(craft, r, r.pos - 1),
         Step(c).read \notin Categories
  PROVE  HasRead(craft, r, r.pos)
<1>1. r.pos \in Nat
  BY TypedCall DEF IsScript
<1>2. Script(r.tool)[r.pos].read \notin Categories
  BY DEF Step
<1>3. QED
  BY <1>1, <1>2 DEF HasRead

LEMMA TypedAnswer ==
  ASSUME GInv, NEW c \in Callers, NEW kind \in {"unavailable", "error"},
         Answer(c, kind), craft' = craft, inFlight' \in BOOLEAN
  PROVE  GInv'
<1>1. call' = [call EXCEPT ![c] = NoCall] /\ answer'.kind = kind
  BY DEF Answer
<1>2. QED
  BY <1>1, NoCallTyped, SilentTold, TypedStep

LEMMA TypedFail ==
  ASSUME GInv, NEW c \in Callers, Fail(c), craft' = craft, inFlight' \in BOOLEAN
  PROVE  GInv'
<1> DEFINE r == [call[c] EXCEPT !.failed = TRUE]
<1>1. CallOK(call[c]) /\ HasRead(craft, call[c], call[c].pos - 1)
  BY TypedCall
<1>2. /\ DOMAIN r = DOMAIN NoCall
      /\ r.tool = call[c].tool /\ r.pos = call[c].pos
      /\ r.failed = TRUE /\ r.handle = call[c].handle
      /\ r.seen = call[c].seen /\ r.short = call[c].short
      /\ r.missed = call[c].missed /\ r.foreign = call[c].foreign
  BY <1>1 DEF CallOK, NoCall
<1>3. call' = [call EXCEPT ![c] = r] /\ answer'.kind = "none"
  BY DEF Fail, Silent, NoAnswer
<1> HIDE DEF r
<1>4. CallOK(r)
  BY <1>1, <1>2 DEF CallOK
<1>5. HasRead(craft, r, r.pos - 1)
  BY <1>1, <1>2, StaysRead
<1>6. QED
  BY <1>3, <1>4, <1>5, SilentTold, TypedStep

(* A category is read.                                                      *)
LEMMA TypedPlace ==
  ASSUME GInv, NEW c \in Callers, NEW category \in Categories, At(c, category),
         NEW old, CallOK(old), HasRead(craft, old, old.pos - 1),
         old.tool = call[c].tool, old.pos = call[c].pos,
         NEW reading \in Seq(PartOf[category]), NEW r,
         DOMAIN r = DOMAIN NoCall, r.tool = old.tool, r.pos = old.pos,
         r.failed = old.failed, r.handle = old.handle, r.missed = old.missed,
         r.foreign = old.foreign, old.short \subseteq r.short,
         r.short \subseteq Categories,
         r.seen = [old.seen EXCEPT ![category] = reading],
         Whole(craft, r, category), Exact(craft, r, category)
  PROVE  CallOK(r) /\ HasRead(craft, r, r.pos)
<1>1. Sees(r.seen)
  BY DEF CallOK, Sees
<1>2. CallOK(r)
  BY <1>1 DEF CallOK
<1>3. /\ r.pos \in 1 .. Len(Script(r.tool)) /\ Len(Script(r.tool)) \in Nat
      /\ Script(r.tool)[r.pos].read = category
  BY TypedCall DEF At, Step, IsScript
<1>4. \A other \in Categories \ {category} : r.seen[other] = old.seen[other]
  BY DEF CallOK, Sees
<1>5. ASSUME NEW m \in 1 .. r.pos, NEW other \in Categories,
             Script(r.tool)[m].read = other
      PROVE  Whole(craft, r, other) /\ Exact(craft, r, other)
  <2>1. CASE other = category
    BY <2>1
  <2>2. CASE other # category
    <3>1. m \in 1 .. old.pos - 1
      BY <1>3, <1>5, <2>2
    <3>2. Whole(craft, old, other) /\ Exact(craft, old, other)
      BY <1>5, <3>1 DEF HasRead
    <3>3. QED
      BY <1>4, <2>2, <3>2 DEF Whole, Exact
  <2>3. QED
    BY <2>1, <2>2
<1>6. HasRead(craft, r, r.pos)
  BY <1>5 DEF HasRead
<1>7. QED
  BY <1>2, <1>6

LEMMA ReadPartsTyped ==
  ASSUME GInv, NEW c \in Callers, ReadParts(c)
  PROVE  GInv'
<1>1. craft' = craft /\ inFlight' \in BOOLEAN /\ craft \in Crafts
  BY DEF ReadParts, GInv
<1>2. PICK category \in Categories :
        /\ At(c, category)
        /\ \/ Proceed(c, [Reply(c) EXCEPT !.seen[category] = craft[category]])
           \/ \E reading \in Readings(category) :
                Proceed(c, [Missed(c) EXCEPT
                  !.seen[category] = reading,
                  !.short = IF Len(reading) < Len(craft[category])
                            THEN @ \cup {category} ELSE @])
  BY DEF ReadParts
<1>3. Busy(c) /\ HasRead(craft, call[c], call[c].pos - 1)
  BY <1>2, TypedCall DEF At
<1>4. /\ CallOK(Reply(c)) /\ HasRead(craft, Reply(c), Reply(c).pos - 1)
      /\ Reply(c).tool = call[c].tool /\ Reply(c).pos = call[c].pos
  BY <1>3, TypedRecords
<1>5. /\ CallOK(Missed(c)) /\ HasRead(craft, Missed(c), Missed(c).pos - 1)
      /\ Missed(c).tool = call[c].tool /\ Missed(c).pos = call[c].pos
      /\ Missed(c).missed = TRUE
  BY <1>3, TypedRecords
<1>6. CASE Proceed(c, [Reply(c) EXCEPT !.seen[category] = craft[category]])
  <2> DEFINE r == [Reply(c) EXCEPT !.seen[category] = craft[category]]
  <2>1. /\ DOMAIN r = DOMAIN NoCall
        /\ r.tool = Reply(c).tool /\ r.pos = Reply(c).pos
        /\ r.failed = Reply(c).failed /\ r.handle = Reply(c).handle
        /\ r.missed = Reply(c).missed /\ r.foreign = Reply(c).foreign
        /\ r.short = Reply(c).short
        /\ r.seen = [Reply(c).seen EXCEPT ![category] = craft[category]]
    BY <1>4 DEF CallOK, NoCall
  <2> HIDE DEF r
  <2>2. r.seen[category] = craft[category] /\ r.short \subseteq Categories
    BY <1>4, <2>1 DEF CallOK, Sees
  <2>3. Whole(craft, r, category) /\ Exact(craft, r, category)
    BY <2>2 DEF Whole, Exact
  <2>4. craft[category] \in Seq(PartOf[category])
    BY <1>1, CraftTyped
  <2>5. CallOK(r) /\ HasRead(craft, r, r.pos)
    BY <1>2, <1>4, <2>1, <2>2, <2>3, <2>4, TypedPlace
  <2>6. Proceed(c, r)
    BY <1>6 DEF r
  <2>7. QED
    BY <1>1, <1>3, <1>4, <2>1, <2>5, <2>6, TypedProceed
<1>7. ASSUME NEW reading \in Readings(category),
             Proceed(c, [Missed(c) EXCEPT
               !.seen[category] = reading,
               !.short = IF Len(reading) < Len(craft[category])
                         THEN @ \cup {category} ELSE @])
      PROVE  GInv'
  <2> DEFINE r == [Missed(c) EXCEPT
               !.seen[category] = reading,
               !.short = IF Len(reading) < Len(craft[category])
                         THEN @ \cup {category} ELSE @]
  <2>1. /\ DOMAIN r = DOMAIN NoCall
        /\ r.tool = Missed(c).tool /\ r.pos = Missed(c).pos
        /\ r.failed = Missed(c).failed /\ r.handle = Missed(c).handle
        /\ r.missed = Missed(c).missed /\ r.foreign = Missed(c).foreign
        /\ r.short = IF Len(reading) < Len(craft[category])
                     THEN Missed(c).short \cup {category} ELSE Missed(c).short
        /\ r.seen = [Missed(c).seen EXCEPT ![category] = reading]
    BY <1>5 DEF CallOK, NoCall
  <2>2. Proceed(c, r)
    BY <1>7
  <2> HIDE DEF r
  <2>3. /\ reading \in Seq(PartOf[category])
        /\ Len(reading) <= Len(craft[category])
        /\ \A i \in DOMAIN reading :
             \A x \in DOMAIN craft[category][i] \ Secondary(category) :
               reading[i][x] = craft[category][i][x]
    BY <1>1, ReadingsTyped
  <2>4. /\ r.seen[category] = reading
        /\ Missed(c).short \subseteq r.short /\ r.short \subseteq Categories
    BY <1>5, <2>1 DEF CallOK, Sees
  <2>5. Whole(craft, r, category)
    <3>1. SUFFICES ASSUME category \notin r.short
                   PROVE  DOMAIN reading = DOMAIN craft[category]
      BY <2>3, <2>4 DEF Whole
    <3>2. ~(Len(reading) < Len(craft[category]))
      BY <2>1, <3>1
    <3>3. DOMAIN reading = 1 .. Len(reading) /\ Len(reading) \in Nat
      BY <2>3
    <3>4. QED
      BY <1>1, <2>3, <3>2, <3>3, CraftTyped
  <2>6. Exact(craft, r, category)
    BY <1>5, <2>1 DEF Exact
  <2>7. CallOK(r) /\ HasRead(craft, r, r.pos)
    BY <1>2, <1>5, <2>1, <2>3, <2>4, <2>5, <2>6, TypedPlace
  <2>8. QED
    BY <1>1, <1>3, <1>5, <2>1, <2>2, <2>7, TypedProceed
<1>8. QED
  BY <1>2, <1>6, <1>7

(* The reads of anything else.                                              *)
LEMMA ReadTyped ==
  ASSUME GInv, NEW c \in Callers, Busy(c), Step(c).read \notin Categories,
         craft' = craft, inFlight' \in BOOLEAN
  PROVE  /\ Proceed(c, Reply(c)) => GInv'
         /\ Proceed(c, Missed(c)) => GInv'
<1>1. HasRead(craft, call[c], call[c].pos - 1)
  BY TypedCall
<1>2. HasRead(craft, Reply(c), Reply(c).pos) /\ HasRead(craft, Missed(c), Missed(c).pos)
  BY <1>1, TypedRecords, TypedReadOn
<1>3. QED
  BY <1>2, TypedRecords, TypedProceed

LEMMA GetConnTyped ==
  ASSUME GInv, NEW c \in Callers, GetConn(c)
  PROVE  GInv'
<1>1. /\ craft' = craft /\ inFlight' \in BOOLEAN /\ Busy(c)
      /\ Step(c).read \notin Categories
  BY DEF GetConn, At, GInv, Categories
<1>2. CASE Answer(c, "unavailable")
  BY <1>1, <1>2, TypedAnswer
<1>3. ASSUME NEW k \in Connections, Proceed(c, [call[c] EXCEPT !.handle = k])
      PROVE  GInv'
  <2> DEFINE r == [call[c] EXCEPT !.handle = k]
  <2>1. CallOK(call[c]) /\ HasRead(craft, call[c], call[c].pos - 1)
    BY TypedCall
  <2>2. /\ DOMAIN r = DOMAIN NoCall
        /\ r.tool = call[c].tool /\ r.pos = call[c].pos
        /\ r.failed = call[c].failed /\ r.handle = k
        /\ r.seen = call[c].seen /\ r.short = call[c].short
        /\ r.missed = call[c].missed /\ r.foreign = call[c].foreign
    BY <2>1 DEF CallOK, NoCall
  <2>3. Proceed(c, r)
    BY <1>3
  <2> HIDE DEF r
  <2>4. CallOK(r)
    BY <2>1, <2>2 DEF CallOK
  <2>5. HasRead(craft, r, r.pos - 1)
    BY <2>1, <2>2, StaysRead
  <2>6. HasRead(craft, r, r.pos)
    BY <1>1, <2>2, <2>4, <2>5, TypedReadOn
  <2>7. QED
    BY <1>1, <2>2, <2>3, <2>4, <2>6, TypedProceed
<1>4. QED
  BY <1>2, <1>3 DEF GetConn

LEMMA FindVesselTyped ==
  ASSUME GInv, NEW c \in Callers, FindVessel(c)
  PROVE  GInv'
<1>1. /\ craft' = craft /\ inFlight' \in BOOLEAN /\ Busy(c)
      /\ Step(c).read \notin Categories
  BY DEF FindVessel, At, GInv, Categories
<1>2. QED
  BY <1>1, ReadTyped, TypedAnswer, TypedFail DEF FindVessel

LEMMA MustReadTyped ==
  ASSUME GInv, NEW c \in Callers, MustRead(c)
  PROVE  GInv'
<1>1. /\ craft' = craft /\ inFlight' \in BOOLEAN /\ Busy(c)
      /\ Step(c).read \notin Categories
  BY DEF MustRead, Reading, GInv
<1>2. CASE Proceed(c, Reply(c)) \/ Fail(c)
  BY <1>1, <1>2, ReadTyped, TypedFail
<1>3. CASE /\ Step(c).policy = "ends"
           /\ call' = [call EXCEPT ![c] = NoCall]
           /\ answer' = [kind |-> "data", tool |-> call[c].tool, says |-> Reply(c)]
  <2>1. /\ answer'.kind = "data" /\ answer'.tool = call[c].tool
        /\ answer'.says = Reply(c)
    BY <1>3
  <2>2. CallOK(Reply(c)) /\ Reply(c).tool = call[c].tool /\ call[c].tool \in Tools
    BY <1>1, TypedRecords, TypedCall
  <2>3. Ended(call[c].tool)
    BY <1>1, <1>3, TypedCall DEF Ended, Step
  <2>4. Told'
    BY <2>1, <2>2, <2>3 DEF Told
  <2>5. QED
    BY <1>1, <1>3, <2>1, <2>4, NoCallTyped, TypedStep
<1>4. QED
  BY <1>2, <1>3 DEF MustRead

LEMMA TryReadTyped ==
  ASSUME GInv, NEW c \in Callers, TryRead(c)
  PROVE  GInv'
<1>1. /\ craft' = craft /\ inFlight' \in BOOLEAN /\ Busy(c)
      /\ Step(c).read \notin Categories
  BY DEF TryRead, Reading, GInv
<1>2. QED
  BY <1>1, ReadTyped DEF TryRead

LEMMA BeginTyped ==
  ASSUME GInv, NEW c \in Callers, NEW t \in Tools, Begin(c, t)
  PROVE  GInv'
<1> DEFINE r == [call[c] EXCEPT !.tool = t]
<1>1. CallOK(call[c]) /\ call[c].tool = "none"
  BY TypedCall DEF Begin, Busy
<1>2. /\ DOMAIN r = DOMAIN NoCall
      /\ r.tool = t /\ r.pos = call[c].pos
      /\ r.failed = call[c].failed /\ r.handle = call[c].handle
      /\ r.seen = call[c].seen /\ r.short = call[c].short
      /\ r.missed = call[c].missed /\ r.foreign = call[c].foreign
  BY <1>1 DEF CallOK, NoCall
<1>3. call' = [call EXCEPT ![c] = r] /\ answer'.kind = "none"
  BY DEF Begin, Silent, NoAnswer
<1> HIDE DEF r
<1>4. call[c].pos = 1 /\ 1 \in 1 .. Len(Script(t)) /\ t # "none"
  <2>1. call[c].pos \in 1 .. 1
    BY <1>1 DEF CallOK
  <2>2. Len(Script(t)) \in Nat \ {0}
    BY Scripts DEF IsScript
  <2>3. QED
    BY <2>1, <2>2 DEF Tools
<1>5. CallOK(r) /\ HasRead(craft, r, r.pos - 1)
  <2>1. r.pos \in 1 .. (IF r.tool = "none" THEN 1 ELSE Len(Script(r.tool)))
    BY <1>2, <1>4
  <2>2. CallOK(r)
    BY <1>1, <1>2, <2>1 DEF CallOK
  <2>3. r.pos - 1 = 0
    BY <1>2, <1>4
  <2>4. HasRead(craft, r, 0)
    BY DEF HasRead
  <2>5. QED
    BY <2>2, <2>3, <2>4
<1>6. craft' = craft /\ inFlight' \in BOOLEAN
  BY DEF Begin, GInv
<1>7. QED
  BY <1>3, <1>5, <1>6, SilentTold, TypedStep

LEMMA NextGInv == GInv /\ [Next]_vars => GInv'
<1> SUFFICES ASSUME GInv, [Next]_vars
             PROVE  GInv'
  OBVIOUS
<1>1. ASSUME NEW c \in Callers, Serve(c)
      PROVE  GInv'
  <2>1. CASE DropConn(c)
    BY <2>1, TypedAnswer DEF DropConn, GInv
  <2>2. QED
    BY <1>1, <2>1, GetConnTyped, FindVesselTyped, MustReadTyped, TryReadTyped,
       ReadPartsTyped DEF Serve
<1>2. ASSUME NEW c \in Callers, NEW t \in Offered[craft][c], Begin(c, t)
      PROVE  GInv'
  BY <1>2, BeginTyped, OfferedAssumption DEF GInv
<1>3. CASE ChangeScene
  <2>1. answer'.kind = "none" /\ inFlight' \in BOOLEAN
    BY <1>3 DEF ChangeScene, Silent, NoAnswer, GInv
  <2>2. QED
    BY <1>3, <2>1, SilentTold DEF ChangeScene, GInv
<1>4. CASE UNCHANGED vars
  BY <1>4 DEF vars, GInv, Told
<1>5. QED
  BY <1>1, <1>2, <1>3, <1>4 DEF Next

LEMMA InitGInv == Init => GInv
<1> SUFFICES ASSUME Init
             PROVE  GInv
  OBVIOUS
<1>1. answer.kind = "none" /\ DOMAIN call = Callers
  BY DEF Init, NoAnswer
<1>2. \A c \in Callers : call[c] = NoCall
  BY DEF Init
<1>3. QED
  BY <1>1, <1>2, NoCallTyped DEF Init, GInv, Told

(* The connections on which a tool went on are connections dialled.         *)
LEMMA IgnoredTyped ==
  ASSUME RInv', ignored \subseteq Connections, [Next]_vars
  PROVE  ignored' \subseteq Connections
<1>1. late' \subseteq Connections
  BY MaxConnsAssumption DEF RInv, ConnTypeOK, Connections
<1>2. \/ UNCHANGED ignored
      \/ \E c \in Callers : Ignore(c)
  BY DEF Next, Serve, GetConn, FindVessel, MustRead, TryRead, ReadParts,
     DropConn, Begin, ChangeScene, vars
<1>3. QED
  BY <1>1, <1>2 DEF Ignore

(* Every variable keeps its type (cmd/ksp-mcp/server.go, krpc/parts.go):    *)
(* whatever fails, what a tool holds are parts, or zeroes in their place.   *)
THEOREM TypeCorrect == Spec => []TypeOK
<1>1. Init => RInv /\ GInv /\ ignored \subseteq Connections
  BY InitRInv, InitGInv DEF Init
<1>2. RInv /\ GInv /\ ignored \subseteq Connections /\ [Next]_vars
        => (RInv /\ GInv /\ ignored \subseteq Connections)'
  BY NextRInv, NextGInv, IgnoredTyped
<1>3. RInv /\ GInv /\ ignored \subseteq Connections => TypeOK
  BY DEF RInv, GInv, TypeOK
<1>4. QED
  BY <1>1, <1>2, <1>3, PTL DEF Spec

-----------------------------------------------------------------------------
(* The order of firing                                                     *)

(* FiringOrder lists a finite set of stages, each once, from the highest.   *)
LEMMA FiringOrderIsOne ==
  ASSUME NEW stages \in SUBSET Int, IsFiniteSet(stages)
  PROVE  LET order == FiringOrder(stages) IN
         /\ DOMAIN order = 1 .. Cardinality(stages)
         /\ Cardinality(stages) \in Nat
         /\ \A n \in DOMAIN order : order[n] \in stages
         /\ \A s \in stages : \E n \in DOMAIN order : order[n] = s
         /\ \A m, n \in DOMAIN order : m < n => order[n] < order[m]
<1> DEFINE N == Cardinality(stages)
           Above(s) == {t \in stages : t > s}
           rank == [s \in stages |-> Cardinality(Above(s)) + 1]
           order == FiringOrder(stages)
<1>1. N \in Nat
  BY FS_CardinalityType
<1>2. ASSUME NEW s \in stages
      PROVE  /\ Cardinality(Above(s)) \in Nat
             /\ rank[s] \in 1 .. N
  <2>1. /\ IsFiniteSet(Above(s)) /\ Cardinality(Above(s)) <= N
        /\ N = Cardinality(Above(s)) => stages = Above(s)
    BY FS_Subset
  <2>2. s \notin Above(s)
    OBVIOUS
  <2>3. Cardinality(Above(s)) \in Nat
    BY <2>1, FS_CardinalityType
  <2>4. rank[s] = Cardinality(Above(s)) + 1
    OBVIOUS
  <2> HIDE DEF Above, N, rank
  <2>5. QED
    BY <1>1, <2>1, <2>2, <2>3, <2>4
<1>3. ASSUME NEW s \in stages, NEW t \in stages, s < t
      PROVE  rank[t] < rank[s]
  <2>1. Above(t) \subseteq Above(s) /\ t \in Above(s) /\ t \notin Above(t)
    <3>1. \A x \in stages : x \in Int
      OBVIOUS
    <3>2. \A x \in stages : x > t => x > s
      BY <1>3, <3>1
    <3>3. ~(t > t) /\ t > s
      BY <1>3, <3>1
    <3>4. QED
      BY <3>2, <3>3
  <2>2. IsFiniteSet(Above(s))
    BY FS_Subset
  <2>3. rank[s] = Cardinality(Above(s)) + 1 /\ rank[t] = Cardinality(Above(t)) + 1
    OBVIOUS
  <2>4. Cardinality(Above(s)) \in Nat /\ Cardinality(Above(t)) \in Nat
    BY <1>2
  <2> HIDE DEF Above, rank
  <2>5. /\ Cardinality(Above(t)) <= Cardinality(Above(s))
        /\ Cardinality(Above(s)) = Cardinality(Above(t)) => Above(s) = Above(t)
    BY <2>1, <2>2, FS_Subset
  <2>6. QED
    BY <2>1, <2>3, <2>4, <2>5
<1>4. \A s, t \in stages : rank[s] = rank[t] => s = t
  <2>1. SUFFICES ASSUME NEW s \in stages, NEW t \in stages, rank[s] = rank[t]
                 PROVE  s = t
    OBVIOUS
  <2>2. rank[s] \in Int
    BY <1>2
  <2> HIDE DEF rank
  <2>3. s < t \/ t < s \/ s = t
    OBVIOUS
  <2>4. QED
    BY <1>3, <2>1, <2>2, <2>3
<1>5. rank \in Injection(stages, 1 .. N)
  <2>1. rank \in [stages -> 1 .. N]
    BY <1>2
  <2> HIDE DEF rank
  <2>2. QED
    BY <1>4, <2>1 DEF Injection, IsInjective
<1>6. \A n \in 1 .. N : \E s \in stages : rank[s] = n
  <2>1. IsFiniteSet(1 .. N) /\ Cardinality(1 .. N) = N
    <3> HIDE DEF N
    <3>1. /\ IsFiniteSet(1 .. N)
          /\ Cardinality(1 .. N) = IF 1 > N THEN 0 ELSE N - 1 + 1
      BY <1>1, FS_Interval
    <3>2. QED
      BY <1>1, <3>1
  <2> HIDE DEF rank
  <2>2. rank \in Surjection(stages, 1 .. N)
    BY <1>5, <2>1, FS_Injection
  <2>3. QED
    BY <2>2 DEF Surjection
<1>7. ASSUME NEW n \in 1 .. N
      PROVE  order[n] \in stages /\ rank[order[n]] = n
  <2>1. order[n] = CHOOSE s \in stages : Cardinality(Above(s)) = n - 1
    BY DEF FiringOrder
  <2>2. PICK s \in stages : rank[s] = n
    BY <1>6
  <2>3. rank[s] = Cardinality(Above(s)) + 1 /\ Cardinality(Above(s)) \in Nat
    BY <1>2
  <2>4. \E t \in stages : Cardinality(Above(t)) = n - 1
    <3> HIDE DEF rank, Above
    <3>1. Cardinality(Above(s)) = n - 1
      BY <1>1, <2>2, <2>3
    <3>2. QED
      BY <3>1
  <2>5. order[n] \in stages /\ Cardinality(Above(order[n])) = n - 1
    BY <2>1, <2>4
  <2>6. QED
    BY <2>5
<1>8. DOMAIN order = 1 .. N
  BY DEF FiringOrder
<1>9. \A s \in stages : \E n \in 1 .. N : order[n] = s
  <2> SUFFICES ASSUME NEW s \in stages
               PROVE  \E n \in 1 .. N : order[n] = s
    OBVIOUS
  <2>1. rank[s] \in 1 .. N
    BY <1>2
  <2> HIDE DEF rank, order
  <2>2. QED
    BY <1>4, <1>7, <2>1
<1>10. ASSUME NEW m \in 1 .. N, NEW n \in 1 .. N, m < n
       PROVE  order[n] < order[m]
  <2> HIDE DEF rank, order, N
  <2>1. order[m] \in Int /\ order[n] \in Int /\ m \in Int /\ n \in Int
    <3>1. \A x \in stages : x \in Int
      OBVIOUS
    <3>2. order[m] \in stages /\ order[n] \in stages
      BY <1>7
    <3>3. \A k \in Nat : \A x \in 1 .. k : x \in Int
      OBVIOUS
    <3>4. m \in Int /\ n \in Int
      BY <1>1, <3>3
    <3>5. QED
      BY <3>1, <3>2, <3>4
  <2>2. order[m] # order[n]
    BY <1>7, <1>10
  <2>3. ~(order[m] < order[n])
    BY <1>3, <1>7, <1>10, <2>1
  <2>4. QED
    BY <2>1, <2>2, <2>3
<1> HIDE DEF order, rank
<1>11. QED
  BY <1>1, <1>7, <1>8, <1>9, <1>10 DEF order

LEMMA AllNumbers ==
  ASSUME NEW S, \A part \in S : part.stage \in Int, NEW s \in Seq(S)
  PROVE  \A i \in DOMAIN s : s[i].stage \in Int
<1>1. \A i \in DOMAIN s : s[i] \in S
  OBVIOUS
<1>2. QED
  BY <1>1

LEMMA StagesAreNumbers ==
  /\ \A part \in PartOf.engines : part.stage \in Int
  /\ \A part \in PartOf.decouplers : part.stage \in Int
  /\ \A part \in PartOf.chutes : part.stage \in Int
<1>1. \A part \in PartOf.engines : part.stage \in Int
  BY DEF PartOf, Staging
<1>2. \A part \in PartOf.decouplers : part.stage \in Int
  BY DEF PartOf, Staging
<1>3. \A part \in PartOf.chutes : part.stage \in Int
  <2>1. \A S : \A part \in [stage: Staging, deployed: BOOLEAN, state: S] :
          part.stage \in Int
    BY DEF Staging
  <2>2. PartOf.chutes
          = [stage: Staging, deployed: BOOLEAN, state: ChuteStates \cup {""}]
    BY DEF PartOf
  <2>3. QED
    BY <2>1, <2>2
<1>4. QED
  BY <1>1, <1>2, <1>3

(* Of parts with a stage each, the stages are finitely many.                *)
LEMMA FinitelyMany ==
  ASSUME NEW S, NEW s \in Seq(S)
  PROVE  IsFiniteSet({s[i].stage : i \in DOMAIN s})
<1> DEFINE stages == {s[i].stage : i \in DOMAIN s}
           f == [i \in DOMAIN s |-> s[i].stage]
<1>1. Len(s) \in Nat /\ DOMAIN s = 1 .. Len(s)
  OBVIOUS
<1>2. IsFiniteSet(DOMAIN s)
  BY <1>1, FS_Interval
<1>3. f \in Surjection(DOMAIN s, stages)
  BY DEF Surjection
<1>4. QED
  BY <1>2, <1>3, FS_Surjection

(* Of the plan: the parts told at stage x, and at -1 those not staged.      *)
Fires(engines, decouplers, chutes, x) ==
  ({"engine"} \X In(engines, {x})) \cup ({"decoupler"} \X In(decouplers, {x}))
    \cup ({"parachute"} \X In(chutes, {x}))

LEMMA FiresAtItsStage ==
  ASSUME NEW engines, NEW decouplers, NEW chutes, NEW x
  PROVE  LET fires == Fires(engines, decouplers, chutes, x) IN
         /\ \A i \in DOMAIN engines :
              <<"engine", i>> \in fires <=> engines[i].stage = x
         /\ \A i \in DOMAIN decouplers :
              <<"decoupler", i>> \in fires <=> decouplers[i].stage = x
         /\ \A i \in DOMAIN chutes :
              <<"parachute", i>> \in fires <=> chutes[i].stage = x
BY DEF Fires, In

(* The plan is the stages that activate anything, from the highest, each    *)
(* with what it fires; and what is not staged.                              *)
LEMMA PlanIsStages ==
  ASSUME NEW engines \in Seq(PartOf.engines),
         NEW decouplers \in Seq(PartOf.decouplers),
         NEW chutes \in Seq(PartOf.chutes)
  PROVE  LET steps  == StagingSteps(engines, decouplers, chutes)
             Of(s)  == {s[i].stage : i \in DOMAIN s}
             stages == (Of(engines) \cup Of(decouplers) \cup Of(chutes)) \ {-1}
             told   == {steps[n].parts : n \in DOMAIN steps}
                         \cup {NotStaged(engines, decouplers, chutes)}
         IN /\ \A n \in 2 .. Len(steps) : steps[n].stage < steps[n - 1].stage
            /\ told = {Fires(engines, decouplers, chutes, x) :
                         x \in stages \cup {-1}}
<1> DEFINE steps  == StagingSteps(engines, decouplers, chutes)
           Of(s)  == {s[i].stage : i \in DOMAIN s}
           stages == (Of(engines) \cup Of(decouplers) \cup Of(chutes)) \ {-1}
           told   == {steps[n].parts : n \in DOMAIN steps}
                       \cup {NotStaged(engines, decouplers, chutes)}
           order  == FiringOrder(stages)
           fires(x) == Fires(engines, decouplers, chutes, x)
<1>1. stages \in SUBSET Int
  <2>1. \A i \in DOMAIN engines : engines[i].stage \in Int
    BY AllNumbers, StagesAreNumbers
  <2>2. \A i \in DOMAIN decouplers : decouplers[i].stage \in Int
    BY AllNumbers, StagesAreNumbers
  <2>3. \A i \in DOMAIN chutes : chutes[i].stage \in Int
    BY AllNumbers, StagesAreNumbers
  <2>4. QED
    BY <2>1, <2>2, <2>3
<1>2. IsFiniteSet(stages)
  <2>1. /\ IsFiniteSet(Of(engines)) /\ IsFiniteSet(Of(decouplers))
        /\ IsFiniteSet(Of(chutes))
    BY FinitelyMany
  <2> HIDE DEF Of
  <2>2. IsFiniteSet(Of(engines) \cup Of(decouplers) \cup Of(chutes))
    BY <2>1, FS_Union
  <2>3. QED
    BY <2>2, FS_Difference
<1> HIDE DEF stages
<1>3. steps = [n \in DOMAIN order |-> [stage |-> order[n], parts |-> fires(order[n])]]
  BY DEF StagingSteps, stages, Fires
<1>4. NotStaged(engines, decouplers, chutes) = fires(-1)
  BY DEF NotStaged, Fires
<1>5. /\ DOMAIN order = 1 .. Cardinality(stages) /\ Cardinality(stages) \in Nat
      /\ \A n \in DOMAIN order : order[n] \in stages
      /\ \A s \in stages : \E n \in DOMAIN order : order[n] = s
      /\ \A m, n \in DOMAIN order : m < n => order[n] < order[m]
  BY <1>1, <1>2, FiringOrderIsOne
<1> HIDE DEF steps, order, fires
<1>6. DOMAIN steps = 1 .. Cardinality(stages) /\ Len(steps) = Cardinality(stages)
  <2>1. \A f, n : n \in Nat /\ DOMAIN f = 1 .. n => Len(f) = n
    OBVIOUS
  <2>2. QED
    BY <1>3, <1>5, <2>1
<1>7. \A n \in DOMAIN order : /\ steps[n].stage = order[n]
                              /\ steps[n].parts = fires(order[n])
  BY <1>3
<1>8. ASSUME NEW n \in 2 .. Len(steps)
      PROVE  steps[n].stage < steps[n - 1].stage
  <2>1. n \in DOMAIN order /\ n - 1 \in DOMAIN order /\ n - 1 < n
    BY <1>5, <1>6
  <2>2. QED
    BY <1>5, <1>7, <2>1
<1>9. told = {fires(x) : x \in stages \cup {-1}}
  BY <1>3, <1>4, <1>5, <1>7
<1>10. QED
  BY <1>8, <1>9 DEF steps, stages, fires

(* Every part the plan is made from is told once.                           *)
LEMMA ToldOnce ==
  ASSUME NEW engines \in Seq(PartOf.engines),
         NEW decouplers \in Seq(PartOf.decouplers),
         NEW chutes \in Seq(PartOf.chutes)
  PROVE  LET steps == StagingSteps(engines, decouplers, chutes)
             told  == {steps[n].parts : n \in DOMAIN steps}
                        \cup {NotStaged(engines, decouplers, chutes)}
             Once(part) == Cardinality({p \in told : part \in p}) = 1
         IN /\ \A i \in DOMAIN engines : Once(<<"engine", i>>)
            /\ \A i \in DOMAIN decouplers : Once(<<"decoupler", i>>)
            /\ \A i \in DOMAIN chutes : Once(<<"parachute", i>>)
<1> DEFINE steps  == StagingSteps(engines, decouplers, chutes)
           Of(s)  == {s[i].stage : i \in DOMAIN s}
           stages == (Of(engines) \cup Of(decouplers) \cup Of(chutes)) \ {-1}
           told   == {steps[n].parts : n \in DOMAIN steps}
                       \cup {NotStaged(engines, decouplers, chutes)}
           fires(x) == Fires(engines, decouplers, chutes, x)
           Once(part) == Cardinality({p \in told : part \in p}) = 1
<1>1. told = {fires(x) : x \in stages \cup {-1}}
  BY PlanIsStages
<1>2. /\ \A i \in DOMAIN engines : engines[i].stage \in stages \cup {-1}
      /\ \A i \in DOMAIN decouplers : decouplers[i].stage \in stages \cup {-1}
      /\ \A i \in DOMAIN chutes : chutes[i].stage \in stages \cup {-1}
  OBVIOUS
<1> HIDE DEF stages, told, fires
<1>3. ASSUME NEW part, NEW y \in stages \cup {-1},
             \A x : part \in fires(x) <=> y = x
      PROVE  Once(part)
  <2>1. {p \in told : part \in p} = {fires(y)}
    BY <1>1, <1>3
  <2>2. QED
    BY <2>1, FS_Singleton
<1>4. \A i \in DOMAIN engines : Once(<<"engine", i>>)
  <2> SUFFICES ASSUME NEW i \in DOMAIN engines
               PROVE  Once(<<"engine", i>>)
    OBVIOUS
  <2>1. \A x : <<"engine", i>> \in fires(x) <=> engines[i].stage = x
    BY FiresAtItsStage DEF fires
  <2> HIDE DEF Once
  <2>2. QED
    BY <1>2, <1>3, <2>1
<1>5. \A i \in DOMAIN decouplers : Once(<<"decoupler", i>>)
  <2> SUFFICES ASSUME NEW i \in DOMAIN decouplers
               PROVE  Once(<<"decoupler", i>>)
    OBVIOUS
  <2>1. \A x : <<"decoupler", i>> \in fires(x) <=> decouplers[i].stage = x
    BY FiresAtItsStage DEF fires
  <2> HIDE DEF Once
  <2>2. QED
    BY <1>2, <1>3, <2>1
<1>6. \A i \in DOMAIN chutes : Once(<<"parachute", i>>)
  <2> SUFFICES ASSUME NEW i \in DOMAIN chutes
               PROVE  Once(<<"parachute", i>>)
    OBVIOUS
  <2>1. \A x : <<"parachute", i>> \in fires(x) <=> chutes[i].stage = x
    BY FiresAtItsStage DEF fires
  <2> HIDE DEF Once
  <2>2. QED
    BY <1>2, <1>3, <2>1
<1>7. QED
  BY <1>4, <1>5, <1>6 DEF told

-----------------------------------------------------------------------------
(* The staging plan                                                        *)

Asks(s, r) == \E m \in 1 .. Len(s) : s[m].read = r
Stops(s)   == \E m \in 1 .. Len(s) : s[m].policy = "ends"

LEMMA OneAsks ==
  /\ \A r : Asks(Try(r), r) /\ ~Stops(Try(r))
  /\ \A r : Asks(Must(r), r) /\ ~Stops(Must(r))
<1>1. ASSUME NEW r, NEW p
      PROVE  /\ Asks(<<[read |-> r, policy |-> p]>>, r)
             /\ p # "ends" => ~Stops(<<[read |-> r, policy |-> p]>>)
  <2> DEFINE s == <<[read |-> r, policy |-> p]>>
  <2>1. Len(s) = 1 /\ s[1].read = r /\ s[1].policy = p
    OBVIOUS
  <2> HIDE DEF s
  <2>2. Asks(s, r) /\ (p # "ends" => ~Stops(s))
    BY <2>1 DEF Asks, Stops
  <2>3. QED
    BY <2>2 DEF s
<1>2. QED
  BY <1>1 DEF Try, Must

LEMMA BothAsk ==
  ASSUME NEW s, NEW t, IsScript(s), IsScript(t)
  PROVE  /\ \A r : Asks(s, r) \/ Asks(t, r) => Asks(s \o t, r)
         /\ Stops(s \o t) => Stops(s) \/ Stops(t)
<1> PICK S : s \in Seq(S)
  BY DEF IsScript
<1> PICK T : t \in Seq(T)
  BY DEF IsScript
<1>1. s \in Seq(S \cup T) /\ t \in Seq(S \cup T)
  OBVIOUS
<1>2. /\ Len(s) \in Nat /\ Len(t) \in Nat /\ Len(s \o t) = Len(s) + Len(t)
      /\ \A m \in 1 .. Len(s) : (s \o t)[m] = s[m]
      /\ \A m \in 1 .. Len(t) : (s \o t)[Len(s) + m] = t[m]
  BY <1>1
<1>3. ASSUME NEW r, Asks(s, r) \/ Asks(t, r)
      PROVE  Asks(s \o t, r)
  <2>1. CASE Asks(s, r)
    <3>1. PICK m \in 1 .. Len(s) : s[m].read = r
      BY <2>1 DEF Asks
    <3>2. m \in 1 .. Len(s \o t) /\ (s \o t)[m].read = r
      BY <1>2, <3>1
    <3>3. QED
      BY <3>2 DEF Asks
  <2>2. CASE Asks(t, r)
    <3>1. PICK m \in 1 .. Len(t) : t[m].read = r
      BY <2>2 DEF Asks
    <3>2. Len(s) + m \in 1 .. Len(s \o t) /\ (s \o t)[Len(s) + m].read = r
      BY <1>2, <3>1
    <3>3. QED
      BY <3>2 DEF Asks
  <2>3. QED
    BY <1>3, <2>1, <2>2
<1>4. ASSUME Stops(s \o t)
      PROVE  Stops(s) \/ Stops(t)
  <2>1. PICK m \in 1 .. Len(s) + Len(t) : (s \o t)[m].policy = "ends"
    BY <1>2, <1>4 DEF Stops
  <2>2. CASE m <= Len(s)
    BY <1>2, <2>1, <2>2 DEF Stops
  <2>3. CASE m > Len(s)
    <3>1. m - Len(s) \in 1 .. Len(t) /\ Len(s) + (m - Len(s)) = m
      BY <1>2, <2>1, <2>3
    <3>2. t[m - Len(s)].policy = "ends"
      BY <1>2, <2>1, <3>1
    <3>3. QED
      BY <3>1, <3>2 DEF Stops
  <2>4. QED
    BY <1>2, <2>1, <2>2, <2>3
<1>5. QED
  BY <1>3, <1>4

LEMMA PlanAsks ==
  /\ Asks(Script("staging_plan"), "chutes")
  /\ Asks(Script("staging_plan"), "engines")
  /\ Asks(Script("staging_plan"), "decouplers")
  /\ ~Stops(Script("staging_plan"))
<1>1. IsScript(ResolveVessel) /\ ~Stops(ResolveVessel)
  BY CommonScripts, OneAsks, OneRead, BothAsk DEF ResolveVessel
<1> DEFINE s == PartsSnapshotFor
<1>2. Asks(s, "chutes") /\ Asks(s, "engines") /\ Asks(s, "decouplers")
  BY OneAsks, OneRead, ReadsFollow, BothAsk DEF PartsSnapshotFor
<1>3. IsScript(s) /\ ~Stops(s)
  BY CommonScripts, OneAsks, OneRead, ReadsFollow, BothAsk DEF PartsSnapshotFor
<1> HIDE DEF s
<1>4. Script("staging_plan") = ResolveVessel \o s
  BY DEF Script, StagingPlan, s
<1>5. /\ \A r : Asks(s, r) => Asks(ResolveVessel \o s, r)
      /\ ~Stops(ResolveVessel \o s)
  BY <1>1, <1>3, BothAsk
<1>6. QED
  BY <1>2, <1>4, <1>5

(* The tool whose script asks for a category, and stops nowhere, has it.    *)
LEMMA HasAll ==
  ASSUME GInv, answer.kind = "data", ~Stops(Script(answer.tool)),
         NEW category \in Categories, Asks(Script(answer.tool), category)
  PROVE  /\ Whole(craft, answer.says, category)
         /\ Exact(craft, answer.says, category)
<1>1. HasRead(craft, answer.says, Len(Script(answer.tool)))
      /\ answer.says.tool = answer.tool
  BY DEF GInv, Told, Ended, Stops
<1>2. PICK m \in 1 .. Len(Script(answer.tool)) :
        Script(answer.tool)[m].read = category
  BY DEF Asks
<1>3. QED
  BY <1>1, <1>2 DEF HasRead

(* The staging plan tells every part that was read once, in the order of    *)
(* firing, and the parts of the craft unless it says that a category is     *)
(* incomplete (preflight.go:208-245, 359-381; krpc/parts.go:67-179).        *)
THEOREM PlanIsComplete == Spec => []StagingComplete
<1>1. GInv => StagingComplete
  <2> SUFFICES ASSUME GInv, Said("staging_plan")
               PROVE  StagingComplete
    BY DEF StagingComplete
  <2> DEFINE s == answer.says.seen
             E == s.engines
             D == s.decouplers
             C == s.chutes
             steps == StagingSteps(E, D, C)
             told  == {steps[n].parts : n \in DOMAIN steps}
                        \cup {NotStaged(E, D, C)}
             parts == [engine |-> "engines", decoupler |-> "decouplers",
                       parachute |-> "chutes"]
             Once(part) == Cardinality({p \in told : part \in p}) = 1
  <2>1. answer.kind = "data" /\ answer.tool = "staging_plan"
    BY DEF Said
  <2>2. Sees(s)
    BY <2>1 DEF GInv, Told, CallOK
  <2>3. /\ E \in Seq(PartOf.engines) /\ D \in Seq(PartOf.decouplers)
        /\ C \in Seq(PartOf.chutes)
    <3> HIDE DEF s
    <3>1. /\ s["engines"] \in Seq(PartOf["engines"])
          /\ s["decouplers"] \in Seq(PartOf["decouplers"])
          /\ s["chutes"] \in Seq(PartOf["chutes"])
      BY <2>2 DEF Sees, Categories
    <3>2. QED
      BY <3>1
  <2>4. \A category \in {"engines", "decouplers", "chutes"} :
          Whole(craft, answer.says, category)
    BY <2>1, PlanAsks, HasAll DEF Categories
  <2> HIDE DEF s
  <2>5. /\ \A i \in DOMAIN E : Once(<<"engine", i>>)
        /\ \A i \in DOMAIN D : Once(<<"decoupler", i>>)
        /\ \A i \in DOMAIN C : Once(<<"parachute", i>>)
    BY <2>3, ToldOnce
  <2>6. \A n \in 2 .. Len(steps) : steps[n].stage < steps[n - 1].stage
    BY <2>3, PlanIsStages
  <2> HIDE DEF Once, steps
  <2>7. ASSUME NEW kind \in {"engine", "decoupler", "parachute"},
               parts[kind] \notin answer.says.short,
               NEW i \in DOMAIN craft[parts[kind]]
        PROVE  Once(<<kind, i>>)
    <3>1. parts[kind] \in {"engines", "decouplers", "chutes"}
      OBVIOUS
    <3>2. DOMAIN s[parts[kind]] = DOMAIN craft[parts[kind]]
      BY <2>4, <2>7, <3>1 DEF Whole, s
    <3>3. QED
      BY <2>5, <2>7, <3>2
  <2>8. DOMAIN parts = {"engine", "decoupler", "parachute"}
    OBVIOUS
  <2> HIDE DEF parts
  <2>9. \A kind \in DOMAIN parts :
          parts[kind] \notin answer.says.short =>
            \A i \in DOMAIN craft[parts[kind]] : Once(<<kind, i>>)
    BY <2>7, <2>8
  <2>10. QED
    BY <2>6, <2>9 DEF StagingComplete, s, steps, parts, Once
<1>2. QED
  BY <1>1, InitGInv, NextGInv, PTL DEF Spec
-----------------------------------------------------------------------------
(* Sums: induction over a finite set, by a smallest counterexample          *)

(* A family of subsets of a finite set has a smallest member.               *)
LEMMA SmallestIs ==
  ASSUME NEW S, IsFiniteSet(S), NEW Bad \in SUBSET SUBSET S, Bad # {}
  PROVE  \E T \in Bad : \A U \in Bad : U \subseteq T => U = T
<1>1. IsWellFoundedOn(StrictSubsetOrdering(S), SUBSET S)
  BY FS_StrictSubsetOrderingWellFounded, FS_FiniteSubsetsOfFinite
<1>2. \E T \in Bad : \A U \in Bad : <<U, T>> \notin StrictSubsetOrdering(S)
  BY <1>1, WFMin, Zenon
<1>3. QED
  BY <1>2 DEF StrictSubsetOrdering

(* g adds up F over every subset of S.                                      *)
Pick(s) == CHOOSE x \in s : TRUE
Adds(F, S, g) ==
  g = [s \in SUBSET S |-> IF s = {} THEN 0 ELSE F[Pick(s)] + g[s \ {Pick(s)}]]
Adder(F, S) == CHOOSE g : Adds(F, S, g)

LEMMA SumIs == \A F, S : SumFunctionOnSet(F, S) = Adder(F, S)[S]
BY DEF SumFunctionOnSet, FoldFunctionOnSet, MapThenFoldSet, Adder, Adds, Pick

LEMMA PickIs == \A s : s # {} => Pick(s) \in s
BY DEF Pick

LEMMA AddsUnique ==
  ASSUME NEW S, IsFiniteSet(S), NEW F, NEW g, NEW h, NEW T \in SUBSET S,
         Adds(F, S, g), Adds(F, T, h)
  PROVE  \A s \in SUBSET T : g[s] = h[s]
<1> DEFINE Bad == {s \in SUBSET T : g[s] # h[s]}
<1>1. SUFFICES ASSUME Bad # {} PROVE FALSE
  OBVIOUS
<1>2. PICK s \in Bad : \A u \in Bad : u \subseteq s => u = s
  <2>1. IsFiniteSet(T)
    BY FS_Subset
  <2>2. Bad \in SUBSET SUBSET T
    OBVIOUS
  <2> HIDE DEF Bad
  <2>3. QED
    BY <1>1, <2>1, <2>2, SmallestIs
<1>3. /\ g[s] = IF s = {} THEN 0 ELSE F[Pick(s)] + g[s \ {Pick(s)}]
      /\ h[s] = IF s = {} THEN 0 ELSE F[Pick(s)] + h[s \ {Pick(s)}]
  BY DEF Adds
<1>4. s # {} /\ Pick(s) \in s
  BY <1>2, <1>3, PickIs
<1>5. s \ {Pick(s)} \notin Bad
  BY <1>2, <1>4
<1>6. QED
  BY <1>2, <1>3, <1>4, <1>5

LEMMA AdderAdds ==
  ASSUME NEW S, IsFiniteSet(S), NEW F
  PROVE  Adds(F, S, Adder(F, S))
<1> DEFINE Bad == {T \in SUBSET S : ~\E g : Adds(F, T, g)}
<1>1. SUFFICES ASSUME Bad # {} PROVE FALSE
  <2>1. (\E g : Adds(F, S, g)) => Adds(F, S, Adder(F, S))
    BY DEF Adder
  <2>2. Bad = {} => \E g : Adds(F, S, g)
    OBVIOUS
  <2>3. QED
    BY <2>1, <2>2
<1>2. PICK T \in Bad : \A U \in Bad : U \subseteq T => U = T
  <2>1. Bad \in SUBSET SUBSET S
    OBVIOUS
  <2> HIDE DEF Bad
  <2>2. QED
    BY <1>1, <2>1, SmallestIs
<1> DEFINE val(s) == Adder(F, s)[s]
           g == [s \in SUBSET T |-> IF s = {} THEN 0
                                     ELSE F[Pick(s)] + val(s \ {Pick(s)})]
<1>3. \A u \in SUBSET T : u # T => Adds(F, u, Adder(F, u))
  <2> SUFFICES ASSUME NEW u \in SUBSET T, u # T
               PROVE  Adds(F, u, Adder(F, u))
    OBVIOUS
  <2>1. \E k : Adds(F, u, k)
    BY <1>2
  <2>2. QED
    BY <2>1 DEF Adder
<1>4. ASSUME NEW u \in SUBSET T, u # T
      PROVE  val(u) = g[u]
  <2> DEFINE h == Adder(F, u)
             q == Pick(u)
  <2>1. Adds(F, u, h)
    BY <1>3, <1>4
  <2>2. h[u] = IF u = {} THEN 0 ELSE F[q] + h[u \ {q}]
    BY <2>1 DEF Adds
  <2>3. CASE u = {}
    BY <2>2, <2>3
  <2>4. CASE u # {}
    <3>1. u \ {q} \in SUBSET u /\ u \ {q} \in SUBSET T /\ u \ {q} # T
      BY <1>4, <2>4, PickIs
    <3>2. Adds(F, u \ {q}, Adder(F, u \ {q}))
      BY <1>3, <3>1
    <3>3. IsFiniteSet(u)
      BY FS_Subset, <1>4
    <3> HIDE DEF h, q
    <3>4. h[u \ {q}] = val(u \ {q})
      BY <2>1, <3>1, <3>2, <3>3, AddsUnique
    <3>5. QED
      BY <2>2, <2>4, <3>4 DEF h, q
  <2>5. QED
    BY <2>3, <2>4
<1>5. ASSUME NEW s \in SUBSET T
      PROVE  g[s] = IF s = {} THEN 0 ELSE F[Pick(s)] + g[s \ {Pick(s)}]
  <2>1. CASE s # {}
    <3>1. s \ {Pick(s)} \in SUBSET T /\ s \ {Pick(s)} # T
      BY <2>1, PickIs
    <3>2. val(s \ {Pick(s)}) = g[s \ {Pick(s)}]
      BY <1>4, <3>1
    <3>3. g[s] = F[Pick(s)] + val(s \ {Pick(s)})
      BY <2>1
    <3>4. QED
      BY <2>1, <3>2, <3>3
  <2>2. QED
    BY <2>1
<1>6. DOMAIN g = SUBSET T /\ g = [s \in DOMAIN g |-> g[s]]
  OBVIOUS
<1> HIDE DEF g
<1>7. Adds(F, T, g)
  BY <1>5, <1>6 DEF Adds
<1>8. QED
  BY <1>2, <1>7

LEMMA SumEmpty == \A F : SumFunctionOnSet(F, {}) = 0
<1> SUFFICES ASSUME NEW F PROVE SumFunctionOnSet(F, {}) = 0
  OBVIOUS
<1>1. Adds(F, {}, Adder(F, {}))
  BY AdderAdds, FS_EmptySet
<1> DEFINE g == Adder(F, {})
<1> HIDE DEF g
<1>2. g[{}] = 0
  BY <1>1 DEF Adds, g
<1>3. QED
  BY <1>2, SumIs DEF g

LEMMA SumPick ==
  ASSUME NEW F, NEW S, IsFiniteSet(S), S # {}
  PROVE  SumFunctionOnSet(F, S)
           = F[Pick(S)] + SumFunctionOnSet(F, S \ {Pick(S)})
<1> DEFINE g == Adder(F, S)
           T == S \ {Pick(S)}
           h == Adder(F, T)
<1>1. Adds(F, S, g) /\ Adds(F, T, h)
  BY AdderAdds, FS_Subset
<1>2. SumFunctionOnSet(F, S) = g[S] /\ SumFunctionOnSet(F, T) = h[T]
  BY SumIs
<1> HIDE DEF g, h, T
<1>3. T \in SUBSET S
  BY DEF T
<1>4. g[T] = h[T]
  BY <1>1, <1>3, AddsUnique
<1>5. g[S] = IF S = {} THEN 0 ELSE F[Pick(S)] + g[S \ {Pick(S)}]
  BY <1>1 DEF Adds
<1>6. g[S] = F[Pick(S)] + g[T]
  BY <1>5 DEF T
<1>7. QED
  BY <1>2, <1>4, <1>6 DEF T

LEMMA SumInt ==
  ASSUME NEW S, IsFiniteSet(S), NEW F, \A i \in S : F[i] \in Int
  PROVE  SumFunctionOnSet(F, S) \in Int
<1> DEFINE Bad == {T \in SUBSET S : SumFunctionOnSet(F, T) \notin Int}
<1>1. SUFFICES ASSUME Bad # {} PROVE FALSE
  OBVIOUS
<1>2. PICK T \in Bad : \A U \in Bad : U \subseteq T => U = T
  <2>1. Bad \in SUBSET SUBSET S
    OBVIOUS
  <2> HIDE DEF Bad
  <2>2. QED
    BY <1>1, <2>1, SmallestIs
<1>3. T # {}
  BY SumEmpty
<1>4. SumFunctionOnSet(F, T) = F[Pick(T)] + SumFunctionOnSet(F, T \ {Pick(T)})
  BY <1>3, SumPick, FS_Subset
<1>5. Pick(T) \in T /\ T \ {Pick(T)} \notin Bad
  BY <1>2, <1>3, PickIs
<1>6. SumFunctionOnSet(F, T \ {Pick(T)}) \in Int /\ F[Pick(T)] \in Int
  BY <1>5
<1>7. QED
  BY <1>4, <1>6

(* In whatever order it is added up, a sum is the same.                     *)
LEMMA SumAny ==
  ASSUME NEW S, IsFiniteSet(S), NEW F, \A i \in S : F[i] \in Int
  PROVE  \A x \in S :
           SumFunctionOnSet(F, S) = F[x] + SumFunctionOnSet(F, S \ {x})
<1> DEFINE Sum(T) == SumFunctionOnSet(F, T)
           Bad == {T \in SUBSET S : \E x \in T : Sum(T) # F[x] + Sum(T \ {x})}
<1>1. SUFFICES ASSUME Bad # {} PROVE FALSE
  <2>1. S \notin Bad => \A x \in S : Sum(S) = F[x] + Sum(S \ {x})
    OBVIOUS
  <2> HIDE DEF Sum
  <2>2. QED
    BY <2>1 DEF Sum
<1>2. PICK T \in Bad : \A U \in Bad : U \subseteq T => U = T
  <2>1. Bad \in SUBSET SUBSET S
    OBVIOUS
  <2> HIDE DEF Bad
  <2>2. QED
    BY <1>1, <2>1, SmallestIs
<1>3. PICK x \in T : Sum(T) # F[x] + Sum(T \ {x})
  OBVIOUS
<1> DEFINE y == Pick(T)
<1>4. T # {} /\ y \in T
  BY <1>3, PickIs
<1>5. Sum(T) = F[y] + Sum(T \ {y})
  BY <1>4, SumPick, FS_Subset
<1>6. x # y
  BY <1>3, <1>5
<1>7. T \ {x} \notin Bad /\ T \ {y} \notin Bad
  BY <1>2, <1>4
<1>8. y \in T \ {x} /\ x \in T \ {y}
  BY <1>4, <1>6
<1>9. /\ Sum(T \ {y}) = F[x] + Sum((T \ {y}) \ {x})
      /\ Sum(T \ {x}) = F[y] + Sum((T \ {x}) \ {y})
  BY <1>7, <1>8
<1>10. (T \ {y}) \ {x} = (T \ {x}) \ {y}
  OBVIOUS
<1>11. F[x] \in Int /\ F[y] \in Int /\ Sum((T \ {x}) \ {y}) \in Int
  <2>1. IsFiniteSet((T \ {x}) \ {y})
    BY FS_Subset
  <2>2. QED
    BY <1>4, <2>1, SumInt
<1>12. Sum((T \ {y}) \ {x}) = Sum((T \ {x}) \ {y})
  BY <1>10
<1>13. \A a, b, c \in Int : a + (b + c) = b + (a + c)
  OBVIOUS
<1> HIDE DEF Sum, Bad, y
<1>14. F[y] + (F[x] + Sum((T \ {x}) \ {y}))
         = F[x] + (F[y] + Sum((T \ {x}) \ {y}))
  BY <1>11, <1>13
<1>15. QED
  BY <1>3, <1>5, <1>9, <1>12, <1>14

(* What F counts of the members of B besides G, H counts.                   *)
LEMMA SumSplit ==
  ASSUME NEW S, IsFiniteSet(S), NEW B \in SUBSET S, NEW F, NEW G, NEW H,
         \A i \in S : G[i] \in Int, \A i \in B : H[i] \in Int,
         \A i \in S : F[i] = G[i] + (IF i \in B THEN H[i] ELSE 0)
  PROVE  SumFunctionOnSet(F, S)
           = SumFunctionOnSet(G, S) + SumFunctionOnSet(H, B)
<1> DEFINE Sum(f, T) == SumFunctionOnSet(f, T)
           Bad == {T \in SUBSET S : Sum(F, T) # Sum(G, T) + Sum(H, T \cap B)}
<1>1. SUFFICES ASSUME Bad # {} PROVE FALSE
  <2>1. S \notin Bad => Sum(F, S) = Sum(G, S) + Sum(H, S \cap B)
    OBVIOUS
  <2>2. S \cap B = B
    OBVIOUS
  <2> HIDE DEF Sum
  <2>3. QED
    BY <2>1, <2>2 DEF Sum
<1>2. PICK T \in Bad : \A U \in Bad : U \subseteq T => U = T
  <2>1. Bad \in SUBSET SUBSET S
    OBVIOUS
  <2> HIDE DEF Bad
  <2>2. QED
    BY <1>1, <2>1, SmallestIs
<1>3. \A f : Sum(f, {}) = 0
  BY SumEmpty
<1>4. T # {}
  <2> SUFFICES ASSUME T = {} PROVE FALSE
    OBVIOUS
  <2>1. Sum(F, T) = 0 /\ Sum(G, T) = 0 /\ Sum(H, T \cap B) = 0
    <3>1. T \cap B = {}
      OBVIOUS
    <3> HIDE DEF Sum
    <3>2. QED
      BY <1>3, <3>1
  <2> HIDE DEF Sum
  <2>2. QED
    BY <1>2, <2>1
<1>5. PICK x : x \in T
  BY <1>4
<1> DEFINE U == T \ {x}
<1>6. Sum(F, U) = Sum(G, U) + Sum(H, U \cap B)
  <2>1. U \notin Bad
    BY <1>2, <1>5
  <2> HIDE DEF Sum
  <2>2. QED
    BY <2>1
<1>7. /\ IsFiniteSet(T) /\ IsFiniteSet(U)
      /\ IsFiniteSet(T \cap B) /\ IsFiniteSet(U \cap B)
  BY FS_Subset
<1>8. \A i \in S : F[i] \in Int
  OBVIOUS
<1>9. Sum(F, T) = F[x] + Sum(F, U) /\ Sum(G, T) = G[x] + Sum(G, U)
  BY <1>5, <1>7, <1>8, SumAny
<1>10. CASE x \in B
  <2>1. Sum(H, T \cap B) = H[x] + Sum(H, (T \cap B) \ {x})
    <3>1. x \in T \cap B /\ \A i \in T \cap B : H[i] \in Int
      BY <1>5, <1>10
    <3>2. QED
      BY <1>7, <3>1, SumAny
  <2>2. (T \cap B) \ {x} = U \cap B
    OBVIOUS
  <2>3. F[x] = G[x] + H[x] /\ G[x] \in Int /\ H[x] \in Int
    BY <1>5, <1>10
  <2>4. Sum(G, U) \in Int /\ Sum(H, U \cap B) \in Int
    BY <1>7, SumInt
  <2>5. Sum(F, T) # Sum(G, T) + Sum(H, T \cap B)
    OBVIOUS
  <2>6. Sum(H, (T \cap B) \ {x}) = Sum(H, U \cap B)
    BY <2>2
  <2>7. \A a, b, c, d \in Int : (a + b) + (c + d) = (a + c) + (b + d)
    OBVIOUS
  <2>8. (G[x] + H[x]) + (Sum(G, U) + Sum(H, U \cap B))
          = (G[x] + Sum(G, U)) + (H[x] + Sum(H, U \cap B))
    <3> HIDE DEF Sum, U, Bad
    <3>1. QED
      BY <2>3, <2>4, <2>7
  <2> HIDE DEF Sum, U, Bad
  <2>9. QED
    BY <1>6, <1>9, <2>1, <2>3, <2>5, <2>6, <2>8
<1>11. CASE x \notin B
  <2>1. T \cap B = U \cap B
    BY <1>11
  <2>2. F[x] = G[x] /\ G[x] \in Int
    BY <1>5, <1>11
  <2>3. Sum(G, U) \in Int /\ Sum(H, U \cap B) \in Int
    BY <1>7, SumInt
  <2>4. Sum(F, T) # Sum(G, T) + Sum(H, T \cap B)
    OBVIOUS
  <2>5. Sum(H, T \cap B) = Sum(H, U \cap B)
    BY <2>1
  <2>6. \A a, b, c \in Int : a + (b + c) = (a + b) + c
    OBVIOUS
  <2> HIDE DEF Sum, U, Bad
  <2>7. G[x] + (Sum(G, U) + Sum(H, U \cap B))
          = (G[x] + Sum(G, U)) + Sum(H, U \cap B)
    BY <2>2, <2>3, <2>6
  <2>8. QED
    BY <1>6, <1>9, <2>2, <2>4, <2>5, <2>7
<1>12. QED
  BY <1>10, <1>11

-----------------------------------------------------------------------------
(* Delta-v of the stages                                                   *)

LEMMA HighestIs ==
  ASSUME NEW S \in SUBSET Int, IsFiniteSet(S), S # {}
  PROVE  \E x \in S : \A y \in S : x >= y
<1> DEFINE order == FiringOrder(S)
           N == Cardinality(S)
<1>1. /\ DOMAIN order = 1 .. N /\ N \in Nat
      /\ \A n \in DOMAIN order : order[n] \in S
      /\ \A s \in S : \E n \in DOMAIN order : order[n] = s
      /\ \A m, n \in DOMAIN order : m < n => order[n] < order[m]
  BY FiringOrderIsOne
<1>2. PICK s \in S : TRUE
  OBVIOUS
<1> HIDE DEF order, N
<1>3. 1 \in 1 .. N
  <2>1. PICK n \in 1 .. N : order[n] = s
    BY <1>1, <1>2
  <2>2. QED
    BY <1>1, <2>1
<1>4. \A y \in S : order[1] >= y
  <2> SUFFICES ASSUME NEW y \in S PROVE order[1] >= y
    OBVIOUS
  <2>1. PICK n \in 1 .. N : order[n] = y
    BY <1>1
  <2>2. order[1] \in Int /\ y \in Int
    BY <1>1, <1>3
  <2>3. n = 1 \/ 1 < n
    BY <1>1, <2>1
  <2>4. QED
    BY <1>1, <1>3, <2>1, <2>2, <2>3
<1>5. QED
  BY <1>1, <1>3, <1>4

(* Tanks and motors, as StageDeltaV takes them.                             *)
Tanks  == Seq(PartOf.tanks)
Motors == Seq(PartOf.motors)

LEMMA PartsAre ==
  ASSUME NEW parts \in Tanks, NEW engines \in Motors
  PROVE  /\ IsFiniteSet(DOMAIN parts) /\ IsFiniteSet(DOMAIN engines)
         /\ \A i \in DOMAIN parts :
              /\ parts[i].dec \in Int /\ parts[i].dec >= -1
              /\ parts[i].wet \in Int /\ parts[i].dry \in Int
         /\ \A i \in DOMAIN engines :
              /\ engines[i].stage \in Int
              /\ engines[i].dec \in Int /\ engines[i].dec >= -1
              /\ engines[i].thrust \in Int /\ engines[i].isp \in Int
<1>1. \A S : \A s \in Seq(S) : /\ DOMAIN s = 1 .. Len(s) /\ Len(s) \in Nat
                               /\ \A i \in DOMAIN s : s[i] \in S
  OBVIOUS
<1>2. /\ DOMAIN parts = 1 .. Len(parts) /\ Len(parts) \in Nat
      /\ \A i \in DOMAIN parts : parts[i] \in PartOf.tanks
      /\ DOMAIN engines = 1 .. Len(engines) /\ Len(engines) \in Nat
      /\ \A i \in DOMAIN engines : engines[i] \in PartOf.motors
  BY <1>1 DEF Tanks, Motors
<1>3. \A part \in PartOf.tanks : /\ part.dec \in Int /\ part.dec >= -1
                                 /\ part.wet \in Int /\ part.dry \in Int
  BY DEF PartOf, Staging
<1>4. \A part \in PartOf.motors :
         /\ part.stage \in Int /\ part.dec \in Int /\ part.dec >= -1
         /\ part.thrust \in Int /\ part.isp \in Int
  BY DEF PartOf, Staging
<1>5. \A n \in Nat : IsFiniteSet(1 .. n)
  BY FS_Interval
<1>6. IsFiniteSet(DOMAIN parts) /\ IsFiniteSet(DOMAIN engines)
  BY <1>2, <1>5
<1>7. QED
  BY <1>2, <1>3, <1>4, <1>6

(* No part burns, and no engine lights, above the top stage.                *)
LEMMA TopIs ==
  ASSUME NEW parts \in Tanks, NEW engines \in Motors
  PROVE  /\ TopStage(parts, engines) \in Nat
         /\ \A i \in DOMAIN parts :
              BurnStage(parts[i].dec) <= TopStage(parts, engines)
         /\ \A i \in DOMAIN engines : engines[i].stage <= TopStage(parts, engines)
<1> DEFINE burn == [i \in DOMAIN parts |-> BurnStage(parts[i].dec)]
           light == [i \in DOMAIN engines |-> engines[i].stage]
           B == {burn[i] : i \in DOMAIN parts}
           L == {light[i] : i \in DOMAIN engines}
           S == {0} \cup B \cup L
<1>1. IsFiniteSet(B) /\ IsFiniteSet(L)
  <2>1. \A f : IsFiniteSet(DOMAIN f) => IsFiniteSet({f[i] : i \in DOMAIN f})
    <3> SUFFICES ASSUME NEW f, IsFiniteSet(DOMAIN f)
                 PROVE  IsFiniteSet({f[i] : i \in DOMAIN f})
      OBVIOUS
    <3> DEFINE g == [i \in DOMAIN f |-> f[i]]
    <3>1. g \in Surjection(DOMAIN f, {f[i] : i \in DOMAIN f})
      BY DEF Surjection
    <3>2. QED
      BY <3>1, FS_Surjection
  <2>2. DOMAIN burn = DOMAIN parts /\ DOMAIN light = DOMAIN engines
    OBVIOUS
  <2>3. IsFiniteSet(DOMAIN parts) /\ IsFiniteSet(DOMAIN engines)
    BY PartsAre
  <2> HIDE DEF burn, light
  <2>4. QED
    BY <2>1, <2>2, <2>3
<1>2. IsFiniteSet(S)
  BY <1>1, FS_Singleton, FS_Union
<1>3. S \in SUBSET Int
  BY PartsAre DEF BurnStage
<1>4. TopStage(parts, engines) = Max(S)
  BY DEF TopStage
<1>5. 0 \in S
  OBVIOUS
<1>6. (\A i \in DOMAIN parts : BurnStage(parts[i].dec) \in S)
        /\ (\A i \in DOMAIN engines : engines[i].stage \in S)
  OBVIOUS
<1> HIDE DEF S
<1>7. Max(S) \in S /\ \A y \in S : Max(S) >= y
  BY <1>2, <1>3, <1>5, HighestIs DEF Max
<1>8. Max(S) \in Int
  BY <1>3, <1>7
<1>9. Max(S) \in Nat
  BY <1>5, <1>7, <1>8
<1>10. \A y \in S : y <= Max(S)
  BY <1>3, <1>7, <1>8
<1>11. QED
  BY <1>4, <1>6, <1>9, <1>10

-----------------------------------------------------------------------------
(* A row's parts: who is still attached, whose propellant burns, and what   *)
(* is lit.                                                                  *)
Kept(parts, s)   == {i \in DOMAIN parts : parts[i].dec < s}
Burning(parts, s) == {i \in DOMAIN parts : parts[i].dec = s - 1}
Lit(engines, s)  == {i \in DOMAIN engines :
                       /\ engines[i].stage >= s /\ engines[i].dec < s
                       /\ engines[i].thrust > 0}
Wet(parts)  == [i \in DOMAIN parts |-> parts[i].wet]
Fuel(parts) == [i \in DOMAIN parts |-> parts[i].wet - parts[i].dry]

LEMMA RowIs ==
  ASSUME NEW parts \in Tanks, NEW engines \in Motors, NEW s \in Nat
  PROVE  LET row == StageRow(parts, engines, s) IN
         /\ row.start = SumFunctionOnSet(Wet(parts), Kept(parts, s))
         /\ row.fuel = SumFunctionOnSet(Fuel(parts), Burning(parts, s))
         /\ row.hasEngine <=> Lit(engines, s) # {}
         /\ row.end = IF Lit(engines, s) # {} /\ row.fuel > 0
                           /\ row.start - row.fuel > 0
                      THEN row.start - row.fuel ELSE 0
         /\ row.start \in Int /\ row.fuel \in Int
<1>1. Kept(parts, s) = {i \in DOMAIN parts : Present(parts[i].dec, s)}
  BY PartsAre DEF Kept, Present
<1>2. Burning(parts, s) = {i \in DOMAIN parts : BurnStage(parts[i].dec) = s}
  BY PartsAre DEF Burning, BurnStage
<1>3. Lit(engines, s) = {i \in DOMAIN engines : /\ engines[i].stage >= s
                                                /\ Present(engines[i].dec, s)
                                                /\ engines[i].thrust > 0}
  BY PartsAre DEF Lit, Present
<1> DEFINE row == StageRow(parts, engines, s)
           start == SumFunctionOnSet(Wet(parts), Kept(parts, s))
           burned == SumFunctionOnSet(Fuel(parts), Burning(parts, s))
<1>4. /\ row.start = start /\ row.fuel = burned
      /\ row.hasEngine = (Lit(engines, s) # {})
      /\ row.end = IF Burns(Lit(engines, s), burned, start)
                   THEN start - burned ELSE 0
  BY <1>1, <1>2, <1>3 DEF StageRow, Wet, Fuel
<1>5. start \in Int /\ burned \in Int
  <2>1. IsFiniteSet(Kept(parts, s)) /\ IsFiniteSet(Burning(parts, s))
    BY PartsAre, FS_Subset DEF Kept, Burning
  <2>2. /\ \A i \in Kept(parts, s) : Wet(parts)[i] \in Int
        /\ \A i \in Burning(parts, s) : Fuel(parts)[i] \in Int
    BY PartsAre DEF Kept, Burning, Wet, Fuel
  <2>3. QED
    BY <2>1, <2>2, SumInt
<1> HIDE DEF row, start, burned
<1>6. QED
  BY <1>4, <1>5 DEF Burns, row, start, burned

(* The rows told are those of the stages with an engine or with fuel, in    *)
(* the order of firing.                                                     *)
LEMMA RowsAre ==
  ASSUME NEW parts \in Tanks, NEW engines \in Motors
  PROVE  LET rows == StageDeltaVs(parts, engines)
             row(s) == StageRow(parts, engines, s)
         IN /\ \A n \in DOMAIN rows :
                 /\ rows[n].stage \in 0 .. TopStage(parts, engines)
                 /\ rows[n] = row(rows[n].stage)
            /\ \A s \in 0 .. TopStage(parts, engines) :
                 row(s).hasEngine \/ row(s).fuel > 0 =>
                   \E n \in DOMAIN rows : rows[n] = row(s)
            /\ \A n \in 2 .. Len(rows) : rows[n].stage < rows[n - 1].stage
<1> DEFINE top == TopStage(parts, engines)
           row(s) == StageRow(parts, engines, s)
           told == {s \in 0 .. top : row(s).hasEngine \/ row(s).fuel > 0}
           order == FiringOrder(told)
           rows == StageDeltaVs(parts, engines)
           N == Cardinality(told)
<1>1. top \in Nat
  BY TopIs
<1>2. told \in SUBSET Int /\ IsFiniteSet(told)
  <2>1. IsFiniteSet(0 .. top)
    BY <1>1, FS_Interval
  <2> HIDE DEF row, top
  <2>2. QED
    BY <1>1, <2>1, FS_Subset
<1>3. /\ \A s \in told : s \in 0 .. top
      /\ \A s \in 0 .. top : row(s).hasEngine \/ row(s).fuel > 0 => s \in told
  OBVIOUS
<1>4. \A s : row(s).stage = s
  BY DEF StageRow
<1>5. rows = [n \in DOMAIN order |->
                [s \in 0 .. top |-> row(s)][order[n]]]
  <2> DEFINE all == [s \in 0 .. top |-> row(s)]
             some == {s \in DOMAIN all : all[s].hasEngine \/ all[s].fuel > 0}
  <2>1. rows = [n \in DOMAIN FiringOrder(some) |-> all[FiringOrder(some)[n]]]
    BY DEF StageDeltaVs
  <2>2. some = told
    OBVIOUS
  <2> HIDE DEF some, all, rows
  <2>3. QED
    BY <2>1, <2>2 DEF all
<1> HIDE DEF told
<1>6. /\ DOMAIN order = 1 .. N /\ N \in Nat
      /\ \A n \in DOMAIN order : order[n] \in told
      /\ \A s \in told : \E n \in DOMAIN order : order[n] = s
      /\ \A m, n \in DOMAIN order : m < n => order[n] < order[m]
  BY <1>2, FiringOrderIsOne
<1> HIDE DEF order, N, rows, row, top
<1>7. DOMAIN rows = 1 .. N /\ Len(rows) = N
  BY <1>5, <1>6
<1>8. \A n \in 1 .. N : rows[n] = row(order[n]) /\ rows[n].stage = order[n]
  BY <1>3, <1>4, <1>5, <1>6
<1>9. \A n \in DOMAIN rows :
        rows[n].stage \in 0 .. top /\ rows[n] = row(rows[n].stage)
  BY <1>3, <1>6, <1>7, <1>8
<1>10. \A s \in 0 .. top : row(s).hasEngine \/ row(s).fuel > 0 =>
         \E n \in DOMAIN rows : rows[n] = row(s)
  BY <1>3, <1>6, <1>7, <1>8
<1>11. \A n \in 2 .. Len(rows) : rows[n].stage < rows[n - 1].stage
  <2> SUFFICES ASSUME NEW n \in 2 .. N
               PROVE  rows[n].stage < rows[n - 1].stage
    BY <1>7
  <2>1. n \in 1 .. N /\ n - 1 \in 1 .. N /\ n - 1 < n
    BY <1>6
  <2>2. order[n] < order[n - 1]
    BY <1>6, <2>1
  <2>3. QED
    BY <1>8, <2>1, <2>2
<1>12. QED
  BY <1>9, <1>10, <1>11 DEF rows, row, top

-----------------------------------------------------------------------------
(* The rocket flown, in closed form                                        *)

Left(parts, engines, s) ==
  [i \in Kept(parts, s) |->
     IF Lit(engines, s) # {} /\ i \in Burning(parts, s) THEN 0
     ELSE Fuel(parts)[i]]

Mass(parts, left) ==
  SumFunction([i \in DOMAIN left |-> parts[i].dry + left[i]])

Flight(parts, engines) ==
  [s \in 0 .. TopStage(parts, engines) |->
     [left  |-> Left(parts, engines, s),
      start |-> Mass(parts, [i \in Kept(parts, s) |-> Fuel(parts)[i]]),
      end   |-> Mass(parts, Left(parts, engines, s))]]

(* What the definition of Flown says of the stages: f is one flown.         *)
Fired(parts, engines, before, s) ==
  LET top == TopStage(parts, engines)
      shed(t) == {i \in DOMAIN parts : parts[i].dec = t}
      lit(t) == \E i \in DOMAIN engines :
                  /\ engines[i].stage \in t .. top /\ engines[i].thrust > 0
                  /\ engines[i].dec < t
      kept == [i \in DOMAIN before \ shed(s) |-> before[i]]
      left == [i \in DOMAIN kept |->
                 IF lit(s) /\ i \in shed(s - 1) THEN 0 ELSE kept[i]]
  IN [left |-> left, start |-> Mass(parts, kept), end |-> Mass(parts, left)]

Flies(parts, engines, f) ==
  f = [s \in 0 .. TopStage(parts, engines) |->
         Fired(parts, engines,
               IF s = TopStage(parts, engines) THEN Fuel(parts)
               ELSE f[s + 1].left, s)]

LEMMA FlownIs ==
  \A parts, engines :
    Flown(parts, engines) = CHOOSE f : Flies(parts, engines, f)
BY DEF Flown, Flies, Fired, Mass, Fuel

LEMMA FlightFlies ==
  ASSUME NEW parts \in Tanks, NEW engines \in Motors
  PROVE  Flies(parts, engines, Flight(parts, engines))
<1> DEFINE top == TopStage(parts, engines)
           f == Flight(parts, engines)
           before(s) == IF s = top THEN Fuel(parts) ELSE f[s + 1].left
           full(s) == [i \in Kept(parts, s) |-> Fuel(parts)[i]]
<1>1. top \in Nat
  BY TopIs
<1>2. ASSUME NEW s \in 0 .. top
      PROVE  f[s] = Fired(parts, engines, before(s), s)
  <2> DEFINE shed(t) == {i \in DOMAIN parts : parts[i].dec = t}
             lit(t) == \E i \in DOMAIN engines :
                  /\ engines[i].stage \in t .. top /\ engines[i].thrust > 0
                  /\ engines[i].dec < t
             kept == [i \in DOMAIN before(s) \ shed(s) |-> before(s)[i]]
             left == [i \in DOMAIN kept |->
                        IF lit(s) /\ i \in shed(s - 1) THEN 0 ELSE kept[i]]
  <2>1. s \in Int /\ s >= 0 /\ s <= top
    BY <1>1
  <2>2. shed(s - 1) = Burning(parts, s)
    BY DEF Burning
  <2>3. lit(s) <=> Lit(engines, s) # {}
    BY <1>1, <2>1, PartsAre, TopIs DEF Lit
  <2>4. kept = full(s)
    <3>1. CASE s = top
      <4>1. DOMAIN before(s) = DOMAIN parts /\ before(s) = Fuel(parts)
        BY <3>1 DEF Fuel
      <4>2. \A i \in DOMAIN parts : parts[i].dec < s
        BY <2>1, <3>1, PartsAre, TopIs DEF BurnStage
      <4>3. DOMAIN parts \ shed(s) = Kept(parts, s)
        BY <2>1, <4>2, PartsAre DEF Kept
      <4> HIDE DEF before, shed
      <4>4. QED
        BY <4>1, <4>3
    <3>2. CASE s # top
      <4>1. s + 1 \in 0 .. top /\ s + 1 \in Int
        BY <1>1, <2>1, <3>2
      <4>2. before(s) = Left(parts, engines, s + 1)
        BY <3>2, <4>1 DEF Flight
      <4>3. DOMAIN before(s) = Kept(parts, s + 1)
        BY <4>2 DEF Left
      <4>4. Kept(parts, s + 1) \ shed(s) = Kept(parts, s)
        BY <2>1, PartsAre DEF Kept
      <4>5. \A i \in Kept(parts, s) : /\ i \in Kept(parts, s + 1)
                                      /\ i \notin Burning(parts, s + 1)
        BY <2>1, PartsAre DEF Kept, Burning
      <4>6. \A i \in Kept(parts, s) : before(s)[i] = Fuel(parts)[i]
        BY <4>2, <4>5 DEF Left
      <4> HIDE DEF before, shed
      <4>7. QED
        BY <4>3, <4>4, <4>6
    <3>3. QED
      BY <3>1, <3>2
  <2> HIDE DEF kept
  <2>5. left = Left(parts, engines, s)
    <3> HIDE DEF lit, shed
    <3>1. DOMAIN kept = Kept(parts, s)
      BY <2>4
    <3>2. QED
      BY <2>2, <2>3, <2>4, <3>1 DEF Left
  <2>6. f[s] = [left |-> Left(parts, engines, s), start |-> Mass(parts, full(s)),
                end |-> Mass(parts, Left(parts, engines, s))]
    BY DEF Flight
  <2>7. Fired(parts, engines, before(s), s)
          = [left |-> left, start |-> Mass(parts, kept),
             end |-> Mass(parts, left)]
    <3> HIDE DEF before
    <3>1. QED
      BY DEF Fired, kept
  <2> HIDE DEF left, f, full, before
  <2>8. QED
    BY <2>4, <2>5, <2>6, <2>7
<1>3. DOMAIN f = 0 .. top /\ f = [s \in DOMAIN f |-> f[s]]
  BY DEF Flight
<1> HIDE DEF f
<1>4. f = [s \in 0 .. top |-> Fired(parts, engines, before(s), s)]
  BY <1>2, <1>3
<1>5. QED
  BY <1>4 DEF Flies, f

(* There is one flight, whatever the highest stage where two would differ.  *)
LEMMA FliesOnce ==
  ASSUME NEW parts \in Tanks, NEW engines \in Motors, NEW f, NEW g,
         Flies(parts, engines, f), Flies(parts, engines, g)
  PROVE  f = g
<1> DEFINE top == TopStage(parts, engines)
           before(h, s) == IF s = top THEN Fuel(parts) ELSE h[s + 1].left
           Bad == {s \in 0 .. top : f[s] # g[s]}
<1>1. top \in Nat
  BY TopIs
<1>2. /\ DOMAIN f = 0 .. top /\ f = [s \in DOMAIN f |-> f[s]]
      /\ DOMAIN g = 0 .. top /\ g = [s \in DOMAIN g |-> g[s]]
      /\ \A s \in 0 .. top : f[s] = Fired(parts, engines, before(f, s), s)
      /\ \A s \in 0 .. top : g[s] = Fired(parts, engines, before(g, s), s)
  BY DEF Flies
<1>3. Bad = {}
  <2> SUFFICES ASSUME Bad # {} PROVE FALSE
    OBVIOUS
  <2>1. Bad \in SUBSET Int /\ IsFiniteSet(Bad)
    <3>1. IsFiniteSet(0 .. top) /\ 0 .. top \subseteq Int
      BY <1>1, FS_Interval
    <3>2. Bad \subseteq 0 .. top
      OBVIOUS
    <3> HIDE DEF Bad
    <3>3. QED
      BY <3>1, <3>2, FS_Subset
  <2> PICK s \in Bad : \A y \in Bad : s >= y
    <3> HIDE DEF Bad
    <3> QED
      BY <2>1, HighestIs
  <2>2. s + 1 \notin Bad /\ s \in Int /\ s >= 0 /\ s <= top
    BY <1>1, <2>1
  <2>3. before(f, s) = before(g, s)
    <3>1. CASE s = top
      BY <3>1
    <3>2. CASE s # top
      <4>1. s + 1 \in 0 .. top
        BY <1>1, <2>2, <3>2
      <4>2. f[s + 1] = g[s + 1]
        BY <2>2, <4>1
      <4>3. QED
        BY <3>2, <4>2
    <3>3. QED
      BY <3>1, <3>2
  <2> HIDE DEF before
  <2>4. QED
    BY <1>2, <2>3
<1>4. QED
  BY <1>2, <1>3

LEMMA FlownFlies ==
  ASSUME NEW parts \in Tanks, NEW engines \in Motors
  PROVE  Flown(parts, engines) = Flight(parts, engines)
<1>1. Flies(parts, engines, Flown(parts, engines))
  BY FlownIs, FlightFlies
<1>2. QED
  BY <1>1, FlightFlies, FliesOnce

LEMMA MassIs ==
  ASSUME NEW parts, NEW S, NEW left, DOMAIN left = S
  PROVE  Mass(parts, left)
           = SumFunctionOnSet([i \in S |-> parts[i].dry + left[i]], S)
BY DEF Mass, SumFunction

(* A row's masses are those of the flight: before its burn, and after it.   *)
LEMMA RowFlies ==
  ASSUME NEW parts \in Tanks, NEW engines \in Motors,
         NEW s \in 0 .. TopStage(parts, engines)
  PROVE  LET row == StageRow(parts, engines, s)
             stage == Flight(parts, engines)[s]
         IN /\ stage.start = row.start
            /\ stage.end = IF Lit(engines, s) # {} THEN row.start - row.fuel
                           ELSE row.start
<1> DEFINE row == StageRow(parts, engines, s)
           kept == Kept(parts, s)
           full == [i \in kept |-> Fuel(parts)[i]]
           left == Left(parts, engines, s)
           wholeMass == [i \in kept |-> parts[i].dry + full[i]]
           leftMass == [i \in kept |-> parts[i].dry + left[i]]
<1>1. s \in Nat /\ TopStage(parts, engines) \in Nat
  BY TopIs
<1>2. IsFiniteSet(kept)
  BY PartsAre, FS_Subset DEF Kept
<1>3. Burning(parts, s) \subseteq kept
  BY <1>1, PartsAre DEF Kept, Burning
<1>4. \A i \in kept : /\ Wet(parts)[i] = parts[i].wet
                      /\ Fuel(parts)[i] = parts[i].wet - parts[i].dry
                      /\ parts[i].wet \in Int /\ parts[i].dry \in Int
                      /\ Wet(parts)[i] \in Int /\ Fuel(parts)[i] \in Int
  BY PartsAre DEF Kept, Wet, Fuel
<1>5. SumFunctionOnSet(Wet(parts), kept) = SumFunctionOnSet(wholeMass, kept)
  <2>1. \A i \in kept : wholeMass[i] \in Int /\ Wet(parts)[i] = wholeMass[i] + 0
    BY <1>4
  <2>2. SumFunctionOnSet(wholeMass, kept) \in Int
    BY <1>2, <2>1, SumInt
  <2> HIDE DEF wholeMass, kept
  <2>3. SumFunctionOnSet(Wet(parts), kept)
          = SumFunctionOnSet(wholeMass, kept) + SumFunctionOnSet(Fuel(parts), {})
    <3>1. {} \in SUBSET kept /\ (\A i \in {} : Fuel(parts)[i] \in Int)
          /\ \A i \in kept : Wet(parts)[i]
               = wholeMass[i] + (IF i \in {} THEN Fuel(parts)[i] ELSE 0)
      BY <2>1
    <3>2. QED
      BY <1>2, <2>1, <3>1, SumSplit
  <2>4. QED
    BY <2>2, <2>3, SumEmpty
<1>6. Mass(parts, full) = row.start
  <2>1. Mass(parts, full) = SumFunctionOnSet(wholeMass, kept)
    BY MassIs
  <2>2. QED
    BY <1>1, <1>5, <2>1, RowIs
<1>7. Mass(parts, left) = SumFunctionOnSet(leftMass, kept)
  BY MassIs DEF Left
<1>8. /\ Flight(parts, engines)[s].start = Mass(parts, full)
      /\ Flight(parts, engines)[s].end = Mass(parts, left)
  BY DEF Flight
<1>9. CASE Lit(engines, s) # {}
  <2>1. \A i \in kept :
          /\ leftMass[i] \in Int
          /\ Wet(parts)[i]
               = leftMass[i] + (IF i \in Burning(parts, s) THEN Fuel(parts)[i] ELSE 0)
    BY <1>4, <1>9 DEF Left
  <2>2. SumFunctionOnSet(leftMass, kept) \in Int
    BY <1>2, <2>1, SumInt
  <2> HIDE DEF leftMass, kept
  <2>3. \A i \in Burning(parts, s) : Fuel(parts)[i] \in Int
    BY <1>3, <1>4
  <2>4. SumFunctionOnSet(Wet(parts), kept)
          = SumFunctionOnSet(leftMass, kept)
              + SumFunctionOnSet(Fuel(parts), Burning(parts, s))
    BY <1>2, <1>3, <1>4, <2>1, <2>3, SumSplit
  <2>5. row.start = Mass(parts, left) + row.fuel /\ row.fuel \in Int
    BY <1>1, <1>7, <2>4, RowIs DEF kept
  <2>6. Mass(parts, left) \in Int
    BY <1>7, <2>2
  <2>7. Mass(parts, left) = row.start - row.fuel
    <3> HIDE DEF row, left
    <3>1. QED
      BY <2>5, <2>6
  <2>8. QED
    BY <1>6, <1>8, <1>9, <2>7
<1>10. CASE Lit(engines, s) = {}
  <2>1. left = full
    BY <1>10 DEF Left
  <2>2. QED
    BY <1>6, <1>8, <1>10, <2>1
<1>11. QED
  BY <1>9, <1>10

LEMMA DeltaVAsks ==
  /\ Asks(Script("stage_delta_v"), "tanks")
  /\ Asks(Script("stage_delta_v"), "motors")
  /\ ~Stops(Script("stage_delta_v"))
<1>1. IsScript(ResolveVessel) /\ ~Stops(ResolveVessel)
  BY CommonScripts, OneAsks, OneRead, BothAsk DEF ResolveVessel
<1> DEFINE begin == Must("parts") \o Try("tanks")
           most == begin \o Must("engine list")
           s == StageMassProfile
<1>2. IsScript(begin) /\ ~Stops(begin) /\ Asks(begin, "tanks")
  BY OneAsks, OneRead, ReadsFollow, BothAsk
<1> HIDE DEF begin
<1>3. IsScript(most) /\ ~Stops(most) /\ Asks(most, "tanks")
  BY <1>2, OneAsks, OneRead, ReadsFollow, BothAsk
<1> HIDE DEF most
<1>4. s = most \o Try("motors")
  BY DEF StageMassProfile, most, begin
<1> HIDE DEF s
<1>5. /\ IsScript(s) /\ ~Stops(s)
      /\ Asks(s, "tanks") /\ Asks(s, "motors")
  BY <1>3, <1>4, OneAsks, OneRead, ReadsFollow, BothAsk
<1>6. Script("stage_delta_v") = ResolveVessel \o s
  BY DEF Script, StageDeltaVTool, s
<1>7. /\ \A r : Asks(s, r) => Asks(ResolveVessel \o s, r)
      /\ ~Stops(ResolveVessel \o s)
  BY <1>1, <1>5, BothAsk
<1>8. QED
  BY <1>5, <1>6, <1>7

(* What stage_delta_v has read are tanks and motors.                        *)
LEMMA DeltaVTyped ==
  ASSUME GInv, Said("stage_delta_v")
  PROVE  answer.says.seen.tanks \in Tanks /\ answer.says.seen.motors \in Motors
<1> DEFINE s == answer.says.seen
<1>1. Sees(s)
  BY DEF Said, GInv, Told, CallOK
<1> HIDE DEF s
<1>2. s["tanks"] \in Seq(PartOf["tanks"]) /\ s["motors"] \in Seq(PartOf["motors"])
  BY <1>1 DEF Sees, Categories
<1>3. s.tanks \in Tanks /\ s.motors \in Motors
  BY <1>2 DEF Tanks, Motors
<1>4. QED
  BY <1>3 DEF s

(* Whatever could not be read, a stage that claims a delta-v burns from its *)
(* start mass to a smaller one that is not nothing (stagedv.go:108-117).    *)
THEOREM BurnsMakeSense == Spec => []DeltaVMakesSense
<1>1. GInv => DeltaVMakesSense
  <2> SUFFICES ASSUME GInv, Said("stage_delta_v")
               PROVE  DeltaVMakesSense
    BY DEF DeltaVMakesSense
  <2> DEFINE T == answer.says.seen.tanks
             M == answer.says.seen.motors
             rows == StageDeltaVs(T, M)
  <2>1. T \in Tanks /\ M \in Motors
    BY DeltaVTyped
  <2> HIDE DEF T, M
  <2>2. ASSUME NEW n \in DOMAIN rows
        PROVE  rows[n].end = 0 \/ rows[n].end \in 1 .. rows[n].start - 1
    <3> DEFINE t == rows[n].stage
               row == StageRow(T, M, t)
    <3>1. t \in Nat /\ rows[n] = row
      <4>1. TopStage(T, M) \in Nat
        BY <2>1, TopIs
      <4>2. t \in 0 .. TopStage(T, M) /\ rows[n] = StageRow(T, M, t)
        BY <2>1, <2>2, RowsAre
      <4> HIDE DEF t
      <4>3. QED
        BY <4>1, <4>2
    <3> HIDE DEF t
    <3>2. /\ row.start \in Int /\ row.fuel \in Int
          /\ row.end = IF /\ Lit(M, t) # {} /\ row.fuel > 0
                          /\ row.start - row.fuel > 0
                       THEN row.start - row.fuel ELSE 0
      BY <2>1, <3>1, RowIs
    <3> HIDE DEF row
    <3>3. row.end = 0 \/ row.end \in 1 .. row.start - 1
      BY <3>2
    <3>4. QED
      BY <3>1, <3>3
  <2>3. QED
    BY <2>2 DEF DeltaVMakesSense, rows, T, M
<1>2. QED
  BY <1>1, InitGInv, NextGInv, PTL DEF Spec

(* The stage rows come in the order of firing, every one is the stage of    *)
(* the rocket flown, and none that burns is left out, when all was read     *)
(* (astro/stagedv.go:10-26, 74-125).                                        *)
THEOREM RowsFly == Spec => []RowsAreFlown
<1>1. GInv => RowsAreFlown
  <2> SUFFICES ASSUME GInv, Said("stage_delta_v"), ~answer.says.missed
               PROVE  RowsAreFlown
    BY DEF RowsAreFlown
  <2> DEFINE T == answer.says.seen.tanks
             M == answer.says.seen.motors
             rows == StageDeltaVs(T, M)
             flight == Flight(T, M)
  <2>1. T \in Tanks /\ M \in Motors
    BY DeltaVTyped
  <2>2. T = craft.tanks /\ M = craft.motors
    <3>1. answer.kind = "data" /\ answer.tool = "stage_delta_v"
      BY DEF Said
    <3>2. Exact(craft, answer.says, "tanks") /\ Exact(craft, answer.says, "motors")
      BY <3>1, DeltaVAsks, HasAll DEF Categories
    <3>3. QED
      BY <3>2 DEF Exact
  <2> HIDE DEF T, M
  <2>3. flight = Flown(craft.tanks, craft.motors)
    BY <2>1, <2>2, FlownFlies
  <2>4. DOMAIN flight = 0 .. TopStage(T, M)
    BY DEF Flight
  <2>5. ASSUME NEW t \in 0 .. TopStage(T, M)
        PROVE  LET row == StageRow(T, M, t) IN
               /\ row.start = flight[t].start
               /\ row.end > 0 => row.end = flight[t].end
               /\ flight[t].end < flight[t].start /\ flight[t].end > 0
                    => row.hasEngine /\ row.end > 0
    <3> DEFINE row == StageRow(T, M, t)
    <3>1. t \in Nat
      BY <2>1, TopIs
    <3>2. /\ row.start \in Int /\ row.fuel \in Int
          /\ row.hasEngine <=> Lit(M, t) # {}
          /\ row.end = IF Lit(M, t) # {} /\ row.fuel > 0 /\ row.start - row.fuel > 0
                       THEN row.start - row.fuel ELSE 0
      BY <2>1, <3>1, RowIs
    <3>3. /\ flight[t].start = row.start
          /\ flight[t].end = IF Lit(M, t) # {} THEN row.start - row.fuel
                             ELSE row.start
      BY <2>1, RowFlies
    <3> HIDE DEF row, flight
    <3>4. /\ row.start = flight[t].start
          /\ row.end > 0 => row.end = flight[t].end
      BY <3>2, <3>3
    <3>5. ASSUME flight[t].end < flight[t].start, flight[t].end > 0
          PROVE  row.hasEngine /\ row.end > 0
      BY <3>2, <3>3, <3>5
    <3>6. QED
      BY <3>4, <3>5 DEF row
  <2>6. /\ \A n \in DOMAIN rows :
             /\ rows[n].stage \in 0 .. TopStage(T, M)
             /\ rows[n] = StageRow(T, M, rows[n].stage)
        /\ \A t \in 0 .. TopStage(T, M) : StageRow(T, M, t).hasEngine =>
             \E n \in DOMAIN rows : rows[n] = StageRow(T, M, t)
        /\ \A n \in 2 .. Len(rows) : rows[n].stage < rows[n - 1].stage
    BY <2>1, RowsAre
  <2>7. \A t : StageRow(T, M, t).stage = t
    BY DEF StageRow
  <2> HIDE DEF rows, flight
  <2>8. \A n \in DOMAIN rows :
          /\ rows[n].start = flight[rows[n].stage].start
          /\ rows[n].end > 0 => rows[n].end = flight[rows[n].stage].end
    BY <2>5, <2>6
  <2>9. ASSUME NEW t \in DOMAIN flight,
               flight[t].end < flight[t].start, flight[t].end > 0
        PROVE  \E n \in DOMAIN rows : rows[n].stage = t /\ rows[n].end > 0
    <3>1. StageRow(T, M, t).hasEngine /\ StageRow(T, M, t).end > 0
      BY <2>4, <2>5, <2>9
    <3>2. PICK n \in DOMAIN rows : rows[n] = StageRow(T, M, t)
      BY <2>4, <2>6, <3>1
    <3>3. QED
      BY <2>7, <3>1, <3>2
  <2>10. QED
    BY <2>3, <2>6, <2>8, <2>9 DEF RowsAreFlown, rows, T, M
<1>2. QED
  BY <1>1, InitGInv, NextGInv, PTL DEF Spec
=============================================================================
