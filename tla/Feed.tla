-------------------------------- MODULE Feed --------------------------------
(***************************************************************************)
(* What a kRPC stream promises its holder (krpc/stream.go:3-6): a feed of  *)
(* what the server pushed.  What a holder sees only ever moves on to a     *)
(* later push; pushes may be missed, none is shown late or twice.          *)
(***************************************************************************)
EXTENDS Naturals

CONSTANT Feeds

VARIABLES
  pushed,  \* how many updates the server has pushed
  seen     \* the update that each feed shows, 0 before the first

FeedInit == pushed = 0 /\ seen = [s \in Feeds |-> 0]

ServerPushes == pushed' = pushed + 1 /\ UNCHANGED seen

FeedMovesOn(s) ==
  /\ \E n \in seen[s] + 1 .. pushed : seen' = [seen EXCEPT ![s] = n]
  /\ UNCHANGED pushed

FeedSpec ==
  FeedInit /\ [][ServerPushes \/ \E s \in Feeds : FeedMovesOn(s)]_<<pushed, seen>>
=============================================================================
