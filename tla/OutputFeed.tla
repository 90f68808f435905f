----------------------------- MODULE OutputFeed -----------------------------
(***************************************************************************)
(* What a terminal promises about the output of its process: the chunks    *)
(* are numbered as they arrive, and each is processed once, after those    *)
(* before it and before those after it, until the terminal ends.  Once     *)
(* it is ending, chunks may be processed in another order or be dropped,   *)
(* but none is processed twice.                                            *)
(***************************************************************************)
EXTENDS Naturals, Sequences

VARIABLES
  received, \* how many chunks have arrived
  shown,    \* the chunks processed, in the order they were
  ended     \* whether the terminal is ending or has ended

feed == <<received, shown, ended>>

FeedInit == received = 0 /\ shown = <<>> /\ ended = FALSE

Receive == received' = received + 1 /\ UNCHANGED <<shown, ended>>

ShowNext ==
  /\ Len(shown) < received
  /\ shown' = Append(shown, Len(shown) + 1)
  /\ UNCHANGED <<received, ended>>

ShowLate ==
  /\ ended
  /\ \E n \in 1 .. received :
       /\ \A i \in DOMAIN shown : shown[i] # n
       /\ shown' = Append(shown, n)
  /\ UNCHANGED <<received, ended>>

End == ended' = TRUE /\ UNCHANGED <<received, shown>>

FeedNext == Receive \/ ShowNext \/ ShowLate \/ End

FeedSpec == FeedInit /\ [][FeedNext]_feed
=============================================================================
