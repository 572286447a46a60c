----------------------------- MODULE SessionBook -----------------------------
(***************************************************************************)
(* What sessions promise: one is opened once, and one that has ended, on   *)
(* its own or with others at a stroke, is never live again.                *)
(***************************************************************************)
CONSTANT Session

VARIABLES
  live,   \* sessions a refresh token of which may still be good
  ended   \* sessions that have been live

Init == live = {} /\ ended = {}

Open(s) ==
  /\ s \notin live \cup ended
  /\ live' = live \cup {s}
  /\ UNCHANGED ended

Close(some) ==
  /\ some # {}
  /\ live' = live \ some
  /\ ended' = ended \cup some

Next ==
  \/ \E s \in Session : Open(s)
  \/ \E some \in SUBSET live : Close(some)

Spec == Init /\ [][Next]_<<live, ended>>
=============================================================================
