--------------------------- MODULE ControlChannel ---------------------------
(***************************************************************************)
(* What a tunnel's control stream promises: the client acts on the events  *)
(* its gateway wrote, in the order they were written, none twice and none  *)
(* skipped, for as long as the session lasts. A new session starts over.   *)
(***************************************************************************)
EXTENDS Naturals, Sequences

CONSTANT Events

VARIABLES written, acted

channel == <<written, acted>>

Init == written = <<>> /\ acted = <<>>

Write ==
  /\ \E e \in Events : written' = Append(written, e)
  /\ UNCHANGED acted

Act ==
  /\ \E n \in Len(acted) + 1 .. Len(written) : acted' = SubSeq(written, 1, n)
  /\ UNCHANGED written

Restart == written' = <<>> /\ acted' = <<>>

Next == Write \/ Act \/ Restart

Spec == Init /\ [][Next]_channel
=============================================================================
