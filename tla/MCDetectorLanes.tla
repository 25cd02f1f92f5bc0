---------------------------- MODULE MCDetectorLanes ----------------------------
(***************************************************************************)
(* Two neighbouring pitches on four strings, of which three may sound at   *)
(* once.  They share string 0; the fine fit of the second may resolve the  *)
(* pair of strings 0 and 1, which a tier completes by string 2.  The       *)
(* smaller instance has two strings for the second pitch and one for the   *)
(* first, no fits, and a bank that may know the second pitch better.       *)
(***************************************************************************)
EXTENDS DetectorLanes, TLC

MCPlayable == -1 :> {} @@ 0 :> {0, 3} @@ 1 :> {0, 1, 2} @@ 2 :> {1, 2}
MCFits == 0 :> {} @@ 1 :> {{0, 1}}
MCNotProjected == 0 :> {} @@ 1 :> {}

MCPairPlayable == -1 :> {} @@ 0 :> {0} @@ 1 :> {1, 2} @@ 2 :> {1, 2}
MCNoFits == 0 :> {} @@ 1 :> {}
MCProjected == 0 :> {} @@ 1 :> {2}
=============================================================================
