------------------------- MODULE MCWaypointFollower -------------------------
(* Small instances of WaypointFollower for TLC.                            *)
EXTENDS WaypointFollower, TLC

CONSTANTS start, onway, first, second, both

MCPose == {start, onway, first, second, both}

\* Two waypoints; at the pose "both" their tolerance circles overlap.
MCDistance ==
    (start  :> <<"far", "far">>) @@ (onway :> <<"near", "far">>) @@
    (first  :> <<"reached", "near">>) @@ (second :> <<"far", "reached">>) @@
    (both   :> <<"reached", "reached">>)

MCRawError ==
    (start  :> <<2, 0>>) @@ (onway :> <<1, 2>>) @@ (first :> <<0, 1>>) @@
    (second :> <<0, 1>>) @@ (both :> <<2, 0>>)

Indexed(f) == [p \in MCPose |-> [w \in 0..1 |-> f[p][w + 1]]]

DistanceOf == Indexed(MCDistance)
RawErrorOf == Indexed(MCRawError)

\* All poses are a stuck_distance apart but "start" and "onway".
MCApart ==
    {pq \in MCPose \X MCPose : pq[1] # pq[2] /\ pq # <<start, onway>>
                                             /\ pq # <<onway, start>>}

OneOrTwo == {1, 2}
=============================================================================
