----------------------------- MODULE MCLiveTracking -----------------------------
(* Two vehicles of one company, a stream of it that is narrowed to one of   *)
(* them and a stream of another company; batches that come late or name the *)
(* vehicles in opposite orders.                                             *)
EXTENDS LiveTracking, TLC

CONSTANTS c1, c2, v1, v2, t1, t2, none

MCTenantOf == c1 :> t1 @@ c2 :> t2
MCOwnerOf == [v \in Vehicles |-> t1]
MCFilterOf == c1 :> [vehicle |-> {v1}, trip |-> Trips]
           @@ c2 :> [vehicle |-> Vehicles, trip |-> Trips]
Ping(v, t) == [vehicle |-> v, trip |-> none, at |-> t]
MCBatches == {<<Ping(v1, 2), Ping(v2, 1)>>, <<Ping(v2, 1), Ping(v1, 1)>>}
=============================================================================
