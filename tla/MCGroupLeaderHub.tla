-------------------------- MODULE MCGroupLeaderHub --------------------------
(* Instances of GroupLeaderHub for TLC: the bounds are in the .cfg files.    *)
EXTENDS GroupLeaderHub

(* The hub's books: types, who is served, who is watched, and who is not     *)
(* detached without a reason.                                                *)
HubIsSound == TypeOK /\ RegisteredIsServed /\ NoFalseAlarm /\ StalledIsWatched
=============================================================================
