------------------------------ MODULE MCVideo ------------------------------
(* The instance of the video backends for TLC: two geometries, two rates, a
   low and a high ceiling, and one request no session can meet. *)
EXTENDS VideoBackends

MCRequests == {
    [geo |-> 1, fps |-> 1, rate |-> 1, ceiling |-> 4],
    [geo |-> 2, fps |-> 2, rate |-> 4, ceiling |-> 2],
    [geo |-> 3, fps |-> 1, rate |-> 1, ceiling |-> 1] }
MCCameras == {[geo |-> 1, fps |-> 1], [geo |-> 2, fps |-> 2]}
AllBackends == {"linux", "windows", "mock"}
AllFocuses == {"frames", "changes", "decoder", "group"}
=============================================================================
