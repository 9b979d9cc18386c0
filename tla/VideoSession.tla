---------------------------- MODULE VideoSession ----------------------------
(* What the video backends under src/native/cleona_video share: what is asked
   of them and what they negotiate, and the frames they make.  Bytes, bits
   and time are counted in units of the instance. *)
EXTENDS Integers, Sequences, FiniteSets

CONSTANTS
    Requests,     \* configurations asked for, each valid
    Sizes,        \* sizes of the frames of an encoder that is not a formula
    Buffers,      \* capacities a caller reads with
    KeyFactor,    \* what a keyframe takes more than another frame
    MinFrame,     \* the smallest frame that counts as one
    MinRate,      \* the smallest rate
    Second,       \* units of a timestamp in a second
    MaxFrames,    \* bound: frames an instance encodes in one session
    MaxRuns       \* bound: starts of the instance

ASSUME InstanceAssumption ==
    /\ Requests \subseteq [geo : Nat \ {0}, fps : Nat \ {0}, rate : Nat \ {0},
                           ceiling : Nat \ {0}]
    /\ Sizes \subseteq Nat \ {0} /\ Buffers \subseteq Nat \ {0}
    /\ {KeyFactor, MinFrame, MinRate, Second, MaxFrames, MaxRuns} \subseteq Nat \ {0}

(* A timestamp moves on with every frame: a second has a million units of it,
   and the mock lowers the frames asked for to CLEONA_VIDEO_MOCK_MAX_FPS, which
   is 30, and Linux to what its camera delivers. *)
ASSUME RateAssumption == \A req \in Requests : req.fps <= Second

(* A configuration: the geometry, frames a second, the rate, and the ceiling
   that no frame handed out may exceed. *)
NoConfig == [geo |-> 0, fps |-> 0, rate |-> 0, ceiling |-> 0]

AtMost(n, ceiling) == IF n > ceiling THEN ceiling ELSE n
AtLeast(n, floor) == IF n < floor THEN floor ELSE n

(* A negotiation ends with a configuration or with none. *)
Unachievable == {}

(* What a frame between two keyframes takes at a rate. *)
Nominal(rate, fps) == AtLeast(rate \div fps, MinFrame)

(* The budget of a mock or a Windows session: the ceiling must hold a
   keyframe.  A rate that is too high is lowered; a fixed frame size, which
   only the mock's tests set, is not. *)
ByBudget(req, fixed) ==
    LET budget == req.ceiling \div KeyFactor
        fit == budget * req.fps
        frame == IF fixed > 0 THEN fixed ELSE Nominal(req.rate, req.fps)
    IN  IF budget < MinFrame \/ (frame > budget /\ (fixed > 0 \/ fit < MinRate))
        THEN Unachievable
        ELSE {[req EXCEPT !.rate = IF frame > budget THEN AtMost(@, fit) ELSE @]}

(* The estimate of a Linux session: a keyframe of the geometry, at the worst
   quality there is, takes as many units as the geometry has. *)
ByEstimate(req, camera) ==
    LET geo == AtMost(req.geo, camera.geo) IN
    IF geo > req.ceiling \/ req.rate < MinRate THEN Unachievable
    ELSE {[req EXCEPT !.geo = geo, !.fps = AtMost(@, camera.fps)]}

(* An encoded frame, with the start it was made after. *)
Frame(key, size, pts, run) == [key |-> key, size |-> size, pts |-> pts, run |-> run]
NoFrame == Frame(FALSE, 0, 0, 0)

(* An access unit a peer sent: the picture it holds, whether parameter sets
   come with it, and whether its sender calls it a keyframe. *)
AccessUnits == [picture : {"none", "idr", "delta"}, params : BOOLEAN, claims : BOOLEAN]
IsKey(unit) == unit.picture = "idr"
SubmitCall == [none |-> "submit_none", idr |-> "submit_idr", delta |-> "submit_delta"]
Submits(unit) == SubmitCall[unit.picture]

Result(call, code) == [call |-> call, code |-> code]
=============================================================================
