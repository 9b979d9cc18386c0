------------------------------ MODULE VideoABI ------------------------------
(* What cleona_video.h promises of a session whatever the backend: which
   calls succeed in which state and direction, that a read is answered by the
   state it sees, and that a picture is not taken before a keyframe was, after
   each start anew. *)
EXTENDS VideoSession

VARIABLES
    state,         \* "none", "open", "starting", "running" or "stopping"
    decodeOnly,    \* the direction
    wait,          \* no keyframe has been taken yet
    submit,        \* the access unit a call is feeding, "out" of a call
    outlived,      \* the session was stopped since that call was admitted
    read,          \* "out", or "in" a call
    last           \* the latest result

abiVars == <<state, decodeOnly, wait, submit, outlived, read, last>>

Init ==
    /\ state = "none" /\ ~decodeOnly /\ wait = TRUE
    /\ submit = "out" /\ ~outlived /\ read = "out"
    /\ last = Result("none", "none")

Running == state \in {"starting", "running"}
Idle == state \in {"open", "running"}
Returns(call, codes) == \E code \in codes : last' = Result(call, code)
OnlyAnswers == UNCHANGED <<state, decodeOnly, wait, submit, outlived, read>>

(* A session that runs no more leaves a call behind that is in flight. *)
LeavesBehind == outlived' = (outlived \/ submit # "out")

OpenRefused ==
    /\ state = "none"
    /\ Returns("open", {"invalid", "unsupported", "backend", "unachievable"})
    /\ OnlyAnswers

Opens ==
    /\ state = "none" /\ state' = "open"
    /\ decodeOnly' \in BOOLEAN /\ wait'
    /\ Returns("open", {"ok"})
    /\ UNCHANGED <<submit, outlived, read>>

(* Only a session that decodes may have to be given a keyframe again. *)
Reconfigures ==
    /\ Idle
    /\ Returns("reconfigure", {"ok", "invalid", "unachievable", "backend"})
    /\ wait' = wait \/ (decodeOnly /\ wait' /\ last'.code = "ok")
    /\ UNCHANGED <<state, decodeOnly, submit, outlived, read>>

StartBegins ==
    /\ state = "open" /\ state' = "starting" /\ wait'
    /\ UNCHANGED <<decodeOnly, submit, outlived, read, last>>

Starts ==
    /\ state \in {"open", "starting"} /\ state' = "running"
    /\ wait' = (wait \/ state = "open")
    /\ Returns("start", {"ok"})
    /\ UNCHANGED <<decodeOnly, submit, outlived, read>>

StartRefused ==
    /\ \/ state = "open" /\ Returns("start", {"backend"}) /\ UNCHANGED <<state, outlived>>
       \/ state = "running" /\ Returns("start", {"state"}) /\ UNCHANGED <<state, outlived>>
       \/ state = "starting" /\ state' = "open" /\ Returns("start", {"backend"}) /\ LeavesBehind
    /\ UNCHANGED <<decodeOnly, wait, submit, read>>

StopBegins ==
    /\ state = "running" /\ state' = "stopping" /\ LeavesBehind
    /\ UNCHANGED <<decodeOnly, wait, submit, read, last>>

Stops ==
    /\ Idle \/ state = "stopping"
    /\ state' = "open"
    /\ state # "open" => wait'
    /\ wait => wait'
    /\ IF state = "running" THEN LeavesBehind ELSE UNCHANGED outlived
    /\ Returns("stop", {"ok"})
    /\ UNCHANGED <<decodeOnly, submit, read>>

Closes ==
    /\ Idle /\ read = "out" /\ submit = "out"
    /\ state' = "none" /\ ~decodeOnly' /\ wait'
    /\ Returns("close", {"ok"})
    /\ UNCHANGED <<submit, outlived, read>>

-----------------------------------------------------------------------------
ReadBegins ==
    /\ state # "none" /\ read = "out" /\ read' = "in"
    /\ UNCHANGED <<state, decodeOnly, wait, submit, outlived, last>>

ReadReturns ==
    /\ read = "in" /\ read' = "out"
    /\ Returns("read",
         IF ~Running THEN {"closed"}
         ELSE IF decodeOnly THEN {"timeout"}
         ELSE {"frame", "timeout", "too_small"})
    /\ UNCHANGED <<state, decodeOnly, wait, submit, outlived>>

Call(unit) == SubmitCall[unit]

(* What is admitted: a keyframe always, another picture when a keyframe was. *)
Admits(unit) == Running /\ (wait => unit = "idr")

SubmitBegins(unit) ==
    /\ Admits(unit)
    /\ submit = "out" /\ submit' = Call(unit) /\ ~outlived'
    /\ UNCHANGED <<state, decodeOnly, wait, read, last>>

(* A keyframe taken before a stop is none for the start after it. *)
SubmitEnds ==
    /\ submit # "out" /\ submit' = "out" /\ ~outlived'
    /\ \/ Returns(submit, {"decode"}) /\ UNCHANGED wait
       \/ Returns(submit, {"accepted"}) /\ outlived /\ UNCHANGED wait
       \/ Returns(submit, {"accepted"}) /\ ~outlived /\ ~wait'
    /\ UNCHANGED <<state, decodeOnly, read>>

(* Parameter sets alone are taken at any time. *)
SubmitAnswered(unit) ==
    /\ submit = "out" /\ state # "none"
    /\ \/ ~Running /\ Returns(Call(unit), {"state"}) /\ UNCHANGED wait
       \/ Running /\ Returns(Call(unit), {"decode"}) /\ UNCHANGED wait
       \/ Running /\ wait /\ unit # "idr" /\ Returns(Call(unit), {"awaiting"}) /\ UNCHANGED wait
       \/ Running /\ unit = "none" /\ Returns(Call(unit), {"accepted"}) /\ UNCHANGED wait
       \/ Admits(unit) /\ Returns(Call(unit), {"accepted"}) /\ ~wait'
    /\ UNCHANGED <<state, decodeOnly, submit, outlived, read>>

(* The camera and the encoder are those of a running session that has them. *)
EncodeCall(call, more) ==
    /\ Idle
    /\ Returns(call,
         IF ~Running THEN {"state"} ELSE IF decodeOnly THEN {"unsupported"} ELSE more)
    /\ OnlyAnswers

GetTexture ==
    /\ state # "none"
    /\ Returns("texture", IF Running THEN {"ok", "unsupported"} ELSE {"state"})
    /\ OnlyAnswers

SetCapture == Idle /\ Returns("capture", {"on", "off"}) /\ OnlyAnswers

Next ==
    \/ OpenRefused \/ Opens \/ Reconfigures \/ StartBegins \/ Starts
    \/ StartRefused \/ StopBegins \/ Stops \/ Closes
    \/ ReadBegins \/ ReadReturns \/ SubmitEnds \/ GetTexture \/ SetCapture
    \/ EncodeCall("keyframe", {"ok"})
    \/ EncodeCall("switch", {"ok", "unsupported", "backend"})
    \/ \E unit \in {"none", "idr", "delta"} : SubmitBegins(unit) \/ SubmitAnswered(unit)

Spec == Init /\ [][Next]_abiVars
=============================================================================
