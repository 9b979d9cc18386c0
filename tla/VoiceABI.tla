------------------------------ MODULE VoiceABI ------------------------------
(* What cleona_voice.h promises of a session whatever the backend: which
   calls succeed in which state, that a mute stays what it was last set to
   until the session is closed, and that a read answers by what it saw while
   it ran. *)
EXTENDS VoiceSession

VARIABLES
    state,         \* "none", "open", "starting", "running" or "stopping"
    mic, output,   \* the mutes
    read,          \* "out", "in" a call, or in one that has "seen" it running
    gone,          \* the platform said that the stream is lost
    last           \* the latest result

abiVars == <<state, mic, output, read, last>>

Init ==
    /\ state = "none" /\ ~mic /\ ~output /\ read = "out"
    /\ last = Result("none", "none")

Running == state \in {"starting", "running"}
Idle == state \in {"open", "running"}
Returns(call, code) == last' = Result(call, code)
OnlyAnswers == UNCHANGED <<state, mic, output, read>>

OpenRefused == Returns("open", "refused") /\ OnlyAnswers

Opens ==
    /\ state = "none" /\ state' = "open"
    /\ Returns("open", "ok")
    /\ UNCHANGED <<mic, output, read>>

StartBegins ==
    /\ state = "open" /\ state' = "starting"
    /\ UNCHANGED <<mic, output, read, last>>

Starts ==
    /\ state \in {"open", "starting"} /\ state' = "running"
    /\ Returns("start", "ok")
    /\ UNCHANGED <<mic, output, read>>

StartRefused ==
    /\ \/ Idle /\ Returns("start", "backend") /\ UNCHANGED state
       \/ state = "running" /\ Returns("start", "already_started") /\ UNCHANGED state
       \/ state = "starting" /\ state' = "open" /\ Returns("start", "backend")
    /\ UNCHANGED <<mic, output, read>>

StopBegins ==
    /\ state = "running" /\ state' = "stopping"
    /\ UNCHANGED <<mic, output, read, last>>

Stops ==
    /\ Idle \/ state = "stopping"
    /\ state' = "open"
    /\ Returns("stop", "ok")
    /\ UNCHANGED <<mic, output, read>>

Closes ==
    /\ Idle /\ read = "out"
    /\ state' = "none" /\ ~mic' /\ ~output'
    /\ Returns("close", "ok")
    /\ UNCHANGED read

SetMicMuted(muted) ==
    /\ Idle /\ mic' = muted
    /\ Returns("set_mic", IF muted THEN "on" ELSE "off")
    /\ UNCHANGED <<state, output, read>>

SetOutputMuted(muted) ==
    /\ Idle /\ output' = muted
    /\ Returns("set_output", IF muted THEN "on" ELSE "off")
    /\ UNCHANGED <<state, mic, read>>

SetRoute ==
    /\ Idle
    /\ \E code \in {"ok", "refused"} : Returns("set_route", code)
    /\ OnlyAnswers

PlaybackWrite ==
    /\ state # "none"
    /\ IF Running THEN \E code \in {"ok", "frame_size"} : Returns("playback_write", code)
       ELSE Returns("playback_write", "not_started")
    /\ OnlyAnswers

ReadBegins ==
    /\ Idle /\ read = "out" /\ read' = "in"
    /\ UNCHANGED <<state, mic, output, last>>

ReadTurns ==
    /\ \/ read = "in" /\ Running /\ read' = "seen"
       \/ read = "seen" /\ read' = "in"
    /\ UNCHANGED <<state, mic, output, last>>

ReadReturns ==
    /\ \/ read = "seen" /\ Returns("capture_read", "frame")
       \/ read = "seen" /\ Returns("capture_read", "timeout")
       \/ read = "in" /\ Running /\ Returns("capture_read", "timeout")
       \/ read = "in" /\ (~Running \/ gone) /\ Returns("capture_read", "closed")
    /\ read' = "out"
    /\ UNCHANGED <<state, mic, output>>

Next ==
    \/ OpenRefused \/ Opens \/ StartBegins \/ Starts \/ StartRefused
    \/ StopBegins \/ Stops \/ Closes \/ SetRoute \/ PlaybackWrite
    \/ ReadBegins \/ ReadTurns \/ ReadReturns
    \/ \E muted \in BOOLEAN : SetMicMuted(muted) \/ SetOutputMuted(muted)

Spec == Init /\ [][Next]_abiVars
=============================================================================
