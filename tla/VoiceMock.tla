----------------------------- MODULE VoiceMock -----------------------------
(* The mock backend, src/native/cleona_voice/mock/cleona_voice_mock.c: no
   device and no thread of its own.  A clock says how many samples are due,
   and whoever calls next has them generated; what the application's tests
   want to happen, they do through the knobs.  Every call is one step. *)
EXTENDS VoiceSession

CONSTANT MaxChunk    \* units of the largest chunk generated at once

VARIABLES
    stage,     \* "none" or "done"
    session,   \* struct cleona_voice_session
    world,     \* what the clock says is due, each unit as it would be heard
    reader,    \* the capture thread's call
    last, lost

mockVars == <<stage, session, world, reader, last, lost>>

Backlog == RingFrames * FrameUnits
AccumUnits == Backlog + MaxChunk

Closed ==
    [runs |-> 0, running |-> FALSE, mic |-> FALSE, output |-> FALSE,
     accum |-> <<>>, underruns |-> 0, overruns |-> 0,
     mask |-> {}, route |-> UnknownRoute, events |-> <<>>]

NoRead == [pc |-> "out", frame |-> <<>>]

Init ==
    /\ stage = "none"
    /\ session = Closed
    /\ world = [due |-> <<>>]
    /\ reader = NoRead
    /\ last = Result("none", "none")
    /\ lost = 0

IsOpen == stage = "done"
Returns(call, code) == last' = Result(call, code)
Set(field, value) == session' = [session EXCEPT ![field] = value]

-----------------------------------------------------------------------------
(* pump_device_locked.  More than a backlog is skipped in one count; a chunk
   that does not fit drops what is left, in one count. *)
Todo == Newest(Backlog, world.due)

(* How many units are generated before a chunk does not fit. *)
Generated ==
    {k \in 0 .. Len(Todo) :
        /\ Len(session.accum) + k <= AccumUnits
        /\ k < Len(Todo) =>
             \E c \in 1 .. MaxChunk :
                c <= Len(Todo) - k /\ Len(session.accum) + k + c > AccumUnits}

(* A unit is generated by what the mute says now. *)
Tone(units) ==
    [i \in 1 .. Len(units) |->
        IF session.mic THEN Unit("silence", units[i].run) ELSE units[i]]

PumpedWith(k) ==
    [session EXCEPT
        !.accum = @ \o Tone(Oldest(k, Todo)),
        !.overruns = IF k < Len(world.due) THEN CountUp(@) ELSE @]

(* The session after the pump; a session that is not running has none. *)
Pumped == {PumpedWith(k) : k \in Generated}

Pump(after(_)) ==
    /\ session' \in {after(s) : s \in Pumped}
    /\ world' = [due |-> <<>>]

-----------------------------------------------------------------------------
(* The device's clock *)
Clock ==
    /\ session.running /\ Len(world.due) <= Backlog
    /\ world' = [due |-> Append(world.due,
                   Unit(IF session.mic THEN "aside" ELSE "speech", session.runs))]
    /\ UNCHANGED <<stage, session, reader, last, lost>>

-----------------------------------------------------------------------------
(* The calls of the application *)

(* The configured error, a rate that is not valid, or no memory. *)
OpenFails ==
    /\ stage = "none"
    /\ Returns("open", "refused")
    /\ UNCHANGED <<stage, session, world, reader, lost>>

Open(mask, route) ==
    /\ stage = "none" /\ session.runs < MaxStarts
    /\ session' = [session EXCEPT !.mask = mask, !.route = route]
    /\ stage' = "done"
    /\ Returns("open", "ok")
    /\ UNCHANGED <<world, reader, lost>>

(* The configured error comes before the look at the flag. *)
StartFails ==
    /\ IsOpen
    /\ \/ Returns("start", "backend")
       \/ session.running /\ Returns("start", "already_started")
    /\ UNCHANGED <<stage, session, world, reader, lost>>

Start ==
    /\ IsOpen /\ ~session.running /\ session.runs < MaxStarts
    /\ session' = [session EXCEPT
         !.running = TRUE, !.runs = @ + 1, !.accum = <<>>,
         !.route = IF @ \in session.mask THEN @
                   ELSE IF session.mask = {} THEN UnknownRoute
                   ELSE LowestRoute(session.mask)]
    /\ world' = [due |-> <<>>]
    /\ Returns("start", "ok")
    /\ UNCHANGED <<stage, reader, lost>>

Stop ==
    /\ IsOpen
    /\ session' = [session EXCEPT !.running = FALSE, !.accum = <<>>]
    /\ Returns("stop", "ok")
    /\ UNCHANGED <<stage, world, reader, lost>>

Close ==
    /\ IsOpen /\ reader.pc = "out"
    /\ session' = [Closed EXCEPT !.runs = session.runs]
    /\ world' = [due |-> <<>>]
    /\ stage' = "none"
    /\ lost' = 0
    /\ Returns("close", "ok")
    /\ UNCHANGED reader

(* Mutation: a mute is set with units still due. *)
GeneratesNothing(side) == FALSE

GeneratesFirst(side) == side = "mic" /\ session.running

(* What is due was heard under the old mute, and is generated under it. *)
SetMuted(side, muted) ==
    /\ IsOpen
    /\ IF GeneratesFirst(side)
         THEN /\ Pump(LAMBDA s : [s EXCEPT !.mic = muted])
              /\ lost' = IF Len(session'.accum) < Len(session.accum) + Len(world.due)
                         THEN CountUp(lost) ELSE lost
         ELSE Set(side, muted) /\ UNCHANGED <<world, lost>>
    /\ Returns(SetCall[side], IF muted THEN "on" ELSE "off")
    /\ UNCHANGED <<stage, reader>>

SetRoute(route) ==
    /\ IsOpen
    /\ IF route \in session.mask
         THEN Set("route", route) /\ Returns("set_route", "ok")
         ELSE Returns("set_route", "refused") /\ UNCHANGED session
    /\ UNCHANGED <<stage, world, reader, lost>>

PollEvent ==
    /\ IsOpen /\ session.events # <<>>
    /\ Set("events", Tail(session.events))
    /\ UNCHANGED <<stage, world, reader, last, lost>>

(* Nothing is played and nothing kept: the frames are counted. *)
PlaybackWrite ==
    /\ IsOpen
    /\ IF session.running
         THEN \E code \in {"ok", "frame_size"} : Returns("playback_write", code)
         ELSE Returns("playback_write", "not_started")
    /\ UNCHANGED <<stage, session, world, reader, lost>>

-----------------------------------------------------------------------------
(* cleona_voice_capture_read *)
ReadBegins ==
    /\ IsOpen /\ reader.pc = "out"
    /\ reader' = [NoRead EXCEPT !.pc = "waiting"]
    /\ UNCHANGED <<stage, session, world, last, lost>>

(* One turn under the lock: the pump, and a frame if there is one. *)
ReadTurns ==
    LET taken(s) ==
          IF Len(s.accum) >= FrameUnits
          THEN [s EXCEPT !.accum = Behind(FrameUnits, s.accum)] ELSE s IN
    /\ reader.pc = "waiting" /\ session.running
    /\ \E s \in Pumped :
         /\ session' = taken(s)
         /\ reader' = IF Len(s.accum) >= FrameUnits
                      THEN [pc |-> "took", frame |-> Oldest(FrameUnits, s.accum)]
                      ELSE [NoRead EXCEPT !.pc = "timing"]
         /\ lost' = IF Len(s.accum) < Len(session.accum) + Len(world.due)
                    THEN CountUp(lost) ELSE lost
    /\ world' = [due |-> <<>>]
    /\ UNCHANGED <<stage, last>>

(* Before the deadline the call sleeps and turns again. *)
ReadSleeps ==
    /\ reader.pc = "timing"
    /\ reader' = [NoRead EXCEPT !.pc = "waiting"]
    /\ UNCHANGED <<stage, session, world, last, lost>>

ReadReturns ==
    /\ \/ reader.pc = "took" /\ Returns("capture_read", "frame")
       \/ reader.pc = "timing" /\ Returns("capture_read", "timeout")
       \/ /\ reader.pc = "waiting" /\ ~session.running
          /\ Returns("capture_read", "closed")
    /\ reader' = NoRead
    /\ UNCHANGED <<stage, session, world, lost>>

CaptureRead == ReadTurns \/ ReadSleeps \/ ReadReturns

-----------------------------------------------------------------------------
(* The knobs of the tests *)
MockPushEvent ==
    /\ IsOpen
    /\ Set("events", PushEvent(session.events, [event |-> "interrupted", mask |-> {}]))
    /\ UNCHANGED <<stage, world, reader, last, lost>>

MockSetRoutes(mask, active) ==
    /\ IsOpen
    /\ session' = [session EXCEPT
         !.mask = mask,
         !.route = IF active # UnknownRoute THEN active
                   ELSE IF @ \in mask THEN @ ELSE UnknownRoute,
         !.events = PushEvent(@, RoutesChanged(mask))]
    /\ UNCHANGED <<stage, world, reader, last, lost>>

MockAddCount(counter) ==
    /\ IsOpen
    /\ Set(counter, CountUp(session[counter]))
    /\ UNCHANGED <<stage, world, reader, last, lost>>

(* What was gathered in the old format goes, and the clock begins again. *)
MockForceFormat ==
    /\ IsOpen
    /\ session' = [session EXCEPT
         !.accum = <<>>,
         !.events = PushEvent(@, [event |-> "format_changed", mask |-> {}])]
    /\ world' = [due |-> <<>>]
    /\ UNCHANGED <<stage, reader, last, lost>>

-----------------------------------------------------------------------------
(* cleona_voice_get_report and what a caller has seen of a session. *)
Report ==
    [mic |-> session.mic, output |-> session.output, mask |-> session.mask,
     route |-> session.route, underruns |-> session.underruns,
     overruns |-> session.overruns]

State ==
    IF ~IsOpen THEN "none" ELSE IF session.running THEN "running" ELSE "open"

Read ==
    IF reader.pc \in {"out", "waiting"}
    THEN [out |-> "out", waiting |-> "in"][reader.pc] ELSE "seen"

Lifecycle ==
    \/ OpenFails \/ StartFails \/ Start \/ Stop \/ Close
    \/ \E mask \in SUBSET Routes, route \in Routes \cup {UnknownRoute} : Open(mask, route)

CaptureSide ==
    \/ Clock \/ ReadBegins \/ MockForceFormat
    \/ \E muted \in Mutes : SetMuted("mic", muted)

PlaybackSide ==
    \/ PlaybackWrite
    \/ \E counter \in {"underruns", "overruns"} : MockAddCount(counter)
    \/ \E muted \in Mutes : SetMuted("output", muted)

RouteSide ==
    \/ PollEvent \/ MockPushEvent
    \/ \E route \in Routes \cup {UnknownRoute} :
         \/ SetRoute(route)
         \/ \E mask \in SUBSET Routes : MockSetRoutes(mask, route)

Next == Lifecycle \/ CaptureSide \/ CaptureRead \/ PlaybackSide \/ RouteSide

Spec == Init /\ [][Next]_mockVars /\ WF_mockVars(CaptureRead) /\ SF_mockVars(ReadReturns)
=============================================================================
