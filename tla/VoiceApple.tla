----------------------------- MODULE VoiceApple -----------------------------
(* The VoiceProcessingIO backend, cleona_voice_apple.c, on the platform layer
   of macOS, cleona_voice_apple_mac.c, with its table of live platforms,
   cleona_voice_apple_live.h.  Two callbacks of the audio unit move samples,
   the hardware layer's listener tells of routes, and close must outlast it. *)
EXTENDS VoiceSession

CONSTANT Platforms    \* addresses a platform can be allocated at

VARIABLES
    stage,     \* the control thread: "none", "done", or the step it is at
    session,   \* struct cleona_voice_session
    world,     \* the devices, and what runs of the unit and the listeners
    live,      \* cva_live_tab
    thread,    \* the listener's call
    reader,    \* the capture thread's call
    last, lost

appleVars == <<stage, session, world, live, thread, reader, last, lost>>

CaptureUnits == RingFrames * FrameUnits
PlaybackUnits == RingFrames * FrameUnits

Closed ==
    [runs |-> 0, running |-> FALSE, mic |-> FALSE, output |-> FALSE,
     cap |-> <<>>, pb |-> <<>>, underruns |-> 0, overruns |-> 0,
     plat |-> 0, events |-> <<>>]

(* default: the route of the default output, unknown when there is none;
   listens: the platform the listeners are registered for, 0 for none. *)
AtRest ==
    [devices |-> {Speaker}, default |-> Speaker, unit |-> FALSE,
     at |-> 0, listens |-> 0, told |-> TRUE]

NoCall == [pc |-> "none", plat |-> 0, mask |-> {}]
NoRead == [pc |-> "out", frame |-> <<>>]

Init ==
    /\ stage = "none"
    /\ session = Closed
    /\ world = AtRest
    /\ live = {}
    /\ thread = NoCall
    /\ reader = NoRead
    /\ last = Result("none", "none")
    /\ lost = 0

IsOpen == stage = "done"
Returns(call, code) == last' = Result(call, code)
Set(field, value) == session' = [session EXCEPT ![field] = value]

(* cva_ring_push: the newest units that fit stay. *)
Pushed(ring, units, cap) == Newest(cap, ring \o units)

(* Mutation: the count of what a full ring drops is one short. *)
DropsAfterOne(ring, n, cap) == Len(ring) + n > cap + 1

Drops(ring, n, cap) == Len(ring) + n > cap

(* cva_probe_routes: every device with an output, and the default's route. *)
ProbedMask == (world.devices \cup {world.default}) \ {UnknownRoute}

(* Mutation: close does not wait for a listener inside. *)
TableIsNeverHeld == TRUE

(* The table's lock is held from the listener's look to its return. *)
TableIsFree == thread.pc \notin {"inside", "pushing"}

-----------------------------------------------------------------------------
(* cleona_voice_open and cva_platform_open *)
OpenRefused ==
    /\ stage = "none"
    /\ Returns("open", "refused")
    /\ UNCHANGED <<stage, session, world, live, thread, reader, lost>>

OpenListens ==
    /\ stage = "none" /\ TableIsFree /\ session.runs < MaxStarts
    /\ \E p \in Platforms :
         /\ live' = live \cup {p}
         /\ world' = [world EXCEPT !.at = p, !.listens = p, !.told = TRUE]
    /\ stage' = "listening"
    /\ UNCHANGED <<session, thread, reader, last, lost>>

OpenHasPlatform ==
    /\ stage = "listening"
    /\ Set("plat", world.at)
    /\ stage' = "unit"
    /\ UNCHANGED <<world, live, thread, reader, last, lost>>

(* cva_open_unit and the buffers: made, or refused and all taken down. *)
OpenMakesUnit ==
    /\ stage = "unit"
    /\ \/ stage' = "done" /\ Returns("open", "ok")
       \/ stage' = "failing" /\ UNCHANGED last
    /\ UNCHANGED <<session, world, live, thread, reader, lost>>

-----------------------------------------------------------------------------
(* cleona_voice_start and cleona_voice_stop: the flag under the lock, the
   unit without it. *)
Start ==
    /\ IsOpen
    /\ IF session.running
         THEN Returns("start", "already_started") /\ UNCHANGED <<stage, session>>
         ELSE /\ session.runs < MaxStarts
              /\ session' = [session EXCEPT !.running = TRUE, !.runs = @ + 1,
                                            !.cap = <<>>, !.pb = <<>>]
              /\ stage' = "starting"
              /\ UNCHANGED last
    /\ UNCHANGED <<world, live, thread, reader, lost>>

StartsUnit ==
    /\ stage = "starting"
    /\ \/ /\ world' = [world EXCEPT !.unit = TRUE]
          /\ Returns("start", "ok")
          /\ UNCHANGED session
       \/ /\ Set("running", FALSE)
          /\ Returns("start", "backend")
          /\ UNCHANGED world
    /\ stage' = "done"
    /\ UNCHANGED <<live, thread, reader, lost>>

Stop ==
    /\ IsOpen
    /\ Set("running", FALSE)
    /\ IF session.running
         THEN stage' = "stopping" /\ UNCHANGED last
         ELSE Returns("stop", "ok") /\ UNCHANGED stage
    /\ UNCHANGED <<world, live, thread, reader, lost>>

StopsUnit ==
    /\ stage = "stopping"
    /\ world' = [world EXCEPT !.unit = FALSE]
    /\ stage' = "done"
    /\ Returns("stop", "ok")
    /\ UNCHANGED <<session, live, thread, reader, lost>>

(* cleona_voice_close after stop, and an open that failed: the listeners go,
   the table waits for a callback that is in it, then all is freed. *)
CloseUnlistens ==
    /\ (IsOpen /\ ~session.running /\ reader.pc = "out") \/ stage = "failing"
    /\ world' = [world EXCEPT !.listens = 0]
    /\ stage' = IF IsOpen THEN "closing" ELSE "freeing"
    /\ UNCHANGED <<session, live, thread, reader, last, lost>>

CloseFrees ==
    /\ stage \in {"closing", "freeing"} /\ TableIsFree
    /\ live' = live \ {session.plat}
    /\ session' = [Closed EXCEPT !.runs = session.runs]
    /\ world' = [world EXCEPT !.at = 0]
    /\ stage' = "none"
    /\ lost' = 0
    /\ IF stage = "closing" THEN Returns("close", "ok") ELSE Returns("open", "refused")
    /\ UNCHANGED <<thread, reader>>

-----------------------------------------------------------------------------
(* The hardware layer and its listener, cva_hal_listener and
   cva_on_route_changed.  A call may be on its way when the listener goes. *)
DevicesChange ==
    /\ stage # "none"
    /\ \E devices \in SUBSET Routes : \E default \in devices \cup {UnknownRoute} :
         /\ <<devices, default>> # <<world.devices, world.default>>
         /\ (default = UnknownRoute) = (devices = {})
         /\ world' = [world EXCEPT !.devices = devices, !.default = default, !.told = FALSE]
    /\ UNCHANGED <<stage, session, live, thread, reader, last, lost>>

ListenerIsCalled ==
    /\ world.listens # 0 /\ ~world.told /\ thread.pc = "none"
    /\ thread' = [NoCall EXCEPT !.pc = "called", !.plat = world.listens]
    /\ world' = [world EXCEPT !.told = TRUE]
    /\ UNCHANGED <<stage, session, live, reader, last, lost>>

ListenerLooks ==
    /\ thread.pc = "called"
    /\ thread' = IF thread.plat \in live THEN [thread EXCEPT !.pc = "inside"] ELSE NoCall
    /\ UNCHANGED <<stage, session, world, live, reader, last, lost>>

(* The mask is read without the session's lock; a session that has no
   platform yet reads no route. *)
ListenerReads ==
    /\ thread.pc = "inside"
    /\ thread' = [thread EXCEPT !.pc = "pushing",
                    !.mask = IF session.plat = 0 THEN {} ELSE ProbedMask]
    /\ UNCHANGED <<stage, session, world, live, reader, last, lost>>

ListenerPushes ==
    /\ thread.pc = "pushing"
    /\ Set("events", PushEvent(session.events, RoutesChanged(thread.mask)))
    /\ thread' = NoCall
    /\ UNCHANGED <<stage, world, live, reader, last, lost>>

Listener == ListenerLooks \/ ListenerReads \/ ListenerPushes

(* The platform of macOS changes no route. *)
SetRoute(route) ==
    /\ IsOpen
    /\ Returns("set_route", IF route \in AllRoutes /\ route = world.default
                            THEN "ok" ELSE "refused")
    /\ UNCHANGED <<stage, session, world, live, thread, reader, lost>>

PollEvent ==
    /\ IsOpen /\ session.events # <<>>
    /\ Set("events", Tail(session.events))
    /\ UNCHANGED <<stage, world, live, thread, reader, last, lost>>

SetMuted(side, muted) ==
    /\ IsOpen
    /\ Set(side, muted)
    /\ Returns(SetCall[side], IF muted THEN "on" ELSE "off")
    /\ UNCHANGED <<stage, world, live, thread, reader, lost>>

-----------------------------------------------------------------------------
(* The unit's callbacks *)

(* cva_input_cb: a slice too large or a render that fails is counted. *)
InputCallback ==
    /\ world.unit
    /\ \/ /\ Set("overruns", CountUp(session.overruns))
          /\ lost' = CountUp(lost)
       \/ \E n \in 1 .. FrameUnits + 1 :
            LET heard == Heard(n, IF session.mic THEN "aside" ELSE "speech", session.runs) IN
            /\ session' = IF ~session.running THEN session
                 ELSE [session EXCEPT !.cap = Pushed(@, heard, CaptureUnits),
                         !.overruns = IF Drops(session.cap, n, CaptureUnits) THEN CountUp(@) ELSE @]
            /\ lost' = IF session.running /\ Len(session'.cap) < Len(session.cap) + n
                       THEN CountUp(lost) ELSE lost
    /\ UNCHANGED <<stage, world, live, thread, reader, last>>

(* cva_render_cb: a muted output still takes its units. *)
RenderCallback ==
    /\ world.unit
    /\ \E want \in 1 .. FrameUnits + 1 :
         LET got == IF session.running THEN Len(Oldest(want, session.pb)) ELSE 0 IN
         session' = [session EXCEPT
           !.pb = Behind(got, @),
           !.underruns = IF got < want THEN CountUp(@) ELSE @]
    /\ UNCHANGED <<stage, world, live, thread, reader, last, lost>>

-----------------------------------------------------------------------------
(* The capture thread and the playback thread *)
ReadBegins ==
    /\ IsOpen /\ reader.pc = "out"
    /\ reader' = [NoRead EXCEPT !.pc = "waiting"]
    /\ UNCHANGED <<stage, session, world, live, thread, last, lost>>

(* The mute of this moment decides, once the lock is left. *)
ReadPops ==
    /\ reader.pc = "waiting" /\ session.running /\ Len(session.cap) >= FrameUnits
    /\ Set("cap", Behind(FrameUnits, session.cap))
    /\ reader' = [pc |-> "took",
                  frame |-> IF session.mic THEN Silence(FrameUnits, session.runs)
                            ELSE Oldest(FrameUnits, session.cap)]
    /\ UNCHANGED <<stage, world, live, thread, last, lost>>

ReadReturns ==
    /\ \/ reader.pc = "took" /\ Returns("capture_read", "frame")
       \/ /\ reader.pc = "waiting" /\ ~session.running
          /\ Returns("capture_read", "closed")
       \/ /\ reader.pc = "waiting" /\ session.running /\ Len(session.cap) < FrameUnits
          /\ Returns("capture_read", "timeout")
    /\ reader' = NoRead
    /\ UNCHANGED <<stage, session, world, live, thread, lost>>

CaptureRead == ReadPops \/ ReadReturns

PlaybackWrite ==
    /\ stage \in {"done", "starting", "stopping"}
    /\ IF ~session.running
         THEN Returns("playback_write", "not_started") /\ UNCHANGED <<session, lost>>
         ELSE \/ Returns("playback_write", "frame_size") /\ UNCHANGED <<session, lost>>
              \/ /\ session' = [session EXCEPT
                      !.pb = Pushed(@, Heard(FrameUnits, "speech", session.runs), PlaybackUnits),
                      !.overruns = IF Drops(session.pb, FrameUnits, PlaybackUnits)
                                   THEN CountUp(@) ELSE @]
                 /\ lost' = IF Len(session'.pb) - Len(session.pb) < FrameUnits
                            THEN CountUp(lost) ELSE lost
                 /\ Returns("playback_write", "ok")
    /\ UNCHANGED <<stage, world, live, thread, reader>>

-----------------------------------------------------------------------------
(* cleona_voice_get_report and what a caller has seen of a session. *)
Report ==
    [mic |-> session.mic, output |-> session.output, mask |-> ProbedMask,
     route |-> world.default, underruns |-> session.underruns,
     overruns |-> session.overruns]

State ==
    CASE stage = "done" -> IF session.running THEN "running" ELSE "open"
      [] stage \in {"starting", "stopping"} -> stage
      [] stage = "closing" -> "open"
      [] OTHER -> "none"

Read == [out |-> "out", waiting |-> "in", took |-> "seen"][reader.pc]

ControlSteps ==
    OpenHasPlatform \/ OpenMakesUnit \/ StartsUnit \/ StopsUnit
    \/ (stage = "failing" /\ CloseUnlistens) \/ CloseFrees

Lifecycle ==
    \/ OpenRefused \/ OpenListens \/ OpenHasPlatform \/ OpenMakesUnit \/ Start
    \/ StartsUnit \/ Stop \/ StopsUnit \/ CloseUnlistens \/ CloseFrees

CaptureSide ==
    \/ InputCallback \/ ReadBegins
    \/ \E muted \in Mutes : SetMuted("mic", muted)

PlaybackSide ==
    \/ RenderCallback \/ PlaybackWrite
    \/ \E muted \in Mutes : SetMuted("output", muted)

RouteSide ==
    \/ DevicesChange \/ ListenerIsCalled \/ Listener \/ PollEvent
    \/ \E route \in Routes \cup {UnknownRoute} : SetRoute(route)

Next == Lifecycle \/ CaptureSide \/ CaptureRead \/ PlaybackSide \/ RouteSide

Spec ==
    /\ Init /\ [][Next]_appleVars
    /\ WF_appleVars(CaptureRead) /\ WF_appleVars(Listener) /\ WF_appleVars(ControlSteps)
=============================================================================
