---------------------------- MODULE VoiceWindows ----------------------------
(* The WASAPI backend, src/native/cleona_voice/windows/cleona_voice_windows.c.
   The reader empties the capture device itself; a render thread, made by
   start and joined by stop, waits for the render client's event and fills
   its buffer; a switch of the route puts a new render client in the place
   of the old one; the system calls back when an endpoint comes or goes.
   A render client and its event are one number, in the order of making. *)
EXTENDS VoiceSession

CONSTANTS
    MaxClients,   \* bound: render clients a session makes
    Pending       \* units the capture device holds until they are read

VARIABLES
    stage,     \* the control thread: "none", "done", or the step it is at
    session,   \* struct cleona_voice_session
    world,     \* endpoints, and what of the devices the code does not hold
    thread,    \* the render thread
    reader,    \* the capture thread's call
    last, lost

windowsVars == <<stage, session, world, thread, reader, last, lost>>

Clients == 1 .. MaxClients
AccumUnits == RingFrames * FrameUnits
RingUnits == RingFrames * FrameUnits

Closed ==
    [runs |-> 0, running |-> FALSE, mic |-> FALSE, output |-> FALSE,
     accum |-> <<>>, ring |-> <<>>, underruns |-> 0, overruns |-> 0,
     mask |-> {}, route |-> UnknownRoute, events |-> <<>>,
     client |-> 0, stopEvent |-> FALSE, notify |-> FALSE]

(* started: clients between Start and Stop; signalled: events not yet waited
   for; gone: clients released; told: no endpoint has changed since the last
   callback; packets and gap: the capture device's; target and old: the route
   and the client set_route works on. *)
AtRest ==
    [endpoints |-> {Speaker}, told |-> TRUE, made |-> 0, started |-> {},
     signalled |-> {}, gone |-> {}, stop |-> FALSE, capturing |-> FALSE,
     packets |-> <<>>, gap |-> FALSE, target |-> UnknownRoute, old |-> 0]

NoThread == [pc |-> "none", client |-> 0]
NoRead == [pc |-> "out", frame |-> <<>>]

Init ==
    /\ stage = "none"
    /\ session = Closed
    /\ world = AtRest
    /\ thread = NoThread
    /\ reader = NoRead
    /\ last = Result("none", "none")
    /\ lost = 0

IsOpen == stage = "done"
Returns(call, code) == last' = Result(call, code)
Set(field, value) == session' = [session EXCEPT ![field] = value]

-----------------------------------------------------------------------------
(* wv_compute_routes_mask and wv_recompute_routes_locked *)
Mask == IF world.endpoints = {} THEN {Speaker} ELSE world.endpoints

Recomputed ==
    IF Mask = session.mask THEN session
    ELSE [session EXCEPT !.mask = Mask,
            !.route = IF @ \in Mask THEN @ ELSE UnknownRoute,
            !.events = PushEvent(@, RoutesChanged(Mask))]

(* Devices, clients and services of open are refused or made together:
   nothing else can see them yet. *)
OpenFails ==
    /\ stage = "none"
    /\ Returns("open", "refused")
    /\ UNCHANGED <<stage, session, world, thread, reader, lost>>

(* The default endpoint is one of those present; no endpoint, no session. *)
OpenMakes ==
    /\ stage = "none" /\ world.endpoints # {} /\ session.runs < MaxStarts
    /\ \E route \in world.endpoints :
         session' = [session EXCEPT !.mask = Mask, !.route = route, !.client = 1]
    /\ world' = [AtRest EXCEPT !.endpoints = world.endpoints, !.made = 1]
    /\ stage' = "notify"
    /\ UNCHANGED <<thread, reader, last, lost>>

(* The callback is registered, or the session goes without it. *)
OpenRegisters ==
    /\ stage = "notify"
    /\ \E registered \in BOOLEAN : Set("notify", registered)
    /\ stage' = "done"
    /\ Returns("open", "ok")
    /\ UNCHANGED <<world, thread, reader, lost>>

EndpointsChange ==
    /\ stage # "none"
    /\ \E endpoints \in SUBSET Routes :
         /\ endpoints # world.endpoints
         /\ world' = [world EXCEPT !.endpoints = endpoints, !.told = FALSE]
    /\ UNCHANGED <<stage, session, thread, reader, last, lost>>

OnDeviceStateChanged ==
    /\ session.notify /\ stage # "none" /\ ~world.told
    /\ session' = Recomputed
    /\ world' = [world EXCEPT !.told = TRUE]
    /\ UNCHANGED <<stage, thread, reader, last, lost>>

GetRoutes ==
    /\ IsOpen
    /\ session' = Recomputed
    /\ UNCHANGED <<stage, world, thread, reader, last, lost>>

PollEvent ==
    /\ IsOpen /\ session.events # <<>>
    /\ Set("events", Tail(session.events))
    /\ UNCHANGED <<stage, world, thread, reader, last, lost>>

-----------------------------------------------------------------------------
(* start and stop *)
Start ==
    /\ IsOpen
    /\ \/ /\ session.running
          /\ Returns("start", "already_started")
          /\ UNCHANGED <<stage, session, world>>
       \/ /\ ~session.running
          /\ Returns("start", "backend")
          /\ UNCHANGED <<stage, session, world>>
       \/ /\ ~session.running /\ session.runs < MaxStarts
          /\ session' = [session EXCEPT
               !.running = TRUE, !.runs = @ + 1, !.stopEvent = TRUE,
               !.accum = <<>>, !.ring = <<>>]
          /\ world' = [world EXCEPT !.capturing = TRUE, !.stop = FALSE,
                                    !.started = @ \cup {session.client}]
          /\ stage' = "thread"
          /\ UNCHANGED last
    /\ UNCHANGED <<thread, reader, lost>>

StartMakesThread ==
    /\ stage = "thread"
    /\ thread' = [pc |-> "looking", client |-> 0]
    /\ stage' = "done"
    /\ Returns("start", "ok")
    /\ UNCHANGED <<session, world, reader, lost>>

Stop ==
    /\ IsOpen
    /\ IF session.running
         THEN /\ Set("running", FALSE)
              /\ world' = [world EXCEPT !.stop = TRUE]
              /\ stage' = "joining"
              /\ UNCHANGED last
         ELSE /\ Returns("stop", "ok")
              /\ UNCHANGED <<stage, session, world>>
    /\ UNCHANGED <<thread, reader, lost>>

(* Mutation: stop does not wait for the thread. *)
NotJoined == TRUE

(* The thread ends within the two seconds stop waits for it. *)
Joined == thread.pc = "none"

StopEnds ==
    /\ stage = "joining" /\ Joined
    /\ session' = [session EXCEPT !.stopEvent = FALSE, !.accum = <<>>, !.ring = <<>>]
    /\ world' = [world EXCEPT !.capturing = FALSE, !.started = {}]
    /\ stage' = "done"
    /\ Returns("stop", "ok")
    /\ UNCHANGED <<thread, reader, lost>>

(* After stop, as the header asks: the stop close calls has nothing to do. *)
Close ==
    /\ IsOpen /\ ~session.running /\ reader.pc = "out"
    /\ session' = [Closed EXCEPT !.runs = session.runs]
    /\ world' = [AtRest EXCEPT !.endpoints = world.endpoints]
    /\ stage' = "none"
    /\ lost' = 0
    /\ Returns("close", "ok")
    /\ UNCHANGED <<thread, reader>>

SetMuted(side, muted) ==
    /\ IsOpen
    /\ Set(side, muted)
    /\ Returns(SetCall[side], IF muted THEN "on" ELSE "off")
    /\ UNCHANGED <<stage, world, thread, reader, lost>>

-----------------------------------------------------------------------------
(* cleona_voice_set_route: a look under the lock, a new client made without
   it, started if the session ran a moment ago, put in place under it. *)
SetRouteEnds(code) ==
    /\ stage' = "done"
    /\ Returns("set_route", IF code = "ok" THEN "ok" ELSE "refused")
    /\ UNCHANGED <<thread, reader, lost>>

SetRouteAnswers(route) ==
    /\ IsOpen
    /\ route \notin session.mask \/ route = session.route
    /\ SetRouteEnds(IF route \notin AllRoutes THEN "invalid_arg"
                    ELSE IF route \notin session.mask THEN "route_unavailable" ELSE "ok")
    /\ UNCHANGED <<session, world>>

SetRouteGoesOn(route) ==
    /\ IsOpen /\ world.made < MaxClients
    /\ route \in session.mask \ {session.route}
    /\ stage' = "making"
    /\ world' = [world EXCEPT !.target = route]
    /\ UNCHANGED <<session, thread, reader, last, lost>>

SetRouteMakes ==
    /\ stage = "making"
    /\ \/ /\ world.target \notin world.endpoints
          /\ SetRouteEnds("route_unavailable")
          /\ UNCHANGED world
       \/ SetRouteEnds("backend") /\ UNCHANGED world
       \/ /\ world.target \in world.endpoints
          /\ world' = [world EXCEPT !.made = @ + 1]
          /\ stage' = "starting"
          /\ UNCHANGED <<thread, reader, last, lost>>
    /\ UNCHANGED session

SetRouteStarts ==
    /\ stage = "starting"
    /\ \/ /\ world' = [world EXCEPT
               !.started = IF session.running THEN @ \cup {world.made} ELSE @]
          /\ stage' = "swapping"
          /\ UNCHANGED <<thread, reader, last, lost>>
       \/ /\ session.running
          /\ world' = [world EXCEPT !.gone = @ \cup {world.made}]
          /\ SetRouteEnds("backend")
    /\ UNCHANGED session

SetRouteSwaps ==
    /\ stage = "swapping"
    /\ session' = [session EXCEPT !.client = world.made, !.route = world.target]
    /\ world' = [world EXCEPT !.old = session.client]
    /\ stage' = "dropping"
    /\ UNCHANGED <<thread, reader, last, lost>>

SetRouteDropsOld ==
    /\ stage = "dropping"
    /\ world' = [world EXCEPT !.started = @ \ {world.old}, !.gone = @ \cup {world.old},
                              !.target = UnknownRoute, !.old = 0]
    /\ SetRouteEnds("ok")
    /\ UNCHANGED session

SetRouteSteps == SetRouteMakes \/ SetRouteStarts \/ SetRouteSwaps \/ SetRouteDropsOld

SetRoute ==
    \/ \E route \in Routes \cup {UnknownRoute} : SetRouteAnswers(route) \/ SetRouteGoesOn(route)
    \/ SetRouteSteps

-----------------------------------------------------------------------------
(* wv_render_thread_proc, and the engine that signals a running client *)
EngineSignals(c) ==
    /\ c \in world.started \ world.signalled
    /\ world' = [world EXCEPT !.signalled = @ \cup {c}]
    /\ UNCHANGED <<stage, session, thread, reader, last, lost>>

RenderLooks ==
    /\ thread.pc = "looking"
    /\ thread' = IF session.stopEvent THEN [pc |-> "waiting", client |-> session.client]
                 ELSE NoThread
    /\ UNCHANGED <<stage, session, world, reader, last, lost>>

StopWakes == world.stop

(* The stop event comes first; the client's event is reset by the wait. *)
RenderWakes ==
    /\ thread.pc = "waiting"
    /\ \/ /\ StopWakes
          /\ thread' = NoThread
          /\ UNCHANGED world
       \/ /\ ~world.stop /\ thread.client \in world.signalled
          /\ thread' = [thread EXCEPT !.pc = "filling"]
          /\ world' = [world EXCEPT !.signalled = @ \ {thread.client}]
    /\ UNCHANGED <<stage, session, reader, last, lost>>

(* The client is the session's, whichever event woke the thread.  It may
   refuse, or have no room; what the ring lacks is silence and an underrun. *)
RenderFills ==
    /\ thread.pc = "filling"
    /\ \/ thread' = [thread EXCEPT !.pc = "looking"] /\ UNCHANGED session
       \/ \E room \in 1 .. FrameUnits + 1 :
            /\ session' = [session EXCEPT
                 !.ring = Behind(room, @),
                 !.underruns = IF Len(session.ring) < room THEN CountUp(@) ELSE @]
            /\ thread' = [pc |-> "releasing", client |-> session.client]
    /\ UNCHANGED <<stage, world, reader, last, lost>>

RenderReleases ==
    /\ thread.pc = "releasing"
    /\ thread' = [pc |-> "looking", client |-> 0]
    /\ UNCHANGED <<stage, session, world, reader, last, lost>>

RenderThread == RenderLooks \/ RenderWakes \/ RenderFills \/ RenderReleases

-----------------------------------------------------------------------------
(* The capture thread and the playback thread *)

(* The device holds what it hears until it is read, also over a stop; what
   it has no room for makes the next packet one after a gap. *)
DeviceHears ==
    /\ world.capturing
    /\ world' = IF Len(world.packets) = Pending THEN [world EXCEPT !.gap = TRUE]
                ELSE [world EXCEPT !.packets =
                  @ \o Heard(1, IF session.mic THEN "aside" ELSE "speech", session.runs)]
    /\ UNCHANGED <<stage, session, thread, reader, last, lost>>

ReadBegins ==
    /\ IsOpen /\ reader.pc = "out"
    /\ reader' = [NoRead EXCEPT !.pc = "looking"]
    /\ UNCHANGED <<stage, session, world, thread, last, lost>>

(* The top of the loop: stopped, a whole frame, or on to the wait. *)
ReadLooks ==
    /\ reader.pc = "looking" /\ session.running
    /\ IF Len(session.accum) >= FrameUnits
         THEN /\ Set("accum", Behind(FrameUnits, session.accum))
              /\ reader' = [pc |-> "took", frame |-> Oldest(FrameUnits, session.accum)]
         ELSE /\ reader' = [reader EXCEPT !.pc = "waiting"]
              /\ UNCHANGED session
    /\ UNCHANGED <<stage, world, thread, last, lost>>

(* The wait ends with the deadline, or with packets to take; a call that
   polls takes what there is.  Room is made for no packet. *)
ReadDrains ==
    LET room == AccumUnits - Len(session.accum)
        taken == Oldest(room, world.packets)
        dropped == Len(world.packets) > room IN
    /\ reader.pc = "waiting"
    /\ session' = [session EXCEPT
         !.accum = @ \o [i \in 1 .. Len(taken) |->
              IF session.mic THEN Unit("silence", taken[i].run) ELSE taken[i]],
         !.overruns = IF dropped \/ (world.gap /\ taken # <<>>) THEN CountUp(@) ELSE @]
    /\ lost' = IF Len(session'.accum) < Len(session.accum) + Len(world.packets)
               THEN CountUp(lost) ELSE lost
    /\ world' = [world EXCEPT !.packets = <<>>, !.gap = @ /\ world.packets = <<>>]
    /\ reader' = [reader EXCEPT !.pc = "looking"]
    /\ UNCHANGED <<stage, thread, last>>

ReadReturns ==
    /\ \/ reader.pc = "took" /\ Returns("capture_read", "frame")
       \/ /\ reader.pc = "looking" /\ ~session.running
          /\ Returns("capture_read", "closed")
       \/ reader.pc = "waiting" /\ Returns("capture_read", "timeout")
    /\ reader' = NoRead
    /\ UNCHANGED <<stage, session, world, thread, lost>>

CaptureRead == ReadLooks \/ ReadDrains \/ ReadReturns

(* cleona_voice_playback_write: the oldest units make room for the newest. *)
PlaybackWrite ==
    /\ IsOpen \/ stage = "joining"
    /\ IF ~session.running
         THEN Returns("playback_write", "not_started") /\ UNCHANGED <<session, lost>>
         ELSE \/ Returns("playback_write", "frame_size") /\ UNCHANGED <<session, lost>>
              \/ LET over == Len(session.ring) + FrameUnits - RingUnits
                     kept == IF over > 0 THEN Behind(over, session.ring) ELSE session.ring IN
                 /\ session' = [session EXCEPT
                      !.ring = kept \o Heard(FrameUnits, "speech", session.runs),
                      !.overruns = IF over > 0 THEN CountUp(@) ELSE @]
                 /\ lost' = IF Len(session'.ring) - Len(session.ring) < FrameUnits
                            THEN CountUp(lost) ELSE lost
                 /\ Returns("playback_write", "ok")
    /\ UNCHANGED <<stage, world, thread, reader>>

-----------------------------------------------------------------------------
(* cleona_voice_get_report and what a caller has seen of a session. *)
Report ==
    [mic |-> session.mic, output |-> session.output, mask |-> session.mask,
     route |-> session.route, underruns |-> session.underruns,
     overruns |-> session.overruns]

State ==
    CASE stage \in {"none", "notify"} -> "none"
      [] stage = "thread" -> "starting"
      [] stage = "joining" -> "stopping"
      [] OTHER -> IF session.running THEN "running" ELSE "open"

Read ==
    IF reader.pc \in {"out", "looking"}
    THEN [out |-> "out", looking |-> "in"][reader.pc] ELSE "seen"

Lifecycle ==
    \/ OpenFails \/ OpenMakes \/ OpenRegisters \/ Start \/ StartMakesThread
    \/ Stop \/ StopEnds \/ Close \/ RenderThread

CaptureSide ==
    \/ DeviceHears \/ ReadBegins
    \/ \E muted \in Mutes : SetMuted("mic", muted)

PlaybackSide ==
    \/ PlaybackWrite
    \/ \E c \in Clients : EngineSignals(c)
    \/ \E muted \in Mutes : SetMuted("output", muted)

RouteSide ==
    \/ \E c \in Clients : EngineSignals(c)
    \/ EndpointsChange \/ OnDeviceStateChanged
    \/ GetRoutes \/ PollEvent \/ SetRoute

Next == Lifecycle \/ CaptureSide \/ CaptureRead \/ PlaybackSide \/ RouteSide

Spec ==
    /\ Init /\ [][Next]_windowsVars
    /\ WF_windowsVars(CaptureRead) /\ SF_windowsVars(ReadReturns)
    /\ WF_windowsVars(RenderThread)
    /\ \A c \in Clients : WF_windowsVars(EngineSignals(c))
    /\ WF_windowsVars(StartMakesThread \/ StopEnds \/ SetRouteSteps)
=============================================================================
