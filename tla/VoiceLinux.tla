----------------------------- MODULE VoiceLinux -----------------------------
(* The PipeWire backend, src/native/cleona_voice/linux/cleona_voice_linux.c:
   one session in the process, the loop thread's callbacks, a thread that
   reads frames, one that writes them and one that controls the session.
   Every section under the session's lock is one step; open is a step for
   each thing PipeWire may refuse. *)
EXTENDS VoiceSession

CONSTANT Rates    \* rates a stream may agree on; 0 is one the code ignores

VARIABLES
    guard,      \* g_session_active
    stage,      \* how far open has come; "none" and "done" at its two ends
    session,    \* struct cleona_voice_session
    world,      \* the rate the last format of each stream named, 0 before the first
    reader,     \* the capture thread's call
    last,       \* the latest result of a call
    lost        \* times units were lost, as the buffers before and after show

linuxVars == <<guard, stage, session, world, reader, last, lost>>

Chunks == 1 .. FrameUnits + 1
AccumUnits == (RingFrames + 1) * FrameUnits
RingUnits == RingFrames * FrameUnits

Closed ==
    [runs |-> 0, fmt |-> 0, fmtReady |-> FALSE, openError |-> FALSE,
     chain |-> "none", running |-> FALSE, mic |-> FALSE, output |-> FALSE,
     accum |-> <<>>, ring |-> <<>>, render |-> <<>>, underruns |-> 0,
     overruns |-> 0, mask |-> {}, route |-> UnknownRoute, events |-> <<>>]

NoRead == [pc |-> "out", frame |-> <<>>, ref |-> <<>>]

Init ==
    /\ guard = FALSE
    /\ stage = "none"
    /\ session = Closed
    /\ world = [capture |-> 0, playback |-> 0]
    /\ reader = NoRead
    /\ last = Result("none", "none")
    /\ lost = 0

IsOpen == stage = "done"
Set(field, value) == session' = [session EXCEPT ![field] = value]
Returns(call, code) == last' = Result(call, code)

-----------------------------------------------------------------------------
(* cleona_voice_open *)

OpenRefused ==
    /\ guard /\ stage \in {"none", "done"}
    /\ Returns("open", "refused")
    /\ UNCHANGED <<guard, stage, session, world, reader, lost>>

OpenClaims ==
    /\ ~guard /\ session.runs < MaxStarts
    /\ guard' = TRUE
    /\ stage' = "connect"
    /\ UNCHANGED <<session, world, reader, last, lost>>

(* goto fail_backend and fail_no_session: everything made is destroyed and
   the guard given back. *)
TakenDown(guardLeft) ==
    /\ guard' = guardLeft
    /\ stage' = "none"
    /\ session' = [Closed EXCEPT !.runs = session.runs]
    /\ world' = [capture |-> 0, playback |-> 0]
    /\ lost' = 0
    /\ Returns("open", "refused")
    /\ UNCHANGED reader

(* Mutation: a return that forgets the guard. *)
OpenFailsHolding == TakenDown(TRUE)

OpenFails == TakenDown(FALSE)

OpenGoesOn(from, to) ==
    /\ stage = from
    /\ stage' = to
    /\ UNCHANGED <<guard, world, reader, last, lost>>

(* calloc, loop, context, core; a stream; the linked chain's create. *)
OpenRefusedByPlatform ==
    /\ stage \in {"connect", "module", "roundtrip", "capture", "playback", "apm"}
    /\ OpenFails

OpenConnects == OpenGoesOn("connect", "module") /\ UNCHANGED session

(* The filter with echo cancelling, or the passthrough with the linked one. *)
OpenLoadsModule ==
    /\ OpenGoesOn("module", "roundtrip")
    /\ \E chain \in {"pipewire_filter", "linked_apm"} : Set("chain", chain)

OpenRoundtrip == OpenGoesOn("roundtrip", "capture") /\ UNCHANGED session

OpenMakesStreams ==
    /\ \/ OpenGoesOn("capture", "playback")
       \/ OpenGoesOn("playback", "format")
    /\ UNCHANGED session

(* The wait ends with a format, with a recorded error or at its deadline. *)
OpenHasFormat ==
    /\ session.fmtReady /\ ~session.openError
    /\ OpenGoesOn("format", IF session.chain = "linked_apm" THEN "apm" ELSE "registry")
    /\ UNCHANGED session

OpenHasNoFormat ==
    /\ stage = "format"
    /\ session.openError \/ ~session.fmtReady
    /\ OpenFails

OpenCreatesApm == OpenGoesOn("apm", "registry") /\ UNCHANGED session

OpenListensToRegistry == OpenGoesOn("registry", "routes") /\ UNCHANGED session

OpenSettlesRoute ==
    LET mask == IF session.mask = {} THEN {Speaker} ELSE session.mask IN
    /\ stage = "routes"
    /\ stage' = "done"
    /\ session' = [session EXCEPT
         !.mask = mask,
         !.route = IF Speaker \in mask THEN Speaker ELSE LowestRoute(mask)]
    /\ Returns("open", "ok")
    /\ UNCHANGED <<guard, world, reader, lost>>

Open ==
    \/ OpenRefused \/ OpenClaims \/ OpenRefusedByPlatform \/ OpenConnects
    \/ OpenLoadsModule \/ OpenRoundtrip \/ OpenMakesStreams \/ OpenHasFormat
    \/ OpenHasNoFormat \/ OpenCreatesApm \/ OpenListensToRegistry
    \/ OpenSettlesRoute

-----------------------------------------------------------------------------
(* Callbacks of the loop thread *)

HasCapture == stage \notin {"none", "connect", "module", "roundtrip", "capture"}
HasPlayback == HasCapture /\ stage # "playback"
HasRegistry == stage \in {"routes", "done"}

(* The capture stream is the authority of the format. *)
CaptureParamChanged(rate) ==
    /\ HasCapture /\ world.capture # rate
    /\ world' = [world EXCEPT !.capture = rate]
    /\ session' =
         IF rate = 0 THEN session
         ELSE IF session.fmt = 0
           THEN [session EXCEPT !.fmt = rate, !.fmtReady = TRUE]
           ELSE [session EXCEPT !.fmtReady = TRUE,
                   !.openError = @ \/ session.fmt # rate]
    /\ UNCHANGED <<guard, stage, reader, last, lost>>

PlaybackParamChanged(rate) ==
    /\ HasPlayback /\ world.playback # rate /\ rate # 0
    /\ world' = [world EXCEPT !.playback = rate]
    /\ IF session.fmt \notin {0, rate}
         THEN Set("openError", TRUE)
         ELSE UNCHANGED session
    /\ UNCHANGED <<guard, stage, reader, last, lost>>

(* cvl_capture_process: a chunk the buffer has no room for is dropped. *)
CaptureProcess ==
    /\ HasCapture /\ session.fmtReady
    /\ \E n \in Chunks :
         LET chunk == IF session.mic THEN Silence(n, session.runs)
                      ELSE Heard(n, "speech", session.runs)
             fits == Len(session.accum) + n <= AccumUnits IN
         /\ session' = [session EXCEPT
              !.accum = IF fits THEN @ \o chunk ELSE @,
              !.overruns = IF fits THEN @ ELSE CountUp(@)]
         /\ lost' = IF Len(session'.accum) - Len(session.accum) < n
                    THEN CountUp(lost) ELSE lost
    /\ UNCHANGED <<guard, stage, world, reader, last>>

(* cvl_playback_process: what is missing is silence and an underrun; a muted
   output takes the units and plays silence. *)
PlaybackProcess ==
    /\ HasPlayback /\ session.fmtReady
    /\ \E want \in Chunks :
         session' = [session EXCEPT
           !.ring = Behind(want, @),
           !.underruns = IF Len(session.ring) < want THEN CountUp(@) ELSE @]
    /\ UNCHANGED <<guard, stage, world, reader, last, lost>>

News(mask) ==
    IF session.running THEN PushEvent(session.events, RoutesChanged(mask))
    ELSE session.events

RegistryGlobal(route) ==
    LET mask == session.mask \cup {route} IN
    /\ HasRegistry
    /\ session' = [session EXCEPT !.mask = mask, !.events = News(mask)]
    /\ UNCHANGED <<guard, stage, world, reader, last, lost>>

(* Any object of the registry that goes, a sink or not. *)
RegistryGlobalRemove ==
    /\ HasRegistry /\ session.running
    /\ session' = [session EXCEPT !.route = UnknownRoute, !.events = News(session.mask)]
    /\ UNCHANGED <<guard, stage, world, reader, last, lost>>

-----------------------------------------------------------------------------
(* The control thread *)

(* Mutation: a start unmutes. *)
BegunUnmuted(s) ==
    [s EXCEPT !.running = TRUE, !.runs = @ + 1, !.mic = FALSE, !.accum = <<>>, !.ring = <<>>]

Begun(s) == [s EXCEPT !.running = TRUE, !.runs = @ + 1, !.accum = <<>>, !.ring = <<>>]

Start ==
    /\ IsOpen
    /\ session.running \/ session.runs < MaxStarts
    /\ IF session.running
         THEN UNCHANGED session /\ Returns("start", "already_started")
         ELSE /\ session' = Begun(session)
              /\ Returns("start", "ok")
    /\ UNCHANGED <<guard, stage, world, reader, lost>>

Stop ==
    /\ IsOpen
    /\ Set("running", FALSE)
    /\ Returns("stop", "ok")
    /\ UNCHANGED <<guard, stage, world, reader, lost>>

(* No other call is in flight; the guard goes last. *)
Close ==
    /\ IsOpen /\ reader.pc = "out"
    /\ stage' = "none"
    /\ guard' = FALSE
    /\ session' = [Closed EXCEPT !.runs = session.runs]
    /\ world' = [capture |-> 0, playback |-> 0]
    /\ lost' = 0
    /\ Returns("close", "ok")
    /\ UNCHANGED reader

SetMuted(side, muted) ==
    /\ IsOpen
    /\ Set(side, muted)
    /\ Returns(SetCall[side], IF muted THEN "on" ELSE "off")
    /\ UNCHANGED <<guard, stage, world, reader, lost>>

SetRoute(route) ==
    /\ IsOpen
    /\ Returns("set_route", IF route \in session.mask /\ route = session.route
                            THEN "ok" ELSE "refused")
    /\ UNCHANGED <<guard, stage, session, world, reader, lost>>

PollEvent ==
    /\ IsOpen /\ session.events # <<>>
    /\ Set("events", Tail(session.events))
    /\ UNCHANGED <<guard, stage, world, reader, last, lost>>

-----------------------------------------------------------------------------
(* The capture thread and the playback thread *)

ReadBegins ==
    /\ IsOpen /\ reader.pc = "out"
    /\ reader' = [NoRead EXCEPT !.pc = "waiting"]
    /\ UNCHANGED <<guard, stage, session, world, last, lost>>

(* One turn of the loop: stopped, a whole frame, or the deadline.  A turn
   that finds none of them sleeps, and wakes to the next. *)
ReadTakes ==
    /\ reader.pc = "waiting" /\ session.running
    /\ Len(session.accum) >= FrameUnits
    /\ Set("accum", Behind(FrameUnits, session.accum))
    /\ reader' = [pc |-> IF session.chain = "linked_apm" THEN "first_half" ELSE "took",
                  frame |-> Oldest(FrameUnits, session.accum), ref |-> <<>>]
    /\ UNCHANGED <<guard, stage, world, last, lost>>

SeenStopped == ~session.running

ReadReturns ==
    /\ \/ reader.pc = "took" /\ Returns("capture_read", "frame")
       \/ reader.pc = "waiting" /\ SeenStopped /\ Returns("capture_read", "closed")
       \/ /\ reader.pc = "waiting" /\ session.running
          /\ Len(session.accum) < FrameUnits
          /\ Returns("capture_read", "timeout")
    /\ reader' = NoRead
    /\ UNCHANGED <<guard, stage, session, world, lost>>

(* cvl_apply_apm_capture: each half of the frame takes the half frame of the
   reference that is due, or as much of it as there is. *)
ReadCancels ==
    /\ reader.pc \in {"first_half", "second_half"}
    /\ LET half == FrameUnits \div 2 IN
       /\ Set("render", Behind(half, session.render))
       /\ reader' = [reader EXCEPT
            !.pc = IF @ = "first_half" THEN "second_half" ELSE "took",
            !.ref = @ \o Oldest(half, session.render)]
    /\ UNCHANGED <<guard, stage, world, last, lost>>

CaptureRead == ReadTakes \/ ReadReturns \/ ReadCancels

(* cleona_voice_playback_write: never waits; a frame too many is dropped. *)
PlaybackWrite ==
    /\ IsOpen
    /\ IF ~session.running
         THEN Returns("playback_write", "not_started") /\ UNCHANGED <<session, lost>>
         ELSE \/ Returns("playback_write", "frame_size") /\ UNCHANGED <<session, lost>>
              \/ LET frame == Heard(FrameUnits, "speech", session.runs)
                     fits == Len(session.ring) + FrameUnits <= RingUnits
                     refers == /\ fits /\ session.chain = "linked_apm"
                               /\ Len(session.render) + FrameUnits <= RingUnits IN
                 /\ session' = [session EXCEPT
                      !.ring = IF fits THEN @ \o frame ELSE @,
                      !.render = IF refers THEN @ \o frame ELSE @,
                      !.overruns = IF fits THEN @ ELSE CountUp(@)]
                 /\ lost' = IF Len(session'.ring) - Len(session.ring) < FrameUnits
                            THEN CountUp(lost) ELSE lost
                 /\ Returns("playback_write", "ok")
    /\ UNCHANGED <<guard, stage, world, reader>>

-----------------------------------------------------------------------------
(* cleona_voice_get_report and what a caller has seen of a session. *)
Report ==
    [mic |-> session.mic, output |-> session.output, mask |-> session.mask,
     route |-> session.route, underruns |-> session.underruns,
     overruns |-> session.overruns]

State ==
    IF ~IsOpen THEN "none" ELSE IF session.running THEN "running" ELSE "open"

Read ==
    IF reader.pc \in {"out", "waiting"}
    THEN [out |-> "out", waiting |-> "in"][reader.pc] ELSE "seen"

(* The calls and callbacks by what they work on. *)
Lifecycle ==
    \/ Open \/ Start \/ Stop \/ Close
    \/ \E rate \in Rates : CaptureParamChanged(rate) \/ PlaybackParamChanged(rate)

CaptureSide ==
    \/ CaptureProcess \/ ReadBegins
    \/ \E muted \in Mutes : SetMuted("mic", muted)

PlaybackSide ==
    \/ PlaybackProcess \/ PlaybackWrite
    \/ \E muted \in Mutes : SetMuted("output", muted)

RouteSide ==
    \/ RegistryGlobalRemove \/ PollEvent
    \/ \E route \in Routes : RegistryGlobal(route)
    \/ \E route \in Routes \cup {UnknownRoute} : SetRoute(route)

Next == Lifecycle \/ CaptureSide \/ CaptureRead \/ PlaybackSide \/ RouteSide

Spec == Init /\ [][Next]_linuxVars /\ WF_linuxVars(CaptureRead)
=============================================================================
