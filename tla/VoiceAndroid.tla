---------------------------- MODULE VoiceAndroid ----------------------------
(* The Android backend: the facade cleona_voice_android.c over VoiceSession.kt,
   from Android 12 on.  Each start makes a capture thread, a playback thread
   and a watcher of the routes; stop waits for the first two for a bounded
   time and for the watcher not at all, so one of an earlier start may still
   be there under a later one.  A thread knows its generation by its number. *)
EXTENDS VoiceSession

VARIABLES
    stage,     \* the control thread: "none", "done", or the step it is at
    session,   \* the fields of VoiceSession
    world,     \* what is on of the platform, its routes, and who watches them
    thread,    \* the threads of each start, and the call that writes
    reader,    \* the capture thread of the application
    last, lost

androidVars == <<stage, session, world, thread, reader, last, lost>>

Runs == 1 .. MaxStarts

(* cap: frames, each a sequence of units; pb: frames, each the start it was
   written after; gone: the platform said that the stream is lost. *)
Closed ==
    [runs |-> 0, gen |-> 0, running |-> FALSE, gone |-> FALSE, mic |-> FALSE,
     output |-> FALSE, cap |-> <<>>, pb |-> <<>>, underruns |-> 0,
     overruns |-> 0, events |-> <<>>]

AtRest ==
    [devices |-> {Speaker}, mode |-> FALSE, record |-> FALSE, watch |-> 0,
     told |-> TRUE]

NoWatcher == [pc |-> "idle", due |-> FALSE, mask |-> {}]
NoThreads ==
    [cap |-> [r \in Runs |-> [pc |-> "gone", slot |-> <<>>]],
     play |-> [r \in Runs |-> "gone"],
     watcher |-> [r \in Runs |-> NoWatcher],
     writing |-> 0]

NoRead == [pc |-> "out", frame |-> <<>>]

Init ==
    /\ stage = "none" /\ session = Closed /\ world = AtRest
    /\ thread = NoThreads /\ reader = NoRead
    /\ last = Result("none", "none") /\ lost = 0

IsOpen == stage = "done"
Returns(call, code) == last' = Result(call, code)
Set(field, value) == session' = [session EXCEPT ![field] = value]

(* FrameRing.offerDropOldest and reset *)
Offered(ring, frame) == Newest(RingFrames, Append(ring, frame))
IsFull(ring) == Len(ring) = RingFrames

(* Mutation: what was captured stays in the ring. *)
EmptiedOfPlayback(s) == [s EXCEPT !.pb = <<>>]

Emptied(s) == [s EXCEPT !.cap = <<>>, !.pb = <<>>]

-----------------------------------------------------------------------------
(* cleona_voice_open: permission, recorder, effects, track, buffers; what
   fails is released. *)
OpenRefused ==
    /\ stage = "none"
    /\ Returns("open", "refused")
    /\ UNCHANGED <<stage, session, world, thread, reader, lost>>

Open ==
    /\ stage = "none" /\ session.runs < MaxStarts
    /\ stage' = "done"
    /\ Returns("open", "ok")
    /\ UNCHANGED <<session, world, thread, reader, lost>>

-----------------------------------------------------------------------------
(* start, under the session's lock to its end *)
Start ==
    /\ IsOpen
    /\ IF session.running
         THEN Returns("start", "already_started") /\ UNCHANGED <<stage, world>>
         ELSE /\ session.runs < MaxStarts
              /\ world' = [world EXCEPT !.mode = TRUE]
              /\ stage' = "recording"
              /\ UNCHANGED last
    /\ UNCHANGED <<session, thread, reader, lost>>

(* Mutation: the track is refused and the recorder runs on. *)
LeavesRecorder(w) == [w EXCEPT !.mode = FALSE]

GivesUp(w) == [w EXCEPT !.mode = FALSE, !.record = FALSE]

StartFails ==
    /\ stage \in {"recording", "playing"}
    /\ world' = GivesUp(world)
    /\ stage' = "done"
    /\ Returns("start", "backend")
    /\ UNCHANGED <<session, thread, reader, lost>>

StartRecords ==
    /\ stage = "recording"
    /\ world' = [world EXCEPT !.record = TRUE]
    /\ stage' = "playing"
    /\ UNCHANGED <<session, thread, reader, last, lost>>

(* The session runs before its generation is counted. *)
StartPlays ==
    /\ stage = "playing"
    /\ session' = [Emptied(session) EXCEPT
                     !.gone = FALSE, !.running = TRUE, !.runs = @ + 1]
    /\ stage' = "counting"
    /\ UNCHANGED <<world, thread, reader, last, lost>>

(* The watcher is told of the routes there are when it is registered. *)
StartCounts ==
    /\ stage = "counting"
    /\ Set("gen", session.runs)
    /\ world' = [world EXCEPT !.watch = session.runs, !.told = FALSE]
    /\ thread' = [thread EXCEPT !.cap[session.runs].pc = "looking",
                                !.play[session.runs] = "looking"]
    /\ stage' = "done"
    /\ Returns("start", "ok")
    /\ UNCHANGED <<reader, lost>>

(* stop: it waits between its two sections under the lock, and goes on when
   the threads have ended or its time is over. *)
Stop ==
    /\ IsOpen
    /\ Set("running", FALSE)
    /\ IF session.running
         THEN stage' = "stopping" /\ UNCHANGED last
         ELSE Returns("stop", "ok") /\ UNCHANGED stage
    /\ UNCHANGED <<world, thread, reader, lost>>

StopEnds ==
    /\ stage = "stopping"
    /\ session' = Emptied(session)
    /\ world' = [world EXCEPT !.mode = FALSE, !.record = FALSE, !.watch = 0]
    /\ stage' = "done"
    /\ Returns("stop", "ok")
    /\ UNCHANGED <<thread, reader, lost>>

(* release after stop.  Threads that are still there end on what is closed. *)
Close ==
    /\ IsOpen /\ ~session.running /\ reader.pc = "out" /\ thread.writing = 0
    /\ stage' = "none"
    /\ session' = [Closed EXCEPT !.runs = session.runs, !.gen = session.runs]
    /\ thread' = NoThreads
    /\ lost' = 0
    /\ Returns("close", "ok")
    /\ UNCHANGED <<world, reader>>

-----------------------------------------------------------------------------
(* The loops of the two threads *)

(* Mutation: a thread looks no more than whether the session runs. *)
AnyRun(r) == session.running

MayGoOn(r) == session.running /\ r = session.gen

(* captureLoop.  A frame that was begun is put back before the thread looks
   once more. *)
CaptureLooks(r) ==
    LET t == thread.cap[r] IN
    /\ t.pc = "looking"
    /\ thread' = [thread EXCEPT !.cap[r] =
         IF MayGoOn(r) THEN [t EXCEPT !.pc = "reading"]
         ELSE IF t.slot # <<>> THEN [t EXCEPT !.slot = <<>>]
         ELSE [t EXCEPT !.pc = "gone"]]
    /\ UNCHANGED <<stage, session, world, reader, last, lost>>

CaptureReads(r) ==
    LET t == thread.cap[r] IN
    /\ t.pc = "reading"
    /\ \E n \in 0 .. FrameUnits - Len(t.slot) :
         LET slot == t.slot \o Heard(n, "speech", session.runs) IN
         thread' = [thread EXCEPT !.cap[r] =
           [pc |-> IF Len(slot) = FrameUnits THEN "offering" ELSE "looking", slot |-> slot]]
    /\ UNCHANGED <<stage, session, world, reader, last, lost>>

CaptureLoses(r) ==
    /\ thread.cap[r].pc = "reading"
    /\ thread' = [thread EXCEPT !.cap[r] = NoThreads.cap[r]]
    /\ Set("gone", TRUE)
    /\ UNCHANGED <<stage, world, reader, last, lost>>

CaptureOffers(r) ==
    LET t == thread.cap[r] IN
    /\ t.pc = "offering"
    /\ session' = [session EXCEPT !.cap = Offered(@, t.slot),
                     !.overruns = IF IsFull(session.cap) THEN CountUp(@) ELSE @]
    /\ lost' = IF Len(session'.cap) = Len(session.cap) THEN CountUp(lost) ELSE lost
    /\ thread' = [thread EXCEPT !.cap[r] = [pc |-> "looking", slot |-> <<>>]]
    /\ UNCHANGED <<stage, world, reader, last>>

CaptureThread(r) == CaptureLooks(r) \/ CaptureReads(r) \/ CaptureLoses(r) \/ CaptureOffers(r)

(* playbackLoop: a frame, or silence when none comes in time. *)
PlayLooks(r) ==
    /\ thread.play[r] = "looking"
    /\ thread' = [thread EXCEPT !.play[r] = IF MayGoOn(r) THEN "taking" ELSE "gone"]
    /\ UNCHANGED <<stage, session, world, reader, last, lost>>

PlayTakes(r) ==
    /\ thread.play[r] = "taking"
    /\ session' = IF session.pb = <<>> THEN [session EXCEPT !.underruns = CountUp(@)]
                  ELSE [session EXCEPT !.pb = Tail(@)]
    /\ thread' = [thread EXCEPT !.play[r] = "writing"]
    /\ UNCHANGED <<stage, world, reader, last, lost>>

PlayWrites(r) ==
    /\ thread.play[r] = "writing"
    /\ \E pc \in {"looking", "gone"} : thread' = [thread EXCEPT !.play[r] = pc]
    /\ UNCHANGED <<stage, session, world, reader, last, lost>>

-----------------------------------------------------------------------------
(* Routes.  What the watcher is told of waits for it, though it is no longer
   registered; it reads the mask without the lock and posts it under it. *)
DevicesChange ==
    /\ stage # "none"
    /\ \E devices \in SUBSET Routes \ {world.devices} :
         world' = [world EXCEPT !.devices = devices, !.told = FALSE]
    /\ UNCHANGED <<stage, session, thread, reader, last, lost>>

WatcherIsCalled ==
    /\ world.watch # 0 /\ ~world.told
    /\ world' = [world EXCEPT !.told = TRUE]
    /\ thread' = [thread EXCEPT !.watcher[world.watch].due = TRUE]
    /\ UNCHANGED <<stage, session, reader, last, lost>>

WatcherReads(r) ==
    /\ thread.watcher[r].pc = "idle" /\ thread.watcher[r].due
    /\ thread' = [thread EXCEPT !.watcher[r] =
                    [pc |-> "posting", due |-> FALSE, mask |-> world.devices]]
    /\ UNCHANGED <<stage, session, world, reader, last, lost>>

WatcherPosts(r) ==
    LET w == thread.watcher[r] IN
    /\ w.pc = "posting" /\ stage \in {"done", "stopping"}
    /\ Set("events", PushEvent(session.events, RoutesChanged(w.mask)))
    /\ thread' = [thread EXCEPT !.watcher[r] = [w EXCEPT !.pc = "idle", !.mask = {}]]
    /\ UNCHANGED <<stage, world, reader, last, lost>>

(* The platform may refuse each device of a route; one that it takes is news. *)
SetRoute(route) ==
    /\ IsOpen
    /\ \/ Returns("set_route", "refused") /\ UNCHANGED world
       \/ /\ route \in world.devices
          /\ world' = [world EXCEPT !.told = FALSE]
          /\ Returns("set_route", "ok")
    /\ UNCHANGED <<stage, session, thread, reader, lost>>

PollEvent ==
    /\ IsOpen /\ session.events # <<>>
    /\ Set("events", Tail(session.events))
    /\ UNCHANGED <<stage, world, thread, reader, last, lost>>

SetMuted(side, muted) ==
    /\ IsOpen
    /\ Set(side, muted)
    /\ Returns(SetCall[side], IF muted THEN "on" ELSE "off")
    /\ UNCHANGED <<stage, world, thread, reader, lost>>

-----------------------------------------------------------------------------
(* cleona_voice_capture_read: a look at the flags, the ring, and the flags
   once more when the ring gave nothing. *)
ReadBegins ==
    /\ IsOpen /\ reader.pc = "out"
    /\ reader' = [NoRead EXCEPT !.pc = "in"]
    /\ UNCHANGED <<stage, session, world, thread, last, lost>>

ReadLooks ==
    /\ reader.pc = "in" /\ session.running
    /\ reader' = [reader EXCEPT !.pc = "waiting"]
    /\ UNCHANGED <<stage, session, world, thread, last, lost>>

(* The mute of this moment decides. *)
ReadTakes ==
    /\ reader.pc = "waiting"
    /\ IF session.cap = <<>>
         THEN reader' = [reader EXCEPT !.pc = "empty"] /\ UNCHANGED session
         ELSE /\ reader' = [pc |-> "took",
                            frame |-> IF session.mic THEN Silence(FrameUnits, session.runs)
                                      ELSE Head(session.cap)]
              /\ Set("cap", Tail(session.cap))
    /\ UNCHANGED <<stage, world, thread, last, lost>>

ReadReturns ==
    /\ \/ reader.pc = "in" /\ ~session.running /\ Returns("capture_read", "closed")
       \/ reader.pc = "took" /\ Returns("capture_read", "frame")
       \/ /\ reader.pc = "empty"
          /\ Returns("capture_read",
               IF ~session.running \/ session.gone THEN "closed" ELSE "timeout")
    /\ reader' = NoRead
    /\ UNCHANGED <<stage, session, world, thread, lost>>

CaptureRead == ReadLooks \/ ReadTakes \/ ReadReturns

(* cleona_voice_playback_write: the answer is settled by the flags, and the
   frame put into the ring thereafter. *)
WriteLooks ==
    /\ stage # "none" /\ thread.writing = 0
    /\ \/ ~session.running /\ Returns("playback_write", "not_started") /\ UNCHANGED thread
       \/ session.running /\ Returns("playback_write", "frame_size") /\ UNCHANGED thread
       \/ /\ session.running /\ Returns("playback_write", "ok")
          /\ thread' = [thread EXCEPT !.writing = session.runs]
    /\ UNCHANGED <<stage, session, world, reader, lost>>

WriteOffers ==
    /\ thread.writing # 0
    /\ session' = [session EXCEPT !.pb = Offered(@, thread.writing),
                     !.overruns = IF IsFull(session.pb) THEN CountUp(@) ELSE @]
    /\ lost' = IF Len(session'.pb) = Len(session.pb) THEN CountUp(lost) ELSE lost
    /\ thread' = [thread EXCEPT !.writing = 0]
    /\ UNCHANGED <<stage, world, reader, last>>

-----------------------------------------------------------------------------
State ==
    CASE stage = "done" -> IF session.running THEN "running" ELSE "open"
      [] stage \in {"recording", "playing"} -> "open"
      [] stage = "counting" -> "starting"
      [] OTHER -> stage

Read == [out |-> "out", in |-> "in", waiting |-> "seen", took |-> "seen",
         empty |-> "in"][reader.pc]

(* What is of an earlier start: in the rings, and in somebody's hand. *)
Old(frame) == \E i \in DOMAIN frame : frame[i].run # session.runs
InHand ==
    Cardinality({r \in Runs : Old(thread.cap[r].slot)})
      + IF thread.writing \in {0, session.runs} THEN 0 ELSE 1
Leftovers ==
    InHand + Cardinality({i \in DOMAIN session.cap : Old(session.cap[i])})
      + Cardinality({i \in DOMAIN session.pb : session.pb[i] # session.runs})

ControlSteps == StartFails \/ StartRecords \/ StartPlays \/ StartCounts \/ StopEnds

Lifecycle == OpenRefused \/ Open \/ Start \/ ControlSteps \/ Stop \/ Close

CaptureSide ==
    \/ ReadBegins
    \/ \E r \in Runs : CaptureThread(r)
    \/ \E muted \in Mutes : SetMuted("mic", muted)

PlaybackSide ==
    \/ WriteLooks \/ WriteOffers
    \/ \E r \in Runs : PlayLooks(r) \/ PlayTakes(r) \/ PlayWrites(r)
    \/ \E muted \in Mutes : SetMuted("output", muted)

RouteSide ==
    \/ DevicesChange \/ WatcherIsCalled \/ PollEvent
    \/ \E r \in Runs : WatcherReads(r) \/ WatcherPosts(r)
    \/ \E route \in Routes \cup {UnknownRoute} : SetRoute(route)
=============================================================================
