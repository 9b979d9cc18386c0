---------------------------- MODULE VoiceBackends ----------------------------
(* One process with one of the five voice backends, and what must hold of
   each.  An instance looks at one side of a session at a time: its coming
   and going happen under every focus, the rest under its own. *)
EXTENDS VoiceSession

CONSTANTS
    Backends, Focuses,    \* of this instance
    Rates, MaxClients, Pending, Platforms, MaxChunk

ASSUME FocusAssumption ==
    /\ Backends \subseteq {"linux", "windows", "apple", "android", "mock"}
    /\ Focuses \subseteq {"capture", "playback", "routes", "formats"}

(* cleona_voice_open of the mock clamps chunk_max to one sample at least. *)
ASSUME ChunkAssumption == MaxChunk \in Nat \ {0}

VARIABLES
    backend, focus,
    guard, live, stage, session, world, thread, reader, last, lost

voiceVars == <<backend, focus, guard, live, stage, session, world, thread,
               reader, last, lost>>

L == INSTANCE VoiceLinux
W == INSTANCE VoiceWindows
A == INSTANCE VoiceApple
D == INSTANCE VoiceAndroid
M == INSTANCE VoiceMock

Unused == [guard |-> FALSE, live |-> {}, thread |-> [pc |-> "none"]]

Init ==
    /\ focus \in Focuses /\ backend \in Backends
    /\ backend # "linux" => guard = Unused.guard
    /\ backend # "apple" => live = Unused.live
    /\ backend \notin {"windows", "apple", "android"} => thread = Unused.thread
    /\ \/ backend = "linux" /\ L!Init
       \/ backend = "windows" /\ W!Init
       \/ backend = "apple" /\ A!Init
       \/ backend = "android" /\ D!Init
       \/ backend = "mock" /\ M!Init

-----------------------------------------------------------------------------
(* Bounds on what an instance tries outside the focus that is about it. *)
LinuxStep ==
    /\ backend = "linux"
    /\ \/ L!Lifecycle
       \/ focus = "capture" /\ (L!CaptureSide \/ L!CaptureRead)
       \/ focus = "playback" /\ L!PlaybackSide
       \/ focus = "routes" /\ L!RouteSide
    /\ focus # "formats" => world'.capture \in {0, 1}
    /\ focus # "formats" => world'.playback = 0
    /\ UNCHANGED <<live, thread>>

WindowsStep ==
    /\ backend = "windows"
    /\ \/ W!Lifecycle
       \/ focus = "capture" /\ (W!CaptureSide \/ W!CaptureRead)
       \/ focus = "playback" /\ W!PlaybackSide
       \/ focus = "routes" /\ W!RouteSide
    /\ focus = "routes" => session'.runs <= 1
    /\ UNCHANGED <<guard, live>>

AppleStep ==
    /\ backend = "apple"
    /\ \/ A!Lifecycle
       \/ focus = "capture" /\ (A!CaptureSide \/ A!CaptureRead)
       \/ focus = "playback" /\ A!PlaybackSide
       \/ focus = "routes" /\ A!RouteSide
    /\ UNCHANGED guard

AndroidStep ==
    /\ backend = "android"
    /\ \/ D!Lifecycle
       \/ focus = "capture" /\ (D!CaptureSide \/ D!CaptureRead)
       \/ focus = "playback" /\ D!PlaybackSide
       \/ focus = "routes" /\ D!RouteSide
    /\ UNCHANGED <<guard, live>>

MockStep ==
    /\ backend = "mock"
    /\ \/ M!Lifecycle
       \/ focus = "capture" /\ (M!CaptureSide \/ M!CaptureRead)
       \/ focus = "playback" /\ M!PlaybackSide
       \/ focus = "routes" /\ M!RouteSide
    /\ focus = "routes" \/ session'.mask \subseteq {Speaker}
    /\ UNCHANGED <<guard, live, thread>>

Next ==
    /\ LinuxStep \/ WindowsStep \/ AppleStep \/ AndroidStep \/ MockStep
    /\ UNCHANGED <<backend, focus>>

(* A call that reads ends, at its deadline at the latest; threads and the
   audio engine run; the control thread does not stop in the middle. *)
CaptureRead ==
    /\ \/ backend = "linux" /\ L!CaptureRead /\ UNCHANGED <<live, thread>>
       \/ backend = "windows" /\ W!CaptureRead /\ UNCHANGED <<guard, live>>
       \/ backend = "apple" /\ A!CaptureRead /\ UNCHANGED guard
       \/ backend = "android" /\ D!CaptureRead /\ UNCHANGED <<guard, live>>
       \/ backend = "mock" /\ M!CaptureRead /\ UNCHANGED <<guard, live, thread>>
    /\ UNCHANGED <<backend, focus>>

ReadReturns ==
    /\ \/ backend = "linux" /\ L!ReadReturns /\ UNCHANGED <<live, thread>>
       \/ backend = "windows" /\ W!ReadReturns /\ UNCHANGED <<guard, live>>
       \/ backend = "apple" /\ A!ReadReturns /\ UNCHANGED guard
       \/ backend = "android" /\ D!ReadReturns /\ UNCHANGED <<guard, live>>
       \/ backend = "mock" /\ M!ReadReturns /\ UNCHANGED <<guard, live, thread>>
    /\ UNCHANGED <<backend, focus>>

Windows(step) == backend = "windows" /\ step /\ UNCHANGED <<backend, focus, guard, live>>
Apple(step) == backend = "apple" /\ step /\ UNCHANGED <<backend, focus, guard>>
Android(step) == backend = "android" /\ step /\ UNCHANGED <<backend, focus, guard, live>>

Fairness ==
    /\ WF_voiceVars(CaptureRead) /\ SF_voiceVars(ReadReturns)
    /\ WF_voiceVars(Windows(W!RenderThread))
    /\ \A c \in W!Clients : WF_voiceVars(Windows(focus \in {"playback", "routes"} /\ W!EngineSignals(c)))
    /\ WF_voiceVars(Windows(W!StartMakesThread \/ W!StopEnds \/ W!SetRouteSteps))
    /\ WF_voiceVars(Apple(A!Listener))
    /\ WF_voiceVars(Apple(A!ControlSteps))
    /\ WF_voiceVars(Android(D!ControlSteps))
    /\ \A r \in D!Runs : WF_voiceVars(Android(focus = "capture" /\ D!CaptureThread(r)))

SafetySpec == Init /\ [][Next]_voiceVars
Spec == SafetySpec /\ Fairness

-----------------------------------------------------------------------------
(* Every part of a session has its type, and no buffer outgrows the array
   the code allocated for it. *)
TypeOK ==
    /\ guard \in BOOLEAN /\ live \subseteq Platforms
    /\ session.running \in BOOLEAN /\ session.mic \in BOOLEAN /\ session.output \in BOOLEAN
    /\ session.runs <= MaxStarts /\ Len(session.events) <= EventQueue
    /\ session.underruns <= MaxCount /\ session.overruns <= MaxCount
    /\ backend = "linux" =>
         /\ Len(session.accum) <= L!AccumUnits
         /\ Len(session.ring) <= L!RingUnits /\ Len(session.render) <= L!RingUnits
    /\ backend = "windows" =>
         Len(session.accum) <= W!AccumUnits /\ Len(session.ring) <= W!RingUnits
    /\ backend = "apple" =>
         Len(session.cap) <= A!CaptureUnits /\ Len(session.pb) <= A!PlaybackUnits
    /\ backend = "android" => Len(session.cap) <= RingFrames /\ Len(session.pb) <= RingFrames
    /\ backend = "mock" => Len(session.accum) <= M!AccumUnits

(* The backend of PipeWire lets one session in: the guard is held exactly
   while one is being opened or is open, whichever step of open failed. *)
GuardHeldOnlyForASession ==
    backend = "linux" => (guard <=> stage # "none")

(* A frame is handed out whole and only of what was heard after the latest
   start: nothing gathered before a stop is left over.  WASAPI keeps packets
   over a stop, so this is not said of it. *)
FrameIsFresh ==
    backend \notin {"windows", "android"} /\ reader'.frame \notin {reader.frame, <<>>} =>
      /\ Len(reader'.frame) = FrameUnits
      /\ \A i \in 1 .. FrameUnits : reader'.frame[i].run = session.runs

(* On Android a stop does not wait for ever: a thread, or a call that writes,
   may outlive it with a frame in its hand.  That is all there is left of an
   earlier start: nothing waits in a ring, and nothing is added. *)
LeftoversWereInHand ==
    backend = "android" /\ D!Leftovers' > D!Leftovers =>
      session'.runs > session.runs /\ D!Leftovers' = D!InHand'

(* No start finds what was heard or written before it, but for what Android's
   bounded stop leaves in a hand. *)
StartsAfresh == [][FrameIsFresh /\ LeftoversWereInHand]_voiceVars

(* Between two calls of the control thread the recorder, the mode of the
   device and the watcher of the routes are on exactly when the session
   runs, whatever the platform refused at a start. *)
PlatformFollowsTheRun ==
    backend = "android" /\ stage \in {"none", "done"} =>
      {world.record, world.mode, world.watch # 0} = {session.running}

(* What is said while the microphone is muted is never handed out, not once
   it is heard again either.  The two backends that silence a unit as it
   comes from the device or the clock promise it; the other three silence what
   a call takes, by the mute at that moment. *)
MutedIsSilent ==
    backend \in {"linux", "mock"} =>
      \A i \in 1 .. Len(reader.frame) : reader.frame[i].sound # "aside"

(* Samples lost are counted in the report: no buffer overflows silently. *)
LossIsCounted == lost <= session.overruns

(* The newest news in the queue is the mask a look at the routes would give,
   from the moment its cause was told.  A PipeWire session is told nothing
   while it is stopped, the listener of Apple's unit, told during open, reads
   no route, and Android's watcher of an earlier start may post after the one
   of a later: these are not spoken of. *)
LatestNews == session.events[Len(session.events)]

NewsIsTrue ==
    session.events # <<>> /\ LatestNews.event = "routes_changed" =>
      LET told == LatestNews.mask IN
      /\ backend \in {"windows", "mock"} => told = session.mask
      /\ backend = "windows" /\ world.told /\ session.notify => session.mask = W!Mask
      /\ backend = "apple" /\ world.told /\ thread.pc = "none" /\ told # {} =>
           told = A!ProbedMask
      /\ backend = "android" /\ session.gen = 1 /\ world.watch = 1 /\ world.told
           /\ thread.watcher[1] = D!NoWatcher => told = world.devices

(* The listener works on the platform of the session there is, though the
   call that brought it may have been on its way when that one was closed
   and the next made at the same address. *)
ListenerFindsSession ==
    backend = "apple" /\ thread.pc \in {"inside", "pushing"} =>
      /\ stage # "none" /\ thread.plat = world.at
      /\ session.plat \in {0, world.at}

(* The render thread runs while the session does and is joined by stop: no
   start makes a second one, no close frees what one still uses. *)
ThreadLivesWithTheRun ==
    backend = "windows" /\ W!IsOpen => (session.running <=> thread.pc # "none")

(* A call that reads comes back, though the session is stopped under it. *)
ReadComesBack == reader.pc # "out" ~> reader.pc = "out"

(* stop and close, once begun, end. *)
StopComesBack ==
    stage \in {"joining", "stopping", "closing", "freeing"} ~> stage \in {"done", "none"}

(* On Android a capture thread of an earlier start does not stay to drain the
   recorder beside the new one. *)
OldThreadsLeave ==
    \A r \in D!Runs :
      backend = "android" /\ focus = "capture" /\ r < session.gen
        ~> backend = "android" /\ thread.cap[r].pc = "gone"

(* Whatever a session waits for comes: calls return, threads that outlived
   their stop leave. *)
NothingHangs == ReadComesBack /\ StopComesBack /\ OldThreadsLeave

(* What a caller has seen of the session, and of the call that reads. *)
State ==
    CASE backend = "linux" -> L!State [] backend = "windows" -> W!State
      [] backend = "apple" -> A!State [] backend = "android" -> D!State
      [] OTHER -> M!State

Read ==
    CASE backend = "linux" -> L!Read [] backend = "windows" -> W!Read
      [] backend = "apple" -> A!Read [] backend = "android" -> D!Read
      [] OTHER -> M!Read

(* cleona_voice.h, kept by every backend. *)
ABI == INSTANCE VoiceABI WITH
    state <- State, read <- Read,
    mic <- session.mic, output <- session.output,
    gone <- backend = "android" /\ session.gone

KeepsTheABI == ABI!Spec

(* cleona_voice_windows.c says of the render thread, after a switch of the
   route, that it takes up the new client's event without a restart. *)
RenderFollowsSwitch ==
    backend = "windows" =>
      [](session.running /\ W!IsOpen /\ session.client = 2
           => <>(~session.running \/ thread = [pc |-> "filling", client |-> 2]))
=============================================================================
