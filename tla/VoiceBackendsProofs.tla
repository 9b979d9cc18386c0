------------------------- MODULE VoiceBackendsProofs -------------------------
(* Proofs about the voice backends, for any routes, bounds and rates: whose the
   guard and the thread are; then routes and their news, whom a listener finds,
   what the newest event says, and what the platform is left with. *)
EXTENDS VoiceBackends, TLAPS

-----------------------------------------------------------------------------
(* The guard of PipeWire's backend *)

(* A step of the PipeWire backend leaves guard and open alone, claims the
   guard, goes on within open, or gives the guard back with the session. *)
GuardStep ==
    \/ UNCHANGED <<guard, stage>>
    \/ ~guard /\ guard' = TRUE /\ stage' # "none"
    \/ stage # "none" /\ stage' # "none" /\ guard' = guard
    \/ guard' = FALSE /\ stage' = "none"

(* Opening the device, whichever thing the platform refuses. *)
LEMMA OpenIsGuardStep == ASSUME L!Open PROVE GuardStep
<1>1. CASE L!OpenRefused
  BY <1>1 DEF L!OpenRefused, GuardStep
<1>2. CASE L!OpenClaims
  BY <1>2 DEF L!OpenClaims, GuardStep
<1>3. CASE L!OpenRefusedByPlatform
  BY <1>3 DEF L!OpenRefusedByPlatform, L!OpenFails, L!TakenDown, GuardStep
<1>4. CASE L!OpenConnects
  BY <1>4 DEF L!OpenConnects, L!OpenGoesOn, GuardStep
<1>5. CASE L!OpenLoadsModule
  BY <1>5 DEF L!OpenLoadsModule, L!OpenGoesOn, GuardStep
<1>6. CASE L!OpenRoundtrip
  BY <1>6 DEF L!OpenRoundtrip, L!OpenGoesOn, GuardStep
<1>7. CASE L!OpenMakesStreams
  BY <1>7 DEF L!OpenMakesStreams, L!OpenGoesOn, GuardStep
<1>8. CASE L!OpenHasFormat
  BY <1>8 DEF L!OpenHasFormat, L!OpenGoesOn, GuardStep
<1>9. CASE L!OpenHasNoFormat
  BY <1>9 DEF L!OpenHasNoFormat, L!OpenFails, L!TakenDown, GuardStep
<1>10. CASE L!OpenCreatesApm
  BY <1>10 DEF L!OpenCreatesApm, L!OpenGoesOn, GuardStep
<1>11. CASE L!OpenListensToRegistry
  BY <1>11 DEF L!OpenListensToRegistry, L!OpenGoesOn, GuardStep
<1>12. CASE L!OpenSettlesRoute
  BY <1>12 DEF L!OpenSettlesRoute, GuardStep
<1>. QED
  BY <1>1, <1>2, <1>3, <1>4, <1>5, <1>6, <1>7, <1>8, <1>9, <1>10, <1>11, <1>12
  DEF L!Open

(* The calls of the control thread on an open session, and the streams'
   formats: close alone gives the guard back. *)
LEMMA LifecycleIsGuardStep == ASSUME L!Lifecycle PROVE GuardStep
<1>1. CASE L!Open
  BY <1>1, OpenIsGuardStep
<1>2. CASE L!Start
  BY <1>2 DEF L!Start, GuardStep
<1>3. CASE L!Stop
  BY <1>3 DEF L!Stop, GuardStep
<1>4. CASE L!Close
  BY <1>4 DEF L!Close, GuardStep
<1>5. CASE \E rate \in Rates : L!CaptureParamChanged(rate) \/ L!PlaybackParamChanged(rate)
  BY <1>5 DEF L!CaptureParamChanged, L!PlaybackParamChanged, GuardStep
<1>. QED
  BY <1>1, <1>2, <1>3, <1>4, <1>5 DEF L!Lifecycle

(* Nothing else touches guard or stage. *)
LEMMA OthersAreGuardSteps ==
  ASSUME L!CaptureSide \/ L!CaptureRead \/ L!PlaybackSide \/ L!RouteSide
  PROVE  GuardStep
<1>1. CASE L!CaptureSide
  BY <1>1 DEF L!CaptureSide, L!CaptureProcess, L!ReadBegins, L!SetMuted, GuardStep
<1>2. CASE L!CaptureRead
  BY <1>2 DEF L!CaptureRead, L!ReadTakes, L!ReadReturns, L!ReadCancels, GuardStep
<1>3. CASE L!PlaybackSide
  BY <1>3 DEF L!PlaybackSide, L!PlaybackProcess, L!PlaybackWrite, L!SetMuted, GuardStep
<1>4. CASE L!RouteSide
  BY <1>4 DEF L!RouteSide, L!RegistryGlobalRemove, L!PollEvent, L!RegistryGlobal,
              L!SetRoute, GuardStep
<1>. QED
  BY <1>1, <1>2, <1>3, <1>4

(* In a PipeWire process the guard of cleona_voice_open is held exactly while
   a session is being opened or is open, whatever fails on the way. *)
THEOREM GuardIsTheSessions == SafetySpec => []GuardHeldOnlyForASession
<1>1. Init => GuardHeldOnlyForASession
  BY DEF Init, L!Init, GuardHeldOnlyForASession
<1>2. GuardHeldOnlyForASession /\ [Next]_voiceVars => GuardHeldOnlyForASession'
  <2>. SUFFICES ASSUME GuardHeldOnlyForASession, [Next]_voiceVars
                PROVE  GuardHeldOnlyForASession'
    OBVIOUS
  <2>1. CASE Next /\ LinuxStep
    <3>1. GuardStep
      BY <2>1, LifecycleIsGuardStep, OthersAreGuardSteps DEF LinuxStep
    <3>. QED
      BY <2>1, <3>1 DEF GuardStep, LinuxStep, Next, GuardHeldOnlyForASession
  <2>2. CASE Next /\ ~LinuxStep
    BY <2>2 DEF Next, WindowsStep, AppleStep, AndroidStep, MockStep, GuardHeldOnlyForASession
  <2>3. CASE UNCHANGED voiceVars
    BY <2>3 DEF voiceVars, GuardHeldOnlyForASession
  <2>. QED
    BY <2>1, <2>2, <2>3
<1>. QED
  BY <1>1, <1>2, PTL DEF SafetySpec

-----------------------------------------------------------------------------
(* The render thread of WASAPI's backend *)

(* The fields the argument speaks of are there. *)
HasFields ==
    /\ {"running", "stopEvent"} \subseteq DOMAIN session
    /\ "stop" \in DOMAIN world
    /\ "pc" \in DOMAIN thread

(* A thread is there exactly while the session runs, but for the middle of
   start and of stop; while it runs the stop event is made and not set. *)
ThreadFits ==
    /\ HasFields
    /\ session.running \in BOOLEAN
    /\ stage \in {"none", "notify", "thread"} => thread.pc = "none"
    /\ stage \in {"none", "notify", "joining"} => ~session.running
    /\ stage = "thread" => session.running
    /\ stage \notin {"thread", "joining"} => (session.running <=> thread.pc # "none")
    /\ session.running => session.stopEvent /\ ~world.stop

LEMMA OpenKeepsThread ==
  ASSUME ThreadFits, W!OpenFails \/ W!OpenMakes \/ W!OpenRegisters
  PROVE  ThreadFits'
<1>1. CASE W!OpenFails
  BY <1>1 DEF ThreadFits, HasFields, W!OpenFails
<1>2. CASE W!OpenMakes
  BY <1>2 DEF ThreadFits, HasFields, W!OpenMakes, W!AtRest
<1>3. CASE W!OpenRegisters
  BY <1>3 DEF ThreadFits, HasFields, W!OpenRegisters, W!Set
<1>. QED
  BY <1>1, <1>2, <1>3

LEMMA StartAndStopKeepThread ==
  ASSUME ThreadFits,
         W!Start \/ W!StartMakesThread \/ W!Stop \/ W!StopEnds \/ W!Close
  PROVE  ThreadFits'
<1>1. CASE W!Start
  BY <1>1 DEF ThreadFits, HasFields, W!Start, W!IsOpen
<1>2. CASE W!StartMakesThread
  BY <1>2 DEF ThreadFits, HasFields, W!StartMakesThread
<1>3. CASE W!Stop
  BY <1>3 DEF ThreadFits, HasFields, W!Stop, W!IsOpen, W!Set
<1>4. CASE W!StopEnds
  BY <1>4 DEF ThreadFits, HasFields, W!StopEnds, W!Joined
<1>5. CASE W!Close
  BY <1>5 DEF ThreadFits, HasFields, W!Close, W!IsOpen, W!Closed, W!AtRest
<1>. QED
  BY <1>1, <1>2, <1>3, <1>4, <1>5

(* The thread itself ends only when it is told to. *)
LEMMA RenderThreadKeepsItself ==
  ASSUME ThreadFits, W!RenderThread
  PROVE  ThreadFits'
<1>1. CASE W!RenderLooks
  BY <1>1 DEF ThreadFits, HasFields, W!RenderLooks, W!NoThread
<1>2. CASE W!RenderWakes
  BY <1>2 DEF ThreadFits, HasFields, W!RenderWakes, W!StopWakes, W!NoThread
<1>3. CASE W!RenderFills
  <2>1. thread.pc = "filling" /\ UNCHANGED <<stage, world>>
    BY <1>3 DEF W!RenderFills
  <2>2. "pc" \in DOMAIN thread' /\ thread'.pc # "none"
    <3>1. \/ thread' = [thread EXCEPT !.pc = "looking"]
          \/ thread' = [pc |-> "releasing", client |-> session.client]
      BY <1>3, Zenon DEF W!RenderFills
    <3>. QED
      BY <3>1 DEF ThreadFits, HasFields
  <2>3. /\ {"running", "stopEvent"} \subseteq DOMAIN session'
        /\ session'.running = session.running /\ session'.stopEvent = session.stopEvent
    <3>1. CASE UNCHANGED session
      BY <3>1 DEF ThreadFits, HasFields
    <3>2. CASE ~UNCHANGED session
      <4>1. PICK ring, underruns :
              session' = [session EXCEPT !.ring = ring, !.underruns = underruns]
        BY <1>3, <3>2, Zenon DEF W!RenderFills
      <4>. QED
        BY <4>1 DEF ThreadFits, HasFields
    <3>. QED
      BY <3>1, <3>2
  <2>. QED
    BY <2>1, <2>2, <2>3 DEF ThreadFits, HasFields
<1>4. CASE W!RenderReleases
  BY <1>4 DEF ThreadFits, HasFields, W!RenderReleases
<1>. QED
  BY <1>1, <1>2, <1>3, <1>4 DEF W!RenderThread

(* The rest leaves thread, running, the stop event and its setting alone, and
   moves between stages of an open session at most. *)
RunUntouched ==
    /\ thread' = thread /\ HasFields'
    /\ session'.running = session.running /\ session'.stopEvent = session.stopEvent
    /\ world'.stop = world.stop
    /\ \/ stage' = stage
       \/ {stage, stage'} \cap {"none", "notify", "thread", "joining"} = {}

LEMMA CaptureLeavesRun ==
  ASSUME ThreadFits, W!CaptureSide \/ W!CaptureRead PROVE RunUntouched
<1>1. CASE W!DeviceHears
  BY <1>1 DEF ThreadFits, HasFields, RunUntouched, W!DeviceHears
<1>2. CASE W!ReadBegins
  BY <1>2 DEF ThreadFits, HasFields, RunUntouched, W!ReadBegins
<1>3. CASE \E muted \in Mutes : W!SetMuted("mic", muted)
  BY <1>3 DEF ThreadFits, HasFields, RunUntouched, W!SetMuted, W!Set
<1>4. CASE W!ReadLooks
  BY <1>4 DEF ThreadFits, HasFields, RunUntouched, W!ReadLooks, W!Set
<1>5. CASE W!ReadDrains
  BY <1>5 DEF ThreadFits, HasFields, RunUntouched, W!ReadDrains
<1>6. CASE W!ReadReturns
  BY <1>6 DEF ThreadFits, HasFields, RunUntouched, W!ReadReturns
<1>. QED
  BY <1>1, <1>2, <1>3, <1>4, <1>5, <1>6 DEF W!CaptureSide, W!CaptureRead

LEMMA PlaybackLeavesRun ==
  ASSUME ThreadFits, W!PlaybackSide PROVE RunUntouched
<1>1. CASE W!PlaybackWrite
  BY <1>1 DEF ThreadFits, HasFields, RunUntouched, W!PlaybackWrite
<1>2. CASE \E c \in W!Clients : W!EngineSignals(c)
  BY <1>2 DEF ThreadFits, HasFields, RunUntouched, W!EngineSignals
<1>3. CASE \E muted \in Mutes : W!SetMuted("output", muted)
  BY <1>3 DEF ThreadFits, HasFields, RunUntouched, W!SetMuted, W!Set
<1>. QED
  BY <1>1, <1>2, <1>3 DEF W!PlaybackSide

LEMMA SwitchLeavesRun ==
  ASSUME ThreadFits, W!SetRoute PROVE RunUntouched
<1>1. CASE \E route \in Routes \cup {W!UnknownRoute} :
             W!SetRouteAnswers(route) \/ W!SetRouteGoesOn(route)
  BY <1>1 DEF ThreadFits, HasFields, RunUntouched, W!SetRouteAnswers, W!SetRouteEnds,
              W!SetRouteGoesOn, W!IsOpen
<1>2. CASE W!SetRouteMakes
  BY <1>2 DEF ThreadFits, HasFields, RunUntouched, W!SetRouteMakes, W!SetRouteEnds
<1>3. CASE W!SetRouteStarts
  BY <1>3 DEF ThreadFits, HasFields, RunUntouched, W!SetRouteStarts, W!SetRouteEnds
<1>4. CASE W!SetRouteSwaps
  BY <1>4 DEF ThreadFits, HasFields, RunUntouched, W!SetRouteSwaps
<1>5. CASE W!SetRouteDropsOld
  BY <1>5 DEF ThreadFits, HasFields, RunUntouched, W!SetRouteDropsOld, W!SetRouteEnds
<1>. QED
  BY <1>1, <1>2, <1>3, <1>4, <1>5 DEF W!SetRoute, W!SetRouteSteps

LEMMA RoutesLeaveRun ==
  ASSUME ThreadFits, W!RouteSide PROVE RunUntouched
<1>1. CASE \E c \in W!Clients : W!EngineSignals(c)
  BY <1>1 DEF ThreadFits, HasFields, RunUntouched, W!EngineSignals
<1>2. CASE W!EndpointsChange
  BY <1>2 DEF ThreadFits, HasFields, RunUntouched, W!EndpointsChange
<1>3. CASE W!OnDeviceStateChanged
  BY <1>3 DEF ThreadFits, HasFields, RunUntouched, W!OnDeviceStateChanged, W!Recomputed
<1>4. CASE W!GetRoutes
  BY <1>4 DEF ThreadFits, HasFields, RunUntouched, W!GetRoutes, W!Recomputed
<1>5. CASE W!PollEvent
  BY <1>5 DEF ThreadFits, HasFields, RunUntouched, W!PollEvent, W!Set
<1>. QED
  BY <1>1, <1>2, <1>3, <1>4, <1>5, SwitchLeavesRun DEF W!RouteSide

LEMMA UntouchedKeepsThread ==
  ASSUME ThreadFits, RunUntouched PROVE ThreadFits'
BY DEF ThreadFits, RunUntouched

(* While a WASAPI session is open its render thread is there exactly when it
   runs: no start makes a second one, no stop or close leaves one behind. *)
THEOREM ThreadIsTheRuns == SafetySpec => []ThreadLivesWithTheRun
<1>. DEFINE Inv == backend = "windows" => ThreadFits
<1>1. Init => Inv
  <2>1. Init /\ backend = "windows" => W!Init
    BY Zenon DEF Init
  <2>2. W!Init => /\ session = W!Closed /\ world = W!AtRest
                  /\ thread = W!NoThread /\ stage = "none"
    BY Zenon DEF W!Init
  <2>3. ~W!Closed.running /\ W!Closed.running \in BOOLEAN
        /\ {"running", "stopEvent"} \subseteq DOMAIN W!Closed
    BY DEF W!Closed
  <2>4. "stop" \in DOMAIN W!AtRest
    BY DEF W!AtRest
  <2>5. "pc" \in DOMAIN W!NoThread /\ W!NoThread.pc = "none"
    BY DEF W!NoThread
  <2>. QED
    BY <2>1, <2>2, <2>3, <2>4, <2>5 DEF ThreadFits, HasFields
<1>2. Inv /\ [Next]_voiceVars => Inv'
  <2>. SUFFICES ASSUME Inv, [Next]_voiceVars, backend' = "windows"
                PROVE  ThreadFits'
    OBVIOUS
  <2>1. CASE Next
    <3>1. ThreadFits /\ WindowsStep
      BY <2>1 DEF Next, LinuxStep, AppleStep, AndroidStep, MockStep
    <3>2. CASE W!Lifecycle
      BY <3>1, <3>2, OpenKeepsThread, StartAndStopKeepThread, RenderThreadKeepsItself
      DEF W!Lifecycle
    <3>3. CASE W!CaptureSide \/ W!CaptureRead \/ W!PlaybackSide \/ W!RouteSide
      BY <3>1, <3>3, CaptureLeavesRun, PlaybackLeavesRun, RoutesLeaveRun,
         UntouchedKeepsThread
    <3>. QED
      BY <3>1, <3>2, <3>3 DEF WindowsStep
  <2>2. CASE UNCHANGED voiceVars
    BY <2>2 DEF voiceVars, ThreadFits, HasFields
  <2>. QED
    BY <2>1, <2>2
<1>3. Inv => ThreadLivesWithTheRun
  BY DEF ThreadFits, ThreadLivesWithTheRun, W!IsOpen
<1>. QED
  BY <1>1, <1>2, <1>3, PTL DEF SafetySpec

-----------------------------------------------------------------------------
(* The event queue *)

IsSequence(q) == q \in Seq({q[i] : i \in DOMAIN q})
NewestOf(q) == q[Len(q)]

LEMMA TypedIsSequence ==
  ASSUME NEW S, NEW q \in Seq(S)
  PROVE  IsSequence(q)
BY DEF IsSequence

(* The newest event of a queue that was pushed to is the one that was pushed,
   and a queue within its bound stays within it. *)
LEMMA PushedIsNewest ==
  ASSUME NEW q, IsSequence(q), NEW e
  PROVE  /\ IsSequence(PushEvent(q, e)) /\ PushEvent(q, e) # <<>>
         /\ NewestOf(PushEvent(q, e)) = e
         /\ Len(q) <= EventQueue => Len(PushEvent(q, e)) <= EventQueue
<1>. DEFINE S == {q[i] : i \in DOMAIN q} \cup {e}
            kept == IF Len(q) = EventQueue THEN Tail(q) ELSE q
<1>1. q \in Seq(S) /\ EventQueue \in Nat \ {0}
  BY BoundsAssumption DEF IsSequence
<1>2. kept \in Seq(S) /\ (Len(q) <= EventQueue => Len(kept) < EventQueue)
  BY <1>1
<1>3. /\ Append(kept, e) \in Seq(S) /\ Len(Append(kept, e)) = Len(kept) + 1
      /\ Append(kept, e)[Len(kept) + 1] = e
  BY <1>2
<1>4. PushEvent(q, e) = Append(kept, e)
  BY DEF PushEvent
<1>. HIDE DEF S, kept
<1>5. IsSequence(PushEvent(q, e))
  BY <1>3, <1>4, TypedIsSequence
<1>6. Len(kept) \in Nat
  BY <1>2
<1>. QED
  BY <1>1, <1>2, <1>3, <1>4, <1>5, <1>6 DEF NewestOf

(* Polling takes the oldest: as long as events are left the newest is the
   same. *)
LEMMA PolledKeepsNewest ==
  ASSUME NEW q, IsSequence(q), q # <<>>
  PROVE  /\ IsSequence(Tail(q)) /\ Len(Tail(q)) <= Len(q)
         /\ Tail(q) # <<>> => NewestOf(Tail(q)) = NewestOf(q)
<1>1. /\ Tail(q) \in Seq({q[i] : i \in DOMAIN q}) /\ Len(Tail(q)) = Len(q) - 1
      /\ Len(q) \in Nat \ {0}
      /\ \A i \in 1 .. Len(q) - 1 : Tail(q)[i] = q[i + 1]
  BY DEF IsSequence
<1>2. IsSequence(Tail(q))
  BY <1>1, TypedIsSequence
<1>3. Tail(q) # <<>> => Len(q) - 1 \in 1 .. Len(q) - 1
  BY <1>1
<1>. QED
  BY <1>1, <1>2, <1>3 DEF NewestOf

LEMMA EmptyIsSequence == IsSequence(<<>>)
BY DEF IsSequence

(* Every step is one of the process's backend. *)
LEMMA StepIsOfABackend ==
  ASSUME [Next]_voiceVars
  PROVE  /\ backend' = backend
         /\ \/ UNCHANGED voiceVars
            \/ backend = "linux" /\ LinuxStep
            \/ backend = "windows" /\ WindowsStep
            \/ backend = "apple" /\ AppleStep
            \/ backend = "android" /\ AndroidStep
            \/ backend = "mock" /\ MockStep
BY Zenon DEF Next, voiceVars, LinuxStep, WindowsStep, AppleStep, AndroidStep, MockStep

-----------------------------------------------------------------------------
(* The listener of Apple's unit *)

AppleFields ==
    /\ {"plat", "events"} \subseteq DOMAIN session
    /\ {"at", "listens", "told", "devices", "default"} \subseteq DOMAIN world
    /\ {"pc", "plat", "mask"} \subseteq DOMAIN thread

(* The table of live platforms holds the one there is; a listener inside the
   table works on a live one.  A call whose platform has gone meets a queue
   without news; a mask that was read is told true until the devices change. *)
ListenerFits ==
    /\ AppleFields
    /\ IsSequence(session.events)
    /\ live = IF stage = "none" THEN {} ELSE {world.at}
    /\ session.plat = IF stage \in {"none", "listening"} THEN 0 ELSE world.at
    /\ world.listens \in {0, world.at}
    /\ stage \in {"none", "closing", "freeing"} => world.listens = 0
    /\ stage = "none" => session.events = <<>>
    /\ thread.pc \in {"none", "called", "inside", "pushing"}
    /\ thread.pc \in {"inside", "pushing"} => thread.plat \in live
    /\ thread.pc = "called" /\ session.events # <<>> => thread.plat \in live
    /\ world.told /\ thread.pc = "pushing" =>
         thread.mask \in {{}, A!ProbedMask}
    /\ world.told /\ thread.pc = "none" /\ session.events # <<>> =>
         NewestOf(session.events).mask \in {{}, A!ProbedMask}

(* Steps that touch neither the listener nor what it reads, and do not take
   the session into or out of the stages before its unit and after it. *)
ListenerUntouched ==
    /\ UNCHANGED <<live, thread>> /\ AppleFields'
    /\ session'.plat = session.plat /\ session'.events = session.events
    /\ world'.at = world.at /\ world'.listens = world.listens /\ world'.told = world.told
    /\ world'.devices = world.devices /\ world'.default = world.default
    /\ \/ stage' = stage
       \/ {stage, stage'} \cap {"none", "listening", "closing", "freeing"} = {}

LEMMA UntouchedKeepsListener ==
  ASSUME ListenerFits, ListenerUntouched PROVE ListenerFits'
BY DEF ListenerFits, ListenerUntouched, AppleFields, A!ProbedMask, A!UnknownRoute

LEMMA LifecycleKeepsListener ==
  ASSUME ListenerFits, A!Lifecycle PROVE ListenerFits'
<1>1. CASE A!OpenRefused \/ A!OpenMakesUnit \/ A!Start \/ A!StartsUnit \/ A!Stop \/ A!StopsUnit
  <2>1. ListenerUntouched
    <3>1. CASE A!OpenRefused
      BY <3>1 DEF ListenerFits, AppleFields, ListenerUntouched, A!OpenRefused
    <3>2. CASE A!OpenMakesUnit
      BY <3>2 DEF ListenerFits, AppleFields, ListenerUntouched, A!OpenMakesUnit
    <3>3. CASE A!Start
      BY <3>3 DEF ListenerFits, AppleFields, ListenerUntouched, A!Start, A!IsOpen
    <3>4. CASE A!StartsUnit
      BY <3>4 DEF ListenerFits, AppleFields, ListenerUntouched, A!StartsUnit, A!Set
    <3>5. CASE A!Stop
      BY <3>5 DEF ListenerFits, AppleFields, ListenerUntouched, A!Stop, A!IsOpen, A!Set
    <3>6. CASE A!StopsUnit
      BY <3>6 DEF ListenerFits, AppleFields, ListenerUntouched, A!StopsUnit
    <3>. QED
      BY <1>1, <3>1, <3>2, <3>3, <3>4, <3>5, <3>6
  <2>. QED
    BY <2>1, UntouchedKeepsListener
<1>2. CASE A!OpenListens
  BY <1>2 DEF ListenerFits, AppleFields, A!OpenListens, A!TableIsFree
<1>3. CASE A!OpenHasPlatform
  BY <1>3 DEF ListenerFits, AppleFields, A!OpenHasPlatform, A!Set, A!ProbedMask
<1>4. CASE A!CloseUnlistens
  BY <1>4 DEF ListenerFits, AppleFields, A!CloseUnlistens, A!IsOpen, A!ProbedMask
<1>5. CASE A!CloseFrees
  BY <1>5, EmptyIsSequence DEF ListenerFits, AppleFields, A!CloseFrees, A!TableIsFree,
                               A!Closed, A!ProbedMask
<1>. QED
  BY <1>1, <1>2, <1>3, <1>4, <1>5 DEF A!Lifecycle

LEMMA RoutesKeepListener ==
  ASSUME ListenerFits, A!RouteSide PROVE ListenerFits'
<1>1. CASE A!DevicesChange
  BY <1>1 DEF ListenerFits, AppleFields, A!DevicesChange
<1>2. CASE A!ListenerIsCalled
  BY <1>2 DEF ListenerFits, AppleFields, A!ListenerIsCalled, A!NoCall, A!ProbedMask
<1>3. CASE A!ListenerLooks
  BY <1>3 DEF ListenerFits, AppleFields, A!ListenerLooks, A!NoCall, A!ProbedMask
<1>4. CASE A!ListenerReads
  BY <1>4 DEF ListenerFits, AppleFields, A!ListenerReads, A!ProbedMask
<1>5. CASE A!ListenerPushes
  <2>. DEFINE e == A!RoutesChanged(thread.mask)
  <2>1. /\ session'.events = PushEvent(session.events, e)
        /\ AppleFields' /\ session'.plat = session.plat
    BY <1>5 DEF ListenerFits, AppleFields, A!ListenerPushes, A!Set, A!NoCall,
                PushEvent, A!PushEvent
  <2>2. e.mask = thread.mask
    BY DEF A!RoutesChanged
  <2>3. IsSequence(session.events)
    BY DEF ListenerFits
  <2>. HIDE DEF e
  <2>. QED
    BY <1>5, <2>1, <2>2, <2>3, PushedIsNewest
    DEF ListenerFits, A!ListenerPushes, A!NoCall, A!ProbedMask
<1>6. CASE A!PollEvent
  <2>1. /\ session.events # <<>> /\ session'.events = Tail(session.events)
        /\ AppleFields' /\ session'.plat = session.plat
    BY <1>6 DEF ListenerFits, AppleFields, A!PollEvent, A!Set
  <2>2. IsSequence(session.events)
    BY DEF ListenerFits
  <2>. QED
    BY <1>6, <2>1, <2>2, PolledKeepsNewest DEF ListenerFits, A!PollEvent, A!IsOpen, A!ProbedMask
<1>7. CASE \E route \in Routes \cup {A!UnknownRoute} : A!SetRoute(route)
  BY <1>7, UntouchedKeepsListener DEF ListenerFits, AppleFields, ListenerUntouched, A!SetRoute
<1>. QED
  BY <1>1, <1>2, <1>3, <1>4, <1>5, <1>6, <1>7 DEF A!RouteSide, A!Listener

LEMMA SamplesLeaveListener ==
  ASSUME ListenerFits, A!CaptureSide \/ A!CaptureRead \/ A!PlaybackSide
  PROVE  ListenerUntouched
<1>1. CASE A!InputCallback
  BY <1>1 DEF ListenerFits, AppleFields, ListenerUntouched, A!InputCallback, A!Set
<1>2. CASE A!RenderCallback
  BY <1>2 DEF ListenerFits, AppleFields, ListenerUntouched, A!RenderCallback
<1>3. CASE \E side \in {"mic", "output"}, muted \in Mutes : A!SetMuted(side, muted)
  BY <1>3 DEF ListenerFits, AppleFields, ListenerUntouched, A!SetMuted, A!Set
<1>4. CASE A!ReadBegins \/ A!ReadReturns
  BY <1>4 DEF ListenerFits, AppleFields, ListenerUntouched, A!ReadBegins, A!ReadReturns
<1>5. CASE A!ReadPops
  BY <1>5 DEF ListenerFits, AppleFields, ListenerUntouched, A!ReadPops, A!Set
<1>6. CASE A!PlaybackWrite
  BY <1>6 DEF ListenerFits, AppleFields, ListenerUntouched, A!PlaybackWrite
<1>. QED
  BY <1>1, <1>2, <1>3, <1>4, <1>5, <1>6 DEF A!CaptureSide, A!CaptureRead, A!PlaybackSide

LEMMA ListenerAlwaysFits == SafetySpec => [](backend = "apple" => ListenerFits)
<1>1. Init => (backend = "apple" => ListenerFits)
  <2>1. Init /\ backend = "apple" => A!Init
    BY Zenon DEF Init
  <2>. QED
    BY <2>1, EmptyIsSequence
    DEF A!Init, ListenerFits, AppleFields, A!Closed, A!AtRest, A!NoCall
<1>2. (backend = "apple" => ListenerFits) /\ [Next]_voiceVars
        => (backend = "apple" => ListenerFits)'
  <2>. SUFFICES ASSUME backend = "apple", ListenerFits, [Next]_voiceVars
                PROVE  ListenerFits'
    BY StepIsOfABackend
  <2>1. CASE UNCHANGED voiceVars
    BY <2>1 DEF voiceVars, ListenerFits, AppleFields, A!ProbedMask
  <2>2. CASE AppleStep
    BY <2>2, LifecycleKeepsListener, RoutesKeepListener, SamplesLeaveListener,
       UntouchedKeepsListener DEF AppleStep
  <2>. QED
    BY <2>1, <2>2, StepIsOfABackend
<1>. QED
  BY <1>1, <1>2, PTL DEF SafetySpec

(* The listener of Apple's hardware layer works on the platform of the session
   there is, whatever was closed and reopened while its call was on its way. *)
THEOREM ListenerHasItsSession == SafetySpec => []ListenerFindsSession
<1>1. (backend = "apple" => ListenerFits) => ListenerFindsSession
  BY DEF ListenerFits, ListenerFindsSession
<1>. QED
  BY <1>1, ListenerAlwaysFits, PTL

-----------------------------------------------------------------------------
(* What Android's platform is left with, and its watchers *)

AndroidFields ==
    /\ {"running", "runs", "gen", "events"} \subseteq DOMAIN session
    /\ {"devices", "mode", "record", "watch", "told"} \subseteq DOMAIN world
    /\ "watcher" \in DOMAIN thread

(* At each step of start and stop: whether the session runs, and whether the
   mode, the recorder and the watcher are on. *)
On(running, mode, record, watched) ==
    /\ session.running = running /\ world.mode = mode
    /\ world.record = record /\ (world.watch # 0) = watched

PlatformFits ==
    /\ AndroidFields
    /\ session.runs \in Nat
    /\ \/ /\ stage \in {"none", "done"}
          /\ On(TRUE, TRUE, TRUE, TRUE) \/ On(FALSE, FALSE, FALSE, FALSE)
       \/ stage = "recording" /\ On(FALSE, TRUE, FALSE, FALSE)
       \/ stage = "playing" /\ On(FALSE, TRUE, TRUE, FALSE)
       \/ /\ stage = "counting" /\ On(TRUE, TRUE, TRUE, FALSE)
          /\ session.runs # 0
       \/ stage = "stopping" /\ On(FALSE, TRUE, TRUE, TRUE)

(* A watcher later than the generation has nothing to do.  While the first
   start's is the one that is registered and owes no look, what it read or
   posted last is what the devices are. *)
FirstWatcher == thread.watcher[1]

WatcherFits ==
    /\ IsSequence(session.events)
    /\ session.gen \in Nat /\ session.gen <= session.runs
    /\ world.watch \in {0, session.gen}
    /\ DOMAIN thread.watcher = D!Runs
    /\ \A r \in D!Runs : DOMAIN thread.watcher[r] = {"pc", "due", "mask"}
    /\ \A r \in D!Runs : r > session.gen => thread.watcher[r] = D!NoWatcher
    /\ world.watch = 1 /\ world.told /\ ~FirstWatcher.due =>
         /\ FirstWatcher.pc = "posting" => FirstWatcher.mask = world.devices
         /\ FirstWatcher.pc = "idle" /\ session.events # <<>> =>
              NewestOf(session.events).mask = world.devices

(* Steps about samples leave routes, watchers and what is on alone. *)
RoutesUntouched ==
    /\ AndroidFields' /\ stage' = stage
    /\ session'.running = session.running /\ session'.runs = session.runs
    /\ session'.gen = session.gen /\ session'.events = session.events
    /\ world' = world /\ thread'.watcher = thread.watcher

LEMMA SamplesLeaveRoutes ==
  ASSUME AndroidFields, D!CaptureSide \/ D!CaptureRead \/ D!PlaybackSide
  PROVE  RoutesUntouched
<1>. USE DEF AndroidFields, RoutesUntouched
<1>1. CASE D!ReadBegins \/ D!ReadLooks \/ D!ReadReturns
  BY <1>1 DEF D!ReadBegins, D!ReadLooks, D!ReadReturns
<1>2. CASE D!ReadTakes
  BY <1>2 DEF D!ReadTakes, D!Set
<1>3. CASE \E side \in {"mic", "output"}, muted \in Mutes : D!SetMuted(side, muted)
  BY <1>3 DEF D!SetMuted, D!Set
<1>4. CASE \E r \in D!Runs : D!CaptureThread(r)
  <2>. PICK r \in D!Runs : D!CaptureThread(r)
    BY <1>4
  <2>1. CASE D!CaptureLooks(r)
    BY <2>1 DEF D!CaptureLooks
  <2>2. CASE D!CaptureReads(r)
    BY <2>2 DEF D!CaptureReads
  <2>3. CASE D!CaptureLoses(r)
    BY <2>3 DEF D!CaptureLoses, D!Set
  <2>4. CASE D!CaptureOffers(r)
    BY <2>4 DEF D!CaptureOffers
  <2>. QED
    BY <2>1, <2>2, <2>3, <2>4 DEF D!CaptureThread
<1>5. CASE \E r \in D!Runs : D!PlayLooks(r) \/ D!PlayTakes(r) \/ D!PlayWrites(r)
  BY <1>5 DEF D!PlayLooks, D!PlayTakes, D!PlayWrites
<1>6. CASE D!WriteLooks \/ D!WriteOffers
  BY <1>6 DEF D!WriteLooks, D!WriteOffers
<1>. QED
  BY <1>1, <1>2, <1>3, <1>4, <1>5, <1>6 DEF D!CaptureSide, D!CaptureRead, D!PlaybackSide

LEMMA UntouchedKeepsRoutes ==
  ASSUME PlatformFits, WatcherFits, RoutesUntouched
  PROVE  PlatformFits' /\ WatcherFits'
BY DEF PlatformFits, WatcherFits, RoutesUntouched, On, FirstWatcher

LEMMA PlayingRuns ==
  ASSUME AndroidFields, D!StartPlays
  PROVE  /\ {"running", "runs", "gen", "events"} \subseteq DOMAIN session'
         /\ session'.running = TRUE /\ session'.runs = session.runs + 1
         /\ session'.gen = session.gen /\ session'.events = session.events
<1>. DEFINE emptied == D!Emptied(session)
<1>1. /\ DOMAIN emptied = DOMAIN session
      /\ emptied.runs = session.runs /\ emptied.gen = session.gen
      /\ emptied.events = session.events
  BY DEF AndroidFields, D!Emptied
<1>2. session' = [emptied EXCEPT !.gone = FALSE, !.running = TRUE, !.runs = @ + 1]
  BY DEF D!StartPlays
<1>. HIDE DEF emptied
<1>. QED
  BY <1>1, <1>2 DEF AndroidFields

(* start and stop, whichever step the platform refuses *)
LEMMA LifecycleKeepsPlatform ==
  ASSUME PlatformFits, D!Lifecycle PROVE PlatformFits'
<1>. USE DEF PlatformFits, AndroidFields, On
<1>1. CASE D!OpenRefused \/ D!Open
  BY <1>1 DEF D!OpenRefused, D!Open
<1>2. CASE D!Start
  BY <1>2 DEF D!Start, D!IsOpen
<1>3. CASE D!StartFails
  BY <1>3 DEF D!StartFails, D!GivesUp
<1>4. CASE D!StartRecords
  BY <1>4 DEF D!StartRecords
<1>5. CASE D!StartPlays
  BY <1>5, PlayingRuns DEF D!StartPlays
<1>6. CASE D!StartCounts
  BY <1>6 DEF D!StartCounts, D!Set
<1>7. CASE D!Stop
  BY <1>7 DEF D!Stop, D!IsOpen, D!Set
<1>8. CASE D!StopEnds
  BY <1>8 DEF D!StopEnds, D!Emptied
<1>9. CASE D!Close
  BY <1>9 DEF D!Close, D!IsOpen, D!Closed, D!NoThreads
<1>. QED
  BY <1>1, <1>2, <1>3, <1>4, <1>5, <1>6, <1>7, <1>8, <1>9 DEF D!Lifecycle, D!ControlSteps

LEMMA RoutesKeepPlatform ==
  ASSUME PlatformFits, D!RouteSide PROVE PlatformFits'
<1>. USE DEF PlatformFits, AndroidFields, On
<1>1. CASE D!DevicesChange
  BY <1>1 DEF D!DevicesChange
<1>2. CASE D!WatcherIsCalled
  BY <1>2 DEF D!WatcherIsCalled
<1>3. CASE D!PollEvent
  BY <1>3 DEF D!PollEvent, D!Set, D!IsOpen
<1>4. CASE \E r \in D!Runs : D!WatcherReads(r) \/ D!WatcherPosts(r)
  BY <1>4 DEF D!WatcherReads, D!WatcherPosts, D!Set
<1>5. CASE \E route \in Routes \cup {D!UnknownRoute} : D!SetRoute(route)
  BY <1>5 DEF D!SetRoute, D!IsOpen
<1>. QED
  BY <1>1, <1>2, <1>3, <1>4, <1>5 DEF D!RouteSide

LEMMA LifecycleKeepsWatcher ==
  ASSUME PlatformFits, WatcherFits, D!Lifecycle PROVE WatcherFits'
<1>. USE DEF PlatformFits, WatcherFits, AndroidFields, FirstWatcher
<1>1. CASE D!OpenRefused \/ D!Open
  BY <1>1 DEF D!OpenRefused, D!Open
<1>2. CASE D!Start
  BY <1>2 DEF D!Start
<1>3. CASE D!StartFails
  BY <1>3 DEF D!StartFails, D!GivesUp
<1>4. CASE D!StartRecords
  BY <1>4 DEF D!StartRecords
<1>5. CASE D!StartPlays
  BY <1>5, PlayingRuns DEF D!StartPlays
<1>6. CASE D!StartCounts
  BY <1>6 DEF D!StartCounts, D!Set
<1>7. CASE D!Stop
  BY <1>7 DEF D!Stop, D!Set
<1>8. CASE D!StopEnds
  BY <1>8 DEF D!StopEnds, D!Emptied
<1>9. CASE D!Close
  <2>1. world.watch = 0 /\ world' = world
    BY <1>9 DEF D!Close, D!IsOpen, On
  <2>2. session'.events = <<>> /\ session'.gen = session.runs /\ session'.runs = session.runs
    BY <1>9 DEF D!Close, D!Closed
  <2>3. thread'.watcher = [r \in D!Runs |-> D!NoWatcher]
    BY <1>9 DEF D!Close, D!NoThreads
  <2>. QED
    BY <2>1, <2>2, <2>3, EmptyIsSequence DEF D!NoWatcher
<1>. QED
  BY <1>1, <1>2, <1>3, <1>4, <1>5, <1>6, <1>7, <1>8, <1>9 DEF D!Lifecycle, D!ControlSteps

LEMMA RoutesKeepWatcher ==
  ASSUME PlatformFits, WatcherFits, D!RouteSide PROVE WatcherFits'
<1>. USE DEF PlatformFits, WatcherFits, AndroidFields, FirstWatcher
<1>1. CASE D!DevicesChange
  BY <1>1 DEF D!DevicesChange
<1>2. CASE D!WatcherIsCalled
  <2>1. /\ session' = session /\ world.watch # 0 /\ world' = [world EXCEPT !.told = TRUE]
        /\ thread'.watcher =
             [thread.watcher EXCEPT ![world.watch] = [@ EXCEPT !.due = TRUE]]
    BY <1>2 DEF D!WatcherIsCalled
  <2>2. /\ DOMAIN thread'.watcher = D!Runs
        /\ \A q \in D!Runs : DOMAIN thread'.watcher[q] = {"pc", "due", "mask"}
        /\ \A q \in D!Runs \ {world.watch} : thread'.watcher[q] = thread.watcher[q]
    BY <2>1
  <2>3. world.watch = 1 => thread'.watcher[1].due
    BY <2>1, BoundsAssumption DEF D!Runs
  <2>. QED
    BY <2>1, <2>2, <2>3
<1>3. CASE D!PollEvent
  <2>1. /\ session.events # <<>> /\ session'.events = Tail(session.events)
        /\ session'.gen = session.gen /\ session'.runs = session.runs
    BY <1>3 DEF D!PollEvent, D!Set
  <2>. QED
    BY <1>3, <2>1, PolledKeepsNewest DEF D!PollEvent
<1>4. CASE \E r \in D!Runs : D!WatcherReads(r)
  BY <1>4 DEF D!WatcherReads, D!NoWatcher
<1>5. CASE \E r \in D!Runs : D!WatcherPosts(r)
  <2>. PICK r \in D!Runs : D!WatcherPosts(r)
    BY <1>5
  <2>. DEFINE e == D!RoutesChanged(thread.watcher[r].mask)
  <2>1. /\ session'.events = PushEvent(session.events, e)
        /\ session'.gen = session.gen /\ session'.runs = session.runs
    BY DEF D!WatcherPosts, D!Set, PushEvent, D!PushEvent
  <2>2. e.mask = thread.watcher[r].mask
    BY DEF D!RoutesChanged
  <2>3. /\ thread.watcher[r].pc = "posting"
        /\ thread'.watcher = [thread.watcher EXCEPT ![r] = [@ EXCEPT !.pc = "idle", !.mask = {}]]
    BY DEF D!WatcherPosts
  <2>4. r <= session.gen /\ (session.gen = 1 => r = 1)
    BY <2>3 DEF D!NoWatcher, D!Runs
  <2>5. world' = world
    BY DEF D!WatcherPosts
  <2>. HIDE DEF e
  <2>6. IsSequence(session'.events) /\ NewestOf(session'.events) = e
    BY <2>1, PushedIsNewest
  <2>7. /\ DOMAIN thread'.watcher = D!Runs
        /\ \A q \in D!Runs : DOMAIN thread'.watcher[q] = {"pc", "due", "mask"}
        /\ \A q \in D!Runs \ {r} : thread'.watcher[q] = thread.watcher[q]
        /\ thread'.watcher[r].due = thread.watcher[r].due
    BY <2>3
  <2>8. CASE world.watch # 1
    <3>1. \A q \in D!Runs : q > session.gen => thread'.watcher[q] = thread.watcher[q]
      BY <2>4, <2>7 DEF D!Runs
    <3>. QED
      BY <2>1, <2>5, <2>6, <2>7, <2>8, <3>1
  <2>9. CASE world.watch = 1
    <3>1. session.gen = 1 /\ r = 1
      BY <2>4, <2>9
    <3>. QED
      BY <2>1, <2>2, <2>3, <2>4, <2>5, <2>6, <2>7, <2>9, <3>1
  <2>. QED
    BY <2>8, <2>9
<1>6. CASE \E route \in Routes \cup {D!UnknownRoute} : D!SetRoute(route)
  BY <1>6 DEF D!SetRoute
<1>. QED
  BY <1>1, <1>2, <1>3, <1>4, <1>5, <1>6 DEF D!RouteSide

LEMMA AndroidAlwaysFits == SafetySpec => [](backend = "android" => PlatformFits /\ WatcherFits)
<1>. DEFINE Inv == backend = "android" => PlatformFits /\ WatcherFits
<1>1. Init => Inv
  <2>1. Init /\ backend = "android" => D!Init
    BY Zenon DEF Init
  <2>2. ASSUME D!Init PROVE PlatformFits
    <3>1. stage = "none" /\ session = D!Closed /\ world = D!AtRest /\ thread = D!NoThreads
      BY <2>2 DEF D!Init
    <3>2. AndroidFields /\ session.runs \in Nat
      BY <3>1 DEF D!Closed, D!AtRest, D!NoThreads, AndroidFields
    <3>3. On(FALSE, FALSE, FALSE, FALSE)
      BY <3>1 DEF D!Closed, D!AtRest, On
    <3>. QED
      BY <3>1, <3>2, <3>3, Zenon DEF PlatformFits
  <2>3. ASSUME D!Init PROVE WatcherFits
    <3>1. world.watch = 0 /\ session.gen = 0 /\ session.runs = 0 /\ session.events = <<>>
      BY <2>3 DEF D!Init, D!Closed, D!AtRest
    <3>2. thread.watcher = [r \in D!Runs |-> D!NoWatcher]
      BY <2>3 DEF D!Init, D!NoThreads
    <3>. QED
      BY <3>1, <3>2, EmptyIsSequence DEF WatcherFits, D!NoWatcher
  <2>. QED
    BY <2>1, <2>2, <2>3
<1>2. Inv /\ [Next]_voiceVars => Inv'
  <2>. SUFFICES ASSUME backend = "android", PlatformFits, WatcherFits, [Next]_voiceVars
                PROVE  PlatformFits' /\ WatcherFits'
    BY StepIsOfABackend
  <2>1. CASE UNCHANGED voiceVars
    BY <2>1 DEF voiceVars, PlatformFits, WatcherFits, AndroidFields, On, FirstWatcher
  <2>2. CASE AndroidStep
    <3>1. AndroidFields
      BY DEF PlatformFits
    <3>. QED
      BY <2>2, <3>1, SamplesLeaveRoutes, UntouchedKeepsRoutes, LifecycleKeepsPlatform,
         RoutesKeepPlatform, LifecycleKeepsWatcher, RoutesKeepWatcher DEF AndroidStep
  <2>. QED
    BY <2>1, <2>2, StepIsOfABackend
<1>. QED
  BY <1>1, <1>2, PTL DEF SafetySpec

(* Whatever the platform refused at a start, and however stop was cut short:
   between two calls of Android's control thread the recorder, the mode and
   the watcher are on exactly when the session runs. *)
THEOREM PlatformIsAsTheRun == SafetySpec => []PlatformFollowsTheRun
<1>1. (backend = "android" => PlatformFits /\ WatcherFits) => PlatformFollowsTheRun
  BY DEF PlatformFits, On, PlatformFollowsTheRun
<1>. QED
  BY <1>1, AndroidAlwaysFits, PTL

-----------------------------------------------------------------------------
(* News on Windows and in the mock *)

WindowsFields ==
    /\ {"mask", "route", "events", "notify"} \subseteq DOMAIN session
    /\ {"endpoints", "told"} \subseteq DOMAIN world

(* The newest event is the mask the session holds; that one is what the
   endpoints are, once the callback that is registered was told of them. *)
WindowsNews ==
    /\ WindowsFields
    /\ IsSequence(session.events)
    /\ session.events # <<>> => NewestOf(session.events).mask = session.mask
    /\ stage = "none" => session.events = <<>> /\ ~session.notify
    /\ world.told /\ (stage = "notify" \/ session.notify) => session.mask = W!Mask

WindowsNewsUntouched ==
    /\ WindowsFields'
    /\ session'.mask = session.mask /\ session'.events = session.events
    /\ session'.notify = session.notify
    /\ world'.endpoints = world.endpoints /\ world'.told = world.told
    /\ \/ stage' = stage
       \/ {stage, stage'} \cap {"none", "notify"} = {}

LEMMA UntouchedKeepsWindowsNews ==
  ASSUME WindowsNews, WindowsNewsUntouched PROVE WindowsNews'
BY DEF WindowsNews, WindowsNewsUntouched, W!Mask

(* A look at the endpoints brings mask and news to what they are. *)
LEMMA RecomputedIsNews ==
  ASSUME WindowsNews, session' = W!Recomputed
  PROVE  /\ {"mask", "route", "events", "notify"} \subseteq DOMAIN session'
         /\ session'.notify = session.notify /\ session'.mask = W!Mask
         /\ IsSequence(session'.events)
         /\ session'.events # <<>> => NewestOf(session'.events).mask = W!Mask
<1>. DEFINE e == W!RoutesChanged(W!Mask)
<1>1. e.mask = W!Mask
  BY DEF W!RoutesChanged
<1>2. W!PushEvent(session.events, e) = PushEvent(session.events, e)
  BY DEF PushEvent, W!PushEvent
<1>3. CASE W!Mask = session.mask
  BY <1>3 DEF W!Recomputed, WindowsNews, WindowsFields
<1>4. CASE W!Mask # session.mask
  <2>1. PICK route : session' = [session EXCEPT !.mask = W!Mask, !.route = route,
                                   !.events = PushEvent(session.events, e)]
    BY <1>2, <1>4 DEF W!Recomputed
  <2>2. IsSequence(session.events)
    BY DEF WindowsNews
  <2>. HIDE DEF e
  <2>3. /\ {"mask", "route", "events", "notify"} \subseteq DOMAIN session'
        /\ session'.mask = W!Mask /\ session'.notify = session.notify
        /\ session'.events = PushEvent(session.events, e)
    BY <2>1 DEF WindowsNews, WindowsFields
  <2>. QED
    BY <1>1, <2>2, <2>3, PushedIsNewest
<1>. QED
  BY <1>3, <1>4

LEMMA LifecycleKeepsWindowsNews ==
  ASSUME WindowsNews, W!Lifecycle PROVE WindowsNews'
<1>. USE DEF WindowsFields, WindowsNewsUntouched
<1>1. CASE W!OpenFails
  BY <1>1, UntouchedKeepsWindowsNews DEF WindowsNews, W!OpenFails
<1>2. CASE W!OpenMakes
  BY <1>2 DEF WindowsNews, W!OpenMakes, W!AtRest, W!Mask
<1>3. CASE W!OpenRegisters
  BY <1>3 DEF WindowsNews, W!OpenRegisters, W!Set, W!Mask
<1>4. CASE W!Start
  BY <1>4, UntouchedKeepsWindowsNews DEF WindowsNews, W!Start, W!IsOpen
<1>5. CASE W!StartMakesThread
  BY <1>5, UntouchedKeepsWindowsNews DEF WindowsNews, W!StartMakesThread
<1>6. CASE W!Stop
  BY <1>6, UntouchedKeepsWindowsNews DEF WindowsNews, W!Stop, W!IsOpen, W!Set
<1>7. CASE W!StopEnds
  BY <1>7, UntouchedKeepsWindowsNews DEF WindowsNews, W!StopEnds
<1>8. CASE W!Close
  BY <1>8, EmptyIsSequence DEF WindowsNews, W!Close, W!Closed, W!AtRest
<1>9. CASE W!RenderLooks \/ W!RenderReleases
  BY <1>9, UntouchedKeepsWindowsNews DEF WindowsNews, W!RenderLooks, W!RenderReleases
<1>10. CASE W!RenderWakes
  BY <1>10, UntouchedKeepsWindowsNews DEF WindowsNews, W!RenderWakes
<1>11. CASE W!RenderFills
  BY <1>11, UntouchedKeepsWindowsNews DEF WindowsNews, W!RenderFills
<1>. QED
  BY <1>1, <1>2, <1>3, <1>4, <1>5, <1>6, <1>7, <1>8, <1>9, <1>10, <1>11
  DEF W!Lifecycle, W!RenderThread

LEMMA SamplesKeepWindowsNews ==
  ASSUME WindowsNews, W!CaptureSide \/ W!CaptureRead \/ W!PlaybackSide
  PROVE  WindowsNews'
<1>. SUFFICES WindowsNewsUntouched
  BY UntouchedKeepsWindowsNews
<1>. USE DEF WindowsFields, WindowsNewsUntouched
<1>1. CASE W!DeviceHears
  BY <1>1 DEF WindowsNews, W!DeviceHears
<1>2. CASE W!ReadBegins \/ W!ReadReturns
  BY <1>2 DEF WindowsNews, W!ReadBegins, W!ReadReturns
<1>3. CASE \E side \in {"mic", "output"}, muted \in Mutes : W!SetMuted(side, muted)
  BY <1>3 DEF WindowsNews, W!SetMuted, W!Set
<1>4. CASE W!ReadLooks
  BY <1>4 DEF WindowsNews, W!ReadLooks, W!Set
<1>5. CASE W!ReadDrains
  BY <1>5 DEF WindowsNews, W!ReadDrains
<1>6. CASE W!PlaybackWrite
  BY <1>6 DEF WindowsNews, W!PlaybackWrite
<1>7. CASE \E c \in W!Clients : W!EngineSignals(c)
  BY <1>7 DEF WindowsNews, W!EngineSignals
<1>. QED
  BY <1>1, <1>2, <1>3, <1>4, <1>5, <1>6, <1>7
  DEF W!CaptureSide, W!CaptureRead, W!PlaybackSide

LEMMA RoutesKeepWindowsNews ==
  ASSUME WindowsNews, W!RouteSide PROVE WindowsNews'
<1>. USE DEF WindowsFields
<1>1. CASE \E c \in W!Clients : W!EngineSignals(c)
  BY <1>1 DEF WindowsNews, W!EngineSignals, W!Mask
<1>2. CASE W!EndpointsChange
  BY <1>2 DEF WindowsNews, W!EndpointsChange
<1>3. CASE W!OnDeviceStateChanged
  BY <1>3, RecomputedIsNews DEF WindowsNews, W!OnDeviceStateChanged, W!Mask
<1>4. CASE W!GetRoutes
  BY <1>4, RecomputedIsNews DEF WindowsNews, W!GetRoutes, W!IsOpen, W!Mask
<1>5. CASE W!PollEvent
  <2>1. /\ session.events # <<>> /\ session'.events = Tail(session.events)
        /\ {"mask", "route", "events", "notify"} \subseteq DOMAIN session'
        /\ session'.mask = session.mask /\ session'.notify = session.notify
    BY <1>5 DEF WindowsNews, W!PollEvent, W!Set
  <2>. QED
    BY <1>5, <2>1, PolledKeepsNewest DEF WindowsNews, W!PollEvent, W!IsOpen, W!Mask
<1>6. CASE W!SetRoute
  <2>. SUFFICES WindowsNewsUntouched
    BY UntouchedKeepsWindowsNews
  <2>. USE DEF WindowsNewsUntouched
  <2>1. CASE \E route \in Routes \cup {W!UnknownRoute} :
               W!SetRouteAnswers(route) \/ W!SetRouteGoesOn(route)
    BY <2>1 DEF WindowsNews, W!SetRouteAnswers, W!SetRouteEnds, W!SetRouteGoesOn, W!IsOpen
  <2>2. CASE W!SetRouteMakes
    BY <2>2 DEF WindowsNews, W!SetRouteMakes, W!SetRouteEnds
  <2>3. CASE W!SetRouteStarts
    BY <2>3 DEF WindowsNews, W!SetRouteStarts, W!SetRouteEnds
  <2>4. CASE W!SetRouteSwaps
    BY <2>4 DEF WindowsNews, W!SetRouteSwaps
  <2>5. CASE W!SetRouteDropsOld
    BY <2>5 DEF WindowsNews, W!SetRouteDropsOld, W!SetRouteEnds
  <2>. QED
    BY <1>6, <2>1, <2>2, <2>3, <2>4, <2>5 DEF W!SetRoute, W!SetRouteSteps
<1>. QED
  BY <1>1, <1>2, <1>3, <1>4, <1>5, <1>6 DEF W!RouteSide

LEMMA WindowsNewsAlways == SafetySpec => [](backend = "windows" => WindowsNews)
<1>1. Init => (backend = "windows" => WindowsNews)
  <2>1. Init /\ backend = "windows" => W!Init
    BY Zenon DEF Init
  <2>2. W!Init => session = W!Closed /\ world = W!AtRest /\ stage = "none"
    BY Zenon DEF W!Init
  <2>. QED
    BY <2>1, <2>2, EmptyIsSequence DEF WindowsNews, WindowsFields, W!Closed, W!AtRest
<1>2. (backend = "windows" => WindowsNews) /\ [Next]_voiceVars
        => (backend = "windows" => WindowsNews)'
  <2>. SUFFICES ASSUME backend = "windows", WindowsNews, [Next]_voiceVars
                PROVE  WindowsNews'
    BY StepIsOfABackend
  <2>1. CASE UNCHANGED voiceVars
    BY <2>1 DEF voiceVars, WindowsNews, WindowsFields, W!Mask
  <2>2. CASE WindowsStep
    BY <2>2, LifecycleKeepsWindowsNews, SamplesKeepWindowsNews, RoutesKeepWindowsNews
    DEF WindowsStep
  <2>. QED
    BY <2>1, <2>2, StepIsOfABackend
<1>. QED
  BY <1>1, <1>2, PTL DEF SafetySpec

MockNews ==
    /\ {"mask", "route", "events"} \subseteq DOMAIN session
    /\ IsSequence(session.events)
    /\ session.events # <<>> /\ NewestOf(session.events).event = "routes_changed" =>
         NewestOf(session.events).mask = session.mask
    /\ stage = "none" => session.events = <<>>

MockNewsUntouched ==
    /\ {"mask", "route", "events"} \subseteq DOMAIN session'
    /\ session'.mask = session.mask /\ session'.events = session.events
    /\ stage' = stage

LEMMA UntouchedKeepsMockNews ==
  ASSUME MockNews, MockNewsUntouched PROVE MockNews'
BY DEF MockNews, MockNewsUntouched

LEMMA PumpKeepsMockNews ==
  ASSUME MockNews, NEW s \in M!Pumped
  PROVE  /\ {"mask", "route", "events"} \subseteq DOMAIN s
         /\ s.mask = session.mask /\ s.events = session.events
<1>. PICK k \in M!Generated : s = M!PumpedWith(k)
  BY DEF M!Pumped
<1>. QED
  BY DEF M!PumpedWith, MockNews

LEMMA MockStepKeepsNews ==
  ASSUME MockNews, MockStep PROVE MockNews'
<1>. USE DEF MockNewsUntouched
<1>1. CASE M!OpenFails \/ M!StartFails
  BY <1>1, UntouchedKeepsMockNews DEF MockNews, M!OpenFails, M!StartFails
<1>2. CASE \E mask \in SUBSET Routes, route \in Routes \cup {M!UnknownRoute} : M!Open(mask, route)
  BY <1>2 DEF MockNews, M!Open
<1>3. CASE M!Start
  BY <1>3, UntouchedKeepsMockNews DEF MockNews, M!Start
<1>4. CASE M!Stop
  BY <1>4, UntouchedKeepsMockNews DEF MockNews, M!Stop
<1>5. CASE M!Close
  BY <1>5, EmptyIsSequence DEF MockNews, M!Close, M!Closed
<1>6. CASE M!Clock \/ M!ReadBegins \/ M!ReadSleeps \/ M!ReadReturns \/ M!PlaybackWrite
  BY <1>6, UntouchedKeepsMockNews
  DEF MockNews, M!Clock, M!ReadBegins, M!ReadSleeps, M!ReadReturns, M!PlaybackWrite
<1>7. CASE \E side \in {"mic", "output"}, muted \in Mutes : M!SetMuted(side, muted)
  <2>. PICK side \in {"mic", "output"}, muted \in Mutes : M!SetMuted(side, muted)
    BY <1>7
  <2>1. CASE M!GeneratesFirst(side)
    <3>1. PICK s \in M!Pumped : session' = [s EXCEPT !.mic = muted]
      BY <2>1 DEF M!SetMuted, M!Pump
    <3>2. stage' = stage
      BY DEF M!SetMuted
    <3>. QED
      BY <3>1, <3>2, PumpKeepsMockNews, UntouchedKeepsMockNews
  <2>2. CASE ~M!GeneratesFirst(side)
    BY <2>2, UntouchedKeepsMockNews DEF MockNews, M!SetMuted, M!Set
  <2>. QED
    BY <2>1, <2>2
<1>8. CASE M!ReadTurns
  <2>1. PICK s \in M!Pumped :
          session' = s \/ session' = [s EXCEPT !.accum = M!Behind(FrameUnits, s.accum)]
    BY <1>8, Zenon DEF M!ReadTurns
  <2>2. stage' = stage
    BY <1>8 DEF M!ReadTurns
  <2>. QED
    BY <2>1, <2>2, PumpKeepsMockNews, UntouchedKeepsMockNews
<1>9. CASE \E counter \in {"underruns", "overruns"} : M!MockAddCount(counter)
  BY <1>9, UntouchedKeepsMockNews DEF MockNews, M!MockAddCount, M!Set
<1>10. CASE M!PollEvent
  <2>1. /\ session.events # <<>> /\ session'.events = Tail(session.events)
        /\ {"mask", "route", "events"} \subseteq DOMAIN session'
        /\ session'.mask = session.mask
    BY <1>10 DEF MockNews, M!PollEvent, M!Set
  <2>. QED
    BY <1>10, <2>1, PolledKeepsNewest DEF MockNews, M!PollEvent, M!IsOpen
<1>11. CASE \E route \in Routes \cup {M!UnknownRoute} : M!SetRoute(route)
  BY <1>11, UntouchedKeepsMockNews DEF MockNews, M!SetRoute, M!Set
<1>12. CASE M!MockPushEvent \/ M!MockForceFormat
  <2>1. PICK e \in [event : {"interrupted", "format_changed"}, mask : {{}}] :
          /\ session'.events = PushEvent(session.events, e)
          /\ {"mask", "route", "events"} \subseteq DOMAIN session'
          /\ session'.mask = session.mask
    <3>1. CASE M!MockPushEvent
      BY <3>1 DEF MockNews, M!MockPushEvent, M!Set, PushEvent, M!PushEvent
    <3>2. CASE M!MockForceFormat
      BY <3>2 DEF MockNews, M!MockForceFormat, PushEvent, M!PushEvent
    <3>. QED
      BY <1>12, <3>1, <3>2
  <2>2. stage' = stage /\ M!IsOpen
    BY <1>12 DEF M!MockPushEvent, M!MockForceFormat
  <2>. QED
    BY <2>1, <2>2, PushedIsNewest DEF MockNews, M!IsOpen
<1>13. CASE \E route \in Routes \cup {M!UnknownRoute}, mask \in SUBSET Routes :
              M!MockSetRoutes(mask, route)
  <2>. PICK route \in Routes \cup {M!UnknownRoute}, mask \in SUBSET Routes :
              M!MockSetRoutes(mask, route)
    BY <1>13
  <2>. DEFINE e == M!RoutesChanged(mask)
  <2>1. /\ session'.events = PushEvent(session.events, e)
        /\ {"mask", "route", "events"} \subseteq DOMAIN session'
        /\ session'.mask = mask
    BY DEF MockNews, M!MockSetRoutes, PushEvent, M!PushEvent
  <2>2. e.mask = mask /\ stage' = stage /\ M!IsOpen
    BY DEF M!RoutesChanged, M!MockSetRoutes
  <2>. HIDE DEF e
  <2>. QED
    BY <2>1, <2>2, PushedIsNewest DEF MockNews, M!IsOpen
<1>. QED
  BY <1>1, <1>2, <1>3, <1>4, <1>5, <1>6, <1>7, <1>8, <1>9, <1>10, <1>11, <1>12, <1>13
  DEF MockStep, M!Lifecycle, M!CaptureSide, M!CaptureRead, M!PlaybackSide, M!RouteSide

LEMMA MockNewsAlways == SafetySpec => [](backend = "mock" => MockNews)
<1>1. Init => (backend = "mock" => MockNews)
  <2>1. Init /\ backend = "mock" => M!Init
    BY Zenon DEF Init
  <2>. QED
    BY <2>1, EmptyIsSequence DEF M!Init, MockNews, M!Closed
<1>2. (backend = "mock" => MockNews) /\ [Next]_voiceVars => (backend = "mock" => MockNews)'
  <2>. SUFFICES ASSUME backend = "mock", MockNews, [Next]_voiceVars
                PROVE  MockNews'
    BY StepIsOfABackend
  <2>1. CASE UNCHANGED voiceVars
    BY <2>1 DEF voiceVars, MockNews
  <2>. QED
    BY <2>1, MockStepKeepsNews, StepIsOfABackend
<1>. QED
  BY <1>1, <1>2, PTL DEF SafetySpec

(* The newest news in the queue is the mask a look at the routes would give,
   as far as each backend promises it. *)
THEOREM NewestNewsIsTrue == SafetySpec => []NewsIsTrue
<1>1. ASSUME backend = "apple" => ListenerFits,
             backend = "android" => PlatformFits /\ WatcherFits,
             backend = "windows" => WindowsNews, backend = "mock" => MockNews
      PROVE  NewsIsTrue
  <2>. SUFFICES ASSUME session.events # <<>>, LatestNews.event = "routes_changed"
                PROVE  NewsIsTrue
    BY DEF NewsIsTrue
  <2>1. LatestNews = NewestOf(session.events)
    BY DEF LatestNews, NewestOf
  <2>2. backend \in {"windows", "mock"} => LatestNews.mask = session.mask
    BY <1>1, <2>1 DEF WindowsNews, MockNews
  <2>3. backend = "windows" /\ world.told /\ session.notify => session.mask = W!Mask
    BY <1>1 DEF WindowsNews
  <2>4. backend = "apple" /\ world.told /\ thread.pc = "none" /\ LatestNews.mask # {} =>
          LatestNews.mask = A!ProbedMask
    BY <1>1, <2>1 DEF ListenerFits
  <2>5. backend = "android" /\ session.gen = 1 /\ world.watch = 1 /\ world.told
          /\ thread.watcher[1] = D!NoWatcher => LatestNews.mask = world.devices
    BY <1>1, <2>1 DEF WatcherFits, FirstWatcher, D!NoWatcher
  <2>. QED
    BY <2>2, <2>3, <2>4, <2>5, Zenon DEF NewsIsTrue
<1>. QED
  BY <1>1, ListenerAlwaysFits, AndroidAlwaysFits, WindowsNewsAlways, MockNewsAlways, PTL
=============================================================================
