--------------------------- MODULE VoiceABIProofs ---------------------------
(* Proof that each voice backend keeps cleona_voice.h: every step a backend
   takes is one the header allows, or one no caller notices. *)
EXTENDS VoiceBuffersProofs

ABIStep == ABI!Next \/ UNCHANGED ABI!abiVars

(* The flags the header speaks of. *)
SameFlags ==
    /\ session'.running = session.running
    /\ session'.mic = session.mic /\ session'.output = session.output

-----------------------------------------------------------------------------
(* PipeWire *)

LinuxView ==
    /\ stage # "done" => State = "none"
    /\ stage = "done" => State = IF session.running THEN "running" ELSE "open"
    /\ reader.pc = "out" => Read = "out"
    /\ reader.pc = "waiting" => Read = "in"
    /\ reader.pc \in {"first_half", "second_half", "took"} => Read = "seen"

LEMMA LinuxViewIs ==
  ASSUME backend = "linux", backend' = "linux" PROVE LinuxView /\ LinuxView'
<1>1. State = L!State /\ Read = L!Read
  BY DEF State, Read
<1>2. State' = L!State' /\ Read' = L!Read'
  BY DEF State, Read
<1>. QED
  BY <1>1, <1>2 DEF LinuxView, L!State, L!Read, L!IsOpen

(* A session that is not open is silent, heard and read by nobody. *)
LinuxQuiet ==
    /\ reader.pc \in {"out", "waiting", "first_half", "second_half", "took"}
    /\ stage # "done" =>
         /\ session.running = FALSE /\ session.mic = FALSE /\ session.output = FALSE
         /\ reader.pc = "out"

LEMMA LinuxUnnoticed ==
  ASSUME LinuxView, LinuxView', LinuxQuiet, SameFlags, reader'.pc = reader.pc,
         last' = last, stage' = stage \/ (stage # "done" /\ stage' # "done")
  PROVE  LinuxQuiet' /\ ABIStep
<1>1. State' = State /\ Read' = Read
  BY DEF LinuxView, LinuxQuiet, SameFlags
<1>. QED
  BY <1>1 DEF ABIStep, ABI!abiVars, SameFlags, LinuxQuiet

LEMMA LinuxOpenKeeps ==
  ASSUME LinuxView, LinuxView', LinuxQuiet, guard <=> stage # "none", HasSession, L!Open
  PROVE  LinuxQuiet' /\ ABIStep
<1>. USE DEF HasSession
<1>1. CASE L!OpenRefused
  <2>1. UNCHANGED <<stage, session, reader>> /\ last' = L!Result("open", "refused")
    BY <1>1 DEF L!OpenRefused, L!Returns
  <2>2. State' = State /\ Read' = Read
    BY <2>1 DEF LinuxView, LinuxQuiet
  <2>3. ABI!OpenRefused
    BY <2>1, <2>2 DEF ABI!OpenRefused, ABI!Returns, ABI!OnlyAnswers, ABI!Result, L!Result
  <2>. QED
    BY <2>1, <2>3 DEF ABIStep, ABI!Next, LinuxQuiet
<1>2. CASE \/ L!OpenClaims \/ L!OpenConnects \/ L!OpenLoadsModule \/ L!OpenRoundtrip
           \/ L!OpenMakesStreams \/ L!OpenHasFormat \/ L!OpenCreatesApm
           \/ L!OpenListensToRegistry
  <2>1. SameFlags /\ reader' = reader /\ last' = last
    BY <1>2
    DEF SameFlags, L!OpenClaims, L!OpenConnects, L!OpenLoadsModule, L!OpenRoundtrip,
        L!OpenMakesStreams, L!OpenHasFormat, L!OpenCreatesApm, L!OpenListensToRegistry,
        L!OpenGoesOn, L!Set
  <2>2. stage # "done" /\ stage' # "done"
    BY <1>2
    DEF L!OpenClaims, L!OpenConnects, L!OpenLoadsModule, L!OpenRoundtrip,
        L!OpenMakesStreams, L!OpenHasFormat, L!OpenCreatesApm, L!OpenListensToRegistry,
        L!OpenGoesOn
  <2>. QED
    BY <2>1, <2>2, LinuxUnnoticed
<1>3. CASE L!OpenRefusedByPlatform \/ L!OpenHasNoFormat
  <2>1. /\ stage # "done" /\ stage' # "done" /\ reader' = reader
        /\ last' = L!Result("open", "refused")
        /\ session' = [L!Closed EXCEPT !.runs = session.runs]
    BY <1>3 DEF L!OpenRefusedByPlatform, L!OpenHasNoFormat, L!OpenFails, L!TakenDown, L!Returns
  <2>2. session'.running = FALSE /\ session'.mic = FALSE /\ session'.output = FALSE
    BY <2>1 DEF L!Closed
  <2>3. /\ reader.pc = "out" /\ reader'.pc = "out"
        /\ session.running = FALSE /\ session.mic = FALSE /\ session.output = FALSE
    BY <2>1 DEF LinuxQuiet
  <2>4. stage # "done" /\ stage' # "done" /\ last' = L!Result("open", "refused")
    BY <2>1
  <2>5. State' = State /\ Read' = Read
    BY <2>3, <2>4 DEF LinuxView
  <2>6. ABI!OpenRefused
    BY <2>2, <2>3, <2>4, <2>5
    DEF ABI!OpenRefused, ABI!Returns, ABI!OnlyAnswers, ABI!Result, L!Result
  <2>. QED
    BY <2>2, <2>3, <2>6 DEF LinuxQuiet, ABIStep, ABI!Next
<1>4. CASE L!OpenSettlesRoute
  <2>1. /\ stage = "routes" /\ stage' = "done" /\ SameFlags /\ reader' = reader
        /\ last' = L!Result("open", "ok")
    BY <1>4 DEF L!OpenSettlesRoute, L!Returns, SameFlags
  <2>2. State = "none" /\ State' = "open" /\ Read' = Read
    BY <2>1 DEF LinuxView, LinuxQuiet, SameFlags
  <2>3. ABI!Opens
    BY <2>1, <2>2 DEF SameFlags, ABI!Opens, ABI!Returns, ABI!Result, L!Result
  <2>. QED
    BY <2>1, <2>3 DEF LinuxQuiet, ABIStep, ABI!Next
<1>. QED
  BY <1>1, <1>2, <1>3, <1>4 DEF L!Open

LEMMA LinuxCallsKeep ==
  ASSUME LinuxView, LinuxView', LinuxQuiet, HasSession, L!Start \/ L!Stop \/ L!Close
  PROVE  LinuxQuiet' /\ ABIStep
<1>. USE DEF HasSession
<1>1. CASE L!Start /\ session.running
  <2>1. /\ UNCHANGED <<stage, session, reader>> /\ stage = "done"
        /\ last' = L!Result("start", "already_started")
    BY <1>1 DEF L!Start, L!Returns, L!IsOpen
  <2>2. State = "running" /\ State' = State /\ Read' = Read
    BY <1>1, <2>1 DEF LinuxView, LinuxQuiet
  <2>3. ABI!StartRefused
    BY <2>1, <2>2 DEF ABI!StartRefused, ABI!Returns, ABI!Result, L!Result
  <2>. QED
    BY <2>1, <2>3 DEF ABIStep, ABI!Next, LinuxQuiet
<1>2. CASE L!Start /\ ~session.running
  <2>1. /\ stage = "done" /\ stage' = stage /\ reader' = reader
        /\ session' = L!Begun(session) /\ last' = L!Result("start", "ok")
    BY <1>2 DEF L!Start, L!Returns, L!IsOpen
  <2>2. /\ session'.running = TRUE
        /\ session'.mic = session.mic /\ session'.output = session.output
    BY <2>1 DEF L!Begun
  <2>3. State = "open" /\ State' = "running" /\ Read' = Read
    BY <1>2, <2>1, <2>2 DEF LinuxView, LinuxQuiet
  <2>4. ABI!Starts
    BY <2>1, <2>2, <2>3 DEF ABI!Starts, ABI!Returns, ABI!Result, L!Result
  <2>. QED
    BY <2>1, <2>4 DEF ABIStep, ABI!Next, LinuxQuiet
<1>3. CASE L!Stop
  <2>1. /\ stage = "done" /\ stage' = stage /\ reader' = reader
        /\ last' = L!Result("stop", "ok") /\ session'.running = FALSE
        /\ session'.mic = session.mic /\ session'.output = session.output
    BY <1>3 DEF L!Stop, L!Returns, L!IsOpen, L!Set
  <2>2. State \in {"open", "running"} /\ State' = "open" /\ Read' = Read
    BY <2>1 DEF LinuxView, LinuxQuiet
  <2>3. ABI!Stops
    BY <2>1, <2>2 DEF ABI!Stops, ABI!Idle, ABI!Returns, ABI!Result, L!Result
  <2>. QED
    BY <2>1, <2>3 DEF ABIStep, ABI!Next, LinuxQuiet
<1>4. CASE L!Close
  <2>1. /\ stage = "done" /\ stage' = "none" /\ reader' = reader /\ reader.pc = "out"
        /\ last' = L!Result("close", "ok")
        /\ session'.running = FALSE /\ session'.mic = FALSE /\ session'.output = FALSE
    BY <1>4 DEF L!Close, L!Returns, L!IsOpen, L!Closed
  <2>2. State \in {"open", "running"} /\ State' = "none" /\ Read = "out" /\ Read' = Read
    BY <2>1 DEF LinuxView
  <2>3. ABI!Closes
    BY <2>1, <2>2 DEF ABI!Closes, ABI!Idle, ABI!Returns, ABI!Result, L!Result
  <2>. QED
    BY <2>1, <2>3 DEF ABIStep, ABI!Next, LinuxQuiet
<1>. QED
  BY <1>1, <1>2, <1>3, <1>4

(* A mute is a call of its own on every backend. *)
LEMMA MuteKeeps ==
  ASSUME NEW side \in {"mic", "output"}, NEW muted \in BOOLEAN,
         State \in {"open", "running"}, State' = State, Read' = Read,
         HasSession, session' = [session EXCEPT ![side] = muted],
         last' = Result(SetCall[side], IF muted THEN "on" ELSE "off")
  PROVE  ABIStep
<1>. USE DEF HasSession, Result, SetCall, ABI!Result, ABI!Returns, ABI!Idle
<1>1. CASE side = "mic"
  <2>1. session'.mic = muted /\ session'.output = session.output
    BY <1>1
  <2>2. ABI!SetMicMuted(muted)
    BY <1>1, <2>1 DEF ABI!SetMicMuted
  <2>. QED
    BY <2>2 DEF ABIStep, ABI!Next
<1>2. CASE side = "output"
  <2>1. session'.output = muted /\ session'.mic = session.mic
    BY <1>2
  <2>2. ABI!SetOutputMuted(muted)
    BY <1>2, <2>1 DEF ABI!SetOutputMuted
  <2>. QED
    BY <2>2 DEF ABIStep, ABI!Next
<1>. QED
  BY <1>1, <1>2

LEMMA LinuxMuteKeeps ==
  ASSUME LinuxView, LinuxView', LinuxQuiet, HasSession,
         NEW side \in {"mic", "output"}, NEW muted \in Mutes, L!SetMuted(side, muted)
  PROVE  LinuxQuiet' /\ ABIStep
<1>1. /\ stage = "done" /\ stage' = stage /\ reader' = reader
      /\ session' = [session EXCEPT ![side] = muted]
      /\ last' = L!Result(L!SetCall[side], IF muted THEN "on" ELSE "off")
  BY DEF L!SetMuted, L!Returns, L!IsOpen, L!Set
<1>2. session'.running = session.running
  BY <1>1 DEF HasSession
<1>3. State \in {"open", "running"} /\ State' = State /\ Read' = Read
  BY <1>1, <1>2 DEF LinuxView, LinuxQuiet
<1>4. last' = Result(SetCall[side], IF muted THEN "on" ELSE "off")
  BY <1>1 DEF L!Result, L!SetCall, Result, SetCall
<1>. QED
  BY <1>1, <1>3, <1>4, MuteKeeps, BoundsAssumption DEF LinuxQuiet

LEMMA LinuxCallbacksKeep ==
  ASSUME LinuxView, LinuxView', LinuxQuiet, HasSession,
         \/ \E rate \in Rates : L!CaptureParamChanged(rate) \/ L!PlaybackParamChanged(rate)
         \/ L!CaptureProcess \/ L!PlaybackProcess \/ L!RegistryGlobalRemove
         \/ \E route \in Routes : L!RegistryGlobal(route)
         \/ L!PollEvent
  PROVE  LinuxQuiet' /\ ABIStep
<1>. USE DEF HasSession, SameFlags
<1>1. UNCHANGED <<stage, reader, last>>
  BY DEF L!CaptureParamChanged, L!PlaybackParamChanged, L!CaptureProcess, L!PlaybackProcess,
         L!RegistryGlobalRemove, L!RegistryGlobal, L!PollEvent
<1>2. SameFlags
  <2>1. CASE \E rate \in Rates : L!CaptureParamChanged(rate) \/ L!PlaybackParamChanged(rate)
    BY <2>1 DEF L!CaptureParamChanged, L!PlaybackParamChanged, L!Set
  <2>2. CASE L!CaptureProcess
    BY <2>2 DEF L!CaptureProcess
  <2>3. CASE L!PlaybackProcess \/ L!RegistryGlobalRemove \/ L!PollEvent
    BY <2>3 DEF L!PlaybackProcess, L!RegistryGlobalRemove, L!PollEvent, L!Set
  <2>4. CASE \E route \in Routes : L!RegistryGlobal(route)
    BY <2>4 DEF L!RegistryGlobal
  <2>. QED
    BY <2>1, <2>2, <2>3, <2>4
<1>. QED
  BY <1>1, <1>2, LinuxUnnoticed

LEMMA LinuxReadKeeps ==
  ASSUME LinuxView, LinuxView', LinuxQuiet, HasSession, ReaderIsQuiet,
         L!ReadBegins \/ L!CaptureRead
  PROVE  LinuxQuiet' /\ ABIStep
<1>. USE DEF HasSession, SameFlags
<1>1. CASE L!ReadBegins
  <2>1. /\ stage = "done" /\ UNCHANGED <<stage, session, last>>
        /\ reader.pc = "out" /\ reader'.pc = "waiting"
    BY <1>1 DEF L!ReadBegins, L!NoRead, L!IsOpen
  <2>2. State \in {"open", "running"} /\ State' = State /\ Read = "out" /\ Read' = "in"
    BY <2>1 DEF LinuxView
  <2>3. ABI!ReadBegins
    BY <2>1, <2>2 DEF ABI!ReadBegins, ABI!Idle
  <2>. QED
    BY <2>1, <2>3 DEF ABIStep, ABI!Next, LinuxQuiet
<1>2. CASE L!ReadTakes
  <2>1. /\ UNCHANGED <<stage, last>> /\ SameFlags /\ session.running
        /\ reader.pc = "waiting" /\ reader'.pc \in {"first_half", "took"}
    BY <1>2 DEF L!ReadTakes, L!Set
  <2>2. stage = "done"
    BY <2>1 DEF LinuxQuiet
  <2>3. State = "running" /\ State' = State /\ Read = "in" /\ Read' = "seen"
    BY <2>1, <2>2 DEF LinuxView
  <2>4. ABI!ReadTurns
    BY <2>1, <2>3 DEF ABI!ReadTurns, ABI!Running
  <2>. QED
    BY <2>1, <2>2, <2>4 DEF ABIStep, ABI!Next, LinuxQuiet
<1>3. CASE L!ReadReturns
  <2>1. UNCHANGED <<stage, session>> /\ reader'.pc = "out"
    BY <1>3 DEF L!ReadReturns, L!NoRead
  <2>2. \/ reader.pc = "took" /\ last' = L!Result("capture_read", "frame")
        \/ /\ reader.pc = "waiting" /\ ~session.running
           /\ last' = L!Result("capture_read", "closed")
        \/ /\ reader.pc = "waiting" /\ session.running
           /\ last' = L!Result("capture_read", "timeout")
    BY <1>3 DEF L!ReadReturns, L!Returns, L!SeenStopped
  <2>3. stage = "done" /\ State' = State /\ Read' = "out"
    BY <2>1, <2>2 DEF LinuxView, LinuxQuiet
  <2>4. /\ reader.pc = "took" => Read = "seen"
        /\ reader.pc = "waiting" => Read = "in"
        /\ State = IF session.running THEN "running" ELSE "open"
    BY <2>3 DEF LinuxView
  <2>5. ABI!ReadReturns
    BY <2>1, <2>2, <2>3, <2>4
    DEF ABI!ReadReturns, ABI!Running, ABI!Returns, ABI!Result, L!Result
  <2>. QED
    BY <2>1, <2>3, <2>5 DEF ABIStep, ABI!Next, LinuxQuiet
<1>4. CASE L!ReadCancels
  <2>1. /\ UNCHANGED <<stage, last>> /\ SameFlags
        /\ reader.pc \in {"first_half", "second_half"}
        /\ reader'.pc \in {"second_half", "took"}
    <3>1. "pc" \in DOMAIN reader
      BY DEF ReaderIsQuiet
    <3>. QED
      BY <1>4, <3>1 DEF L!ReadCancels, L!Set
  <2>2. stage = "done"
    BY <2>1 DEF LinuxQuiet
  <2>3. State' = State /\ Read' = Read
    BY <2>1, <2>2 DEF LinuxView
  <2>. QED
    BY <2>1, <2>2, <2>3 DEF ABIStep, ABI!abiVars, LinuxQuiet
<1>. QED
  BY <1>1, <1>2, <1>3, <1>4 DEF L!CaptureRead

(* What a call that writes or sets the route shows on every backend. *)
LEMMA WriteKeeps ==
  ASSUME State # "none", State' = State, Read' = Read,
         session'.mic = session.mic, session'.output = session.output,
         \/ /\ State \in {"starting", "running"}
            /\ \E code \in {"ok", "frame_size"} : last' = Result("playback_write", code)
         \/ /\ State \notin {"starting", "running"}
            /\ last' = Result("playback_write", "not_started")
  PROVE  ABIStep
<1>1. ABI!PlaybackWrite
  BY DEF ABI!PlaybackWrite, ABI!Running, ABI!Returns, ABI!OnlyAnswers, ABI!Result, Result
<1>. QED
  BY <1>1 DEF ABIStep, ABI!Next

LEMMA RouteKeeps ==
  ASSUME State \in {"open", "running"}, State' = State, Read' = Read,
         session'.mic = session.mic, session'.output = session.output,
         NEW code \in {"ok", "refused"}, last' = Result("set_route", code)
  PROVE  ABIStep
<1>1. ABI!SetRoute
  BY DEF ABI!SetRoute, ABI!Idle, ABI!Returns, ABI!OnlyAnswers, ABI!Result, Result
<1>. QED
  BY <1>1 DEF ABIStep, ABI!Next

LEMMA LinuxWriteKeeps ==
  ASSUME LinuxView, LinuxView', LinuxQuiet, HasSession, L!PlaybackWrite
  PROVE  LinuxQuiet' /\ ABIStep
<1>1. UNCHANGED <<stage, reader>> /\ stage = "done"
  BY DEF L!PlaybackWrite, L!IsOpen
<1>2. \/ /\ ~session.running /\ session' = session
         /\ last' = Result("playback_write", "not_started")
      \/ /\ session.running /\ session' = session
         /\ last' = Result("playback_write", "frame_size")
      \/ /\ session.running /\ last' = Result("playback_write", "ok")
         /\ \E ring, render, overruns : session' =
              [session EXCEPT !.ring = ring, !.render = render, !.overruns = overruns]
  <2>1. CASE ~session.running
    BY <2>1 DEF L!PlaybackWrite, L!Returns, L!Result, Result
  <2>2. CASE session.running
    <3>. DEFINE frame == L!Heard(FrameUnits, "speech", session.runs)
                fits == Len(session.ring) + FrameUnits <= L!RingUnits
                refers == /\ fits /\ session.chain = "linked_apm"
                          /\ Len(session.render) + FrameUnits <= L!RingUnits
    <3>1. \/ last' = Result("playback_write", "frame_size") /\ session' = session
          \/ /\ last' = Result("playback_write", "ok")
             /\ session' = [session EXCEPT
                  !.ring = IF fits THEN @ \o frame ELSE @,
                  !.render = IF refers THEN @ \o frame ELSE @,
                  !.overruns = IF fits THEN @ ELSE L!CountUp(@)]
      BY <2>2 DEF L!PlaybackWrite, L!Returns, L!Result, Result
    <3>. HIDE DEF frame, fits, refers
    <3>. QED
      BY <2>2, <3>1
  <2>. QED
    BY <2>1, <2>2
<1>3. SameFlags
  BY <1>2 DEF HasSession, SameFlags
<1>4. State = IF session.running THEN "running" ELSE "open"
  BY <1>1 DEF LinuxView
<1>5. State' = State /\ Read' = Read
  BY <1>1, <1>3 DEF LinuxView, LinuxQuiet, SameFlags
<1>6. ABIStep
  BY <1>2, <1>3, <1>4, <1>5, WriteKeeps DEF SameFlags
<1>. QED
  BY <1>1, <1>6 DEF LinuxQuiet

LEMMA LinuxSetRouteKeeps ==
  ASSUME LinuxView, LinuxView', LinuxQuiet, NEW route, L!SetRoute(route)
  PROVE  LinuxQuiet' /\ ABIStep
<1>1. /\ stage = "done" /\ UNCHANGED <<stage, session, reader>>
      /\ \E code \in {"ok", "refused"} : last' = Result("set_route", code)
  BY DEF L!SetRoute, L!Returns, L!IsOpen, L!Result, Result
<1>2. State \in {"open", "running"} /\ State' = State /\ Read' = Read
  BY <1>1 DEF LinuxView, LinuxQuiet
<1>. QED
  BY <1>1, <1>2, RouteKeeps DEF LinuxQuiet

LEMMA LinuxStepKeeps ==
  ASSUME backend = "linux", backend' = "linux", LinuxFits, LinuxQuiet,
         guard <=> stage # "none", LinuxStep
  PROVE  LinuxQuiet' /\ ABIStep
<1>1. LinuxView
  BY LinuxViewIs
<1>2. LinuxView'
  BY LinuxViewIs
<1>3. HasSession /\ ReaderIsQuiet
  BY DEF LinuxFits, SessionFits
<1>4. CASE L!Lifecycle
  BY <1>1, <1>2, <1>3, <1>4, LinuxOpenKeeps, LinuxCallsKeep, LinuxCallbacksKeep DEF L!Lifecycle
<1>5. CASE L!CaptureSide \/ L!CaptureRead
  BY <1>1, <1>2, <1>3, <1>5, LinuxCallbacksKeep, LinuxReadKeeps, LinuxMuteKeeps DEF L!CaptureSide
<1>6. CASE L!PlaybackSide
  BY <1>1, <1>2, <1>3, <1>6, LinuxCallbacksKeep, LinuxWriteKeeps, LinuxMuteKeeps
  DEF L!PlaybackSide
<1>7. CASE L!RouteSide
  BY <1>1, <1>2, <1>3, <1>7, LinuxCallbacksKeep, LinuxSetRouteKeeps DEF L!RouteSide
<1>. QED
  BY <1>4, <1>5, <1>6, <1>7 DEF LinuxStep

-----------------------------------------------------------------------------
(* WASAPI *)

WindowsView ==
    /\ stage \in {"none", "notify"} => State = "none"
    /\ stage = "thread" => State = "starting"
    /\ stage = "joining" => State = "stopping"
    /\ stage \notin {"none", "notify", "thread", "joining"} =>
         State = IF session.running THEN "running" ELSE "open"
    /\ reader.pc = "out" => Read = "out"
    /\ reader.pc = "looking" => Read = "in"
    /\ reader.pc \in {"waiting", "took"} => Read = "seen"

LEMMA WindowsViewIs ==
  ASSUME backend = "windows", backend' = "windows" PROVE WindowsView /\ WindowsView'
<1>1. State = W!State /\ Read = W!Read
  BY DEF State, Read
<1>2. State' = W!State' /\ Read' = W!Read'
  BY DEF State, Read
<1>. QED
  BY <1>1, <1>2 DEF WindowsView, W!State, W!Read

(* The session runs from the first step of start to the first of stop. *)
WindowsQuiet ==
    /\ reader.pc \in {"out", "looking", "waiting", "took"}
    /\ stage = "thread" => session.running = TRUE
    /\ stage \in {"none", "notify", "joining"} => session.running = FALSE

LEMMA WindowsUnnoticed ==
  ASSUME WindowsView, WindowsView', WindowsQuiet, SameFlags, reader'.pc = reader.pc,
         last' = last,
         \/ stage' = stage
         \/ stage \in {"none", "notify"} /\ stage' \in {"none", "notify"}
         \/ /\ stage \notin {"none", "notify", "thread", "joining"}
            /\ stage' \notin {"none", "notify", "thread", "joining"}
  PROVE  WindowsQuiet' /\ ABIStep
<1>1. State' = State
  <2>1. CASE stage' = stage
    BY <2>1 DEF WindowsView, SameFlags
  <2>2. CASE stage' # stage
    BY <2>2 DEF WindowsView, WindowsQuiet, SameFlags
  <2>. QED
    BY <2>1, <2>2
<1>2. Read' = Read
  BY DEF WindowsView, WindowsQuiet
<1>. QED
  BY <1>1, <1>2 DEF ABIStep, ABI!abiVars, SameFlags, WindowsQuiet

LEMMA RecomputedKeepsFlags ==
  ASSUME HasSession
  PROVE  /\ W!Recomputed.running = session.running
         /\ W!Recomputed.mic = session.mic /\ W!Recomputed.output = session.output
<1>1. CASE W!Mask = session.mask
  BY <1>1 DEF W!Recomputed
<1>2. CASE W!Mask # session.mask
  BY <1>2 DEF W!Recomputed, HasSession
<1>. QED
  BY <1>1, <1>2

LEMMA WindowsCallsKeep ==
  ASSUME WindowsView, WindowsView', WindowsQuiet, HasSession, session.running \in BOOLEAN,
         \/ W!OpenFails \/ W!OpenMakes \/ W!OpenRegisters \/ W!Start \/ W!StartMakesThread
         \/ W!Stop \/ W!StopEnds \/ W!Close
  PROVE  WindowsQuiet' /\ ABIStep
<1>. USE DEF HasSession
<1>1. CASE W!OpenFails
  <2>1. /\ UNCHANGED <<stage, session, reader>> /\ stage = "none"
        /\ last' = W!Result("open", "refused")
    BY <1>1 DEF W!OpenFails, W!Returns
  <2>2. State' = State /\ Read' = Read
    BY <2>1 DEF WindowsView, WindowsQuiet
  <2>3. ABI!OpenRefused
    BY <2>1, <2>2 DEF ABI!OpenRefused, ABI!Returns, ABI!OnlyAnswers, ABI!Result, W!Result
  <2>. QED
    BY <2>1, <2>3 DEF ABIStep, ABI!Next, WindowsQuiet
<1>2. CASE W!OpenMakes
  <2>1. /\ stage = "none" /\ stage' = "notify" /\ UNCHANGED <<reader, last>> /\ SameFlags
    BY <1>2 DEF W!OpenMakes, SameFlags
  <2>. QED
    BY <2>1, WindowsUnnoticed
<1>3. CASE W!OpenRegisters
  <2>1. /\ stage = "notify" /\ stage' = "done" /\ SameFlags /\ reader' = reader
        /\ last' = W!Result("open", "ok")
    BY <1>3 DEF W!OpenRegisters, W!Returns, W!Set, SameFlags
  <2>2. State = "none" /\ State' = "open" /\ Read' = Read
    BY <2>1 DEF WindowsView, WindowsQuiet, SameFlags
  <2>3. ABI!Opens
    BY <2>1, <2>2 DEF SameFlags, ABI!Opens, ABI!Returns, ABI!Result, W!Result
  <2>. QED
    BY <2>1, <2>3 DEF WindowsQuiet, ABIStep, ABI!Next
<1>4. CASE W!Start
  <2>1. CASE UNCHANGED <<stage, session>>
    <3>1. /\ stage = "done" /\ reader' = reader
          /\ \/ session.running /\ last' = W!Result("start", "already_started")
             \/ last' = W!Result("start", "backend")
      BY <1>4, <2>1 DEF W!Start, W!IsOpen, W!Returns
    <3>2. /\ State = IF session.running THEN "running" ELSE "open"
          /\ State' = State /\ Read' = Read
      BY <2>1, <3>1 DEF WindowsView, WindowsQuiet
    <3>3. ABI!StartRefused
      BY <2>1, <3>1, <3>2
      DEF ABI!StartRefused, ABI!Idle, ABI!Returns, ABI!Result, W!Result
    <3>. QED
      BY <2>1, <3>1, <3>3 DEF WindowsQuiet, ABIStep, ABI!Next
  <2>2. CASE ~UNCHANGED <<stage, session>>
    <3>1. /\ stage = "done" /\ stage' = "thread" /\ UNCHANGED <<reader, last>>
          /\ ~session.running /\ session'.running = TRUE
          /\ session'.mic = session.mic /\ session'.output = session.output
      BY <1>4, <2>2 DEF W!Start, W!IsOpen
    <3>2. State = "open" /\ State' = "starting" /\ Read' = Read
      BY <3>1 DEF WindowsView, WindowsQuiet
    <3>3. ABI!StartBegins
      BY <3>1, <3>2 DEF ABI!StartBegins
    <3>. QED
      BY <3>1, <3>3 DEF WindowsQuiet, ABIStep, ABI!Next
  <2>. QED
    BY <2>1, <2>2
<1>5. CASE W!StartMakesThread
  <2>1. /\ stage = "thread" /\ stage' = "done" /\ UNCHANGED <<session, reader>>
        /\ last' = W!Result("start", "ok")
    BY <1>5 DEF W!StartMakesThread, W!Returns
  <2>2. State = "starting" /\ State' = "running" /\ Read' = Read
    BY <2>1 DEF WindowsView, WindowsQuiet
  <2>3. ABI!Starts
    BY <2>1, <2>2 DEF ABI!Starts, ABI!Returns, ABI!Result, W!Result
  <2>. QED
    BY <2>1, <2>3 DEF WindowsQuiet, ABIStep, ABI!Next
<1>6. CASE W!Stop
  <2>1. CASE session.running
    <3>1. /\ stage = "done" /\ stage' = "joining" /\ UNCHANGED <<reader, last>>
          /\ session'.running = FALSE
          /\ session'.mic = session.mic /\ session'.output = session.output
      BY <1>6, <2>1 DEF W!Stop, W!IsOpen, W!Set
    <3>2. State = "running" /\ State' = "stopping" /\ Read' = Read
      BY <2>1, <3>1 DEF WindowsView, WindowsQuiet
    <3>3. ABI!StopBegins
      BY <3>1, <3>2 DEF ABI!StopBegins
    <3>. QED
      BY <3>1, <3>3 DEF WindowsQuiet, ABIStep, ABI!Next
  <2>2. CASE ~session.running
    <3>1. /\ stage = "done" /\ UNCHANGED <<stage, session, reader>>
          /\ last' = W!Result("stop", "ok")
      BY <1>6, <2>2 DEF W!Stop, W!IsOpen, W!Returns
    <3>2. State = "open" /\ State' = "open" /\ Read' = Read
      BY <2>2, <3>1 DEF WindowsView, WindowsQuiet
    <3>3. ABI!Stops
      BY <3>1, <3>2 DEF ABI!Stops, ABI!Idle, ABI!Returns, ABI!Result, W!Result
    <3>. QED
      BY <3>1, <3>3 DEF WindowsQuiet, ABIStep, ABI!Next
  <2>. QED
    BY <2>1, <2>2
<1>7. CASE W!StopEnds
  <2>1. /\ stage = "joining" /\ stage' = "done" /\ reader' = reader /\ SameFlags
        /\ last' = W!Result("stop", "ok")
    BY <1>7 DEF W!StopEnds, W!Returns, SameFlags
  <2>2. State = "stopping" /\ State' = "open" /\ Read' = Read
    BY <2>1 DEF WindowsView, WindowsQuiet, SameFlags
  <2>3. ABI!Stops
    BY <2>1, <2>2 DEF SameFlags, ABI!Stops, ABI!Idle, ABI!Returns, ABI!Result, W!Result
  <2>. QED
    BY <2>1, <2>3 DEF WindowsQuiet, ABIStep, ABI!Next
<1>8. CASE W!Close
  <2>1. /\ stage = "done" /\ stage' = "none" /\ reader' = reader /\ reader.pc = "out"
        /\ last' = W!Result("close", "ok")
        /\ session'.running = FALSE /\ session'.mic = FALSE /\ session'.output = FALSE
    BY <1>8 DEF W!Close, W!Returns, W!IsOpen, W!Closed
  <2>2. State \in {"open", "running"} /\ State' = "none" /\ Read = "out" /\ Read' = Read
    BY <2>1 DEF WindowsView
  <2>3. ABI!Closes
    BY <2>1, <2>2 DEF ABI!Closes, ABI!Idle, ABI!Returns, ABI!Result, W!Result
  <2>. QED
    BY <2>1, <2>3 DEF ABIStep, ABI!Next, WindowsQuiet
<1>. QED
  BY <1>1, <1>2, <1>3, <1>4, <1>5, <1>6, <1>7, <1>8

LEMMA WindowsMuteKeeps ==
  ASSUME WindowsView, WindowsView', WindowsQuiet, HasSession,
         NEW side \in {"mic", "output"}, NEW muted \in Mutes, W!SetMuted(side, muted)
  PROVE  WindowsQuiet' /\ ABIStep
<1>1. /\ stage = "done" /\ stage' = stage /\ reader' = reader
      /\ session' = [session EXCEPT ![side] = muted]
      /\ last' = W!Result(W!SetCall[side], IF muted THEN "on" ELSE "off")
  BY DEF W!SetMuted, W!Returns, W!IsOpen, W!Set
<1>2. session'.running = session.running
  BY <1>1 DEF HasSession
<1>3. State \in {"open", "running"} /\ State' = State /\ Read' = Read
  BY <1>1, <1>2 DEF WindowsView, WindowsQuiet
<1>4. last' = Result(SetCall[side], IF muted THEN "on" ELSE "off")
  BY <1>1 DEF W!Result, W!SetCall, Result, SetCall
<1>. QED
  BY <1>1, <1>3, <1>4, MuteKeeps, BoundsAssumption DEF WindowsQuiet

LEMMA WindowsOthersKeep ==
  ASSUME WindowsView, WindowsView', WindowsQuiet, HasSession,
         \/ W!RenderThread \/ W!DeviceHears \/ \E c \in W!Clients : W!EngineSignals(c)
         \/ W!EndpointsChange \/ W!OnDeviceStateChanged \/ W!GetRoutes \/ W!PollEvent
  PROVE  WindowsQuiet' /\ ABIStep
<1>. USE DEF HasSession, SameFlags
<1>1. UNCHANGED <<stage, reader, last>>
  BY DEF W!RenderThread, W!RenderLooks, W!RenderWakes, W!RenderFills, W!RenderReleases,
         W!DeviceHears, W!EngineSignals, W!EndpointsChange, W!OnDeviceStateChanged,
         W!GetRoutes, W!PollEvent
<1>2. SameFlags
  <2>1. CASE W!RenderLooks \/ W!RenderWakes \/ W!RenderReleases \/ W!DeviceHears
             \/ W!EndpointsChange \/ \E c \in W!Clients : W!EngineSignals(c)
    BY <2>1 DEF W!RenderLooks, W!RenderWakes, W!RenderReleases, W!DeviceHears,
                W!EndpointsChange, W!EngineSignals
  <2>2. CASE W!RenderFills
    BY <2>2 DEF W!RenderFills
  <2>3. CASE W!OnDeviceStateChanged \/ W!GetRoutes
    BY <2>3, RecomputedKeepsFlags DEF W!OnDeviceStateChanged, W!GetRoutes
  <2>4. CASE W!PollEvent
    BY <2>4 DEF W!PollEvent, W!Set
  <2>. QED
    BY <2>1, <2>2, <2>3, <2>4 DEF W!RenderThread
<1>. QED
  BY <1>1, <1>2, WindowsUnnoticed

LEMMA WindowsReadKeeps ==
  ASSUME WindowsView, WindowsView', WindowsQuiet, HasSession, "pc" \in DOMAIN reader,
         W!ReadBegins \/ W!CaptureRead
  PROVE  WindowsQuiet' /\ ABIStep
<1>. USE DEF HasSession, SameFlags
<1>1. CASE W!ReadBegins
  <2>1. /\ stage = "done" /\ UNCHANGED <<stage, session, last>>
        /\ reader.pc = "out" /\ reader'.pc = "looking"
    BY <1>1 DEF W!ReadBegins, W!NoRead, W!IsOpen
  <2>2. State \in {"open", "running"} /\ State' = State /\ Read = "out" /\ Read' = "in"
    BY <2>1 DEF WindowsView
  <2>3. ABI!ReadBegins
    BY <2>1, <2>2 DEF ABI!ReadBegins, ABI!Idle
  <2>. QED
    BY <2>1, <2>3 DEF ABIStep, ABI!Next, WindowsQuiet
<1>2. CASE W!ReadLooks
  <2>1. /\ UNCHANGED <<stage, last>> /\ session.running
        /\ reader.pc = "looking" /\ reader'.pc \in {"waiting", "took"}
    BY <1>2 DEF W!ReadLooks
  <2>2. SameFlags
    BY <1>2 DEF W!ReadLooks, W!Set
  <2>3. State \in {"starting", "running"} /\ State' = State /\ Read = "in" /\ Read' = "seen"
    BY <2>1, <2>2 DEF WindowsView, WindowsQuiet
  <2>4. ABI!ReadTurns
    BY <2>1, <2>2, <2>3 DEF ABI!ReadTurns, ABI!Running
  <2>. QED
    BY <2>1, <2>2, <2>4 DEF ABIStep, ABI!Next, WindowsQuiet
<1>3. CASE W!ReadDrains
  <2>1. /\ UNCHANGED <<stage, last>> /\ reader.pc = "waiting" /\ reader'.pc = "looking"
    BY <1>3 DEF W!ReadDrains
  <2>2. SameFlags
    <3>1. PICK accum, overruns :
            session' = [session EXCEPT !.accum = accum, !.overruns = overruns]
      BY <1>3 DEF W!ReadDrains
    <3>. QED
      BY <3>1
  <2>3. State' = State /\ Read = "seen" /\ Read' = "in"
    BY <2>1, <2>2 DEF WindowsView
  <2>4. ABI!ReadTurns
    BY <2>1, <2>2, <2>3 DEF ABI!ReadTurns
  <2>. QED
    BY <2>1, <2>2, <2>4 DEF ABIStep, ABI!Next, WindowsQuiet
<1>4. CASE W!ReadReturns
  <2>1. UNCHANGED <<stage, session>> /\ reader'.pc = "out"
    BY <1>4 DEF W!ReadReturns, W!NoRead
  <2>2. \/ reader.pc = "took" /\ last' = W!Result("capture_read", "frame")
        \/ reader.pc = "waiting" /\ last' = W!Result("capture_read", "timeout")
        \/ /\ reader.pc = "looking" /\ ~session.running
           /\ last' = W!Result("capture_read", "closed")
    BY <1>4 DEF W!ReadReturns, W!Returns
  <2>3. State' = State /\ Read' = "out"
    BY <2>1 DEF WindowsView
  <2>4. /\ reader.pc \in {"took", "waiting"} => Read = "seen"
        /\ reader.pc = "looking" => Read = "in"
        /\ ~session.running => State \notin {"starting", "running"}
    BY DEF WindowsView, WindowsQuiet
  <2>5. ABI!ReadReturns
    BY <2>1, <2>2, <2>3, <2>4
    DEF ABI!ReadReturns, ABI!Running, ABI!Returns, ABI!Result, W!Result
  <2>. QED
    BY <2>1, <2>5 DEF ABIStep, ABI!Next, WindowsQuiet
<1>. QED
  BY <1>1, <1>2, <1>3, <1>4 DEF W!CaptureRead

LEMMA WindowsWriteKeeps ==
  ASSUME WindowsView, WindowsView', WindowsQuiet, HasSession, W!PlaybackWrite
  PROVE  WindowsQuiet' /\ ABIStep
<1>1. UNCHANGED <<stage, reader>> /\ stage \in {"done", "joining"}
  BY DEF W!PlaybackWrite, W!IsOpen
<1>2. \/ /\ ~session.running /\ session' = session
         /\ last' = Result("playback_write", "not_started")
      \/ /\ session.running /\ session' = session
         /\ last' = Result("playback_write", "frame_size")
      \/ /\ session.running /\ last' = Result("playback_write", "ok")
         /\ \E ring, overruns : session' =
              [session EXCEPT !.ring = ring, !.overruns = overruns]
  <2>1. CASE ~session.running
    BY <2>1 DEF W!PlaybackWrite, W!Returns, W!Result, Result
  <2>2. CASE session.running
    <3>. DEFINE over == Len(session.ring) + FrameUnits - W!RingUnits
                kept == IF over > 0 THEN W!Behind(over, session.ring) ELSE session.ring
                ring == kept \o W!Heard(FrameUnits, "speech", session.runs)
    <3>1. \/ last' = Result("playback_write", "frame_size") /\ session' = session
          \/ /\ last' = Result("playback_write", "ok")
             /\ session' = [session EXCEPT !.ring = ring,
                              !.overruns = IF over > 0 THEN W!CountUp(@) ELSE @]
      BY <2>2 DEF W!PlaybackWrite, W!Returns, W!Result, Result
    <3>. HIDE DEF over, ring
    <3>. QED
      BY <2>2, <3>1
  <2>. QED
    BY <2>1, <2>2
<1>3. SameFlags
  BY <1>2 DEF HasSession, SameFlags
<1>4. /\ State # "none"
      /\ State \in {"starting", "running"} <=> session.running
  BY <1>1 DEF WindowsView, WindowsQuiet
<1>5. State' = State /\ Read' = Read
  BY <1>1, <1>3 DEF WindowsView, WindowsQuiet, SameFlags
<1>6. ABIStep
  BY <1>2, <1>3, <1>4, <1>5, WriteKeeps DEF SameFlags
<1>. QED
  BY <1>1, <1>3, <1>6 DEF WindowsQuiet, SameFlags

LEMMA WindowsSetRouteKeeps ==
  ASSUME WindowsView, WindowsView', WindowsQuiet, HasSession, W!SetRoute
  PROVE  WindowsQuiet' /\ ABIStep
<1>1. /\ stage \notin {"none", "notify", "thread", "joining"}
      /\ stage' \notin {"none", "notify", "thread", "joining"}
      /\ reader' = reader /\ SameFlags
      /\ \/ last' = last
         \/ \E code \in {"ok", "refused"} : last' = Result("set_route", code)
  <2>. USE DEF HasSession, SameFlags, W!SetRouteEnds, W!IsOpen
  <2>1. \A code : W!SetRouteEnds(code) =>
          \E answer \in {"ok", "refused"} : last' = Result("set_route", answer)
    BY DEF W!Returns, W!Result, Result
  <2>2. CASE \E route \in Routes \cup {UnknownRoute} : W!SetRouteAnswers(route)
    BY <2>1, <2>2 DEF W!SetRouteAnswers
  <2>3. CASE \E route \in Routes \cup {UnknownRoute} : W!SetRouteGoesOn(route)
    BY <2>3 DEF W!SetRouteGoesOn
  <2>4. CASE W!SetRouteMakes
    BY <2>1, <2>4 DEF W!SetRouteMakes
  <2>5. CASE W!SetRouteStarts
    BY <2>1, <2>5 DEF W!SetRouteStarts
  <2>6. CASE W!SetRouteSwaps
    BY <2>6 DEF W!SetRouteSwaps
  <2>7. CASE W!SetRouteDropsOld
    BY <2>1, <2>7 DEF W!SetRouteDropsOld
  <2>8. \/ \E route \in Routes \cup {UnknownRoute} : W!SetRouteAnswers(route)
        \/ \E route \in Routes \cup {UnknownRoute} : W!SetRouteGoesOn(route)
        \/ W!SetRouteSteps
    BY DEF W!SetRoute, W!UnknownRoute, UnknownRoute
  <2>. QED
    BY <2>2, <2>3, <2>4, <2>5, <2>6, <2>7, <2>8 DEF W!SetRouteSteps
<1>2. CASE last' = last
  BY <1>1, <1>2, WindowsUnnoticed
<1>3. CASE \E code \in {"ok", "refused"} : last' = Result("set_route", code)
  <2>1. State \in {"open", "running"} /\ State' = State /\ Read' = Read
    BY <1>1 DEF WindowsView, WindowsQuiet, SameFlags
  <2>2. ABIStep
    BY <1>1, <1>3, <2>1, RouteKeeps DEF SameFlags
  <2>. QED
    BY <1>1, <2>2 DEF WindowsQuiet
<1>. QED
  BY <1>1, <1>2, <1>3

LEMMA WindowsStepKeeps ==
  ASSUME backend = "windows", backend' = "windows", WindowsFits, WindowsQuiet,
         "pc" \in DOMAIN reader, WindowsStep
  PROVE  WindowsQuiet' /\ ABIStep
<1>1. WindowsView /\ WindowsView'
  BY WindowsViewIs
<1>2. HasSession /\ session.running \in BOOLEAN
  BY DEF WindowsFits, SessionFits
<1>3. CASE W!Lifecycle
  BY <1>1, <1>2, <1>3, WindowsCallsKeep, WindowsOthersKeep DEF W!Lifecycle
<1>4. CASE W!CaptureSide \/ W!CaptureRead
  BY <1>1, <1>2, <1>4, WindowsOthersKeep, WindowsReadKeeps, WindowsMuteKeeps DEF W!CaptureSide
<1>5. CASE W!PlaybackSide
  BY <1>1, <1>2, <1>5, WindowsOthersKeep, WindowsWriteKeeps, WindowsMuteKeeps
  DEF W!PlaybackSide
<1>6. CASE W!RouteSide
  BY <1>1, <1>2, <1>6, WindowsOthersKeep, WindowsSetRouteKeeps DEF W!RouteSide
<1>. QED
  BY <1>3, <1>4, <1>5, <1>6 DEF WindowsStep

-----------------------------------------------------------------------------
(* Apple's unit *)

AppleView ==
    /\ stage = "done" => State = IF session.running THEN "running" ELSE "open"
    /\ stage \in {"starting", "stopping"} => State = stage
    /\ stage = "closing" => State = "open"
    /\ stage \notin {"done", "starting", "stopping", "closing"} => State = "none"
    /\ reader.pc = "out" => Read = "out"
    /\ reader.pc = "waiting" => Read = "in"
    /\ reader.pc = "took" => Read = "seen"

LEMMA AppleViewIs ==
  ASSUME backend = "apple", backend' = "apple" PROVE AppleView /\ AppleView'
<1>1. State = A!State /\ Read = A!Read
  BY DEF State, Read
<1>2. State' = A!State' /\ Read' = A!Read'
  BY DEF State, Read
<1>. QED
  BY <1>1, <1>2 DEF AppleView, A!State, A!Read

(* Before open has ended and once close frees, a session is as it was made;
   the unit's calls stand at the ends of a run. *)
AppleQuiet ==
    /\ reader.pc \in {"out", "waiting", "took"}
    /\ stage \notin {"done", "starting", "stopping", "closing"} =>
         session.running = FALSE /\ session.mic = FALSE /\ session.output = FALSE
    /\ stage = "starting" => session.running = TRUE
    /\ stage \in {"stopping", "closing"} => session.running = FALSE
    /\ stage = "closing" => reader.pc = "out"

LEMMA AppleUnnoticed ==
  ASSUME AppleView, AppleView', AppleQuiet, SameFlags, reader'.pc = reader.pc, last' = last,
         \/ stage' = stage
         \/ /\ stage \notin {"done", "starting", "stopping", "closing"}
            /\ stage' \notin {"done", "starting", "stopping", "closing"}
  PROVE  AppleQuiet' /\ ABIStep
<1>1. State' = State
  <2>1. CASE stage' = stage
    BY <2>1 DEF AppleView, SameFlags
  <2>2. CASE stage' # stage
    BY <2>2 DEF AppleView
  <2>. QED
    BY <2>1, <2>2
<1>2. Read' = Read
  BY DEF AppleView, AppleQuiet
<1>. QED
  BY <1>1, <1>2 DEF ABIStep, ABI!abiVars, SameFlags, AppleQuiet

LEMMA AppleOpenKeeps ==
  ASSUME AppleView, AppleView', AppleQuiet, HasSession,
         A!OpenRefused \/ A!OpenListens \/ A!OpenHasPlatform \/ A!OpenMakesUnit
  PROVE  AppleQuiet' /\ ABIStep
<1>. USE DEF HasSession, SameFlags
<1>1. CASE A!OpenRefused
  <2>1. /\ UNCHANGED <<stage, session, reader>> /\ last' = A!Result("open", "refused")
    BY <1>1 DEF A!OpenRefused, A!Returns
  <2>2. State' = State /\ Read' = Read
    BY <2>1 DEF AppleView, AppleQuiet
  <2>3. ABI!OpenRefused
    BY <2>1, <2>2 DEF ABI!OpenRefused, ABI!Returns, ABI!OnlyAnswers, ABI!Result, A!Result
  <2>. QED
    BY <2>1, <2>3 DEF ABIStep, ABI!Next, AppleQuiet
<1>2. CASE A!OpenListens \/ A!OpenHasPlatform
  <2>1. /\ stage \in {"none", "listening"} /\ stage' \in {"listening", "unit"}
        /\ UNCHANGED <<reader, last>> /\ SameFlags
    BY <1>2 DEF A!OpenListens, A!OpenHasPlatform, A!Set
  <2>. QED
    BY <2>1, AppleUnnoticed
<1>3. CASE A!OpenMakesUnit /\ stage' = "failing"
  <2>1. stage = "unit" /\ UNCHANGED <<session, reader, last>>
    BY <1>3 DEF A!OpenMakesUnit
  <2>. QED
    BY <1>3, <2>1, AppleUnnoticed
<1>4. CASE A!OpenMakesUnit /\ stage' # "failing"
  <2>1. /\ stage = "unit" /\ stage' = "done" /\ UNCHANGED <<session, reader>>
        /\ last' = A!Result("open", "ok")
    BY <1>4 DEF A!OpenMakesUnit, A!Returns
  <2>2. State = "none" /\ State' = "open" /\ Read' = Read
    BY <2>1 DEF AppleView, AppleQuiet
  <2>3. ABI!Opens
    BY <2>1, <2>2 DEF ABI!Opens, ABI!Returns, ABI!Result, A!Result
  <2>. QED
    BY <2>1, <2>3 DEF AppleQuiet, ABIStep, ABI!Next
<1>. QED
  BY <1>1, <1>2, <1>3, <1>4

LEMMA AppleStartKeeps ==
  ASSUME AppleView, AppleView', AppleQuiet, HasSession, session.running \in BOOLEAN,
         A!Start \/ A!StartsUnit \/ A!Stop \/ A!StopsUnit
  PROVE  AppleQuiet' /\ ABIStep
<1>. USE DEF HasSession, A!IsOpen, A!Returns, A!Set
<1>1. CASE A!Start /\ session.running
  <2>1. /\ UNCHANGED <<stage, session, reader>> /\ stage = "done"
        /\ last' = A!Result("start", "already_started")
    BY <1>1 DEF A!Start
  <2>2. State = "running" /\ State' = State /\ Read' = Read
    BY <1>1, <2>1 DEF AppleView, AppleQuiet
  <2>3. ABI!StartRefused
    BY <2>1, <2>2 DEF ABI!StartRefused, ABI!Returns, ABI!Result, A!Result
  <2>. QED
    BY <2>1, <2>3 DEF ABIStep, ABI!Next, AppleQuiet
<1>2. CASE A!Start /\ ~session.running
  <2>1. /\ stage = "done" /\ stage' = "starting" /\ UNCHANGED <<reader, last>>
        /\ session'.running = TRUE
        /\ session'.mic = session.mic /\ session'.output = session.output
    BY <1>2 DEF A!Start
  <2>2. State = "open" /\ State' = "starting" /\ Read' = Read
    BY <1>2, <2>1 DEF AppleView, AppleQuiet
  <2>3. ABI!StartBegins
    BY <2>1, <2>2 DEF ABI!StartBegins
  <2>. QED
    BY <2>1, <2>3 DEF ABIStep, ABI!Next, AppleQuiet
<1>3. CASE A!StartsUnit
  <2>1. /\ stage = "starting" /\ stage' = "done" /\ reader' = reader
        /\ session'.mic = session.mic /\ session'.output = session.output
    BY <1>3 DEF A!StartsUnit
  <2>2. \/ session'.running = session.running /\ last' = A!Result("start", "ok")
        \/ session'.running = FALSE /\ last' = A!Result("start", "backend")
    BY <1>3 DEF A!StartsUnit
  <2>3. /\ State = "starting" /\ Read' = Read /\ session.running = TRUE
        /\ State' = IF session'.running THEN "running" ELSE "open"
    BY <2>1 DEF AppleView, AppleQuiet
  <2>4. ABI!Starts \/ ABI!StartRefused
    BY <2>1, <2>2, <2>3
    DEF ABI!Starts, ABI!StartRefused, ABI!Returns, ABI!Result, A!Result
  <2>. QED
    BY <2>1, <2>4 DEF ABIStep, ABI!Next, AppleQuiet
<1>4. CASE A!Stop
  <2>1. /\ stage = "done" /\ reader' = reader /\ session'.running = FALSE
        /\ session'.mic = session.mic /\ session'.output = session.output
    BY <1>4 DEF A!Stop
  <2>2. \/ session.running /\ stage' = "stopping" /\ last' = last
        \/ ~session.running /\ stage' = "done" /\ last' = A!Result("stop", "ok")
    BY <1>4 DEF A!Stop
  <2>3. /\ State = IF session.running THEN "running" ELSE "open"
        /\ State' = IF session.running THEN "stopping" ELSE "open"
        /\ Read' = Read
    BY <2>1, <2>2 DEF AppleView, AppleQuiet
  <2>4. ABI!StopBegins \/ ABI!Stops
    BY <2>1, <2>2, <2>3
    DEF ABI!StopBegins, ABI!Stops, ABI!Idle, ABI!Returns, ABI!Result, A!Result
  <2>. QED
    BY <2>1, <2>2, <2>4 DEF ABIStep, ABI!Next, AppleQuiet
<1>5. CASE A!StopsUnit
  <2>1. /\ stage = "stopping" /\ stage' = "done" /\ UNCHANGED <<session, reader>>
        /\ last' = A!Result("stop", "ok")
    BY <1>5 DEF A!StopsUnit
  <2>2. State = "stopping" /\ State' = "open" /\ Read' = Read
    BY <2>1 DEF AppleView, AppleQuiet
  <2>3. ABI!Stops
    BY <2>1, <2>2 DEF ABI!Stops, ABI!Idle, ABI!Returns, ABI!Result, A!Result
  <2>. QED
    BY <2>1, <2>3 DEF ABIStep, ABI!Next, AppleQuiet
<1>. QED
  BY <1>1, <1>2, <1>3, <1>4, <1>5

LEMMA AppleCloseKeeps ==
  ASSUME AppleView, AppleView', AppleQuiet, A!CloseUnlistens \/ A!CloseFrees
  PROVE  AppleQuiet' /\ ABIStep
<1>1. CASE A!CloseUnlistens
  <2>1. UNCHANGED <<session, reader, last>>
    BY <1>1 DEF A!CloseUnlistens
  <2>2. \/ /\ stage = "done" /\ stage' = "closing"
           /\ ~session.running /\ reader.pc = "out"
        \/ stage = "failing" /\ stage' = "freeing"
    BY <1>1 DEF A!CloseUnlistens, A!IsOpen
  <2>3. State' = State /\ Read' = Read
    BY <2>1, <2>2 DEF AppleView, AppleQuiet
  <2>4. UNCHANGED ABI!abiVars
    BY <2>1, <2>3 DEF ABI!abiVars
  <2>5. AppleQuiet'
    <3>1. CASE stage = "failing"
      BY <2>1, <2>2, <3>1 DEF AppleQuiet
    <3>2. CASE stage = "done"
      BY <2>1, <2>2, <3>2 DEF AppleQuiet
    <3>. QED
      BY <2>2, <3>1, <3>2
  <2>. QED
    BY <2>4, <2>5 DEF ABIStep
<1>2. CASE A!CloseFrees
  <2>1. /\ stage' = "none" /\ reader' = reader
        /\ session'.running = FALSE /\ session'.mic = FALSE /\ session'.output = FALSE
    BY <1>2 DEF A!CloseFrees, A!Closed
  <2>2. \/ stage = "closing" /\ last' = A!Result("close", "ok")
        \/ stage = "freeing" /\ last' = A!Result("open", "refused")
    BY <1>2 DEF A!CloseFrees, A!Returns
  <2>3. CASE stage = "closing"
    <3>1. State = "open" /\ State' = "none" /\ Read = "out" /\ Read' = Read
      BY <2>1, <2>3 DEF AppleView, AppleQuiet
    <3>2. ABI!Closes
      BY <2>1, <2>2, <2>3, <3>1 DEF ABI!Closes, ABI!Idle, ABI!Returns, ABI!Result, A!Result
    <3>. QED
      BY <2>1, <3>2 DEF ABIStep, ABI!Next, AppleQuiet
  <2>4. CASE stage = "freeing"
    <3>1. State' = State /\ Read' = Read
      BY <2>1, <2>4 DEF AppleView, AppleQuiet
    <3>2. session'.mic = session.mic /\ session'.output = session.output
      BY <2>1, <2>4 DEF AppleQuiet
    <3>3. ABI!OpenRefused
      BY <2>1, <2>2, <2>4, <3>1, <3>2
      DEF ABI!OpenRefused, ABI!OnlyAnswers, ABI!Returns, ABI!Result, A!Result
    <3>. QED
      BY <2>1, <3>3 DEF ABIStep, ABI!Next, AppleQuiet
  <2>. QED
    BY <2>2, <2>3, <2>4
<1>. QED
  BY <1>1, <1>2

LEMMA AppleOthersKeep ==
  ASSUME AppleView, AppleView', AppleQuiet, HasSession,
         \/ A!InputCallback \/ A!RenderCallback
         \/ A!DevicesChange \/ A!ListenerIsCalled \/ A!Listener \/ A!PollEvent
  PROVE  AppleQuiet' /\ ABIStep
<1>. USE DEF HasSession, SameFlags, A!Set
<1>1. UNCHANGED <<stage, reader, last>>
  BY DEF A!InputCallback, A!RenderCallback, A!DevicesChange, A!ListenerIsCalled, A!Listener,
         A!ListenerLooks, A!ListenerReads, A!ListenerPushes, A!PollEvent
<1>2. SameFlags
  <2>1. CASE A!InputCallback
    BY <2>1 DEF A!InputCallback
  <2>2. CASE A!RenderCallback
    BY <2>2 DEF A!RenderCallback
  <2>3. CASE A!DevicesChange \/ A!ListenerIsCalled \/ A!ListenerLooks \/ A!ListenerReads
    BY <2>3 DEF A!DevicesChange, A!ListenerIsCalled, A!ListenerLooks, A!ListenerReads
  <2>4. CASE A!ListenerPushes \/ A!PollEvent
    BY <2>4 DEF A!ListenerPushes, A!PollEvent
  <2>. QED
    BY <2>1, <2>2, <2>3, <2>4 DEF A!Listener
<1>. QED
  BY <1>1, <1>2, AppleUnnoticed

LEMMA AppleMuteKeeps ==
  ASSUME AppleView, AppleView', AppleQuiet, HasSession,
         NEW side \in {"mic", "output"}, NEW muted \in Mutes, A!SetMuted(side, muted)
  PROVE  AppleQuiet' /\ ABIStep
<1>1. /\ stage = "done" /\ stage' = stage /\ reader' = reader
      /\ session' = [session EXCEPT ![side] = muted]
      /\ last' = A!Result(A!SetCall[side], IF muted THEN "on" ELSE "off")
  BY DEF A!SetMuted, A!Returns, A!IsOpen, A!Set
<1>2. session'.running = session.running
  BY <1>1 DEF HasSession
<1>3. State \in {"open", "running"} /\ State' = State /\ Read' = Read
  BY <1>1, <1>2 DEF AppleView, AppleQuiet
<1>4. last' = Result(SetCall[side], IF muted THEN "on" ELSE "off")
  BY <1>1 DEF A!Result, A!SetCall, Result, SetCall
<1>. QED
  BY <1>1, <1>3, <1>4, MuteKeeps, BoundsAssumption DEF AppleQuiet

LEMMA AppleReadKeeps ==
  ASSUME AppleView, AppleView', AppleQuiet, HasSession, A!ReadBegins \/ A!CaptureRead
  PROVE  AppleQuiet' /\ ABIStep
<1>. USE DEF HasSession, SameFlags
<1>1. CASE A!ReadBegins
  <2>1. /\ stage = "done" /\ UNCHANGED <<stage, session, last>>
        /\ reader.pc = "out" /\ reader'.pc = "waiting"
    BY <1>1 DEF A!ReadBegins, A!NoRead, A!IsOpen
  <2>2. State \in {"open", "running"} /\ State' = State /\ Read = "out" /\ Read' = "in"
    BY <2>1 DEF AppleView
  <2>3. ABI!ReadBegins
    BY <2>1, <2>2 DEF ABI!ReadBegins, ABI!Idle
  <2>. QED
    BY <2>1, <2>3 DEF ABIStep, ABI!Next, AppleQuiet
<1>2. CASE A!ReadPops
  <2>1. /\ UNCHANGED <<stage, last>> /\ SameFlags /\ session.running
        /\ reader.pc = "waiting" /\ reader'.pc = "took"
    BY <1>2 DEF A!ReadPops, A!Set
  <2>2. stage \in {"done", "starting"}
    BY <2>1 DEF AppleQuiet
  <2>3. State \in {"starting", "running"} /\ State' = State /\ Read = "in" /\ Read' = "seen"
    BY <2>1, <2>2 DEF AppleView
  <2>4. ABI!ReadTurns
    BY <2>1, <2>3 DEF ABI!ReadTurns, ABI!Running
  <2>. QED
    BY <2>1, <2>2, <2>4 DEF ABIStep, ABI!Next, AppleQuiet
<1>3. CASE A!ReadReturns
  <2>1. UNCHANGED <<stage, session>> /\ reader'.pc = "out"
    BY <1>3 DEF A!ReadReturns, A!NoRead
  <2>2. \/ reader.pc = "took" /\ last' = A!Result("capture_read", "frame")
        \/ /\ reader.pc = "waiting" /\ ~session.running
           /\ last' = A!Result("capture_read", "closed")
        \/ /\ reader.pc = "waiting" /\ session.running
           /\ last' = A!Result("capture_read", "timeout")
    BY <1>3 DEF A!ReadReturns, A!Returns
  <2>3. State' = State /\ Read' = "out"
    BY <2>1 DEF AppleView, AppleQuiet
  <2>4. /\ reader.pc = "took" => Read = "seen"
        /\ reader.pc = "waiting" => Read = "in"
        /\ session.running => State \in {"starting", "running"}
        /\ ~session.running => State \notin {"starting", "running"}
    BY DEF AppleView, AppleQuiet
  <2>5. ABI!ReadReturns
    BY <2>1, <2>2, <2>3, <2>4
    DEF ABI!ReadReturns, ABI!Running, ABI!Returns, ABI!Result, A!Result
  <2>. QED
    BY <2>1, <2>5 DEF ABIStep, ABI!Next, AppleQuiet
<1>. QED
  BY <1>1, <1>2, <1>3 DEF A!CaptureRead

LEMMA AppleWriteKeeps ==
  ASSUME AppleView, AppleView', AppleQuiet, HasSession, A!PlaybackWrite
  PROVE  AppleQuiet' /\ ABIStep
<1>1. UNCHANGED <<stage, reader>> /\ stage \in {"done", "starting", "stopping"}
  BY DEF A!PlaybackWrite
<1>2. \/ /\ ~session.running /\ session' = session
         /\ last' = Result("playback_write", "not_started")
      \/ /\ session.running /\ session' = session
         /\ last' = Result("playback_write", "frame_size")
      \/ /\ session.running /\ last' = Result("playback_write", "ok")
         /\ \E pb, overruns : session' = [session EXCEPT !.pb = pb, !.overruns = overruns]
  <2>1. CASE ~session.running
    BY <2>1 DEF A!PlaybackWrite, A!Returns, A!Result, Result
  <2>2. CASE session.running
    <3>. DEFINE pb == A!Pushed(session.pb, A!Heard(FrameUnits, "speech", session.runs),
                               A!PlaybackUnits)
                full == A!Drops(session.pb, FrameUnits, A!PlaybackUnits)
    <3>1. \/ last' = Result("playback_write", "frame_size") /\ session' = session
          \/ /\ last' = Result("playback_write", "ok")
             /\ session' = [session EXCEPT !.pb = pb,
                              !.overruns = IF full THEN A!CountUp(@) ELSE @]
      BY <2>2 DEF A!PlaybackWrite, A!Returns, A!Result, Result
    <3>. HIDE DEF pb, full
    <3>. QED
      BY <2>2, <3>1
  <2>. QED
    BY <2>1, <2>2
<1>3. SameFlags
  BY <1>2 DEF HasSession, SameFlags
<1>4. /\ State # "none"
      /\ State \in {"starting", "running"} <=> session.running
  BY <1>1 DEF AppleView, AppleQuiet
<1>5. State' = State /\ Read' = Read
  BY <1>1, <1>3 DEF AppleView, AppleQuiet, SameFlags
<1>6. ABIStep
  BY <1>2, <1>3, <1>4, <1>5, WriteKeeps DEF SameFlags
<1>. QED
  BY <1>1, <1>3, <1>6 DEF AppleQuiet, SameFlags

LEMMA AppleSetRouteKeeps ==
  ASSUME AppleView, AppleView', AppleQuiet, NEW route, A!SetRoute(route)
  PROVE  AppleQuiet' /\ ABIStep
<1>1. /\ stage = "done" /\ UNCHANGED <<stage, session, reader>>
      /\ \E code \in {"ok", "refused"} : last' = Result("set_route", code)
  BY DEF A!SetRoute, A!Returns, A!IsOpen, A!Result, Result
<1>2. State \in {"open", "running"} /\ State' = State /\ Read' = Read
  BY <1>1 DEF AppleView, AppleQuiet
<1>. QED
  BY <1>1, <1>2, RouteKeeps DEF AppleQuiet

LEMMA AppleStepKeeps ==
  ASSUME backend = "apple", backend' = "apple", AppleFits, AppleQuiet, AppleStep
  PROVE  AppleQuiet' /\ ABIStep
<1>1. AppleView /\ AppleView'
  BY AppleViewIs
<1>2. HasSession /\ session.running \in BOOLEAN
  BY DEF AppleFits, SessionFits
<1>3. CASE A!Lifecycle
  BY <1>1, <1>2, <1>3, AppleOpenKeeps, AppleStartKeeps, AppleCloseKeeps DEF A!Lifecycle
<1>4. CASE A!CaptureSide \/ A!CaptureRead
  BY <1>1, <1>2, <1>4, AppleOthersKeep, AppleReadKeeps, AppleMuteKeeps DEF A!CaptureSide
<1>5. CASE A!PlaybackSide
  BY <1>1, <1>2, <1>5, AppleOthersKeep, AppleWriteKeeps, AppleMuteKeeps DEF A!PlaybackSide
<1>6. CASE A!RouteSide
  BY <1>1, <1>2, <1>6, AppleOthersKeep, AppleSetRouteKeeps DEF A!RouteSide
<1>. QED
  BY <1>3, <1>4, <1>5, <1>6 DEF AppleStep

-----------------------------------------------------------------------------
(* The mock *)

MockView ==
    /\ stage # "done" => State = "none"
    /\ stage = "done" => State = IF session.running THEN "running" ELSE "open"
    /\ reader.pc = "out" => Read = "out"
    /\ reader.pc = "waiting" => Read = "in"
    /\ reader.pc \in {"took", "timing"} => Read = "seen"

LEMMA MockViewIs ==
  ASSUME backend = "mock", backend' = "mock" PROVE MockView /\ MockView'
<1>1. State = M!State /\ Read = M!Read
  BY DEF State, Read
<1>2. State' = M!State' /\ Read' = M!Read'
  BY DEF State, Read
<1>. QED
  BY <1>1, <1>2 DEF MockView, M!State, M!Read, M!IsOpen

MockQuiet ==
    /\ reader.pc \in {"out", "waiting", "took", "timing"}
    /\ stage # "done" => session.running = FALSE

LEMMA MockUnnoticed ==
  ASSUME MockView, MockView', MockQuiet, SameFlags, reader'.pc = reader.pc, last' = last,
         stage' = stage
  PROVE  MockQuiet' /\ ABIStep
<1>1. State' = State /\ Read' = Read
  BY DEF MockView, MockQuiet, SameFlags
<1>. QED
  BY <1>1 DEF ABIStep, ABI!abiVars, SameFlags, MockQuiet

LEMMA MockCallsKeep ==
  ASSUME MockView, MockView', MockQuiet, HasSession, M!Lifecycle
  PROVE  MockQuiet' /\ ABIStep
<1>. USE DEF HasSession, M!IsOpen, M!Returns
<1>1. CASE M!OpenFails
  <2>1. UNCHANGED <<stage, session, reader>> /\ last' = M!Result("open", "refused")
    BY <1>1 DEF M!OpenFails
  <2>2. State' = State /\ Read' = Read
    BY <2>1 DEF MockView, MockQuiet
  <2>3. ABI!OpenRefused
    BY <2>1, <2>2 DEF ABI!OpenRefused, ABI!Returns, ABI!OnlyAnswers, ABI!Result, M!Result
  <2>. QED
    BY <2>1, <2>3 DEF ABIStep, ABI!Next, MockQuiet
<1>2. CASE \E mask, route : M!Open(mask, route)
  <2>1. /\ stage = "none" /\ stage' = "done" /\ reader' = reader
        /\ last' = M!Result("open", "ok")
        /\ session'.running = session.running
        /\ session'.mic = session.mic /\ session'.output = session.output
    BY <1>2 DEF M!Open
  <2>2. State = "none" /\ State' = "open" /\ Read' = Read
    BY <2>1 DEF MockView, MockQuiet
  <2>3. ABI!Opens
    BY <2>1, <2>2 DEF ABI!Opens, ABI!Returns, ABI!Result, M!Result
  <2>. QED
    BY <2>1, <2>3 DEF ABIStep, ABI!Next, MockQuiet
<1>3. CASE M!StartFails
  <2>1. /\ stage = "done" /\ UNCHANGED <<stage, session, reader>>
        /\ \/ last' = M!Result("start", "backend")
           \/ session.running /\ last' = M!Result("start", "already_started")
    BY <1>3 DEF M!StartFails
  <2>2. /\ State = IF session.running THEN "running" ELSE "open"
        /\ State' = State /\ Read' = Read
    BY <2>1 DEF MockView, MockQuiet
  <2>3. ABI!StartRefused
    BY <2>1, <2>2 DEF ABI!StartRefused, ABI!Idle, ABI!Returns, ABI!Result, M!Result
  <2>. QED
    BY <2>1, <2>3 DEF ABIStep, ABI!Next, MockQuiet
<1>4. CASE M!Start
  <2>1. /\ stage = "done" /\ stage' = stage /\ reader' = reader /\ ~session.running
        /\ last' = M!Result("start", "ok") /\ session'.running = TRUE
        /\ session'.mic = session.mic /\ session'.output = session.output
    BY <1>4 DEF M!Start
  <2>2. State = "open" /\ State' = "running" /\ Read' = Read
    BY <2>1 DEF MockView, MockQuiet
  <2>3. ABI!Starts
    BY <2>1, <2>2 DEF ABI!Starts, ABI!Returns, ABI!Result, M!Result
  <2>. QED
    BY <2>1, <2>3 DEF ABIStep, ABI!Next, MockQuiet
<1>5. CASE M!Stop
  <2>1. /\ stage = "done" /\ stage' = stage /\ reader' = reader
        /\ last' = M!Result("stop", "ok") /\ session'.running = FALSE
        /\ session'.mic = session.mic /\ session'.output = session.output
    BY <1>5 DEF M!Stop
  <2>2. State \in {"open", "running"} /\ State' = "open" /\ Read' = Read
    BY <2>1 DEF MockView, MockQuiet
  <2>3. ABI!Stops
    BY <2>1, <2>2 DEF ABI!Stops, ABI!Idle, ABI!Returns, ABI!Result, M!Result
  <2>. QED
    BY <2>1, <2>3 DEF ABIStep, ABI!Next, MockQuiet
<1>6. CASE M!Close
  <2>1. /\ stage = "done" /\ stage' = "none" /\ reader' = reader /\ reader.pc = "out"
        /\ last' = M!Result("close", "ok")
        /\ session'.running = FALSE /\ session'.mic = FALSE /\ session'.output = FALSE
    BY <1>6 DEF M!Close, M!Closed
  <2>2. State \in {"open", "running"} /\ State' = "none" /\ Read = "out" /\ Read' = Read
    BY <2>1 DEF MockView
  <2>3. ABI!Closes
    BY <2>1, <2>2 DEF ABI!Closes, ABI!Idle, ABI!Returns, ABI!Result, M!Result
  <2>. QED
    BY <2>1, <2>3 DEF ABIStep, ABI!Next, MockQuiet
<1>. QED
  BY <1>1, <1>2, <1>3, <1>4, <1>5, <1>6 DEF M!Lifecycle

LEMMA MockMuteKeeps ==
  ASSUME MockView, MockView', MockQuiet, MockFits,
         NEW side \in {"mic", "output"}, NEW muted \in Mutes, M!SetMuted(side, muted)
  PROVE  MockQuiet' /\ ABIStep
<1>1. /\ stage = "done" /\ stage' = stage /\ reader' = reader
      /\ last' = M!Result(M!SetCall[side], IF muted THEN "on" ELSE "off")
  BY DEF M!SetMuted, M!Returns, M!IsOpen
<1>2. last' = Result(SetCall[side], IF muted THEN "on" ELSE "off")
  BY <1>1 DEF M!Result, M!SetCall, Result, SetCall
<1>3. HasSession
  BY DEF MockFits, SessionFits
<1>4. CASE side = "mic" /\ session.running
  <2>1. PICK s \in M!Pumped : session' = [s EXCEPT !.mic = muted]
    BY <1>4 DEF M!SetMuted, M!GeneratesFirst, M!Pump
  <2>2. PICK k : PumpedTo(s, k)
    BY <1>4, PumpFits DEF MockFits
  <2>3. /\ {"running", "mic", "output"} \subseteq DOMAIN s
        /\ s.running = session.running /\ s.output = session.output
    BY <1>3, <2>2 DEF PumpedTo, HasSession
  <2>4. /\ session'.running = session.running /\ session'.mic = muted
        /\ session'.output = session.output
    BY <2>1, <2>3
  <2>5. State \in {"open", "running"} /\ State' = State /\ Read' = Read
    BY <1>1, <2>4 DEF MockView, MockQuiet
  <2>6. muted \in BOOLEAN /\ last' = Result("set_mic", IF muted THEN "on" ELSE "off")
    BY <1>2, <1>4, BoundsAssumption DEF SetCall
  <2>7. ABI!SetMicMuted(muted)
    BY <2>4, <2>5, <2>6
    DEF ABI!SetMicMuted, ABI!Idle, ABI!Returns, ABI!Result, Result
  <2>. QED
    BY <1>1, <2>6, <2>7 DEF ABIStep, ABI!Next, MockQuiet
<1>5. CASE ~(side = "mic" /\ session.running)
  <2>1. session' = [session EXCEPT ![side] = muted]
    BY <1>5 DEF M!SetMuted, M!GeneratesFirst, M!Set
  <2>2. session'.running = session.running
    BY <1>3, <2>1 DEF HasSession
  <2>3. State \in {"open", "running"} /\ State' = State /\ Read' = Read
    BY <1>1, <2>2 DEF MockView, MockQuiet
  <2>. QED
    BY <1>1, <1>2, <1>3, <2>1, <2>3, MuteKeeps, BoundsAssumption DEF MockQuiet
<1>. QED
  BY <1>4, <1>5

LEMMA MockOthersKeep ==
  ASSUME MockView, MockView', MockQuiet, HasSession,
         \/ M!Clock \/ M!MockForceFormat \/ M!PollEvent \/ M!MockPushEvent
         \/ \E counter \in {"underruns", "overruns"} : M!MockAddCount(counter)
         \/ \E mask, route : M!MockSetRoutes(mask, route)
  PROVE  MockQuiet' /\ ABIStep
<1>. USE DEF HasSession, SameFlags, M!Set
<1>1. UNCHANGED <<stage, reader, last>>
  BY DEF M!Clock, M!MockForceFormat, M!PollEvent, M!MockPushEvent, M!MockAddCount,
         M!MockSetRoutes
<1>2. SameFlags
  <2>1. CASE M!Clock \/ M!MockForceFormat
    BY <2>1 DEF M!Clock, M!MockForceFormat
  <2>2. CASE M!PollEvent \/ M!MockPushEvent
    BY <2>2 DEF M!PollEvent, M!MockPushEvent
  <2>3. CASE \E counter \in {"underruns", "overruns"} : M!MockAddCount(counter)
    BY <2>3 DEF M!MockAddCount
  <2>4. CASE \E mask, route : M!MockSetRoutes(mask, route)
    <3>1. PICK mask, to, events : session' =
            [session EXCEPT !.mask = mask, !.route = to, !.events = events]
      BY <2>4 DEF M!MockSetRoutes
    <3>. QED
      BY <3>1
  <2>. QED
    BY <2>1, <2>2, <2>3, <2>4
<1>. QED
  BY <1>1, <1>2, MockUnnoticed

LEMMA MockReadKeeps ==
  ASSUME MockView, MockView', MockQuiet, MockFits, M!ReadBegins \/ M!CaptureRead
  PROVE  MockQuiet' /\ ABIStep
<1>0. HasSession
  BY DEF MockFits, SessionFits
<1>1. CASE M!ReadBegins
  <2>1. /\ stage = "done" /\ UNCHANGED <<stage, session, last>>
        /\ reader.pc = "out" /\ reader'.pc = "waiting"
    BY <1>1 DEF M!ReadBegins, M!NoRead, M!IsOpen
  <2>2. State \in {"open", "running"} /\ State' = State /\ Read = "out" /\ Read' = "in"
    BY <2>1 DEF MockView
  <2>3. ABI!ReadBegins
    BY <2>1, <2>2 DEF ABI!ReadBegins, ABI!Idle
  <2>. QED
    BY <2>1, <2>3 DEF ABIStep, ABI!Next, MockQuiet
<1>2. CASE M!ReadTurns
  <2>1. PICK s \in M!Pumped :
          /\ session' = IF Len(s.accum) >= FrameUnits
                        THEN [s EXCEPT !.accum = Behind(FrameUnits, s.accum)] ELSE s
          /\ reader' = IF Len(s.accum) >= FrameUnits
                       THEN [pc |-> "took", frame |-> Oldest(FrameUnits, s.accum)]
                       ELSE [M!NoRead EXCEPT !.pc = "timing"]
    BY <1>2, MockBuffersAre DEF M!ReadTurns
  <2>2. UNCHANGED <<stage, last>> /\ reader.pc = "waiting" /\ session.running
    BY <1>2 DEF M!ReadTurns
  <2>3. PICK k : PumpedTo(s, k)
    BY <2>2, PumpFits DEF MockFits
  <2>4. /\ {"running", "mic", "output"} \subseteq DOMAIN s
        /\ s.running = session.running /\ s.mic = session.mic /\ s.output = session.output
    BY <1>0, <2>3 DEF PumpedTo, HasSession
  <2>5. SameFlags
    BY <2>1, <2>4 DEF SameFlags
  <2>6. reader'.pc \in {"took", "timing"}
    BY <2>1 DEF M!NoRead
  <2>7. stage = "done"
    BY <2>2 DEF MockQuiet
  <2>8. State = "running" /\ State' = State /\ Read = "in" /\ Read' = "seen"
    BY <2>2, <2>5, <2>6, <2>7 DEF MockView, SameFlags
  <2>9. ABI!ReadTurns
    BY <2>2, <2>5, <2>8 DEF ABI!ReadTurns, ABI!Running, SameFlags
  <2>. QED
    BY <2>2, <2>6, <2>7, <2>9 DEF ABIStep, ABI!Next, MockQuiet
<1>3. CASE M!ReadSleeps
  <2>1. UNCHANGED <<stage, session, last>> /\ reader.pc = "timing" /\ reader'.pc = "waiting"
    BY <1>3 DEF M!ReadSleeps, M!NoRead
  <2>2. State' = State /\ Read = "seen" /\ Read' = "in"
    BY <2>1 DEF MockView
  <2>3. ABI!ReadTurns
    BY <2>1, <2>2 DEF ABI!ReadTurns
  <2>. QED
    BY <2>1, <2>3 DEF ABIStep, ABI!Next, MockQuiet
<1>4. CASE M!ReadReturns
  <2>1. UNCHANGED <<stage, session>> /\ reader'.pc = "out"
    BY <1>4 DEF M!ReadReturns, M!NoRead
  <2>2. \/ reader.pc = "took" /\ last' = M!Result("capture_read", "frame")
        \/ reader.pc = "timing" /\ last' = M!Result("capture_read", "timeout")
        \/ /\ reader.pc = "waiting" /\ ~session.running
           /\ last' = M!Result("capture_read", "closed")
    BY <1>4 DEF M!ReadReturns, M!Returns
  <2>3. State' = State /\ Read' = "out"
    BY <2>1 DEF MockView
  <2>4. /\ reader.pc \in {"took", "timing"} => Read = "seen"
        /\ reader.pc = "waiting" => Read = "in"
        /\ ~session.running => State \notin {"starting", "running"}
    BY DEF MockView
  <2>5. ABI!ReadReturns
    BY <2>1, <2>2, <2>3, <2>4
    DEF ABI!ReadReturns, ABI!Running, ABI!Returns, ABI!Result, M!Result
  <2>. QED
    BY <2>1, <2>5 DEF ABIStep, ABI!Next, MockQuiet
<1>. QED
  BY <1>1, <1>2, <1>3, <1>4 DEF M!CaptureRead

LEMMA MockWriteKeeps ==
  ASSUME MockView, MockView', MockQuiet, M!PlaybackWrite
  PROVE  MockQuiet' /\ ABIStep
<1>1. UNCHANGED <<stage, session, reader>> /\ stage = "done"
  BY DEF M!PlaybackWrite, M!IsOpen
<1>2. \/ ~session.running /\ last' = Result("playback_write", "not_started")
      \/ /\ session.running
         /\ \E code \in {"ok", "frame_size"} : last' = Result("playback_write", code)
  BY DEF M!PlaybackWrite, M!Returns, M!Result, Result
<1>3. State = IF session.running THEN "running" ELSE "open"
  BY <1>1 DEF MockView
<1>4. State' = State /\ Read' = Read
  BY <1>1 DEF MockView, MockQuiet
<1>5. ABIStep
  BY <1>1, <1>2, <1>3, <1>4, WriteKeeps
<1>. QED
  BY <1>1, <1>5 DEF MockQuiet

LEMMA MockSetRouteKeeps ==
  ASSUME MockView, MockView', MockQuiet, HasSession, NEW route, M!SetRoute(route)
  PROVE  MockQuiet' /\ ABIStep
<1>1. /\ stage = "done" /\ UNCHANGED <<stage, reader>> /\ SameFlags
      /\ \E code \in {"ok", "refused"} : last' = Result("set_route", code)
  BY DEF M!SetRoute, M!Returns, M!IsOpen, M!Set, M!Result, Result, HasSession, SameFlags
<1>2. State \in {"open", "running"} /\ State' = State /\ Read' = Read
  BY <1>1 DEF MockView, MockQuiet, SameFlags
<1>3. ABIStep
  BY <1>1, <1>2, RouteKeeps DEF SameFlags
<1>. QED
  BY <1>1, <1>3 DEF MockQuiet

LEMMA MockStepKeeps ==
  ASSUME backend = "mock", backend' = "mock", MockFits, MockQuiet, MockStep
  PROVE  MockQuiet' /\ ABIStep
<1>1. MockView /\ MockView'
  BY MockViewIs
<1>2. HasSession
  BY DEF MockFits, SessionFits
<1>3. CASE M!Lifecycle
  BY <1>1, <1>2, <1>3, MockCallsKeep
<1>4. CASE M!CaptureSide \/ M!CaptureRead
  BY <1>1, <1>2, <1>4, MockOthersKeep, MockReadKeeps, MockMuteKeeps DEF M!CaptureSide
<1>5. CASE M!PlaybackSide
  BY <1>1, <1>2, <1>5, MockOthersKeep, MockWriteKeeps, MockMuteKeeps DEF M!PlaybackSide
<1>6. CASE M!RouteSide
  BY <1>1, <1>2, <1>6, MockOthersKeep, MockSetRouteKeeps DEF M!RouteSide
<1>. QED
  BY <1>3, <1>4, <1>5, <1>6 DEF MockStep

-----------------------------------------------------------------------------
(* Android *)

AndroidView ==
    /\ stage = "done" => State = IF session.running THEN "running" ELSE "open"
    /\ stage \in {"recording", "playing"} => State = "open"
    /\ stage = "counting" => State = "starting"
    /\ stage \in {"none", "stopping"} => State = stage
    /\ reader.pc = "out" => Read = "out"
    /\ reader.pc \in {"in", "empty"} => Read = "in"
    /\ reader.pc \in {"waiting", "took"} => Read = "seen"

LEMMA AndroidViewIs ==
  ASSUME backend = "android", backend' = "android" PROVE AndroidView /\ AndroidView'
<1>1. State = D!State /\ Read = D!Read
  BY DEF State, Read
<1>2. State' = D!State' /\ Read' = D!Read'
  BY DEF State, Read
<1>. QED
  BY <1>1, <1>2 DEF AndroidView, D!State, D!Read

(* The session runs from the last step of start but one to the first of stop. *)
AndroidQuiet ==
    /\ "pc" \in DOMAIN reader /\ reader.pc \in {"out", "in", "waiting", "took", "empty"}
    /\ stage \in {"none", "done", "recording", "playing", "counting", "stopping"}
    /\ stage = "counting" => session.running = TRUE
    /\ stage \in {"none", "recording", "playing", "stopping"} => session.running = FALSE

LEMMA AndroidUnnoticed ==
  ASSUME AndroidView, AndroidView', AndroidQuiet, SameFlags, reader' = reader, last' = last,
         stage' = stage
  PROVE  AndroidQuiet' /\ ABIStep
<1>1. State' = State /\ Read' = Read
  BY DEF AndroidView, AndroidQuiet, SameFlags
<1>. QED
  BY <1>1 DEF ABIStep, ABI!abiVars, SameFlags, AndroidQuiet

LEMMA AndroidCallsKeep ==
  ASSUME AndroidView, AndroidView', AndroidQuiet, HasSession, session.running \in BOOLEAN,
         D!Lifecycle
  PROVE  AndroidQuiet' /\ ABIStep
<1>. USE DEF HasSession, D!IsOpen, D!Returns, D!Set
<1>1. CASE D!OpenRefused
  <2>1. UNCHANGED <<stage, session, reader>> /\ last' = D!Result("open", "refused")
    BY <1>1 DEF D!OpenRefused
  <2>2. State' = State /\ Read' = Read
    BY <2>1 DEF AndroidView, AndroidQuiet
  <2>3. ABI!OpenRefused
    BY <2>1, <2>2 DEF ABI!OpenRefused, ABI!Returns, ABI!OnlyAnswers, ABI!Result, D!Result
  <2>. QED
    BY <2>1, <2>3 DEF ABIStep, ABI!Next, AndroidQuiet
<1>2. CASE D!Open
  <2>1. /\ stage = "none" /\ stage' = "done" /\ UNCHANGED <<session, reader>>
        /\ last' = D!Result("open", "ok")
    BY <1>2 DEF D!Open
  <2>2. State = "none" /\ State' = "open" /\ Read' = Read
    BY <2>1 DEF AndroidView, AndroidQuiet
  <2>3. ABI!Opens
    BY <2>1, <2>2 DEF ABI!Opens, ABI!Returns, ABI!Result, D!Result
  <2>. QED
    BY <2>1, <2>3 DEF ABIStep, ABI!Next, AndroidQuiet
<1>3. CASE D!Start
  <2>1. stage = "done" /\ UNCHANGED <<session, reader>>
    BY <1>3 DEF D!Start
  <2>2. \/ session.running /\ stage' = "done" /\ last' = D!Result("start", "already_started")
        \/ ~session.running /\ stage' = "recording" /\ last' = last
    BY <1>3 DEF D!Start
  <2>3. /\ State = IF session.running THEN "running" ELSE "open"
        /\ State' = State /\ Read' = Read
    BY <2>1, <2>2 DEF AndroidView, AndroidQuiet
  <2>4. ABI!StartRefused \/ UNCHANGED ABI!abiVars
    BY <2>1, <2>2, <2>3
    DEF ABI!abiVars, ABI!StartRefused, ABI!Idle, ABI!Returns, ABI!Result, D!Result
  <2>. QED
    BY <2>1, <2>2, <2>4 DEF ABIStep, ABI!Next, AndroidQuiet
<1>4. CASE D!StartFails
  <2>1. /\ stage \in {"recording", "playing"} /\ stage' = "done" /\ UNCHANGED <<session, reader>>
        /\ last' = D!Result("start", "backend")
    BY <1>4 DEF D!StartFails
  <2>2. State = "open" /\ State' = "open" /\ Read' = Read
    BY <2>1 DEF AndroidView, AndroidQuiet
  <2>3. ABI!StartRefused
    BY <2>1, <2>2 DEF ABI!StartRefused, ABI!Idle, ABI!Returns, ABI!Result, D!Result
  <2>. QED
    BY <2>1, <2>3 DEF ABIStep, ABI!Next, AndroidQuiet
<1>5. CASE D!StartRecords
  <2>1. stage = "recording" /\ stage' = "playing" /\ UNCHANGED <<session, reader, last>>
    BY <1>5 DEF D!StartRecords
  <2>2. State' = State /\ Read' = Read
    BY <2>1 DEF AndroidView, AndroidQuiet
  <2>. QED
    BY <2>1, <2>2 DEF ABIStep, ABI!abiVars, AndroidQuiet
<1>6. CASE D!StartPlays
  <2>1. stage = "playing" /\ stage' = "counting" /\ UNCHANGED <<reader, last>>
    BY <1>6 DEF D!StartPlays
  <2>2. /\ session'.running = TRUE
        /\ session'.mic = session.mic /\ session'.output = session.output
    <3>. DEFINE emptied == D!Emptied(session)
    <3>1. /\ DOMAIN emptied = DOMAIN session
          /\ emptied.mic = session.mic /\ emptied.output = session.output
      BY DEF D!Emptied
    <3>2. session' = [emptied EXCEPT !.gone = FALSE, !.running = TRUE, !.runs = @ + 1]
      BY <1>6 DEF D!StartPlays
    <3>. HIDE DEF emptied
    <3>. QED
      BY <3>1, <3>2
  <2>3. State = "open" /\ State' = "starting" /\ Read' = Read
    BY <2>1 DEF AndroidView, AndroidQuiet
  <2>4. ABI!StartBegins
    BY <2>1, <2>2, <2>3 DEF ABI!StartBegins
  <2>. QED
    BY <2>1, <2>2, <2>4 DEF ABIStep, ABI!Next, AndroidQuiet
<1>7. CASE D!StartCounts
  <2>1. /\ stage = "counting" /\ stage' = "done" /\ reader' = reader
        /\ last' = D!Result("start", "ok")
        /\ session'.running = session.running
        /\ session'.mic = session.mic /\ session'.output = session.output
    BY <1>7 DEF D!StartCounts
  <2>2. State = "starting" /\ State' = "running" /\ Read' = Read
    BY <2>1 DEF AndroidView, AndroidQuiet
  <2>3. ABI!Starts
    BY <2>1, <2>2 DEF ABI!Starts, ABI!Returns, ABI!Result, D!Result
  <2>. QED
    BY <2>1, <2>3 DEF ABIStep, ABI!Next, AndroidQuiet
<1>8. CASE D!Stop
  <2>1. /\ stage = "done" /\ reader' = reader /\ session'.running = FALSE
        /\ session'.mic = session.mic /\ session'.output = session.output
    BY <1>8 DEF D!Stop
  <2>2. \/ session.running /\ stage' = "stopping" /\ last' = last
        \/ ~session.running /\ stage' = "done" /\ last' = D!Result("stop", "ok")
    BY <1>8 DEF D!Stop
  <2>3. /\ State = IF session.running THEN "running" ELSE "open"
        /\ State' = IF session.running THEN "stopping" ELSE "open"
        /\ Read' = Read
    BY <2>1, <2>2 DEF AndroidView, AndroidQuiet
  <2>4. ABI!StopBegins \/ ABI!Stops
    BY <2>1, <2>2, <2>3
    DEF ABI!StopBegins, ABI!Stops, ABI!Idle, ABI!Returns, ABI!Result, D!Result
  <2>. QED
    BY <2>1, <2>2, <2>4 DEF ABIStep, ABI!Next, AndroidQuiet
<1>9. CASE D!StopEnds
  <2>1. /\ stage = "stopping" /\ stage' = "done" /\ reader' = reader
        /\ last' = D!Result("stop", "ok")
        /\ session'.running = session.running
        /\ session'.mic = session.mic /\ session'.output = session.output
    BY <1>9 DEF D!StopEnds, D!Emptied
  <2>2. State = "stopping" /\ State' = "open" /\ Read' = Read
    BY <2>1 DEF AndroidView, AndroidQuiet
  <2>3. ABI!Stops
    BY <2>1, <2>2 DEF ABI!Stops, ABI!Idle, ABI!Returns, ABI!Result, D!Result
  <2>. QED
    BY <2>1, <2>3 DEF ABIStep, ABI!Next, AndroidQuiet
<1>10. CASE D!Close
  <2>1. /\ stage = "done" /\ stage' = "none" /\ reader' = reader /\ reader.pc = "out"
        /\ last' = D!Result("close", "ok")
        /\ session'.running = FALSE /\ session'.mic = FALSE /\ session'.output = FALSE
    BY <1>10 DEF D!Close, D!Closed
  <2>2. State \in {"open", "running"} /\ State' = "none" /\ Read = "out" /\ Read' = Read
    BY <2>1 DEF AndroidView
  <2>3. ABI!Closes
    BY <2>1, <2>2 DEF ABI!Closes, ABI!Idle, ABI!Returns, ABI!Result, D!Result
  <2>. QED
    BY <2>1, <2>3 DEF ABIStep, ABI!Next, AndroidQuiet
<1>. QED
  BY <1>1, <1>2, <1>3, <1>4, <1>5, <1>6, <1>7, <1>8, <1>9, <1>10
  DEF D!Lifecycle, D!ControlSteps

LEMMA AndroidOthersKeep ==
  ASSUME AndroidView, AndroidView', AndroidQuiet, HasSession,
         \/ \E r \in D!Runs : \/ D!CaptureThread(r)
                              \/ D!PlayLooks(r) \/ D!PlayTakes(r) \/ D!PlayWrites(r)
                              \/ D!WatcherReads(r) \/ D!WatcherPosts(r)
         \/ D!WriteOffers \/ D!DevicesChange \/ D!WatcherIsCalled \/ D!PollEvent
  PROVE  AndroidQuiet' /\ ABIStep
<1>. USE DEF HasSession, SameFlags, D!Set
<1>1. UNCHANGED <<stage, reader, last>>
  BY DEF D!CaptureThread, D!CaptureLooks, D!CaptureReads, D!CaptureLoses, D!CaptureOffers,
         D!PlayLooks, D!PlayTakes, D!PlayWrites, D!WatcherReads, D!WatcherPosts,
         D!WriteOffers, D!DevicesChange, D!WatcherIsCalled, D!PollEvent
<1>2. SameFlags
  <2>1. ASSUME NEW r, D!CaptureThread(r) PROVE SameFlags
    <3>1. CASE D!CaptureLooks(r) \/ D!CaptureReads(r)
      BY <3>1 DEF D!CaptureLooks, D!CaptureReads
    <3>2. CASE D!CaptureLoses(r)
      BY <3>2 DEF D!CaptureLoses
    <3>3. CASE D!CaptureOffers(r)
      BY <3>3 DEF D!CaptureOffers
    <3>. QED
      BY <2>1, <3>1, <3>2, <3>3 DEF D!CaptureThread
  <2>2. ASSUME NEW r, D!PlayLooks(r) \/ D!PlayTakes(r) \/ D!PlayWrites(r) PROVE SameFlags
    BY <2>2 DEF D!PlayLooks, D!PlayTakes, D!PlayWrites
  <2>3. ASSUME NEW r, D!WatcherReads(r) \/ D!WatcherPosts(r) PROVE SameFlags
    BY <2>3 DEF D!WatcherReads, D!WatcherPosts
  <2>4. CASE D!WriteOffers
    BY <2>4 DEF D!WriteOffers
  <2>5. CASE D!DevicesChange \/ D!WatcherIsCalled \/ D!PollEvent
    BY <2>5 DEF D!DevicesChange, D!WatcherIsCalled, D!PollEvent
  <2>. QED
    BY <2>1, <2>2, <2>3, <2>4, <2>5
<1>. QED
  BY <1>1, <1>2, AndroidUnnoticed

LEMMA AndroidMuteKeeps ==
  ASSUME AndroidView, AndroidView', AndroidQuiet, HasSession,
         NEW side \in {"mic", "output"}, NEW muted \in Mutes, D!SetMuted(side, muted)
  PROVE  AndroidQuiet' /\ ABIStep
<1>1. /\ stage = "done" /\ stage' = stage /\ reader' = reader
      /\ session' = [session EXCEPT ![side] = muted]
      /\ last' = D!Result(D!SetCall[side], IF muted THEN "on" ELSE "off")
  BY DEF D!SetMuted, D!Returns, D!IsOpen, D!Set
<1>2. session'.running = session.running
  BY <1>1 DEF HasSession
<1>3. State \in {"open", "running"} /\ State' = State /\ Read' = Read
  BY <1>1, <1>2 DEF AndroidView, AndroidQuiet
<1>4. last' = Result(SetCall[side], IF muted THEN "on" ELSE "off")
  BY <1>1 DEF D!Result, D!SetCall, Result, SetCall
<1>. QED
  BY <1>1, <1>3, <1>4, MuteKeeps, BoundsAssumption DEF AndroidQuiet

LEMMA AndroidReadKeeps ==
  ASSUME backend = "android", AndroidView, AndroidView', AndroidQuiet, HasSession,
         D!ReadBegins \/ D!CaptureRead
  PROVE  AndroidQuiet' /\ ABIStep
<1>. USE DEF HasSession, SameFlags
<1>1. CASE D!ReadBegins
  <2>1. /\ stage = "done" /\ UNCHANGED <<stage, session, last>>
        /\ "pc" \in DOMAIN reader' /\ reader.pc = "out" /\ reader'.pc = "in"
    BY <1>1 DEF D!ReadBegins, D!NoRead, D!IsOpen
  <2>2. State \in {"open", "running"} /\ State' = State /\ Read = "out" /\ Read' = "in"
    BY <2>1 DEF AndroidView
  <2>3. ABI!ReadBegins
    BY <2>1, <2>2 DEF ABI!ReadBegins, ABI!Idle
  <2>. QED
    BY <2>1, <2>3 DEF ABIStep, ABI!Next, AndroidQuiet
<1>2. CASE D!ReadLooks
  <2>1. /\ UNCHANGED <<stage, session, last>> /\ session.running
        /\ "pc" \in DOMAIN reader' /\ reader.pc = "in" /\ reader'.pc = "waiting"
    BY <1>2 DEF D!ReadLooks, AndroidQuiet
  <2>2. State \in {"starting", "running"} /\ State' = State /\ Read = "in" /\ Read' = "seen"
    BY <2>1 DEF AndroidView, AndroidQuiet
  <2>3. ABI!ReadTurns
    BY <2>1, <2>2 DEF ABI!ReadTurns, ABI!Running
  <2>. QED
    BY <2>1, <2>3 DEF ABIStep, ABI!Next, AndroidQuiet
<1>3. CASE D!ReadTakes
  <2>1. /\ UNCHANGED <<stage, last>> /\ reader.pc = "waiting" /\ "pc" \in DOMAIN reader'
        /\ reader'.pc \in {"empty", "took"}
    BY <1>3 DEF D!ReadTakes, AndroidQuiet
  <2>2. SameFlags
    BY <1>3 DEF D!ReadTakes, D!Set
  <2>3. State' = State /\ Read = "seen" /\ Read' \in {"in", "seen"}
    BY <2>1, <2>2 DEF AndroidView, AndroidQuiet
  <2>4. ABI!ReadTurns \/ UNCHANGED ABI!abiVars
    BY <2>1, <2>2, <2>3 DEF ABI!ReadTurns, ABI!abiVars
  <2>. QED
    BY <2>1, <2>2, <2>4 DEF ABIStep, ABI!Next, AndroidQuiet
<1>4. CASE D!ReadReturns
  <2>1. UNCHANGED <<stage, session>> /\ "pc" \in DOMAIN reader' /\ reader'.pc = "out"
    BY <1>4 DEF D!ReadReturns, D!NoRead
  <2>2. \/ reader.pc = "took" /\ last' = D!Result("capture_read", "frame")
        \/ /\ reader.pc \in {"in", "empty"} /\ ~session.running
           /\ last' = D!Result("capture_read", "closed")
        \/ /\ reader.pc = "empty" /\ session.gone
           /\ last' = D!Result("capture_read", "closed")
        \/ /\ reader.pc = "empty" /\ session.running
           /\ last' = D!Result("capture_read", "timeout")
    BY <1>4 DEF D!ReadReturns, D!Returns
  <2>3. State' = State /\ Read' = "out"
    BY <2>1 DEF AndroidView, AndroidQuiet
  <2>4. /\ reader.pc = "took" => Read = "seen"
        /\ reader.pc \in {"in", "empty"} => Read = "in"
        /\ session.running <=> State \in {"starting", "running"}
    BY DEF AndroidView, AndroidQuiet
  <2>5. ABI!ReadReturns
    BY <2>1, <2>2, <2>3, <2>4
    DEF ABI!ReadReturns, ABI!Running, ABI!Returns, ABI!Result, D!Result
  <2>. QED
    BY <2>1, <2>5 DEF ABIStep, ABI!Next, AndroidQuiet
<1>. QED
  BY <1>1, <1>2, <1>3, <1>4 DEF D!CaptureRead

LEMMA AndroidWriteKeeps ==
  ASSUME AndroidView, AndroidView', AndroidQuiet, D!WriteLooks
  PROVE  AndroidQuiet' /\ ABIStep
<1>1. UNCHANGED <<stage, session, reader>> /\ stage # "none"
  BY DEF D!WriteLooks
<1>2. \/ ~session.running /\ last' = Result("playback_write", "not_started")
      \/ /\ session.running
         /\ \E code \in {"ok", "frame_size"} : last' = Result("playback_write", code)
  BY DEF D!WriteLooks, D!Returns, D!Result, Result
<1>3. State # "none" /\ (State \in {"starting", "running"} <=> session.running)
  BY <1>1 DEF AndroidView, AndroidQuiet
<1>4. State' = State /\ Read' = Read
  BY <1>1 DEF AndroidView, AndroidQuiet
<1>5. ABIStep
  BY <1>1, <1>2, <1>3, <1>4, WriteKeeps
<1>. QED
  BY <1>1, <1>5 DEF AndroidQuiet

LEMMA AndroidSetRouteKeeps ==
  ASSUME AndroidView, AndroidView', AndroidQuiet, NEW route, D!SetRoute(route)
  PROVE  AndroidQuiet' /\ ABIStep
<1>1. /\ stage = "done" /\ UNCHANGED <<stage, session, reader>>
      /\ \E code \in {"ok", "refused"} : last' = Result("set_route", code)
  BY DEF D!SetRoute, D!Returns, D!IsOpen, D!Result, Result
<1>2. State \in {"open", "running"} /\ State' = State /\ Read' = Read
  BY <1>1 DEF AndroidView, AndroidQuiet
<1>. QED
  BY <1>1, <1>2, RouteKeeps DEF AndroidQuiet

LEMMA AndroidStepKeeps ==
  ASSUME backend = "android", backend' = "android", AndroidFits, AndroidQuiet, AndroidStep
  PROVE  AndroidQuiet' /\ ABIStep
<1>1. AndroidView /\ AndroidView'
  BY AndroidViewIs
<1>2. HasSession /\ session.running \in BOOLEAN
  BY DEF AndroidFits, SessionFits
<1>3. CASE D!Lifecycle
  BY <1>1, <1>2, <1>3, AndroidCallsKeep
<1>4. CASE D!CaptureSide \/ D!CaptureRead
  BY <1>1, <1>2, <1>4, AndroidOthersKeep, AndroidReadKeeps, AndroidMuteKeeps DEF D!CaptureSide
<1>5. CASE D!PlaybackSide
  BY <1>1, <1>2, <1>5, AndroidOthersKeep, AndroidWriteKeeps, AndroidMuteKeeps DEF D!PlaybackSide
<1>6. CASE D!RouteSide
  BY <1>1, <1>2, <1>6, AndroidOthersKeep, AndroidSetRouteKeeps DEF D!RouteSide
<1>. QED
  BY <1>3, <1>4, <1>5, <1>6 DEF AndroidStep

-----------------------------------------------------------------------------
(* All backends *)

WindowsReads == "pc" \in DOMAIN reader

LEMMA WindowsStepReads ==
  ASSUME WindowsReads, WindowsStep PROVE WindowsReads'
<1>1. CASE W!ReadBegins \/ W!CaptureRead
  <2>1. \/ \E field \in {"looking", "waiting"} : reader' = [reader EXCEPT !.pc = field]
        \/ reader' = [W!NoRead EXCEPT !.pc = "looking"]
        \/ "pc" \in DOMAIN reader'
    <3>1. W!ReadBegins => reader' = [W!NoRead EXCEPT !.pc = "looking"]
      BY DEF W!ReadBegins
    <3>2. W!ReadLooks => \/ reader' = [reader EXCEPT !.pc = "waiting"]
                         \/ "pc" \in DOMAIN reader'
      BY DEF W!ReadLooks
    <3>3. W!ReadDrains => reader' = [reader EXCEPT !.pc = "looking"]
      BY DEF W!ReadDrains
    <3>4. W!ReadReturns => "pc" \in DOMAIN reader'
      BY DEF W!ReadReturns, W!NoRead
    <3>. QED
      BY <1>1, <3>1, <3>2, <3>3, <3>4 DEF W!CaptureRead
  <2>. QED
    BY <2>1 DEF WindowsReads, W!NoRead
<1>2. CASE W!Lifecycle
  BY <1>2 DEF WindowsReads, W!Lifecycle, W!OpenFails, W!OpenMakes, W!OpenRegisters, W!Start,
              W!StartMakesThread, W!Stop, W!StopEnds, W!Close, W!RenderThread, W!RenderLooks,
              W!RenderWakes, W!RenderFills, W!RenderReleases
<1>3. CASE W!RenderThread \/ W!DeviceHears \/ \E c \in W!Clients : W!EngineSignals(c)
  BY <1>3 DEF WindowsReads, W!RenderThread, W!RenderLooks, W!RenderWakes, W!RenderFills,
              W!RenderReleases, W!DeviceHears, W!EngineSignals
<1>4. CASE W!EndpointsChange \/ W!OnDeviceStateChanged \/ W!GetRoutes \/ W!PollEvent
           \/ W!PlaybackWrite \/ \E side, muted : W!SetMuted(side, muted)
  BY <1>4 DEF WindowsReads, W!EndpointsChange, W!OnDeviceStateChanged, W!GetRoutes,
              W!PollEvent, W!PlaybackWrite, W!SetMuted
<1>5. CASE W!SetRoute
  BY <1>5 DEF WindowsReads, W!SetRoute, W!SetRouteSteps, W!SetRouteAnswers, W!SetRouteGoesOn,
              W!SetRouteMakes, W!SetRouteStarts, W!SetRouteSwaps, W!SetRouteDropsOld,
              W!SetRouteEnds
<1>. QED
  BY <1>1, <1>2, <1>3, <1>4, <1>5
  DEF WindowsStep, W!Lifecycle, W!CaptureSide, W!PlaybackSide, W!RouteSide

(* What is inductive beside Fits: how the steps of the control thread, the
   flags of the session and the call that reads go together. *)
CallsAgree ==
    /\ backend = "linux" => LinuxQuiet
    /\ backend = "windows" => WindowsQuiet /\ WindowsReads
    /\ backend = "apple" => AppleQuiet
    /\ backend = "android" => AndroidQuiet
    /\ backend = "mock" => MockQuiet

LEMMA FirstKeeps == ASSUME Init PROVE CallsAgree /\ ABI!Init
<1>0. /\ session.mic = FALSE /\ session.output = FALSE
      /\ last = Result("none", "none")
  BY DEF Init, L!Init, W!Init, A!Init, D!Init, M!Init, L!Closed, W!Closed, A!Closed,
         D!Closed, M!Closed, L!Result, W!Result, A!Result, D!Result, M!Result, Result
<1>1. CASE backend = "linux"
  <2>1. stage = "none" /\ reader = L!NoRead /\ session = L!Closed
    BY <1>1 DEF Init, L!Init
  <2>2. LinuxQuiet
    BY <2>1 DEF L!NoRead, L!Closed, LinuxQuiet
  <2>3. State = "none" /\ Read = "out"
    BY <1>1, <2>1 DEF State, Read, L!State, L!Read, L!IsOpen, L!NoRead
  <2>. QED
    BY <1>0, <1>1, <2>2, <2>3 DEF CallsAgree, ABI!Init, ABI!Result, Result
<1>2. CASE backend = "windows"
  <2>1. stage = "none" /\ reader = W!NoRead /\ session = W!Closed
    BY <1>2 DEF Init, W!Init
  <2>2. WindowsQuiet /\ WindowsReads
    BY <2>1 DEF W!NoRead, W!Closed, WindowsQuiet, WindowsReads
  <2>3. State = "none" /\ Read = "out"
    BY <1>2, <2>1 DEF State, Read, W!State, W!Read, W!NoRead
  <2>. QED
    BY <1>0, <1>2, <2>2, <2>3 DEF CallsAgree, ABI!Init, ABI!Result, Result
<1>3. CASE backend = "apple"
  <2>1. stage = "none" /\ reader = A!NoRead /\ session = A!Closed
    BY <1>3 DEF Init, A!Init
  <2>2. AppleQuiet
    BY <2>1 DEF A!NoRead, A!Closed, AppleQuiet
  <2>3. State = "none" /\ Read = "out"
    BY <1>3, <2>1 DEF State, Read, A!State, A!Read, A!NoRead
  <2>. QED
    BY <1>0, <1>3, <2>2, <2>3 DEF CallsAgree, ABI!Init, ABI!Result, Result
<1>4. CASE backend = "android"
  <2>1. stage = "none" /\ reader = D!NoRead /\ session = D!Closed
    BY <1>4 DEF Init, D!Init
  <2>2. AndroidQuiet
    BY <2>1 DEF D!NoRead, D!Closed, AndroidQuiet
  <2>3. State = "none" /\ Read = "out"
    BY <1>4, <2>1 DEF State, Read, D!State, D!Read, D!NoRead
  <2>. QED
    BY <1>0, <1>4, <2>2, <2>3 DEF CallsAgree, ABI!Init, ABI!Result, Result
<1>5. CASE backend = "mock"
  <2>1. stage = "none" /\ reader = M!NoRead /\ session = M!Closed
    BY <1>5 DEF Init, M!Init
  <2>2. MockQuiet
    BY <2>1 DEF M!NoRead, M!Closed, MockQuiet
  <2>3. State = "none" /\ Read = "out"
    BY <1>5, <2>1 DEF State, Read, M!State, M!Read, M!NoRead, M!IsOpen
  <2>. QED
    BY <1>0, <1>5, <2>2, <2>3 DEF CallsAgree, ABI!Init, ABI!Result, Result
<1>. QED
  BY <1>1, <1>2, <1>3, <1>4, <1>5 DEF Init

LEMMA StutterKeeps ==
  ASSUME Fits, CallsAgree, UNCHANGED voiceVars PROVE CallsAgree' /\ ABIStep
<1>0. /\ UNCHANGED <<backend, stage, session, reader, last>>
      /\ SameFlags
      /\ WindowsReads => WindowsReads'
  BY DEF voiceVars, SameFlags, WindowsReads
<1>1. CASE backend = "linux"
  BY <1>0, <1>1, LinuxViewIs, LinuxUnnoticed DEF CallsAgree
<1>2. CASE backend = "windows"
  BY <1>0, <1>2, WindowsViewIs, WindowsUnnoticed DEF CallsAgree
<1>3. CASE backend = "apple"
  BY <1>0, <1>3, AppleViewIs, AppleUnnoticed DEF CallsAgree
<1>4. CASE backend = "android"
  BY <1>0, <1>4, AndroidViewIs, AndroidUnnoticed DEF CallsAgree
<1>5. CASE backend = "mock"
  BY <1>0, <1>5, MockViewIs, MockUnnoticed DEF CallsAgree
<1>. QED
  BY <1>1, <1>2, <1>3, <1>4, <1>5 DEF Fits

LEMMA StepKeeps ==
  ASSUME Fits, GuardHeldOnlyForASession, CallsAgree, [Next]_voiceVars
  PROVE  CallsAgree' /\ ABIStep
<1>0. backend' = backend
  BY StepIsOfABackend
<1>1. CASE UNCHANGED voiceVars
  BY <1>1, StutterKeeps
<1>2. CASE backend = "linux" /\ LinuxStep
  BY <1>0, <1>2, LinuxStepKeeps DEF CallsAgree, Fits, GuardHeldOnlyForASession
<1>3. CASE backend = "windows" /\ WindowsStep
  BY <1>0, <1>3, WindowsStepKeeps, WindowsStepReads DEF CallsAgree, Fits, WindowsReads
<1>4. CASE backend = "apple" /\ AppleStep
  BY <1>0, <1>4, AppleStepKeeps DEF CallsAgree, Fits
<1>5. CASE backend = "android" /\ AndroidStep
  BY <1>0, <1>5, AndroidStepKeeps DEF CallsAgree, Fits
<1>6. CASE backend = "mock" /\ MockStep
  BY <1>0, <1>6, MockStepKeeps DEF CallsAgree, Fits
<1>. QED
  BY <1>1, <1>2, <1>3, <1>4, <1>5, <1>6, StepIsOfABackend

(* Whichever backend the process has, callers see the session cleona_voice.h
   promises: the same states and answers, mutes that hold until the session is
   closed, and a read that answers by what it saw while it ran. *)
THEOREM EveryBackendKeepsTheABI == SafetySpec => KeepsTheABI
<1>1. Init => CallsAgree /\ ABI!Init
  BY FirstKeeps
<1>2. Fits /\ GuardHeldOnlyForASession /\ CallsAgree /\ [Next]_voiceVars
        => CallsAgree' /\ [ABI!Next]_(ABI!abiVars)
  BY StepKeeps DEF ABIStep
<1>. QED
  BY <1>1, <1>2, AlwaysFits, GuardIsTheSessions, PTL DEF SafetySpec, KeepsTheABI, ABI!Spec
=============================================================================
