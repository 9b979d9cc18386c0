------------------------ MODULE VideoBackendsProofs -------------------------
(* Proofs about what a video backend promises, for any requests, cameras and
   bounds: the ceiling, the keyframes that are owed, and cleona_video.h. *)
EXTENDS VideoSessionsProofs

-----------------------------------------------------------------------------
(* The ceiling of the mock *)

(* An open session has a rate; the frame that waits is within the ceiling. *)
FrameFits ==
    /\ {"state", "cfg", "fixed", "pending"} \subseteq DOMAIN session
    /\ {"pc", "cap", "frame"} \subseteq DOMAIN reader
    /\ session.cfg \in Configs /\ session.fixed \in Nat
    /\ session.state # "none" => session.cfg.fps # 0
    /\ session.pending # <<>> =>
         session.pending[1].size \in Int /\ session.pending[1].size <= session.cfg.ceiling

LEMMA ClosedFrameFits ==
  /\ {"state", "cfg", "fixed", "pending"} \subseteq DOMAIN M!Closed
  /\ M!Closed.cfg \in Configs /\ M!Closed.fixed \in Nat
  /\ M!Closed.state = "none" /\ M!Closed.pending = <<>>
  /\ {"pc", "cap", "frame"} \subseteq DOMAIN M!NoRead
<1>1. M!NoConfig \in Configs
  BY DEF M!NoConfig, Configs
<1>. QED
  BY <1>1 DEF M!Closed, M!NoRead

LEMMA LifecycleKeepsFrames ==
  ASSUME FrameFits, M!Lifecycle PROVE FrameFits'
<1>1. CASE M!OpenFails \/ M!StartFails
  BY <1>1 DEF M!OpenFails, M!StartFails, M!Refuses, FrameFits
<1>2. CASE M!Start
  BY <1>2 DEF M!Start, FrameFits
<1>3. CASE M!Stop
  BY <1>3 DEF M!Stop, M!IsOpen, M!Stopped, FrameFits
<1>4. CASE M!Close
  BY <1>4, ClosedFrameFits DEF M!Close, FrameFits
<1>5. ASSUME NEW req \in Requests, NEW decodeOnly \in BOOLEAN, M!Open(req, decodeOnly)
      PROVE  FrameFits'
  <2>1. PICK cfg \in M!ByBudget(req, 0) :
          session' = [M!Closed EXCEPT
           !.state = "open", !.runs = session.runs, !.decodeOnly = decodeOnly,
           !.cfg = cfg, !.capture = ~decodeOnly]
    BY <1>5, Zenon DEF M!Open
  <2>2. cfg \in Configs /\ cfg.fps # 0
    BY <2>1, BudgetIsConfig
  <2>3. reader' = reader
    BY <1>5 DEF M!Open
  <2>. QED
    BY <2>1, <2>2, <2>3, ClosedFrameFits DEF FrameFits
<1>. QED
  BY <1>1, <1>2, <1>3, <1>4, <1>5 DEF M!Lifecycle

(* A lower ceiling takes the frame that is above it. *)
LEMMA ChangesKeepFrames ==
  ASSUME FrameFits, M!Changes PROVE FrameFits'
<1>1. CASE M!ReconfigureFails
  BY <1>1 DEF M!ReconfigureFails, M!Refuses, FrameFits
<1>2. ASSUME NEW req \in Requests, M!Reconfigure(req) PROVE FrameFits'
  <2>1. PICK cfg \in M!ByBudget(req, session.fixed) :
          session' = M!Purged([session EXCEPT
            !.cfg = cfg, !.force = @ \/ cfg.geo # session.cfg.geo])
    BY <1>2, Zenon DEF M!Reconfigure
  <2>2. cfg \in Configs /\ cfg.fps # 0
    BY <2>1, BudgetIsConfig DEF FrameFits
  <2>3. PICK force : session' = M!Purged([session EXCEPT !.cfg = cfg, !.force = force])
    BY <2>1, Zenon
  <2>. DEFINE s == [session EXCEPT !.cfg = cfg, !.force = force]
  <2>4. /\ {"state", "cfg", "fixed", "pending"} \subseteq DOMAIN s
        /\ s.cfg = cfg /\ s.pending = session.pending /\ s.fixed = session.fixed
        /\ s.state = session.state
    BY DEF FrameFits
  <2>5. reader' = reader
    BY <1>2 DEF M!Reconfigure
  <2>6. session' = IF s.pending # <<>> /\ s.pending[1].size > s.cfg.ceiling
                   THEN [s EXCEPT !.pending = <<>>, !.dropped = @ + 1] ELSE s
    BY <2>3 DEF M!Purged, M!Outgrown
  <2>. HIDE DEF s
  <2>7. CASE session' = s /\ ~(s.pending # <<>> /\ s.pending[1].size > s.cfg.ceiling)
    BY <2>2, <2>4, <2>5, <2>7 DEF FrameFits, Configs
  <2>8. CASE session' = [s EXCEPT !.pending = <<>>, !.dropped = @ + 1]
    BY <2>2, <2>4, <2>5, <2>8 DEF FrameFits
  <2>. QED
    BY <2>6, <2>7, <2>8
<1>3. CASE \E size \in {0, 2} : M!MockSetFrameBytes(size)
  BY <1>3 DEF M!MockSetFrameBytes, FrameFits
<1>. QED
  BY <1>1, <1>2, <1>3 DEF M!Changes

(* What is made is kept only if it fits. *)
LEMMA ReadingKeepsFrames ==
  ASSUME FrameFits, M!Reading PROVE FrameFits'
<1>1. CASE M!ReadClosed \/ M!ReadTimesOut
  BY <1>1 DEF M!ReadClosed, M!ReadTimesOut, M!ReadReturns, FrameFits
<1>2. CASE M!ReadTakes
  <2>1. PICK frame : reader' = [reader EXCEPT !.pc = "out", !.cap = 0, !.frame = frame]
    BY <1>2, Zenon DEF M!ReadTakes, M!ReadReturns
  <2>2. session' = session \/ session' = [session EXCEPT !.pending = <<>>]
    BY <1>2, Zenon DEF M!ReadTakes
  <2>. QED
    BY <2>1, <2>2 DEF FrameFits
<1>3. CASE M!ReadProduces
  <2>1. PICK interval, blownUp : session' = M!Produced(interval, blownUp)
    BY <1>3, Zenon DEF M!ReadProduces
  <2>. DEFINE key == session.force \/ interval
              nominal == IF session.fixed > 0 THEN session.fixed
                         ELSE M!Nominal(session.cfg.rate, session.cfg.fps)
              size == IF blownUp THEN session.cfg.ceiling + 1
                      ELSE IF key THEN nominal * KeyFactor ELSE nominal
              frame == M!Frame(key, size, session.pts, session.runs)
  <2>2. reader' = reader /\ session.state = "running"
    BY <1>3 DEF M!ReadProduces, M!MayProduce, M!Running
  <2>3. M!Nominal(session.cfg.rate, session.cfg.fps) \in Nat
    BY <2>2, NominalIsNumber DEF FrameFits, Configs
  <2>4. size \in Int
    <3>1. nominal \in Nat
      BY <2>3 DEF FrameFits
    <3>2. KeyFactor \in Nat
      BY InstanceAssumption
    <3>3. session.cfg.ceiling \in Nat
      BY DEF FrameFits, Configs
    <3>. HIDE DEF nominal
    <3>. QED
      BY <3>1, <3>2, <3>3
  <2>5. frame.size = size
    BY DEF M!Frame
  <2>6. session' = [session EXCEPT
                      !.pts = @ + Second \div session.cfg.fps, !.force = FALSE,
                      !.encoded = @ + 1, !.latest = frame,
                      !.dropped = IF size <= session.cfg.ceiling THEN @ ELSE @ + 1,
                      !.pending = IF size <= session.cfg.ceiling THEN <<frame>> ELSE <<>>]
    BY <2>1, ZenonT(60) DEF M!Produced
  <2>. HIDE DEF size, frame
  <2>7. /\ {"state", "cfg", "fixed", "pending"} \subseteq DOMAIN session'
        /\ session'.cfg = session.cfg /\ session'.fixed = session.fixed
        /\ session'.state = session.state
        /\ session'.pending = IF size <= session.cfg.ceiling THEN <<frame>> ELSE <<>>
    BY <2>6 DEF FrameFits
  <2>. QED
    BY <2>2, <2>4, <2>5, <2>7 DEF FrameFits
<1>4. CASE M!ReadFails
  BY <1>4 DEF M!ReadFails, M!ReadReturns, FrameFits
<1>5. CASE \E cap \in Buffers : M!ReadBegins(cap)
  BY <1>5 DEF M!ReadBegins, FrameFits
<1>. QED
  BY <1>1, <1>2, <1>3, <1>4, <1>5 DEF M!Reading

LEMMA EncodeSideKeepsFrames ==
  ASSUME FrameFits, M!EncodeSide PROVE FrameFits'
<1>1. CASE M!RequestKeyframe \/ M!SwitchFails
  BY <1>1 DEF M!RequestKeyframe, M!SwitchFails, M!Refuses, FrameFits
<1>2. CASE M!SwitchCamera
  BY <1>2 DEF M!SwitchCamera, M!Switched, FrameFits
<1>3. CASE \E on \in BOOLEAN : M!SetCapture(on)
  BY <1>3 DEF M!SetCapture, FrameFits
<1>. QED
  BY <1>1, <1>2, <1>3 DEF M!EncodeSide

LEMMA DecodeSideKeepsFrames ==
  ASSUME FrameFits, M!DecodeSide PROVE FrameFits'
<1>1. CASE M!GetTexture
  BY <1>1 DEF M!GetTexture, M!Refuses, FrameFits
<1>2. CASE \E unit \in M!AccessUnits : M!Submit(unit) \/ M!SubmitFails(unit)
  BY <1>2 DEF M!Submit, M!SubmitFails, M!Refuses, FrameFits
<1>3. CASE \E on \in BOOLEAN : M!MockSetTexture(on)
  BY <1>3 DEF M!MockSetTexture, FrameFits
<1>. QED
  BY <1>1, <1>2, <1>3 DEF M!DecodeSide

(* Only the frame that waits is handed out. *)
LEMMA TakenIsPending ==
  ASSUME FrameFits, backend = "mock", MockStep, HandsOut
  PROVE  reader'.frame = session.pending[1] /\ session.pending # <<>>
<1>1. reader.pc = "in" /\ reader'.pc = "out" /\ last' = Result("read", "frame")
  BY DEF HandsOut
<1>2. CASE M!ReadTakes
  BY <1>1, <1>2 DEF M!ReadTakes, M!ReadReturns, M!Returns, M!Result, Result, FrameFits
<1>3. CASE ~M!ReadTakes
  <2>1. last' # Result("read", "frame") \/ reader'.pc # "out"
    <3>1. CASE M!Lifecycle
      BY <1>1, <3>1 DEF M!Lifecycle, M!OpenFails, M!Start, M!StartFails, M!Stop, M!Close,
         M!Open, M!Refuses, M!Returns, M!Result, Result
    <3>2. CASE M!Changes
      BY <1>1, <3>2 DEF M!Changes, M!ReconfigureFails, M!Reconfigure, M!MockSetFrameBytes,
         M!Refuses, M!Returns, M!Result, Result
    <3>3. CASE M!Reading
      <4>1. CASE M!ReadProduces
        BY <1>1, <4>1 DEF M!ReadProduces
      <4>2. CASE M!ReadClosed \/ M!ReadTimesOut \/ M!ReadFails
        BY <4>2 DEF M!ReadClosed, M!ReadTimesOut, M!ReadFails, M!ReadReturns,
           M!Returns, M!Result, Result
      <4>3. CASE \E cap \in Buffers : M!ReadBegins(cap)
        BY <1>1, <4>3 DEF M!ReadBegins
      <4>. QED
        BY <1>3, <3>3, <4>1, <4>2, <4>3 DEF M!Reading
    <3>4. CASE M!EncodeSide
      BY <1>1, <3>4 DEF M!EncodeSide, M!RequestKeyframe, M!SwitchFails, M!SwitchCamera,
         M!SetCapture, M!Refuses, M!Returns, M!Result, Result
    <3>5. CASE M!DecodeSide
      BY <1>1, <3>5 DEF M!DecodeSide, M!GetTexture, M!Submit, M!SubmitFails,
         M!MockSetTexture, M!Refuses, M!Returns, M!Result, Result
    <3>. QED
      BY <3>1, <3>2, <3>3, <3>4, <3>5 DEF MockStep
  <2>. QED
    BY <1>1, <2>1
<1>. QED
  BY <1>2, <1>3

(* The mock hands out no frame above the ceiling in force when it does, not
   one made before the ceiling was lowered. *)
THEOREM FramesAreWithinCeiling == Spec => FramesFit
<1>. DEFINE Inv == backend = "mock" => FrameFits
<1>1. Init => Inv
  <2>1. Init /\ backend = "mock" => session = M!Closed /\ reader = M!NoRead
    BY Zenon DEF Init, M!Init
  <2>. QED
    BY <2>1, ClosedFrameFits DEF FrameFits
<1>2. Inv /\ [Next]_videoVars => Inv'
  <2>. SUFFICES ASSUME Inv, [Next]_videoVars, backend' = "mock"
                PROVE  FrameFits'
    OBVIOUS
  <2>1. CASE Next
    <3>1. MockStep /\ FrameFits
      BY <2>1 DEF Next, WindowsStep, LinuxStep
    <3>. QED
      BY <3>1, LifecycleKeepsFrames, ChangesKeepFrames, ReadingKeepsFrames,
         EncodeSideKeepsFrames, DecodeSideKeepsFrames
      DEF MockStep
  <2>2. CASE UNCHANGED videoVars
    BY <2>2 DEF videoVars, FrameFits
  <2>. QED
    BY <2>1, <2>2
<1>3. Inv /\ [Next]_videoVars =>
        [backend = "mock" /\ HandsOut => reader'.frame.size <= session.cfg.ceiling]_videoVars
  <2>. SUFFICES ASSUME Inv, Next, backend = "mock", HandsOut
                PROVE  reader'.frame.size <= session.cfg.ceiling
    OBVIOUS
  <2>1. MockStep /\ FrameFits
    BY DEF Next, WindowsStep, LinuxStep
  <2>. QED
    BY <2>1, TakenIsPending DEF FrameFits
<1>. QED
  BY <1>1, <1>2, <1>3, PTL DEF Spec, FramesFit

-----------------------------------------------------------------------------
(* Keyframes that are owed *)

RunsNow == IF backend = "linux" THEN session.running ELSE session.state = "running"

KeyTyped ==
    /\ {"force", "encoded", "decodeOnly", "capture", "runs", "cfg", "latest"}
         \subseteq DOMAIN session
    /\ session.force \in BOOLEAN /\ session.decodeOnly \in BOOLEAN
    /\ session.capture \in BOOLEAN
    /\ session.encoded \in Nat /\ session.runs \in Nat
    /\ backend = "linux" =>
         /\ "running" \in DOMAIN session /\ session.running \in BOOLEAN
         /\ stage # "done" => ~session.running
    /\ backend = "mock" => "state" \in DOMAIN session

(* A demand that is owed has been noted by the session, unless it does not
   run, or has no encoder at all. *)
KeyFits == KeyTyped /\ (owed => session.force \/ ~RunsNow \/ session.decodeOnly)

(* A step leaves a session that does not run, notes a demand, is one of a
   session without an encoder, goes on, fails to encode, or encodes. *)
GoesOn ==
    /\ ~Demands /\ session'.decodeOnly = session.decodeOnly
    /\ RunsNow' => RunsNow
SameFrames == session'.encoded = session.encoded

KeyStep ==
    \/ ~RunsNow' /\ session'.encoded \in {0, session.encoded}
    \/ session'.force /\ SameFrames
    \/ session'.decodeOnly /\ SameFrames
    \/ GoesOn /\ SameFrames /\ session'.force = session.force
    \/ GoesOn /\ SameFrames /\ last' = Result("read", "backend")
    \/ /\ GoesOn /\ RunsNow /\ ~session.decodeOnly
       /\ session'.encoded = session.encoded + 1
       /\ session.force => session'.latest.key

(* Such a step keeps what is owed noted, and encodes what is owed. *)
LEMMA KeyStepKeeps ==
  ASSUME KeyFits, KeyTyped', KeyStep, Sees, backend # "windows"
  PROVE  KeyFits' /\ (EncodesAFrame /\ owed => session'.latest.key)
<1>1. owed' = IF Demands THEN TRUE
              ELSE IF FailsToEncode \/ EncodesAFrame THEN FALSE ELSE owed
  BY DEF Sees
<1>2. CASE ~RunsNow' /\ session'.encoded \in {0, session.encoded}
  BY <1>2 DEF KeyFits, KeyTyped, EncodesAFrame
<1>3. CASE session'.force /\ SameFrames
  BY <1>3 DEF KeyFits, KeyTyped, EncodesAFrame, SameFrames
<1>4. CASE session'.decodeOnly /\ SameFrames
  BY <1>4 DEF KeyFits, KeyTyped, EncodesAFrame, SameFrames
<1>5. CASE GoesOn /\ SameFrames /\ session'.force = session.force
  BY <1>1, <1>5 DEF KeyFits, KeyTyped, EncodesAFrame, SameFrames, GoesOn
<1>6. CASE GoesOn /\ SameFrames /\ last' = Result("read", "backend")
  BY <1>1, <1>6 DEF KeyFits, KeyTyped, EncodesAFrame, FailsToEncode, SameFrames, GoesOn
<1>7. CASE /\ GoesOn /\ RunsNow /\ ~session.decodeOnly
           /\ session'.encoded = session.encoded + 1
           /\ session.force => session'.latest.key
  BY <1>1, <1>7 DEF KeyFits, EncodesAFrame, GoesOn
<1>. QED
  BY <1>2, <1>3, <1>4, <1>5, <1>6, <1>7 DEF KeyStep

LEMMA ClosedIsTyped ==
  /\ {"force", "encoded", "decodeOnly", "capture", "runs", "cfg", "latest", "running"}
       \subseteq DOMAIN L!Closed
  /\ {"force", "encoded", "decodeOnly", "capture", "runs", "cfg", "latest", "state"}
       \subseteq DOMAIN M!Closed
  /\ {L!Closed.force, L!Closed.decodeOnly, L!Closed.capture, L!Closed.running} = {FALSE}
  /\ {M!Closed.force, M!Closed.decodeOnly, M!Closed.capture} = {FALSE}
  /\ L!Closed.encoded = 0 /\ M!Closed.encoded = 0 /\ M!Closed.state = "none"
<1>1. /\ {"force", "encoded", "decodeOnly", "capture", "runs", "cfg", "latest", "running"}
           \subseteq DOMAIN L!Closed
      /\ {L!Closed.force, L!Closed.decodeOnly, L!Closed.capture, L!Closed.running} = {FALSE}
      /\ L!Closed.encoded = 0
  BY DEF L!Closed
<1>2. /\ {"force", "encoded", "decodeOnly", "capture", "runs", "cfg", "latest", "state"}
           \subseteq DOMAIN M!Closed
      /\ {M!Closed.force, M!Closed.decodeOnly, M!Closed.capture} = {FALSE}
      /\ M!Closed.encoded = 0 /\ M!Closed.state = "none"
  BY DEF M!Closed
<1>. QED
  BY <1>1, <1>2

(* The Linux session *)
LEMMA TakenDownKey ==
  ASSUME backend = "linux", backend' = "linux", KeyTyped, NEW call, NEW code,
         L!TakenDown(call, code)
  PROVE  KeyTyped' /\ KeyStep
<1>1. session' = [L!Closed EXCEPT !.runs = session.runs]
  BY DEF L!TakenDown
<1>2. session.runs \in Nat
  BY DEF KeyTyped
<1>. DEFINE fields == {"force", "encoded", "decodeOnly", "capture", "runs", "cfg", "latest"}
<1>3. /\ fields \subseteq DOMAIN session' /\ "running" \in DOMAIN session'
      /\ session'.runs = session.runs /\ session'.running = L!Closed.running
      /\ session'.force = L!Closed.force /\ session'.decodeOnly = L!Closed.decodeOnly
      /\ session'.capture = L!Closed.capture /\ session'.encoded = L!Closed.encoded
  BY <1>1, ClosedIsTyped
<1>4. /\ {session'.running, session'.force, session'.decodeOnly, session'.capture} = {FALSE}
      /\ session'.encoded = 0
  BY <1>3, ClosedIsTyped
<1>5. {session'.running, session'.force, session'.decodeOnly, session'.capture} \subseteq BOOLEAN
      /\ ~session'.running
  BY <1>4
<1>6. KeyTyped'
  BY <1>2, <1>3, <1>4, <1>5 DEF KeyTyped
<1>. QED
  BY <1>4, <1>5, <1>6 DEF KeyStep, RunsNow

(* Within open nothing runs. *)
LEMMA OpenKey ==
  ASSUME backend = "linux", backend' = "linux", KeyTyped, L!Open
  PROVE  KeyTyped' /\ KeyStep
<1>1. CASE L!OpenInvalid \/ L!OpenRefused
  BY <1>1 DEF L!OpenInvalid, L!OpenRefused, KeyTyped, KeyStep, RunsNow
<1>2. CASE L!OpenFails
  BY <1>2, TakenDownKey DEF L!OpenFails
<1>3. CASE L!OpenHasCamera
  BY <1>3 DEF L!OpenHasCamera, KeyTyped, KeyStep, RunsNow
<1>4. CASE L!OpenHasDisplay
  BY <1>4 DEF L!OpenHasDisplay, KeyTyped, KeyStep, RunsNow
<1>5. CASE L!OpenHasEncoder
  BY <1>5 DEF L!OpenHasEncoder, L!WithEncoder, KeyTyped, KeyStep, RunsNow
<1>6. CASE L!OpenHasDecoder
  BY <1>6 DEF L!OpenHasDecoder, L!Duplex, KeyTyped, KeyStep, RunsNow
<1>7. CASE \E decodeOnly \in BOOLEAN : L!OpenClaims(decodeOnly)
  BY <1>7 DEF L!OpenClaims, KeyTyped, KeyStep, RunsNow
<1>8. ASSUME NEW req \in Requests, L!OpenNegotiates(req) PROVE KeyTyped' /\ KeyStep
  <2>1. CASE L!TakenDown("open", "unachievable")
    BY <2>1, TakenDownKey
  <2>2. CASE ~L!TakenDown("open", "unachievable")
    <3>1. PICK cfg : /\ stage = "negotiate" /\ stage' = "display"
                     /\ session' = [session EXCEPT !.cfg = cfg]
      BY <1>8, <2>2, Zenon DEF L!OpenNegotiates
    <3>. QED
      BY <3>1 DEF KeyTyped, KeyStep, RunsNow
  <2>. QED
    BY <2>1, <2>2
<1>. QED
  BY <1>1, <1>2, <1>3, <1>4, <1>5, <1>6, <1>7, <1>8 DEF L!Open

LEMMA LifecycleKey ==
  ASSUME backend = "linux", backend' = "linux", KeyTyped, L!Lifecycle
  PROVE  KeyTyped' /\ KeyStep
<1>1. CASE L!Open
  BY <1>1, OpenKey
<1>2. CASE L!Start
  BY <1>2 DEF L!Start, L!IsOpen, KeyTyped, KeyStep, SameFrames
<1>3. CASE L!StartFails
  BY <1>3 DEF L!StartFails, L!Refuses, L!Returns, L!Result, Result, Demands,
              KeyTyped, KeyStep, RunsNow, GoesOn, SameFrames
<1>4. CASE L!Stop
  BY <1>4 DEF L!Stop, L!IsOpen, KeyTyped, KeyStep, RunsNow
<1>5. CASE L!Close
  BY <1>5, TakenDownKey DEF L!Close
<1>. QED
  BY <1>1, <1>2, <1>3, <1>4, <1>5 DEF L!Lifecycle

(* A step that leaves the session as it is and answers no demand. *)
LEMMA RefusalKey ==
  ASSUME backend \in {"linux", "mock"}, backend' = backend, KeyTyped,
         session' = session, stage' = stage,
         last' = last \/ last' \notin {Result("keyframe", "ok"), Result("switch", "ok")}
  PROVE  KeyTyped' /\ KeyStep
BY DEF KeyTyped, KeyStep, GoesOn, Demands, SameFrames, RunsNow

(* The same of a step that leaves these parts of a Linux session. *)
LEMMA QuietKey ==
  ASSUME backend = "linux", backend' = "linux", KeyTyped, stage' = stage,
         DOMAIN session' = DOMAIN session,
         \A part \in {"force", "encoded", "decodeOnly", "capture", "runs", "cfg", "running"} :
           session'[part] = session[part],
         last' = last \/ last' \notin {Result("keyframe", "ok"), Result("switch", "ok")}
  PROVE  KeyTyped' /\ KeyStep
<1>1. /\ session'.force = session.force /\ session'.encoded = session.encoded
      /\ session'.decodeOnly = session.decodeOnly /\ session'.capture = session.capture
      /\ session'.runs = session.runs /\ session'.cfg = session.cfg
      /\ session'.running = session.running
  OBVIOUS
<1>. QED
  BY <1>1 DEF KeyTyped, KeyStep, GoesOn, Demands, SameFrames, RunsNow

LEMMA ChangesKey ==
  ASSUME backend = "linux", backend' = "linux", KeyTyped, L!Changes
  PROVE  KeyTyped' /\ KeyStep
<1>1. CASE L!ReconfigureFails
  BY <1>1, RefusalKey DEF L!ReconfigureFails, L!Refuses, L!Returns, L!Result, Result
<1>2. ASSUME NEW req \in Requests, L!Reconfigure(req) PROVE KeyTyped' /\ KeyStep
  <2>1. PICK cfg :
          IF cfg.geo = session.cfg.geo THEN L!Accept(cfg, session)
          ELSE \/ L!Accept(cfg, L!WithEncoder(session))
               \/ /\ \E s \in {L!WithEncoder(session), [session EXCEPT !.encoder = FALSE]} :
                       session' = s
                  /\ L!Returns("reconfigure", "backend") /\ stage' = stage
    BY <1>2, Zenon DEF L!Reconfigure
  <2>2. CASE cfg.geo = session.cfg.geo /\ L!Accept(cfg, session)
    BY <2>2 DEF L!Accept, L!Returns, L!Result, Result, KeyTyped, KeyStep, GoesOn, Demands,
                SameFrames, RunsNow
  <2>3. CASE L!Accept(cfg, L!WithEncoder(session))
    BY <2>3 DEF L!Accept, L!WithEncoder, KeyTyped, KeyStep, SameFrames
  <2>4. CASE session' = L!WithEncoder(session) /\ stage' = stage
    BY <2>4 DEF L!WithEncoder, KeyTyped, KeyStep, SameFrames
  <2>5. CASE /\ session' = [session EXCEPT !.encoder = FALSE]
             /\ L!Returns("reconfigure", "backend") /\ stage' = stage
    BY <2>5 DEF L!Returns, L!Result, Result, KeyTyped, KeyStep, GoesOn, Demands,
                SameFrames, RunsNow
  <2>. QED
    BY <2>1, <2>2, <2>3, <2>4, <2>5
<1>. QED
  BY <1>1, <1>2 DEF L!Changes

LEMMA ReadingKey ==
  ASSUME backend = "linux", backend' = "linux", KeyTyped, L!Reading
  PROVE  KeyTyped' /\ KeyStep
<1>1. CASE L!ReadClosed \/ L!ReadTimesOut
  BY <1>1, RefusalKey DEF L!ReadClosed, L!ReadTimesOut, L!ReadReturns, L!Returns, L!Result, Result
<1>2. CASE L!ReadFails
  BY <1>2 DEF L!ReadFails, L!ReadReturns, L!Returns, L!Result, Result,
              KeyTyped, KeyStep, GoesOn, Demands, SameFrames, RunsNow
<1>3. CASE L!ReadEncodes
  <2>. DEFINE frame(interval, size) ==
                L!Frame(session.force \/ interval, size, session.pts, session.runs)
  <2>1. PICK interval \in BOOLEAN, size \in Sizes :
          session' = L!Encoded(frame(interval, size), size <= reader.cap)
    BY <1>3, Zenon DEF L!ReadEncodes
  <2>2. /\ stage' = stage
        /\ last' = last \/ last' \notin {Result("keyframe", "ok"), Result("switch", "ok")}
    BY <1>3 DEF L!ReadEncodes, L!ReadReturns, L!Returns, L!Result, Result
  <2>3. session.running /\ ~session.decodeOnly
    BY <1>3 DEF L!ReadEncodes, L!Encodes, L!Duplex
  <2>4. PICK dropped, pts :
          session' = [session EXCEPT !.force = FALSE, !.encoded = @ + 1,
            !.latest = frame(interval, size), !.dropped = dropped, !.pts = pts]
    BY <2>1, ZenonT(60) DEF L!Encoded
  <2>5. session.force => frame(interval, size).key
    BY DEF KeyTyped, L!Frame
  <2>. HIDE DEF frame
  <2>6. /\ {"force", "encoded", "decodeOnly", "capture", "runs", "cfg", "latest", "running"}
             \subseteq DOMAIN session'
        /\ session'.decodeOnly = session.decodeOnly /\ session'.capture = session.capture
        /\ session'.running = session.running /\ session'.runs = session.runs
        /\ session'.cfg = session.cfg /\ session'.encoded = session.encoded + 1
        /\ session'.latest = frame(interval, size) /\ session'.force \in BOOLEAN
    BY <2>4 DEF KeyTyped
  <2>7. KeyTyped'
    BY <2>2, <2>6 DEF KeyTyped
  <2>8. GoesOn
    BY <2>2, <2>6 DEF GoesOn, Demands, RunsNow, KeyTyped
  <2>. QED
    BY <2>3, <2>5, <2>6, <2>7, <2>8 DEF KeyStep, RunsNow
<1>4. CASE \E cap \in Buffers : L!ReadBegins(cap)
  BY <1>4, RefusalKey DEF L!ReadBegins
<1>. QED
  BY <1>1, <1>2, <1>3, <1>4 DEF L!Reading

LEMMA EncodeSideKey ==
  ASSUME backend = "linux", backend' = "linux", KeyTyped, L!EncodeSide
  PROVE  KeyTyped' /\ KeyStep
<1>1. CASE L!RequestKeyframe
  <2>1. CASE session' = [session EXCEPT !.force = TRUE] /\ stage' = stage
    BY <2>1 DEF KeyTyped, KeyStep, SameFrames
  <2>2. CASE ~(session' = [session EXCEPT !.force = TRUE] /\ stage' = stage)
    BY <1>1, <2>2, RefusalKey DEF L!RequestKeyframe, L!Refuses, L!Returns, L!Result, Result
  <2>. QED
    BY <2>1, <2>2
<1>2. CASE L!SwitchFails
  BY <1>2, RefusalKey DEF L!SwitchFails, L!Refuses, L!Returns, L!Result, Result
<1>3. ASSUME NEW on \in BOOLEAN, L!SetCapture(on) PROVE KeyTyped' /\ KeyStep
  <2>1. /\ stage' = stage
        /\ last' \notin {Result("keyframe", "ok"), Result("switch", "ok")}
    BY <1>3 DEF L!SetCapture, L!Returns, L!Result, Result
  <2>2. CASE session.decodeOnly
    BY <1>3, <2>1, <2>2, RefusalKey DEF L!SetCapture
  <2>3. CASE ~session.decodeOnly
    <3>1. session' = [session EXCEPT !.capture = on,
                        !.force = session.force \/ (on /\ ~session.capture)]
      BY <1>3, <2>3 DEF L!SetCapture
    <3>. QED
      BY <2>1, <3>1 DEF KeyTyped, KeyStep, GoesOn, Demands, SameFrames, RunsNow
  <2>. QED
    BY <2>2, <2>3
<1>4. CASE \E camera \in Cameras : L!SwitchCamera(camera)
  BY <1>4 DEF L!SwitchCamera, L!Switched, KeyTyped, KeyStep, SameFrames
<1>. QED
  BY <1>1, <1>2, <1>3, <1>4 DEF L!EncodeSide

LEMMA DecodeSideKey ==
  ASSUME backend = "linux", backend' = "linux", KeyTyped, L!DecodeSide
  PROVE  KeyTyped' /\ KeyStep
<1>1. CASE L!GetTexture \/ L!SubmitFails
  BY <1>1, RefusalKey DEF L!GetTexture, L!SubmitFails, L!Refuses, L!Returns, L!Result, Result
<1>2. ASSUME NEW unit \in L!AccessUnits, L!Submit(unit) PROVE KeyTyped' /\ KeyStep
  <2>1. /\ stage' = stage
        /\ last'.code \in {"accepted", "decode", "awaiting"}
    BY <1>2 DEF L!Submit, L!Answers, L!Returns, L!Result
  <2>2. last' \notin {Result("keyframe", "ok"), Result("switch", "ok")}
    BY <2>1 DEF Result
  <2>3. PICK params : \/ session' = [session EXCEPT !.params = params]
                      \/ session' = [[session EXCEPT !.params = params]
                                        EXCEPT !.awaiting = FALSE]
    BY <1>2, Zenon DEF L!Submit, L!Answers
  <2>4. /\ DOMAIN session' = DOMAIN session
        /\ \A part \in {"force", "encoded", "decodeOnly", "capture", "runs", "cfg", "running"} :
             session'[part] = session[part]
    BY <2>3 DEF KeyTyped
  <2>. QED
    BY <2>1, <2>2, <2>4, QuietKey
<1>. QED
  BY <1>1, <1>2 DEF L!DecodeSide

(* The session of the mock *)
LEMMA MockQuietKey ==
  ASSUME backend = "mock", backend' = "mock", KeyTyped,
         DOMAIN session' = DOMAIN session,
         \A part \in {"force", "encoded", "decodeOnly", "capture", "runs", "cfg", "state"} :
           session'[part] = session[part],
         last' = last \/ last' \notin {Result("keyframe", "ok"), Result("switch", "ok")}
  PROVE  KeyTyped' /\ KeyStep
<1>1. /\ session'.force = session.force /\ session'.encoded = session.encoded
      /\ session'.decodeOnly = session.decodeOnly /\ session'.capture = session.capture
      /\ session'.runs = session.runs /\ session'.cfg = session.cfg
      /\ session'.state = session.state
  OBVIOUS
<1>. QED
  BY <1>1 DEF KeyTyped, KeyStep, GoesOn, Demands, SameFrames, RunsNow

LEMMA MockClosedKey ==
  ASSUME backend = "mock", backend' = "mock", KeyTyped,
         DOMAIN session' = DOMAIN M!Closed,
         session'.runs = session.runs, session'.encoded = 0, session'.force = FALSE,
         session'.decodeOnly \in BOOLEAN, session'.capture \in BOOLEAN,
         session'.state # "running"
  PROVE  KeyTyped' /\ KeyStep
<1>1. session'.force \in BOOLEAN
  BY Zenon
<1>. QED
  BY <1>1, ClosedIsTyped DEF KeyTyped, KeyStep, RunsNow

LEMMA MockLifecycleKey ==
  ASSUME backend = "mock", backend' = "mock", KeyTyped, M!Lifecycle
  PROVE  KeyTyped' /\ KeyStep
<1>1. CASE M!OpenFails \/ M!StartFails
  BY <1>1, MockQuietKey DEF M!OpenFails, M!StartFails, M!Refuses, M!Returns, M!Result, Result
<1>2. CASE M!Start
  BY <1>2 DEF M!Start, KeyTyped, KeyStep, SameFrames
<1>3. CASE M!Stop
  BY <1>3 DEF M!Stop, M!Stopped, KeyTyped, KeyStep, RunsNow
<1>4. CASE M!Close
  <2>1. session' = [M!Closed EXCEPT !.runs = session.runs]
    BY <1>4 DEF M!Close
  <2>2. /\ DOMAIN session' = DOMAIN M!Closed /\ session'.runs = session.runs
        /\ session'.encoded = M!Closed.encoded /\ session'.force = M!Closed.force
        /\ session'.decodeOnly = M!Closed.decodeOnly
        /\ session'.capture = M!Closed.capture /\ session'.state = M!Closed.state
    BY <2>1, ClosedIsTyped
  <2>. QED
    BY <2>2, ClosedIsTyped, MockClosedKey
<1>5. ASSUME NEW req \in Requests, NEW decodeOnly \in BOOLEAN, M!Open(req, decodeOnly)
      PROVE  KeyTyped' /\ KeyStep
  <2>1. PICK cfg :
          session' = [M!Closed EXCEPT
           !.state = "open", !.runs = session.runs, !.decodeOnly = decodeOnly,
           !.cfg = cfg, !.capture = ~decodeOnly]
    BY <1>5, Zenon DEF M!Open
  <2>2. /\ DOMAIN session' = DOMAIN M!Closed /\ session'.runs = session.runs
        /\ session'.encoded = M!Closed.encoded /\ session'.force = M!Closed.force
        /\ session'.decodeOnly \in BOOLEAN
        /\ session'.capture \in BOOLEAN /\ session'.state = "open"
    BY <2>1, ClosedIsTyped
  <2>. QED
    BY <2>2, ClosedIsTyped, MockClosedKey
<1>. QED
  BY <1>1, <1>2, <1>3, <1>4, <1>5 DEF M!Lifecycle

(* A new geometry is a demand, and a frame that is purged spends none. *)
LEMMA MockChangesKey ==
  ASSUME backend = "mock", backend' = "mock", KeyTyped, M!Changes
  PROVE  KeyTyped' /\ KeyStep
<1>1. CASE M!ReconfigureFails
  BY <1>1, MockQuietKey DEF M!ReconfigureFails, M!Refuses, M!Returns, M!Result, Result
<1>2. ASSUME NEW req \in Requests, M!Reconfigure(req) PROVE KeyTyped' /\ KeyStep
  <2>. DEFINE s(cfg) == [session EXCEPT
                !.cfg = cfg, !.force = session.force \/ cfg.geo # session.cfg.geo]
  <2>1. PICK cfg : session' = M!Purged(s(cfg))
    BY <1>2, Zenon DEF M!Reconfigure
  <2>2. last' \notin {Result("keyframe", "ok"), Result("switch", "ok")}
    BY <1>2 DEF M!Reconfigure, M!Returns, M!Result, Result
  <2>3. /\ {"force", "encoded", "decodeOnly", "capture", "runs", "cfg", "latest", "state"}
             \subseteq DOMAIN s(cfg)
        /\ s(cfg).encoded = session.encoded /\ s(cfg).decodeOnly = session.decodeOnly
        /\ s(cfg).capture = session.capture /\ s(cfg).runs = session.runs
        /\ s(cfg).state = session.state /\ s(cfg).cfg = cfg
        /\ s(cfg).force = (session.force \/ cfg.geo # session.cfg.geo)
    BY DEF KeyTyped
  <2>4. session' = s(cfg) \/ session' = [s(cfg) EXCEPT !.pending = <<>>, !.dropped = @ + 1]
    BY <2>1, Zenon DEF M!Purged
  <2>. HIDE DEF s
  <2>5. /\ {"force", "encoded", "decodeOnly", "capture", "runs", "cfg", "latest", "state"}
             \subseteq DOMAIN session'
        /\ session'.encoded = session.encoded /\ session'.decodeOnly = session.decodeOnly
        /\ session'.capture = session.capture /\ session'.runs = session.runs
        /\ session'.state = session.state /\ session'.cfg = cfg
        /\ session'.force = s(cfg).force
    BY <2>3, <2>4
  <2>6. session'.force \in BOOLEAN
        /\ (session'.force <=> session.force \/ cfg.geo # session.cfg.geo)
    BY <2>3, <2>5
  <2>7. KeyTyped'
    BY <2>5, <2>6 DEF KeyTyped
  <2>8. CASE session'.force
    BY <2>5, <2>7, <2>8 DEF KeyStep, SameFrames
  <2>9. CASE ~session'.force
    <3>1. session'.force = session.force
      BY <2>6, <2>9 DEF KeyTyped
    <3>2. GoesOn
      BY <2>2, <2>5, <2>6, <2>9 DEF KeyTyped, GoesOn, Demands, RunsNow
    <3>. QED
      BY <2>5, <2>7, <3>1, <3>2 DEF KeyStep, SameFrames
  <2>. QED
    BY <2>8, <2>9
<1>3. ASSUME NEW size \in {0, 2}, M!MockSetFrameBytes(size) PROVE KeyTyped' /\ KeyStep
  <2>1. last' = last /\ session' = [session EXCEPT !.fixed = size]
    BY <1>3 DEF M!MockSetFrameBytes
  <2>2. /\ DOMAIN session' = DOMAIN session
        /\ \A part \in {"force", "encoded", "decodeOnly", "capture", "runs", "cfg", "state"} :
             session'[part] = session[part]
    BY <2>1 DEF KeyTyped
  <2>. QED
    BY <2>1, <2>2, MockQuietKey
<1>. QED
  BY <1>1, <1>2, <1>3 DEF M!Changes

LEMMA MockReadingKey ==
  ASSUME backend = "mock", backend' = "mock", KeyTyped, M!Reading
  PROVE  KeyTyped' /\ KeyStep
<1>1. CASE M!ReadClosed \/ M!ReadTimesOut
  BY <1>1, MockQuietKey DEF M!ReadClosed, M!ReadTimesOut, M!ReadReturns, M!Returns, M!Result, Result
<1>2. CASE \E cap \in Buffers : M!ReadBegins(cap)
  BY <1>2, MockQuietKey DEF M!ReadBegins
<1>3. CASE M!ReadTakes
  <2>1. last' \notin {Result("keyframe", "ok"), Result("switch", "ok")}
    BY <1>3 DEF M!ReadTakes, M!ReadReturns, M!Returns, M!Result, Result
  <2>2. session' = session \/ session' = [session EXCEPT !.pending = <<>>]
    BY <1>3 DEF M!ReadTakes
  <2>3. /\ DOMAIN session' = DOMAIN session
        /\ \A part \in {"force", "encoded", "decodeOnly", "capture", "runs", "cfg", "state"} :
             session'[part] = session[part]
    BY <2>2 DEF KeyTyped
  <2>. QED
    BY <2>1, <2>3, MockQuietKey
<1>4. CASE M!ReadProduces
  <2>1. last' = last /\ session.state = "running" /\ ~session.decodeOnly
    BY <1>4 DEF M!ReadProduces, M!MayProduce, M!Running, M!Duplex
  <2>2. PICK interval \in BOOLEAN, blownUp \in {FALSE, session.encoded > 0} :
          session' = M!Produced(interval, blownUp)
    BY <1>4, Zenon DEF M!ReadProduces
  <2>. DEFINE frame(size) ==
                M!Frame(session.force \/ interval, size, session.pts, session.runs)
  <2>3. PICK pts, dropped, pending, size :
          session' = [session EXCEPT
            !.pts = pts, !.force = FALSE, !.encoded = @ + 1, !.latest = frame(size),
            !.dropped = dropped, !.pending = pending]
    BY <2>2, ZenonT(60) DEF M!Produced
  <2>4. session.force => frame(size).key
    BY DEF KeyTyped, M!Frame
  <2>. HIDE DEF frame
  <2>5. /\ {"force", "encoded", "decodeOnly", "capture", "runs", "cfg", "latest", "state"}
             \subseteq DOMAIN session'
        /\ session'.decodeOnly = session.decodeOnly /\ session'.capture = session.capture
        /\ session'.state = session.state /\ session'.runs = session.runs
        /\ session'.cfg = session.cfg /\ session'.encoded = session.encoded + 1
        /\ session'.latest = frame(size) /\ session'.force \in BOOLEAN
    BY <2>3 DEF KeyTyped
  <2>6. KeyTyped'
    BY <2>5 DEF KeyTyped
  <2>7. GoesOn
    BY <2>1, <2>5 DEF GoesOn, Demands, RunsNow, KeyTyped
  <2>. QED
    BY <2>1, <2>4, <2>5, <2>6, <2>7 DEF KeyStep, RunsNow
<1>5. CASE M!ReadFails
  <2>1. last' = Result("read", "backend")
    BY <1>5 DEF M!ReadFails, M!ReadReturns, M!Returns, M!Result, Result
  <2>2. session' = [session EXCEPT !.pts = @ + Second \div session.cfg.fps, !.force = FALSE]
    BY <1>5 DEF M!ReadFails
  <2>3. /\ {"force", "encoded", "decodeOnly", "capture", "runs", "cfg", "latest", "state"}
             \subseteq DOMAIN session'
        /\ session'.decodeOnly = session.decodeOnly /\ session'.capture = session.capture
        /\ session'.state = session.state /\ session'.runs = session.runs
        /\ session'.cfg = session.cfg /\ session'.encoded = session.encoded
        /\ session'.force \in BOOLEAN
    BY <2>2 DEF KeyTyped
  <2>4. KeyTyped'
    BY <2>3 DEF KeyTyped
  <2>5. GoesOn
    BY <2>1, <2>3 DEF GoesOn, Demands, RunsNow, KeyTyped, Result
  <2>. QED
    BY <2>1, <2>3, <2>4, <2>5 DEF KeyStep, SameFrames
<1>. QED
  BY <1>1, <1>2, <1>3, <1>4, <1>5 DEF M!Reading

LEMMA MockEncodeSideKey ==
  ASSUME backend = "mock", backend' = "mock", KeyTyped, M!EncodeSide
  PROVE  KeyTyped' /\ KeyStep
<1>1. CASE M!RequestKeyframe
  <2>1. CASE session' = [session EXCEPT !.force = TRUE]
    BY <2>1 DEF KeyTyped, KeyStep, SameFrames
  <2>2. CASE session' # [session EXCEPT !.force = TRUE]
    BY <1>1, <2>2, MockQuietKey DEF M!RequestKeyframe, M!Refuses, M!Returns, M!Result, Result
  <2>. QED
    BY <2>1, <2>2
<1>2. CASE M!SwitchCamera
  BY <1>2 DEF M!SwitchCamera, M!Switched, KeyTyped, KeyStep, SameFrames
<1>3. CASE M!SwitchFails
  BY <1>3, MockQuietKey DEF M!SwitchFails, M!Refuses, M!Returns, M!Result, Result
<1>4. ASSUME NEW on \in BOOLEAN, M!SetCapture(on) PROVE KeyTyped' /\ KeyStep
  <2>1. last' \notin {Result("keyframe", "ok"), Result("switch", "ok")}
    BY <1>4 DEF M!SetCapture, M!Returns, M!Result, Result
  <2>2. CASE session.decodeOnly
    BY <1>4, <2>1, <2>2, MockQuietKey DEF M!SetCapture
  <2>3. CASE ~session.decodeOnly
    <3>1. PICK pending :
            session' = [session EXCEPT !.capture = on,
              !.force = session.force \/ (on /\ ~session.capture), !.pending = pending]
      BY <1>4, <2>3, Zenon DEF M!SetCapture
    <3>. QED
      BY <2>1, <3>1 DEF KeyTyped, KeyStep, GoesOn, Demands, SameFrames, RunsNow
  <2>. QED
    BY <2>2, <2>3
<1>. QED
  BY <1>1, <1>2, <1>3, <1>4 DEF M!EncodeSide

LEMMA MockDecodeSideKey ==
  ASSUME backend = "mock", backend' = "mock", KeyTyped, M!DecodeSide
  PROVE  KeyTyped' /\ KeyStep
<1>1. CASE M!GetTexture
  BY <1>1, MockQuietKey DEF M!GetTexture, M!Refuses, M!Returns, M!Result, Result
<1>2. ASSUME NEW unit \in M!AccessUnits, M!Submit(unit) \/ M!SubmitFails(unit)
      PROVE  KeyTyped' /\ KeyStep
  <2>1. last'.code \in {"accepted", "decode", "awaiting", "state"}
    BY <1>2 DEF M!Submit, M!SubmitFails, M!Refuses, M!Returns, M!Result
  <2>2. last' \notin {Result("keyframe", "ok"), Result("switch", "ok")}
    BY <2>1 DEF Result
  <2>3. session' = session \/ session' = [session EXCEPT !.awaiting = FALSE]
    BY <1>2 DEF M!Submit, M!SubmitFails, M!Refuses
  <2>4. /\ DOMAIN session' = DOMAIN session
        /\ \A part \in {"force", "encoded", "decodeOnly", "capture", "runs", "cfg", "state"} :
             session'[part] = session[part]
    BY <2>3 DEF KeyTyped
  <2>. QED
    BY <2>2, <2>4, MockQuietKey
<1>3. ASSUME NEW on \in BOOLEAN, M!MockSetTexture(on) PROVE KeyTyped' /\ KeyStep
  <2>1. last' = last /\ session' = [session EXCEPT !.texture = on]
    BY <1>3 DEF M!MockSetTexture
  <2>2. /\ DOMAIN session' = DOMAIN session
        /\ \A part \in {"force", "encoded", "decodeOnly", "capture", "runs", "cfg", "state"} :
             session'[part] = session[part]
    BY <2>1 DEF KeyTyped
  <2>. QED
    BY <2>1, <2>2, MockQuietKey
<1>. QED
  BY <1>1, <1>2, <1>3 DEF M!DecodeSide

(* The next frame encoded after a demand is a keyframe: a session that runs
   and sends notes each demand in the step that makes it, and only the frame
   that is the keyframe takes the note away, or the read that fails. *)
THEOREM OwedKeyframesCome == Spec => NextFrameIsKey
<1>. DEFINE Inv == backend # "windows" => KeyFits
<1>1. Init => Inv
  <2>. SUFFICES ASSUME Init, backend # "windows"
                PROVE  KeyTyped /\ owed = FALSE
    BY DEF KeyFits
  <2>1. owed = FALSE
    BY DEF Init
  <2>2. CASE backend = "linux"
    <3>1. session = L!Closed
      BY <2>2, Zenon DEF Init, L!Init
    <3>. QED
      BY <2>1, <2>2, <3>1, ClosedIsTyped DEF KeyTyped, L!Closed
  <2>3. CASE backend = "mock"
    <3>1. session = M!Closed
      BY <2>3, Zenon DEF Init, M!Init
    <3>. QED
      BY <2>1, <2>3, <3>1, ClosedIsTyped DEF KeyTyped, M!Closed
  <2>. QED
    BY <2>2, <2>3 DEF Init, L!Init, M!Init
<1>2. ASSUME Inv, Next, backend # "windows"
      PROVE  KeyFits' /\ (EncodesAFrame /\ owed => session'.latest.key)
  <2>1. KeyFits /\ KeyTyped /\ Sees /\ backend' = backend
    BY <1>2 DEF Next, KeyFits
  <2>2. CASE LinuxStep
    <3>1. backend = "linux" /\ backend' = "linux"
      BY <2>1, <2>2 DEF LinuxStep
    <3>2. CASE \/ L!Lifecycle \/ L!Reading \/ L!EncodeSide \/ L!Changes \/ L!DecodeSide
      BY <2>1, <3>1, <3>2, LifecycleKey, ReadingKey, EncodeSideKey, ChangesKey,
         DecodeSideKey, KeyStepKeeps
    <3>3. CASE UNCHANGED <<stage, session, reader, last>>
      BY <2>1, <3>1, <3>3, RefusalKey, KeyStepKeeps
    <3>. QED
      BY <2>2, <3>2, <3>3 DEF LinuxStep
  <2>3. CASE MockStep
    <3>1. backend = "mock" /\ backend' = "mock"
      BY <2>1, <2>3 DEF MockStep
    <3>2. CASE \/ M!Lifecycle \/ M!Reading \/ M!EncodeSide \/ M!Changes \/ M!DecodeSide
      BY <2>1, <3>1, <3>2, MockLifecycleKey, MockReadingKey, MockEncodeSideKey,
         MockChangesKey, MockDecodeSideKey, KeyStepKeeps
    <3>. QED
      BY <2>3, <3>2 DEF MockStep
  <2>. QED
    BY <1>2, <2>2, <2>3 DEF Next, WindowsStep
<1>3. Inv /\ [Next]_videoVars => Inv'
  <2>1. CASE UNCHANGED videoVars
    BY <2>1 DEF videoVars, KeyFits, KeyTyped, RunsNow
  <2>2. ASSUME Inv, Next, backend' # "windows" PROVE KeyFits'
    BY <1>2, <2>2 DEF Next
  <2>. QED
    BY <2>1, <2>2
<1>4. Inv /\ [Next]_videoVars =>
        [(backend # "windows" /\ EncodesAFrame /\ owed) => session'.latest.key]_videoVars
  BY <1>2
<1>. QED
  BY <1>1, <1>3, <1>4, PTL DEF Spec, NextFrameIsKey

-----------------------------------------------------------------------------
(* cleona_video.h *)

(* A step of the header's, one of the two that are named, or none. *)
ABIStep ==
    \/ ABI!Next \/ ReadAnswersBackend \/ SubmitOutlives
    \/ UNCHANGED <<State, DecodesOnly, Waits, Submitting, Outlived, reader.pc, last>>

SameView == UNCHANGED <<State, DecodesOnly, Waits, Submitting, Outlived, reader.pc>>

(* The answers that change nothing a caller knows of the session. *)
Answerable(call, code) ==
    LET runs == State \in {"starting", "running"}
        idle == State \in {"open", "running"} IN
    \/ call = "open" /\ State = "none" /\ code \in {"invalid", "unsupported", "backend", "unachievable"}
    \/ call = "reconfigure" /\ idle /\ code \in {"ok", "invalid", "unachievable", "backend"}
    \/ call = "start" /\ ((State = "open" /\ code = "backend") \/ (State = "running" /\ code = "state"))
    \/ call = "stop" /\ State = "open" /\ code = "ok"
    \/ call = "texture" /\ State # "none" /\ (IF runs THEN code \in {"ok", "unsupported"} ELSE code = "state")
    \/ call = "capture" /\ idle /\ code \in {"on", "off"}
    \/ call = "keyframe" /\ idle
         /\ code = IF ~runs THEN "state" ELSE IF DecodesOnly THEN "unsupported" ELSE "ok"
    \/ call = "switch" /\ idle
         /\ IF ~runs THEN code = "state" ELSE IF DecodesOnly THEN code = "unsupported"
            ELSE code \in {"ok", "unsupported", "backend"}

LEMMA ViewIsBoolean == DecodesOnly \in BOOLEAN /\ Waits \in BOOLEAN
                    /\ DecodesOnly' \in BOOLEAN /\ Waits' \in BOOLEAN
                    /\ Outlived \in BOOLEAN /\ Outlived' \in BOOLEAN
<1>1. (Opened /\ session.decodeOnly) \in BOOLEAN /\ (~Opened \/ session.awaiting) \in BOOLEAN
  BY Zenon
<1>2. (Opened' /\ session'.decodeOnly) \in BOOLEAN /\ (~Opened' \/ session'.awaiting) \in BOOLEAN
  BY Zenon
<1>3. (writer.pc # "out" /\ (writer.run # session.runs \/ ~W!Running)) \in BOOLEAN
  BY Zenon
<1>4. (writer'.pc # "out" /\ (writer'.run # session'.runs \/ ~(W!Running)')) \in BOOLEAN
  BY Zenon
<1>. QED
  BY <1>1, <1>2, <1>3, <1>4, Zenon DEF DecodesOnly, Waits, Outlived

LEMMA AnswersKeep ==
  ASSUME SameView, NEW call, NEW code, last' = Result(call, code), Answerable(call, code)
  PROVE  ABIStep
<1>1. last' = ABI!Result(call, code)
  BY DEF ABI!Result, Result
<1>2. /\ State' = State /\ DecodesOnly' = DecodesOnly /\ Waits' = Waits
      /\ Submitting' = Submitting /\ Outlived' = Outlived /\ reader'.pc = reader.pc
  BY DEF SameView
<1>3. CASE call = "open"
  <2>1. ABI!OpenRefused
    BY <1>1, <1>2, <1>3 DEF ABI!OpenRefused, ABI!Returns, ABI!OnlyAnswers, Answerable
  <2>. QED
    BY <2>1 DEF ABIStep, ABI!Next
<1>4. CASE call = "reconfigure"
  <2>2. ABI!Reconfigures
    BY <1>1, <1>2, <1>4 DEF ABI!Reconfigures, ABI!Returns, ABI!Idle, Answerable
  <2>. QED
    BY <2>2 DEF ABIStep, ABI!Next
<1>5. CASE call = "start"
  <2>1. ABI!StartRefused
    BY <1>1, <1>2, <1>5 DEF ABI!StartRefused, ABI!Returns, Answerable
  <2>. QED
    BY <2>1 DEF ABIStep, ABI!Next
<1>6. CASE call = "stop"
  <2>1. ABI!Stops
    BY <1>1, <1>2, <1>6 DEF ABI!Stops, ABI!Returns, ABI!Idle, ABI!LeavesBehind, Answerable
  <2>. QED
    BY <2>1 DEF ABIStep, ABI!Next
<1>7. CASE call = "texture"
  <2>1. ABI!GetTexture
    BY <1>1, <1>2, <1>7 DEF ABI!GetTexture, ABI!Returns, ABI!Running, ABI!OnlyAnswers, Answerable
  <2>. QED
    BY <2>1 DEF ABIStep, ABI!Next
<1>8. CASE call = "capture"
  <2>1. ABI!SetCapture
    BY <1>1, <1>2, <1>8 DEF ABI!SetCapture, ABI!Returns, ABI!Idle, ABI!OnlyAnswers, Answerable
  <2>. QED
    BY <2>1 DEF ABIStep, ABI!Next
<1>9. CASE call = "keyframe"
  <2>1. ABI!EncodeCall("keyframe", {"ok"})
    BY <1>1, <1>2, <1>9
    DEF ABI!EncodeCall, ABI!Returns, ABI!Idle, ABI!Running, ABI!OnlyAnswers, Answerable
  <2>. QED
    BY <2>1 DEF ABIStep, ABI!Next
<1>10. CASE call = "switch"
  <2>1. ABI!EncodeCall("switch", {"ok", "unsupported", "backend"})
    BY <1>1, <1>2, <1>10
    DEF ABI!EncodeCall, ABI!Returns, ABI!Idle, ABI!Running, ABI!OnlyAnswers, Answerable
  <2>. QED
    BY <2>1 DEF ABIStep, ABI!Next
<1>. QED
  BY <1>3, <1>4, <1>5, <1>6, <1>7, <1>8, <1>9, <1>10 DEF Answerable

(* A session comes, runs, stops running, and goes. *)
LEMMA OpensKeep ==
  ASSUME State = "none", State' = "open", Waits', Submitting' = Submitting,
         Outlived' = Outlived, reader'.pc = reader.pc, last' = Result("open", "ok")
  PROVE  ABIStep
<1>1. last' = ABI!Result("open", "ok")
  BY DEF ABI!Result, Result
<1>2. ABI!Opens
  BY <1>1, ViewIsBoolean DEF ABI!Opens, ABI!Returns
<1>. QED
  BY <1>2 DEF ABIStep, ABI!Next

LEMMA StartsKeep ==
  ASSUME State \in {"open", "starting"}, State' = "running", DecodesOnly' = DecodesOnly,
         State = "open" => Waits', State = "starting" => Waits' = Waits,
         Submitting' = Submitting, Outlived' = Outlived, reader'.pc = reader.pc, last' = Result("start", "ok")
  PROVE  ABIStep
<1>1. last' = ABI!Result("start", "ok")
  BY DEF ABI!Result, Result
<1>2. ABI!Starts
  BY <1>1, ViewIsBoolean DEF ABI!Starts, ABI!Returns
<1>. QED
  BY <1>2 DEF ABIStep, ABI!Next

LEMMA StopsKeep ==
  ASSUME State \in {"open", "running", "stopping"}, State' = "open", DecodesOnly' = DecodesOnly,
         Waits', Submitting' = Submitting, Outlived' = Outlived, State = "running" => Submitting = "out",
         reader'.pc = reader.pc, last' = Result("stop", "ok")
  PROVE  ABIStep
<1>1. last' = ABI!Result("stop", "ok")
  BY DEF ABI!Result, Result
<1>2. ABI!Stops
  BY <1>1, ViewIsBoolean DEF ABI!Stops, ABI!Returns, ABI!Idle, ABI!LeavesBehind
<1>. QED
  BY <1>2 DEF ABIStep, ABI!Next

LEMMA ClosesKeep ==
  ASSUME State \in {"open", "running"}, State' = "none", ~DecodesOnly', Waits',
         reader.pc = "out", reader'.pc = "out", Submitting = "out", Submitting' = "out",
         Outlived' = Outlived,
         last' = Result("close", "ok")
  PROVE  ABIStep
<1>1. last' = ABI!Result("close", "ok")
  BY DEF ABI!Result, Result
<1>2. ABI!Closes
  BY <1>1 DEF ABI!Closes, ABI!Returns, ABI!Idle
<1>. QED
  BY <1>2 DEF ABIStep, ABI!Next

(* Reading *)
LEMMA ReadBeginsKeep ==
  ASSUME State # "none", reader.pc = "out", reader'.pc = "in", last' = last,
         UNCHANGED <<State, DecodesOnly, Waits, Submitting, Outlived>>
  PROVE  ABIStep
BY DEF ABIStep, ABI!Next, ABI!ReadBegins

LEMMA ReadReturnsKeep ==
  ASSUME reader.pc = "in", reader'.pc = "out", NEW code, last' = Result("read", code),
         UNCHANGED <<State, DecodesOnly, Waits, Submitting, Outlived>>,
         IF State \notin {"starting", "running"} THEN code = "closed"
         ELSE IF DecodesOnly THEN code = "timeout"
         ELSE code \in {"frame", "timeout", "too_small"}
  PROVE  ABIStep
<1>1. last' = ABI!Result("read", code)
  BY DEF ABI!Result, Result
<1>2. ABI!ReadReturns
  BY <1>1 DEF ABI!ReadReturns, ABI!Returns, ABI!Running
<1>. QED
  BY <1>2 DEF ABIStep, ABI!Next

(* The first of the two steps that the header does not have. *)
LEMMA ReadFailsKeep ==
  ASSUME backend # "windows", State = "running", ~DecodesOnly,
         reader.pc = "in", reader'.pc = "out", last' = Result("read", "backend"),
         UNCHANGED <<State, DecodesOnly, Waits, Submitting, Outlived>>
  PROVE  ABIStep
BY DEF ABIStep, ReadAnswersBackend

(* Submitting: a picture that is answered at once. *)
Pictures == {"none", "idr", "delta"}

LEMMA SubmitKeeps ==
  ASSUME UNCHANGED <<State, DecodesOnly, Submitting, Outlived, reader.pc>>, Submitting = "out",
         NEW picture \in Pictures, NEW code, last' = Result(SubmitCall[picture], code),
         State # "none",
         LET runs == State \in {"starting", "running"} IN
         \/ ~runs /\ code = "state" /\ Waits' = Waits
         \/ runs /\ code = "decode" /\ Waits' = Waits
         \/ runs /\ Waits /\ picture # "idr" /\ code = "awaiting" /\ Waits' = Waits
         \/ runs /\ picture = "none" /\ code = "accepted" /\ Waits' = Waits
         \/ runs /\ (Waits => picture = "idr") /\ code = "accepted" /\ ~Waits'
  PROVE  ABIStep
<1>1. last' = ABI!Result(ABI!Call(picture), code)
  BY DEF ABI!Result, Result, ABI!Call, ABI!SubmitCall, SubmitCall
<1>2. ABI!SubmitAnswered(picture)
  BY <1>1, Zenon DEF ABI!SubmitAnswered, ABI!Returns, ABI!Running, ABI!Admits
<1>. QED
  BY <1>2 DEF ABIStep, ABI!Next, Pictures

(* A session of Linux or of the mock that does not run waits for a keyframe;
   Windows' waits for one when it starts. *)
IdleWaits == backend # "windows" /\ State = "open" => Waits

LEMMA IdleGoesOnWaiting ==
  ASSUME ABIStep, IdleWaits, backend' = backend, State # "starting", Submitting = "out"
  PROVE  IdleWaits'
<1>. SUFFICES ASSUME backend # "windows", State' = "open" PROVE Waits'
  BY DEF IdleWaits
<1>1. CASE ABI!Opens
  BY <1>1 DEF ABI!Opens
<1>2. CASE ABI!Reconfigures
  BY <1>2 DEF ABI!Reconfigures, IdleWaits
<1>3. CASE ABI!StartRefused
  BY <1>3 DEF ABI!StartRefused, IdleWaits
<1>4. CASE ABI!Stops
  BY <1>4 DEF ABI!Stops, IdleWaits
<1>5. CASE \E unit \in {"none", "idr", "delta"} : ABI!SubmitAnswered(unit)
  BY <1>5 DEF ABI!SubmitAnswered, ABI!Running, ABI!Admits, IdleWaits
<1>6. CASE \E unit \in {"none", "idr", "delta"} : ABI!SubmitBegins(unit)
  BY <1>6 DEF ABI!SubmitBegins, IdleWaits
<1>7. CASE \/ ABI!OpenRefused \/ ABI!SetCapture \/ ABI!GetTexture
           \/ ABI!EncodeCall("keyframe", {"ok"})
           \/ ABI!EncodeCall("switch", {"ok", "unsupported", "backend"})
  BY <1>7, Zenon DEF ABI!OpenRefused, ABI!SetCapture, ABI!GetTexture, ABI!EncodeCall,
     ABI!OnlyAnswers, IdleWaits
<1>8. CASE ABI!ReadBegins \/ ABI!ReadReturns
  BY <1>8 DEF ABI!ReadBegins, ABI!ReadReturns, IdleWaits
<1>9. CASE ABI!StartBegins \/ ABI!Starts \/ ABI!StopBegins \/ ABI!Closes \/ ABI!SubmitEnds
  BY <1>9 DEF ABI!StartBegins, ABI!Starts, ABI!StopBegins, ABI!Closes, ABI!SubmitEnds
<1>10. CASE \/ ReadAnswersBackend \/ SubmitOutlives
            \/ UNCHANGED <<State, DecodesOnly, Waits, Submitting, Outlived, reader.pc, last>>
  BY <1>10 DEF ReadAnswersBackend, SubmitOutlives, IdleWaits
<1>. QED
  BY <1>1, <1>2, <1>3, <1>4, <1>5, <1>6, <1>7, <1>8, <1>9, <1>10 DEF ABIStep, ABI!Next

-----------------------------------------------------------------------------
(* The mock keeps the header *)

LEMMA MockView ==
  ASSUME backend = "mock", backend' = "mock", writer.pc = "out", writer' = writer
  PROVE  /\ State = session.state /\ State' = session'.state
         /\ DecodesOnly <=> session.state # "none" /\ session.decodeOnly
         /\ DecodesOnly' <=> session'.state # "none" /\ session'.decodeOnly
         /\ Waits <=> session.state = "none" \/ session.awaiting
         /\ Waits' <=> session'.state = "none" \/ session'.awaiting
         /\ Submitting = "out" /\ Submitting' = "out" /\ ~Outlived /\ ~Outlived'
BY DEF State, DecodesOnly, Waits, Submitting, Outlived, Opened, M!IsOpen

LEMMA MockSame ==
  ASSUME backend = "mock", backend' = "mock", writer.pc = "out", writer' = writer,
         session'.state = session.state, session'.decodeOnly = session.decodeOnly
  PROVE  /\ UNCHANGED <<State, DecodesOnly, Submitting, Outlived>>
         /\ session'.awaiting = session.awaiting => Waits' = Waits
BY MockView, ViewIsBoolean

LEMMA MockLifecycleKeeps ==
  ASSUME backend = "mock", backend' = "mock", writer.pc = "out", writer' = writer,
         MockFits, IdleWaits, M!Lifecycle
  PROVE  ABIStep
<1>0. session \in MockSessions /\ (session.state = "none" => reader.pc = "out")
  BY NothingIsRead DEF MockFits, M!NoRead
<1>. USE MockView
<1>1. CASE M!OpenFails
  <2>1. PICK code \in {"invalid", "backend", "unachievable"} :
          last' = Result("open", code) /\ UNCHANGED <<session, reader>> /\ session.state = "none"
    BY <1>1 DEF M!OpenFails, M!Refuses, M!Returns, M!IsOpen, M!Result, Result
  <2>2. SameView
    BY <2>1, MockSame DEF SameView
  <2>3. Answerable("open", code)
    BY <2>1 DEF Answerable
  <2>. QED
    BY <2>1, <2>2, <2>3, AnswersKeep
<1>2. CASE M!Start
  <2>1. /\ session' = [session EXCEPT !.state = "running", !.runs = @ + 1, !.force = TRUE]
        /\ session.state = "open" /\ reader' = reader /\ last' = Result("start", "ok")
    BY <1>2 DEF M!Start, M!Returns, M!Result, Result
  <2>2. session'.state = "running" /\ session'.decodeOnly = session.decodeOnly
        /\ session'.awaiting = session.awaiting
    BY <1>0, <2>1 DEF MockSessions
  <2>3. DecodesOnly' = DecodesOnly /\ Waits' /\ Outlived' = Outlived
    BY <2>1, <2>2, ViewIsBoolean DEF IdleWaits
  <2>. QED
    BY <2>1, <2>2, <2>3, StartsKeep
<1>3. CASE M!StartFails
  <2>1. last' = Result("start", "state") /\ UNCHANGED <<session, reader>> /\ session.state = "running"
    BY <1>3 DEF M!StartFails, M!Refuses, M!Returns, M!Running, M!Result, Result
  <2>2. SameView
    BY <2>1, MockSame DEF SameView
  <2>3. Answerable("start", "state")
    BY <2>1 DEF Answerable
  <2>. QED
    BY <2>1, <2>2, <2>3, AnswersKeep
<1>4. CASE M!Stop
  <2>1. /\ session' = [session EXCEPT !.state = "open", !.pending = <<>>, !.awaiting = TRUE]
        /\ session.state # "none" /\ reader' = reader /\ last' = Result("stop", "ok")
    BY <1>4 DEF M!Stop, M!Stopped, M!IsOpen, M!Returns, M!Result, Result
  <2>2. session'.state = "open" /\ session'.decodeOnly = session.decodeOnly
        /\ session'.awaiting /\ session.state \in {"open", "running"}
    BY <1>0, <2>1 DEF MockSessions
  <2>3. DecodesOnly' = DecodesOnly /\ Waits' /\ Outlived' = Outlived
    BY <2>1, <2>2, ViewIsBoolean
  <2>. QED
    BY <2>1, <2>2, <2>3, StopsKeep
<1>5. CASE M!Close
  <2>1. /\ session' = [M!Closed EXCEPT !.runs = session.runs] /\ session.state # "none"
        /\ reader' = M!NoRead /\ reader.pc = "out" /\ last' = Result("close", "ok")
    BY <1>5 DEF M!Close, M!IsOpen, M!Returns, M!Result, Result
  <2>2. session'.state = "none" /\ reader'.pc = "out" /\ session.state \in {"open", "running"}
    BY <1>0, <2>1, ClosedIsMock DEF MockSessions, M!NoRead
  <2>3. Outlived' = Outlived
    BY ViewIsBoolean
  <2>. QED
    BY <2>1, <2>2, <2>3, ClosesKeep
<1>6. ASSUME NEW req \in Requests, NEW decodeOnly \in BOOLEAN, M!Open(req, decodeOnly)
      PROVE  ABIStep
  <2>1. PICK cfg, capture :
          session' = [M!Closed EXCEPT !.state = "open", !.runs = session.runs,
                        !.decodeOnly = decodeOnly, !.cfg = cfg, !.capture = capture]
    BY <1>6, Zenon DEF M!Open
  <2>2. session.state = "none" /\ reader' = reader /\ last' = Result("open", "ok")
    BY <1>6 DEF M!Open, M!IsOpen, M!Returns, M!Result, Result
  <2>3. session'.state = "open" /\ session'.awaiting
    BY <2>1 DEF M!Closed
  <2>4. Outlived' = Outlived
    BY ViewIsBoolean
  <2>. QED
    BY <1>0, <2>2, <2>3, <2>4, OpensKeep
<1>. QED
  BY <1>1, <1>2, <1>3, <1>4, <1>5, <1>6 DEF M!Lifecycle

LEMMA MockChangesKeep ==
  ASSUME backend = "mock", backend' = "mock", writer.pc = "out", writer' = writer,
         MockFits, M!Changes
  PROVE  ABIStep
<1>0. session \in MockSessions
  BY DEF MockFits
<1>. USE MockView
<1>1. CASE M!ReconfigureFails
  <2>1. PICK code \in {"invalid", "unachievable"} :
          last' = Result("reconfigure", code) /\ UNCHANGED <<session, reader>> /\ session.state # "none"
    BY <1>1 DEF M!ReconfigureFails, M!Refuses, M!Returns, M!IsOpen, M!Result, Result
  <2>2. SameView
    BY <2>1, MockSame DEF SameView
  <2>3. Answerable("reconfigure", code)
    BY <1>0, <2>1 DEF Answerable, MockSessions
  <2>. QED
    BY <2>1, <2>2, <2>3, AnswersKeep
<1>2. ASSUME NEW req \in Requests, M!Reconfigure(req) PROVE ABIStep
  <2>1. PICK cfg, force, s : s = [session EXCEPT !.cfg = cfg, !.force = force] /\ session' = M!Purged(s)
    BY <1>2, Zenon DEF M!Reconfigure
  <2>2. session.state # "none" /\ reader' = reader /\ last' = Result("reconfigure", "ok")
    BY <1>2 DEF M!Reconfigure, M!IsOpen, M!Returns, M!Result, Result
  <2>3. PICK dropped : session' = s \/ session' = [s EXCEPT !.pending = <<>>, !.dropped = dropped]
    BY <2>1, Zenon DEF M!Purged
  <2>4. /\ session'.state = session.state /\ session'.decodeOnly = session.decodeOnly
        /\ session'.awaiting = session.awaiting
    BY <1>0, <2>1, <2>3 DEF MockSessions
  <2>5. SameView
    BY <2>2, <2>4, MockSame DEF SameView
  <2>6. Answerable("reconfigure", "ok")
    BY <1>0, <2>2 DEF Answerable, MockSessions
  <2>. QED
    BY <2>2, <2>5, <2>6, AnswersKeep
<1>3. ASSUME NEW size \in {0, 2}, M!MockSetFrameBytes(size) PROVE ABIStep
  <2>1. session' = [session EXCEPT !.fixed = size] /\ UNCHANGED <<reader, last>>
    BY <1>3 DEF M!MockSetFrameBytes
  <2>2. /\ session'.state = session.state /\ session'.decodeOnly = session.decodeOnly
        /\ session'.awaiting = session.awaiting
    BY <1>0, <2>1 DEF MockSessions
  <2>. QED
    BY <2>1, <2>2, MockSame DEF ABIStep
<1>. QED
  BY <1>1, <1>2, <1>3 DEF M!Changes

LEMMA MockReadingKeeps ==
  ASSUME backend = "mock", backend' = "mock", writer.pc = "out", writer' = writer,
         MockFits, M!Reading
  PROVE  ABIStep
<1>0. session \in MockSessions /\ reader \in Readers
  BY DEF MockFits
<1>. USE MockView
<1>1. ASSUME NEW code, NEW frame, M!ReadReturns(code, frame), reader.pc = "in",
             session'.state = session.state, session'.decodeOnly = session.decodeOnly,
             session'.awaiting = session.awaiting,
             IF session.state # "running" THEN code = "closed"
             ELSE IF session.decodeOnly THEN code = "timeout"
             ELSE code \in {"frame", "timeout", "too_small", "backend"}
      PROVE  ABIStep
  <2>1. /\ reader' = [reader EXCEPT !.pc = "out", !.cap = 0, !.frame = frame]
        /\ last' = Result("read", code)
    BY <1>1 DEF M!ReadReturns, M!Returns, M!Result, Result
  <2>0. CASE code = "backend"
    <3>1. State = "running" /\ ~DecodesOnly
      BY <1>1, <2>0
    <3>2. reader'.pc = "out"
      BY <1>0, <2>1 DEF Readers
    <3>3. UNCHANGED <<State, DecodesOnly, Waits, Submitting, Outlived>>
      BY <1>1, MockSame
    <3>. QED
      BY <1>1, <2>0, <2>1, <3>1, <3>2, <3>3, ReadFailsKeep
  <2>2. reader'.pc = "out"
    BY <1>0, <2>1 DEF Readers
  <2>3. UNCHANGED <<State, DecodesOnly, Waits, Submitting, Outlived>>
    BY <1>1, MockSame
  <2>4. code # "backend" =>
          IF State \notin {"starting", "running"} THEN code = "closed"
          ELSE IF DecodesOnly THEN code = "timeout"
          ELSE code \in {"frame", "timeout", "too_small"}
    BY <1>0, <1>1 DEF MockSessions
  <2>. QED
    BY <1>1, <2>0, <2>1, <2>2, <2>3, <2>4, ReadReturnsKeep
<1>2. CASE M!ReadClosed
  BY <1>1, <1>2 DEF M!ReadClosed, M!Running
<1>3. CASE M!ReadTimesOut
  BY <1>1, <1>3 DEF M!ReadTimesOut, M!Running
<1>4. CASE M!ReadTakes
  <2>1. /\ reader.pc = "in" /\ session.state = "running" /\ ~session.decodeOnly
    BY <1>4 DEF M!ReadTakes, M!Running, M!Duplex
  <2>2. PICK code, frame : code \in {"too_small", "frame"} /\ M!ReadReturns(code, frame)
                  /\ (session' = session \/ session' = [session EXCEPT !.pending = <<>>])
    BY <1>4, Zenon DEF M!ReadTakes
  <2>3. /\ session'.state = session.state /\ session'.decodeOnly = session.decodeOnly
        /\ session'.awaiting = session.awaiting
    BY <1>0, <2>2 DEF MockSessions
  <2>. QED
    BY <1>1, <2>1, <2>2, <2>3
<1>5. CASE M!ReadProduces
  <2>0. PICK interval, blownUp : session' = M!Produced(interval, blownUp)
    BY <1>5, Zenon DEF M!ReadProduces
  <2>a. UNCHANGED <<reader, last>>
    BY <1>5 DEF M!ReadProduces
  <2>2. /\ session'.state = session.state /\ session'.decodeOnly = session.decodeOnly
        /\ session'.awaiting = session.awaiting
    BY <1>0, <2>0 DEF M!Produced, MockSessions
  <2>. QED
    BY <2>a, <2>2, MockSame DEF ABIStep
<1>6. CASE M!ReadFails
  <2>1. PICK pts : session' = [session EXCEPT !.pts = pts, !.force = FALSE]
    BY <1>6, Zenon DEF M!ReadFails
  <2>2. /\ session'.state = session.state /\ session'.decodeOnly = session.decodeOnly
        /\ session'.awaiting = session.awaiting
    BY <1>0, <2>1 DEF MockSessions
  <2>. QED
    BY <1>1, <1>6, <2>2 DEF M!ReadFails, M!MayProduce, M!Running, M!Duplex
<1>7. ASSUME NEW cap \in Buffers, M!ReadBegins(cap) PROVE ABIStep
  <2>1. /\ reader' = [reader EXCEPT !.pc = "in", !.cap = cap] /\ session' = session
        /\ reader.pc = "out" /\ session.state # "none" /\ last' = last
    BY <1>7 DEF M!ReadBegins, M!IsOpen
  <2>2. reader'.pc = "in"
    BY <1>0, <2>1 DEF Readers
  <2>. QED
    BY <2>1, <2>2, MockSame, ReadBeginsKeep
<1>. QED
  BY <1>2, <1>3, <1>4, <1>5, <1>6, <1>7 DEF M!Reading

LEMMA MockEncodeSideKeeps ==
  ASSUME backend = "mock", backend' = "mock", writer.pc = "out", writer' = writer,
         MockFits, M!EncodeSide
  PROVE  ABIStep
<1>0. session \in MockSessions
  BY DEF MockFits
<1>. USE MockView
<1>1. ASSUME NEW call, NEW code, last' = Result(call, code), reader' = reader,
             session'.state = session.state, session'.decodeOnly = session.decodeOnly,
             session'.awaiting = session.awaiting, Answerable(call, code)
      PROVE  ABIStep
  <2>1. SameView
    BY <1>1, MockSame DEF SameView
  <2>. QED
    BY <1>1, <2>1, AnswersKeep
<1>2. CASE M!RequestKeyframe
  <2>1. PICK code : /\ last' = Result("keyframe", code) /\ reader' = reader /\ session.state # "none"
                    /\ session' = session \/ session' = [session EXCEPT !.force = TRUE]
                    /\ code = IF session.state # "running" THEN "state"
                              ELSE IF session.decodeOnly THEN "unsupported" ELSE "ok"
    BY <1>2 DEF M!RequestKeyframe, M!Refuses, M!Returns, M!IsOpen, M!Running, M!Duplex, M!Result, Result
  <2>2. /\ session'.state = session.state /\ session'.decodeOnly = session.decodeOnly
        /\ session'.awaiting = session.awaiting
    BY <1>0, <2>1 DEF MockSessions
  <2>3. Answerable("keyframe", code)
    BY <1>0, <2>1 DEF Answerable, MockSessions
  <2>. QED
    BY <1>1, <2>1, <2>2, <2>3
<1>3. CASE M!SwitchFails
  <2>1. PICK code : /\ last' = Result("switch", code) /\ reader' = reader /\ session.state # "none"
                    /\ session' = session
                    /\ code = IF session.state # "running" THEN "state" ELSE "unsupported"
    BY <1>3 DEF M!SwitchFails, M!Refuses, M!Returns, M!IsOpen, M!Running, M!Result, Result
  <2>2. Answerable("switch", code)
    BY <1>0, <2>1 DEF Answerable, MockSessions
  <2>. QED
    BY <1>1, <2>1, <2>2
<1>4. CASE M!SwitchCamera
  <2>1. /\ last' = Result("switch", "ok") /\ reader' = reader /\ session.state = "running"
        /\ ~session.decodeOnly /\ session' = [session EXCEPT !.force = TRUE, !.pending = <<>>]
    BY <1>4 DEF M!SwitchCamera, M!Switched, M!Returns, M!Running, M!Duplex, M!Result, Result
  <2>2. /\ session'.state = session.state /\ session'.decodeOnly = session.decodeOnly
        /\ session'.awaiting = session.awaiting
    BY <1>0, <2>1 DEF MockSessions
  <2>3. Answerable("switch", "ok")
    BY <2>1 DEF Answerable
  <2>. QED
    BY <1>1, <2>1, <2>2, <2>3
<1>5. ASSUME NEW on \in BOOLEAN, M!SetCapture(on) PROVE ABIStep
  <2>1. PICK force, pending : session' = session
          \/ session' = [session EXCEPT !.capture = on, !.force = force, !.pending = pending]
    BY <1>5, Zenon DEF M!SetCapture
  <2>2. PICK code \in {"on", "off"} : last' = Result("capture", code)
                    /\ reader' = reader /\ session.state # "none"
    BY <1>5 DEF M!SetCapture, M!Returns, M!IsOpen, M!Result, Result
  <2>3. /\ session'.state = session.state /\ session'.decodeOnly = session.decodeOnly
        /\ session'.awaiting = session.awaiting
    BY <1>0, <2>1 DEF MockSessions
  <2>4. Answerable("capture", code)
    BY <1>0, <2>2 DEF Answerable, MockSessions
  <2>. QED
    BY <1>1, <2>2, <2>3, <2>4
<1>. QED
  BY <1>2, <1>3, <1>4, <1>5 DEF M!EncodeSide

LEMMA MockUnits ==
  ASSUME NEW unit \in M!AccessUnits
  PROVE  /\ unit.picture \in Pictures /\ M!Submits(unit) = SubmitCall[unit.picture]
         /\ M!IsKey(unit) <=> unit.picture = "idr"
BY DEF M!AccessUnits, M!Submits, M!SubmitCall, M!IsKey, SubmitCall, Pictures

LEMMA MockDecodeSideKeeps ==
  ASSUME backend = "mock", backend' = "mock", writer.pc = "out", writer' = writer,
         MockFits, M!DecodeSide
  PROVE  ABIStep
<1>0. session \in MockSessions
  BY DEF MockFits
<1>. USE MockView
<1>1. CASE M!GetTexture
  <2>1. PICK code : /\ last' = Result("texture", code) /\ UNCHANGED <<session, reader>>
                    /\ session.state # "none"
                    /\ code \in IF session.state # "running" THEN {"state"} ELSE {"ok", "unsupported"}
    BY <1>1 DEF M!GetTexture, M!Refuses, M!Returns, M!IsOpen, M!Running, M!Result, Result
  <2>2. SameView
    BY <2>1, MockSame DEF SameView
  <2>3. Answerable("texture", code)
    BY <1>0, <2>1 DEF Answerable, MockSessions
  <2>. QED
    BY <2>1, <2>2, <2>3, AnswersKeep
<1>2. ASSUME NEW unit \in M!AccessUnits, M!SubmitFails(unit) PROVE ABIStep
  <2>1. PICK code \in {"state", "decode"} :
          /\ last' = Result(SubmitCall[unit.picture], code) /\ UNCHANGED <<session, reader>>
          /\ session.state # "none"
          /\ code = IF session.state # "running" THEN "state" ELSE "decode"
    BY <1>2, MockUnits DEF M!SubmitFails, M!Refuses, M!Returns, M!IsOpen, M!Running, M!Result, Result
  <2>2. UNCHANGED <<State, DecodesOnly, Waits, Submitting, Outlived>>
    BY <2>1, MockSame
  <2>. QED
    BY <1>0, <2>1, <2>2, MockUnits, SubmitKeeps DEF MockSessions
<1>3. ASSUME NEW unit \in M!AccessUnits, M!Submit(unit) PROVE ABIStep
  <2>1. session.state = "running"
    BY <1>3 DEF M!Submit, M!Running
  <2>2. CASE session.awaiting /\ ~M!IsKey(unit)
    <3>1. last' = Result(SubmitCall[unit.picture], "awaiting") /\ UNCHANGED <<session, reader>>
      BY <1>3, <2>2, MockUnits DEF M!Submit, M!Refuses, M!Returns, M!Result, Result
    <3>2. UNCHANGED <<State, DecodesOnly, Waits, Submitting, Outlived>>
      BY <3>1, MockSame
    <3>. QED
      BY <2>1, <2>2, <3>1, <3>2, MockUnits, SubmitKeeps
  <2>3. CASE ~(session.awaiting /\ ~M!IsKey(unit))
    <3>1. /\ session' = [session EXCEPT !.awaiting = FALSE] /\ reader' = reader
          /\ last' = Result(SubmitCall[unit.picture], "accepted")
      BY <1>3, <2>3, MockUnits DEF M!Submit, M!Returns, M!Result, Result
    <3>2. /\ session'.state = session.state /\ session'.decodeOnly = session.decodeOnly
          /\ ~session'.awaiting
      BY <1>0, <3>1 DEF MockSessions
    <3>3. UNCHANGED <<State, DecodesOnly, Submitting, Outlived>> /\ ~Waits'
      BY <2>1, <3>2, MockSame
    <3>. QED
      BY <2>1, <2>3, <3>1, <3>3, MockUnits, SubmitKeeps
  <2>. QED
    BY <2>2, <2>3
<1>4. ASSUME NEW on \in BOOLEAN, M!MockSetTexture(on) PROVE ABIStep
  <2>1. session' = [session EXCEPT !.texture = on] /\ UNCHANGED <<reader, last>>
    BY <1>4 DEF M!MockSetTexture
  <2>2. /\ session'.state = session.state /\ session'.decodeOnly = session.decodeOnly
        /\ session'.awaiting = session.awaiting
    BY <1>0, <2>1 DEF MockSessions
  <2>. QED
    BY <2>1, <2>2, MockSame DEF ABIStep
<1>. QED
  BY <1>1, <1>2, <1>3, <1>4 DEF M!DecodeSide

LEMMA MockKeeps ==
  ASSUME backend = "mock", backend' = "mock", writer.pc = "out", MockFits, IdleWaits, MockStep
  PROVE  ABIStep
BY MockLifecycleKeeps, MockChangesKeep, MockReadingKeeps, MockEncodeSideKeeps,
   MockDecodeSideKeeps DEF MockStep

-----------------------------------------------------------------------------
(* Linux keeps the header *)

LEMMA LinuxView ==
  ASSUME backend = "linux", backend' = "linux", writer.pc = "out", writer' = writer
  PROVE  /\ State = IF stage # "done" THEN "none" ELSE IF session.running THEN "running" ELSE "open"
         /\ State' = IF stage' # "done" THEN "none" ELSE IF session'.running THEN "running" ELSE "open"
         /\ DecodesOnly <=> stage = "done" /\ session.decodeOnly
         /\ DecodesOnly' <=> stage' = "done" /\ session'.decodeOnly
         /\ Waits <=> stage # "done" \/ session.awaiting
         /\ Waits' <=> stage' # "done" \/ session'.awaiting
         /\ Submitting = "out" /\ Submitting' = "out" /\ ~Outlived /\ ~Outlived'
BY DEF State, DecodesOnly, Waits, Submitting, Outlived, Opened, L!State, L!IsOpen

LEMMA LinuxSame ==
  ASSUME backend = "linux", backend' = "linux", writer.pc = "out", writer' = writer,
         stage' = stage, session'.running = session.running,
         session'.decodeOnly = session.decodeOnly
  PROVE  /\ UNCHANGED <<State, DecodesOnly, Submitting, Outlived>>
         /\ session'.awaiting = session.awaiting => Waits' = Waits
BY LinuxView, ViewIsBoolean

LEMMA LinuxOpeningSame ==
  ASSUME backend = "linux", backend' = "linux", writer.pc = "out", writer' = writer,
         stage # "done", stage' # "done", reader'.pc = reader.pc
  PROVE  State = "none" /\ SameView
<1>1. State = "none" /\ UNCHANGED <<State, Submitting, Outlived>>
  BY LinuxView, ViewIsBoolean
<1>2. UNCHANGED <<DecodesOnly, Waits>>
  BY LinuxView, ViewIsBoolean
<1>. QED
  BY <1>1, <1>2 DEF SameView

LEMMA LinuxOpenKeeps ==
  ASSUME backend = "linux", backend' = "linux", writer.pc = "out", writer' = writer,
         LinuxFits, L!Open
  PROVE  ABIStep
<1>0. session \in LinuxSessions /\ (stage # "done" => reader = L!NoRead /\ ~session.running)
  BY DEF LinuxFits
<1>1. ASSUME NEW code \in {"invalid", "unsupported", "backend", "unachievable"},
             last' = Result("open", code), stage # "done", stage' # "done", reader' = L!NoRead
      PROVE  ABIStep
  <2>1. State = "none" /\ SameView
    BY <1>0, <1>1, LinuxOpeningSame
  <2>2. Answerable("open", code)
    BY <2>1 DEF Answerable
  <2>. QED
    BY <1>1, <2>1, <2>2, AnswersKeep
<1>2. ASSUME NEW code \in {"unsupported", "backend", "unachievable"}, L!TakenDown("open", code),
             stage # "done"
      PROVE  ABIStep
  BY <1>1, <1>2 DEF L!TakenDown, L!Returns, L!Result, Result
<1>3. CASE L!OpenInvalid \/ L!OpenRefused
  <2>1. PICK code \in {"invalid", "backend"} :
          last' = Result("open", code) /\ stage = "none" /\ UNCHANGED <<stage, reader>>
    BY <1>3 DEF L!OpenInvalid, L!OpenRefused, L!Returns, L!Result, Result
  <2>. QED
    BY <1>0, <1>1, <2>1
<1>4. CASE L!OpenFails
  BY <1>2, <1>4 DEF L!OpenFails
<1>5. CASE L!OpenHasCamera \/ L!OpenHasDisplay \/ L!OpenHasEncoder
  <2>1. stage # "done" /\ stage' # "done" /\ UNCHANGED <<reader, last>>
    BY <1>5 DEF L!OpenHasCamera, L!OpenHasDisplay, L!OpenHasEncoder
  <2>2. SameView
    BY <2>1, LinuxOpeningSame
  <2>. QED
    BY <2>1, <2>2 DEF ABIStep, SameView
<1>6. ASSUME NEW decodeOnly \in BOOLEAN, L!OpenClaims(decodeOnly) PROVE ABIStep
  <2>1. stage # "done" /\ stage' # "done" /\ UNCHANGED <<reader, last>>
    BY <1>6 DEF L!OpenClaims
  <2>2. SameView
    BY <2>1, LinuxOpeningSame
  <2>. QED
    BY <2>1, <2>2 DEF ABIStep, SameView
<1>7. ASSUME NEW req \in Requests, L!OpenNegotiates(req) PROVE ABIStep
  <2>1. CASE L!TakenDown("open", "unachievable")
    BY <1>2, <1>7, <2>1 DEF L!OpenNegotiates
  <2>2. CASE ~L!TakenDown("open", "unachievable")
    <3>1. stage = "negotiate" /\ stage' = "display" /\ UNCHANGED <<reader, last>>
      BY <1>7, <2>2, Zenon DEF L!OpenNegotiates
    <3>2. SameView
      BY <3>1, LinuxOpeningSame
    <3>. QED
      BY <3>1, <3>2 DEF ABIStep, SameView
  <2>. QED
    BY <2>1, <2>2
<1>8. CASE L!OpenHasDecoder
  <2>1. PICK capture : /\ session' = [session EXCEPT !.capture = capture, !.awaiting = TRUE]
                       /\ stage = "decoder" /\ stage' = "done" /\ reader' = reader
                       /\ last' = Result("open", "ok")
    BY <1>8 DEF L!OpenHasDecoder, L!Returns, L!Result, Result
  <2>2. session'.running = session.running /\ session'.awaiting
    BY <1>0, <2>1 DEF LinuxSessions
  <2>3. State = "none" /\ State' = "open" /\ Waits' /\ Submitting' = Submitting
        /\ Outlived' = Outlived
    BY <1>0, <2>1, <2>2, LinuxView, ViewIsBoolean
  <2>. QED
    BY <2>1, <2>3, OpensKeep
<1>. QED
  BY <1>3, <1>4, <1>5, <1>6, <1>7, <1>8 DEF L!Open

LEMMA LinuxLifecycleKeeps ==
  ASSUME backend = "linux", backend' = "linux", writer.pc = "out", writer' = writer,
         LinuxFits, IdleWaits, L!Lifecycle
  PROVE  ABIStep
<1>0. session \in LinuxSessions
  BY DEF LinuxFits
<1>1. CASE L!Open
  BY <1>1, LinuxOpenKeeps
<1>2. CASE L!Start
  <2>1. /\ session' = [session EXCEPT !.running = TRUE, !.runs = @ + 1, !.pts = 0, !.force = TRUE]
        /\ stage = "done" /\ stage' = stage /\ ~session.running
        /\ reader' = reader /\ last' = Result("start", "ok")
    BY <1>2 DEF L!Start, L!IsOpen, L!Returns, L!Result, Result
  <2>2. /\ session'.running /\ session'.decodeOnly = session.decodeOnly
        /\ session'.awaiting = session.awaiting
    BY <1>0, <2>1 DEF LinuxSessions
  <2>3. /\ State = "open" /\ State' = "running" /\ Submitting' = Submitting
        /\ DecodesOnly' = DecodesOnly /\ Waits' = Waits /\ Outlived' = Outlived
    BY <2>1, <2>2, LinuxView, ViewIsBoolean
  <2>4. Waits
    BY <2>3 DEF IdleWaits
  <2>. QED
    BY <2>1, <2>3, <2>4, StartsKeep
<1>3. CASE L!StartFails
  <2>1. /\ last' = Result("start", "state") /\ UNCHANGED <<stage, session, reader>>
        /\ stage = "done" /\ session.running
    BY <1>3 DEF L!StartFails, L!Running, L!IsOpen, L!Refuses, L!Returns, L!Result, Result
  <2>2. SameView
    BY <2>1, LinuxSame DEF SameView
  <2>3. Answerable("start", "state")
    BY <2>1, LinuxView DEF Answerable
  <2>. QED
    BY <2>1, <2>2, <2>3, AnswersKeep
<1>4. CASE L!Stop
  <2>1. /\ session' = [session EXCEPT !.running = FALSE, !.awaiting = TRUE]
        /\ stage = "done" /\ stage' = stage /\ reader' = reader /\ last' = Result("stop", "ok")
    BY <1>4 DEF L!Stop, L!IsOpen, L!Returns, L!Result, Result
  <2>2. /\ ~session'.running /\ session'.decodeOnly = session.decodeOnly /\ session'.awaiting
    BY <1>0, <2>1 DEF LinuxSessions
  <2>3. /\ State \in {"open", "running"} /\ State' = "open" /\ Submitting' = Submitting
        /\ DecodesOnly' = DecodesOnly /\ Waits' /\ Outlived' = Outlived /\ Submitting = "out"
    BY <2>1, <2>2, LinuxView, ViewIsBoolean
  <2>. QED
    BY <2>1, <2>3, StopsKeep
<1>5. CASE L!Close
  <2>1. /\ stage = "done" /\ stage' = "none" /\ reader.pc = "out" /\ reader' = L!NoRead
        /\ last' = Result("close", "ok")
    BY <1>5 DEF L!Close, L!IsOpen, L!TakenDown, L!Returns, L!Result, Result
  <2>2. reader'.pc = "out"
    BY <2>1 DEF L!NoRead
  <2>3. /\ State \in {"open", "running"} /\ State' = "none" /\ Submitting = "out"
        /\ Submitting' = "out" /\ ~DecodesOnly' /\ Waits' /\ Outlived' = Outlived
    BY <2>1, LinuxView, ViewIsBoolean
  <2>. QED
    BY <2>1, <2>2, <2>3, ClosesKeep
<1>. QED
  BY <1>1, <1>2, <1>3, <1>4, <1>5 DEF L!Lifecycle

LEMMA LinuxChangesKeep ==
  ASSUME backend = "linux", backend' = "linux", writer.pc = "out", writer' = writer,
         LinuxFits, L!Changes
  PROVE  ABIStep
<1>0. session \in LinuxSessions
  BY DEF LinuxFits
<1>1. ASSUME NEW code \in {"ok", "invalid", "unachievable", "backend"},
             last' = Result("reconfigure", code), stage = "done", stage' = stage, reader' = reader,
             session'.running = session.running, session'.decodeOnly = session.decodeOnly,
             session'.awaiting = session.awaiting
      PROVE  ABIStep
  <2>1. SameView
    BY <1>1, LinuxSame DEF SameView
  <2>2. Answerable("reconfigure", code)
    BY <1>1, LinuxView DEF Answerable
  <2>. QED
    BY <1>1, <2>1, <2>2, AnswersKeep
<1>2. CASE L!ReconfigureFails
  <2>1. PICK code \in {"invalid", "unachievable"} : L!Refuses("reconfigure", code)
    BY <1>2, Zenon DEF L!ReconfigureFails
  <2>. QED
    BY <1>1, <2>1 DEF L!Refuses, L!IsOpen, L!Returns, L!Result, Result
<1>3. ASSUME NEW req \in Requests, L!Reconfigure(req) PROVE ABIStep
  <2>1. PICK cfg : \/ L!Accept(cfg, session) \/ L!Accept(cfg, L!WithEncoder(session))
                   \/ /\ \E s \in {L!WithEncoder(session), [session EXCEPT !.encoder = FALSE]} :
                            session' = s
                      /\ L!Returns("reconfigure", "backend")
                      /\ UNCHANGED <<guard, stage, reader>>
    BY <1>3, Zenon DEF L!Reconfigure
  <2>2. stage = "done"
    BY <1>3 DEF L!Reconfigure, L!IsOpen
  <2>3. PICK force, s :
          /\ s \in {session, L!WithEncoder(session), [session EXCEPT !.encoder = FALSE]}
          /\ session' = s \/ session' = [s EXCEPT !.cfg = cfg, !.force = force]
    BY <2>1, Zenon DEF L!Accept
  <2>4. /\ s \in LinuxSessions /\ s.running = session.running
        /\ s.decodeOnly = session.decodeOnly /\ s.awaiting = session.awaiting
    <3>1. \/ s = session \/ s = [session EXCEPT !.encoder = TRUE, !.force = TRUE]
          \/ s = [session EXCEPT !.encoder = FALSE]
      BY <2>3, Zenon DEF L!WithEncoder
    <3>. QED
      BY <1>0, <3>1 DEF LinuxSessions
  <2>5. /\ session'.running = session.running /\ session'.decodeOnly = session.decodeOnly
        /\ session'.awaiting = session.awaiting
    BY <2>3, <2>4 DEF LinuxSessions
  <2>6. PICK code \in {"ok", "backend"} :
          last' = Result("reconfigure", code) /\ stage' = stage /\ reader' = reader
    BY <2>1 DEF L!Accept, L!Returns, L!Result, Result
  <2>. QED
    BY <1>1, <2>2, <2>5, <2>6
<1>. QED
  BY <1>2, <1>3 DEF L!Changes

LEMMA LinuxReadingKeeps ==
  ASSUME backend = "linux", backend' = "linux", writer.pc = "out", writer' = writer,
         LinuxFits, L!Reading
  PROVE  ABIStep
<1>0. session \in LinuxSessions /\ reader \in Readers
  BY DEF LinuxFits
<1>a. reader.pc = "in" => stage = "done"
  BY LinuxNothingIsRead DEF LinuxFits
<1>1. ASSUME NEW code, NEW frame, L!ReadReturns(code, frame), reader.pc = "in",
             session'.running = session.running, session'.decodeOnly = session.decodeOnly,
             session'.awaiting = session.awaiting,
             IF ~session.running THEN code = "closed"
             ELSE code = "timeout" \/ (~session.decodeOnly /\ code \in {"frame", "backend"})
      PROVE  ABIStep
  <2>1. /\ reader' = [reader EXCEPT !.pc = "out", !.cap = 0, !.frame = frame]
        /\ last' = Result("read", code) /\ stage' = stage
    BY <1>1 DEF L!ReadReturns, L!Returns, L!Result, Result
  <2>2. reader'.pc = "out"
    BY <1>0, <2>1 DEF Readers
  <2>3. UNCHANGED <<State, DecodesOnly, Waits, Submitting, Outlived>>
    BY <1>1, <2>1, LinuxSame
  <2>a. CASE code = "backend"
    <3>1. State = "running" /\ ~DecodesOnly
      BY <1>1, <1>a, <2>a, LinuxView
    <3>. QED
      BY <1>1, <2>a, <2>1, <2>2, <2>3, <3>1, ReadFailsKeep
  <2>4. code # "backend" =>
          IF State \notin {"starting", "running"} THEN code = "closed"
          ELSE IF DecodesOnly THEN code = "timeout"
          ELSE code \in {"frame", "timeout", "too_small"}
    <3>1. CASE session.running
      BY <1>1, <1>a, <3>1, LinuxView
    <3>2. CASE ~session.running
      BY <1>1, <1>a, <3>2, LinuxView
    <3>. QED
      BY <3>1, <3>2
  <2>. QED
    BY <1>1, <2>a, <2>1, <2>2, <2>3, <2>4, ReadReturnsKeep
<1>2. CASE L!ReadClosed
  BY <1>1, <1>2 DEF L!ReadClosed
<1>3. CASE L!ReadTimesOut
  BY <1>1, <1>3 DEF L!ReadTimesOut
<1>4. CASE L!ReadFails
  <2>1. PICK force : session' = [session EXCEPT !.force = force]
    BY <1>4, Zenon DEF L!ReadFails
  <2>2. /\ session'.running = session.running /\ session'.decodeOnly = session.decodeOnly
        /\ session'.awaiting = session.awaiting
    BY <1>0, <2>1 DEF LinuxSessions
  <2>. QED
    BY <1>1, <1>4, <2>2 DEF L!ReadFails, L!Encodes, L!Duplex
<1>5. CASE L!ReadEncodes
  <2>1. PICK frame, fits :
          /\ session' = L!Encoded(frame, fits)
          /\ L!ReadReturns("frame", frame) \/ UNCHANGED <<guard, stage, reader, last>>
    BY <1>5, Zenon DEF L!ReadEncodes
  <2>2. PICK dropped, pts :
          session' = [session EXCEPT !.force = FALSE, !.encoded = @ + 1, !.latest = frame,
                        !.dropped = dropped, !.pts = pts]
    BY <2>1, Zenon DEF L!Encoded
  <2>3. /\ session'.running = session.running /\ session'.decodeOnly = session.decodeOnly
        /\ session'.awaiting = session.awaiting
    BY <1>0, <2>2 DEF LinuxSessions
  <2>4. reader.pc = "in" /\ session.running /\ ~session.decodeOnly
    BY <1>5 DEF L!ReadEncodes, L!Encodes, L!Duplex
  <2>5. CASE L!ReadReturns("frame", frame)
    BY <1>1, <2>3, <2>4, <2>5
  <2>6. CASE UNCHANGED <<guard, stage, reader, last>>
    BY <2>3, <2>6, LinuxSame DEF ABIStep
  <2>. QED
    BY <2>1, <2>5, <2>6
<1>6. ASSUME NEW cap \in Buffers, L!ReadBegins(cap) PROVE ABIStep
  <2>1. /\ reader' = [reader EXCEPT !.pc = "in", !.cap = cap] /\ UNCHANGED <<stage, session, last>>
        /\ reader.pc = "out" /\ stage = "done"
    BY <1>6 DEF L!ReadBegins, L!IsOpen
  <2>2. reader'.pc = "in"
    BY <1>0, <2>1 DEF Readers
  <2>3. State # "none"
    BY <2>1, LinuxView
  <2>. QED
    BY <2>1, <2>2, <2>3, LinuxSame, ReadBeginsKeep
<1>. QED
  BY <1>2, <1>3, <1>4, <1>5, <1>6 DEF L!Reading

LEMMA LinuxEncodeSideKeeps ==
  ASSUME backend = "linux", backend' = "linux", writer.pc = "out", writer' = writer,
         LinuxFits, L!EncodeSide
  PROVE  ABIStep
<1>0. session \in LinuxSessions
  BY DEF LinuxFits
<1>1. ASSUME NEW call, NEW code, last' = Result(call, code), reader' = reader, stage' = stage,
             session'.running = session.running, session'.decodeOnly = session.decodeOnly,
             session'.awaiting = session.awaiting, Answerable(call, code)
      PROVE  ABIStep
  <2>1. SameView
    BY <1>1, LinuxSame DEF SameView
  <2>. QED
    BY <1>1, <2>1, AnswersKeep
<1>2. CASE L!RequestKeyframe
  <2>1. PICK code : /\ last' = Result("keyframe", code) /\ reader' = reader
                    /\ stage = "done" /\ stage' = stage
                    /\ session' = session \/ session' = [session EXCEPT !.force = TRUE]
                    /\ code = IF ~session.running THEN "state"
                              ELSE IF session.decodeOnly THEN "unsupported" ELSE "ok"
    BY <1>2 DEF L!RequestKeyframe, L!Refuses, L!Returns, L!IsOpen, L!Running, L!Duplex, L!Result, Result
  <2>2. /\ session'.running = session.running /\ session'.decodeOnly = session.decodeOnly
        /\ session'.awaiting = session.awaiting
    BY <1>0, <2>1 DEF LinuxSessions
  <2>3. Answerable("keyframe", code)
    BY <2>1, LinuxView DEF Answerable
  <2>. QED
    BY <1>1, <2>1, <2>2, <2>3
<1>3. CASE L!SwitchFails
  <2>1. PICK code : /\ last' = Result("switch", code) /\ UNCHANGED <<stage, session, reader>>
                    /\ stage = "done"
                    /\ \/ ~session.running /\ code = "state"
                       \/ session.running /\ code = "unsupported"
                       \/ session.running /\ ~session.decodeOnly /\ code = "backend"
    BY <1>3 DEF L!SwitchFails, L!Refuses, L!Returns, L!IsOpen, L!Running, L!Duplex, L!Result, Result
  <2>2. Answerable("switch", code)
    BY <2>1, LinuxView DEF Answerable
  <2>. QED
    BY <1>1, <2>1, <2>2
<1>4. ASSUME NEW camera \in Cameras, L!SwitchCamera(camera) PROVE ABIStep
  <2>1. /\ last' = Result("switch", "ok") /\ UNCHANGED <<stage, reader>> /\ stage = "done"
        /\ session.running /\ ~session.decodeOnly
        /\ session' = [session EXCEPT !.camera = camera, !.force = TRUE]
    BY <1>4 DEF L!SwitchCamera, L!Switched, L!Returns, L!IsOpen, L!Running, L!Duplex, L!Result, Result
  <2>2. /\ session'.running = session.running /\ session'.decodeOnly = session.decodeOnly
        /\ session'.awaiting = session.awaiting
    BY <1>0, <2>1 DEF LinuxSessions
  <2>3. Answerable("switch", "ok")
    BY <2>1, LinuxView DEF Answerable
  <2>. QED
    BY <1>1, <2>1, <2>2, <2>3
<1>5. ASSUME NEW on \in BOOLEAN, L!SetCapture(on) PROVE ABIStep
  <2>1. PICK force : session' = session \/ session' = [session EXCEPT !.capture = on, !.force = force]
    BY <1>5, Zenon DEF L!SetCapture
  <2>2. PICK code \in {"on", "off"} : last' = Result("capture", code)
                    /\ UNCHANGED <<stage, reader>> /\ stage = "done"
    BY <1>5 DEF L!SetCapture, L!Returns, L!IsOpen, L!Result, Result
  <2>3. /\ session'.running = session.running /\ session'.decodeOnly = session.decodeOnly
        /\ session'.awaiting = session.awaiting
    BY <1>0, <2>1 DEF LinuxSessions
  <2>4. Answerable("capture", code)
    BY <2>2, LinuxView DEF Answerable
  <2>. QED
    BY <1>1, <2>2, <2>3, <2>4
<1>. QED
  BY <1>2, <1>3, <1>4, <1>5 DEF L!EncodeSide

LEMMA LinuxUnits ==
  ASSUME NEW unit \in L!AccessUnits
  PROVE  /\ unit.picture \in Pictures /\ L!Submits(unit) = SubmitCall[unit.picture]
         /\ L!IsKey(unit) <=> unit.picture = "idr"
BY DEF L!AccessUnits, L!Submits, L!SubmitCall, L!IsKey, SubmitCall, Pictures

LEMMA LinuxDecodeSideKeeps ==
  ASSUME backend = "linux", backend' = "linux", writer.pc = "out", writer' = writer,
         LinuxFits, L!DecodeSide
  PROVE  ABIStep
<1>0. session \in LinuxSessions
  BY DEF LinuxFits
<1>1. CASE L!GetTexture
  <2>1. PICK code : /\ last' = Result("texture", code) /\ UNCHANGED <<stage, session, reader>>
                    /\ stage = "done"
                    /\ code = IF session.running THEN "unsupported" ELSE "state"
    BY <1>1 DEF L!GetTexture, L!Refuses, L!Returns, L!IsOpen, L!Result, Result
  <2>2. SameView
    BY <2>1, LinuxSame DEF SameView
  <2>3. Answerable("texture", code)
    BY <2>1, LinuxView DEF Answerable
  <2>. QED
    BY <2>1, <2>2, <2>3, AnswersKeep
<1>2. CASE L!SubmitFails
  <2>1. PICK code : /\ last' = Result(SubmitCall["none"], code) /\ UNCHANGED <<stage, session, reader>>
                    /\ stage = "done"
                    /\ code = IF session.running THEN "decode" ELSE "state"
    BY <1>2 DEF L!SubmitFails, L!Refuses, L!Returns, L!IsOpen, L!Result, Result, SubmitCall
  <2>2. UNCHANGED <<State, DecodesOnly, Waits, Submitting, Outlived>>
    BY <2>1, LinuxSame
  <2>3. "none" \in Pictures
    BY DEF Pictures
  <2>. QED
    BY <2>1, <2>2, <2>3, LinuxView, SubmitKeeps
<1>3. ASSUME NEW unit \in L!AccessUnits, L!Submit(unit) PROVE ABIStep
  <2>1. stage = "done" /\ session.running
    BY <1>3 DEF L!Submit, L!Running, L!IsOpen
  <2>2. PICK params, s, code :
          /\ s = [session EXCEPT !.params = params]
          /\ last' = Result(SubmitCall[unit.picture], code) /\ UNCHANGED <<stage, reader>>
          /\ \/ unit.picture = "none" /\ code = "accepted" /\ session' = s
             \/ code = "decode" /\ session' = s
             \/ session.awaiting /\ unit.picture # "idr" /\ code = "awaiting" /\ session' = s
             \/ /\ ~(session.awaiting /\ unit.picture # "idr") /\ code = "accepted"
                /\ session' = [s EXCEPT !.awaiting = FALSE]
    <3>1. PICK params, s :
          /\ s = [session EXCEPT !.params = params]
          /\ IF unit.picture = "none" THEN L!Answers(unit, "accepted", s)
             ELSE IF unit.claims # L!IsKey(unit) THEN L!Answers(unit, "decode", s)
             ELSE IF session.awaiting /\ ~L!IsKey(unit) THEN L!Answers(unit, "awaiting", s)
             ELSE \/ L!Answers(unit, "decode", s)
                  \/ L!Answers(unit, "accepted", [s EXCEPT !.awaiting = FALSE])
      BY <1>3, Zenon DEF L!Submit
    <3>2. ASSUME NEW code, NEW t, L!Answers(unit, code, t)
          PROVE  session' = t /\ last' = Result(SubmitCall[unit.picture], code)
                 /\ UNCHANGED <<stage, reader>>
      BY <3>2, LinuxUnits DEF L!Answers, L!Returns, L!Result, Result
    <3>a. L!IsKey(unit) <=> unit.picture = "idr"
      BY LinuxUnits
    <3>b. s = [session EXCEPT !.params = params]
      BY <3>1
    <3>3. CASE L!Answers(unit, "decode", s)
      <4>1. /\ session' = s
            /\ last' = Result(SubmitCall[unit.picture], "decode") /\ UNCHANGED <<stage, reader>>
        BY <3>2, <3>3
      <4>. QED
        BY <3>b, <3>3, <4>1
    <3>4. CASE unit.picture = "none" /\ L!Answers(unit, "accepted", s)
      <4>1. /\ session' = s
            /\ last' = Result(SubmitCall[unit.picture], "accepted") /\ UNCHANGED <<stage, reader>>
        BY <3>2, <3>4
      <4>. QED
        BY <3>b, <3>4, <4>1
    <3>5. CASE session.awaiting /\ unit.picture # "idr" /\ L!Answers(unit, "awaiting", s)
      <4>1. /\ session' = s
            /\ last' = Result(SubmitCall[unit.picture], "awaiting") /\ UNCHANGED <<stage, reader>>
        BY <3>2, <3>5
      <4>. QED
        BY <3>b, <3>5, <4>1
    <3>6. CASE /\ ~(session.awaiting /\ unit.picture # "idr")
               /\ L!Answers(unit, "accepted", [s EXCEPT !.awaiting = FALSE])
      <4>1. /\ session' = [s EXCEPT !.awaiting = FALSE]
            /\ last' = Result(SubmitCall[unit.picture], "accepted") /\ UNCHANGED <<stage, reader>>
        BY <3>2, <3>6
      <4>. QED
        BY <3>b, <3>6, <4>1
    <3>. QED
      BY <3>1, <3>a, <3>3, <3>4, <3>5, <3>6
  <2>3. /\ s.running = session.running /\ s.decodeOnly = session.decodeOnly
        /\ s.awaiting = session.awaiting
        /\ [s EXCEPT !.awaiting = FALSE].running = session.running
        /\ [s EXCEPT !.awaiting = FALSE].decodeOnly = session.decodeOnly
        /\ ~[s EXCEPT !.awaiting = FALSE].awaiting
    BY <1>0, <2>2 DEF LinuxSessions
  <2>4. State = "running" /\ Submitting = "out" /\ (Waits <=> session.awaiting)
    BY <2>1, LinuxView
  <2>5. CASE /\ session' = s
             /\ \/ unit.picture = "none" /\ code = "accepted"
                \/ code = "decode"
                \/ session.awaiting /\ unit.picture # "idr" /\ code = "awaiting"
    <3>1. UNCHANGED <<State, DecodesOnly, Waits, Submitting, Outlived>>
      BY <2>2, <2>3, <2>5, LinuxSame
    <3>. QED
      BY <2>2, <2>4, <2>5, <3>1, LinuxUnits, SubmitKeeps
  <2>6. CASE /\ ~(session.awaiting /\ unit.picture # "idr") /\ code = "accepted"
             /\ session' = [s EXCEPT !.awaiting = FALSE]
    <3>1. UNCHANGED <<State, DecodesOnly, Submitting, Outlived>>
      BY <2>2, <2>3, <2>6, LinuxSame
    <3>2. ~Waits'
      BY <2>1, <2>2, <2>3, <2>6, LinuxView
    <3>. QED
      BY <2>2, <2>4, <2>6, <3>1, <3>2, LinuxUnits, SubmitKeeps
  <2>. QED
    BY <2>2, <2>5, <2>6
<1>. QED
  BY <1>1, <1>2, <1>3 DEF L!DecodeSide

LEMMA LinuxKeeps ==
  ASSUME backend = "linux", backend' = "linux", writer.pc = "out", LinuxFits, IdleWaits, LinuxStep
  PROVE  ABIStep
<1>1. writer' = writer
  BY DEF LinuxStep
<1>2. CASE UNCHANGED <<stage, session, reader, last>>
  BY <1>1, <1>2, LinuxSame DEF ABIStep
<1>. QED
  BY <1>1, <1>2, LinuxLifecycleKeeps, LinuxReadingKeeps, LinuxEncodeSideKeeps, LinuxChangesKeep,
     LinuxDecodeSideKeeps DEF LinuxStep

-----------------------------------------------------------------------------
(* Windows keeps the header: its calls begin and end *)

WriterFits ==
    \/ writer.pc = "out"
    \/ /\ backend = "windows" /\ writer.pc = "feeding" /\ session.state # "none"
       /\ \E picture \in Pictures : writer.call = SubmitCall[picture]
       /\ writer.run \in Nat /\ writer.run <= session.runs

(* No step but a start goes on to another run. *)
RunGoesOn == session'.runs \in {session.runs, session.runs + 1}

LEMMA FeedingIsSeen ==
  ASSUME WriterFits
  PROVE  Submitting # "out" <=> writer.pc # "out"
BY DEF WriterFits, Submitting, SubmitCall, Pictures

LEMMA WindowsView ==
  ASSUME backend = "windows", backend' = "windows"
  PROVE  /\ control.pc = "starting" => State = "starting"
         /\ control.pc \in Ending => State = "stopping"
         /\ control.pc \in {"idle"} \cup Asking => State = session.state
         /\ control'.pc = "starting" => State' = "starting"
         /\ control'.pc \in Ending => State' = "stopping"
         /\ control'.pc \in {"idle"} \cup Asking => State' = session'.state
         /\ DecodesOnly <=> session.state # "none" /\ session.decodeOnly
         /\ DecodesOnly' <=> session'.state # "none" /\ session'.decodeOnly
         /\ Waits <=> session.state = "none" \/ session.awaiting
         /\ Waits' <=> session'.state = "none" \/ session'.awaiting
         /\ Outlived <=> writer.pc # "out" /\ (writer.run # session.runs \/ session.state # "running")
         /\ Outlived' <=> writer'.pc # "out" /\ (writer'.run # session'.runs \/ session'.state # "running")
BY DEF State, W!State, DecodesOnly, Waits, Opened, W!IsOpen, Ending, Asking, Outlived, W!Running

(* What a caller knows of the state by the state itself. *)
LEMMA WindowsRuns ==
  ASSUME backend = "windows", backend' = "windows", WindowsFits
  PROVE  /\ session.state = "running" <=> State \in {"starting", "running"}
         /\ session.state = "none" <=> State = "none"
         /\ session.state \in {"none", "open", "running"}
         /\ control.pc \in {"idle", "starting"} \cup Ending \cup Asking
<1>1. /\ session.state \in {"none", "open", "running"}
      /\ control.pc \in {"idle", "starting"} \cup Ending \cup Asking
  BY DEF WindowsFits, WindowsSessions, CallFits, WindowsCalls
<1>2. CASE control.pc \in {"idle"} \cup Asking
  BY <1>1, <1>2, WindowsView
<1>3. CASE control.pc = "starting"
  BY <1>1, <1>3, WindowsView DEF WindowsFits, CallFits
<1>4. CASE control.pc \in Ending
  BY <1>1, <1>4, WindowsView DEF WindowsFits, CallFits
<1>. QED
  BY <1>1, <1>2, <1>3, <1>4

SameCall ==
    \/ control'.pc = control.pc
    \/ control.pc \in {"idle"} \cup Asking /\ control'.pc \in {"idle"} \cup Asking
    \/ control.pc \in Ending /\ control'.pc \in Ending

LEMMA WindowsSame ==
  ASSUME backend = "windows", backend' = "windows", WindowsFits, SameCall,
         session'.state = session.state, session'.decodeOnly = session.decodeOnly
  PROVE  /\ UNCHANGED <<State, DecodesOnly>>
         /\ session'.awaiting = session.awaiting => Waits' = Waits
         /\ writer' = writer /\ session'.runs = session.runs => Outlived' = Outlived
<1>1. State' = State
  <2>1. CASE control.pc \in {"idle"} \cup Asking
    BY <2>1, WindowsView, WindowsRuns DEF SameCall, Ending, Asking
  <2>2. CASE control.pc = "starting"
    BY <2>2, WindowsView, WindowsRuns DEF SameCall, Ending, Asking
  <2>3. CASE control.pc \in Ending
    BY <2>3, WindowsView, WindowsRuns DEF SameCall, Ending, Asking
  <2>. QED
    BY <2>1, <2>2, <2>3, WindowsRuns
<1>. QED
  BY <1>1, WindowsView, ViewIsBoolean

LEMMA WriterSame == ASSUME writer' = writer PROVE Submitting' = Submitting
BY DEF Submitting

ViewParts == {"state", "decodeOnly", "awaiting", "runs"}

(* A step of the backend's own, and an answer that changes nothing. *)
LEMMA WindowsStutters ==
  ASSUME backend = "windows", backend' = "windows", WindowsFits, SameCall,
         \A part \in ViewParts : session'[part] = session[part],
         UNCHANGED <<writer, last>>, reader'.pc = reader.pc
  PROVE  ABIStep /\ RunGoesOn
BY WindowsSame, WriterSame DEF ABIStep, ViewParts, RunGoesOn

LEMMA WindowsAnswers ==
  ASSUME backend = "windows", backend' = "windows", WindowsFits, SameCall,
         \A part \in ViewParts : session'[part] = session[part],
         writer' = writer, reader'.pc = reader.pc,
         NEW call, NEW code, last' = Result(call, code), Answerable(call, code)
  PROVE  ABIStep /\ RunGoesOn
<1>1. SameView
  BY WindowsSame, WriterSame DEF SameView, ViewParts
<1>. QED
  BY <1>1, AnswersKeep DEF ViewParts, RunGoesOn

LEMMA WindowsRefuses ==
  ASSUME backend = "windows", backend' = "windows", WindowsFits,
         NEW call, NEW code, W!Refuses(call, code), Answerable(call, code)
  PROVE  ABIStep /\ RunGoesOn
<1>1. last' = Result(call, code) /\ UNCHANGED <<session, control, reader, writer>>
  BY DEF W!Refuses, W!Returns, W!Result, Result
<1>. QED
  BY <1>1, WindowsAnswers DEF SameCall

LEMMA WindowsLifecycleKeeps ==
  ASSUME backend = "windows", backend' = "windows", WindowsFits, WindowsFits', WriterFits,
         W!Lifecycle
  PROVE  ABIStep /\ RunGoesOn
<1>0. session \in WindowsSessions /\ CallFits
  BY DEF WindowsFits
<1>1. CASE W!OpenFails
  <2>1. PICK code \in {"invalid", "unsupported", "backend", "unachievable"} :
          /\ last' = Result("open", code) /\ UNCHANGED <<session, control, reader, writer>>
          /\ session.state = "none"
    BY <1>1 DEF W!OpenFails, W!Returns, W!IsOpen, W!Result, Result
  <2>2. Answerable("open", code)
    BY <2>1, WindowsRuns DEF Answerable
  <2>. QED
    BY <2>1, <2>2, WindowsAnswers DEF SameCall
<1>2. CASE W!Start
  <2>1. /\ session' = [session EXCEPT !.state = "running", !.runs = @ + 1, !.stop = "unset",
                                      !.force = TRUE, !.awaiting = TRUE, !.base = W!NoBase]
        /\ control.pc = "idle" /\ session.state = "open" /\ UNCHANGED <<reader, writer>>
        /\ \/ last' = Result("start", "ok") /\ control' = control
           \/ W!Control("starting") /\ last' = last
    BY <1>2 DEF W!Start, W!Idle, W!Returns, W!Result, Result
  <2>2. session'.state = "running" /\ session'.decodeOnly = session.decodeOnly /\ session'.awaiting
        /\ session'.runs = session.runs + 1 /\ session.runs \in Nat
    <3>1. PICK s : s = [session EXCEPT !.state = "running", !.runs = @ + 1, !.stop = "unset"]
      OBVIOUS
    <3>2. session' = [s EXCEPT !.force = TRUE, !.awaiting = TRUE, !.base = W!NoBase]
      BY <2>1, <3>1, Zenon
    <3>3. /\ DOMAIN s = DOMAIN session
          /\ s.state = "running" /\ s.decodeOnly = session.decodeOnly
          /\ s.runs = session.runs + 1 /\ session.runs \in Nat
      BY <1>0, <3>1, InstanceAssumption DEF WindowsSessions
    <3>4. {"awaiting", "state", "decodeOnly", "runs", "force", "base"} \subseteq DOMAIN s
      BY <1>0, <3>3 DEF WindowsSessions
    <3>. QED
      BY <3>2, <3>3, <3>4
  <2>6. RunGoesOn
    BY <2>2 DEF RunGoesOn
  <2>7. Outlived' = Outlived
    <3>1. writer.pc # "out" => writer.run # session.runs + 1
      BY <2>2 DEF WriterFits
    <3>. QED
      BY <2>1, <2>2, <3>1, WindowsView, ViewIsBoolean
  <2>3. State = "open" /\ DecodesOnly' = DecodesOnly /\ Waits' /\ Submitting' = Submitting
    BY <2>1, <2>2, WindowsView, WriterSame, ViewIsBoolean
  <2>4. CASE last' = Result("start", "ok") /\ control' = control
    <3>1. State' = "running"
      BY <2>1, <2>2, <2>4, WindowsView
    <3>. QED
      BY <2>1, <2>3, <2>4, <2>6, <2>7, <3>1, StartsKeep
  <2>5. CASE W!Control("starting") /\ last' = last
    <3>1. control'.pc = "starting"
      BY <2>5, ControlIs
    <3>2. State' = "starting"
      BY <3>1, WindowsView
    <3>. QED
      BY <2>1, <2>3, <2>5, <2>6, <2>7, <3>2 DEF ABIStep, ABI!Next, ABI!StartBegins
  <2>. QED
    BY <2>1, <2>4, <2>5
<1>3. CASE W!StartMakesThread
  <2>1. /\ session' = [session EXCEPT !.running = TRUE] /\ control.pc = "starting"
        /\ W!Control("idle") /\ last' = Result("start", "ok") /\ UNCHANGED <<reader, writer>>
    BY <1>3 DEF W!StartMakesThread, W!Returns, W!Result, Result
  <2>2. /\ session'.state = session.state /\ session'.decodeOnly = session.decodeOnly
        /\ session.state = "running" /\ control'.pc = "idle"
        /\ session'.awaiting = session.awaiting /\ session'.runs = session.runs
    BY <1>0, <2>1, ControlIs DEF WindowsSessions, CallFits
  <2>3. State = "starting" /\ State' = "running" /\ DecodesOnly' = DecodesOnly
        /\ Waits' = Waits /\ Outlived' = Outlived
    BY <2>1, <2>2, WindowsView, ViewIsBoolean
  <2>. QED
    BY <2>1, <2>2, <2>3, WriterSame, StartsKeep DEF RunGoesOn
<1>4. CASE W!StartMakesNone
  <2>1. /\ session' = [session EXCEPT !.state = "open", !.stop = "none"] /\ control.pc = "starting"
        /\ W!Control("idle") /\ last' = ABI!Result("start", "backend") /\ UNCHANGED <<reader, writer>>
    BY <1>4 DEF W!StartMakesNone, W!Returns, W!Result, ABI!Result
  <2>2. /\ session'.state = "open" /\ session'.decodeOnly = session.decodeOnly
        /\ session'.awaiting = session.awaiting /\ session'.runs = session.runs
        /\ session.state = "running" /\ control'.pc = "idle"
    BY <1>0, <2>1, ControlIs DEF WindowsSessions, CallFits
  <2>3. State = "starting" /\ State' = "open" /\ DecodesOnly' = DecodesOnly /\ Waits' = Waits
    BY <2>1, <2>2, WindowsView, ViewIsBoolean
  <2>5. Outlived' = (Outlived \/ Submitting # "out")
    BY <2>1, <2>2, WindowsView, FeedingIsSeen, ViewIsBoolean
  <2>4. ABI!StartRefused
    BY <2>1, <2>3, <2>5, WriterSame DEF ABI!StartRefused, ABI!Returns, ABI!LeavesBehind
  <2>. QED
    BY <2>2, <2>4 DEF ABIStep, ABI!Next, RunGoesOn
<1>5. CASE W!StartFails
  <2>1. PICK code : /\ W!Refuses("start", code) /\ control.pc = "idle" /\ session.state # "none"
                    /\ code = IF session.state = "running" THEN "state" ELSE "backend"
    BY <1>5 DEF W!StartFails, W!Idle, W!IsOpen, W!Running
  <2>2. State = session.state /\ session.state \in {"open", "running"}
    BY <2>1, WindowsView, WindowsRuns
  <2>3. Answerable("start", code)
    <3>1. CASE session.state = "running"
      <4>1. State = "running" /\ code = "state"
        BY <2>1, <2>2, <3>1
      <4>. QED
        BY <4>1 DEF Answerable
    <3>2. CASE session.state = "open"
      <4>1. State = "open" /\ code = "backend"
        BY <2>1, <2>2, <3>2
      <4>. QED
        BY <4>1 DEF Answerable
    <3>. QED
      BY <2>2, <3>1, <3>2
  <2>. QED
    BY <2>1, <2>3, WindowsRefuses
<1>6. CASE W!Stop
  <2>1. /\ session' = [session EXCEPT !.state = "open", !.running = FALSE, !.stop = "set"]
        /\ control.pc = "idle" /\ session.state = "running" /\ W!Control("joining")
        /\ UNCHANGED <<reader, writer, last>>
    BY <1>6 DEF W!Stop, W!Idle, W!Running
  <2>2. /\ session'.state = "open" /\ session'.decodeOnly = session.decodeOnly
        /\ session'.awaiting = session.awaiting /\ control'.pc \in Ending
        /\ session'.runs = session.runs
    BY <1>0, <2>1, ControlIs DEF WindowsSessions, Ending
  <2>3. State = "running" /\ State' = "stopping" /\ DecodesOnly' = DecodesOnly /\ Waits' = Waits
    BY <2>1, <2>2, WindowsView, ViewIsBoolean
  <2>4. Outlived' = (Outlived \/ Submitting # "out")
    BY <2>1, <2>2, WindowsView, FeedingIsSeen, ViewIsBoolean
  <2>. QED
    BY <2>1, <2>2, <2>3, <2>4, WriterSame
    DEF ABIStep, ABI!Next, ABI!StopBegins, ABI!LeavesBehind, RunGoesOn
<1>7. CASE W!StopIsIdle
  <2>1. W!Refuses("stop", "ok") /\ control.pc = "idle" /\ session.state = "open"
    BY <1>7 DEF W!StopIsIdle, W!Idle
  <2>2. Answerable("stop", "ok")
    BY <2>1, WindowsView DEF Answerable
  <2>. QED
    BY <2>1, <2>2, WindowsRefuses
<1>8. CASE W!StopJoins
  <2>1. /\ session' = [session EXCEPT !.stop = "none"] /\ control.pc \in Ending
        /\ W!Control("clearing") /\ UNCHANGED <<reader, writer, last>>
    BY <1>8 DEF W!StopJoins, Ending
  <2>2. \A part \in ViewParts : session'[part] = session[part]
    BY <1>0, <2>1 DEF WindowsSessions, ViewParts
  <2>3. SameCall
    BY <2>1, ControlIs DEF SameCall, Ending
  <2>. QED
    BY <2>1, <2>2, <2>3, WindowsStutters
<1>9. CASE W!StopClears
  <2>1. /\ session' = [session EXCEPT !.ring = <<>>, !.awaiting = TRUE] /\ control.pc \in Ending
        /\ W!Control("idle") /\ last' = Result("stop", "ok") /\ UNCHANGED <<reader, writer>>
    BY <1>9 DEF W!StopClears, W!Cleared, W!Returns, W!Result, Result, Ending
  <2>2. /\ session'.state = session.state /\ session'.decodeOnly = session.decodeOnly
        /\ session'.awaiting /\ session.state = "open" /\ control'.pc = "idle"
        /\ session'.runs = session.runs
    BY <1>0, <2>1, ControlIs DEF WindowsSessions, CallFits
  <2>3. State = "stopping" /\ State' = "open" /\ DecodesOnly' = DecodesOnly /\ Waits'
        /\ Outlived' = Outlived
    BY <2>1, <2>2, WindowsView, ViewIsBoolean
  <2>. QED
    BY <2>1, <2>2, <2>3, WriterSame, StopsKeep DEF RunGoesOn
<1>10. CASE W!Close
  <2>1. /\ session' = [W!Closed EXCEPT !.runs = session.runs] /\ reader' = W!NoRead
        /\ control.pc = "idle" /\ session.state = "open" /\ reader.pc = "out" /\ writer.pc = "out"
        /\ UNCHANGED <<control, writer>> /\ last' = Result("close", "ok")
    BY <1>10 DEF W!Close, W!Idle, W!Returns, W!Result, Result
  <2>2. session'.state = "none" /\ reader'.pc = "out" /\ session'.runs = session.runs
    BY <2>1, ClosedIsWindows, WindowsNothingIsRead DEF WindowsSessions
  <2>3. State = "open" /\ State' = "none" /\ ~DecodesOnly' /\ Waits' /\ Outlived' = Outlived
    BY <2>1, <2>2, WindowsView, ViewIsBoolean
  <2>4. Submitting = "out" /\ Submitting' = "out"
    BY <2>1 DEF Submitting
  <2>. QED
    BY <2>1, <2>2, <2>3, <2>4, ClosesKeep DEF RunGoesOn
<1>11. ASSUME NEW req \in Requests, NEW decodeOnly \in BOOLEAN, W!Open(req, decodeOnly)
       PROVE  ABIStep /\ RunGoesOn
  <2>1. PICK cfg \in W!ByBudget(req, 0), native \in {r.geo : r \in Requests} :
         session' = [W!Closed EXCEPT
           !.state = "open", !.runs = session.runs, !.decodeOnly = decodeOnly,
           !.cfg = IF decodeOnly THEN cfg ELSE [cfg EXCEPT !.geo = native],
           !.capture = ~decodeOnly, !.reader = IF decodeOnly THEN 0 ELSE 1,
           !.enc = ~decodeOnly, !.dec = 2, !.made = 2]
    BY <1>11, Zenon DEF W!Open
  <2>2. /\ session.state = "none" /\ control.pc = "idle" /\ UNCHANGED <<control, reader, writer>>
        /\ last' = Result("open", "ok")
    BY <1>11 DEF W!Open, W!IsOpen, W!Idle, W!Returns, W!Result, Result
  <2>3. session'.state = "open" /\ session'.awaiting /\ session'.runs = session.runs
    BY <2>1 DEF W!Closed
  <2>4. State = "none" /\ State' = "open" /\ Waits' /\ Outlived' = Outlived
    BY <2>2, <2>3, WindowsView, ViewIsBoolean
  <2>. QED
    BY <2>2, <2>3, <2>4, WriterSame, OpensKeep DEF RunGoesOn
<1>. QED
  BY <1>1, <1>2, <1>3, <1>4, <1>5, <1>6, <1>7, <1>8, <1>9, <1>10, <1>11 DEF W!Lifecycle

-----------------------------------------------------------------------------
(* ... its changes, its thread and its camera *)

LEMMA AppliedWaits ==
  ASSUME WindowsFits, NEW cfg, NEW outcome \in W!Applied(cfg)
  PROVE  \/ outcome[1].awaiting = session.awaiting
         \/ session.decodeOnly /\ outcome[1].awaiting /\ outcome[2] = "ok"
<1>0. session \in WindowsSessions
  BY DEF WindowsFits
<1>1. ASSUME NEW s
      PROVE  /\ W!NewReader(s).awaiting = s.awaiting /\ W!NoDecoder(s).awaiting = s.awaiting
             /\ W!NewDecoder(s).awaiting = s.awaiting /\ W!Takes(cfg, s).awaiting = s.awaiting
             /\ \A on \in BOOLEAN : [s EXCEPT !.enc = on].awaiting = s.awaiting
             /\ [s EXCEPT !.enc = TRUE, !.force = TRUE].awaiting = s.awaiting
             /\ [s EXCEPT !.reader = 0].awaiting = s.awaiting
  BY DEF W!NewReader, W!NoDecoder, W!NewDecoder, W!Takes
<1>2. PICK s :
        /\ outcome = <<s, "ok">> \/ outcome = <<s, "backend">>
        /\ \/ s = session \/ s = W!Takes(cfg, session)
           \/ /\ s = W!Takes(cfg, [W!NewDecoder(session) EXCEPT !.awaiting = TRUE])
              /\ session.decodeOnly /\ outcome = <<s, "ok">>
           \/ s = W!NoDecoder(session) \/ s = [session EXCEPT !.reader = 0]
           \/ s = [W!NewReader(session) EXCEPT !.enc = FALSE]
           \/ s = W!NoDecoder([W!NewReader(session) EXCEPT !.enc = TRUE])
           \/ s = W!Takes(cfg, [W!NewDecoder(W!NewReader(session)) EXCEPT !.enc = TRUE, !.force = TRUE])
  BY Zenon DEF W!Applied
<1>3. outcome[1] = s
  BY <1>2
<1>4. [W!NewDecoder(session) EXCEPT !.awaiting = TRUE].awaiting
  BY <1>0 DEF W!NewDecoder, W!NoDecoder, WindowsSessions
<1>5. CASE /\ s = W!Takes(cfg, [W!NewDecoder(session) EXCEPT !.awaiting = TRUE])
           /\ session.decodeOnly /\ outcome = <<s, "ok">>
  <2>1. PICK t : t = [W!NewDecoder(session) EXCEPT !.awaiting = TRUE]
    OBVIOUS
  <2>2. s.awaiting = t.awaiting /\ t.awaiting
    BY <1>1, <1>4, <1>5, <2>1, Zenon
  <2>. QED
    BY <1>3, <1>5, <2>2
<1>6. CASE \/ s = session \/ s = W!Takes(cfg, session)
           \/ s = W!NoDecoder(session) \/ s = [session EXCEPT !.reader = 0]
  BY <1>1, <1>3, <1>6
<1>7. CASE \/ s = [W!NewReader(session) EXCEPT !.enc = FALSE]
           \/ s = W!NoDecoder([W!NewReader(session) EXCEPT !.enc = TRUE])
  <2>1. PICK t, u : /\ t = [W!NewReader(session) EXCEPT !.enc = FALSE]
                    /\ u = [W!NewReader(session) EXCEPT !.enc = TRUE]
    OBVIOUS
  <2>2. t.awaiting = session.awaiting /\ u.awaiting = session.awaiting
    BY <1>1, <2>1
  <2>3. W!NoDecoder(u).awaiting = u.awaiting
    BY <1>1
  <2>4. s = t \/ s = W!NoDecoder(u)
    BY <1>7, <2>1, Zenon
  <2>. QED
    BY <1>3, <2>2, <2>3, <2>4
<1>8. CASE s = W!Takes(cfg, [W!NewDecoder(W!NewReader(session)) EXCEPT !.enc = TRUE, !.force = TRUE])
  <2>1. PICK t, u : t = W!NewDecoder(W!NewReader(session)) /\ u = [t EXCEPT !.enc = TRUE, !.force = TRUE]
    OBVIOUS
  <2>2. t.awaiting = session.awaiting /\ u.awaiting = t.awaiting
    BY <1>1, <2>1
  <2>3. W!Takes(cfg, u).awaiting = u.awaiting
    BY <1>1
  <2>4. s = W!Takes(cfg, u)
    BY <1>8, <2>1, Zenon
  <2>. QED
    BY <1>3, <2>2, <2>3, <2>4
<1>. QED
  BY <1>2, <1>5, <1>6, <1>7, <1>8

LEMMA WindowsChangesKeep ==
  ASSUME backend = "windows", backend' = "windows", WindowsFits, WindowsFits', WriterFits,
         W!Changes
  PROVE  ABIStep /\ RunGoesOn
<1>0. session \in WindowsSessions /\ CallFits
  BY DEF WindowsFits
<1>1. ASSUME NEW code \in {"invalid", "unachievable"}, W!Refuses("reconfigure", code),
             control.pc = "idle"
      PROVE  ABIStep /\ RunGoesOn
  <2>1. session.state # "none"
    BY <1>1 DEF W!Refuses, W!IsOpen
  <2>2. Answerable("reconfigure", code)
    BY <1>1, <2>1, WindowsView, WindowsRuns DEF Answerable
  <2>. QED
    BY <1>1, <2>2, WindowsRefuses
<1>2. CASE W!ReconfigureFails
  BY <1>1, <1>2 DEF W!ReconfigureFails, W!Idle
<1>3. CASE W!ReconfigureEnds
  <2>1. PICK code : /\ last' = Result("reconfigure", code) /\ control.pc = "asking"
                    /\ W!Control("idle") /\ UNCHANGED <<reader, writer>>
                    /\ code = IF session.done THEN session.result ELSE "backend"
                    /\ session' = session \/ session' = [session EXCEPT !.done = FALSE]
    BY <1>3 DEF W!ReconfigureEnds, W!Returns, W!Result, Result
  <2>2. code \in {"ok", "backend"}
    BY <1>0, <2>1 DEF CallFits, WindowsSessions, Codes
  <2>3. \A part \in ViewParts : session'[part] = session[part]
    BY <1>0, <2>1 DEF WindowsSessions, ViewParts
  <2>4. SameCall /\ State = "running"
    BY <1>0, <2>1, ControlIs, WindowsView DEF SameCall, Asking, CallFits
  <2>5. Answerable("reconfigure", code)
    BY <2>2, <2>4 DEF Answerable
  <2>. QED
    BY <2>1, <2>3, <2>4, <2>5, WindowsAnswers
<1>4. ASSUME NEW req \in Requests, W!Reconfigure(req) PROVE ABIStep /\ RunGoesOn
  <2>1. PICK cfg \in W!ByBudget(req, 0) : \E outcome \in W!Applied(cfg) :
          session' = outcome[1] /\ W!Returns("reconfigure", outcome[2])
    BY <1>4 DEF W!Reconfigure
  <2>2. PICK outcome \in W!Applied(cfg) :
          session' = outcome[1] /\ last' = ABI!Result("reconfigure", outcome[2])
    BY <2>1 DEF W!Returns, W!Result, ABI!Result
  <2>3. cfg \in Configs /\ W!MayMake /\ control.pc = "idle" /\ session.state # "none"
        /\ UNCHANGED <<control, reader, writer>>
    BY <1>4, <2>1, WindowsBudget DEF W!Reconfigure, W!IsOpen, W!Idle
  <2>4. /\ outcome[2] \in {"ok", "backend"}
        /\ session'.state = session.state /\ session'.decodeOnly = session.decodeOnly
        /\ session'.runs = session.runs
    BY <2>2, <2>3, AppliedIsTyped DEF CallParts, FrameParts
  <2>5. \/ session'.awaiting = session.awaiting
        \/ session.decodeOnly /\ session'.awaiting /\ outcome[2] = "ok"
    BY <2>2, AppliedWaits
  <2>6. UNCHANGED <<State, DecodesOnly, Submitting, Outlived>> /\ State \in {"open", "running"}
    BY <2>3, <2>4, WindowsSame, WriterSame, WindowsView, WindowsRuns DEF SameCall
  <2>7. Waits' = Waits \/ (DecodesOnly /\ Waits' /\ last'.code = "ok")
    <3>1. last'.code = outcome[2]
      BY <2>2 DEF ABI!Result
    <3>2. CASE session'.awaiting = session.awaiting
      BY <2>3, <2>4, <3>2, WindowsSame, ViewIsBoolean DEF SameCall
    <3>3. CASE session.decodeOnly /\ session'.awaiting /\ outcome[2] = "ok"
      BY <2>3, <2>4, <3>1, <3>3, WindowsView, ViewIsBoolean
    <3>. QED
      BY <2>5, <3>2, <3>3
  <2>8. ABI!Returns("reconfigure", {"ok", "invalid", "unachievable", "backend"})
    <3>1. PICK code : code = outcome[2]
      OBVIOUS
    <3>2. code \in {"ok", "invalid", "unachievable", "backend"}
      BY <2>4, <3>1
    <3>. QED
      BY <2>2, <3>1, <3>2, Zenon DEF ABI!Returns
  <2>9. ABI!Reconfigures
    BY <2>3, <2>6, <2>7, <2>8 DEF ABI!Reconfigures, ABI!Idle
  <2>. QED
    BY <2>4, <2>9 DEF ABIStep, ABI!Next, RunGoesOn
<1>5. ASSUME NEW req \in Requests, W!ReconfigureAsks(req) PROVE ABIStep /\ RunGoesOn
  <2>1. PICK cfg : session' = [session EXCEPT !.asked = cfg, !.pending = TRUE, !.done = FALSE]
    BY <1>5, Zenon DEF W!ReconfigureAsks
  <2>2. W!Control("asking") /\ control.pc = "idle" /\ UNCHANGED <<reader, writer, last>>
    BY <1>5 DEF W!ReconfigureAsks, W!Idle
  <2>3. \A part \in ViewParts : session'[part] = session[part]
    BY <1>0, <2>1 DEF WindowsSessions, ViewParts
  <2>4. SameCall
    BY <2>2, ControlIs DEF SameCall, Asking
  <2>. QED
    BY <2>2, <2>3, <2>4, WindowsStutters
<1>. QED
  BY <1>2, <1>3, <1>4, <1>5 DEF W!Changes

LEMMA WindowsThreadKeeps ==
  ASSUME backend = "windows", backend' = "windows", WindowsFits, ~W!Gone, NEW r \in W!Runs,
         W!CaptureThread(r)
  PROVE  ABIStep /\ RunGoesOn
<1>0. session \in WindowsSessions /\ ThreadsFit
  BY DEF WindowsFits
<1>1. UNCHANGED <<control, reader, writer, last>>
  BY DEF W!CaptureThread, W!ThreadEnds, W!ThreadLooks, W!ThreadApplies, W!ThreadAnswers,
         W!ThreadForces, W!ThreadReads, W!ThreadEncodes
<1>2. ASSUME \A part \in ViewParts : session'[part] = session[part] PROVE ABIStep /\ RunGoesOn
  BY <1>1, <1>2, WindowsStutters DEF SameCall
<1>3. CASE W!ThreadEnds(r) \/ W!ThreadLooks(r) \/ W!ThreadReads(r)
  BY <1>2, <1>3 DEF W!ThreadEnds, W!ThreadLooks, W!ThreadReads
<1>4. CASE W!ThreadAnswers(r)
  BY <1>0, <1>2, <1>4 DEF W!ThreadAnswers, WindowsSessions, ViewParts
<1>5. CASE W!ThreadForces(r)
  BY <1>0, <1>2, <1>5 DEF W!ThreadForces, WindowsSessions, ViewParts
<1>6. CASE W!ThreadApplies(r)
  <2>1. PICK outcome \in W!Applied(threads[r].req) : session' = outcome[1]
    BY <1>6, Zenon DEF W!ThreadApplies
  <2>2. threads[r].pc = "applying" /\ threads[r].req \in Configs /\ W!MayMake
    BY <1>0, <1>6 DEF W!ThreadApplies, ThreadsFit, WindowsThreads
  <2>3. session'.state = session.state /\ session'.decodeOnly = session.decodeOnly
        /\ session'.runs = session.runs
    BY <2>1, <2>2, AppliedIsTyped DEF CallParts, FrameParts
  <2>4. session.state # "none" /\ threads[r].pc # "none"
    BY <2>2 DEF W!Gone, W!Live, W!IsOpen
  <2>5. ~session.decodeOnly
    BY <1>0, <2>4 DEF ThreadsFit
  <2>6. session'.awaiting = session.awaiting
    BY <2>1, <2>5, AppliedWaits
  <2>. QED
    BY <1>2, <2>3, <2>6 DEF ViewParts
<1>7. CASE W!ThreadEncodes(r)
  <2>1. CASE session' = session
    BY <1>2, <2>1
  <2>2. ASSUME NEW base, NEW dropped, NEW ring,
               session' = [session EXCEPT !.encoded = @ + 1, !.base = base,
                                          !.dropped = dropped, !.ring = ring]
        PROVE  ABIStep /\ RunGoesOn
    BY <1>0, <1>2, <2>2 DEF WindowsSessions, ViewParts
  <2>3. CASE session' # session
    <3>1. PICK size \in Sizes :
            LET base == IF session.base = W!NoBase THEN session.encoded ELSE session.base
                frame == W!Frame(FALSE, size, session.encoded - base, session.runs)
                fits == size <= session.cfg.ceiling IN
            session' = [session EXCEPT
                 !.encoded = @ + 1, !.base = base,
                 !.dropped = IF fits THEN @ ELSE @ + 1,
                 !.ring = IF fits THEN W!Pushed(@, frame) ELSE @]
      BY <1>7, <2>3, Zenon DEF W!ThreadEncodes
    <3>. QED
      BY <2>2, <3>1, Zenon
  <2>. QED
    BY <2>1, <2>3
<1>. QED
  BY <1>3, <1>4, <1>5, <1>6, <1>7 DEF W!CaptureThread

LEMMA WindowsReadingKeeps ==
  ASSUME backend = "windows", backend' = "windows", WindowsFits, W!Reading
  PROVE  ABIStep /\ RunGoesOn
<1>0. session \in WindowsSessions /\ reader \in Readers
  BY DEF WindowsFits
<1>a. reader.pc = "in" => session.state # "none"
  BY WindowsNothingIsRead DEF WindowsFits
<1>1. ASSUME NEW code, NEW frame, W!ReadReturns(code, frame), reader.pc = "in",
             \A part \in ViewParts : session'[part] = session[part],
             IF session.state # "running" THEN code = "closed"
             ELSE IF session.decodeOnly THEN code = "timeout"
             ELSE code \in {"frame", "timeout", "too_small"}
      PROVE  ABIStep /\ RunGoesOn
  <2>1. /\ reader' = [reader EXCEPT !.pc = "out", !.cap = 0, !.frame = frame]
        /\ last' = Result("read", code) /\ UNCHANGED <<control, writer>>
    BY <1>1 DEF W!ReadReturns, W!Returns, W!Result, Result
  <2>2. reader'.pc = "out"
    BY <1>0, <2>1 DEF Readers
  <2>3. UNCHANGED <<State, DecodesOnly, Waits, Submitting, Outlived>>
    BY <1>1, <2>1, WindowsSame, WriterSame DEF SameCall, ViewParts
  <2>4. DecodesOnly <=> session.decodeOnly
    BY <1>1, <1>a, WindowsView
  <2>5. IF State \notin {"starting", "running"} THEN code = "closed"
        ELSE IF DecodesOnly THEN code = "timeout"
        ELSE code \in {"frame", "timeout", "too_small"}
    BY <1>1, <2>4, WindowsRuns
  <2>. QED
    BY <1>1, <2>1, <2>2, <2>3, <2>5, ReadReturnsKeep DEF ViewParts, RunGoesOn
<1>2. CASE W!ReadClosed
  BY <1>1, <1>2 DEF W!ReadClosed, W!Running
<1>3. CASE W!ReadTimesOut
  BY <1>1, <1>3 DEF W!ReadTimesOut, W!Running
<1>4. CASE W!ReadTakes
  <2>1. reader.pc = "in" /\ session.state = "running" /\ ~session.decodeOnly
    BY <1>4 DEF W!ReadTakes, W!Running, W!Duplex
  <2>2. CASE W!ReadReturns("too_small", reader.frame) /\ session' = session
    BY <1>1, <2>1, <2>2
  <2>3. CASE W!ReadReturns("frame", Head(session.ring)) /\ session' = [session EXCEPT !.ring = Tail(@)]
    <3>1. \A part \in ViewParts : session'[part] = session[part]
      BY <1>0, <2>3 DEF WindowsSessions, ViewParts
    <3>. QED
      BY <1>1, <2>1, <2>3, <3>1
  <2>. QED
    BY <1>4, <2>2, <2>3 DEF W!ReadTakes
<1>5. ASSUME NEW cap \in Buffers, W!ReadBegins(cap) PROVE ABIStep /\ RunGoesOn
  <2>1. /\ session' = session /\ reader' = [reader EXCEPT !.pc = "in", !.cap = cap]
        /\ reader.pc = "out" /\ session.state # "none" /\ UNCHANGED <<control, writer, last>>
    BY <1>5 DEF W!ReadBegins, W!IsOpen
  <2>2. reader'.pc = "in"
    BY <1>0, <2>1 DEF Readers
  <2>3. UNCHANGED <<State, DecodesOnly, Waits, Submitting, Outlived>> /\ State # "none"
    BY <2>1, WindowsSame, WriterSame, WindowsRuns DEF SameCall
  <2>. QED
    BY <2>1, <2>2, <2>3, ReadBeginsKeep DEF RunGoesOn
<1>. QED
  BY <1>2, <1>3, <1>4, <1>5 DEF W!Reading

LEMMA WindowsEncodeSideKeeps ==
  ASSUME backend = "windows", backend' = "windows", WindowsFits, W!EncodeSide
  PROVE  ABIStep /\ RunGoesOn
<1>0. session \in WindowsSessions /\ CallFits
  BY DEF WindowsFits
<1>1. UNCHANGED <<reader, writer>>
  BY DEF W!EncodeSide, W!RequestKeyframe, W!SwitchFails, W!SwitchTearsDown, W!SwitchSetsUp,
         W!SwitchUnfit, W!SwitchFindsNone, W!SwitchGoesBack, W!SwitchEnds, W!SetCapture, W!Refuses
<1>2. /\ \A part \in ViewParts : W!WithoutReader(session)[part] = session[part]
      /\ \A part \in ViewParts : W!NewReader(session)[part] = session[part]
      /\ \A part \in ViewParts : [session EXCEPT !.force = TRUE][part] = session[part]
  BY <1>0 DEF W!WithoutReader, W!NewReader, WindowsSessions, ViewParts
<1>3. CASE W!RequestKeyframe
  <2>1. PICK code :
          /\ last' = Result("keyframe", code) /\ control' = control /\ control.pc = "idle"
          /\ session.state # "none"
          /\ session' = session \/ session' = [session EXCEPT !.force = TRUE]
          /\ code = IF session.state # "running" THEN "state"
                    ELSE IF session.decodeOnly THEN "unsupported" ELSE "ok"
    BY <1>3 DEF W!RequestKeyframe, W!Refuses, W!Returns, W!IsOpen, W!Running, W!Duplex, W!Idle,
                W!Result, Result
  <2>2. \A part \in ViewParts : session'[part] = session[part]
    BY <1>2, <2>1
  <2>3. State = session.state /\ session.state \in {"open", "running"}
        /\ (DecodesOnly <=> session.decodeOnly)
    BY <2>1, WindowsView, WindowsRuns
  <2>4. Answerable("keyframe", code)
    BY <2>1, <2>3 DEF Answerable
  <2>. QED
    BY <1>1, <2>1, <2>2, <2>4, WindowsAnswers DEF SameCall
<1>4. CASE W!SwitchFails
  <2>1. PICK code : /\ W!Refuses("switch", code) /\ control.pc = "idle" /\ session.state # "none"
                    /\ code = IF session.state = "running" THEN "unsupported" ELSE "state"
    BY <1>4 DEF W!SwitchFails, W!Idle, W!Refuses, W!IsOpen, W!Running
  <2>2. State = session.state /\ session.state \in {"open", "running"}
    BY <2>1, WindowsView, WindowsRuns
  <2>3. Answerable("switch", code)
    BY <2>1, <2>2 DEF Answerable
  <2>. QED
    BY <2>1, <2>3, WindowsRefuses
<1>5. ASSUME NEW on \in BOOLEAN, W!SetCapture(on) PROVE ABIStep /\ RunGoesOn
  <2>1. PICK force : session' = session \/ session' = [session EXCEPT !.capture = on, !.force = force]
    BY <1>5, Zenon DEF W!SetCapture
  <2>2. \A part \in ViewParts : session'[part] = session[part]
    BY <1>0, <2>1 DEF WindowsSessions, ViewParts
  <2>3. PICK code \in {"on", "off"} :
          /\ last' = Result("capture", code) /\ control' = control /\ control.pc = "idle"
          /\ session.state # "none"
    BY <1>5 DEF W!SetCapture, W!Returns, W!IsOpen, W!Idle, W!Result, Result
  <2>4. State = session.state /\ session.state \in {"open", "running"}
    BY <2>3, WindowsView, WindowsRuns
  <2>5. Answerable("capture", code)
    BY <2>3, <2>4 DEF Answerable
  <2>. QED
    BY <1>1, <2>2, <2>3, <2>5, WindowsAnswers DEF SameCall
<1>6. CASE W!SwitchTearsDown \/ W!SwitchSetsUp \/ W!SwitchUnfit \/ W!SwitchFindsNone
  <2>1. PICK pc \in Asking :
        /\ control.pc \in {"idle"} \cup Asking /\ last' = last /\ W!Control(pc)
        /\ \/ session' = session \/ session' = W!WithoutReader(session)
           \/ session' = W!NewReader(session)
    BY <1>6 DEF W!SwitchTearsDown, W!SwitchSetsUp, W!SwitchUnfit, W!SwitchFindsNone, W!Idle, Asking
  <2>2. SameCall
    <3>1. control'.pc = pc
      BY <2>1, ControlIs
    <3>. QED
      BY <2>1, <3>1 DEF SameCall
  <2>3. \A part \in ViewParts : session'[part] = session[part]
    BY <1>2, <2>1
  <2>. QED
    BY <1>1, <2>1, <2>2, <2>3, WindowsStutters
<1>7. CASE W!SwitchGoesBack \/ W!SwitchEnds
  <2>1. PICK code \in {"ok", "unsupported"} :
          /\ last' = Result("switch", code) /\ control.pc \in Asking /\ W!Control("idle")
          /\ \/ session' = session \/ session' = W!NewReader(session)
             \/ session' = [session EXCEPT !.force = TRUE]
    BY <1>7 DEF W!SwitchGoesBack, W!SwitchEnds, W!Returns, W!Result, Result, Asking
  <2>2. SameCall
    BY <2>1, ControlIs DEF SameCall
  <2>3. \A part \in ViewParts : session'[part] = session[part]
    BY <1>2, <2>1
  <2>4. State = "running" /\ ~DecodesOnly
    BY <1>0, <2>1, WindowsView DEF CallFits
  <2>5. Answerable("switch", code)
    BY <2>1, <2>4 DEF Answerable
  <2>. QED
    BY <1>1, <2>1, <2>2, <2>3, <2>5, WindowsAnswers
<1>. QED
  BY <1>3, <1>4, <1>5, <1>6, <1>7 DEF W!EncodeSide

LEMMA WindowsUnits ==
  ASSUME NEW unit \in W!AccessUnits
  PROVE  /\ unit.picture \in Pictures /\ W!Submits(unit) = SubmitCall[unit.picture]
         /\ W!IsKey(unit) <=> unit.picture = "idr"
BY DEF W!AccessUnits, W!Submits, W!SubmitCall, W!IsKey, SubmitCall, Pictures

LEMMA WindowsDecodeSideKeeps ==
  ASSUME backend = "windows", backend' = "windows", WindowsFits, WriterFits, W!DecodeSide
  PROVE  ABIStep /\ WriterFits'
<1>0. session \in WindowsSessions /\ SameCall
  BY DEF WindowsFits, W!DecodeSide, W!GetTexture, W!SubmitEnds, W!Submit, W!SubmitFails,
         W!Refuses, SameCall
<1>1. CASE W!GetTexture
  <2>1. PICK code : /\ W!Refuses("texture", code) /\ session.state # "none"
                    /\ IF session.state = "running" THEN code \in {"ok", "unsupported"}
                       ELSE code = "state"
    BY <1>1 DEF W!GetTexture, W!Refuses, W!IsOpen, W!Running
  <2>2. Answerable("texture", code)
    BY <2>1, WindowsRuns DEF Answerable
  <2>3. ABIStep
    BY <2>1, <2>2, WindowsRefuses
  <2>4. UNCHANGED <<session, writer>>
    BY <2>1 DEF W!Refuses
  <2>. QED
    BY <2>3, <2>4 DEF WriterFits
<1>2. ASSUME NEW unit \in W!AccessUnits, W!SubmitFails(unit) PROVE ABIStep /\ WriterFits'
  <2>1. PICK code :
          /\ last' = Result(SubmitCall[unit.picture], code) /\ writer.pc = "out"
          /\ UNCHANGED <<session, control, reader, writer>> /\ session.state # "none"
          /\ code = IF session.state = "running" THEN "decode" ELSE "state"
    BY <1>2, WindowsUnits DEF W!SubmitFails, W!Refuses, W!Returns, W!IsOpen, W!Running, W!Result, Result
  <2>2. UNCHANGED <<State, DecodesOnly, Waits, Submitting, Outlived>>
    BY <1>0, <2>1, WindowsSame, WriterSame
  <2>3. State # "none" /\ Submitting = "out"
    BY <2>1, WindowsRuns DEF Submitting
  <2>. QED
    BY <2>1, <2>2, <2>3, WindowsRuns, WindowsUnits, SubmitKeeps DEF WriterFits
<1>3. ASSUME NEW unit \in W!AccessUnits, W!Submit(unit) PROVE ABIStep /\ WriterFits'
  <2>1. writer.pc = "out" /\ session.state = "running" /\ UNCHANGED <<session, control, reader>>
    BY <1>3 DEF W!Submit, W!Running
  <2>2. UNCHANGED <<State, DecodesOnly, Waits>> /\ Submitting = "out" /\ ~Outlived
        /\ State \in {"starting", "running"} /\ (Waits <=> session.awaiting)
    BY <1>0, <2>1, WindowsSame, WindowsRuns, WindowsView DEF Submitting
  <2>3. CASE session.awaiting /\ unit.picture # "idr"
    <3>1. last' = Result(SubmitCall[unit.picture], "awaiting") /\ writer' = writer
      BY <1>3, <2>3, WindowsUnits DEF W!Submit, W!Returns, W!Result, Result
    <3>2. Outlived' = Outlived
      BY <2>1, <3>1, WindowsView, ViewIsBoolean
    <3>. QED
      BY <2>1, <2>2, <2>3, <3>1, <3>2, WriterSame, WindowsUnits, SubmitKeeps DEF WriterFits
  <2>4. CASE ~(session.awaiting /\ unit.picture # "idr")
    <3>1. /\ writer' = [pc |-> "feeding", dec |-> session.dec, call |-> SubmitCall[unit.picture],
                       run |-> session.runs]
          /\ last' = last
      BY <1>3, <2>4, WindowsUnits DEF W!Submit
    <3>2. Submitting' = ABI!Call(unit.picture)
      BY <3>1 DEF Submitting, ABI!Call, ABI!SubmitCall, SubmitCall
    <3>7. ~Outlived'
      BY <2>1, <3>1, WindowsView
    <3>3. ABI!SubmitBegins(unit.picture)
      BY <2>1, <2>2, <2>4, <3>1, <3>2, <3>7 DEF ABI!SubmitBegins, ABI!Admits, ABI!Running
    <3>4. ABIStep
      BY <3>3, WindowsUnits DEF ABIStep, ABI!Next, Pictures
    <3>5. session'.state # "none" /\ unit.picture \in Pictures
      BY <2>1, WindowsUnits
    <3>6. writer'.pc = "feeding" /\ writer'.call = SubmitCall[unit.picture]
          /\ writer'.run \in Nat /\ writer'.run <= session'.runs
      BY <1>0, <2>1, <3>1, InstanceAssumption DEF WindowsSessions
    <3>. QED
      BY <3>4, <3>5, <3>6, Zenon DEF WriterFits
  <2>. QED
    BY <2>3, <2>4
<1>4. CASE W!SubmitEnds
  <2>1. PICK code \in {"decode", "accepted"} :
          /\ last' = ABI!Result(writer.call, code) /\ writer.pc = "feeding" /\ writer'.pc = "out"
          /\ UNCHANGED <<control, reader>>
          /\ IF code = "decode" THEN session' = session
             ELSE session' = [session EXCEPT !.awaiting = FALSE]
    BY <1>4 DEF W!SubmitEnds, W!NoSubmit, W!Returns, W!Result, ABI!Result
  <2>2. session'.state = session.state /\ session'.decodeOnly = session.decodeOnly
        /\ (code = "accepted" => ~session'.awaiting)
        /\ session.state # "none"
    BY <1>0, <2>1 DEF WindowsSessions, WriterFits
  <2>3. UNCHANGED <<State, DecodesOnly>> /\ (code = "decode" => Waits' = Waits)
    BY <1>0, <2>1, <2>2, WindowsSame
  <2>8. ~Outlived'
    BY <2>1, WindowsView
  <2>4. Submitting = writer.call /\ Submitting # "out" /\ Submitting' = "out"
    <3>1. PICK picture \in Pictures : writer.call = SubmitCall[picture]
      BY <2>1 DEF WriterFits
    <3>2. SubmitCall[picture] # "out"
      BY DEF SubmitCall, Pictures
    <3>. QED
      BY <2>1, <3>1, <3>2 DEF Submitting
  <2>5. reader'.pc = reader.pc
    BY <2>1
  <2>6. ASSUME code = "decode" PROVE ABIStep
    BY <2>1, <2>3, <2>4, <2>5, <2>6, <2>8 DEF ABI!SubmitEnds, ABI!Returns, ABIStep, ABI!Next
  <2>7. ASSUME code = "accepted" PROVE ABIStep
    <3>1. ~Waits'
      BY <2>2, <2>7, WindowsView
    <3>2. CASE Outlived
      <4>1. last' = Result(writer.call, "accepted")
        BY <2>1, <2>7 DEF ABI!Result, Result
      <4>. QED
        BY <2>1, <2>3, <2>5, <3>1, <3>2, <4>1 DEF SubmitOutlives, ABIStep
    <3>3. CASE ~Outlived
      BY <2>1, <2>3, <2>4, <2>5, <2>7, <2>8, <3>1, <3>3
      DEF ABI!SubmitEnds, ABI!Returns, ABIStep, ABI!Next
    <3>. QED
      BY <3>2, <3>3
  <2>. QED
    BY <2>1, <2>6, <2>7 DEF WriterFits
<1>. QED
  BY <1>1, <1>2, <1>3, <1>4 DEF W!DecodeSide

(* A session is not closed under the call that submits. *)
LEMMA OpenWhileSubmitting ==
  ASSUME ABIStep, State # "none", Submitting # "out"
  PROVE  State' # "none"
BY Zenon DEF ABIStep, ABI!Next, ABI!OpenRefused, ABI!Opens, ABI!Reconfigures, ABI!StartBegins,
   ABI!Starts, ABI!StartRefused, ABI!StopBegins, ABI!Stops, ABI!Closes, ABI!ReadBegins,
   ABI!ReadReturns, ABI!SubmitEnds, ABI!GetTexture, ABI!SetCapture, ABI!EncodeCall,
   ABI!SubmitBegins, ABI!SubmitAnswered, ABI!OnlyAnswers, ReadAnswersBackend, SubmitOutlives

LEMMA WindowsKeeps ==
  ASSUME backend = "windows", backend' = "windows", WindowsFits, WindowsFits', WriterFits, WindowsStep
  PROVE  ABIStep /\ WriterFits'
<1>1. ~W!Gone
  BY DEF WindowsStep
<1>2. CASE W!DecodeSide
  BY <1>2, WindowsDecodeSideKeeps
<1>3. CASE \/ W!Lifecycle \/ W!Changes \/ W!Reading \/ W!EncodeSide
           \/ \E r \in W!Runs : W!CaptureThread(r)
  <2>1. ABIStep /\ RunGoesOn
    BY <1>1, <1>3, WindowsLifecycleKeeps, WindowsChangesKeep, WindowsReadingKeeps,
       WindowsEncodeSideKeeps, WindowsThreadKeeps
  <2>2. writer' = writer
    <3>1. CASE W!Lifecycle
      BY <3>1 DEF W!Lifecycle, W!OpenFails, W!Open, W!Start, W!StartMakesThread, W!StartMakesNone,
                  W!StartFails, W!Stop, W!StopIsIdle, W!StopJoins, W!StopClears, W!Close, W!Refuses
    <3>2. CASE W!Changes
      BY <3>2 DEF W!Changes, W!ReconfigureFails, W!ReconfigureEnds, W!Reconfigure,
                  W!ReconfigureAsks, W!Refuses
    <3>3. CASE W!Reading
      BY <3>3 DEF W!Reading, W!ReadClosed, W!ReadTakes, W!ReadTimesOut, W!ReadBegins, W!ReadReturns
    <3>4. CASE W!EncodeSide
      BY <3>4 DEF W!EncodeSide, W!RequestKeyframe, W!SwitchFails, W!SwitchTearsDown,
                  W!SwitchSetsUp, W!SwitchUnfit, W!SwitchFindsNone, W!SwitchGoesBack,
                  W!SwitchEnds, W!SetCapture, W!Refuses
    <3>5. ASSUME NEW r \in W!Runs, W!CaptureThread(r) PROVE writer' = writer
      BY <3>5 DEF W!CaptureThread, W!ThreadEnds, W!ThreadLooks, W!ThreadApplies,
                  W!ThreadAnswers, W!ThreadForces, W!ThreadReads, W!ThreadEncodes
    <3>. QED
      BY <1>3, <3>1, <3>2, <3>3, <3>4, <3>5
  <2>3. CASE writer.pc = "out"
    BY <2>1, <2>2, <2>3 DEF WriterFits
  <2>4. CASE writer.pc # "out"
    <3>1. /\ writer.pc = "feeding" /\ session.state # "none"
          /\ \E picture \in Pictures : writer.call = SubmitCall[picture]
          /\ writer.run \in Nat /\ writer.run <= session.runs
      BY <2>4 DEF WriterFits
    <3>2. State # "none" /\ Submitting # "out"
      BY <2>4, <3>1, WindowsRuns DEF Submitting, SubmitCall, Pictures
    <3>3. State' # "none"
      BY <2>1, <3>2, OpenWhileSubmitting
    <3>4. session'.state # "none"
      <4>1. SUFFICES ASSUME session'.state = "none" PROVE FALSE
        OBVIOUS
      <4>2. control'.pc \in {"idle"} \cup Asking
        BY <4>1 DEF WindowsFits, CallFits, WindowsCalls
      <4>. QED
        BY <3>3, <4>1, <4>2, WindowsView
    <3>5. writer.run <= session'.runs
      <4>1. session.runs \in Nat
        BY InstanceAssumption DEF WindowsFits, WindowsSessions
      <4>. QED
        BY <2>1, <3>1, <4>1 DEF RunGoesOn
    <3>. QED
      BY <2>1, <2>2, <3>1, <3>4, <3>5 DEF WriterFits
  <2>. QED
    BY <2>3, <2>4
<1>. QED
  BY <1>2, <1>3 DEF WindowsStep

-----------------------------------------------------------------------------
(* Every backend *)

ABIFitIn == FramesFitIn /\ WriterFits /\ IdleWaits

LEMMA ABIAtFirst == Init => ABIFitIn /\ ABI!Init
<1>. SUFFICES ASSUME Init PROVE ABIFitIn /\ ABI!Init
  OBVIOUS
<1>1. FramesFitIn /\ writer.pc = "out" /\ control.pc = "idle"
  BY FramesAtFirst DEF Init, W!NoSubmit, W!NoCall
<1>2. Submitting = "out" /\ WriterFits
  BY <1>1 DEF Submitting, WriterFits
<1>3. reader.pc = "out" /\ last = ABI!Result("none", "none") /\ ~Opened /\ State = "none"
  <2>1. CASE backend = "linux" /\ L!Init
    BY <2>1, LinuxNothingIsRead
    DEF L!Init, L!NoRead, L!Result, ABI!Result, Opened, L!IsOpen, State, L!State
  <2>2. CASE backend = "windows" /\ W!Init
    BY <1>1, <2>2, WindowsNothingIsRead, ClosedIsWindows
    DEF W!Init, W!Result, ABI!Result, Opened, W!IsOpen, State, W!State
  <2>3. CASE backend = "mock" /\ M!Init
    BY <2>3, ClosedIsMock
    DEF M!Init, M!NoRead, M!Result, ABI!Result, Opened, M!IsOpen, State, M!Closed
  <2>. QED
    BY <2>1, <2>2, <2>3 DEF Init
<1>4. DecodesOnly = FALSE /\ Waits = TRUE /\ ~Outlived /\ IdleWaits
  BY <1>1, <1>3 DEF DecodesOnly, Waits, Outlived, IdleWaits
<1>. QED
  BY <1>1, <1>2, <1>3, <1>4 DEF ABIFitIn, ABI!Init

LEMMA ABIAlways ==
  ASSUME ABIFitIn, Next
  PROVE  ABIFitIn' /\ ABIStep
<1>1. /\ backend' = backend /\ backend \in {"linux", "windows", "mock"}
      /\ SessionFits /\ WriterFits /\ IdleWaits /\ FramesFitIn' /\ SessionFits'
  BY FramesAlways DEF ABIFitIn, FramesFitIn, Next
<1>2. CASE backend = "linux"
  <2>1. LinuxStep /\ LinuxFits /\ writer.pc = "out"
    BY <1>1, <1>2 DEF Next, WindowsStep, MockStep, SessionFits, WriterFits
  <2>2. writer' = writer
    BY <2>1 DEF LinuxStep
  <2>3. ABIStep
    BY <1>1, <1>2, <2>1, LinuxKeeps
  <2>4. State # "starting" /\ Submitting = "out"
    BY <1>1, <1>2, <2>1, <2>2, LinuxView
  <2>. QED
    BY <1>1, <1>2, <2>1, <2>2, <2>3, <2>4, IdleGoesOnWaiting DEF ABIFitIn, WriterFits
<1>3. CASE backend = "mock"
  <2>1. MockStep /\ MockFits /\ writer.pc = "out"
    BY <1>1, <1>3 DEF Next, WindowsStep, LinuxStep, SessionFits, WriterFits
  <2>2. writer' = writer
    BY <2>1 DEF MockStep
  <2>3. ABIStep
    BY <1>1, <1>3, <2>1, MockKeeps
  <2>4. State # "starting" /\ Submitting = "out"
    <3>1. session.state \in {"none", "open", "running"}
      BY <2>1 DEF MockFits, MockSessions
    <3>. QED
      BY <1>1, <1>3, <2>1, <2>2, <3>1, MockView
  <2>. QED
    BY <1>1, <1>3, <2>1, <2>2, <2>3, <2>4, IdleGoesOnWaiting DEF ABIFitIn, WriterFits
<1>4. CASE backend = "windows"
  <2>1. WindowsStep /\ WindowsFits /\ WindowsFits'
    BY <1>1, <1>4 DEF Next, LinuxStep, MockStep, SessionFits
  <2>. QED
    BY <1>1, <1>4, <2>1, WindowsKeeps DEF ABIFitIn, IdleWaits
<1>. QED
  BY <1>1, <1>2, <1>3, <1>4

LEMMA ABIStays == ABIFitIn /\ UNCHANGED videoVars => ABIFitIn' /\ ABIStep
<1>. SUFFICES ASSUME ABIFitIn, UNCHANGED videoVars PROVE ABIFitIn' /\ ABIStep
  OBVIOUS
<1>1. FramesFitIn'
  BY FramesStay DEF ABIFitIn
<1>2. UNCHANGED <<backend, stage, session, control, reader, writer, last>>
  BY DEF videoVars
<1>3. WriterFits'
  BY <1>2 DEF ABIFitIn, WriterFits
<1>4. UNCHANGED <<State, DecodesOnly, Waits, Submitting, Outlived>>
  BY <1>2 DEF State, DecodesOnly, Waits, Submitting, Outlived, Opened, L!State, L!IsOpen, W!State,
              W!IsOpen, W!Running, M!IsOpen
<1>. QED
  BY <1>1, <1>2, <1>3, <1>4 DEF ABIFitIn, ABIStep, IdleWaits

(* Each backend keeps what cleona_video.h says of which calls succeed in which
   state and direction, of what a read is answered, and of pictures before a
   keyframe, after each start anew, though a Windows session starts and stops
   in more than one step and feeds its decoder without the lock.  It takes no
   step beyond that but the two that are named: a read that answers the
   encoder's failure, and a submit that ends after the stop it outlived. *)
THEOREM EveryVideoBackendKeepsTheABI == Spec => KeepsTheABI
<1>1. ABIFitIn /\ [Next]_videoVars =>
        ABIFitIn' /\ [ABI!Next \/ ReadAnswersBackend \/ SubmitOutlives]_(ABI!abiVars)
  BY ABIAlways, ABIStays DEF ABIStep, ABI!abiVars
<1>. QED
  BY <1>1, ABIAtFirst, PTL DEF Spec, KeepsTheABI
=============================================================================
