------------------------ MODULE VideoSessionsProofs -------------------------
(* Proofs about what a video session holds, for any requests, cameras and
   bounds: the guard of the camera, the types, and the frames, which none of
   the backends loses uncounted or hands out of order. *)
EXTENDS VideoBackends, TLAPS

-----------------------------------------------------------------------------
(* The guard of the camera *)

(* What a session of the Linux backend has claimed, first and second. *)
Claims == stage # "none" /\ ~session.decodeOnly
Claims2 == stage2 # "none" /\ ~session2.decodeOnly

Directed ==
    "decodeOnly" \in DOMAIN session /\ session.decodeOnly \in BOOLEAN
Directed2 ==
    "decodeOnly" \in DOMAIN session2 /\ session2.decodeOnly \in BOOLEAN

(* A step of one session leaves guard and claim, claims a free camera, or
   gives the camera it had back. *)
ClaimStep ==
    /\ Directed' /\ guard' \in BOOLEAN
    /\ \/ guard' = guard /\ (Claims' <=> Claims)
       \/ ~guard /\ guard' /\ Claims'
       \/ Claims /\ ~guard' /\ ~Claims'
ClaimStep2 ==
    /\ Directed2' /\ guard' \in BOOLEAN
    /\ \/ guard' = guard /\ (Claims2' <=> Claims2)
       \/ ~guard /\ guard' /\ Claims2'
       \/ Claims2 /\ ~guard' /\ ~Claims2'

LEMMA ClosedIsDirected ==
  /\ "decodeOnly" \in DOMAIN L!Closed /\ L!Closed.decodeOnly = FALSE
  /\ "decodeOnly" \in DOMAIN T!Closed /\ T!Closed.decodeOnly = FALSE
BY DEF L!Closed, T!Closed

LEMMA TakenDownClaims ==
  ASSUME guard \in BOOLEAN, Directed, NEW call, NEW code, stage # "none",
         L!TakenDown(call, code)
  PROVE  ClaimStep
<1>1. stage' = "none" /\ session' = [L!Closed EXCEPT !.runs = session.runs]
      /\ guard' = IF ~session.decodeOnly THEN FALSE ELSE guard
  BY DEF L!TakenDown, L!GuardGivenBack, L!Duplex
<1>2. Directed'
  BY <1>1, ClosedIsDirected DEF Directed
<1>. QED
  BY <1>1, <1>2 DEF ClaimStep, Claims, Directed

LEMMA OpenClaims ==
  ASSUME guard \in BOOLEAN, Directed, L!Open
  PROVE  ClaimStep
<1>1. CASE L!OpenInvalid \/ L!OpenRefused
  BY <1>1 DEF L!OpenInvalid, L!OpenRefused, ClaimStep, Claims, Directed
<1>2. CASE L!OpenFails
  BY <1>2, TakenDownClaims DEF L!OpenFails
<1>3. CASE L!OpenHasCamera
  BY <1>3 DEF L!OpenHasCamera, ClaimStep, Claims, Directed
<1>4. CASE L!OpenHasDisplay
  BY <1>4 DEF L!OpenHasDisplay, ClaimStep, Claims, Directed
<1>5. CASE L!OpenHasEncoder
  BY <1>5 DEF L!OpenHasEncoder, L!WithEncoder, ClaimStep, Claims, Directed
<1>6. CASE L!OpenHasDecoder
  BY <1>6 DEF L!OpenHasDecoder, ClaimStep, Claims, Directed
<1>7. CASE \E decodeOnly \in BOOLEAN : L!OpenClaims(decodeOnly)
  BY <1>7 DEF L!OpenClaims, ClaimStep, Claims, Directed
<1>8. ASSUME NEW req \in Requests, L!OpenNegotiates(req) PROVE ClaimStep
  <2>1. CASE L!TakenDown("open", "unachievable")
    BY <1>8, <2>1, TakenDownClaims DEF L!OpenNegotiates
  <2>2. CASE ~L!TakenDown("open", "unachievable")
    <3>1. PICK cfg : /\ stage = "negotiate" /\ stage' = "display" /\ guard' = guard
                     /\ session' = [session EXCEPT !.cfg = cfg]
      BY <1>8, <2>2, Zenon DEF L!OpenNegotiates
    <3>. QED
      BY <3>1 DEF ClaimStep, Claims, Directed
  <2>. QED
    BY <2>1, <2>2
<1>. QED
  BY <1>1, <1>2, <1>3, <1>4, <1>5, <1>6, <1>7, <1>8 DEF L!Open

LEMMA LifecycleClaims ==
  ASSUME guard \in BOOLEAN, Directed, L!Lifecycle
  PROVE  ClaimStep
<1>1. CASE L!Open
  BY <1>1, OpenClaims
<1>2. CASE L!Start
  BY <1>2 DEF L!Start, ClaimStep, Claims, Directed
<1>3. CASE L!StartFails
  BY <1>3 DEF L!StartFails, L!Refuses, ClaimStep, Claims, Directed
<1>4. CASE L!Stop
  BY <1>4 DEF L!Stop, ClaimStep, Claims, Directed
<1>5. CASE L!Close
  BY <1>5, TakenDownClaims DEF L!Close, L!IsOpen
<1>. QED
  BY <1>1, <1>2, <1>3, <1>4, <1>5 DEF L!Lifecycle

(* Nothing else claims or gives back. *)
LEMMA ChangesClaim == ASSUME guard \in BOOLEAN, Directed, L!Changes PROVE ClaimStep
<1>1. CASE L!ReconfigureFails
  BY <1>1 DEF L!ReconfigureFails, L!Refuses, ClaimStep, Claims, Directed
<1>2. ASSUME NEW req \in Requests, L!Reconfigure(req) PROVE ClaimStep
  <2>1. UNCHANGED <<guard, stage>>
    BY <1>2 DEF L!Reconfigure, L!Accept
  <2>2. PICK cfg :
          IF cfg.geo = session.cfg.geo THEN L!Accept(cfg, session)
          ELSE \/ L!Accept(cfg, L!WithEncoder(session))
               \/ \E s \in {L!WithEncoder(session), [session EXCEPT !.encoder = FALSE]} :
                    session' = s
    BY <1>2, Zenon DEF L!Reconfigure
  <2>3. CASE L!Accept(cfg, session)
    BY <2>1, <2>3 DEF L!Accept, ClaimStep, Claims, Directed
  <2>4. CASE L!Accept(cfg, L!WithEncoder(session))
    BY <2>1, <2>4 DEF L!Accept, L!WithEncoder, ClaimStep, Claims, Directed
  <2>5. CASE session' = L!WithEncoder(session) \/ session' = [session EXCEPT !.encoder = FALSE]
    BY <2>1, <2>5 DEF L!WithEncoder, ClaimStep, Claims, Directed
  <2>. QED
    BY <2>2, <2>3, <2>4, <2>5
<1>. QED
  BY <1>1, <1>2 DEF L!Changes

LEMMA ReadingClaims == ASSUME guard \in BOOLEAN, Directed, L!Reading PROVE ClaimStep
<1>1. CASE L!ReadClosed \/ L!ReadTimesOut
  BY <1>1 DEF L!ReadClosed, L!ReadTimesOut, L!ReadReturns, ClaimStep, Claims, Directed
<1>2. CASE L!ReadFails
  BY <1>2 DEF L!ReadFails, L!ReadReturns, ClaimStep, Claims, Directed
<1>3. CASE L!ReadEncodes
  <2>1. UNCHANGED <<guard, stage>>
    BY <1>3 DEF L!ReadEncodes, L!ReadReturns
  <2>2. PICK frame, fits : session' = L!Encoded(frame, fits)
    BY <1>3, Zenon DEF L!ReadEncodes
  <2>. QED
    BY <2>1, <2>2 DEF L!Encoded, ClaimStep, Claims, Directed
<1>4. CASE \E cap \in Buffers : L!ReadBegins(cap)
  BY <1>4 DEF L!ReadBegins, ClaimStep, Claims, Directed
<1>. QED
  BY <1>1, <1>2, <1>3, <1>4 DEF L!Reading

LEMMA EncodeSideClaims == ASSUME guard \in BOOLEAN, Directed, L!EncodeSide PROVE ClaimStep
<1>1. CASE L!RequestKeyframe
  BY <1>1 DEF L!RequestKeyframe, L!Refuses, ClaimStep, Claims, Directed
<1>2. CASE L!SwitchFails
  BY <1>2 DEF L!SwitchFails, L!Refuses, ClaimStep, Claims, Directed
<1>3. CASE \E on \in BOOLEAN : L!SetCapture(on)
  BY <1>3 DEF L!SetCapture, ClaimStep, Claims, Directed
<1>4. CASE \E camera \in Cameras : L!SwitchCamera(camera)
  BY <1>4 DEF L!SwitchCamera, L!Switched, ClaimStep, Claims, Directed
<1>. QED
  BY <1>1, <1>2, <1>3, <1>4 DEF L!EncodeSide

LEMMA DecodeSideClaims == ASSUME guard \in BOOLEAN, Directed, L!DecodeSide PROVE ClaimStep
<1>1. CASE L!GetTexture \/ L!SubmitFails
  BY <1>1 DEF L!GetTexture, L!SubmitFails, L!Refuses, ClaimStep, Claims, Directed
<1>2. ASSUME NEW unit \in L!AccessUnits, L!Submit(unit) PROVE ClaimStep
  <2>1. UNCHANGED <<guard, stage>>
    BY <1>2, Zenon DEF L!Submit, L!Answers
  <2>2. PICK params : \/ session' = [session EXCEPT !.params = params]
                      \/ session' = [[session EXCEPT !.params = params]
                                        EXCEPT !.awaiting = FALSE]
    BY <1>2, Zenon DEF L!Submit, L!Answers
  <2>. QED
    BY <2>1, <2>2 DEF ClaimStep, Claims, Directed
<1>. QED
  BY <1>1, <1>2 DEF L!DecodeSide

(* The second session, which comes and goes in the same way. *)
LEMMA TakenDownClaims2 ==
  ASSUME guard \in BOOLEAN, Directed2, NEW call, NEW code, stage2 # "none",
         T!TakenDown(call, code)
  PROVE  ClaimStep2
<1>1. stage2' = "none" /\ session2' = [T!Closed EXCEPT !.runs = session2.runs]
      /\ guard' = IF ~session2.decodeOnly THEN FALSE ELSE guard
  BY DEF T!TakenDown, T!GuardGivenBack, T!Duplex
<1>2. Directed2'
  BY <1>1, ClosedIsDirected DEF Directed2
<1>. QED
  BY <1>1, <1>2 DEF ClaimStep2, Claims2, Directed2

LEMMA OpenClaims2 ==
  ASSUME guard \in BOOLEAN, Directed2, T!Open
  PROVE  ClaimStep2
<1>1. CASE T!OpenInvalid \/ T!OpenRefused
  BY <1>1 DEF T!OpenInvalid, T!OpenRefused, ClaimStep2, Claims2, Directed2
<1>2. CASE T!OpenFails
  BY <1>2, TakenDownClaims2 DEF T!OpenFails
<1>3. CASE T!OpenHasCamera
  BY <1>3 DEF T!OpenHasCamera, ClaimStep2, Claims2, Directed2
<1>4. CASE T!OpenHasDisplay
  BY <1>4 DEF T!OpenHasDisplay, ClaimStep2, Claims2, Directed2
<1>5. CASE T!OpenHasEncoder
  BY <1>5 DEF T!OpenHasEncoder, T!WithEncoder, ClaimStep2, Claims2, Directed2
<1>6. CASE T!OpenHasDecoder
  BY <1>6 DEF T!OpenHasDecoder, ClaimStep2, Claims2, Directed2
<1>7. CASE \E decodeOnly \in BOOLEAN : T!OpenClaims(decodeOnly)
  BY <1>7 DEF T!OpenClaims, ClaimStep2, Claims2, Directed2
<1>8. ASSUME NEW req \in Requests, T!OpenNegotiates(req) PROVE ClaimStep2
  <2>1. CASE T!TakenDown("open", "unachievable")
    BY <1>8, <2>1, TakenDownClaims2 DEF T!OpenNegotiates
  <2>2. CASE ~T!TakenDown("open", "unachievable")
    <3>1. PICK cfg : /\ stage2 = "negotiate" /\ stage2' = "display" /\ guard' = guard
                     /\ session2' = [session2 EXCEPT !.cfg = cfg]
      BY <1>8, <2>2, Zenon DEF T!OpenNegotiates
    <3>. QED
      BY <3>1 DEF ClaimStep2, Claims2, Directed2
  <2>. QED
    BY <2>1, <2>2
<1>. QED
  BY <1>1, <1>2, <1>3, <1>4, <1>5, <1>6, <1>7, <1>8 DEF T!Open

LEMMA LifecycleClaims2 ==
  ASSUME guard \in BOOLEAN, Directed2, T!Lifecycle
  PROVE  ClaimStep2
<1>1. CASE T!Open
  BY <1>1, OpenClaims2
<1>2. CASE T!Start
  BY <1>2 DEF T!Start, ClaimStep2, Claims2, Directed2
<1>3. CASE T!StartFails
  BY <1>3 DEF T!StartFails, T!Refuses, ClaimStep2, Claims2, Directed2
<1>4. CASE T!Stop
  BY <1>4 DEF T!Stop, ClaimStep2, Claims2, Directed2
<1>5. CASE T!Close
  BY <1>5, TakenDownClaims2 DEF T!Close, T!IsOpen
<1>. QED
  BY <1>1, <1>2, <1>3, <1>4, <1>5 DEF T!Lifecycle

(* One claim at most, and the guard is held exactly while there is one. *)
Guarded ==
    backend = "linux" =>
      /\ guard \in BOOLEAN /\ Directed /\ Directed2
      /\ guard <=> Claims \/ Claims2
      /\ ~(Claims /\ Claims2)

LEMMA GuardedAtFirst == Init => Guarded
<1>1. Init => /\ guard = FALSE /\ stage = "none" /\ stage2 = "none"
              /\ session2 = T!Closed
              /\ backend = "linux" => session = L!Closed
  BY Zenon DEF Init, L!Init, T!Init
<1>. QED
  BY <1>1, ClosedIsDirected DEF Guarded, Directed, Directed2, Claims, Claims2

LEMMA GuardedAlways == Guarded /\ [Next]_videoVars => Guarded'
<1>. SUFFICES ASSUME Guarded, [Next]_videoVars, backend' = "linux"
              PROVE  Guarded'
  BY DEF Guarded
<1>1. CASE Next
  <2>1. LinuxStep /\ backend = "linux"
    BY <1>1 DEF Next, WindowsStep, MockStep
  <2>2. CASE ClaimStep /\ UNCHANGED secondVars
    BY <2>1, <2>2 DEF Guarded, ClaimStep, secondVars, Claims2, Directed2
  <2>3. CASE ClaimStep2 /\ UNCHANGED <<stage, session>>
    BY <2>1, <2>3 DEF Guarded, ClaimStep2, Claims, Directed
  <2>4. guard \in BOOLEAN /\ Directed /\ Directed2
    BY <2>1 DEF Guarded
  <2>. QED
    BY <2>1, <2>2, <2>3, <2>4, LifecycleClaims, LifecycleClaims2, ChangesClaim,
       ReadingClaims, EncodeSideClaims, DecodeSideClaims
    DEF LinuxStep
<1>2. CASE UNCHANGED videoVars
  BY <1>2 DEF Guarded, videoVars, secondVars, Claims, Claims2, Directed, Directed2
<1>. QED
  BY <1>1, <1>2

(* On Linux the guard of cleona_video_open is held exactly while one duplex
   session is being opened or is open, whatever fails on the way and whatever
   sessions without a camera come and go beside it. *)
THEOREM CameraIsGuarded == Spec => []CameraGuardHeld
<1>1. Guarded => CameraGuardHeld
  BY DEF Guarded, Claims, Claims2, CameraGuardHeld
<1>. QED
  BY <1>1, GuardedAtFirst, GuardedAlways, PTL DEF Spec

-----------------------------------------------------------------------------
(* Configurations *)

Configs == [geo : Nat, fps : Nat, rate : Nat, ceiling : Nat]

(* What is negotiated is a configuration with a rate. *)
LEMMA BudgetIsConfig ==
  ASSUME NEW req \in Requests, NEW fixed \in Nat, NEW cfg \in M!ByBudget(req, fixed)
  PROVE  cfg \in Configs /\ cfg.fps # 0
<1>1. /\ req \in Configs /\ req.fps # 0
      /\ KeyFactor \in Nat \ {0} /\ MinFrame \in Nat \ {0} /\ MinRate \in Nat \ {0}
  BY InstanceAssumption DEF Configs
<1>. DEFINE budget == req.ceiling \div KeyFactor
            fit == budget * req.fps
            frame == IF fixed > 0 THEN fixed ELSE M!Nominal(req.rate, req.fps)
<1>2. budget \in Nat
  BY <1>1 DEF Configs
<1>3. fit \in Nat
  BY <1>1, <1>2 DEF Configs
<1>4. cfg = [req EXCEPT !.rate = IF frame > budget THEN M!AtMost(@, fit) ELSE @]
  BY Zenon DEF M!ByBudget, M!Unachievable
<1>5. (IF frame > budget THEN M!AtMost(req.rate, fit) ELSE req.rate) \in Nat
  BY <1>1, <1>3 DEF M!AtMost, Configs
<1>. QED
  BY <1>1, <1>4, <1>5 DEF Configs

(* What a nominal frame takes is a number. *)
LEMMA NominalIsNumber ==
  ASSUME NEW rate \in Nat, NEW fps \in Nat \ {0} PROVE M!Nominal(rate, fps) \in Nat
<1>1. MinFrame \in Nat
  BY InstanceAssumption
<1>2. rate \div fps \in Nat
  OBVIOUS
<1>. QED
  BY <1>1, <1>2 DEF M!Nominal, M!AtLeast

-----------------------------------------------------------------------------
(* Frames that wait, and their order *)

FrameSet == [key : BOOLEAN, size : Nat, pts : Nat, run : Nat]
Readers == [pc : {"out", "in"}, cap : Nat, frame : FrameSet]

(* Frames made of which nothing says yet where they went. *)
Balance == session.encoded - session.dropped - Queued

(* What a step may do to the frames: nothing, hand one out, or lose some where
   that is said. *)
FrameStep ==
    \/ ~HandsOut /\ (~Opened' \/ Balance' = Balance)
    \/ HandsOut /\ Balance' = Balance + 1 /\ FrameInOrder
    \/ /\ ~HandsOut /\ Balance' >= Balance /\ backend = "mock"
       /\ last' \in {Result("stop", "ok"), Result("capture", "off"), Result("switch", "ok")}
    \/ /\ ~HandsOut /\ Balance' >= Balance /\ backend = "windows"
       /\ EncodesAFrame => Len(session.ring) = RingFrames /\ Balance' = Balance + 1
       /\ ~EncodesAFrame => control.pc = "clearing"

LEMMA FrameStepSuffices ==
  ASSUME FrameStep, Sees, handed \in Nat, Balance \in Int, Balance' \in Int
  PROVE  NothingVanishes /\ FrameInOrder /\ handed' \in Nat
<1>1. handed' = IF ~Opened' THEN 0 ELSE IF HandsOut THEN handed + 1 ELSE handed
  BY DEF Sees
<1>2. Lost = Balance - handed /\ Lost' = Balance' - handed'
  BY DEF Lost, Balance
<1>3. handed' \in Nat
  BY <1>1
<1>4. FrameInOrder
  <2>1. CASE HandsOut
    BY <2>1 DEF FrameStep
  <2>2. CASE ~HandsOut
    BY <2>2 DEF FrameInOrder
  <2>. QED
    BY <2>1, <2>2
<1>5. ASSUME HandsOut, Balance' = Balance + 1, Opened'  PROVE NothingVanishes
  <2>1. PICK a, c : a = Balance /\ c = handed
    OBVIOUS
  <2>2. a \in Int /\ c \in Nat /\ Lost = a - c /\ Lost' = (a + 1) - (c + 1)
    BY <1>1, <1>2, <1>5, <2>1
  <2>3. Lost' = Lost
    BY <2>2
  <2>. QED
    BY <2>2, <2>3 DEF NothingVanishes
<1>6. ASSUME ~HandsOut, Opened'  PROVE NothingVanishes
  <2>1. PICK a, b, c : a = Balance /\ b = Balance' /\ c = handed
    OBVIOUS
  <2>2. a \in Int /\ b \in Int /\ c \in Nat /\ Lost = a - c /\ Lost' = b - c
    BY <1>1, <1>2, <1>6, <2>1
  <2>3. /\ b = a => Lost' = Lost
        /\ b >= a => Lost' = Lost \/ Lost' > Lost
        /\ b = a + 1 => Lost' = Lost + 1
    BY <2>2
  <2>4. CASE b = a
    BY <2>3, <2>4, Zenon DEF NothingVanishes
  <2>5. CASE /\ b >= a /\ backend = "mock"
             /\ last' \in {Result("stop", "ok"), Result("capture", "off"), Result("switch", "ok")}
    BY <2>3, <2>5, Zenon DEF NothingVanishes
  <2>6. CASE /\ b >= a /\ backend = "windows"
             /\ EncodesAFrame => Len(session.ring) = RingFrames /\ b = a + 1
             /\ ~EncodesAFrame => control.pc = "clearing"
    BY <2>3, <2>6, Zenon DEF NothingVanishes
  <2>. QED
    BY <1>6, <2>1, <2>4, <2>5, <2>6, Zenon DEF FrameStep
<1>7. ASSUME ~Opened'  PROVE NothingVanishes
  BY <1>7, Zenon DEF NothingVanishes
<1>. QED
  BY <1>3, <1>4, <1>5, <1>6, <1>7, Zenon DEF FrameStep

LEMMA TimeMovesOn ==
  ASSUME NEW fps \in 1 .. Second PROVE Second \div fps \in Nat \ {0}
<1>1. Second \in Nat \ {0} /\ fps \in Nat \ {0} /\ fps <= Second
  BY InstanceAssumption
<1>. DEFINE n == Second \div fps
<1>2. n \in Int /\ n >= 0
  BY <1>1
<1>3. n # 0
  BY <1>1
<1>. QED
  BY <1>2, <1>3

-----------------------------------------------------------------------------
(* The frames of the mock *)

Waiting == {<<>>} \cup {<<frame>> : frame \in FrameSet}

MockSessions ==
    [state : {"none", "open", "running"}, runs : 0 .. MaxRuns, decodeOnly : BOOLEAN,
     cfg : Configs, fixed : Nat, texture : BOOLEAN, capture : BOOLEAN, force : BOOLEAN,
     pts : Nat, pending : Waiting, awaiting : BOOLEAN, encoded : 0 .. MaxFrames,
     dropped : Nat, latest : FrameSet]

(* The frame that waits is of this start and later than what was read. *)
MockFits ==
    /\ session \in MockSessions /\ reader \in Readers
    /\ session.dropped + Len(session.pending) <= session.encoded
    /\ session.state = "none" => reader = M!NoRead /\ session.encoded = 0
    /\ session.state # "none" => session.cfg.fps \in 1 .. Second
    /\ reader.frame.run <= session.runs
    /\ reader.frame = NoFrame \/ reader.frame.pts < session.pts
    /\ session.pending # <<>> =>
         /\ session.state = "running"
         /\ session.pending[1].run = session.runs
         /\ session.pending[1].pts < session.pts
         /\ reader.frame = NoFrame \/ reader.frame.pts < session.pending[1].pts

LEMMA WaitingIsShort ==
  ASSUME NEW p \in Waiting
  PROVE  /\ Len(p) \in Nat /\ Len(p) <= 1
         /\ p = <<>> => Len(p) = 0
         /\ p # <<>> => Len(p) = 1 /\ p[1] \in FrameSet
<1>1. CASE p = <<>>
  BY <1>1
<1>2. ASSUME NEW frame \in FrameSet, p = <<frame>>
      PROVE  Len(p) = 1 /\ p[1] \in FrameSet
  <2>1. Len(<<frame>>) = 1 /\ <<frame>>[1] = frame
    OBVIOUS
  <2>. QED
    BY <1>2, <2>1, Zenon
<1>3. p = <<>> \/ \E frame \in FrameSet : p = <<frame>>
  BY Zenon DEF Waiting
<1>. QED
  BY <1>1, <1>2, <1>3

(* What waits, seen of each backend. *)
LEMMA MockSees ==
  /\ backend = "mock" =>
       /\ Balance = session.encoded - session.dropped - Len(session.pending)
       /\ Opened <=> session.state # "none"
  /\ backend' = "mock" =>
       /\ Balance' = session'.encoded - session'.dropped - Len(session'.pending)
       /\ Opened' <=> session'.state # "none"
BY DEF Balance, Queued, Opened, M!IsOpen

LEMMA MockIsTyped ==
  ASSUME MockFits
  PROVE  /\ session.encoded \in Nat /\ session.dropped \in Nat /\ session.pending \in Waiting
         /\ session.runs \in Nat /\ session.pts \in Nat /\ Len(session.pending) \in Nat
BY WaitingIsShort, InstanceAssumption DEF MockFits, MockSessions

LEMMA NothingIsRead ==
  /\ NoFrame \in FrameSet /\ NoFrame.run = 0
  /\ M!NoRead \in Readers /\ M!NoRead.frame = NoFrame
<1>1. NoFrame \in FrameSet /\ NoFrame.run = 0
  BY DEF NoFrame, Frame, FrameSet
<1>2. M!NoRead = [pc |-> "out", cap |-> 0, frame |-> NoFrame]
  BY DEF M!NoRead, M!NoFrame, M!Frame, NoFrame, Frame
<1>. QED
  BY <1>1, <1>2 DEF Readers

LEMMA ClosedIsMock ==
  /\ M!Closed \in MockSessions
  /\ M!Closed.state = "none" /\ M!Closed.encoded = 0
  /\ M!Closed.dropped = 0 /\ M!Closed.pending = <<>>
<1>1. M!Closed = [state |-> "none", runs |-> 0, decodeOnly |-> FALSE, cfg |-> M!NoConfig,
     fixed |-> 0, texture |-> TRUE,
     capture |-> FALSE, force |-> FALSE, pts |-> 0, pending |-> <<>>,
     awaiting |-> TRUE, encoded |-> 0, dropped |-> 0, latest |-> M!NoFrame]
  BY DEF M!Closed
<1>2. M!NoConfig \in Configs /\ M!NoFrame \in FrameSet /\ MaxFrames \in Nat /\ MaxRuns \in Nat
  BY InstanceAssumption DEF M!NoConfig, Configs, M!NoFrame, M!Frame, FrameSet
<1>. QED
  BY <1>1, <1>2 DEF MockSessions, Waiting

(* What is negotiated has the rate of what was asked. *)
LEMMA BudgetIsSlow ==
  ASSUME NEW req \in Requests, NEW fixed \in Nat, NEW cfg \in M!ByBudget(req, fixed)
  PROVE  cfg \in Configs /\ cfg.fps \in 1 .. Second
<1>1. cfg \in Configs /\ cfg.fps # 0
  BY BudgetIsConfig
<1>2. cfg.fps = req.fps
  <2>1. PICK rate : cfg = [req EXCEPT !.rate = rate]
    BY Zenon DEF M!ByBudget, M!Unachievable
  <2>2. "fps" \in DOMAIN req
    BY InstanceAssumption
  <2>. QED
    BY <2>1, <2>2
<1>3. req.fps <= Second /\ Second \in Nat
  BY InstanceAssumption, RateAssumption
<1>. QED
  BY <1>1, <1>2, <1>3 DEF Configs

(* A step that leaves the frames as they are. *)
LEMMA MockQuietFrames ==
  ASSUME backend = "mock", backend' = "mock", MockFits,
         session' \in MockSessions, reader' \in Readers,
         \A part \in {"state", "pending", "encoded", "dropped", "runs", "pts"} :
           session'[part] = session[part],
         session.state # "none" => session'.cfg.fps \in 1 .. Second,
         reader'.frame = reader.frame, session.state = "none" => reader' = reader,
         ~HandsOut
  PROVE  MockFits' /\ FrameStep
<1>1. /\ session'.state = session.state /\ session'.pending = session.pending
      /\ session'.encoded = session.encoded /\ session'.dropped = session.dropped
      /\ session'.runs = session.runs /\ session'.pts = session.pts
  OBVIOUS
<1>2. Balance' = Balance
  BY <1>1, MockSees
<1>3. MockFits'
  BY <1>1 DEF MockFits
<1>. QED
  BY <1>2, <1>3 DEF FrameStep

(* A step that takes away the frame that waits, and says so. *)
LEMMA MockClears ==
  ASSUME backend = "mock", backend' = "mock", MockFits, reader' = reader, ~HandsOut,
         NEW s \in MockSessions, NEW force \in BOOLEAN,
         session' = [s EXCEPT !.force = force, !.pending = <<>>],
         s = session \/ \E on \in BOOLEAN : s = [session EXCEPT !.capture = on],
         last' \in {Result("stop", "ok"), Result("capture", "off"), Result("switch", "ok")}
  PROVE  MockFits' /\ FrameStep
<1>1. session \in MockSessions
  BY DEF MockFits
<1>2. /\ s.state = session.state /\ s.encoded = session.encoded /\ s.dropped = session.dropped
      /\ s.cfg = session.cfg /\ s.pts = session.pts /\ s.runs = session.runs
  BY <1>1 DEF MockSessions
<1>3. <<>> \in Waiting
  BY DEF Waiting
<1>4. /\ session' \in MockSessions /\ session'.state = s.state
      /\ session'.encoded = s.encoded /\ session'.dropped = s.dropped
      /\ session'.cfg = s.cfg /\ session'.pts = s.pts /\ session'.pending = <<>>
      /\ session'.runs = s.runs
  BY <1>3 DEF MockSessions
<1>5. MockFits'
  BY <1>2, <1>4, MockIsTyped DEF MockFits
<1>6. Balance' >= Balance
  BY <1>2, <1>4, MockSees, MockIsTyped
<1>. QED
  BY <1>5, <1>6 DEF FrameStep

LEMMA MockLifecycleFrames ==
  ASSUME backend = "mock", backend' = "mock", MockFits, M!Lifecycle
  PROVE  MockFits' /\ FrameStep
<1>0. /\ session \in MockSessions /\ reader \in Readers
      /\ session.state # "none" => session.cfg.fps \in 1 .. Second
  BY DEF MockFits
<1>1. CASE M!OpenFails \/ M!StartFails
  <2>1. session' = session /\ reader' = reader /\ ~HandsOut
    BY <1>1 DEF M!OpenFails, M!StartFails, M!Refuses, M!Returns, M!Result, Result, HandsOut
  <2>. QED
    BY <1>0, <2>1, MockQuietFrames
<1>2. CASE M!Start
  <2>1. /\ session' = [session EXCEPT !.state = "running", !.runs = @ + 1, !.force = TRUE]
        /\ session.state = "open" /\ session.runs < MaxRuns
        /\ reader' = reader /\ ~HandsOut
    BY <1>2 DEF M!Start, M!Returns, M!Result, Result, HandsOut
  <2>2. session' \in MockSessions
    <3>1. MaxRuns \in Nat
      BY InstanceAssumption
    <3>2. session.runs + 1 \in 0 .. MaxRuns
      BY <1>0, <2>1, <3>1 DEF MockSessions
    <3>. QED
      BY <1>0, <2>1, <3>2 DEF MockSessions
  <2>3. /\ session'.state = "running" /\ session'.pending = session.pending
        /\ session'.encoded = session.encoded /\ session'.dropped = session.dropped
        /\ session'.cfg = session.cfg /\ session'.pts = session.pts
    BY <1>0, <2>1 DEF MockSessions
  <2>4. MockFits'
    <3>1. reader.frame.run <= session.runs /\ reader.frame.run \in Nat /\ session.runs \in Nat
      BY <1>0, MockIsTyped DEF MockFits, Readers, FrameSet
    <3>2. session'.runs = session.runs + 1
      BY <1>0, <2>1 DEF MockSessions
    <3>3. reader'.frame.run <= session'.runs
      BY <2>1, <3>1, <3>2
    <3>4. session.pending = <<>>
      BY <2>1 DEF MockFits
    <3>. QED
      BY <2>1, <2>2, <2>3, <3>3, <3>4 DEF MockFits
  <2>5. Balance' = Balance
    BY <2>3, MockSees
  <2>. QED
    BY <2>1, <2>4, <2>5 DEF FrameStep
<1>3. CASE M!Stop
  <2>1. /\ session' = [session EXCEPT !.state = "open", !.pending = <<>>, !.awaiting = TRUE]
        /\ reader' = reader /\ ~HandsOut /\ last' = Result("stop", "ok")
        /\ session.state # "none"
    BY <1>3 DEF M!Stop, M!Stopped, M!IsOpen, M!Returns, M!Result, Result, HandsOut
  <2>2. session' \in MockSessions
    BY <1>0, <2>1 DEF MockSessions, Waiting
  <2>3. /\ session'.state = "open" /\ session'.pending = <<>>
        /\ session'.encoded = session.encoded /\ session'.dropped = session.dropped
        /\ session'.cfg = session.cfg /\ session'.pts = session.pts
    BY <1>0, <2>1 DEF MockSessions
  <2>4. MockFits'
    BY <2>1, <2>2, <2>3, MockIsTyped DEF MockFits
  <2>5. Balance' >= Balance
    BY <2>3, MockSees, MockIsTyped
  <2>. QED
    BY <2>1, <2>4, <2>5 DEF FrameStep
<1>4. CASE M!Close
  <2>1. /\ session' = [M!Closed EXCEPT !.runs = session.runs]
        /\ reader' = M!NoRead /\ ~HandsOut
    BY <1>4 DEF M!Close, M!Returns, M!Result, Result, HandsOut
  <2>2. /\ session' \in MockSessions /\ session'.state = "none" /\ session'.encoded = 0
        /\ session'.dropped = 0 /\ session'.pending = <<>>
    BY <1>0, <2>1, ClosedIsMock DEF MockSessions
  <2>3. M!NoRead \in Readers /\ M!NoRead.frame = NoFrame
    BY NothingIsRead
  <2>4. MockFits'
    <3>1. reader'.frame.run <= session'.runs
      BY <2>1, <2>2, <2>3, NothingIsRead, InstanceAssumption DEF MockSessions
    <3>. QED
      BY <2>1, <2>2, <2>3, <3>1 DEF MockFits
  <2>5. ~Opened'
    BY <2>2, MockSees
  <2>. QED
    BY <2>1, <2>4, <2>5 DEF FrameStep
<1>5. ASSUME NEW req \in Requests, NEW decodeOnly \in BOOLEAN, M!Open(req, decodeOnly)
      PROVE  MockFits' /\ FrameStep
  <2>1. PICK cfg \in M!ByBudget(req, 0) :
          session' = [M!Closed EXCEPT
           !.state = "open", !.runs = session.runs, !.decodeOnly = decodeOnly,
           !.cfg = cfg, !.capture = ~decodeOnly]
    BY <1>5, Zenon DEF M!Open
  <2>2. reader' = reader /\ ~HandsOut /\ session.state = "none"
    BY <1>5 DEF M!Open, M!IsOpen, M!Returns, M!Result, Result, HandsOut
  <2>3. cfg \in Configs /\ cfg.fps \in 1 .. Second
    BY BudgetIsSlow
  <2>4. /\ session' \in MockSessions /\ session'.state = "open" /\ session'.encoded = 0
        /\ session'.dropped = 0 /\ session'.pending = <<>> /\ session'.cfg = cfg
    BY <1>0, <2>1, <2>3, ClosedIsMock DEF MockSessions
  <2>5. reader.frame = NoFrame /\ session.encoded = 0 /\ session.dropped = 0
        /\ Len(session.pending) = 0
    BY <2>2, NothingIsRead, MockIsTyped DEF MockFits
  <2>6. MockFits'
    <3>1. reader'.frame.run <= session'.runs
      BY <2>2, <2>4, <2>5, NothingIsRead, InstanceAssumption DEF MockSessions
    <3>. QED
      BY <1>0, <2>2, <2>3, <2>4, <2>5, <3>1 DEF MockFits
  <2>7. Balance' = Balance
    BY <2>4, <2>5, MockSees
  <2>. QED
    BY <2>2, <2>6, <2>7 DEF FrameStep
<1>. QED
  BY <1>1, <1>2, <1>3, <1>4, <1>5 DEF M!Lifecycle

(* A frame that outgrows the new ceiling is counted when it goes. *)
LEMMA MockChangesFrames ==
  ASSUME backend = "mock", backend' = "mock", MockFits, M!Changes
  PROVE  MockFits' /\ FrameStep
<1>0. /\ session \in MockSessions /\ reader \in Readers
      /\ session.state # "none" => session.cfg.fps \in 1 .. Second
  BY DEF MockFits
<1>1. CASE M!ReconfigureFails
  <2>1. session' = session /\ reader' = reader /\ ~HandsOut
    BY <1>1 DEF M!ReconfigureFails, M!Refuses, M!Returns, M!Result, Result, HandsOut
  <2>. QED
    BY <1>0, <2>1, MockQuietFrames
<1>2. ASSUME NEW req \in Requests, M!Reconfigure(req) PROVE MockFits' /\ FrameStep
  <2>1. PICK cfg \in M!ByBudget(req, session.fixed), force \in BOOLEAN :
          session' = M!Purged([session EXCEPT !.cfg = cfg, !.force = force])
    <3>1. PICK cfg \in M!ByBudget(req, session.fixed) :
            session' = M!Purged([session EXCEPT
              !.cfg = cfg, !.force = @ \/ cfg.geo # session.cfg.geo])
      BY <1>2, Zenon DEF M!Reconfigure
    <3>2. (session.force \/ cfg.geo # session.cfg.geo) \in BOOLEAN
      BY <1>0 DEF MockSessions
    <3>. QED
      BY <3>1, <3>2, Zenon
  <2>2. cfg \in Configs /\ cfg.fps \in 1 .. Second
    BY <1>0, <2>1, BudgetIsSlow DEF MockSessions
  <2>3. reader' = reader /\ ~HandsOut /\ session.state # "none"
    BY <1>2 DEF M!Reconfigure, M!IsOpen, M!Returns, M!Result, Result, HandsOut
  <2>. DEFINE s == [session EXCEPT !.cfg = cfg, !.force = force]
  <2>4. /\ s \in MockSessions
        /\ \A part \in {"state", "pending", "encoded", "dropped", "runs", "pts"} :
             s[part] = session[part]
        /\ s.cfg = cfg
    BY <1>0, <2>2 DEF MockSessions
  <2>5. \/ session' = s
        \/ s.pending # <<>> /\ session' = [s EXCEPT !.pending = <<>>, !.dropped = @ + 1]
    BY <2>1, Zenon DEF M!Purged, M!Outgrown
  <2>. HIDE DEF s
  <2>6. CASE session' = s
    BY <1>0, <2>2, <2>3, <2>4, <2>6, MockQuietFrames
  <2>7. CASE s.pending # <<>> /\ session' = [s EXCEPT !.pending = <<>>, !.dropped = @ + 1]
    <3>1. /\ s.state = session.state /\ s.pending = session.pending
          /\ s.encoded = session.encoded /\ s.dropped = session.dropped
          /\ s.runs = session.runs /\ s.pts = session.pts
      BY <2>4
    <3>2. /\ session' \in MockSessions /\ session'.pending = <<>>
          /\ session'.state = session.state /\ session'.encoded = session.encoded
          /\ session'.dropped = session.dropped + 1 /\ session'.runs = session.runs
          /\ session'.pts = session.pts /\ session'.cfg = cfg
      <4>1. <<>> \in Waiting
        BY DEF Waiting
      <4>2. s \in MockSessions /\ s.cfg = cfg
        BY <2>4
      <4>3. /\ session' \in MockSessions /\ session'.pending = <<>>
            /\ session'.state = s.state /\ session'.encoded = s.encoded
            /\ session'.dropped = s.dropped + 1 /\ session'.runs = s.runs
            /\ session'.pts = s.pts /\ session'.cfg = s.cfg
        <5>1. PICK t : t = s
          OBVIOUS
        <5>2. t \in MockSessions /\ session' = [t EXCEPT !.pending = <<>>, !.dropped = @ + 1]
          BY <2>7, <4>2, <5>1, Zenon
        <5>4. t.dropped + 1 \in Nat
          BY <5>2 DEF MockSessions
        <5>3. /\ session' \in MockSessions /\ session'.pending = <<>>
              /\ session'.state = t.state /\ session'.encoded = t.encoded
              /\ session'.dropped = t.dropped + 1 /\ session'.runs = t.runs
              /\ session'.pts = t.pts /\ session'.cfg = t.cfg
          BY <4>1, <5>2, <5>4 DEF MockSessions
        <5>. QED
          BY <5>1, <5>3, Zenon
      <4>. QED
        BY <3>1, <4>2, <4>3, Zenon
    <3>3. Len(session.pending) = 1 /\ Len(session'.pending) = 0
      BY <2>7, <3>1, <3>2, MockIsTyped, WaitingIsShort
    <3>4. Balance' = Balance
      BY <3>2, <3>3, MockSees, MockIsTyped
    <3>5. MockFits'
      BY <2>2, <2>3, <3>2, <3>3, MockIsTyped DEF MockFits
    <3>. QED
      BY <2>3, <3>4, <3>5 DEF FrameStep
  <2>. QED
    BY <2>5, <2>6, <2>7
<1>3. ASSUME NEW size \in {0, 2}, M!MockSetFrameBytes(size) PROVE MockFits' /\ FrameStep
  <2>1. session' = [session EXCEPT !.fixed = size] /\ reader' = reader /\ ~HandsOut
    BY <1>3 DEF M!MockSetFrameBytes, HandsOut
  <2>2. /\ session' \in MockSessions /\ session'.cfg = session.cfg
        /\ \A part \in {"state", "pending", "encoded", "dropped", "runs", "pts"} :
             session'[part] = session[part]
    BY <1>0, <2>1 DEF MockSessions
  <2>. QED
    BY <1>0, <2>1, <2>2, MockQuietFrames
<1>. QED
  BY <1>1, <1>2, <1>3 DEF M!Changes

(* A frame is made with the time of the session, which moves on, and is
   handed out or counted before the next is made. *)
LEMMA MockReadingFrames ==
  ASSUME backend = "mock", backend' = "mock", MockFits, M!Reading
  PROVE  MockFits' /\ FrameStep
<1>0. /\ session \in MockSessions /\ reader \in Readers
      /\ session.state # "none" => session.cfg.fps \in 1 .. Second
  BY DEF MockFits
<1>1. CASE M!ReadClosed \/ M!ReadTimesOut
  <2>1. session' = session /\ ~HandsOut /\ reader.pc = "in"
        /\ reader' = [reader EXCEPT !.pc = "out", !.cap = 0, !.frame = reader.frame]
    BY <1>1 DEF M!ReadClosed, M!ReadTimesOut, M!ReadReturns, M!Returns, M!Result, Result, HandsOut
  <2>2. reader' \in Readers /\ reader'.frame = reader.frame
    BY <1>0, <2>1 DEF Readers
  <2>3. session.state # "none"
    BY <2>1 DEF MockFits, M!NoRead
  <2>. QED
    BY <1>0, <2>1, <2>2, <2>3, MockQuietFrames
<1>2. CASE M!ReadTakes
  <2>1. session.pending # <<>> /\ session.state = "running" /\ reader.pc = "in"
    BY <1>2 DEF M!ReadTakes, M!Running
  <2>2. CASE M!ReadReturns("too_small", reader.frame) /\ UNCHANGED session
    <3>1. session' = session /\ ~HandsOut
          /\ reader' = [reader EXCEPT !.pc = "out", !.cap = 0, !.frame = reader.frame]
      BY <2>2 DEF M!ReadReturns, M!Returns, M!Result, Result, HandsOut
    <3>2. reader' \in Readers /\ reader'.frame = reader.frame
      BY <1>0, <3>1 DEF Readers
    <3>. QED
      BY <1>0, <2>1, <3>1, <3>2, MockQuietFrames
  <2>3. CASE /\ M!ReadReturns("frame", session.pending[1])
             /\ session' = [session EXCEPT !.pending = <<>>]
    <3>1. reader' = [reader EXCEPT !.pc = "out", !.cap = 0, !.frame = session.pending[1]]
      BY <2>3 DEF M!ReadReturns
    <3>2. session.pending[1] \in FrameSet /\ Len(session.pending) = 1
      BY <2>1, MockIsTyped, WaitingIsShort
    <3>3. reader' \in Readers /\ reader'.frame = session.pending[1] /\ reader'.pc = "out"
      BY <1>0, <3>1, <3>2 DEF Readers
    <3>4. HandsOut
      BY <2>1, <2>3, <3>3 DEF M!ReadReturns, M!Returns, M!Result, Result, HandsOut
    <3>5. /\ session' \in MockSessions /\ session'.pending = <<>>
          /\ session'.state = session.state /\ session'.encoded = session.encoded
          /\ session'.dropped = session.dropped /\ session'.pts = session.pts
          /\ session'.cfg = session.cfg /\ Len(session'.pending) = 0
          /\ session'.runs = session.runs
      BY <1>0, <2>3 DEF MockSessions, Waiting
    <3>6. Balance' = Balance + 1
      BY <3>2, <3>5, MockSees, MockIsTyped
    <3>7. MockFits'
      <4>1. reader'.frame.run <= session'.runs
        BY <2>1, <3>3, <3>5, MockIsTyped DEF MockFits
      <4>. QED
        BY <2>1, <3>2, <3>3, <3>5, <4>1, MockIsTyped DEF MockFits
    <3>8. FrameInOrder
      BY <2>1, <3>3 DEF FrameInOrder, MockFits
    <3>. QED
      BY <3>4, <3>6, <3>7, <3>8 DEF FrameStep
  <2>. QED
    BY <1>2, <2>2, <2>3 DEF M!ReadTakes
<1>3. CASE M!ReadProduces
  <2>1. PICK interval, blownUp : session' = M!Produced(interval, blownUp)
    BY <1>3, Zenon DEF M!ReadProduces
  <2>2. /\ reader' = reader /\ session.state = "running" /\ session.pending = <<>>
        /\ session.encoded < MaxFrames /\ ~HandsOut
    BY <1>3 DEF M!ReadProduces, M!MayProduce, M!Running, HandsOut
  <2>. DEFINE key == session.force \/ interval
              nominal == IF session.fixed > 0 THEN session.fixed
                         ELSE M!Nominal(session.cfg.rate, session.cfg.fps)
              size == IF blownUp THEN session.cfg.ceiling + 1
                      ELSE IF key THEN nominal * KeyFactor ELSE nominal
              frame == M!Frame(key, size, session.pts, session.runs)
  <2>3. M!Nominal(session.cfg.rate, session.cfg.fps) \in Nat
    <3>1. session.cfg.rate \in Nat /\ session.cfg.fps \in Nat \ {0}
      BY <1>0, <2>2, InstanceAssumption DEF MockSessions, Configs
    <3>. QED
      BY <3>1, NominalIsNumber
  <2>4. size \in Nat
    <3>1. nominal \in Nat
      BY <1>0, <2>3 DEF MockSessions
    <3>2. KeyFactor \in Nat
      BY InstanceAssumption
    <3>3. session.cfg.ceiling \in Nat
      BY <1>0 DEF MockSessions, Configs
    <3>. HIDE DEF nominal
    <3>. QED
      BY <3>1, <3>2, <3>3
  <2>5. frame \in FrameSet /\ frame.pts = session.pts /\ frame.run = session.runs
    <3>1. session.pts \in Nat /\ session.runs \in Nat /\ key \in BOOLEAN
      BY <1>0, <2>1, MockIsTyped DEF MockSessions
    <3>. HIDE DEF size, key
    <3>. QED
      BY <2>4, <3>1 DEF M!Frame, FrameSet
  <2>6. session' = [session EXCEPT
                      !.pts = @ + Second \div session.cfg.fps, !.force = FALSE,
                      !.encoded = @ + 1, !.latest = frame,
                      !.dropped = IF size <= session.cfg.ceiling THEN @ ELSE @ + 1,
                      !.pending = IF size <= session.cfg.ceiling THEN <<frame>> ELSE <<>>]
    BY <2>1, ZenonT(60) DEF M!Produced
  <2>7. PICK moved : moved = Second \div session.cfg.fps
    OBVIOUS
  <2>8. moved \in Nat \ {0}
    BY <1>0, <2>2, <2>7, TimeMovesOn
  <2>9. PICK dropped, pending :
          /\ session' = [session EXCEPT
               !.pts = @ + moved, !.force = FALSE, !.encoded = @ + 1, !.latest = frame,
               !.dropped = dropped, !.pending = pending]
          /\ \/ dropped = session.dropped /\ pending = <<frame>>
             \/ dropped = session.dropped + 1 /\ pending = <<>>
    <3>1. CASE size <= session.cfg.ceiling
      BY <2>6, <2>7, <3>1, Zenon
    <3>2. CASE ~(size <= session.cfg.ceiling)
      BY <2>6, <2>7, <3>2, Zenon
    <3>. QED
      BY <3>1, <3>2
  <2>. HIDE DEF size, frame
  <2>11. session.encoded + 1 \in 0 .. MaxFrames /\ session.pts + moved \in Nat
    <3>1. MaxFrames \in Nat
      BY InstanceAssumption
    <3>. QED
      BY <2>2, <2>8, <3>1, MockIsTyped
  <2>12. pending \in Waiting /\ dropped \in Nat
    <3>1. <<frame>> \in Waiting /\ <<>> \in Waiting
      BY <2>5, Zenon DEF Waiting
    <3>. QED
      BY <2>9, <3>1, MockIsTyped
  <2>13. /\ session' \in MockSessions /\ session'.pts = session.pts + moved
         /\ session'.encoded = session.encoded + 1
         /\ session'.dropped = dropped /\ session'.pending = pending
         /\ session'.state = "running" /\ session'.cfg = session.cfg
         /\ session'.runs = session.runs
    BY <1>0, <2>2, <2>5, <2>9, <2>11, <2>12 DEF MockSessions
  <2>14. Len(session.pending) = 0
    BY <2>2
  <2>15. Len(<<frame>>) = 1 /\ <<frame>>[1] = frame
    OBVIOUS
  <2>16. \/ /\ dropped = session.dropped /\ pending # <<>>
            /\ Len(pending) = 1 /\ pending[1] = frame
         \/ dropped = session.dropped + 1 /\ pending = <<>> /\ Len(pending) = 0
    <3>1. CASE dropped = session.dropped /\ pending = <<frame>>
      BY <2>15, <3>1
    <3>2. CASE dropped = session.dropped + 1 /\ pending = <<>>
      BY <3>2
    <3>. QED
      BY <2>9, <3>1, <3>2
  <2>17. /\ session'.encoded = session.encoded + 1
         /\ session'.dropped + Len(session'.pending) = session.dropped + 1
    <3>1. Len(session'.pending) = Len(pending)
      BY <2>13
    <3>2. \/ dropped = session.dropped /\ Len(pending) = 1
          \/ dropped = session.dropped + 1 /\ Len(pending) = 0
      BY <2>16
    <3>3. session'.dropped = dropped /\ session'.encoded = session.encoded + 1
      BY <2>13
    <3>4. session.dropped \in Nat
      BY MockIsTyped
    <3>5. PICK d, now, n, m : /\ d = session.dropped /\ now = session'.dropped
                              /\ n = Len(session'.pending) /\ m = Len(pending)
      OBVIOUS
    <3>6. now + n = d + 1
      <4>1. /\ d \in Nat /\ n = m /\ now = dropped
            /\ (dropped = d /\ m = 1) \/ (dropped = d + 1 /\ m = 0)
        BY <3>1, <3>2, <3>3, <3>4, <3>5, Zenon
      <4>. QED
        BY <4>1
    <3>. QED
      BY <3>3, <3>5, <3>6, Zenon
  <2>19. Balance' = Balance
    <3>1. Len(session'.pending) \in Nat /\ session'.dropped \in Nat
      BY <2>12, <2>13, WaitingIsShort
    <3>2. /\ Balance = session.encoded - session.dropped - Len(session.pending)
          /\ Balance' = session'.encoded - session'.dropped - Len(session'.pending)
      BY MockSees
    <3>3. session.encoded \in Nat /\ session.dropped \in Nat
      BY MockIsTyped
    <3>4. PICK e, d, now, n :
            e = session.encoded /\ d = session.dropped /\ now = session'.dropped
            /\ n = Len(session'.pending)
      OBVIOUS
    <3>5. Balance = e - d - 0 /\ Balance' = (e + 1) - now - n /\ now + n = d + 1
      BY <2>14, <2>17, <3>2, <3>4, Zenon
    <3>6. e \in Nat /\ d \in Nat /\ now \in Nat /\ n \in Nat
      BY <3>1, <3>3, <3>4, Zenon
    <3>. QED
      BY <3>5, <3>6
  <2>18. MockFits'
    <3>1. reader.frame = NoFrame \/ reader.frame.pts < session.pts
      BY DEF MockFits
    <3>2. reader.frame.pts \in Nat
      BY <1>0 DEF Readers, FrameSet
    <3>3. reader'.frame = NoFrame \/ reader'.frame.pts < session'.pts
      BY <2>2, <2>8, <2>13, <3>1, <3>2, MockIsTyped
    <3>4. session'.dropped + Len(session'.pending) <= session'.encoded
      BY <2>14, <2>17, MockIsTyped DEF MockFits
    <3>5. session'.pending # <<>> =>
            /\ session'.pending[1].run = session'.runs
            /\ session'.pending[1].pts < session'.pts
            /\ reader'.frame = NoFrame \/ reader'.frame.pts < session'.pending[1].pts
      BY <2>2, <2>5, <2>8, <2>13, <2>16, <3>1, MockIsTyped
    <3>. QED
      BY <1>0, <2>2, <2>13, <3>3, <3>4, <3>5 DEF MockFits
  <2>. QED
    BY <2>2, <2>19, <2>18 DEF FrameStep
<1>4. CASE M!ReadFails
  <2>1. /\ session' = [session EXCEPT !.pts = @ + Second \div session.cfg.fps, !.force = FALSE]
        /\ reader' = [reader EXCEPT !.pc = "out", !.cap = 0, !.frame = reader.frame]
        /\ ~HandsOut /\ session.state = "running" /\ session.pending = <<>>
    BY <1>4 DEF M!ReadFails, M!MayProduce, M!Running, M!ReadReturns, M!Returns, M!Result,
                Result, HandsOut
  <2>2. PICK moved : moved = Second \div session.cfg.fps
    OBVIOUS
  <2>3. moved \in Nat \ {0}
    BY <1>0, <2>1, <2>2, TimeMovesOn
  <2>4. session' = [session EXCEPT !.pts = @ + moved, !.force = FALSE]
    BY <2>1, <2>2, Zenon
  <2>5. session.pts + moved \in Nat
    BY <2>3, MockIsTyped
  <2>6. /\ session' \in MockSessions /\ session'.pts = session.pts + moved
        /\ session'.encoded = session.encoded /\ session'.dropped = session.dropped
        /\ session'.pending = <<>> /\ session'.state = "running" /\ session'.cfg = session.cfg
    BY <1>0, <2>1, <2>4, <2>5 DEF MockSessions
  <2>7. reader' \in Readers /\ reader'.frame = reader.frame /\ reader.frame.pts \in Nat
    BY <1>0, <2>1 DEF Readers, FrameSet
  <2>8. Balance' = Balance
    BY <2>1, <2>6, MockSees
  <2>9. MockFits'
    <3>1. reader'.frame = NoFrame \/ reader'.frame.pts < session'.pts
      BY <2>3, <2>6, <2>7, MockIsTyped DEF MockFits
    <3>. QED
      BY <1>0, <2>1, <2>6, <2>7, <3>1, MockIsTyped DEF MockFits
  <2>. QED
    BY <2>1, <2>8, <2>9 DEF FrameStep
<1>5. ASSUME NEW cap \in Buffers, M!ReadBegins(cap) PROVE MockFits' /\ FrameStep
  <2>1. /\ session' = session /\ reader' = [reader EXCEPT !.pc = "in", !.cap = cap]
        /\ reader.pc = "out" /\ session.state # "none"
    BY <1>5 DEF M!ReadBegins, M!IsOpen
  <2>2. cap \in Nat
    BY InstanceAssumption
  <2>3. reader' \in Readers /\ reader'.frame = reader.frame /\ ~HandsOut
    BY <1>0, <2>1, <2>2 DEF Readers, HandsOut
  <2>. QED
    BY <1>0, <2>1, <2>3, MockQuietFrames
<1>. QED
  BY <1>1, <1>2, <1>3, <1>4, <1>5 DEF M!Reading

LEMMA MockEncodeSideFrames ==
  ASSUME backend = "mock", backend' = "mock", MockFits, M!EncodeSide
  PROVE  MockFits' /\ FrameStep
<1>0. /\ session \in MockSessions /\ reader \in Readers
      /\ session.state # "none" => session.cfg.fps \in 1 .. Second
  BY DEF MockFits
<1>1. CASE M!RequestKeyframe \/ M!SwitchFails
  <2>1. /\ session' = session \/ session' = [session EXCEPT !.force = TRUE]
        /\ reader' = reader /\ ~HandsOut
    BY <1>1 DEF M!RequestKeyframe, M!SwitchFails, M!Refuses, M!Returns, M!Result, Result, HandsOut
  <2>2. /\ session' \in MockSessions /\ session'.cfg = session.cfg
        /\ \A part \in {"state", "pending", "encoded", "dropped", "runs", "pts"} :
             session'[part] = session[part]
    BY <1>0, <2>1 DEF MockSessions
  <2>. QED
    BY <1>0, <2>1, <2>2, MockQuietFrames
<1>2. CASE M!SwitchCamera
  <2>1. /\ session' = [session EXCEPT !.force = TRUE, !.pending = <<>>]
        /\ reader' = reader /\ ~HandsOut /\ last' = Result("switch", "ok")
    BY <1>2 DEF M!SwitchCamera, M!Switched, M!Returns, M!Result, Result, HandsOut
  <2>. QED
    BY <1>0, <2>1, MockClears
<1>3. ASSUME NEW on \in BOOLEAN, M!SetCapture(on) PROVE MockFits' /\ FrameStep
  <2>1. reader' = reader /\ ~HandsOut /\ last' = Result("capture", IF on THEN "on" ELSE "off")
    BY <1>3 DEF M!SetCapture, M!Returns, M!Result, Result, HandsOut
  <2>2. CASE session.decodeOnly
    <3>1. session' = session
      BY <1>3, <2>2 DEF M!SetCapture
    <3>. QED
      BY <1>0, <2>1, <3>1, MockQuietFrames
  <2>3. CASE ~session.decodeOnly
    <3>1. PICK force : force = (session.force \/ (on /\ ~session.capture))
      OBVIOUS
    <3>2. force \in BOOLEAN
      BY <1>0, <3>1 DEF MockSessions
    <3>3. session' = [session EXCEPT !.capture = on, !.force = force,
                                    !.pending = IF on THEN @ ELSE <<>>]
      BY <1>3, <2>3, <3>1, Zenon DEF M!SetCapture
    <3>4. CASE on
      <4>1. session' = [session EXCEPT !.capture = on, !.force = force,
                                       !.pending = session.pending]
        BY <3>3, <3>4
      <4>2. /\ session' \in MockSessions /\ session'.cfg = session.cfg
            /\ \A part \in {"state", "pending", "encoded", "dropped", "runs", "pts"} :
                 session'[part] = session[part]
        BY <1>0, <3>2, <4>1 DEF MockSessions
      <4>. QED
        BY <1>0, <2>1, <4>2, MockQuietFrames
    <3>5. CASE ~on
      <4>1. session' = [[session EXCEPT !.capture = on] EXCEPT !.force = force, !.pending = <<>>]
        BY <3>3, <3>5
      <4>2. last' = Result("capture", "off")
        BY <2>1, <3>5
      <4>3. [session EXCEPT !.capture = on] \in MockSessions
        BY <1>0 DEF MockSessions
      <4>. QED
        BY <1>0, <2>1, <3>2, <4>1, <4>2, <4>3, MockClears
    <3>. QED
      BY <3>4, <3>5
  <2>. QED
    BY <2>2, <2>3
<1>. QED
  BY <1>1, <1>2, <1>3 DEF M!EncodeSide

LEMMA MockDecodeSideFrames ==
  ASSUME backend = "mock", backend' = "mock", MockFits, M!DecodeSide
  PROVE  MockFits' /\ FrameStep
<1>0. /\ session \in MockSessions /\ reader \in Readers
      /\ session.state # "none" => session.cfg.fps \in 1 .. Second
  BY DEF MockFits
<1>1. CASE M!GetTexture
  <2>1. session' = session /\ reader' = reader /\ ~HandsOut
    BY <1>1 DEF M!GetTexture, M!Refuses, M!Returns, M!Result, Result, HandsOut
  <2>. QED
    BY <1>0, <2>1, MockQuietFrames
<1>2. ASSUME NEW unit \in M!AccessUnits, M!Submit(unit) \/ M!SubmitFails(unit)
      PROVE  MockFits' /\ FrameStep
  <2>1. /\ session' = session \/ session' = [session EXCEPT !.awaiting = FALSE]
        /\ reader' = reader
    BY <1>2 DEF M!Submit, M!SubmitFails, M!Refuses
  <2>2. ~HandsOut
    <3>1. last'.code # "frame"
      BY <1>2 DEF M!Submit, M!SubmitFails, M!Refuses, M!Returns, M!Result
    <3>. QED
      BY <3>1 DEF HandsOut, Result
  <2>3. /\ session' \in MockSessions /\ session'.cfg = session.cfg
        /\ \A part \in {"state", "pending", "encoded", "dropped", "runs", "pts"} :
             session'[part] = session[part]
    BY <1>0, <2>1 DEF MockSessions
  <2>. QED
    BY <1>0, <2>1, <2>2, <2>3, MockQuietFrames
<1>3. ASSUME NEW on \in BOOLEAN, M!MockSetTexture(on) PROVE MockFits' /\ FrameStep
  <2>1. session' = [session EXCEPT !.texture = on] /\ reader' = reader /\ ~HandsOut
    BY <1>3 DEF M!MockSetTexture, HandsOut
  <2>2. /\ session' \in MockSessions /\ session'.cfg = session.cfg
        /\ \A part \in {"state", "pending", "encoded", "dropped", "runs", "pts"} :
             session'[part] = session[part]
    BY <1>0, <2>1 DEF MockSessions
  <2>. QED
    BY <1>0, <2>1, <2>2, MockQuietFrames
<1>. QED
  BY <1>1, <1>2, <1>3 DEF M!DecodeSide

LEMMA MockInit ==
  ASSUME session = M!Closed, reader = M!NoRead  PROVE MockFits
<1>1. Len(session.pending) = 0
  BY ClosedIsMock
<1>2. reader.frame.run <= session.runs
  BY ClosedIsMock, NothingIsRead, InstanceAssumption DEF MockSessions
<1>. QED
  BY <1>1, <1>2, ClosedIsMock, NothingIsRead DEF MockFits

LEMMA MockFrames ==
  ASSUME backend = "mock", backend' = "mock", MockFits, MockStep
  PROVE  MockFits' /\ FrameStep
BY MockLifecycleFrames, MockChangesFrames, MockReadingFrames, MockEncodeSideFrames,
   MockDecodeSideFrames
DEF MockStep

-----------------------------------------------------------------------------
(* The frames of Linux *)

Stages == {"none", "camera", "negotiate", "display", "encoder", "decoder", "done"}
Negotiated == {"display", "encoder", "decoder", "done"}

LinuxSessions ==
    [running : BOOLEAN, runs : 0 .. MaxRuns, decodeOnly : BOOLEAN, cfg : Configs,
     camera : [geo : Nat, fps : Nat], capture : BOOLEAN, force : BOOLEAN, pts : Nat,
     encoder : BOOLEAN, params : BOOLEAN, awaiting : BOOLEAN, encoded : 0 .. MaxFrames,
     dropped : Nat, latest : FrameSet]

HasCamera(s) == s.camera \in Cameras

(* What was read is of an earlier start, or earlier than what is made next. *)
LinuxFits ==
    /\ stage \in Stages /\ session \in LinuxSessions /\ reader \in Readers
    /\ session.dropped <= session.encoded
    /\ stage # "done" => session.running = FALSE /\ session.encoded = 0 /\ reader = L!NoRead
    /\ stage \in Negotiated => session.cfg.fps \in 1 .. Second
    /\ stage \notin {"none", "camera"} => session.decodeOnly \/ HasCamera(session)
    /\ \/ reader.frame = NoFrame
       \/ reader.frame.run < session.runs
       \/ reader.frame.run = session.runs /\ reader.frame.pts < session.pts

LEMMA LinuxSees ==
  /\ backend = "linux" =>
       /\ Balance = session.encoded - session.dropped - 0
       /\ Opened <=> stage = "done"
  /\ backend' = "linux" =>
       /\ Balance' = session'.encoded - session'.dropped - 0
       /\ Opened' <=> stage' = "done"
BY DEF Balance, Queued, Opened, L!IsOpen

LEMMA LinuxNothingIsRead ==
  L!NoRead \in Readers /\ L!NoRead.frame = NoFrame /\ L!NoRead.pc = "out"
<1>1. L!NoRead = [pc |-> "out", cap |-> 0, frame |-> NoFrame]
  BY DEF L!NoRead, L!NoFrame, L!Frame, NoFrame, Frame
<1>. QED
  BY <1>1, NothingIsRead DEF Readers

LEMMA ClosedIsLinux ==
  /\ L!Closed \in LinuxSessions
  /\ L!Closed.running = FALSE /\ L!Closed.encoded = 0 /\ L!Closed.dropped = 0
<1>1. L!Closed =
        [running |-> FALSE, runs |-> 0, decodeOnly |-> FALSE, cfg |-> L!NoConfig,
         camera |-> L!NoCamera, capture |-> FALSE, force |-> FALSE, pts |-> 0,
         encoder |-> FALSE, params |-> FALSE, awaiting |-> TRUE, encoded |-> 0,
         dropped |-> 0, latest |-> L!NoFrame]
  BY DEF L!Closed
<1>2. /\ L!NoConfig \in Configs /\ L!NoCamera \in [geo : Nat, fps : Nat]
      /\ L!NoFrame \in FrameSet /\ MaxFrames \in Nat /\ MaxRuns \in Nat
  BY InstanceAssumption DEF L!NoConfig, L!NoCamera, Configs, L!NoFrame, L!Frame, FrameSet
<1>. QED
  BY <1>1, <1>2 DEF LinuxSessions

(* What is negotiated has a rate that the camera and the request allow. *)
LEMMA EstimateIsSlow ==
  ASSUME NEW req \in Requests, session \in LinuxSessions,
         session.decodeOnly \/ HasCamera(session),
         NEW cfg \in L!ByEstimate(req, L!Native(req))
  PROVE  cfg \in Configs /\ cfg.fps \in 1 .. Second
<1>1. PICK camera : camera = L!Native(req)
  OBVIOUS
<1>2. camera \in [geo : Nat \ {0}, fps : Nat \ {0}]
  <2>1. CASE session.decodeOnly
    <3>1. camera = [geo |-> req.geo, fps |-> req.fps]
      BY <1>1, <2>1 DEF L!Native
    <3>2. req.geo \in Nat \ {0} /\ req.fps \in Nat \ {0}
      BY InstanceAssumption
    <3>. QED
      BY <3>1, <3>2
  <2>2. CASE ~session.decodeOnly
    BY <1>1, <2>2, PlatformAssumption DEF L!Native, HasCamera
  <2>. QED
    BY <2>1, <2>2
<1>3. /\ req \in [geo : Nat \ {0}, fps : Nat \ {0}, rate : Nat \ {0}, ceiling : Nat \ {0}]
      /\ req.fps <= Second /\ Second \in Nat
  BY InstanceAssumption, RateAssumption
<1>4. PICK geo, fps :
        /\ geo = L!AtMost(req.geo, camera.geo) /\ fps = L!AtMost(req.fps, camera.fps)
        /\ cfg = [req EXCEPT !.geo = geo, !.fps = fps]
  BY <1>1, Zenon DEF L!ByEstimate, L!Unachievable
<1>5. geo \in Nat /\ fps \in 1 .. Second
  BY <1>2, <1>3, <1>4 DEF L!AtMost
<1>6. cfg.fps = fps /\ cfg \in Configs
  <2>1. fps \in Nat
    BY <1>3, <1>5
  <2>. QED
    BY <1>3, <1>4, <1>5, <2>1 DEF Configs
<1>. QED
  BY <1>5, <1>6

(* A step that leaves the frames as they are. *)
LEMMA LinuxQuietFrames ==
  ASSUME backend = "linux", backend' = "linux", LinuxFits, stage' = stage,
         session' \in LinuxSessions, reader' \in Readers,
         \A part \in {"running", "encoded", "dropped", "runs", "pts"} :
           session'[part] = session[part],
         stage \in Negotiated => session'.cfg.fps \in 1 .. Second,
         session'.decodeOnly \/ HasCamera(session') \/ stage \in {"none", "camera"},
         reader'.frame = reader.frame, stage # "done" => reader' = reader,
         ~HandsOut
  PROVE  LinuxFits' /\ FrameStep
<1>1. /\ session'.running = session.running /\ session'.dropped = session.dropped
      /\ session'.encoded = session.encoded
      /\ session'.runs = session.runs /\ session'.pts = session.pts
  OBVIOUS
<1>2. Balance' = Balance
  BY <1>1, LinuxSees
<1>3. LinuxFits'
  BY <1>1 DEF LinuxFits
<1>. QED
  BY <1>2, <1>3 DEF FrameStep

(* A step of open, of which nobody can read. *)
LEMMA LinuxOpening ==
  ASSUME backend = "linux", backend' = "linux", LinuxFits, stage # "done",
         stage' \in Stages, session' \in LinuxSessions, reader' = L!NoRead,
         session'.running = FALSE, session'.encoded = 0, session'.dropped = 0,
         stage' \in Negotiated => session'.cfg.fps \in 1 .. Second,
         stage' \notin {"none", "camera"} => session'.decodeOnly \/ HasCamera(session')
  PROVE  LinuxFits' /\ FrameStep
<1>1. reader'.frame = NoFrame /\ reader' \in Readers /\ ~HandsOut
  BY LinuxNothingIsRead DEF LinuxFits, HandsOut
<1>2. LinuxFits'
  BY <1>1 DEF LinuxFits
<1>3. session.encoded = 0 /\ session.dropped = 0
  BY DEF LinuxFits, LinuxSessions
<1>4. Balance' = Balance
  BY <1>3, LinuxSees
<1>. QED
  BY <1>1, <1>2, <1>4 DEF FrameStep

LEMMA LinuxTakenDown ==
  ASSUME backend = "linux", backend' = "linux", LinuxFits, NEW call, NEW code,
         L!TakenDown(call, code), code # "frame"
  PROVE  LinuxFits' /\ FrameStep
<1>1. /\ stage' = "none" /\ session' = [L!Closed EXCEPT !.runs = session.runs]
      /\ reader' = L!NoRead /\ last' = [call |-> call, code |-> code]
  BY DEF L!TakenDown, L!Returns, L!Result
<1>2. session.runs \in 0 .. MaxRuns
  BY DEF LinuxFits, LinuxSessions
<1>3. /\ session' \in LinuxSessions /\ session'.running = FALSE
      /\ session'.encoded = 0 /\ session'.dropped = 0
  BY <1>1, <1>2, ClosedIsLinux DEF LinuxSessions
<1>4. ~HandsOut
  BY <1>1 DEF HandsOut, Result
<1>5. LinuxFits'
  BY <1>1, <1>3, LinuxNothingIsRead DEF LinuxFits, Stages, Negotiated
<1>6. ~Opened'
  BY <1>1, LinuxSees
<1>. QED
  BY <1>4, <1>5, <1>6 DEF FrameStep

LEMMA LinuxOpenFrames ==
  ASSUME backend = "linux", backend' = "linux", LinuxFits, L!Open
  PROVE  LinuxFits' /\ FrameStep
<1>0. /\ session \in LinuxSessions /\ reader \in Readers /\ stage \in Stages
      /\ stage \in Negotiated => session.cfg.fps \in 1 .. Second
      /\ session.decodeOnly \/ HasCamera(session) \/ stage \in {"none", "camera"}
  BY DEF LinuxFits
<1>a. stage # "done" => /\ session.running = FALSE /\ session.encoded = 0
                       /\ session.dropped = 0 /\ reader = L!NoRead
  BY DEF LinuxFits, LinuxSessions
<1>1. CASE L!OpenInvalid \/ L!OpenRefused
  <2>1. session' = session /\ reader' = reader /\ stage' = stage /\ stage = "none"
    BY <1>1 DEF L!OpenInvalid, L!OpenRefused
  <2>. QED
    BY <1>0, <1>a, <2>1, LinuxOpening DEF Negotiated
<1>2. CASE L!OpenFails
  <2>1. PICK code \in {"unsupported", "backend"} : L!TakenDown("open", code)
    BY <1>2, Zenon DEF L!OpenFails
  <2>2. code # "frame"
    OBVIOUS
  <2>. QED
    BY <2>1, <2>2, LinuxTakenDown
<1>3. CASE L!OpenHasCamera
  <2>1. PICK camera \in Cameras : session' = [session EXCEPT !.camera = camera]
    BY <1>3 DEF L!OpenHasCamera
  <2>2. camera \in [geo : Nat, fps : Nat]
    BY PlatformAssumption
  <2>3. /\ session' \in LinuxSessions /\ HasCamera(session')
        /\ session'.running = session.running /\ session'.encoded = session.encoded
        /\ session'.dropped = session.dropped
    BY <1>0, <2>1, <2>2 DEF LinuxSessions, HasCamera
  <2>4. stage = "camera" /\ stage' = "negotiate" /\ reader' = reader
    BY <1>3 DEF L!OpenHasCamera
  <2>. QED
    BY <1>a, <2>3, <2>4, LinuxOpening DEF Negotiated, Stages
<1>4. CASE L!OpenHasDisplay
  <2>1. /\ stage = "display" /\ stage' \in {"encoder", "decoder"}
        /\ session' = session /\ reader' = reader
    BY <1>4 DEF L!OpenHasDisplay
  <2>. QED
    BY <1>0, <1>a, <2>1, LinuxOpening DEF Negotiated, Stages
<1>5. CASE L!OpenHasEncoder
  <2>1. /\ stage = "encoder" /\ stage' = "decoder" /\ reader' = reader
        /\ session' = [session EXCEPT !.encoder = TRUE, !.force = TRUE]
    BY <1>5 DEF L!OpenHasEncoder, L!WithEncoder
  <2>2. /\ session' \in LinuxSessions /\ (HasCamera(session') <=> HasCamera(session))
        /\ session'.running = session.running /\ session'.encoded = session.encoded
        /\ session'.dropped = session.dropped /\ session'.cfg = session.cfg
        /\ session'.decodeOnly = session.decodeOnly
    BY <1>0, <2>1 DEF LinuxSessions, HasCamera
  <2>. QED
    BY <1>0, <1>a, <2>1, <2>2, LinuxOpening DEF Negotiated, Stages
<1>6. CASE L!OpenHasDecoder
  <2>1. /\ stage = "decoder" /\ stage' = "done" /\ reader' = reader
        /\ session' = [session EXCEPT !.capture = ~session.decodeOnly, !.awaiting = TRUE]
    BY <1>6 DEF L!OpenHasDecoder, L!Duplex
  <2>2. /\ session' \in LinuxSessions /\ (HasCamera(session') <=> HasCamera(session))
        /\ session'.running = session.running /\ session'.encoded = session.encoded
        /\ session'.dropped = session.dropped /\ session'.cfg = session.cfg
        /\ session'.decodeOnly = session.decodeOnly
    BY <1>0, <2>1 DEF LinuxSessions, HasCamera
  <2>. QED
    BY <1>0, <1>a, <2>1, <2>2, LinuxOpening DEF Negotiated, Stages
<1>7. ASSUME NEW decodeOnly \in BOOLEAN, L!OpenClaims(decodeOnly) PROVE LinuxFits' /\ FrameStep
  <2>1. /\ stage = "none" /\ stage' = IF decodeOnly THEN "negotiate" ELSE "camera"
        /\ session' = [session EXCEPT !.decodeOnly = decodeOnly] /\ reader' = reader
    BY <1>7 DEF L!OpenClaims
  <2>2. /\ session' \in LinuxSessions /\ session'.decodeOnly = decodeOnly
        /\ session'.running = session.running /\ session'.encoded = session.encoded
        /\ session'.dropped = session.dropped
    BY <1>0, <2>1 DEF LinuxSessions
  <2>. QED
    BY <1>a, <2>1, <2>2, LinuxOpening DEF Negotiated, Stages
<1>8. ASSUME NEW req \in Requests, L!OpenNegotiates(req) PROVE LinuxFits' /\ FrameStep
  <2>1. CASE L!TakenDown("open", "unachievable")
    BY <2>1, LinuxTakenDown
  <2>2. CASE ~L!TakenDown("open", "unachievable")
    <3>1. PICK cfg \in L!ByEstimate(req, L!Native(req)) :
            /\ session' = [session EXCEPT !.cfg = cfg]
            /\ stage = "negotiate" /\ stage' = "display" /\ reader' = reader
      BY <1>8, <2>2, Zenon DEF L!OpenNegotiates
    <3>2. cfg \in Configs /\ cfg.fps \in 1 .. Second
      BY <1>0, <3>1, EstimateIsSlow
    <3>3. /\ session' \in LinuxSessions /\ (HasCamera(session') <=> HasCamera(session))
          /\ session'.running = session.running /\ session'.encoded = session.encoded
          /\ session'.dropped = session.dropped /\ session'.cfg = cfg
          /\ session'.decodeOnly = session.decodeOnly
      BY <1>0, <3>1, <3>2 DEF LinuxSessions, HasCamera
    <3>. QED
      BY <1>0, <1>a, <3>1, <3>2, <3>3, LinuxOpening DEF Negotiated, Stages
  <2>. QED
    BY <2>1, <2>2
<1>. QED
  BY <1>1, <1>2, <1>3, <1>4, <1>5, <1>6, <1>7, <1>8 DEF L!Open

LEMMA LinuxLifecycleFrames ==
  ASSUME backend = "linux", backend' = "linux", LinuxFits, L!Lifecycle
  PROVE  LinuxFits' /\ FrameStep
<1>0. /\ session \in LinuxSessions /\ reader \in Readers /\ stage \in Stages
      /\ stage \in Negotiated => session.cfg.fps \in 1 .. Second
      /\ session.decodeOnly \/ HasCamera(session) \/ stage \in {"none", "camera"}
  BY DEF LinuxFits
<1>1. CASE L!Open
  BY <1>1, LinuxOpenFrames
<1>2. CASE L!Start
  <2>1. /\ session' = [session EXCEPT !.running = TRUE, !.runs = @ + 1, !.pts = 0, !.force = TRUE]
        /\ stage = "done" /\ stage' = stage /\ session.runs < MaxRuns
        /\ reader' = reader /\ ~HandsOut
    BY <1>2 DEF L!Start, L!IsOpen, L!Returns, L!Result, Result, HandsOut
  <2>2. session.runs + 1 \in 0 .. MaxRuns
    <3>1. MaxRuns \in Nat
      BY InstanceAssumption
    <3>. QED
      BY <1>0, <2>1, <3>1 DEF LinuxSessions
  <2>3. /\ session' \in LinuxSessions /\ (HasCamera(session') <=> HasCamera(session))
        /\ session'.runs = session.runs + 1 /\ session'.cfg = session.cfg
        /\ session'.encoded = session.encoded /\ session'.dropped = session.dropped
        /\ session'.decodeOnly = session.decodeOnly
    BY <1>0, <2>1, <2>2 DEF LinuxSessions, HasCamera
  <2>4. Balance' = Balance
    BY <2>3, LinuxSees
  <2>5. reader.frame = NoFrame \/ reader.frame.run < session.runs + 1
    <3>1. reader.frame.run \in Nat /\ session.runs \in Nat
      BY <1>0, InstanceAssumption DEF Readers, FrameSet, LinuxSessions
    <3>. QED
      BY <3>1 DEF LinuxFits
  <2>6. LinuxFits'
    BY <1>0, <2>1, <2>3, <2>5 DEF LinuxFits
  <2>. QED
    BY <2>1, <2>4, <2>6 DEF FrameStep
<1>3. CASE L!StartFails
  <2>1. session' = session /\ reader' = reader /\ stage' = stage /\ ~HandsOut
    BY <1>3 DEF L!StartFails, L!Refuses, L!Returns, L!Result, Result, HandsOut
  <2>. QED
    BY <1>0, <2>1, LinuxQuietFrames
<1>4. CASE L!Stop
  <2>1. /\ session' = [session EXCEPT !.running = FALSE, !.awaiting = TRUE]
        /\ reader' = reader /\ stage' = stage /\ stage = "done" /\ ~HandsOut
    BY <1>4 DEF L!Stop, L!IsOpen, L!Returns, L!Result, Result, HandsOut
  <2>2. /\ session' \in LinuxSessions /\ (HasCamera(session') <=> HasCamera(session))
        /\ session'.runs = session.runs /\ session'.cfg = session.cfg
        /\ session'.encoded = session.encoded /\ session'.dropped = session.dropped
        /\ session'.decodeOnly = session.decodeOnly /\ session'.pts = session.pts
    BY <1>0, <2>1 DEF LinuxSessions, HasCamera
  <2>3. Balance' = Balance
    BY <2>2, LinuxSees
  <2>4. LinuxFits'
    BY <2>1, <2>2 DEF LinuxFits
  <2>. QED
    BY <2>1, <2>3, <2>4 DEF FrameStep
<1>5. CASE L!Close
  BY <1>5, LinuxTakenDown DEF L!Close
<1>. QED
  BY <1>1, <1>2, <1>3, <1>4, <1>5 DEF L!Lifecycle

LEMMA LinuxChangesFrames ==
  ASSUME backend = "linux", backend' = "linux", LinuxFits, L!Changes
  PROVE  LinuxFits' /\ FrameStep
<1>0. /\ session \in LinuxSessions /\ reader \in Readers /\ stage \in Stages
      /\ stage \in Negotiated => session.cfg.fps \in 1 .. Second
      /\ session.decodeOnly \/ HasCamera(session) \/ stage \in {"none", "camera"}
  BY DEF LinuxFits
<1>1. CASE L!ReconfigureFails
  <2>1. session' = session /\ reader' = reader /\ stage' = stage /\ ~HandsOut
    BY <1>1 DEF L!ReconfigureFails, L!Refuses, L!Returns, L!Result, Result, HandsOut
  <2>. QED
    BY <1>0, <2>1, LinuxQuietFrames
<1>2. ASSUME NEW req \in Requests, L!Reconfigure(req) PROVE LinuxFits' /\ FrameStep
  <2>1. PICK cfg \in L!ByEstimate(req, L!Native(req)) :
          IF cfg.geo = session.cfg.geo THEN L!Accept(cfg, session)
          ELSE \/ L!Accept(cfg, L!WithEncoder(session))
               \/ /\ \E s \in {L!WithEncoder(session), [session EXCEPT !.encoder = FALSE]} :
                       session' = s
                  /\ L!Returns("reconfigure", "backend")
                  /\ UNCHANGED <<guard, stage, reader>>
    BY <1>2, Zenon DEF L!Reconfigure
  <2>2. /\ stage = "done" /\ stage' = stage /\ reader' = reader
        /\ last'.call = "reconfigure"
    BY <1>2, <2>1 DEF L!Reconfigure, L!IsOpen, L!Accept, L!Returns, L!Result
  <2>3. ~HandsOut
    BY <2>2 DEF HandsOut, Result
  <2>4. cfg \in Configs /\ cfg.fps \in 1 .. Second
    BY <1>0, <2>1, <2>2, EstimateIsSlow
  <2>. DEFINE Fits == /\ session' \in LinuxSessions /\ session'.decodeOnly = session.decodeOnly
                      /\ (HasCamera(session') <=> HasCamera(session))
                      /\ session'.cfg.fps \in 1 .. Second
                      /\ \A part \in {"running", "encoded", "dropped", "runs", "pts"} :
                           session'[part] = session[part]
  <2>5. ASSUME NEW s \in LinuxSessions, L!Accept(cfg, s),
               s = session \/ s = L!WithEncoder(session)
        PROVE  Fits
    <3>1. PICK force \in BOOLEAN : session' = [s EXCEPT !.cfg = cfg, !.force = force]
      <4>1. (s.force \/ cfg.geo # session.cfg.geo) \in BOOLEAN
        BY Zenon
      <4>. QED
        BY <2>5, <4>1, Zenon DEF L!Accept
    <3>2. /\ session' \in LinuxSessions /\ session'.decodeOnly = s.decodeOnly
          /\ session'.camera = s.camera /\ session'.cfg = cfg
          /\ \A part \in {"running", "encoded", "dropped", "runs", "pts"} :
               session'[part] = s[part]
      BY <2>4, <3>1 DEF LinuxSessions
    <3>3. /\ s.decodeOnly = session.decodeOnly /\ s.camera = session.camera
          /\ \A part \in {"running", "encoded", "dropped", "runs", "pts"} :
               s[part] = session[part]
      BY <1>0, <2>5 DEF L!WithEncoder, LinuxSessions
    <3>. QED
      BY <2>4, <3>2, <3>3 DEF HasCamera
  <2>6. L!WithEncoder(session) \in LinuxSessions
    BY <1>0 DEF L!WithEncoder, LinuxSessions
  <2>7. CASE session' = L!WithEncoder(session) \/ session' = [session EXCEPT !.encoder = FALSE]
    <3>1. Fits
      BY <1>0, <2>2, <2>7 DEF L!WithEncoder, LinuxSessions, HasCamera, Negotiated
    <3>. QED
      BY <1>0, <2>2, <2>3, <3>1, LinuxQuietFrames
  <2>8. CASE L!Accept(cfg, session) \/ L!Accept(cfg, L!WithEncoder(session))
    <3>1. Fits
      BY <1>0, <2>5, <2>6, <2>8
    <3>. QED
      BY <1>0, <2>2, <2>3, <3>1, LinuxQuietFrames
  <2>. QED
    BY <2>1, <2>7, <2>8
<1>. QED
  BY <1>1, <1>2 DEF L!Changes

(* A frame has the time of the start, which moves on when one is handed out. *)
LEMMA LinuxReadingFrames ==
  ASSUME backend = "linux", backend' = "linux", LinuxFits, L!Reading
  PROVE  LinuxFits' /\ FrameStep
<1>0. /\ session \in LinuxSessions /\ reader \in Readers /\ stage \in Stages
      /\ stage \in Negotiated => session.cfg.fps \in 1 .. Second
      /\ session.decodeOnly \/ HasCamera(session) \/ stage \in {"none", "camera"}
  BY DEF LinuxFits
<1>a. reader.pc = "in" => stage = "done"
  BY LinuxNothingIsRead DEF LinuxFits
<1>1. CASE L!ReadClosed \/ L!ReadTimesOut
  <2>1. /\ session' = session /\ stage' = stage /\ ~HandsOut /\ reader.pc = "in"
        /\ reader' = [reader EXCEPT !.pc = "out", !.cap = 0, !.frame = reader.frame]
    BY <1>1 DEF L!ReadClosed, L!ReadTimesOut, L!ReadReturns, L!Returns, L!Result, Result, HandsOut
  <2>2. reader' \in Readers /\ reader'.frame = reader.frame
    BY <1>0, <2>1 DEF Readers
  <2>. QED
    BY <1>0, <1>a, <2>1, <2>2, LinuxQuietFrames
<1>2. CASE L!ReadFails
  <2>1. PICK force \in BOOLEAN : session' = [session EXCEPT !.force = force]
    <3>1. PICK spent \in BOOLEAN : session' = [session EXCEPT !.force = @ /\ ~spent]
      BY <1>2, Zenon DEF L!ReadFails
    <3>2. (session.force /\ ~spent) \in BOOLEAN
      BY Zenon
    <3>. QED
      BY <3>1, <3>2, Zenon
  <2>2. /\ stage' = stage /\ ~HandsOut /\ reader.pc = "in"
        /\ reader' = [reader EXCEPT !.pc = "out", !.cap = 0, !.frame = reader.frame]
    BY <1>2 DEF L!ReadFails, L!Encodes, L!ReadReturns, L!Returns, L!Result, Result, HandsOut
  <2>3. reader' \in Readers /\ reader'.frame = reader.frame
    BY <1>0, <2>2 DEF Readers
  <2>4. /\ session' \in LinuxSessions /\ (HasCamera(session') <=> HasCamera(session))
        /\ session'.decodeOnly = session.decodeOnly /\ session'.cfg = session.cfg
        /\ \A part \in {"running", "encoded", "dropped", "runs", "pts"} :
             session'[part] = session[part]
    BY <1>0, <2>1 DEF LinuxSessions, HasCamera
  <2>. QED
    BY <1>0, <1>a, <2>2, <2>3, <2>4, LinuxQuietFrames
<1>3. CASE L!ReadEncodes
  <2>. DEFINE Frm(interval, size) ==
                L!Frame(session.force \/ interval, size, session.pts, session.runs)
  <2>1. PICK interval \in BOOLEAN, size \in Sizes :
          /\ session' = L!Encoded(Frm(interval, size), size <= reader.cap)
          /\ IF size <= reader.cap THEN L!ReadReturns("frame", Frm(interval, size))
             ELSE UNCHANGED <<guard, stage, reader, last>>
    BY <1>3, Zenon DEF L!ReadEncodes
  <2>2. /\ reader.pc = "in" /\ stage = "done" /\ stage' = stage /\ session.encoded < MaxFrames
        /\ session.running
    BY <1>3, <1>a DEF L!ReadEncodes, L!Encodes, L!ReadReturns
  <2>3. PICK frame : frame = Frm(interval, size)
    OBVIOUS
  <2>4. frame \in FrameSet /\ frame.pts = session.pts /\ frame.run = session.runs
    <3>1. session.pts \in Nat /\ session.runs \in Nat /\ size \in Nat
      BY <1>0, InstanceAssumption DEF LinuxSessions
    <3>2. (session.force \/ interval) \in BOOLEAN
      BY Zenon
    <3>3. frame = [key |-> (session.force \/ interval), size |-> size, pts |-> session.pts,
                   run |-> session.runs]
      BY <2>3, Zenon DEF L!Frame
    <3>. QED
      BY <3>1, <3>2, <3>3 DEF FrameSet
  <2>5. PICK moved : moved = Second \div session.cfg.fps
    OBVIOUS
  <2>6. moved \in Nat \ {0}
    BY <1>0, <2>2, <2>5, TimeMovesOn DEF Negotiated
  <2>. HIDE DEF Frm
  <2>7. PICK dropped, pts :
          /\ session' = [session EXCEPT !.force = FALSE, !.encoded = @ + 1, !.latest = frame,
                           !.dropped = dropped, !.pts = pts]
          /\ \/ /\ dropped = session.dropped /\ pts = session.pts + moved
                /\ L!ReadReturns("frame", frame)
             \/ /\ dropped = session.dropped + 1 /\ pts = session.pts
                /\ UNCHANGED <<reader, last>>
    <3>1. CASE size <= reader.cap
      BY <2>1, <2>3, <2>5, <3>1, Zenon DEF L!Encoded
    <3>2. CASE ~(size <= reader.cap)
      BY <2>1, <2>3, <2>5, <3>2, Zenon DEF L!Encoded
    <3>. QED
      BY <3>1, <3>2
  <2>8. /\ session.encoded \in Nat /\ session.dropped \in Nat /\ session.pts \in Nat
        /\ session.dropped <= session.encoded /\ session.encoded + 1 \in 0 .. MaxFrames
    <3>1. MaxFrames \in Nat
      BY InstanceAssumption
    <3>. QED
      BY <1>0, <2>2, <3>1 DEF LinuxSessions, LinuxFits
  <2>9. dropped \in Nat /\ pts \in Nat
    BY <2>6, <2>7, <2>8
  <2>10. /\ session' \in LinuxSessions /\ (HasCamera(session') <=> HasCamera(session))
         /\ session'.encoded = session.encoded + 1 /\ session'.dropped = dropped
         /\ session'.pts = pts /\ session'.runs = session.runs /\ session'.cfg = session.cfg
         /\ session'.decodeOnly = session.decodeOnly
    BY <1>0, <2>4, <2>7, <2>8, <2>9 DEF LinuxSessions, HasCamera
  <2>11. CASE /\ dropped = session.dropped /\ pts = session.pts + moved
              /\ L!ReadReturns("frame", frame)
    <3>1. reader' = [reader EXCEPT !.pc = "out", !.cap = 0, !.frame = frame]
          /\ last' = Result("read", "frame")
      BY <2>11 DEF L!ReadReturns, L!Returns, L!Result, Result
    <3>2. reader' \in Readers /\ reader'.frame = frame /\ reader'.pc = "out"
      BY <1>0, <2>4, <3>1 DEF Readers
    <3>3. HandsOut
      BY <2>2, <3>1, <3>2 DEF HandsOut
    <3>4. Balance' = Balance + 1
      BY <2>8, <2>10, <2>11, LinuxSees
    <3>5. LinuxFits'
      BY <1>0, <2>2, <2>4, <2>6, <2>8, <2>10, <2>11, <3>2 DEF LinuxFits
    <3>6. FrameInOrder
      <4>1. \/ reader.frame = NoFrame
            \/ reader.frame.pts < session.pts \/ reader.frame.run # session.runs
        <5>1. reader.frame.run \in Nat /\ session.runs \in Nat
          BY <1>0, InstanceAssumption DEF Readers, FrameSet, LinuxSessions
        <5>. QED
          BY <5>1 DEF LinuxFits
      <4>2. reader.frame.run <= session.runs
        <5>1. reader.frame.run \in Nat /\ session.runs \in Nat /\ NoFrame.run = 0
          BY <1>0, InstanceAssumption DEF Readers, FrameSet, LinuxSessions, NoFrame, Frame
        <5>. QED
          BY <5>1 DEF LinuxFits
      <4>. QED
        BY <2>4, <3>2, <4>1, <4>2 DEF FrameInOrder
    <3>. QED
      BY <3>3, <3>4, <3>5, <3>6 DEF FrameStep
  <2>12. CASE /\ dropped = session.dropped + 1 /\ pts = session.pts
              /\ UNCHANGED <<reader, last>>
    <3>1. ~HandsOut
      BY <2>2, <2>12 DEF HandsOut
    <3>2. Balance' = Balance
      BY <2>8, <2>10, <2>12, LinuxSees
    <3>3. LinuxFits'
      BY <1>0, <2>2, <2>8, <2>10, <2>12 DEF LinuxFits
    <3>. QED
      BY <3>1, <3>2, <3>3 DEF FrameStep
  <2>. QED
    BY <2>7, <2>11, <2>12
<1>4. ASSUME NEW cap \in Buffers, L!ReadBegins(cap) PROVE LinuxFits' /\ FrameStep
  <2>1. /\ session' = session /\ reader' = [reader EXCEPT !.pc = "in", !.cap = cap]
        /\ reader.pc = "out" /\ stage = "done" /\ stage' = stage
    BY <1>4 DEF L!ReadBegins, L!IsOpen
  <2>2. cap \in Nat
    BY InstanceAssumption
  <2>3. reader' \in Readers /\ reader'.frame = reader.frame /\ ~HandsOut
    BY <1>0, <2>1, <2>2 DEF Readers, HandsOut
  <2>. QED
    BY <1>0, <2>1, <2>3, LinuxQuietFrames
<1>. QED
  BY <1>1, <1>2, <1>3, <1>4 DEF L!Reading

LEMMA LinuxEncodeSideFrames ==
  ASSUME backend = "linux", backend' = "linux", LinuxFits, L!EncodeSide
  PROVE  LinuxFits' /\ FrameStep
<1>0. /\ session \in LinuxSessions /\ reader \in Readers /\ stage \in Stages
      /\ stage \in Negotiated => session.cfg.fps \in 1 .. Second
      /\ session.decodeOnly \/ HasCamera(session) \/ stage \in {"none", "camera"}
  BY DEF LinuxFits
<1>1. CASE L!RequestKeyframe \/ L!SwitchFails
  <2>1. /\ session' = session \/ session' = [session EXCEPT !.force = TRUE]
        /\ reader' = reader /\ stage' = stage /\ ~HandsOut
    BY <1>1 DEF L!RequestKeyframe, L!SwitchFails, L!Refuses, L!Returns, L!Result, Result, HandsOut
  <2>2. /\ session' \in LinuxSessions /\ (HasCamera(session') <=> HasCamera(session))
        /\ session'.decodeOnly = session.decodeOnly /\ session'.cfg = session.cfg
        /\ \A part \in {"running", "encoded", "dropped", "runs", "pts"} :
             session'[part] = session[part]
    BY <1>0, <2>1 DEF LinuxSessions, HasCamera
  <2>. QED
    BY <1>0, <2>1, <2>2, LinuxQuietFrames
<1>2. ASSUME NEW camera \in Cameras, L!SwitchCamera(camera) PROVE LinuxFits' /\ FrameStep
  <2>1. /\ session' = [session EXCEPT !.camera = camera, !.force = TRUE]
        /\ reader' = reader /\ stage' = stage /\ ~HandsOut
    BY <1>2 DEF L!SwitchCamera, L!Switched, L!Returns, L!Result, Result, HandsOut
  <2>2. camera \in [geo : Nat, fps : Nat]
    BY PlatformAssumption
  <2>3. /\ session' \in LinuxSessions /\ HasCamera(session') /\ session'.cfg = session.cfg
        /\ \A part \in {"running", "encoded", "dropped", "runs", "pts"} :
             session'[part] = session[part]
    BY <1>0, <2>1, <2>2 DEF LinuxSessions, HasCamera
  <2>. QED
    BY <1>0, <2>1, <2>3, LinuxQuietFrames
<1>3. ASSUME NEW on \in BOOLEAN, L!SetCapture(on) PROVE LinuxFits' /\ FrameStep
  <2>1. reader' = reader /\ stage' = stage /\ ~HandsOut
    BY <1>3 DEF L!SetCapture, L!Returns, L!Result, Result, HandsOut
  <2>2. PICK force \in BOOLEAN :
          session' = session \/ session' = [session EXCEPT !.capture = on, !.force = force]
    <3>1. (session.force \/ (on /\ ~session.capture)) \in BOOLEAN
      BY Zenon
    <3>. QED
      BY <1>3, <3>1, Zenon DEF L!SetCapture
  <2>3. /\ session' \in LinuxSessions /\ (HasCamera(session') <=> HasCamera(session))
        /\ session'.decodeOnly = session.decodeOnly /\ session'.cfg = session.cfg
        /\ \A part \in {"running", "encoded", "dropped", "runs", "pts"} :
             session'[part] = session[part]
    BY <1>0, <2>2 DEF LinuxSessions, HasCamera
  <2>. QED
    BY <1>0, <2>1, <2>3, LinuxQuietFrames
<1>. QED
  BY <1>1, <1>2, <1>3 DEF L!EncodeSide

LEMMA LinuxDecodeSideFrames ==
  ASSUME backend = "linux", backend' = "linux", LinuxFits, L!DecodeSide
  PROVE  LinuxFits' /\ FrameStep
<1>0. /\ session \in LinuxSessions /\ reader \in Readers /\ stage \in Stages
      /\ stage \in Negotiated => session.cfg.fps \in 1 .. Second
      /\ session.decodeOnly \/ HasCamera(session) \/ stage \in {"none", "camera"}
  BY DEF LinuxFits
<1>1. CASE L!GetTexture \/ L!SubmitFails
  <2>1. session' = session /\ reader' = reader /\ stage' = stage
    BY <1>1 DEF L!GetTexture, L!SubmitFails, L!Refuses
  <2>2. ~HandsOut
    BY <1>1 DEF L!GetTexture, L!SubmitFails, L!Refuses, L!Returns, L!Result, Result, HandsOut
  <2>. QED
    BY <1>0, <2>1, <2>2, LinuxQuietFrames
<1>2. ASSUME NEW unit \in L!AccessUnits, L!Submit(unit) PROVE LinuxFits' /\ FrameStep
  <2>1. reader' = reader /\ stage' = stage /\ last'.code # "frame"
    BY <1>2 DEF L!Submit, L!Answers, L!Returns, L!Result
  <2>2. ~HandsOut
    BY <2>1 DEF HandsOut, Result
  <2>3. PICK params \in BOOLEAN :
          \/ session' = [session EXCEPT !.params = params]
          \/ session' = [[session EXCEPT !.params = params] EXCEPT !.awaiting = FALSE]
    <3>1. PICK params \in L!Learns(unit) :
            \/ session' = [session EXCEPT !.params = params]
            \/ session' = [[session EXCEPT !.params = params] EXCEPT !.awaiting = FALSE]
      BY <1>2, Zenon DEF L!Submit, L!Answers
    <3>2. params \in BOOLEAN
      BY <1>0 DEF L!Learns, LinuxSessions
    <3>. QED
      BY <3>1, <3>2, Zenon
  <2>4. /\ session' \in LinuxSessions /\ (HasCamera(session') <=> HasCamera(session))
        /\ session'.decodeOnly = session.decodeOnly /\ session'.cfg = session.cfg
        /\ \A part \in {"running", "encoded", "dropped", "runs", "pts"} :
             session'[part] = session[part]
    BY <1>0, <2>3 DEF LinuxSessions, HasCamera
  <2>. QED
    BY <1>0, <2>1, <2>2, <2>4, LinuxQuietFrames
<1>. QED
  BY <1>1, <1>2 DEF L!DecodeSide

LEMMA LinuxInit ==
  ASSUME stage = "none", session = L!Closed, reader = L!NoRead  PROVE LinuxFits
BY ClosedIsLinux, LinuxNothingIsRead DEF LinuxFits, Stages, Negotiated

(* The second session of a group call has no part in the frames of the first. *)
LEMMA LinuxFrames ==
  ASSUME backend = "linux", backend' = "linux", LinuxFits, LinuxStep
  PROVE  LinuxFits' /\ FrameStep
<1>1. CASE L!Lifecycle \/ L!Reading \/ L!EncodeSide \/ L!Changes \/ L!DecodeSide
  BY <1>1, LinuxLifecycleFrames, LinuxReadingFrames, LinuxEncodeSideFrames,
     LinuxChangesFrames, LinuxDecodeSideFrames
<1>2. CASE UNCHANGED <<stage, session, reader, last>>
  <2>1. ~HandsOut
    BY <1>2 DEF HandsOut
  <2>. QED
    BY <1>2, <2>1, LinuxQuietFrames DEF LinuxFits
<1>. QED
  BY <1>1, <1>2 DEF LinuxStep

-----------------------------------------------------------------------------
(* The frames of Windows *)

Codes == {"none", "ok", "backend"}

WindowsSessions ==
    [state : {"none", "open", "running"}, runs : 0 .. MaxRuns, decodeOnly : BOOLEAN,
     cfg : Configs, running : BOOLEAN, stop : {"none", "unset", "set"}, capture : BOOLEAN,
     force : BOOLEAN, awaiting : BOOLEAN, pending : BOOLEAN, asked : Configs,
     done : BOOLEAN, result : Codes, ring : Seq(FrameSet), reader : Nat, enc : BOOLEAN,
     dec : Nat, made : 0 .. MaxObjects, freed : SUBSET Nat, encoded : 0 .. MaxFrames,
     dropped : Nat, base : {-1} \cup Nat]

WindowsThreads ==
    [pc : {"none", "top", "applying", "answering", "forcing", "reading", "encoding"},
     pending : BOOLEAN, req : Configs, want : BOOLEAN, on : BOOLEAN, reader : Nat, rc : Codes]

Ending == {"joining", "clearing"}
Asking == {"asking", "switching", "switched", "returning"}
WindowsCalls == [pc : {"idle", "starting"} \cup Ending \cup Asking, req : {NoConfig}]

(* Which state the control thread's call finds, and whose thread runs. *)
CallFits ==
    /\ control \in WindowsCalls
    /\ control.pc = "joining" <=> session.stop = "set"
    /\ control.pc = "starting" =>
         session.state = "running" /\ ~session.running /\ ~session.decodeOnly
    /\ control.pc \in Ending => session.state = "open"
    /\ control.pc \in Asking => session.state = "running" /\ ~session.decodeOnly
    /\ session.running => session.state = "running" /\ ~session.decodeOnly
    /\ session.done => session.result # "none"

ThreadsFit ==
    /\ threads \in [W!Runs -> WindowsThreads]
    /\ \A r \in W!Runs :
         /\ threads[r].pc = "answering" => threads[r].rc # "none"
         /\ threads[r].pc # "none" => r <= session.runs
         /\ threads[r].pc # "none" /\ session.state # "none" => ~session.decodeOnly

(* A frame's timestamp counts from the first frame of its start, and a frame
   comes before those of a later start. *)
Timed(frame, s) ==
    /\ frame.run <= s.runs
    /\ frame.run = s.runs => s.base # -1 /\ s.base + frame.pts < s.encoded
Before(first, second) ==
    \/ first.run < second.run
    \/ first.run = second.run /\ first.pts < second.pts

(* It is of the latest start, or there is a thread of an earlier one. *)
OfAThread(frame, s, live) ==
    /\ live # {}
    /\ frame.run = s.runs \/ \E r \in live : r # s.runs

(* The ring holds frames as they were made, later than what was read, while
   there are threads, except between the end of a thread and the end of the
   stop that waits for it. *)
RingFits ==
    /\ Len(session.ring) <= RingFrames
    /\ session.dropped + Len(session.ring) <= session.encoded
    /\ session.base <= session.encoded
    /\ reader.frame = NoFrame \/ Timed(reader.frame, session)
    /\ \A i \in 1 .. Len(session.ring) :
         /\ Timed(session.ring[i], session)
         /\ reader.frame = NoFrame \/ Before(reader.frame, session.ring[i])
         /\ control.pc \notin Ending => OfAThread(session.ring[i], session, W!Live)
         /\ \A j \in 1 .. i - 1 : Before(session.ring[j], session.ring[i])

WindowsFits ==
    /\ session \in WindowsSessions /\ reader \in Readers
    /\ CallFits /\ ThreadsFit /\ RingFits
    /\ session.state = "none" => reader = W!NoRead /\ session.encoded = 0

LEMMA WindowsSees ==
  /\ backend = "windows" =>
       /\ Balance = session.encoded - session.dropped - Len(session.ring)
       /\ Opened <=> session.state # "none"
  /\ backend' = "windows" =>
       /\ Balance' = session'.encoded - session'.dropped - Len(session'.ring)
       /\ Opened' <=> session'.state # "none"
BY DEF Balance, Queued, Opened, W!IsOpen

LEMMA WindowsNothingIsRead == W!NoRead \in Readers /\ W!NoRead.frame = NoFrame /\ W!NoRead.pc = "out"
<1>1. W!NoRead = [pc |-> "out", cap |-> 0, frame |-> NoFrame]
  BY DEF W!NoRead, W!NoFrame, W!Frame, NoFrame, Frame
<1>. QED
  BY <1>1, NothingIsRead DEF Readers

LEMMA ClosedIsWindows ==
  /\ W!Closed \in WindowsSessions /\ W!NoConfig \in Configs
  /\ W!Closed.state = "none" /\ W!Closed.encoded = 0 /\ W!Closed.stop = "none"
  /\ W!Closed.dropped = 0 /\ W!Closed.ring = <<>> /\ ~W!Closed.running /\ ~W!Closed.done
  /\ W!Closed.base = -1
<1>1. W!Closed = [state |-> "none", runs |-> 0, decodeOnly |-> FALSE, cfg |-> W!NoConfig,
     running |-> FALSE, stop |-> "none", capture |-> FALSE, force |-> FALSE,
     awaiting |-> TRUE, pending |-> FALSE, asked |-> W!NoConfig, done |-> FALSE,
     result |-> "none", ring |-> <<>>, reader |-> 0, enc |-> FALSE, dec |-> 0,
     made |-> 0, freed |-> {}, encoded |-> 0, dropped |-> 0, base |-> -1]
  BY DEF W!Closed, W!NoBase
<1>2. W!NoConfig \in Configs
  BY DEF W!NoConfig, Configs
<1>3. MaxFrames \in Nat /\ MaxRuns \in Nat /\ MaxObjects \in Nat
  BY InstanceAssumption, PlatformAssumption
<1>4. <<>> \in Seq(FrameSet)
  OBVIOUS
<1>. QED
  BY <1>1, <1>2, <1>3, <1>4 DEF WindowsSessions, Codes

LEMMA IdleIsThread ==
  /\ W!NoThread \in WindowsThreads /\ W!NoThread.pc = "none"
  /\ \A pc \in {"top", "encoding"} :
       /\ [W!NoThread EXCEPT !.pc = pc] \in WindowsThreads
       /\ [W!NoThread EXCEPT !.pc = pc].pc = pc
BY ClosedIsWindows DEF W!NoThread, WindowsThreads, Codes

LEMMA WindowsBudget ==
  ASSUME NEW req \in Requests, NEW cfg \in W!ByBudget(req, 0)
  PROVE  cfg \in Configs
<1>1. cfg \in M!ByBudget(req, 0)
  BY DEF W!ByBudget, M!ByBudget, W!Unachievable, M!Unachievable, W!Nominal, M!Nominal,
         W!AtLeast, M!AtLeast, W!AtMost, M!AtMost
<1>. QED
  BY <1>1, BudgetIsSlow

CallParts == {"state", "decodeOnly", "stop", "running", "done", "result"}
FrameParts == {"ring", "encoded", "dropped", "runs", "base"}

(* A step that leaves the frames as they are. *)
LEMMA WindowsQuietFrames ==
  ASSUME backend = "windows", backend' = "windows", WindowsFits,
         session' \in WindowsSessions, reader' \in Readers, CallFits', ThreadsFit',
         \A part \in FrameParts : session'[part] = session[part],
         session'.state # "none" \/ (session.state = "none" /\ reader' = reader),
         control'.pc \notin Ending => control.pc \notin Ending /\ W!Live \subseteq W!Live',
         reader'.frame = reader.frame, ~HandsOut
  PROVE  WindowsFits' /\ FrameStep
<1>1. /\ session'.ring = session.ring /\ session'.dropped = session.dropped
      /\ session'.encoded = session.encoded /\ session'.runs = session.runs
      /\ session'.base = session.base
  BY DEF FrameParts
<1>2. Balance' = Balance
  BY <1>1, WindowsSees
<1>3. ASSUME NEW frame
      PROVE  /\ Timed(frame, session) => Timed(frame, session')
             /\ Before(reader.frame, frame) => Before(reader'.frame, frame)
             /\ control'.pc \notin Ending /\ OfAThread(frame, session, W!Live) =>
                  OfAThread(frame, session', W!Live')
  BY <1>1 DEF Timed, Before, OfAThread
<1>5. RingFits'
  BY <1>1, <1>3 DEF WindowsFits, RingFits
<1>4. WindowsFits'
  BY <1>1, <1>5 DEF WindowsFits
<1>. QED
  BY <1>2, <1>4 DEF FrameStep

(* ... and no thread comes or goes, nor a call of the control thread. *)
LEMMA WindowsSteadyFrames ==
  ASSUME backend = "windows", backend' = "windows", WindowsFits,
         session' \in WindowsSessions, reader' \in Readers,
         \A part \in CallParts \cup FrameParts : session'[part] = session[part],
         UNCHANGED <<control, threads>>,
         session.state = "none" => reader' = reader,
         reader'.frame = reader.frame, ~HandsOut
  PROVE  WindowsFits' /\ FrameStep
<1>1. /\ session'.state = session.state /\ session'.decodeOnly = session.decodeOnly
      /\ session'.stop = session.stop /\ session'.running = session.running
      /\ session'.done = session.done /\ session'.result = session.result
      /\ session'.runs = session.runs
  BY DEF CallParts, FrameParts
<1>2. \A part \in FrameParts : session'[part] = session[part]
  OBVIOUS
<1>3. CallFits' /\ ThreadsFit'
  BY <1>1 DEF WindowsFits, CallFits, ThreadsFit
<1>4. W!Live' = W!Live
  BY DEF W!Live
<1>. QED
  BY <1>1, <1>2, <1>3, <1>4, WindowsQuietFrames DEF WindowsFits

LEMMA ThreadMoves ==
  ASSUME WindowsFits, NEW r \in W!Runs, NEW values \in WindowsThreads, W!Thread(r, values),
         threads[r].pc # "none", values.pc # "none", values.pc = "answering" => values.rc # "none",
         session'.state = session.state, session'.decodeOnly = session.decodeOnly,
         session'.runs = session.runs
  PROVE  ThreadsFit' /\ W!Live' = W!Live
<1>1. threads' = [threads EXCEPT ![r] = values]
  BY DEF W!Thread
<1>2. ThreadsFit
  BY DEF WindowsFits
<1>3. ThreadsFit'
  BY <1>1, <1>2 DEF ThreadsFit
<1>4. W!Live' = W!Live
  BY <1>1, <1>2 DEF ThreadsFit, W!Live
<1>. QED
  BY <1>3, <1>4

LEMMA ControlIs ==
  ASSUME NEW pc \in {"idle", "starting"} \cup Ending \cup Asking, W!Control(pc)
  PROVE  control' \in WindowsCalls /\ control'.pc = pc
<1>1. control' = [W!NoCall EXCEPT !.pc = pc]
  BY DEF W!Control
<1>2. W!NoCall = [pc |-> "idle", req |-> NoConfig]
  BY DEF W!NoCall, W!NoConfig, NoConfig
<1>. QED
  BY <1>1, <1>2 DEF WindowsCalls

(* A session ends, or the next one begins: no frame waits. *)
LEMMA WindowsEmpty ==
  ASSUME WindowsFits', session'.ring = <<>>, session'.encoded = 0, backend = "windows",
         backend' = "windows", WindowsFits, session.state = "none" \/ session'.state = "none", ~HandsOut
  PROVE  FrameStep
<1>1. CASE session'.state = "none"
  BY <1>1, WindowsSees DEF FrameStep
<1>2. CASE session.state = "none"
  <2>1. session.encoded = 0 /\ session.dropped + Len(session.ring) <= session.encoded
    BY <1>2 DEF WindowsFits, RingFits
  <2>2. session'.dropped + Len(session'.ring) <= session'.encoded
    BY DEF WindowsFits, RingFits
  <2>3. PICK d, n, e, m : d = session.dropped /\ n = Len(session.ring)
                       /\ e = session'.dropped /\ m = Len(session'.ring)
    OBVIOUS
  <2>4. d \in Nat /\ n \in Nat /\ e \in Nat /\ m \in Nat
    BY <2>3 DEF WindowsFits, WindowsSessions
  <2>5. d + n <= 0 /\ e + m <= 0
    BY <2>1, <2>2, <2>3
  <2>6. d = 0 /\ n = 0 /\ e = 0 /\ m = 0
    BY <2>4, <2>5
  <2>7. Balance' = Balance
    BY <2>1, <2>3, <2>6, WindowsSees
  <2>. QED
    BY <2>7 DEF FrameStep
<1>. QED
  BY <1>1, <1>2

LEMMA WindowsOpenFrames ==
  ASSUME backend = "windows", backend' = "windows", WindowsFits, ~W!Gone,
         NEW req \in Requests, NEW decodeOnly \in BOOLEAN, W!Open(req, decodeOnly)
  PROVE  WindowsFits' /\ FrameStep
<1>1. PICK cfg \in W!ByBudget(req, 0), native \in {r.geo : r \in Requests} :
        session' = [W!Closed EXCEPT
           !.state = "open", !.runs = session.runs, !.decodeOnly = decodeOnly,
           !.cfg = IF decodeOnly THEN cfg ELSE [cfg EXCEPT !.geo = native],
           !.capture = ~decodeOnly, !.reader = IF decodeOnly THEN 0 ELSE 1,
           !.enc = ~decodeOnly, !.dec = 2, !.made = 2]
  BY Zenon DEF W!Open
<1>2. PICK config, capture, rd :
        /\ config = IF decodeOnly THEN cfg ELSE [cfg EXCEPT !.geo = native]
        /\ capture = ~decodeOnly /\ rd = IF decodeOnly THEN 0 ELSE 1
  OBVIOUS
<1>3. config \in Configs /\ capture \in BOOLEAN /\ rd \in Nat
  <2>1. cfg \in Configs
    BY <1>1, WindowsBudget
  <2>2. native \in Nat
    BY <1>1, InstanceAssumption
  <2>. QED
    BY <1>2, <2>1, <2>2 DEF Configs
<1>4. session' = [W!Closed EXCEPT
           !.state = "open", !.runs = session.runs, !.decodeOnly = decodeOnly,
           !.cfg = config, !.capture = capture, !.reader = rd,
           !.enc = capture, !.dec = 2, !.made = 2]
  BY <1>1, <1>2, Zenon
<1>5. session.runs \in 0 .. MaxRuns /\ 2 \in 0 .. MaxObjects
  <2>1. MaxObjects \in Nat \ {0, 1}
    BY PlatformAssumption
  <2>. QED
    BY <2>1 DEF WindowsFits, WindowsSessions
<1>6. /\ session' \in WindowsSessions /\ session'.state = "open" /\ session'.stop = "none"
      /\ ~session'.running /\ ~session'.done /\ session'.ring = <<>>
      /\ session'.dropped = 0 /\ session'.encoded = 0 /\ session'.base = -1
  <2>1. PICK shut : shut = W!Closed
    OBVIOUS
  <2>2. /\ shut \in WindowsSessions /\ shut.stop = "none" /\ ~shut.running /\ ~shut.done
        /\ shut.ring = <<>> /\ shut.dropped = 0 /\ shut.encoded = 0 /\ shut.base = -1
    BY <2>1, ClosedIsWindows, Zenon
  <2>3. PICK run : run = session.runs
    OBVIOUS
  <2>4. PICK s : s = [shut EXCEPT !.state = "open", !.runs = run, !.decodeOnly = decodeOnly]
    OBVIOUS
  <2>5. PICK u : u = [s EXCEPT !.cfg = config, !.capture = capture, !.reader = rd]
    OBVIOUS
  <2>6. PICK next : next = [u EXCEPT !.enc = capture, !.dec = 2, !.made = 2]
    OBVIOUS
  <2>7. next = session'
    BY <1>4, <2>1, <2>3, <2>4, <2>5, <2>6, <2>2, ClosedIsWindows DEF WindowsSessions
  <2>8. run \in 0 .. MaxRuns
    BY <1>5, <2>3
  <2>9. /\ s \in WindowsSessions /\ s.state = "open" /\ s.stop = "none" /\ ~s.running
        /\ ~s.done /\ s.ring = <<>> /\ s.dropped = 0 /\ s.encoded = 0 /\ s.base = -1
    BY <2>2, <2>4, <2>8 DEF WindowsSessions
  <2>10. /\ u \in WindowsSessions /\ u.state = "open" /\ u.stop = "none" /\ ~u.running
         /\ ~u.done /\ u.ring = <<>> /\ u.dropped = 0 /\ u.encoded = 0 /\ u.base = -1
    BY <1>3, <2>5, <2>9 DEF WindowsSessions
  <2>11. /\ next \in WindowsSessions /\ next.state = "open" /\ next.stop = "none"
         /\ ~next.running /\ ~next.done /\ next.ring = <<>> /\ next.dropped = 0
         /\ next.encoded = 0 /\ next.base = -1
    BY <1>3, <1>5, <2>6, <2>10 DEF WindowsSessions
  <2>. QED
    BY <2>7, <2>11
<1>7. /\ session.state = "none" /\ control.pc = "idle" /\ reader' = reader
      /\ control' = control /\ threads' = threads /\ last' = Result("open", "ok")
  BY DEF W!Open, W!IsOpen, W!Idle, W!Returns, W!Result, Result
<1>8. W!Live = {}
  BY <1>7 DEF W!Gone, W!IsOpen
<1>9. CallFits' /\ ThreadsFit'
  <2>1. \A r \in W!Runs : threads[r].pc = "none"
    BY <1>8 DEF W!Live
  <2>. QED
    BY <1>6, <1>7, <2>1 DEF CallFits, ThreadsFit, WindowsFits, Ending, Asking
<1>10. RingFits'
  <2>1. Len(session'.ring) = 0 /\ RingFrames \in Nat
    BY <1>6, PlatformAssumption
  <2>2. reader'.frame = NoFrame
    BY <1>7, WindowsNothingIsRead DEF WindowsFits
  <2>. QED
    BY <1>6, <2>1, <2>2 DEF RingFits
<1>11. WindowsFits'
  BY <1>6, <1>7, <1>9, <1>10 DEF WindowsFits
<1>12. ~HandsOut
  BY <1>7 DEF HandsOut
<1>. QED
  BY <1>6, <1>7, <1>11, <1>12, WindowsEmpty

LEMMA WindowsCloseFrames ==
  ASSUME backend = "windows", backend' = "windows", WindowsFits, W!Close
  PROVE  WindowsFits' /\ FrameStep
<1>1. /\ session' = [W!Closed EXCEPT !.runs = session.runs] /\ reader' = W!NoRead
      /\ control.pc = "idle" /\ reader.pc = "out" /\ control' = control /\ threads' = threads
  BY DEF W!Close, W!Idle
<1>2. session.runs \in 0 .. MaxRuns
  BY DEF WindowsFits, WindowsSessions
<1>3. /\ session' \in WindowsSessions /\ session'.state = "none" /\ session'.stop = "none"
      /\ ~session'.running /\ ~session'.done /\ session'.ring = <<>>
      /\ session'.dropped = 0 /\ session'.encoded = 0 /\ session'.base = -1
      /\ session'.runs = session.runs
  BY <1>1, <1>2, ClosedIsWindows DEF WindowsSessions
<1>4. CallFits' /\ ThreadsFit'
  BY <1>1, <1>3 DEF CallFits, ThreadsFit, WindowsFits, Ending, Asking
<1>5. RingFits'
  <2>1. Len(session'.ring) = 0 /\ RingFrames \in Nat
    BY <1>3, PlatformAssumption
  <2>. QED
    BY <1>1, <1>3, <2>1, WindowsNothingIsRead DEF RingFits
<1>6. WindowsFits'
  BY <1>1, <1>3, <1>4, <1>5, WindowsNothingIsRead DEF WindowsFits
<1>7. ~HandsOut
  BY <1>1 DEF HandsOut
<1>. QED
  BY <1>3, <1>6, <1>7, WindowsEmpty

LEMMA WindowsStartFrames ==
  ASSUME backend = "windows", backend' = "windows", WindowsFits, W!Start
  PROVE  WindowsFits' /\ FrameStep
<1>0. session \in WindowsSessions /\ reader \in Readers /\ CallFits /\ ThreadsFit
  BY DEF WindowsFits
<1>1. /\ session' = [session EXCEPT !.state = "running", !.runs = @ + 1, !.stop = "unset",
                                    !.force = TRUE, !.awaiting = TRUE, !.base = -1]
      /\ session.runs < MaxRuns /\ session.state = "open" /\ control.pc = "idle"
      /\ UNCHANGED <<threads, reader>>
  BY DEF W!Start, W!Idle, W!NoBase
<1>2. session.runs + 1 \in 0 .. MaxRuns /\ session.runs \in Nat
  <2>1. MaxRuns \in Nat
    BY InstanceAssumption
  <2>. QED
    BY <1>0, <1>1, <2>1 DEF WindowsSessions
<1>3. /\ session' \in WindowsSessions /\ session'.state = "running" /\ session'.stop = "unset"
      /\ session'.decodeOnly = session.decodeOnly /\ session'.running = session.running
      /\ session'.done = session.done /\ session'.result = session.result
      /\ session'.ring = session.ring /\ session'.encoded = session.encoded
      /\ session'.dropped = session.dropped /\ session'.runs = session.runs + 1
      /\ session'.base = -1
  <2>1. PICK s : s = [session EXCEPT !.state = "running", !.runs = @ + 1, !.stop = "unset"]
    OBVIOUS
  <2>2. session' = [s EXCEPT !.force = TRUE, !.awaiting = TRUE, !.base = -1]
    BY <1>0, <1>1, <2>1 DEF WindowsSessions
  <2>3. /\ s \in WindowsSessions /\ s.state = "running" /\ s.stop = "unset"
        /\ s.decodeOnly = session.decodeOnly /\ s.running = session.running
        /\ s.done = session.done /\ s.result = session.result
        /\ s.ring = session.ring /\ s.encoded = session.encoded
        /\ s.dropped = session.dropped /\ s.runs = session.runs + 1
    BY <1>0, <1>2, <2>1 DEF WindowsSessions
  <2>. QED
    BY <2>2, <2>3 DEF WindowsSessions
<1>4. control' = control \/ (~session.decodeOnly /\ W!Control("starting"))
  BY DEF W!Start
<1>5. CallFits' /\ control'.pc \notin Ending
  <2>1. CASE control' = control
    BY <1>0, <1>1, <1>3, <2>1 DEF CallFits, Ending, Asking
  <2>2. CASE ~session.decodeOnly /\ W!Control("starting")
    <3>1. control' \in WindowsCalls /\ control'.pc = "starting"
      BY <2>2, ControlIs
    <3>. QED
      BY <1>0, <1>1, <1>3, <2>2, <3>1 DEF CallFits, Ending, Asking
  <2>. QED
    BY <1>4, <2>1, <2>2
<1>6. ThreadsFit' /\ W!Live' = W!Live
  <2>1. \A r \in W!Runs : r <= session.runs => r <= session.runs + 1
    BY <1>2 DEF W!Runs
  <2>. QED
    BY <1>0, <1>1, <1>3, <2>1 DEF ThreadsFit, W!Live
<1>7. ~HandsOut
  BY <1>1 DEF HandsOut
<1>8. ASSUME NEW frame \in FrameSet, Timed(frame, session) PROVE Timed(frame, session')
  <2>1. frame.run \in Nat /\ frame.run <= session.runs
    BY <1>8 DEF FrameSet, Timed
  <2>2. frame.run <= session.runs + 1 /\ frame.run # session.runs + 1
    BY <1>2, <2>1
  <2>. QED
    BY <1>3, <2>2 DEF Timed
<1>9. ASSUME NEW frame, OfAThread(frame, session, W!Live)
      PROVE  OfAThread(frame, session', W!Live')
  <2>1. PICK r \in W!Live : TRUE
    BY <1>9 DEF OfAThread
  <2>2. r <= session.runs /\ r \in Nat
    BY <1>0, <2>1 DEF ThreadsFit, W!Live, W!Runs
  <2>3. r # session.runs + 1
    BY <1>2, <2>2
  <2>. QED
    BY <1>3, <1>6, <2>1, <2>3 DEF OfAThread
<1>10. RingFits'
  <2>1. /\ Len(session.ring) <= RingFrames
        /\ session.dropped + Len(session.ring) <= session.encoded
        /\ reader.frame = NoFrame \/ Timed(reader.frame, session)
        /\ \A i \in 1 .. Len(session.ring) :
             /\ Timed(session.ring[i], session)
             /\ reader.frame = NoFrame \/ Before(reader.frame, session.ring[i])
             /\ OfAThread(session.ring[i], session, W!Live)
             /\ \A j \in 1 .. i - 1 : Before(session.ring[j], session.ring[i])
    BY <1>1 DEF WindowsFits, RingFits, Ending
  <2>2. reader.frame \in FrameSet /\ \A i \in 1 .. Len(session.ring) : session.ring[i] \in FrameSet
    BY <1>0 DEF Readers, WindowsSessions
  <2>3. session'.base <= session'.encoded
    <3>1. session.encoded \in Nat
      BY <1>0, InstanceAssumption DEF WindowsSessions
    <3>. QED
      BY <1>3, <3>1
  <2>4. reader'.frame = NoFrame \/ Timed(reader'.frame, session')
    BY <1>1, <1>8, <2>1, <2>2
  <2>5. \A i \in 1 .. Len(session.ring) :
             /\ Timed(session.ring[i], session')
             /\ OfAThread(session.ring[i], session', W!Live')
    BY <1>8, <1>9, <2>1, <2>2
  <2>. QED
    BY <1>1, <1>3, <2>1, <2>3, <2>4, <2>5, Zenon DEF RingFits
<1>11. WindowsFits'
  BY <1>0, <1>1, <1>3, <1>5, <1>6, <1>10 DEF WindowsFits
<1>12. Balance' = Balance
  BY <1>3, WindowsSees
<1>. QED
  BY <1>7, <1>11, <1>12 DEF FrameStep

LEMMA WindowsThreadMadeFrames ==
  ASSUME backend = "windows", backend' = "windows", WindowsFits,
         W!StartMakesThread \/ W!StartMakesNone
  PROVE  WindowsFits' /\ FrameStep
<1>0. session \in WindowsSessions /\ reader \in Readers /\ CallFits /\ ThreadsFit
  BY DEF WindowsFits
<1>1. control.pc = "starting" /\ reader' = reader /\ W!Control("idle")
  BY DEF W!StartMakesThread, W!StartMakesNone
<1>2. control' \in WindowsCalls /\ control'.pc = "idle" /\ ~HandsOut
  BY <1>1, ControlIs DEF HandsOut
<1>3. session.state = "running" /\ ~session.decodeOnly /\ session.stop # "set"
  BY <1>0, <1>1 DEF CallFits
<1>4. CASE W!StartMakesThread
  <2>1. /\ session' = [session EXCEPT !.running = TRUE]
        /\ threads' = [threads EXCEPT ![session.runs].pc = "top"]
    BY <1>4 DEF W!StartMakesThread
  <2>2. /\ session' \in WindowsSessions /\ session'.running
        /\ session'.state = session.state /\ session'.decodeOnly = session.decodeOnly
        /\ session'.stop = session.stop /\ session'.done = session.done
        /\ session'.result = session.result
        /\ \A part \in FrameParts : session'[part] = session[part]
    BY <1>0, <2>1 DEF WindowsSessions, FrameParts
  <2>3. CallFits'
    BY <1>0, <1>1, <1>2, <1>3, <2>2 DEF CallFits, Ending, Asking
  <2>4. PICK run : run = session.runs
    OBVIOUS
  <2>5. ASSUME NEW r \in W!Runs
        PROVE  /\ threads'[r] \in WindowsThreads
               /\ threads'[r] = threads[r] \/ (threads'[r].pc = "top" /\ r = run)
    <3>1. threads[r] \in WindowsThreads /\ threads[r] = threads[r]
      BY <1>0 DEF ThreadsFit
    <3>2. [threads[r] EXCEPT !.pc = "top"] \in WindowsThreads
      BY <3>1 DEF WindowsThreads
    <3>3. [threads[r] EXCEPT !.pc = "top"].pc = "top"
      BY <3>1 DEF WindowsThreads
    <3>4. threads' = [threads EXCEPT ![run] = [threads[run] EXCEPT !.pc = "top"]]
      BY <2>1, <2>4
    <3>5. threads'[r] = IF r = run THEN [threads[r] EXCEPT !.pc = "top"] ELSE threads[r]
      BY <1>0, <3>4 DEF ThreadsFit
    <3>. QED
      BY <3>1, <3>2, <3>3, <3>5
  <2>6. ThreadsFit'
    <3>1. threads' \in [W!Runs -> WindowsThreads]
      <4>1. threads' = [r \in W!Runs |-> threads'[r]]
        BY <1>0, <2>1 DEF ThreadsFit
      <4>. QED
        BY <2>5, <4>1
    <3>2. session'.runs = session.runs /\ \A r \in W!Runs : r = run => r <= session.runs
      BY <2>2, <2>4 DEF FrameParts, W!Runs
    <3>. QED
      BY <1>0, <1>3, <2>2, <2>5, <3>1, <3>2 DEF ThreadsFit
  <2>7. W!Live \subseteq W!Live'
    BY <2>5 DEF W!Live
  <2>. QED
    BY <1>0, <1>1, <1>2, <1>3, <2>2, <2>3, <2>6, <2>7, WindowsQuietFrames DEF Ending
<1>5. CASE W!StartMakesNone
  <2>1. session' = [session EXCEPT !.state = "open", !.stop = "none"] /\ threads' = threads
        /\ W!Returns("start", "backend")
    BY <1>5 DEF W!StartMakesNone
  <2>2. /\ session' \in WindowsSessions /\ session'.running = session.running
        /\ session'.state = "open" /\ session'.decodeOnly = session.decodeOnly
        /\ session'.stop = "none" /\ session'.done = session.done
        /\ session'.result = session.result
        /\ \A part \in FrameParts : session'[part] = session[part]
    BY <1>0, <2>1 DEF WindowsSessions, FrameParts
  <2>3. ~session.running
    BY <1>0, <1>1 DEF CallFits
  <2>4. CallFits'
    BY <1>0, <1>1, <1>2, <1>3, <2>2, <2>3 DEF CallFits, Ending, Asking
  <2>5. ThreadsFit' /\ W!Live' = W!Live
    BY <1>0, <2>1, <2>2, <1>3 DEF ThreadsFit, W!Live, FrameParts
  <2>. QED
    BY <1>0, <1>1, <1>2, <2>2, <2>4, <2>5, WindowsQuietFrames DEF Ending
<1>. QED
  BY <1>4, <1>5

(* The frames left by a stop are taken from the ring without a word. *)
LEMMA WindowsStopFrames ==
  ASSUME backend = "windows", backend' = "windows", WindowsFits,
         W!Stop \/ W!StopJoins \/ W!StopClears
  PROVE  WindowsFits' /\ FrameStep
<1>0. session \in WindowsSessions /\ reader \in Readers /\ CallFits /\ ThreadsFit /\ RingFits
  BY DEF WindowsFits
<1>1. reader' = reader /\ threads' = threads /\ ~HandsOut
  BY DEF W!Stop, W!StopJoins, W!StopClears, HandsOut
<1>2. W!Live' = W!Live
  BY <1>1 DEF W!Live
<1>3. CASE W!Stop
  <2>1. /\ session' = [session EXCEPT !.state = "open", !.running = FALSE, !.stop = "set"]
        /\ session.state = "running" /\ control.pc = "idle" /\ W!Control("joining")
    BY <1>3 DEF W!Stop, W!Running, W!Idle
  <2>2. /\ session' \in WindowsSessions /\ session'.state = "open" /\ session'.stop = "set"
        /\ ~session'.running /\ session'.decodeOnly = session.decodeOnly
        /\ session'.done = session.done /\ session'.result = session.result
        /\ \A part \in FrameParts : session'[part] = session[part]
    BY <1>0, <2>1 DEF WindowsSessions, FrameParts
  <2>3. control' \in WindowsCalls /\ control'.pc = "joining"
    BY <2>1, ControlIs DEF Ending
  <2>4. CallFits' /\ ThreadsFit'
    BY <1>0, <1>1, <2>1, <2>2, <2>3 DEF CallFits, ThreadsFit, Ending, Asking, FrameParts
  <2>. QED
    BY <1>0, <1>1, <2>2, <2>3, <2>4, WindowsQuietFrames DEF Ending
<1>4. CASE W!StopJoins
  <2>1. /\ session' = [session EXCEPT !.stop = "none"]
        /\ control.pc = "joining" /\ W!Control("clearing")
    BY <1>4 DEF W!StopJoins
  <2>2. /\ session' \in WindowsSessions /\ session'.state = session.state
        /\ session'.stop = "none" /\ session'.running = session.running
        /\ session'.decodeOnly = session.decodeOnly
        /\ session'.done = session.done /\ session'.result = session.result
        /\ \A part \in FrameParts : session'[part] = session[part]
    BY <1>0, <2>1 DEF WindowsSessions, FrameParts
  <2>3. control' \in WindowsCalls /\ control'.pc = "clearing"
    BY <2>1, ControlIs DEF Ending
  <2>4. session.state = "open"
    BY <1>0, <2>1 DEF CallFits, Ending
  <2>5. CallFits' /\ ThreadsFit'
    BY <1>0, <1>1, <2>2, <2>3, <2>4 DEF CallFits, ThreadsFit, Ending, Asking, FrameParts
  <2>. QED
    BY <1>0, <1>1, <2>2, <2>3, <2>4, <2>5, WindowsQuietFrames DEF Ending
<1>5. CASE W!StopClears
  <2>1. /\ session' = [session EXCEPT !.ring = <<>>, !.awaiting = TRUE]
        /\ control.pc = "clearing" /\ W!Control("idle") /\ last' = Result("stop", "ok")
    BY <1>5 DEF W!StopClears, W!Cleared, W!Returns, W!Result, Result
  <2>2. /\ session' \in WindowsSessions /\ session'.state = session.state
        /\ session'.stop = session.stop /\ session'.running = session.running
        /\ session'.decodeOnly = session.decodeOnly
        /\ session'.done = session.done /\ session'.result = session.result
        /\ session'.ring = <<>> /\ session'.encoded = session.encoded
        /\ session'.dropped = session.dropped /\ session'.runs = session.runs
        /\ session'.base = session.base
    <3>1. <<>> \in Seq(FrameSet)
      OBVIOUS
    <3>. QED
      BY <1>0, <2>1, <3>1 DEF WindowsSessions
  <2>3. control' \in WindowsCalls /\ control'.pc = "idle"
    BY <2>1, ControlIs
  <2>4. session.state = "open"
    BY <1>0, <2>1 DEF CallFits, Ending
  <2>5. CallFits' /\ ThreadsFit'
    BY <1>0, <1>1, <2>1, <2>2, <2>3, <2>4 DEF CallFits, ThreadsFit, Ending, Asking
  <2>6. PICK d, n, e : d = session.dropped /\ n = Len(session.ring) /\ e = session.encoded
    OBVIOUS
  <2>7. d \in Nat /\ n \in Nat /\ e \in Nat /\ d + n <= e /\ d <= e
    <3>1. d \in Nat /\ n \in Nat /\ e \in Nat
      BY <1>0, <2>6, InstanceAssumption DEF WindowsSessions
    <3>2. d + n <= e
      BY <1>0, <2>6, Zenon DEF RingFits
    <3>. QED
      BY <3>1, <3>2
  <2>8. Len(session'.ring) = 0 /\ RingFrames \in Nat
    BY <2>2, PlatformAssumption
  <2>9. session'.dropped + Len(session'.ring) <= session'.encoded
    <3>1. d + 0 <= e
      BY <2>7
    <3>. QED
      BY <2>2, <2>6, <2>8, <3>1, Zenon
  <2>10. RingFits'
    BY <1>0, <1>1, <2>2, <2>8, <2>9 DEF RingFits, Timed
  <2>11. WindowsFits'
    BY <1>0, <1>1, <2>2, <2>4, <2>5, <2>10 DEF WindowsFits
  <2>12. Balance = (e - d) - n /\ Balance' = (e - d) - 0
    BY <2>2, <2>6, <2>8, WindowsSees, Zenon
  <2>13. Balance' >= Balance
    BY <2>7, <2>12
  <2>14. ~EncodesAFrame
    <3>1. e # e + 1
      BY <2>7
    <3>. QED
      BY <2>2, <2>6, <3>1, Zenon DEF EncodesAFrame
  <2>. QED
    BY <1>1, <2>1, <2>11, <2>13, <2>14, Zenon DEF FrameStep
<1>. QED
  BY <1>3, <1>4, <1>5

LEMMA WindowsRefusesFrames ==
  ASSUME backend = "windows", backend' = "windows", WindowsFits,
         UNCHANGED <<session, control, threads, reader>>
  PROVE  WindowsFits' /\ FrameStep
<1>1. ~HandsOut
  BY DEF HandsOut
<1>. QED
  BY <1>1, WindowsSteadyFrames DEF WindowsFits

LEMMA WindowsLifecycleFrames ==
  ASSUME backend = "windows", backend' = "windows", WindowsFits, ~W!Gone, W!Lifecycle
  PROVE  WindowsFits' /\ FrameStep
<1>1. CASE W!OpenFails \/ W!StartFails \/ W!StopIsIdle
  BY <1>1, WindowsRefusesFrames DEF W!OpenFails, W!StartFails, W!StopIsIdle, W!Refuses
<1>. QED
  BY <1>1, WindowsOpenFrames, WindowsCloseFrames, WindowsStartFrames, WindowsThreadMadeFrames,
     WindowsStopFrames DEF W!Lifecycle

(* What applying a change makes of a session. *)
LEMMA AppliedIsTyped ==
  ASSUME WindowsFits, NEW cfg \in Configs, W!MayMake, NEW outcome \in W!Applied(cfg)
  PROVE  /\ outcome[1] \in WindowsSessions /\ outcome[2] \in {"ok", "backend"}
         /\ \A part \in CallParts \cup FrameParts : outcome[1][part] = session[part]
<1>0. session \in WindowsSessions
  BY DEF WindowsFits
<1>1. /\ session.made \in Nat /\ session.made + 1 \in 0 .. MaxObjects
      /\ session.made + 1 \in Nat /\ session.made + 2 \in Nat
      /\ session.made + 2 \in 0 .. MaxObjects
  <2>1. MaxObjects \in Nat /\ session.made \in Nat /\ session.made + 2 <= MaxObjects
    BY <1>0, PlatformAssumption DEF WindowsSessions, W!MayMake
  <2>. QED
    BY <2>1
<1>. DEFINE Keeps(s) == \A part \in CallParts \cup FrameParts : s[part] = session[part]
            Good(s) == s \in WindowsSessions /\ Keeps(s)
<1>2. ASSUME NEW s \in WindowsSessions, Keeps(s), s.made = session.made \/ s.made = session.made + 1
      PROVE  /\ Good(W!NewReader(s)) /\ W!NewReader(s).made = s.made + 1
             /\ Good(W!NoDecoder(s)) /\ W!NoDecoder(s).made = s.made
             /\ Good(W!NewDecoder(s))
  <2>1. s.made + 1 \in Nat /\ s.made + 1 \in 0 .. MaxObjects
    <3>1. CASE s.made = session.made
      BY <1>1, <3>1
    <3>2. CASE s.made = session.made + 1
      <4>1. s.made + 1 = session.made + 2
        BY <1>1, <3>2
      <4>. QED
        BY <1>1, <4>1
    <3>. QED
      BY <1>2, <3>1, <3>2
  <2>2. PICK next : next = s.made + 1
    OBVIOUS
  <2>3. PICK freed : freed = s.freed \cup ({s.dec} \ {0})
    OBVIOUS
  <2>4. freed \in SUBSET Nat
    BY <1>2, <2>3 DEF WindowsSessions
  <2>5. /\ W!NewReader(s) = [s EXCEPT !.reader = next, !.made = next]
        /\ W!NoDecoder(s) = [s EXCEPT !.dec = 0, !.freed = freed]
        /\ W!NewDecoder(s) = [[s EXCEPT !.dec = 0, !.freed = freed] EXCEPT !.dec = next, !.made = next]
    BY <1>2, <2>2, <2>3 DEF W!NewReader, W!NoDecoder, W!NewDecoder, WindowsSessions
  <2>6. Good(W!NewReader(s)) /\ W!NewReader(s).made = s.made + 1
    <3>1. PICK t : t = [s EXCEPT !.reader = next, !.made = next]
      OBVIOUS
    <3>2. t \in WindowsSessions /\ t.made = next
      BY <2>1, <2>2, <3>1 DEF WindowsSessions
    <3>3. Keeps(t)
      BY <1>2, <3>1 DEF CallParts, FrameParts, WindowsSessions
    <3>. QED
      BY <2>2, <2>5, <3>1, <3>2, <3>3
  <2>7. Good(W!NoDecoder(s)) /\ W!NoDecoder(s).made = s.made
    <3>1. PICK t : t = [s EXCEPT !.dec = 0, !.freed = freed]
      OBVIOUS
    <3>2. t \in WindowsSessions /\ t.made = s.made
      BY <2>4, <3>1 DEF WindowsSessions
    <3>3. Keeps(t)
      BY <1>2, <3>1 DEF CallParts, FrameParts, WindowsSessions
    <3>. QED
      BY <2>5, <3>1, <3>2, <3>3
  <2>8. Good(W!NewDecoder(s))
    <3>1. PICK t : t = [[s EXCEPT !.dec = 0, !.freed = freed] EXCEPT !.dec = next, !.made = next]
      OBVIOUS
    <3>2. t \in WindowsSessions
      BY <2>1, <2>2, <2>4, <3>1 DEF WindowsSessions
    <3>3. Keeps(t)
      BY <1>2, <3>1 DEF CallParts, FrameParts, WindowsSessions
    <3>. QED
      BY <2>5, <3>1, <3>2, <3>3
  <2>. QED
    BY <2>6, <2>7, <2>8
<1>3. ASSUME NEW s \in WindowsSessions, Keeps(s), NEW on \in BOOLEAN, NEW waits \in BOOLEAN,
             NEW forced \in BOOLEAN
      PROVE  /\ Good(W!Takes(cfg, s)) /\ Good([s EXCEPT !.awaiting = waits])
             /\ Good([s EXCEPT !.enc = on]) /\ [s EXCEPT !.enc = on].made = s.made
             /\ Good([s EXCEPT !.reader = 0])
             /\ Good([s EXCEPT !.enc = on, !.force = forced])
  BY <1>3 DEF W!Takes, WindowsSessions, CallParts, FrameParts
<1>4. Good(session)
  BY <1>0
<1>5. cfg.geo \in Nat
  BY DEF Configs
<1>. HIDE DEF Good
<1>6. PICK s :
        /\ outcome = <<s, "ok">> \/ outcome = <<s, "backend">>
        /\ \/ s = session \/ s = W!Takes(cfg, session)
           \/ s = W!Takes(cfg, [W!NewDecoder(session) EXCEPT !.awaiting = TRUE])
           \/ s = W!NoDecoder(session) \/ s = [session EXCEPT !.reader = 0]
           \/ s = [W!NewReader(session) EXCEPT !.enc = FALSE]
           \/ s = W!NoDecoder([W!NewReader(session) EXCEPT !.enc = TRUE])
           \/ s = W!Takes(cfg, [W!NewDecoder(W!NewReader(session)) EXCEPT !.enc = TRUE, !.force = TRUE])
  BY Zenon DEF W!Applied
<1>. DEFINE Small(t) == t.made = session.made \/ t.made = session.made + 1
<1>7. ASSUME NEW t, Good(t), Small(t)
      PROVE  /\ Good(W!NewReader(t)) /\ W!NewReader(t).made = t.made + 1
             /\ Good(W!NoDecoder(t)) /\ Good(W!NewDecoder(t))
  BY <1>2, <1>7 DEF Good
<1>8. ASSUME NEW t, Good(t)
      PROVE  /\ Good(W!Takes(cfg, t)) /\ Good([t EXCEPT !.awaiting = TRUE])
             /\ \A on \in BOOLEAN : Good([t EXCEPT !.enc = on]) /\ [t EXCEPT !.enc = on].made = t.made
             /\ Good([t EXCEPT !.reader = 0])
             /\ Good([t EXCEPT !.enc = TRUE, !.force = TRUE])
  BY <1>3, <1>8 DEF Good
<1>9. Small(session) /\ Small(W!NewReader(session))
      /\ Small([W!NewReader(session) EXCEPT !.enc = TRUE])
  <2>1. Small(session)
    OBVIOUS
  <2>2. Good(W!NewReader(session)) /\ W!NewReader(session).made = session.made + 1
    BY <1>4, <1>7, <2>1
  <2>3. [W!NewReader(session) EXCEPT !.enc = TRUE].made = W!NewReader(session).made
    BY <1>8, <2>2
  <2>. QED
    BY <2>1, <2>2, <2>3, Zenon
<1>. HIDE DEF Small
<1>10. /\ Good(W!NoDecoder(session)) /\ Good(W!NewDecoder(session)) /\ Good(W!NewReader(session))
       /\ Good(W!NewDecoder(W!NewReader(session)))
       /\ Good(W!NoDecoder([W!NewReader(session) EXCEPT !.enc = TRUE]))
  <2>1. Good(W!NewReader(session)) /\ Good(W!NoDecoder(session)) /\ Good(W!NewDecoder(session))
    BY <1>4, <1>7, <1>9, Zenon
  <2>2. Good([W!NewReader(session) EXCEPT !.enc = TRUE])
    BY <1>8, <2>1
  <2>. QED
    BY <1>7, <1>9, <2>1, <2>2, Zenon
<1>11. Good(s)
  <2>1. CASE s = session \/ s = W!NoDecoder(session)
             \/ s = W!NoDecoder([W!NewReader(session) EXCEPT !.enc = TRUE])
    BY <1>4, <1>10, <2>1, Zenon
  <2>2. CASE s = W!Takes(cfg, session) \/ s = [session EXCEPT !.reader = 0]
    BY <1>4, <1>8, <2>2, Zenon
  <2>3. CASE s = W!Takes(cfg, [W!NewDecoder(session) EXCEPT !.awaiting = TRUE])
    BY <1>8, <1>10, <2>3, Zenon
  <2>4. CASE s = [W!NewReader(session) EXCEPT !.enc = FALSE]
    BY <1>8, <1>10, <2>4
  <2>5. CASE s = W!Takes(cfg, [W!NewDecoder(W!NewReader(session)) EXCEPT !.enc = TRUE, !.force = TRUE])
    BY <1>8, <1>10, <2>5, Zenon
  <2>. QED
    BY <1>6, <2>1, <2>2, <2>3, <2>4, <2>5, Zenon
<1>12. outcome[1] = s /\ outcome[2] \in {"ok", "backend"}
  BY <1>6
<1>. QED
  BY <1>11, <1>12 DEF Good

LEMMA WindowsChangesFrames ==
  ASSUME backend = "windows", backend' = "windows", WindowsFits, W!Changes
  PROVE  WindowsFits' /\ FrameStep
<1>0. session \in WindowsSessions /\ reader \in Readers /\ CallFits /\ ThreadsFit
  BY DEF WindowsFits
<1>1. CASE W!ReconfigureFails
  BY <1>1, WindowsRefusesFrames DEF W!ReconfigureFails, W!Refuses
<1>2. CASE W!ReconfigureEnds
  <2>1. control.pc = "asking" /\ W!Control("idle") /\ threads' = threads /\ reader' = reader
    BY <1>2 DEF W!ReconfigureEnds
  <2>2. control' \in WindowsCalls /\ control'.pc = "idle" /\ ~HandsOut /\ W!Live' = W!Live
    BY <2>1, ControlIs DEF HandsOut, W!Live
  <2>3. session' = session \/ session' = [session EXCEPT !.done = FALSE]
    BY <1>2 DEF W!ReconfigureEnds
  <2>4. /\ session' \in WindowsSessions /\ session'.state = session.state
        /\ session'.stop = session.stop /\ session'.running = session.running
        /\ session'.decodeOnly = session.decodeOnly
        /\ session'.done => session.done /\ session'.result = session.result
        /\ \A part \in FrameParts : session'[part] = session[part]
    BY <1>0, <2>3 DEF WindowsSessions, FrameParts
  <2>5. session.state = "running" /\ control.pc \notin Ending
    BY <1>0, <2>1 DEF CallFits, Ending, Asking
  <2>6. CallFits' /\ ThreadsFit'
    BY <1>0, <2>1, <2>2, <2>4, <2>5 DEF CallFits, ThreadsFit, Ending, Asking, FrameParts
  <2>. QED
    BY <1>0, <2>1, <2>2, <2>4, <2>5, <2>6, WindowsQuietFrames
<1>3. ASSUME NEW req \in Requests, W!Reconfigure(req) PROVE WindowsFits' /\ FrameStep
  <2>1. PICK cfg \in W!ByBudget(req, 0) : \E outcome \in W!Applied(cfg) : session' = outcome[1]
    BY <1>3 DEF W!Reconfigure
  <2>2. cfg \in Configs /\ W!MayMake
    BY <1>3, <2>1, WindowsBudget DEF W!Reconfigure
  <2>3. /\ session' \in WindowsSessions
        /\ \A part \in CallParts \cup FrameParts : session'[part] = session[part]
    BY <2>1, <2>2, AppliedIsTyped
  <2>4. UNCHANGED <<control, threads, reader>> /\ ~HandsOut
    BY <1>3 DEF W!Reconfigure, HandsOut
  <2>. QED
    BY <1>0, <2>3, <2>4, WindowsSteadyFrames
<1>4. ASSUME NEW req \in Requests, W!ReconfigureAsks(req) PROVE WindowsFits' /\ FrameStep
  <2>1. PICK cfg \in W!ByBudget(req, 0) :
          session' = [session EXCEPT !.asked = cfg, !.pending = TRUE, !.done = FALSE]
    BY <1>4 DEF W!ReconfigureAsks
  <2>2. cfg \in Configs /\ W!Control("asking") /\ control.pc = "idle" /\ session.running
        /\ threads' = threads /\ reader' = reader
    BY <1>4, <2>1, WindowsBudget DEF W!ReconfigureAsks, W!Idle
  <2>3. control' \in WindowsCalls /\ control'.pc = "asking" /\ ~HandsOut /\ W!Live' = W!Live
    BY <2>2, ControlIs DEF HandsOut, W!Live, Asking
  <2>4. /\ session' \in WindowsSessions /\ session'.state = session.state
        /\ session'.stop = session.stop /\ session'.running = session.running
        /\ session'.decodeOnly = session.decodeOnly /\ ~session'.done
        /\ \A part \in FrameParts : session'[part] = session[part]
    BY <1>0, <2>1, <2>2 DEF WindowsSessions, FrameParts
  <2>5. session.state = "running" /\ ~session.decodeOnly
    BY <1>0, <2>2 DEF CallFits
  <2>6. CallFits' /\ ThreadsFit'
    BY <1>0, <2>2, <2>3, <2>4, <2>5 DEF CallFits, ThreadsFit, Ending, Asking, FrameParts
  <2>. QED
    BY <1>0, <2>2, <2>3, <2>4, <2>5, <2>6, WindowsQuietFrames DEF Ending
<1>. QED
  BY <1>1, <1>2, <1>3, <1>4 DEF W!Changes

-----------------------------------------------------------------------------
LEMMA CapturesIsTyped ==
  ASSUME WindowsFits, NEW t \in WindowsThreads
  PROVE  /\ W!Captures(t) \in WindowsThreads
         /\ W!Captures(t).pc \in {"reading", "top"}
<1>1. session.reader \in Nat
  BY DEF WindowsFits, WindowsSessions
<1>2. PICK x : x = session.reader
  OBVIOUS
<1>3. W!Captures(t) = [t EXCEPT !.pc = "reading", !.reader = x]
      \/ W!Captures(t) = [W!NoThread EXCEPT !.pc = "top"]
  BY <1>2 DEF W!Captures
<1>4. /\ [t EXCEPT !.pc = "reading", !.reader = x] \in WindowsThreads
      /\ [t EXCEPT !.pc = "reading", !.reader = x].pc = "reading"
  BY <1>1, <1>2 DEF WindowsThreads
<1>. QED
  BY <1>3, <1>4, IdleIsThread

(* A step of a thread that makes no frame. *)
LEMMA ThreadIsSteady ==
  ASSUME backend = "windows", backend' = "windows", WindowsFits, ~W!Gone,
         NEW r \in W!Runs, NEW values \in WindowsThreads, W!Thread(r, values),
         threads[r].pc # "none", values.pc # "none", values.pc = "answering" => values.rc # "none",
         session' \in WindowsSessions, UNCHANGED <<control, reader>>,
         \A part \in {"state", "decodeOnly", "stop", "running"} \cup FrameParts :
           session'[part] = session[part],
         session'.done => session'.result # "none"
  PROVE  WindowsFits' /\ FrameStep
<1>1. /\ session'.state = session.state /\ session'.decodeOnly = session.decodeOnly
      /\ session'.stop = session.stop /\ session'.running = session.running
      /\ \A part \in FrameParts : session'[part] = session[part]
      /\ session'.runs = session.runs
  BY DEF FrameParts
<1>2. ThreadsFit' /\ W!Live' = W!Live
  BY <1>1, ThreadMoves
<1>3. CallFits'
  BY <1>1 DEF WindowsFits, CallFits
<1>4. session.state # "none" /\ ~HandsOut
  BY DEF W!Gone, W!Live, W!IsOpen, HandsOut
<1>. QED
  BY <1>1, <1>2, <1>3, <1>4, WindowsQuietFrames DEF WindowsFits

LEMMA ThreadQuietFrames ==
  ASSUME backend = "windows", backend' = "windows", WindowsFits, ~W!Gone, NEW r \in W!Runs,
         \/ W!ThreadLooks(r) \/ W!ThreadApplies(r) \/ W!ThreadAnswers(r)
         \/ W!ThreadForces(r) \/ W!ThreadReads(r)
  PROVE  WindowsFits' /\ FrameStep
<1>0. session \in WindowsSessions /\ CallFits /\ ThreadsFit /\ threads[r] \in WindowsThreads
  BY DEF WindowsFits, ThreadsFit
<1>1. UNCHANGED <<control, reader>> /\ threads[r].pc # "none"
  BY DEF W!ThreadLooks, W!ThreadApplies, W!ThreadAnswers, W!ThreadForces, W!ThreadReads
<1>2. session.done => session.result # "none"
  BY <1>0 DEF CallFits
<1>3. CASE W!ThreadLooks(r)
  <2>1. PICK pending, req, want, on : pending = session.pending /\ req = session.asked
                                   /\ want = session.force /\ on = session.capture
    OBVIOUS
  <2>2. PICK seen : seen = [W!NoThread EXCEPT !.pending = pending, !.req = req, !.want = want, !.on = on]
    OBVIOUS
  <2>3. seen \in WindowsThreads
    <3>1. pending \in BOOLEAN /\ req \in Configs /\ want \in BOOLEAN /\ on \in BOOLEAN
      BY <1>0, <2>1 DEF WindowsSessions
    <3>. QED
      BY <2>2, <3>1, IdleIsThread DEF WindowsThreads
  <2>4. PICK values : W!Thread(r, values) /\ values \in {[seen EXCEPT !.pc = "applying"],
                          [seen EXCEPT !.pc = "forcing"], W!Captures(seen)}
    BY <1>3, <2>1, <2>2, Zenon DEF W!ThreadLooks
  <2>5. values \in WindowsThreads /\ values.pc \notin {"none", "answering"}
    <3>1. CASE values = W!Captures(seen)
      BY <2>3, <3>1, CapturesIsTyped
    <3>2. CASE values = [seen EXCEPT !.pc = "applying"] \/ values = [seen EXCEPT !.pc = "forcing"]
      BY <2>3, <3>2 DEF WindowsThreads
    <3>. QED
      BY <2>4, <3>1, <3>2
  <2>6. session' = session
    BY <1>3 DEF W!ThreadLooks
  <2>. QED
    BY <1>0, <1>1, <1>2, <2>4, <2>5, <2>6, ThreadIsSteady
<1>4. CASE W!ThreadApplies(r)
  <2>1. PICK outcome \in W!Applied(threads[r].req) :
          /\ session' = outcome[1]
          /\ W!Thread(r, [threads[r] EXCEPT !.pc = "answering", !.rc = outcome[2]])
    BY <1>4, Zenon DEF W!ThreadApplies
  <2>2. threads[r].req \in Configs /\ W!MayMake
    BY <1>0, <1>4 DEF W!ThreadApplies, WindowsThreads
  <2>3. /\ session' \in WindowsSessions /\ outcome[2] \in {"ok", "backend"}
        /\ \A part \in CallParts \cup FrameParts : session'[part] = session[part]
    BY <2>1, <2>2, AppliedIsTyped
  <2>4. PICK values : values = [threads[r] EXCEPT !.pc = "answering", !.rc = outcome[2]]
    OBVIOUS
  <2>5. values \in WindowsThreads /\ values.pc = "answering" /\ values.rc # "none"
    BY <1>0, <2>3, <2>4 DEF WindowsThreads, Codes
  <2>6. /\ \A part \in {"state", "decodeOnly", "stop", "running"} \cup FrameParts :
             session'[part] = session[part]
        /\ session'.done => session'.result # "none"
    BY <1>2, <2>3 DEF CallParts, FrameParts
  <2>7. W!Thread(r, values)
    BY <2>1, <2>4
  <2>. QED
    BY <1>1, <2>3, <2>5, <2>6, <2>7, ThreadIsSteady
<1>5. CASE W!ThreadAnswers(r)
  <2>1. PICK rc : rc = threads[r].rc
    OBVIOUS
  <2>2. /\ session' = [session EXCEPT !.result = rc, !.pending = FALSE, !.done = TRUE]
        /\ threads[r].pc = "answering" /\ W!Thread(r, [W!NoThread EXCEPT !.pc = "top"])
    BY <1>5, <2>1 DEF W!ThreadAnswers
  <2>3. rc \in Codes /\ rc # "none"
    BY <1>0, <2>1, <2>2 DEF ThreadsFit, WindowsThreads
  <2>4. /\ session' \in WindowsSessions /\ session'.result # "none"
        /\ \A part \in {"state", "decodeOnly", "stop", "running"} \cup FrameParts :
             session'[part] = session[part]
    BY <1>0, <2>2, <2>3 DEF WindowsSessions, FrameParts
  <2>. QED
    BY <1>1, <2>2, <2>4, IdleIsThread, ThreadIsSteady
<1>6. CASE W!ThreadForces(r)
  <2>1. /\ session' = [session EXCEPT !.force = FALSE]
        /\ W!Thread(r, W!Captures(threads[r]))
    BY <1>6 DEF W!ThreadForces
  <2>2. /\ session' \in WindowsSessions
        /\ session'.done = session.done /\ session'.result = session.result
        /\ \A part \in {"state", "decodeOnly", "stop", "running"} \cup FrameParts :
             session'[part] = session[part]
    BY <1>0, <2>1 DEF WindowsSessions, FrameParts
  <2>3. W!Captures(threads[r]) \in WindowsThreads /\ W!Captures(threads[r]).pc \in {"reading", "top"}
    BY <1>0, CapturesIsTyped
  <2>. QED
    BY <1>1, <1>2, <2>1, <2>2, <2>3, ThreadIsSteady
<1>7. CASE W!ThreadReads(r)
  <2>1. PICK pc \in {"encoding", "top"} : W!Thread(r, [W!NoThread EXCEPT !.pc = pc])
    BY <1>7 DEF W!ThreadReads
  <2>2. session' = session
    BY <1>7 DEF W!ThreadReads
  <2>. QED
    BY <1>0, <1>1, <1>2, <2>1, <2>2, IdleIsThread, ThreadIsSteady
<1>. QED
  BY <1>3, <1>4, <1>5, <1>6, <1>7

LEMMA ThreadEndsFrames ==
  ASSUME backend = "windows", backend' = "windows", WindowsFits, ~W!Gone, NEW r \in W!Runs,
         W!ThreadEnds(r)
  PROVE  WindowsFits' /\ FrameStep
<1>0. session \in WindowsSessions /\ reader \in Readers /\ CallFits /\ ThreadsFit
  BY DEF WindowsFits
<1>1. /\ threads' = [threads EXCEPT ![r] = W!NoThread] /\ session.stop = "set"
      /\ UNCHANGED <<session, control, reader>> /\ threads[r].pc = "top"
  BY DEF W!ThreadEnds, W!Thread
<1>2. control.pc = "joining" /\ session.state # "none"
  BY <1>0, <1>1 DEF CallFits, Ending
<1>3. ThreadsFit'
  BY <1>0, <1>1, IdleIsThread DEF ThreadsFit
<1>4. CallFits' /\ ~HandsOut
  BY <1>0, <1>1 DEF CallFits, HandsOut
<1>. QED
  BY <1>0, <1>1, <1>2, <1>3, <1>4, WindowsQuietFrames DEF Ending

(* A ring after a push: the frames there were, but for the oldest one of a
   full ring, and the frame. *)
LEMMA PushedIsRing ==
  ASSUME NEW ring \in Seq(FrameSet), NEW frame \in FrameSet, Len(ring) <= RingFrames
  PROVE  LET pushed == W!Pushed(ring, frame)
             lost == IF Len(ring) = RingFrames THEN 1 ELSE 0 IN
         /\ pushed \in Seq(FrameSet)
         /\ Len(pushed) = Len(ring) - lost + 1 /\ Len(pushed) <= RingFrames
         /\ pushed[Len(pushed)] = frame
         /\ \A i \in 1 .. Len(pushed) - 1 :
              i + lost \in 1 .. Len(ring) /\ pushed[i] = ring[i + lost]
<1>0. RingFrames \in Nat \ {0} /\ Len(ring) \in Nat
  BY PlatformAssumption
<1>1. ASSUME NEW q \in Seq(FrameSet)
      PROVE  /\ Append(q, frame) \in Seq(FrameSet) /\ Len(Append(q, frame)) = Len(q) + 1
             /\ Append(q, frame)[Len(q) + 1] = frame
             /\ \A i \in 1 .. Len(q) : Append(q, frame)[i] = q[i]
  OBVIOUS
<1>2. CASE Len(ring) = RingFrames
  <2>1. PICK q : q = Tail(ring)
    OBVIOUS
  <2>2. /\ q \in Seq(FrameSet) /\ Len(q) = Len(ring) - 1
        /\ \A i \in 1 .. Len(q) : q[i] = ring[i + 1]
    BY <1>0, <1>2, <2>1
  <2>3. W!Pushed(ring, frame) = Append(q, frame)
    BY <1>2, <2>1 DEF W!Pushed
  <2>4. PICK p : p = Append(q, frame)
    OBVIOUS
  <2>5. /\ p \in Seq(FrameSet) /\ Len(p) = Len(ring) /\ p[Len(p)] = frame
        /\ \A i \in 1 .. Len(p) - 1 : p[i] = q[i] /\ i \in 1 .. Len(q)
    BY <1>0, <1>1, <2>2, <2>4
  <2>6. \A i \in 1 .. Len(p) - 1 : i + 1 \in 1 .. Len(ring) /\ p[i] = ring[i + 1]
    BY <1>0, <2>2, <2>5
  <2>. QED
    BY <1>0, <1>2, <2>3, <2>4, <2>5, <2>6
<1>3. CASE Len(ring) # RingFrames
  <2>1. W!Pushed(ring, frame) = Append(ring, frame)
    BY <1>3 DEF W!Pushed
  <2>2. PICK p : p = Append(ring, frame)
    OBVIOUS
  <2>3. /\ p \in Seq(FrameSet) /\ Len(p) = Len(ring) + 1 /\ p[Len(p)] = frame
        /\ \A i \in 1 .. Len(p) - 1 : i + 0 \in 1 .. Len(ring) /\ p[i] = ring[i + 0]
    BY <1>0, <1>1, <2>2
  <2>. QED
    BY <1>0, <1>3, <2>1, <2>2, <2>3
<1>. QED
  BY <1>2, <1>3

(* A frame that is too large is dropped, any other put in the ring. *)
LEMMA ThreadEncodesFrames ==
  ASSUME backend = "windows", backend' = "windows", WindowsFits, ~W!Gone, NEW r \in W!Runs,
         W!ThreadEncodes(r)
  PROVE  WindowsFits' /\ FrameStep
<1>0. session \in WindowsSessions /\ reader \in Readers /\ CallFits /\ ThreadsFit /\ RingFits
  BY DEF WindowsFits
<1>1. /\ W!Thread(r, [W!NoThread EXCEPT !.pc = "top"]) /\ threads[r].pc = "encoding"
      /\ control' = control /\ reader' = reader
  BY DEF W!ThreadEncodes
<1>2. CASE session' = session
  <2>1. session.done => session.result # "none"
    BY <1>0 DEF CallFits
  <2>. QED
    BY <1>0, <1>1, <1>2, <2>1, IdleIsThread, ThreadIsSteady
<1>3. CASE session' # session
  <2>1. PICK size \in Sizes :
          LET base == IF session.base = W!NoBase THEN session.encoded ELSE session.base
              frame == W!Frame(FALSE, size, session.encoded - base, session.runs)
              fits == size <= session.cfg.ceiling IN
          /\ session.encoded < MaxFrames
          /\ session' = [session EXCEPT
               !.encoded = @ + 1, !.base = base,
               !.dropped = IF fits THEN @ ELSE @ + 1,
               !.ring = IF fits THEN W!Pushed(@, frame) ELSE @]
    BY <1>3, Zenon DEF W!ThreadEncodes
  <2>a. PICK base : base = IF session.base = W!NoBase THEN session.encoded ELSE session.base
    OBVIOUS
  <2>2. PICK frame : frame = W!Frame(FALSE, size, session.encoded - base, session.runs)
    OBVIOUS
  <2>3. PICK d, n, e, g : d = session.dropped /\ n = Len(session.ring) /\ e = session.encoded
                       /\ g = session.ring
    OBVIOUS
  <2>4. d \in Nat /\ n \in Nat /\ e \in Nat /\ d + n <= e /\ d <= e /\ n <= RingFrames
    <3>1. d \in Nat /\ n \in Nat /\ e \in Nat
      BY <1>0, <2>3, InstanceAssumption DEF WindowsSessions
    <3>2. d + n <= e /\ n <= RingFrames
      BY <1>0, <2>3, Zenon DEF RingFits
    <3>. QED
      BY <3>1, <3>2
  <2>b. PICK b, run : b = session.base /\ run = session.runs
    OBVIOUS
  <2>c. b \in {-1} \cup Nat /\ b <= e /\ run \in Nat /\ base = (IF b = -1 THEN e ELSE b)
    <3>1. b \in {-1} \cup Nat /\ run \in Nat
      BY <1>0, <2>b, InstanceAssumption DEF WindowsSessions
    <3>2. b <= e
      BY <1>0, <2>3, <2>b, Zenon DEF RingFits
    <3>3. base = (IF b = -1 THEN e ELSE b)
      BY <2>3, <2>a, <2>b DEF W!NoBase
    <3>. QED
      BY <3>1, <3>2, <3>3
  <2>d. base \in Nat /\ base <= e /\ e - base \in Nat /\ base + (e - base) < e + 1
    BY <2>4, <2>c
  <2>5. frame \in FrameSet /\ frame.pts = e - base /\ frame.run = run
    <3>1. size \in Nat
      BY <2>1, InstanceAssumption
    <3>2. frame = [key |-> FALSE, size |-> size, pts |-> e - base, run |-> run]
      BY <2>2, <2>3, <2>b, Zenon DEF W!Frame
    <3>. QED
      BY <2>c, <2>d, <3>1, <3>2 DEF FrameSet
  <2>6. PICK dropped, ring :
          /\ session' = [session EXCEPT !.encoded = @ + 1, !.base = base,
                                       !.dropped = dropped, !.ring = ring]
          /\ \/ dropped = d /\ ring = W!Pushed(g, frame)
             \/ dropped = d + 1 /\ ring = g
    <3>1. CASE size <= session.cfg.ceiling
      BY <2>1, <2>2, <2>3, <2>a, <3>1, Zenon
    <3>2. CASE ~(size <= session.cfg.ceiling)
      BY <2>1, <2>2, <2>3, <2>a, <3>2, Zenon
    <3>. QED
      BY <3>1, <3>2
  <2>7. g \in Seq(FrameSet) /\ Len(g) = n /\ Len(g) <= RingFrames
    BY <1>0, <2>3, <2>4 DEF WindowsSessions
  <2>8. PICK lost : lost = IF Len(g) = RingFrames THEN 1 ELSE 0
    OBVIOUS
  <2>9. LET p == W!Pushed(g, frame) IN
        /\ p \in Seq(FrameSet) /\ Len(p) = Len(g) - lost + 1 /\ Len(p) <= RingFrames
        /\ p[Len(p)] = frame
        /\ \A i \in 1 .. Len(p) - 1 : i + lost \in 1 .. Len(g) /\ p[i] = g[i + lost]
    BY <2>5, <2>7, <2>8, PushedIsRing, Zenon
  <2>10. dropped \in Nat /\ ring \in Seq(FrameSet) /\ e + 1 \in 0 .. MaxFrames
    <3>1. MaxFrames \in Nat /\ e < MaxFrames
      BY <2>1, <2>3, InstanceAssumption
    <3>. QED
      BY <2>4, <2>6, <2>7, <2>9, <3>1
  <2>11. /\ session' \in WindowsSessions
         /\ session'.encoded = e + 1 /\ session'.dropped = dropped /\ session'.ring = ring
         /\ session'.base = base /\ session'.runs = run
         /\ \A part \in CallParts : session'[part] = session[part]
    <3>1. PICK s : s = [session EXCEPT !.encoded = e + 1, !.base = base]
      OBVIOUS
    <3>2. session' = [s EXCEPT !.dropped = dropped, !.ring = ring]
      BY <1>0, <2>3, <2>6, <3>1 DEF WindowsSessions
    <3>3. /\ s \in WindowsSessions /\ s.encoded = e + 1 /\ s.base = base /\ s.runs = run
          /\ \A part \in CallParts : s[part] = session[part]
      BY <1>0, <2>b, <2>d, <2>10, <3>1 DEF WindowsSessions, CallParts
    <3>. QED
      BY <2>10, <3>2, <3>3 DEF WindowsSessions, CallParts
  <2>12. /\ session'.state = session.state /\ session'.decodeOnly = session.decodeOnly
         /\ session'.stop = session.stop /\ session'.running = session.running
         /\ session'.done = session.done /\ session'.result = session.result
    BY <2>11 DEF CallParts
  <2>13. ThreadsFit' /\ W!Live' = W!Live
    BY <1>1, <2>11, <2>12, <2>b, IdleIsThread, ThreadMoves
  <2>14. CallFits' /\ ~HandsOut /\ session.state # "none" /\ r \in W!Live
    BY <1>0, <1>1, <2>12 DEF CallFits, HandsOut, W!Gone, W!Live, W!IsOpen
  <2>15. /\ reader.frame = NoFrame \/ Timed(reader.frame, session)
         /\ \A i \in 1 .. Len(g) :
              /\ Timed(g[i], session)
              /\ reader.frame = NoFrame \/ Before(reader.frame, g[i])
              /\ control.pc \notin Ending => OfAThread(g[i], session, W!Live)
              /\ \A j \in 1 .. i - 1 : Before(g[j], g[i])
    BY <1>0, <2>3 DEF RingFits
  <2>e. ASSUME NEW f \in FrameSet, Timed(f, session)
        PROVE  Timed(f, session') /\ Before(f, frame)
    <3>1. f.run <= run /\ (f.run = run => b # -1 /\ b + f.pts < e)
      BY <2>3, <2>b, <2>e, Zenon DEF Timed
    <3>2. f.run \in Nat /\ f.pts \in Nat
      BY DEF FrameSet
    <3>3. f.run = run => base # -1 /\ base + f.pts < e + 1 /\ f.pts < e - base
      BY <2>4, <2>c, <2>d, <3>1, <3>2
    <3>4. Timed(f, session')
      BY <2>11, <3>1, <3>3, Zenon DEF Timed
    <3>5. f.run < run \/ f.run = run
      BY <2>c, <3>1, <3>2
    <3>. QED
      BY <2>5, <3>3, <3>4, <3>5, Zenon DEF Before
  <2>f. Timed(frame, session')
    <3>1. base # -1 /\ run <= run
      BY <2>c, <2>d
    <3>. QED
      BY <2>5, <2>11, <2>d, <3>1, Zenon DEF Timed
  <2>g. /\ \A f : OfAThread(f, session, W!Live) => OfAThread(f, session', W!Live')
        /\ OfAThread(frame, session', W!Live')
    BY <2>5, <2>11, <2>13, <2>14, <2>b DEF OfAThread
  <2>16. /\ reader.frame = NoFrame \/ Timed(reader.frame, session')
         /\ \A i \in 1 .. Len(ring) :
              /\ Timed(ring[i], session')
              /\ reader.frame = NoFrame \/ Before(reader.frame, ring[i])
              /\ control.pc \notin Ending => OfAThread(ring[i], session', W!Live')
              /\ \A j \in 1 .. i - 1 : Before(ring[j], ring[i])
    <3>1. reader.frame = NoFrame \/ (Timed(reader.frame, session') /\ Before(reader.frame, frame))
      <4>1. reader.frame \in FrameSet
        BY <1>0 DEF Readers
      <4>. QED
        BY <2>15, <2>e, <4>1
    <3>2. \A i \in 1 .. Len(g) : g[i] \in FrameSet
      BY <2>7
    <3>6. \A i \in 1 .. Len(g) :
            /\ Timed(g[i], session') /\ Before(g[i], frame)
            /\ control.pc \notin Ending => OfAThread(g[i], session', W!Live')
      BY <2>15, <2>e, <2>g, <3>2
    <3>3. CASE ring = g
      BY <2>15, <3>1, <3>3, <3>6, Zenon
    <3>4. CASE ring = W!Pushed(g, frame)
      <4>1. /\ ring \in Seq(FrameSet) /\ Len(ring) = Len(g) - lost + 1
            /\ ring[Len(ring)] = frame
            /\ \A i \in 1 .. Len(ring) - 1 : i + lost \in 1 .. Len(g) /\ ring[i] = g[i + lost]
        BY <2>9, <3>4, Zenon
      <4>2. lost \in {0, 1} /\ Len(ring) \in Nat /\ Len(g) \in Nat
        BY <2>7, <2>8, <4>1
      <4>3. ASSUME NEW i \in 1 .. Len(ring) - 1
            PROVE  /\ Timed(ring[i], session') /\ Before(ring[i], frame)
                   /\ reader.frame = NoFrame \/ Before(reader.frame, ring[i])
                   /\ control.pc \notin Ending => OfAThread(ring[i], session', W!Live')
                   /\ \A j \in 1 .. i - 1 : Before(ring[j], ring[i])
        <5>1. PICK k \in 1 .. Len(g) : k = i + lost /\ ring[i] = g[k]
          BY <4>1
        <5>3. ASSUME NEW j \in 1 .. i - 1 PROVE Before(ring[j], ring[i])
          <6>1. j \in 1 .. Len(ring) - 1 /\ j + lost \in 1 .. k - 1
            BY <4>2, <5>1
          <6>2. ring[j] = g[j + lost]
            BY <4>1, <6>1
          <6>3. Before(g[j + lost], g[k])
            BY <2>15, <6>1
          <6>. QED
            BY <5>1, <6>2, <6>3, Zenon
        <5>. QED
          BY <2>15, <3>6, <5>1, <5>3, Zenon
      <4>4. ASSUME NEW i, i = Len(ring)
            PROVE  /\ Timed(ring[i], session')
                   /\ reader.frame = NoFrame \/ Before(reader.frame, ring[i])
                   /\ control.pc \notin Ending => OfAThread(ring[i], session', W!Live')
                   /\ \A j \in 1 .. i - 1 : Before(ring[j], ring[i])
        <5>1. ring[i] = frame
          BY <4>1, <4>4, Zenon
        <5>. QED
          BY <2>f, <2>g, <3>1, <4>3, <4>4, <5>1, Zenon
      <4>5. \A i \in 1 .. Len(ring) : i \in 1 .. Len(ring) - 1 \/ i = Len(ring)
        BY <4>2
      <4>. QED
        BY <3>1, <4>3, <4>4, <4>5, Zenon
    <3>. QED
      BY <2>6, <3>3, <3>4
  <2>17. PICK m : m = Len(ring)
    OBVIOUS
  <2>18. /\ m \in Nat /\ m <= RingFrames /\ dropped + m <= e + 1
         /\ \/ dropped + m = d + n + 1
            \/ dropped + m = d + n /\ n = RingFrames
    <3>1. RingFrames \in Nat
      BY PlatformAssumption
    <3>2. CASE dropped = d + 1 /\ ring = g
      BY <2>4, <2>7, <2>17, <3>1, <3>2
    <3>3. CASE dropped = d /\ ring = W!Pushed(g, frame)
      <4>1. m = n - lost + 1 /\ m <= RingFrames /\ lost = IF n = RingFrames THEN 1 ELSE 0
        BY <2>7, <2>8, <2>9, <2>17, <3>3, Zenon
      <4>. QED
        BY <2>4, <3>1, <3>3, <4>1
    <3>. QED
      BY <2>6, <3>2, <3>3
  <2>19. RingFits'
    <3>1. Len(session'.ring) <= RingFrames /\ session'.dropped + Len(session'.ring) <= session'.encoded
      BY <2>11, <2>17, <2>18, Zenon
    <3>2. \A i \in 1 .. Len(session'.ring) :
            /\ Timed(session'.ring[i], session')
            /\ reader'.frame = NoFrame \/ Before(reader'.frame, session'.ring[i])
            /\ control'.pc \notin Ending => OfAThread(session'.ring[i], session', W!Live')
            /\ \A j \in 1 .. i - 1 : Before(session'.ring[j], session'.ring[i])
      BY <1>1, <2>11, <2>16, Zenon
    <3>3. reader'.frame = NoFrame \/ Timed(reader'.frame, session')
      BY <1>1, <2>16, Zenon
    <3>4. session'.base <= session'.encoded
      <4>1. base <= e + 1
        BY <2>4, <2>d
      <4>. QED
        BY <2>11, <4>1, Zenon
    <3>. QED
      BY <3>1, <3>2, <3>3, <3>4, Zenon DEF RingFits
  <2>20. WindowsFits'
    BY <1>0, <1>1, <2>11, <2>12, <2>13, <2>14, <2>19 DEF WindowsFits
  <2>21. Balance = e - d - n /\ Balance' = (e + 1) - dropped - m
    BY <2>3, <2>11, <2>17, WindowsSees, Zenon
  <2>22. Balance' = Balance \/ (n = RingFrames /\ Balance' = Balance + 1 /\ Balance' >= Balance)
    BY <2>4, <2>10, <2>18, <2>21
  <2>23. EncodesAFrame
    BY <2>3, <2>11, Zenon DEF EncodesAFrame
  <2>. QED
    BY <2>3, <2>14, <2>20, <2>22, <2>23, Zenon DEF FrameStep
<1>. QED
  BY <1>2, <1>3

-----------------------------------------------------------------------------
LEMMA WindowsReadingFrames ==
  ASSUME backend = "windows", backend' = "windows", WindowsFits, W!Reading
  PROVE  WindowsFits' /\ FrameStep
<1>0. session \in WindowsSessions /\ reader \in Readers /\ CallFits /\ ThreadsFit /\ RingFits
  BY DEF WindowsFits
<1>a. reader.pc = "in" => session.state # "none"
  BY WindowsNothingIsRead DEF WindowsFits
<1>1. UNCHANGED <<control, threads>>
  BY DEF W!Reading, W!ReadClosed, W!ReadTakes, W!ReadTimesOut, W!ReadBegins, W!ReadReturns
<1>2. ASSUME NEW code, code # "frame", W!ReadReturns(code, reader.frame), reader.pc = "in",
             session' = session
      PROVE  WindowsFits' /\ FrameStep
  <2>1. /\ reader' = [reader EXCEPT !.pc = "out", !.cap = 0, !.frame = reader.frame]
        /\ last' = [call |-> "read", code |-> code]
    BY <1>2 DEF W!ReadReturns, W!Returns, W!Result
  <2>2. reader' \in Readers /\ reader'.frame = reader.frame /\ ~HandsOut
    BY <1>0, <1>2, <2>1 DEF Readers, HandsOut, Result
  <2>. QED
    BY <1>0, <1>a, <1>1, <1>2, <2>2, WindowsSteadyFrames
<1>3. CASE W!ReadClosed \/ W!ReadTimesOut
  BY <1>2, <1>3 DEF W!ReadClosed, W!ReadTimesOut
<1>4. ASSUME NEW cap \in Buffers, W!ReadBegins(cap) PROVE WindowsFits' /\ FrameStep
  <2>1. /\ session' = session /\ reader' = [reader EXCEPT !.pc = "in", !.cap = cap]
        /\ reader.pc = "out" /\ session.state # "none"
    BY <1>4 DEF W!ReadBegins, W!IsOpen
  <2>2. cap \in Nat
    BY InstanceAssumption
  <2>3. reader' \in Readers /\ reader'.frame = reader.frame /\ ~HandsOut
    BY <1>0, <2>1, <2>2 DEF Readers, HandsOut
  <2>. QED
    BY <1>0, <1>1, <2>1, <2>3, WindowsSteadyFrames
<1>5. CASE W!ReadTakes
  <2>1. /\ reader.pc = "in" /\ session.state = "running" /\ session.ring # <<>>
    BY <1>5 DEF W!ReadTakes, W!Running
  <2>2. CASE W!ReadReturns("too_small", reader.frame) /\ session' = session
    BY <1>2, <2>1, <2>2
  <2>3. CASE /\ W!ReadReturns("frame", Head(session.ring))
             /\ session' = [session EXCEPT !.ring = Tail(@)]
    <3>1. PICK g, q, n, d, e : g = session.ring /\ q = Tail(session.ring) /\ n = Len(session.ring)
                            /\ d = session.dropped /\ e = session.encoded
      OBVIOUS
    <3>2. g \in Seq(FrameSet) /\ g # <<>> /\ d \in Nat /\ e \in Nat
      BY <1>0, <2>1, <3>1, InstanceAssumption DEF WindowsSessions
    <3>3. /\ n \in Nat \ {0} /\ q \in Seq(FrameSet) /\ Len(q) = n - 1 /\ Len(g) = n
          /\ \A i \in 1 .. Len(q) : q[i] = g[i + 1]
          /\ Head(g) = g[1] /\ g[1] \in FrameSet
      BY <3>1, <3>2
    <3>4. /\ reader' = [reader EXCEPT !.pc = "out", !.cap = 0, !.frame = g[1]]
          /\ last' = Result("read", "frame") /\ session' = [session EXCEPT !.ring = q]
      BY <2>3, <3>1, <3>3 DEF W!ReadReturns, W!Returns, W!Result, Result
    <3>5. reader' \in Readers /\ reader'.pc = "out" /\ reader'.frame = g[1] /\ HandsOut
      BY <1>0, <2>1, <3>3, <3>4 DEF Readers, HandsOut
    <3>6. /\ session' \in WindowsSessions /\ session'.ring = q
          /\ \A part \in CallParts \cup {"encoded", "dropped", "runs", "base"} :
               session'[part] = session[part]
      BY <1>0, <3>3, <3>4 DEF WindowsSessions, CallParts
    <3>7. /\ session'.state = session.state /\ session'.decodeOnly = session.decodeOnly
          /\ session'.stop = session.stop /\ session'.running = session.running
          /\ session'.done = session.done /\ session'.result = session.result
          /\ session'.encoded = e /\ session'.dropped = d /\ session'.runs = session.runs
          /\ session'.base = session.base
      BY <3>1, <3>6 DEF CallParts
    <3>8. CallFits' /\ ThreadsFit' /\ W!Live' = W!Live
      BY <1>0, <1>1, <3>7 DEF CallFits, ThreadsFit, W!Live
    <3>9. /\ reader.frame = NoFrame \/ Timed(reader.frame, session)
          /\ \A i \in 1 .. Len(g) :
               /\ Timed(g[i], session)
               /\ reader.frame = NoFrame \/ Before(reader.frame, g[i])
               /\ control.pc \notin Ending => OfAThread(g[i], session, W!Live)
               /\ \A j \in 1 .. i - 1 : Before(g[j], g[i])
          /\ d + n <= e /\ n <= RingFrames /\ session.base <= e
      BY <1>0, <3>1 DEF RingFits
    <3>a. ASSUME NEW frame
          PROVE  /\ Timed(frame, session) => Timed(frame, session')
                 /\ OfAThread(frame, session, W!Live) => OfAThread(frame, session', W!Live')
      BY <3>1, <3>7, <3>8, Zenon DEF Timed, OfAThread
    <3>10. 1 \in 1 .. Len(g) /\ Timed(g[1], session')
      BY <3>3, <3>9, <3>a
    <3>11. ASSUME NEW i \in 1 .. Len(q)
           PROVE  /\ Timed(q[i], session') /\ Before(g[1], q[i])
                  /\ control.pc \notin Ending => OfAThread(q[i], session', W!Live')
                  /\ \A j \in 1 .. i - 1 : Before(q[j], q[i])
      <4>1. i + 1 \in 1 .. Len(g) /\ q[i] = g[i + 1] /\ 1 \in 1 .. (i + 1) - 1
        BY <3>3
      <4>2. ASSUME NEW j \in 1 .. i - 1 PROVE Before(q[j], q[i])
        <5>1. j \in 1 .. Len(q) /\ j + 1 \in 1 .. (i + 1) - 1
          BY <3>3
        <5>2. q[j] = g[j + 1]
          BY <3>3, <5>1
        <5>3. Before(g[j + 1], g[i + 1])
          BY <3>9, <4>1, <5>1
        <5>. QED
          BY <4>1, <5>2, <5>3, Zenon
      <4>3. Before(g[1], g[i + 1]) /\ Timed(g[i + 1], session')
            /\ (control.pc \notin Ending => OfAThread(g[i + 1], session', W!Live'))
        BY <3>9, <3>a, <4>1
      <4>. QED
        BY <4>1, <4>2, <4>3, Zenon
    <3>12. PICK m : m = Len(q)
      OBVIOUS
    <3>13. m \in Nat /\ m = n - 1 /\ m <= RingFrames /\ d + m <= e
      <4>1. RingFrames \in Nat
        BY PlatformAssumption
      <4>. QED
        BY <3>2, <3>3, <3>9, <3>12, <4>1
    <3>14. RingFits'
      <4>1. Len(session'.ring) <= RingFrames /\ session'.dropped + Len(session'.ring) <= session'.encoded
        BY <3>6, <3>7, <3>12, <3>13, Zenon
      <4>2. \A i \in 1 .. Len(session'.ring) :
              /\ Timed(session'.ring[i], session')
              /\ reader'.frame = NoFrame \/ Before(reader'.frame, session'.ring[i])
              /\ control'.pc \notin Ending => OfAThread(session'.ring[i], session', W!Live')
              /\ \A j \in 1 .. i - 1 : Before(session'.ring[j], session'.ring[i])
        BY <1>1, <3>5, <3>6, <3>11, Zenon
      <4>3. reader'.frame = NoFrame \/ Timed(reader'.frame, session')
        BY <3>5, <3>10, Zenon
      <4>4. session'.base <= session'.encoded
        BY <3>7, <3>9, Zenon
      <4>. QED
        BY <4>1, <4>2, <4>3, <4>4, Zenon DEF RingFits
    <3>15. WindowsFits'
      BY <2>1, <3>5, <3>6, <3>7, <3>8, <3>14 DEF WindowsFits
    <3>16. Balance = e - d - n /\ Balance' = e - d - m
      BY <3>1, <3>6, <3>7, <3>12, WindowsSees, Zenon
    <3>17. Balance' = Balance + 1
      BY <3>2, <3>3, <3>13, <3>16
    <3>18. FrameInOrder
      <4>1. g[1].run = session.runs \/ \E r \in W!Live : r # session.runs
        BY <1>0, <2>1, <3>9, <3>10 DEF CallFits, Ending, OfAThread
      <4>2. reader.frame = NoFrame \/ Before(reader.frame, g[1])
        BY <3>9, <3>10
      <4>3. reader.frame.run \in Nat /\ g[1].run \in Nat /\ NoFrame.run = 0
        BY <1>0, <3>3 DEF Readers, FrameSet, NoFrame, Frame
      <4>4. /\ reader.frame.run <= g[1].run
            /\ reader.frame # NoFrame /\ reader.frame.run = g[1].run => reader.frame.pts < g[1].pts
        BY <4>2, <4>3 DEF Before
      <4>5. backend # "mock"
        OBVIOUS
      <4>. QED
        BY <3>5, <4>1, <4>4, <4>5, Zenon DEF FrameInOrder
    <3>. QED
      BY <3>5, <3>15, <3>17, <3>18 DEF FrameStep
  <2>. QED
    BY <1>5, <2>2, <2>3 DEF W!ReadTakes
<1>. QED
  BY <1>3, <1>4, <1>5 DEF W!Reading

(* A step of a camera switch, or of nothing else the control thread waits for. *)
LEMMA ControlIsSteady ==
  ASSUME backend = "windows", backend' = "windows", WindowsFits,
         NEW pc \in {"idle"} \cup Asking, W!Control(pc) \/ control' = control,
         control.pc \in {"idle"} \cup Asking,
         pc # "idle" => session.state = "running" /\ ~session.decodeOnly,
         session' \in WindowsSessions, UNCHANGED <<threads, reader>>,
         \A part \in CallParts \cup FrameParts : session'[part] = session[part]
  PROVE  WindowsFits' /\ FrameStep
<1>1. /\ session'.state = session.state /\ session'.decodeOnly = session.decodeOnly
      /\ session'.stop = session.stop /\ session'.running = session.running
      /\ session'.done = session.done /\ session'.result = session.result
      /\ session'.runs = session.runs
  BY DEF CallParts, FrameParts
<1>2. ~HandsOut
  BY DEF HandsOut
<1>3. CASE control' = control
  BY <1>2, <1>3, WindowsSteadyFrames DEF WindowsFits
<1>4. CASE W!Control(pc)
  <2>1. control' \in WindowsCalls /\ control'.pc = pc
    BY <1>4, ControlIs
  <2>2. control.pc # "joining" /\ control.pc \notin Ending /\ pc \notin Ending
        /\ pc # "joining" /\ pc # "starting"
    BY DEF Ending, Asking
  <2>3. CallFits'
    BY <1>1, <2>1, <2>2 DEF WindowsFits, CallFits
  <2>4. ThreadsFit' /\ W!Live' = W!Live
    BY <1>1 DEF WindowsFits, ThreadsFit, W!Live
  <2>5. session'.state # "none" \/ (session.state = "none" /\ reader' = reader)
    BY <1>1
  <2>6. \A part \in FrameParts : session'[part] = session[part]
    OBVIOUS
  <2>. QED
    BY <1>2, <2>2, <2>3, <2>4, <2>5, <2>6, WindowsQuietFrames DEF WindowsFits
<1>. QED
  BY <1>3, <1>4

LEMMA MadeIsTyped ==
  ASSUME WindowsFits
  PROVE  /\ W!WithoutReader(session) \in WindowsSessions
         /\ \A part \in CallParts \cup FrameParts : W!WithoutReader(session)[part] = session[part]
         /\ \A part \in CallParts \cup FrameParts : W!NewReader(session)[part] = session[part]
         /\ session.made < MaxObjects \/ W!NewReader(session).made <= MaxObjects =>
              W!NewReader(session) \in WindowsSessions
<1>0. session \in WindowsSessions
  BY DEF WindowsFits
<1>1. PICK freed, next : freed = session.freed \cup ({session.reader} \ {0})
                      /\ next = session.made + 1
  OBVIOUS
<1>2. freed \in SUBSET Nat
  BY <1>0, <1>1 DEF WindowsSessions
<1>3. PICK t, u : t = [session EXCEPT !.reader = 0, !.freed = freed]
               /\ u = [session EXCEPT !.reader = next, !.made = next]
  OBVIOUS
<1>4. W!WithoutReader(session) = t
  BY <1>1, <1>3, Zenon DEF W!WithoutReader
<1>5. W!NewReader(session) = u
  BY <1>0, <1>1, <1>3 DEF W!NewReader, WindowsSessions
<1>6. t \in WindowsSessions
  BY <1>0, <1>2, <1>3 DEF WindowsSessions
<1>7. /\ \A part \in CallParts \cup FrameParts : t[part] = session[part]
      /\ \A part \in CallParts \cup FrameParts : u[part] = session[part]
      /\ u.made = next
  BY <1>0, <1>3 DEF WindowsSessions, CallParts, FrameParts
<1>8. ASSUME session.made < MaxObjects \/ next <= MaxObjects  PROVE u \in WindowsSessions
  <2>1. next \in 0 .. MaxObjects /\ next \in Nat
    <3>1. MaxObjects \in Nat /\ session.made \in Nat
      BY <1>0, PlatformAssumption DEF WindowsSessions
    <3>. QED
      BY <1>1, <1>8, <3>1
  <2>. QED
    BY <1>0, <1>3, <2>1 DEF WindowsSessions
<1>. QED
  BY <1>4, <1>5, <1>6, <1>7, <1>8

LEMMA WindowsEncodeSideFrames ==
  ASSUME backend = "windows", backend' = "windows", WindowsFits, W!EncodeSide
  PROVE  WindowsFits' /\ FrameStep
<1>0. session \in WindowsSessions /\ CallFits
  BY DEF WindowsFits
<1>a. \A part \in CallParts \cup FrameParts : session[part] = session[part]
  OBVIOUS
<1>1. CASE W!SwitchFails
  BY <1>1, WindowsRefusesFrames DEF W!SwitchFails, W!Refuses
<1>2. CASE W!RequestKeyframe
  <2>1. /\ session' = session \/ session' = [session EXCEPT !.force = TRUE]
        /\ UNCHANGED <<control, threads, reader>> /\ control.pc = "idle"
    BY <1>2 DEF W!RequestKeyframe, W!Refuses, W!Idle
  <2>2. /\ session' \in WindowsSessions
        /\ \A part \in CallParts \cup FrameParts : session'[part] = session[part]
    BY <1>0, <2>1 DEF WindowsSessions, CallParts, FrameParts
  <2>. QED
    BY <2>1, <2>2, ControlIsSteady
<1>3. ASSUME NEW on \in BOOLEAN, W!SetCapture(on) PROVE WindowsFits' /\ FrameStep
  <2>1. PICK force \in BOOLEAN :
          session' = session \/ session' = [session EXCEPT !.capture = on, !.force = force]
    <3>1. (session.force \/ (on /\ ~session.capture)) \in BOOLEAN
      BY Zenon
    <3>. QED
      BY <1>3, <3>1, Zenon DEF W!SetCapture
  <2>2. /\ session' \in WindowsSessions
        /\ \A part \in CallParts \cup FrameParts : session'[part] = session[part]
    BY <1>0, <2>1 DEF WindowsSessions, CallParts, FrameParts
  <2>3. UNCHANGED <<control, threads, reader>> /\ control.pc = "idle"
    BY <1>3 DEF W!SetCapture, W!Idle
  <2>. QED
    BY <2>2, <2>3, ControlIsSteady
<1>4. CASE W!SwitchTearsDown
  <2>1. /\ session' = W!WithoutReader(session) /\ W!Control("switching")
        /\ UNCHANGED <<threads, reader>> /\ control.pc = "idle"
        /\ session.state = "running" /\ ~session.decodeOnly
    BY <1>4 DEF W!SwitchTearsDown, W!Idle, W!Running, W!Duplex
  <2>2. /\ session' \in WindowsSessions
        /\ \A part \in CallParts \cup FrameParts : session'[part] = session[part]
    BY <2>1, MadeIsTyped
  <2>. QED
    BY <2>1, <2>2, ControlIsSteady DEF Asking
<1>5. CASE \/ W!SwitchSetsUp \/ W!SwitchUnfit \/ W!SwitchFindsNone
           \/ W!SwitchGoesBack \/ W!SwitchEnds
  <2>1. control.pc \in Asking /\ UNCHANGED <<threads, reader>>
    BY <1>5 DEF W!SwitchSetsUp, W!SwitchUnfit, W!SwitchFindsNone, W!SwitchGoesBack,
                W!SwitchEnds, Asking
  <2>2. PICK pc \in {"idle"} \cup Asking : W!Control(pc)
    BY <1>5, Zenon DEF W!SwitchSetsUp, W!SwitchUnfit, W!SwitchFindsNone, W!SwitchGoesBack,
                W!SwitchEnds, Asking
  <2>3. session.state = "running" /\ ~session.decodeOnly
    BY <1>0, <2>1 DEF CallFits
  <2>4. \/ session' = session
        \/ session' = W!WithoutReader(session)
        \/ session' = W!NewReader(session)
             /\ (session.made < MaxObjects \/ W!NewReader(session).made <= MaxObjects)
        \/ session' = [session EXCEPT !.force = TRUE]
    BY <1>5, Zenon DEF W!SwitchSetsUp, W!SwitchUnfit, W!SwitchFindsNone, W!SwitchGoesBack,
                W!SwitchEnds
  <2>5. /\ session' \in WindowsSessions
        /\ \A part \in CallParts \cup FrameParts : session'[part] = session[part]
    <3>1. CASE session' = [session EXCEPT !.force = TRUE]
      BY <1>0, <3>1 DEF WindowsSessions, CallParts, FrameParts
    <3>. QED
      BY <1>0, <1>a, <2>4, <3>1, MadeIsTyped
  <2>. QED
    BY <2>1, <2>2, <2>3, <2>5, ControlIsSteady
<1>. QED
  BY <1>1, <1>2, <1>3, <1>4, <1>5 DEF W!EncodeSide

LEMMA WindowsDecodeSideFrames ==
  ASSUME backend = "windows", backend' = "windows", WindowsFits, W!DecodeSide
  PROVE  WindowsFits' /\ FrameStep
<1>1. UNCHANGED <<control, threads, reader>>
  BY DEF W!DecodeSide, W!GetTexture, W!SubmitEnds, W!Submit, W!SubmitFails, W!Refuses
<1>2. session' = session \/ session' = [session EXCEPT !.awaiting = FALSE]
  BY Zenon DEF W!DecodeSide, W!GetTexture, W!SubmitEnds, W!Submit, W!SubmitFails, W!Refuses
<1>3. /\ session' \in WindowsSessions
      /\ \A part \in CallParts \cup FrameParts : session'[part] = session[part]
  BY <1>2 DEF WindowsFits, WindowsSessions, CallParts, FrameParts
<1>4. ~HandsOut
  BY <1>1 DEF HandsOut
<1>. QED
  BY <1>1, <1>3, <1>4, WindowsSteadyFrames DEF WindowsFits

LEMMA WindowsInit ==
  ASSUME W!Init  PROVE WindowsFits
<1>1. /\ session = W!Closed /\ reader = W!NoRead /\ control = [pc |-> "idle", req |-> NoConfig]
      /\ threads = [r \in W!Runs |-> W!NoThread]
  BY DEF W!Init, W!NoCall, W!NoConfig, NoConfig
<1>2. CallFits
  BY <1>1, ClosedIsWindows DEF CallFits, WindowsCalls, Ending, Asking
<1>3. ThreadsFit
  BY <1>1, IdleIsThread DEF ThreadsFit
<1>4. RingFits
  <2>1. Len(session.ring) = 0 /\ RingFrames \in Nat
    BY <1>1, ClosedIsWindows, PlatformAssumption
  <2>. QED
    BY <1>1, <2>1, ClosedIsWindows, WindowsNothingIsRead DEF RingFits
<1>. QED
  BY <1>1, <1>2, <1>3, <1>4, ClosedIsWindows, WindowsNothingIsRead DEF WindowsFits

LEMMA WindowsFrames ==
  ASSUME backend = "windows", backend' = "windows", WindowsFits, WindowsStep
  PROVE  WindowsFits' /\ FrameStep
<1>1. ~W!Gone
  BY DEF WindowsStep
<1>2. ASSUME NEW r \in W!Runs, W!CaptureThread(r) PROVE WindowsFits' /\ FrameStep
  BY <1>1, <1>2, ThreadEndsFrames, ThreadQuietFrames, ThreadEncodesFrames DEF W!CaptureThread
<1>. QED
  BY <1>1, <1>2, WindowsLifecycleFrames, WindowsReadingFrames, WindowsEncodeSideFrames,
     WindowsChangesFrames, WindowsDecodeSideFrames DEF WindowsStep

-----------------------------------------------------------------------------
(* Every backend *)

SessionFits ==
    /\ backend = "linux" => LinuxFits
    /\ backend = "windows" => WindowsFits
    /\ backend = "mock" => MockFits

FramesFitIn ==
    /\ backend \in {"linux", "windows", "mock"}
    /\ guard \in BOOLEAN /\ owed \in BOOLEAN /\ handed \in Nat
    /\ Guarded /\ SessionFits

LEMMA BalanceIsNumber ==
  ASSUME backend \in {"linux", "windows", "mock"}, SessionFits
  PROVE  Balance \in Int
<1>1. CASE backend = "linux"
  <2>1. session.encoded \in Nat /\ session.dropped \in Nat
    BY <1>1, InstanceAssumption DEF SessionFits, LinuxFits, LinuxSessions
  <2>. QED
    BY <1>1, <2>1, LinuxSees
<1>2. CASE backend = "windows"
  <2>1. session.encoded \in Nat /\ session.dropped \in Nat /\ Len(session.ring) \in Nat
    BY <1>2, InstanceAssumption DEF SessionFits, WindowsFits, WindowsSessions
  <2>. QED
    BY <1>2, <2>1, WindowsSees
<1>3. CASE backend = "mock"
  <2>1. session.encoded \in Nat /\ session.dropped \in Nat /\ Len(session.pending) \in Nat
    BY <1>3, MockIsTyped DEF SessionFits
  <2>. QED
    BY <1>3, <2>1, MockSees
<1>. QED
  BY <1>1, <1>2, <1>3

LEMMA FramesAtFirst == Init => FramesFitIn
<1>. SUFFICES ASSUME Init PROVE FramesFitIn
  OBVIOUS
<1>1. /\ backend \in {"linux", "windows", "mock"} /\ guard = FALSE /\ owed = FALSE /\ handed = 0
      /\ stage = "none"
      /\ \/ backend = "linux" /\ L!Init
         \/ backend = "windows" /\ W!Init
         \/ backend = "mock" /\ M!Init
  BY FocusAssumption, Zenon DEF Init
<1>2. backend = "linux" => LinuxFits
  <2>1. L!Init => session = L!Closed /\ reader = L!NoRead
    BY Zenon DEF L!Init
  <2>. QED
    BY <1>1, <2>1, LinuxInit
<1>3. backend = "windows" => WindowsFits
  BY <1>1, WindowsInit
<1>4. backend = "mock" => MockFits
  <2>1. M!Init => session = M!Closed /\ reader = M!NoRead
    BY Zenon DEF M!Init
  <2>. QED
    BY <1>1, <2>1, MockInit
<1>. QED
  BY <1>1, <1>2, <1>3, <1>4, GuardedAtFirst DEF FramesFitIn, SessionFits

LEMMA FramesAlways ==
  ASSUME FramesFitIn, Next
  PROVE  FramesFitIn' /\ NothingVanishes /\ FrameInOrder
<1>1. backend' = backend /\ Sees /\ backend \in {"linux", "windows", "mock"} /\ handed \in Nat
      /\ SessionFits
  BY DEF Next, FramesFitIn
<1>2. SessionFits' /\ FrameStep
  <2>1. CASE backend = "linux"
    BY <1>1, <2>1, LinuxFrames DEF Next, WindowsStep, MockStep, SessionFits
  <2>2. CASE backend = "windows"
    BY <1>1, <2>2, WindowsFrames DEF Next, LinuxStep, MockStep, SessionFits
  <2>3. CASE backend = "mock"
    BY <1>1, <2>3, MockFrames DEF Next, WindowsStep, LinuxStep, SessionFits
  <2>. QED
    BY <1>1, <2>1, <2>2, <2>3
<1>3. Balance \in Int
  BY <1>1, BalanceIsNumber
<1>4. Balance' \in Int
  <2>1. ASSUME backend' \in {"linux", "windows", "mock"}, SessionFits' PROVE Balance' \in Int
    <3>1. CASE backend' = "linux"
      <4>1. session'.encoded \in Nat /\ session'.dropped \in Nat
        BY <2>1, <3>1, InstanceAssumption DEF SessionFits, LinuxFits, LinuxSessions
      <4>. QED
        BY <3>1, <4>1, LinuxSees
    <3>2. CASE backend' = "windows"
      <4>1. session'.encoded \in Nat /\ session'.dropped \in Nat /\ Len(session'.ring) \in Nat
        BY <2>1, <3>2, InstanceAssumption DEF SessionFits, WindowsFits, WindowsSessions
      <4>. QED
        BY <3>2, <4>1, WindowsSees
    <3>3. CASE backend' = "mock"
      <4>1. session'.encoded \in Nat /\ session'.dropped \in Nat /\ Len(session'.pending) \in Nat
        BY <2>1, <3>3, InstanceAssumption, WaitingIsShort DEF SessionFits, MockFits, MockSessions
      <4>. QED
        BY <3>3, <4>1, MockSees
    <3>. QED
      BY <2>1, <3>1, <3>2, <3>3
  <2>. QED
    BY <1>1, <1>2, <2>1
<1>5. NothingVanishes /\ FrameInOrder /\ handed' \in Nat
  BY <1>1, <1>2, <1>3, <1>4, FrameStepSuffices
<1>6. Guarded'
  BY GuardedAlways DEF FramesFitIn
<1>7. guard' \in BOOLEAN
  <2>1. CASE backend = "linux"
    BY <1>1, <1>6, <2>1 DEF Guarded
  <2>2. CASE backend # "linux"
    BY <1>1, <2>2 DEF Next, LinuxStep, WindowsStep, MockStep, FramesFitIn
  <2>. QED
    BY <2>1, <2>2
<1>8. owed' \in BOOLEAN
  BY <1>1 DEF Sees, FramesFitIn
<1>. QED
  BY <1>1, <1>2, <1>5, <1>6, <1>7, <1>8 DEF FramesFitIn

LEMMA FramesStay == FramesFitIn /\ UNCHANGED videoVars => FramesFitIn'
<1>. SUFFICES ASSUME FramesFitIn, UNCHANGED videoVars PROVE FramesFitIn'
  OBVIOUS
<1>1. Guarded'
  BY GuardedAlways DEF FramesFitIn
<1>2. UNCHANGED <<backend, guard, stage, session, control, threads, reader, owed, handed>>
  BY DEF videoVars
<1>3. (LinuxFits => LinuxFits') /\ (MockFits => MockFits')
  BY <1>2 DEF LinuxFits, MockFits
<1>4. WindowsFits => WindowsFits'
  BY <1>2 DEF WindowsFits, CallFits, ThreadsFit, RingFits, W!Live
<1>. QED
  BY <1>1, <1>2, <1>3, <1>4 DEF FramesFitIn, SessionFits

LEMMA FramesInvariant == Spec => []FramesFitIn
<1>1. FramesFitIn /\ [Next]_videoVars => FramesFitIn'
  BY FramesAlways, FramesStay
<1>. QED
  BY <1>1, FramesAtFirst, PTL DEF Spec

(* Whatever backend a process has, its session keeps its type over every call,
   and neither the mock's one waiting frame nor the ring of Windows outgrows its
   bound, nor what Windows makes of readers and decoders the instance's. *)
THEOREM SessionsAreTyped == Spec => []TypeOK
<1>1. FramesFitIn => TypeOK
  <2>. SUFFICES ASSUME FramesFitIn PROVE TypeOK
    OBVIOUS
  <2>1. MaxRuns \in Nat /\ MaxFrames \in Nat
    BY InstanceAssumption
  <2>2. ASSUME session.runs \in 0 .. MaxRuns, session.encoded \in 0 .. MaxFrames,
               session.dropped \in Nat, session.dropped <= session.encoded
        PROVE  /\ session.runs <= MaxRuns /\ session.encoded <= MaxFrames
               /\ session.dropped <= MaxFrames + MaxRuns
    BY <2>1, <2>2
  <2>3. CASE backend = "linux"
    <3>1. /\ session.runs \in 0 .. MaxRuns /\ session.encoded \in 0 .. MaxFrames
          /\ session.dropped \in Nat /\ session.dropped <= session.encoded
      BY <2>3 DEF FramesFitIn, SessionFits, LinuxFits, LinuxSessions
    <3>. QED
      BY <2>2, <2>3, <3>1 DEF TypeOK, FramesFitIn
  <2>4. CASE backend = "windows"
    <3>1. /\ session.runs \in 0 .. MaxRuns /\ session.encoded \in 0 .. MaxFrames
          /\ session.dropped \in Nat /\ Len(session.ring) \in Nat /\ session.made \in 0 .. MaxObjects
      BY <2>4 DEF FramesFitIn, SessionFits, WindowsFits, WindowsSessions
    <3>2. Len(session.ring) <= RingFrames /\ session.dropped + Len(session.ring) <= session.encoded
      BY <2>4 DEF FramesFitIn, SessionFits, WindowsFits, RingFits
    <3>3. session.dropped <= session.encoded /\ session.made <= MaxObjects
      <4>1. PICK d, n, e : d = session.dropped /\ n = Len(session.ring) /\ e = session.encoded
        OBVIOUS
      <4>2. d \in Nat /\ n \in Nat /\ e \in Nat /\ d + n <= e
        BY <2>1, <3>1, <3>2, <4>1
      <4>3. d <= e
        BY <4>2
      <4>4. session.made <= MaxObjects
        BY <3>1, PlatformAssumption
      <4>. QED
        BY <4>1, <4>3, <4>4
    <3>4. Queued = Len(session.ring)
      BY <2>4 DEF Queued
    <3>. QED
      BY <2>2, <2>4, <3>1, <3>2, <3>3, <3>4 DEF TypeOK, FramesFitIn
  <2>5. CASE backend = "mock"
    <3>1. /\ session.runs \in 0 .. MaxRuns /\ session.encoded \in 0 .. MaxFrames
          /\ session.dropped \in Nat /\ session.pending \in Waiting
      BY <2>5 DEF FramesFitIn, SessionFits, MockFits, MockSessions
    <3>2. session.dropped + Len(session.pending) <= session.encoded
          /\ Len(session.pending) \in Nat /\ Len(session.pending) <= 1
      BY <2>5, <3>1, WaitingIsShort DEF FramesFitIn, SessionFits, MockFits
    <3>3. session.dropped <= session.encoded
      <4>1. PICK d, n, e : d = session.dropped /\ n = Len(session.pending) /\ e = session.encoded
        OBVIOUS
      <4>2. d \in Nat /\ n \in Nat /\ e \in Nat /\ d + n <= e
        BY <2>1, <3>1, <3>2, <4>1
      <4>3. d <= e
        BY <4>2
      <4>. QED
        BY <4>1, <4>3
    <3>4. Queued = Len(session.pending)
      BY <2>5 DEF Queued
    <3>. QED
      BY <2>2, <2>5, <3>1, <3>2, <3>3, <3>4 DEF TypeOK, FramesFitIn
  <2>. QED
    BY <2>3, <2>4, <2>5 DEF FramesFitIn
<1>. QED
  BY <1>1, FramesInvariant, PTL

(* No frame that cvl_encode_one_locked, produce_locked of the mock or the thread of
   Windows makes goes uncounted, but for those a stop, capture turned off, another
   camera or a full ring takes. *)
THEOREM EveryFrameIsAccountedFor == Spec => NoFrameVanishes
<1>1. FramesFitIn /\ [Next]_videoVars => [NothingVanishes]_videoVars
  BY FramesAlways
<1>. QED
  BY <1>1, FramesInvariant, PTL DEF Spec, NoFrameVanishes

(* cleona_video_read_encoded hands out frames in the order of their making,
   none of a start that has ended, unless a Windows thread outlived the wait
   for it. *)
THEOREM FramesKeepTheirOrder == Spec => FramesInOrder
<1>1. FramesFitIn /\ [Next]_videoVars => [FrameInOrder]_videoVars
  BY FramesAlways
<1>. QED
  BY <1>1, FramesInvariant, PTL DEF Spec, FramesInOrder
=============================================================================
