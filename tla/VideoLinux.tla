----------------------------- MODULE VideoLinux -----------------------------
(* The V4L2 and VA-API backend, src/native/cleona_video/linux: a frame is
   captured and encoded by the thread that reads it, under the session's lock.
   One duplex session may be open in the process, and any number that only
   decode.  Every section under a lock is one step; open is a step for each
   thing the platform may refuse. *)
EXTENDS VideoSession

CONSTANT Cameras    \* what a camera delivers: [geo, fps]

VARIABLES
    guard,      \* g_session_active
    stage,      \* how far open has come; "none" and "done" at its two ends
    session,    \* struct cleona_video_session
    reader,     \* the call that reads
    last        \* the latest result of a call

linuxVars == <<guard, stage, session, reader, last>>

NoCamera == [geo |-> 0, fps |-> 0]

Closed ==
    [running |-> FALSE, runs |-> 0, decodeOnly |-> FALSE, cfg |-> NoConfig,
     camera |-> NoCamera, capture |-> FALSE, force |-> FALSE, pts |-> 0,
     encoder |-> FALSE, params |-> FALSE, awaiting |-> TRUE, encoded |-> 0,
     dropped |-> 0, latest |-> NoFrame]

NoRead == [pc |-> "out", cap |-> 0, frame |-> NoFrame]

Init ==
    /\ guard = FALSE
    /\ stage = "none"
    /\ session = Closed
    /\ reader = NoRead
    /\ last = Result("none", "none")

IsOpen == stage = "done"
Running == IsOpen /\ session.running
Duplex == ~session.decodeOnly
Returns(call, code) == last' = Result(call, code)
Refuses(call, code) ==
    IsOpen /\ Returns(call, code) /\ UNCHANGED <<guard, stage, session, reader>>

-----------------------------------------------------------------------------
(* cleona_video_open: a duplex session claims the process and its camera,
   and every failure gives back what was claimed. *)

OpenInvalid ==
    /\ stage = "none"
    /\ Returns("open", "invalid")
    /\ UNCHANGED <<guard, stage, session, reader>>

OpenRefused ==
    /\ stage = "none" /\ guard
    /\ Returns("open", "backend")
    /\ UNCHANGED <<guard, stage, session, reader>>

OpenClaims(decodeOnly) ==
    /\ stage = "none" /\ session.runs < MaxRuns
    /\ decodeOnly \/ ~guard
    /\ guard' = (guard \/ ~decodeOnly)
    /\ stage' = IF decodeOnly THEN "negotiate" ELSE "camera"
    /\ session' = [session EXCEPT !.decodeOnly = decodeOnly]
    /\ UNCHANGED <<reader, last>>

(* Mutation: a session that only decodes gives back what it never claimed. *)
GuardGivenBackAlways == FALSE

GuardGivenBack == IF Duplex THEN FALSE ELSE guard

TakenDown(call, code) ==
    /\ guard' = GuardGivenBack
    /\ stage' = "none"
    /\ session' = [Closed EXCEPT !.runs = session.runs]
    /\ reader' = NoRead
    /\ Returns(call, code)

(* No camera, none of its format, or it does not open; no render node with
   the entry point; no configuration, context or surface. *)
OpenFails ==
    /\ stage \in {"camera", "display", "encoder", "decoder"}
    /\ \E code \in {"unsupported", "backend"} : TakenDown("open", code)

OpenHasCamera ==
    /\ stage = "camera"
    /\ stage' = "negotiate"
    /\ \E camera \in Cameras : session' = [session EXCEPT !.camera = camera]
    /\ UNCHANGED <<guard, reader, last>>

(* What the camera delivers bounds what is negotiated; a session without one
   is bounded by what it asks for. *)
Native(req) ==
    IF session.decodeOnly THEN [geo |-> req.geo, fps |-> req.fps] ELSE session.camera

OpenNegotiates(req) ==
    /\ stage = "negotiate"
    /\ IF ByEstimate(req, Native(req)) = Unachievable
         THEN TakenDown("open", "unachievable")
         ELSE /\ stage' = "display"
              /\ \E cfg \in ByEstimate(req, Native(req)) :
                   session' = [session EXCEPT !.cfg = cfg]
              /\ UNCHANGED <<guard, reader, last>>

OpenHasDisplay ==
    /\ stage = "display"
    /\ stage' = IF Duplex THEN "encoder" ELSE "decoder"
    /\ UNCHANGED <<guard, session, reader, last>>

(* cvl_create_enc_context_locked: a new context begins with a keyframe. *)
WithEncoder(s) == [s EXCEPT !.encoder = TRUE, !.force = TRUE]

OpenHasEncoder ==
    /\ stage = "encoder"
    /\ stage' = "decoder"
    /\ session' = WithEncoder(session)
    /\ UNCHANGED <<guard, reader, last>>

OpenHasDecoder ==
    /\ stage = "decoder"
    /\ stage' = "done"
    /\ session' = [session EXCEPT !.capture = Duplex, !.awaiting = TRUE]
    /\ Returns("open", "ok")
    /\ UNCHANGED <<guard, reader>>

Open ==
    \/ OpenInvalid \/ OpenRefused \/ OpenFails \/ OpenHasCamera
    \/ OpenHasDisplay \/ OpenHasEncoder \/ OpenHasDecoder
    \/ \E decodeOnly \in BOOLEAN : OpenClaims(decodeOnly)
    \/ \E req \in Requests : OpenNegotiates(req)

-----------------------------------------------------------------------------
(* Change, start, stop, close *)

Accept(cfg, s) ==
    /\ session' = [s EXCEPT !.cfg = cfg, !.force = @ \/ cfg.geo # session.cfg.geo]
    /\ Returns("reconfigure", "ok")
    /\ UNCHANGED <<guard, stage, reader>>

(* A new geometry takes a new context, whether the session encodes or not;
   when there is none the old one is made again, if it can be. *)
Reconfigure(req) ==
    /\ IsOpen
    /\ \E cfg \in ByEstimate(req, Native(req)) :
         IF cfg.geo = session.cfg.geo THEN Accept(cfg, session)
         ELSE \/ Accept(cfg, WithEncoder(session))
              \/ /\ \E s \in {WithEncoder(session), [session EXCEPT !.encoder = FALSE]} :
                      session' = s
                 /\ Returns("reconfigure", "backend")
                 /\ UNCHANGED <<guard, stage, reader>>

ReconfigureFails ==
    \/ Refuses("reconfigure", "invalid")
    \/ \E req \in Requests :
         ByEstimate(req, Native(req)) = Unachievable /\ Refuses("reconfigure", "unachievable")

Start ==
    /\ IsOpen /\ ~session.running /\ session.runs < MaxRuns
    /\ session' = [session EXCEPT !.running = TRUE, !.runs = @ + 1, !.pts = 0, !.force = TRUE]
    /\ Returns("start", "ok")
    /\ UNCHANGED <<guard, stage, reader>>

StartFails == Running /\ Refuses("start", "state")

Stop ==
    /\ IsOpen
    /\ session' = [session EXCEPT !.running = FALSE, !.awaiting = TRUE]
    /\ Returns("stop", "ok")
    /\ UNCHANGED <<guard, stage, reader>>

(* No other call is in flight; the guard goes last. *)
Close ==
    /\ IsOpen /\ reader.pc = "out"
    /\ TakenDown("close", "ok")

-----------------------------------------------------------------------------
(* cleona_video_read_encoded: turns of a loop, each of which captures and
   encodes at most one frame, into the caller's buffer. *)
ReadBegins(cap) ==
    /\ IsOpen /\ reader.pc = "out"
    /\ reader' = [reader EXCEPT !.pc = "in", !.cap = cap]
    /\ UNCHANGED <<guard, stage, session, last>>

ReadReturns(code, frame) ==
    /\ reader' = [reader EXCEPT !.pc = "out", !.cap = 0, !.frame = frame]
    /\ Returns("read", code)
    /\ UNCHANGED <<guard, stage>>

ReadClosed ==
    /\ reader.pc = "in" /\ ~session.running
    /\ ReadReturns("closed", reader.frame)
    /\ UNCHANGED session

(* A session that only decodes; or capture is off, the camera has nothing or
   the frame is one too many for the rate, and the deadline has passed. *)
ReadTimesOut ==
    /\ reader.pc = "in" /\ session.running
    /\ ReadReturns("timeout", reader.frame)
    /\ UNCHANGED session

Encodes == reader.pc = "in" /\ session.running /\ Duplex /\ session.capture

(* No memory or no camera: nothing is spent.  A step of the encoder that
   fails has spent the demand for a keyframe; without an encoder all do. *)
ReadFails ==
    /\ Encodes
    /\ \E spent \in BOOLEAN :
         session' = [session EXCEPT !.force = @ /\ ~spent]
    /\ ReadReturns("backend", reader.frame)

Encoded(frame, fits) ==
    [session EXCEPT !.force = FALSE, !.encoded = @ + 1, !.latest = frame,
       !.dropped = IF fits THEN @ ELSE @ + 1,
       !.pts = IF fits THEN @ + Second \div session.cfg.fps ELSE @]

(* A frame the caller's buffer does not hold is counted and gone, and the
   timestamp waits for the next. *)
ReadEncodes ==
    /\ Encodes /\ session.encoder /\ session.encoded < MaxFrames
    /\ \E interval \in BOOLEAN, size \in Sizes :
         LET frame == Frame(session.force \/ interval, size, session.pts, session.runs)
             fits == size <= reader.cap IN
         /\ session' = Encoded(frame, fits)
         /\ IF fits THEN ReadReturns("frame", frame)
            ELSE UNCHANGED <<guard, stage, reader, last>>

-----------------------------------------------------------------------------
(* cleona_video_submit_encoded: parameter sets are taken from any access unit
   of a running session, before the picture is looked at; one that does not
   parse leaves none. *)
Learns(unit) == IF unit.params THEN BOOLEAN ELSE {session.params}

Answers(unit, code, s) ==
    /\ session' = s
    /\ Returns(Submits(unit), code)
    /\ UNCHANGED <<guard, stage, reader>>

Submit(unit) ==
    /\ Running
    /\ \E params \in Learns(unit) :
         LET s == [session EXCEPT !.params = params] IN
         IF unit.picture = "none" THEN Answers(unit, "accepted", s)
         ELSE IF unit.claims # IsKey(unit) THEN Answers(unit, "decode", s)
         ELSE IF session.awaiting /\ ~IsKey(unit) THEN Answers(unit, "awaiting", s)
         ELSE \/ Answers(unit, "decode", s)
              \/ params /\ Answers(unit, "accepted", [s EXCEPT !.awaiting = FALSE])

(* Not running; or no start code at all. *)
SubmitFails ==
    Refuses("submit_none", IF session.running THEN "decode" ELSE "state")

-----------------------------------------------------------------------------
(* The other calls *)

(* No texture is exported, which is an answer and not an error. *)
GetTexture == Refuses("texture", IF session.running THEN "unsupported" ELSE "state")

RequestKeyframe ==
    IF Running /\ Duplex
    THEN /\ session' = [session EXCEPT !.force = TRUE]
         /\ Returns("keyframe", "ok")
         /\ UNCHANGED <<guard, stage, reader>>
    ELSE Refuses("keyframe", IF session.running THEN "unsupported" ELSE "state")

SetCapture(on) ==
    /\ IsOpen
    /\ session' = IF session.decodeOnly THEN session ELSE
         [session EXCEPT !.capture = on, !.force = @ \/ (on /\ ~session.capture)]
    /\ Returns("capture", IF on THEN "on" ELSE "off")
    /\ UNCHANGED <<guard, stage, reader>>

(* Mutation: the new camera goes on where the old one was. *)
SwitchedAsBefore(camera) == [session EXCEPT !.camera = camera]

Switched(camera) == [session EXCEPT !.camera = camera, !.force = TRUE]

(* The next camera is open before the old one is closed. *)
SwitchCamera(camera) ==
    /\ Running /\ Duplex
    /\ session' = Switched(camera)
    /\ Returns("switch", "ok")
    /\ UNCHANGED <<guard, stage, reader>>

SwitchFails ==
    \/ ~session.running /\ Refuses("switch", "state")
    \/ Running /\ Refuses("switch", "unsupported")
    \/ Running /\ Duplex /\ Refuses("switch", "backend")

-----------------------------------------------------------------------------
(* What a caller has seen of a session. *)
State == IF ~IsOpen THEN "none" ELSE IF session.running THEN "running" ELSE "open"

Lifecycle == Open \/ Start \/ StartFails \/ Stop \/ Close

Changes == ReconfigureFails \/ \E req \in Requests : Reconfigure(req)

Reading ==
    \/ ReadClosed \/ ReadTimesOut \/ ReadFails \/ ReadEncodes
    \/ \E cap \in Buffers : ReadBegins(cap)

EncodeSide ==
    \/ RequestKeyframe \/ SwitchFails
    \/ \E on \in BOOLEAN : SetCapture(on)
    \/ \E camera \in Cameras : SwitchCamera(camera)

DecodeSide ==
    \/ GetTexture \/ SubmitFails
    \/ \E unit \in AccessUnits : Submit(unit)

Next == Lifecycle \/ Changes \/ Reading \/ EncodeSide \/ DecodeSide

Spec == Init /\ [][Next]_linuxVars
=============================================================================
