----------------------------- MODULE VideoMock -----------------------------
(* The mock backend, src/native/cleona_video/mock/cleona_video_mock.c: frames
   are made when somebody reads, by a clock.  Every section under the lock is
   one step. *)
EXTENDS VideoSession

VARIABLES session, reader, last

mockVars == <<session, reader, last>>

Closed ==
    [state |-> "none", runs |-> 0, decodeOnly |-> FALSE, cfg |-> NoConfig,
     fixed |-> 0, texture |-> TRUE,
     capture |-> FALSE, force |-> FALSE, pts |-> 0, pending |-> <<>>,
     awaiting |-> TRUE, encoded |-> 0, dropped |-> 0, latest |-> NoFrame]

NoRead == [pc |-> "out", cap |-> 0, frame |-> NoFrame]

Init ==
    /\ session = Closed
    /\ reader = NoRead
    /\ last = Result("none", "none")

IsOpen == session.state # "none"
Running == session.state = "running"
Duplex == ~session.decodeOnly
Returns(call, code) == last' = Result(call, code)
Refuses(call, code) == Returns(call, code) /\ UNCHANGED <<session, reader>>

-----------------------------------------------------------------------------
(* Open, change, start, stop, close *)

OpenFails ==
    /\ ~IsOpen
    /\ \/ Refuses("open", "invalid")
       \/ Refuses("open", "backend")
       \/ \E req \in Requests :
            ByBudget(req, 0) = Unachievable /\ Refuses("open", "unachievable")

Open(req, decodeOnly) ==
    /\ ~IsOpen /\ session.runs < MaxRuns
    /\ \E cfg \in ByBudget(req, 0) :
         session' = [Closed EXCEPT
           !.state = "open", !.runs = session.runs, !.decodeOnly = decodeOnly,
           !.cfg = cfg, !.capture = ~decodeOnly]
    /\ Returns("open", "ok")
    /\ UNCHANGED reader

(* Mutation: a frame that waits stays, whatever the new ceiling. *)
NeverOutgrown(s) == FALSE

(* The frame that waits is larger than the ceiling now in force. *)
Outgrown(s) == s.pending # <<>> /\ s.pending[1].size > s.cfg.ceiling

(* Mutation: the frame that goes is not counted. *)
PurgedUncounted(s) == IF Outgrown(s) THEN [s EXCEPT !.pending = <<>>] ELSE s

Purged(s) ==
    IF Outgrown(s) THEN [s EXCEPT !.pending = <<>>, !.dropped = @ + 1] ELSE s

Reconfigure(req) ==
    /\ IsOpen
    /\ \E cfg \in ByBudget(req, session.fixed) :
         session' = Purged([session EXCEPT
           !.cfg = cfg, !.force = @ \/ cfg.geo # session.cfg.geo])
    /\ Returns("reconfigure", "ok")
    /\ UNCHANGED reader

(* Another direction, or a field out of range; or no step that fits. *)
ReconfigureFails ==
    /\ IsOpen
    /\ \/ Refuses("reconfigure", "invalid")
       \/ \E req \in Requests :
            /\ ByBudget(req, session.fixed) = Unachievable
            /\ Refuses("reconfigure", "unachievable")

Start ==
    /\ session.state = "open" /\ session.runs < MaxRuns
    /\ session' = [session EXCEPT !.state = "running", !.runs = @ + 1, !.force = TRUE]
    /\ Returns("start", "ok")
    /\ UNCHANGED reader

StartFails == Running /\ Refuses("start", "state")

(* Mutation: the next run takes a picture without a keyframe. *)
StopsFollowing(s) == [s EXCEPT !.state = "open", !.pending = <<>>]

Stopped(s) == [s EXCEPT !.state = "open", !.pending = <<>>, !.awaiting = TRUE]

Stop ==
    /\ IsOpen
    /\ session' = Stopped(session)
    /\ Returns("stop", "ok")
    /\ UNCHANGED reader

Close ==
    /\ IsOpen /\ reader.pc = "out"
    /\ session' = [Closed EXCEPT !.runs = session.runs]
    /\ reader' = NoRead
    /\ Returns("close", "ok")

-----------------------------------------------------------------------------
(* produce_locked.  A frame the tests blow up is one more than the ceiling;
   a frame over the ceiling is counted and gone, a keyframe like another. *)

Produced(interval, blownUp) ==
    LET key == session.force \/ interval
        nominal == IF session.fixed > 0 THEN session.fixed
                   ELSE Nominal(session.cfg.rate, session.cfg.fps)
        size == IF blownUp THEN session.cfg.ceiling + 1
                ELSE IF key THEN nominal * KeyFactor ELSE nominal
        frame == Frame(key, size, session.pts, session.runs)
        fits == size <= session.cfg.ceiling
    IN [session EXCEPT
          !.pts = @ + Second \div session.cfg.fps,
          !.force = FALSE,
          !.encoded = @ + 1,
          !.latest = frame,
          !.dropped = IF fits THEN @ ELSE @ + 1,
          !.pending = IF fits THEN <<frame>> ELSE <<>>]

(* cleona_video_read_encoded *)
ReadBegins(cap) ==
    /\ IsOpen /\ reader.pc = "out"
    /\ reader' = [reader EXCEPT !.pc = "in", !.cap = cap]
    /\ UNCHANGED <<session, last>>

ReadReturns(code, frame) ==
    /\ reader' = [reader EXCEPT !.pc = "out", !.cap = 0, !.frame = frame]
    /\ Returns("read", code)

ReadClosed ==
    /\ reader.pc = "in" /\ ~Running
    /\ ReadReturns("closed", reader.frame)
    /\ UNCHANGED session

(* Nothing waits and no frame is due; or there never is one. *)
ReadTimesOut ==
    /\ reader.pc = "in" /\ Running
    /\ session.decodeOnly \/ session.pending = <<>>
    /\ ReadReturns("timeout", reader.frame)
    /\ UNCHANGED session

ReadTakes ==
    /\ reader.pc = "in" /\ Running /\ Duplex /\ session.pending # <<>>
    /\ IF session.pending[1].size > reader.cap
         THEN ReadReturns("too_small", reader.frame) /\ UNCHANGED session
         ELSE /\ ReadReturns("frame", session.pending[1])
              /\ session' = [session EXCEPT !.pending = <<>>]

MayProduce ==
    /\ reader.pc = "in" /\ Running /\ Duplex
    /\ session.pending = <<>> /\ session.capture

ReadProduces ==
    /\ MayProduce /\ session.encoded < MaxFrames
    /\ \E interval \in BOOLEAN, blownUp \in {FALSE, session.encoded > 0} :
         session' = Produced(interval, blownUp)
    /\ UNCHANGED <<reader, last>>

(* No memory: the frame's number, time and demand for a keyframe are spent. *)
ReadFails ==
    /\ MayProduce /\ session.pts < MaxFrames * Second
    /\ session' = [session EXCEPT !.pts = @ + Second \div session.cfg.fps, !.force = FALSE]
    /\ ReadReturns("backend", reader.frame)

-----------------------------------------------------------------------------
(* cleona_video_submit_encoded: the last unit decides. *)
SubmitFails(unit) ==
    /\ IsOpen
    /\ \/ ~Running /\ Refuses(Submits(unit), "state")
       \/ Running /\ unit.claims # IsKey(unit) /\ Refuses(Submits(unit), "decode")

Submit(unit) ==
    /\ Running /\ unit.claims = IsKey(unit)
    /\ IF session.awaiting /\ ~IsKey(unit)
         THEN Refuses(Submits(unit), "awaiting")
         ELSE /\ session' = [session EXCEPT !.awaiting = FALSE]
              /\ Returns(Submits(unit), "accepted")
              /\ UNCHANGED reader

-----------------------------------------------------------------------------
(* The other calls *)
GetTexture ==
    /\ IsOpen
    /\ Refuses("texture", IF ~Running THEN "state"
                          ELSE IF session.texture THEN "ok" ELSE "unsupported")

RequestKeyframe ==
    /\ IsOpen
    /\ IF Running /\ Duplex
         THEN /\ session' = [session EXCEPT !.force = TRUE]
              /\ Returns("keyframe", "ok") /\ UNCHANGED reader
         ELSE Refuses("keyframe", IF Running THEN "unsupported" ELSE "state")

SetCapture(on) ==
    /\ IsOpen
    /\ session' = IF session.decodeOnly THEN session ELSE
         [session EXCEPT
            !.capture = on,
            !.force = @ \/ (on /\ ~session.capture),
            !.pending = IF on THEN @ ELSE <<>>]
    /\ Returns("capture", IF on THEN "on" ELSE "off")
    /\ UNCHANGED reader

Switched(s) == [s EXCEPT !.force = TRUE, !.pending = <<>>]

SwitchCamera ==
    /\ Running /\ Duplex
    /\ session' = Switched(session)
    /\ Returns("switch", "ok")
    /\ UNCHANGED reader

(* How many cameras there are is the test's to say. *)
SwitchFails ==
    /\ IsOpen
    /\ Refuses("switch", IF Running THEN "unsupported" ELSE "state")

(* The knobs of the tests; the others change no more than an answer. *)
MockSetFrameBytes(size) ==
    /\ IsOpen
    /\ session' = [session EXCEPT !.fixed = size]
    /\ UNCHANGED <<reader, last>>

MockSetTexture(on) ==
    /\ IsOpen
    /\ session' = [session EXCEPT !.texture = on]
    /\ UNCHANGED <<reader, last>>

-----------------------------------------------------------------------------
Lifecycle ==
    \/ OpenFails \/ Start \/ StartFails \/ Stop \/ Close
    \/ \E req \in Requests, decodeOnly \in BOOLEAN : Open(req, decodeOnly)

Changes ==
    \/ ReconfigureFails
    \/ \E req \in Requests : Reconfigure(req)
    \/ \E size \in {0, 2} : MockSetFrameBytes(size)

Reading ==
    \/ ReadClosed \/ ReadTimesOut \/ ReadTakes \/ ReadProduces \/ ReadFails
    \/ \E cap \in Buffers : ReadBegins(cap)

EncodeSide ==
    \/ RequestKeyframe \/ SwitchCamera \/ SwitchFails
    \/ \E on \in BOOLEAN : SetCapture(on)

DecodeSide ==
    \/ GetTexture
    \/ \E unit \in AccessUnits : Submit(unit) \/ SubmitFails(unit)
    \/ \E on \in BOOLEAN : MockSetTexture(on)

Next == Lifecycle \/ Changes \/ Reading \/ EncodeSide \/ DecodeSide
=============================================================================
