---------------------------- MODULE VideoWindows ----------------------------
(* The Media Foundation backend, src/native/cleona_video/windows: a thread of
   the session captures and encodes into a ring, start makes it and stop waits
   for it, for a while.  Sections under the lock and calls of the platform are
   steps; an object of the platform is its number, 0 where there is none.  A
   call upon an object that is gone ends what can be said: from then on no
   step is taken. *)
EXTENDS VideoSession

CONSTANTS
    RingFrames,    \* CLEONA_VIDEO_WIN_RING_FRAMES
    MaxObjects     \* bound: readers, and decoders, of one session

VARIABLES
    session,    \* struct cleona_video_session
    control,    \* the control thread's call: [pc, req]
    threads,    \* the capture thread of each start
    reader,     \* the call that reads
    writer,     \* the call that submits, with the start it was admitted after
    last        \* the latest result of a call

windowsVars == <<session, control, threads, reader, writer, last>>

NoBase == -1    \* no frame since the start: have_pts_base is clear

Closed ==
    [state |-> "none", runs |-> 0, decodeOnly |-> FALSE, cfg |-> NoConfig,
     running |-> FALSE, stop |-> "none", capture |-> FALSE, force |-> FALSE,
     awaiting |-> TRUE, pending |-> FALSE, asked |-> NoConfig, done |-> FALSE,
     result |-> "none", ring |-> <<>>, reader |-> 0, enc |-> FALSE, dec |-> 0,
     made |-> 0, freed |-> {}, encoded |-> 0, dropped |-> 0, base |-> NoBase]

Runs == 1 .. MaxRuns
NoThread == [pc |-> "none", pending |-> FALSE, req |-> NoConfig, want |-> FALSE,
             on |-> FALSE, reader |-> 0, rc |-> "none"]
NoRead == [pc |-> "out", cap |-> 0, frame |-> NoFrame]
NoCall == [pc |-> "idle", req |-> NoConfig]
NoSubmit == [pc |-> "out", dec |-> 0, call |-> "none", run |-> 0]

Init ==
    /\ session = Closed
    /\ control = NoCall
    /\ threads = [r \in Runs |-> NoThread]
    /\ reader = NoRead
    /\ writer = NoSubmit
    /\ last = Result("none", "none")

IsOpen == session.state # "none"
Running == session.state = "running"
Duplex == ~session.decodeOnly
Idle == control.pc = "idle"
Live == {r \in Runs : threads[r].pc # "none"}
Returns(call, code) == last' = Result(call, code)
Refuses(call, code) ==
    /\ IsOpen /\ Returns(call, code)
    /\ UNCHANGED <<session, control, threads, reader, writer>>
Control(pc) == control' = [NoCall EXCEPT !.pc = pc]

(* A call in flight upon an object that was released under it. *)
LosesReader(r) == threads[r].pc = "reading" /\ threads[r].reader \in session.freed
LosesDecoder == writer.pc = "feeding" /\ writer.dec \in session.freed

(* That, or a call upon none, or a thread whose session is no more. *)
Gone ==
    \/ \E r \in Runs :
         \/ LosesReader(r)
         \/ threads[r].pc = "reading" /\ threads[r].reader = 0
         \/ threads[r].pc = "encoding" /\ ~session.enc
    \/ LosesDecoder \/ (writer.pc = "feeding" /\ writer.dec = 0)
    \/ ~IsOpen /\ Live # {}

-----------------------------------------------------------------------------
(* cleona_video_open *)

OpenFails ==
    /\ ~IsOpen
    /\ \/ \E code \in {"invalid", "unsupported", "backend"} : Returns("open", code)
       \/ \E req \in Requests : ByBudget(req, 0) = Unachievable /\ Returns("open", "unachievable")
    /\ UNCHANGED <<session, control, threads, reader, writer>>

(* The camera's own type, not the one asked for, is what a duplex session is
   opened with. *)
Open(req, decodeOnly) ==
    /\ ~IsOpen /\ Idle /\ session.runs < MaxRuns
    /\ \E cfg \in ByBudget(req, 0), native \in {r.geo : r \in Requests} :
         session' = [Closed EXCEPT
           !.state = "open", !.runs = session.runs, !.decodeOnly = decodeOnly,
           !.cfg = IF decodeOnly THEN cfg ELSE [cfg EXCEPT !.geo = native],
           !.capture = ~decodeOnly, !.reader = IF decodeOnly THEN 0 ELSE 1,
           !.enc = ~decodeOnly, !.dec = 2, !.made = 2]
    /\ Returns("open", "ok")
    /\ UNCHANGED <<control, threads, reader, writer>>

-----------------------------------------------------------------------------
(* wv_apply_reconfig.  Of a new geometry a session that decodes makes its
   decoder anew; one that captures a reader, an encoder and a decoder, and
   when one fails those before it are new and itself is none.  The old
   reader is not released, the old decoder is.  (The encoder is taken to have
   the interface that forces a keyframe.) *)
NewReader(s) == [s EXCEPT !.reader = s.made + 1, !.made = @ + 1]
NoDecoder(s) == [s EXCEPT !.dec = 0, !.freed = @ \cup ({s.dec} \ {0})]
NewDecoder(s) == [NoDecoder(s) EXCEPT !.dec = s.made + 1, !.made = @ + 1]

Takes(cfg, s) == [s EXCEPT !.cfg = cfg]

(* Each outcome: the session after it, and whether the change was made. *)
Applied(cfg) ==
    LET s == session IN
    IF cfg.geo = s.cfg.geo \/ (Duplex /\ s.reader = 0)
      THEN {<<Takes(cfg, s), "ok">>}
    ELSE IF s.decodeOnly
      THEN {<<Takes(cfg, [NewDecoder(s) EXCEPT !.awaiting = TRUE]), "ok">>,
            <<NoDecoder(s), "backend">>}
    ELSE {<<[s EXCEPT !.reader = 0], "backend">>,
          <<s, "backend">>,
          <<[NewReader(s) EXCEPT !.enc = FALSE], "backend">>,
          <<NoDecoder([NewReader(s) EXCEPT !.enc = TRUE]), "backend">>,
          <<Takes(cfg, [NewDecoder(NewReader(s)) EXCEPT !.enc = TRUE, !.force = TRUE]), "ok">>}

MayMake == session.made + 2 <= MaxObjects

(* cleona_video_reconfigure: done at once in a session whose thread does not
   run, and asked of the thread in one whose does. *)
Reconfigure(req) ==
    /\ IsOpen /\ Idle /\ ~session.running /\ MayMake
    /\ \E cfg \in ByBudget(req, 0) : \E outcome \in Applied(cfg) :
         /\ session' = outcome[1]
         /\ Returns("reconfigure", outcome[2])
    /\ UNCHANGED <<control, threads, reader, writer>>

ReconfigureFails ==
    /\ Idle
    /\ \/ Refuses("reconfigure", "invalid")
       \/ \E req \in Requests :
            ByBudget(req, 0) = Unachievable /\ Refuses("reconfigure", "unachievable")

ReconfigureAsks(req) ==
    /\ IsOpen /\ Idle /\ session.running
    /\ \E cfg \in ByBudget(req, 0) :
         session' = [session EXCEPT !.asked = cfg, !.pending = TRUE, !.done = FALSE]
    /\ Control("asking")
    /\ UNCHANGED <<threads, reader, writer, last>>

(* The thread's answer, or none in time: what was asked stays to be done. *)
ReconfigureEnds ==
    /\ control.pc = "asking"
    /\ Control("idle")
    /\ IF session.done
         THEN Returns("reconfigure", session.result) /\ session' = [session EXCEPT !.done = FALSE]
         ELSE Returns("reconfigure", "backend") /\ UNCHANGED session
    /\ UNCHANGED <<threads, reader, writer>>

-----------------------------------------------------------------------------
(* Start, stop, close *)

Start ==
    /\ Idle /\ session.state = "open" /\ session.runs < MaxRuns
    /\ session' = [session EXCEPT
         !.state = "running", !.runs = @ + 1, !.stop = "unset", !.force = TRUE,
         !.awaiting = TRUE, !.base = NoBase]
    /\ IF session.decodeOnly
         THEN Returns("start", "ok") /\ UNCHANGED control
         ELSE Control("starting") /\ UNCHANGED last
    /\ UNCHANGED <<threads, reader, writer>>

StartMakesThread ==
    /\ control.pc = "starting"
    /\ threads' = [threads EXCEPT ![session.runs].pc = "top"]
    /\ session' = [session EXCEPT !.running = TRUE]
    /\ Control("idle")
    /\ Returns("start", "ok")
    /\ UNCHANGED <<reader, writer>>

StartMakesNone ==
    /\ control.pc = "starting"
    /\ session' = [session EXCEPT !.state = "open", !.stop = "none"]
    /\ Control("idle")
    /\ Returns("start", "backend")
    /\ UNCHANGED <<threads, reader, writer>>

StartFails ==
    /\ Idle /\ IsOpen
    /\ Refuses("start", IF Running THEN "state" ELSE "backend")

Stop ==
    /\ Idle /\ Running
    /\ session' = [session EXCEPT !.state = "open", !.running = FALSE, !.stop = "set"]
    /\ Control("joining")
    /\ UNCHANGED <<threads, reader, writer, last>>

StopIsIdle == Idle /\ session.state = "open" /\ Refuses("stop", "ok")

(* The thread has ended, or the wait for it has. *)
StopJoins ==
    /\ control.pc = "joining"
    /\ session' = [session EXCEPT !.stop = "none"]
    /\ Control("clearing")
    /\ UNCHANGED <<threads, reader, writer, last>>

(* Mutation: what the ring holds is kept for the next start. *)
ClearedKeeping(s) == [s EXCEPT !.awaiting = TRUE]

Cleared(s) == [s EXCEPT !.ring = <<>>, !.awaiting = TRUE]

StopClears ==
    /\ control.pc = "clearing"
    /\ session' = Cleared(session)
    /\ Control("idle")
    /\ Returns("stop", "ok")
    /\ UNCHANGED <<threads, reader, writer>>

(* No other call is in flight.  close stops first; a thread that outlived
   the wait has the session freed under it. *)
Close ==
    /\ Idle /\ session.state = "open"
    /\ reader.pc = "out" /\ writer.pc = "out"
    /\ session' = [Closed EXCEPT !.runs = session.runs]
    /\ reader' = NoRead
    /\ Returns("close", "ok")
    /\ UNCHANGED <<control, threads, writer>>

-----------------------------------------------------------------------------
(* wv_capenc_thread_proc *)

Thread(r, values) == threads' = [threads EXCEPT ![r] = values]

ThreadEnds(r) ==
    /\ threads[r].pc = "top" /\ session.stop = "set"
    /\ Thread(r, NoThread)
    /\ UNCHANGED <<session, control, reader, writer, last>>

(* What the thread goes on to, by what it has read under the lock. *)
Captures(t) ==
    IF t.on THEN [t EXCEPT !.pc = "reading", !.reader = session.reader]
    ELSE [NoThread EXCEPT !.pc = "top"]

ThreadLooks(r) ==
    LET seen == [NoThread EXCEPT
          !.pending = session.pending, !.req = session.asked,
          !.want = session.force, !.on = session.capture] IN
    /\ threads[r].pc = "top" /\ session.stop # "set"
    /\ Thread(r, IF seen.pending THEN [seen EXCEPT !.pc = "applying"]
                 ELSE IF seen.want /\ session.enc THEN [seen EXCEPT !.pc = "forcing"]
                 ELSE Captures(seen))
    /\ UNCHANGED <<session, control, reader, writer, last>>

ThreadApplies(r) ==
    /\ threads[r].pc = "applying" /\ MayMake
    /\ \E outcome \in Applied(threads[r].req) :
         /\ session' = outcome[1]
         /\ Thread(r, [threads[r] EXCEPT !.pc = "answering", !.rc = outcome[2]])
    /\ UNCHANGED <<control, reader, writer, last>>

(* Whatever was asked meanwhile counts as done. *)
ThreadAnswers(r) ==
    /\ threads[r].pc = "answering"
    /\ session' = [session EXCEPT !.result = threads[r].rc, !.pending = FALSE, !.done = TRUE]
    /\ Thread(r, [NoThread EXCEPT !.pc = "top"])
    /\ UNCHANGED <<control, reader, writer, last>>

ThreadForces(r) ==
    /\ threads[r].pc = "forcing"
    /\ session' = [session EXCEPT !.force = FALSE]
    /\ Thread(r, Captures(threads[r]))
    /\ UNCHANGED <<control, reader, writer, last>>

(* ReadSample: a picture, or none and the loop goes on. *)
ThreadReads(r) ==
    /\ threads[r].pc = "reading"
    /\ \E pc \in {"encoding", "top"} : Thread(r, [NoThread EXCEPT !.pc = pc])
    /\ UNCHANGED <<session, control, reader, writer, last>>

(* Mutation: a full ring takes one more. *)
PushedGrows(ring, frame) == Append(ring, frame)

(* wv_ring_push_locked: a full ring loses its oldest frame. *)
Pushed(ring, frame) ==
    Append(IF Len(ring) = RingFrames THEN Tail(ring) ELSE ring, frame)

(* ProcessInput and wv_drain_encoder: the encoder, which is Windows', makes a
   frame of what it was fed or waits for more.  Which are keyframes is left
   out.  The clock of the samples is a count of the frames, taken to go on
   from one reader to the next; a timestamp counts from the first frame since
   the start, and a frame too large is such a first frame too. *)
ThreadEncodes(r) ==
    /\ threads[r].pc = "encoding"
    /\ \/ UNCHANGED session
       \/ /\ session.encoded < MaxFrames
          /\ \E size \in Sizes :
               LET base == IF session.base = NoBase THEN session.encoded ELSE session.base
                   frame == Frame(FALSE, size, session.encoded - base, session.runs)
                   fits == size <= session.cfg.ceiling IN
               session' = [session EXCEPT
                 !.encoded = @ + 1, !.base = base,
                 !.dropped = IF fits THEN @ ELSE @ + 1,
                 !.ring = IF fits THEN Pushed(@, frame) ELSE @]
    /\ Thread(r, [NoThread EXCEPT !.pc = "top"])
    /\ UNCHANGED <<control, reader, writer, last>>

-----------------------------------------------------------------------------
(* cleona_video_read_encoded: looks at the ring, and between two looks waits
   for its event or for its time. *)
ReadBegins(cap) ==
    /\ IsOpen /\ reader.pc = "out"
    /\ reader' = [reader EXCEPT !.pc = "in", !.cap = cap]
    /\ UNCHANGED <<session, control, threads, writer, last>>

ReadReturns(code, frame) ==
    /\ reader' = [reader EXCEPT !.pc = "out", !.cap = 0, !.frame = frame]
    /\ Returns("read", code)
    /\ UNCHANGED <<control, threads, writer>>

ReadClosed ==
    /\ reader.pc = "in" /\ ~Running
    /\ ReadReturns("closed", reader.frame)
    /\ UNCHANGED session

ReadTakes ==
    /\ reader.pc = "in" /\ Running /\ Duplex /\ session.ring # <<>>
    /\ IF Head(session.ring).size > reader.cap
         THEN ReadReturns("too_small", reader.frame) /\ UNCHANGED session
         ELSE /\ ReadReturns("frame", Head(session.ring))
              /\ session' = [session EXCEPT !.ring = Tail(@)]

ReadTimesOut ==
    /\ reader.pc = "in" /\ Running
    /\ session.decodeOnly \/ session.ring = <<>>
    /\ ReadReturns("timeout", reader.frame)
    /\ UNCHANGED session

(* cleona_video_submit_encoded: admitted under the lock, fed without it, and
   counted under it again, whatever happened to the session meanwhile. *)
SubmitFails(unit) ==
    /\ writer.pc = "out"
    /\ \/ ~Running /\ Refuses(Submits(unit), "state")
       \/ Running /\ unit.claims # IsKey(unit) /\ Refuses(Submits(unit), "decode")

Submit(unit) ==
    /\ writer.pc = "out" /\ Running /\ unit.claims = IsKey(unit)
    /\ IF session.awaiting /\ ~IsKey(unit)
         THEN Returns(Submits(unit), "awaiting") /\ UNCHANGED writer
         ELSE /\ writer' = [pc |-> "feeding", dec |-> session.dec, call |-> Submits(unit),
                          run |-> session.runs]
              /\ UNCHANGED last
    /\ UNCHANGED <<session, control, threads, reader>>

SubmitEnds ==
    /\ writer.pc = "feeding"
    /\ writer' = NoSubmit
    /\ \/ Returns(writer.call, "decode") /\ UNCHANGED session
       \/ Returns(writer.call, "accepted") /\ session' = [session EXCEPT !.awaiting = FALSE]
    /\ UNCHANGED <<control, threads, reader>>

-----------------------------------------------------------------------------
(* The other calls *)

GetTexture ==
    \/ Refuses("texture", IF Running THEN "unsupported" ELSE "state")
    \/ Running /\ Refuses("texture", "ok")

RequestKeyframe ==
    /\ Idle
    /\ IF Running /\ Duplex
         THEN /\ session' = [session EXCEPT !.force = TRUE]
              /\ Returns("keyframe", "ok")
              /\ UNCHANGED <<control, threads, reader, writer>>
         ELSE Refuses("keyframe", IF Running THEN "unsupported" ELSE "state")

SetCapture(on) ==
    /\ IsOpen /\ Idle
    /\ session' = IF session.decodeOnly THEN session ELSE
         [session EXCEPT !.capture = on, !.force = @ \/ (on /\ ~session.capture)]
    /\ Returns("capture", IF on THEN "on" ELSE "off")
    /\ UNCHANGED <<control, threads, reader, writer>>

SwitchFails ==
    /\ Idle
    /\ Refuses("switch", IF Running THEN "unsupported" ELSE "state")

(* cleona_video_switch_camera: the old reader is released first, whatever the
   thread does with it. *)
WithoutReader(s) == [s EXCEPT !.reader = 0, !.freed = @ \cup ({s.reader} \ {0})]

SwitchTearsDown ==
    /\ Idle /\ Running /\ Duplex /\ MayMake
    /\ session' = WithoutReader(session)
    /\ Control("switching")
    /\ UNCHANGED <<threads, reader, writer, last>>

SwitchSetsUp ==
    /\ control.pc = "switching" /\ session.made < MaxObjects
    /\ session' = NewReader(session)
    /\ Control("switched")
    /\ UNCHANGED <<threads, reader, writer, last>>

(* Not of the same size: what was just made is released again. *)
SwitchUnfit ==
    /\ control.pc = "switched"
    /\ session' = WithoutReader(session)
    /\ Control("returning")
    /\ UNCHANGED <<threads, reader, writer, last>>

SwitchFindsNone ==
    /\ control.pc = "switching"
    /\ Control("returning")
    /\ UNCHANGED <<session, threads, reader, writer, last>>

(* The old camera is opened again, and nobody looks whether it was. *)
SwitchGoesBack ==
    /\ control.pc = "returning"
    /\ \E s \in {NewReader(session), session} : s.made <= MaxObjects /\ session' = s
    /\ Control("idle")
    /\ Returns("switch", "unsupported")
    /\ UNCHANGED <<threads, reader, writer>>

SwitchEnds ==
    /\ control.pc = "switched"
    /\ session' = [session EXCEPT !.force = TRUE]
    /\ Control("idle")
    /\ Returns("switch", "ok")
    /\ UNCHANGED <<threads, reader, writer>>

-----------------------------------------------------------------------------
(* What a caller has seen of a session. *)
State ==
    CASE control.pc = "starting" -> "starting"
      [] control.pc \in {"joining", "clearing"} -> "stopping"
      [] OTHER -> session.state

Lifecycle ==
    \/ OpenFails \/ Start \/ StartMakesThread \/ StartMakesNone \/ StartFails
    \/ Stop \/ StopIsIdle \/ StopJoins \/ StopClears \/ Close
    \/ \E req \in Requests, decodeOnly \in BOOLEAN : Open(req, decodeOnly)

Changes ==
    \/ ReconfigureFails \/ ReconfigureEnds
    \/ \E req \in Requests : Reconfigure(req) \/ ReconfigureAsks(req)

CaptureThread(r) ==
    \/ ThreadEnds(r) \/ ThreadLooks(r) \/ ThreadApplies(r) \/ ThreadAnswers(r)
    \/ ThreadForces(r) \/ ThreadReads(r) \/ ThreadEncodes(r)

Reading ==
    \/ ReadClosed \/ ReadTakes \/ ReadTimesOut
    \/ \E cap \in Buffers : ReadBegins(cap)

EncodeSide ==
    \/ RequestKeyframe \/ SwitchFails \/ SwitchTearsDown \/ SwitchSetsUp
    \/ SwitchUnfit \/ SwitchFindsNone \/ SwitchGoesBack \/ SwitchEnds
    \/ \E on \in BOOLEAN : SetCapture(on)

DecodeSide ==
    \/ GetTexture \/ SubmitEnds
    \/ \E unit \in AccessUnits : Submit(unit) \/ SubmitFails(unit)

Next ==
    /\ ~Gone
    /\ \/ Lifecycle \/ Changes \/ Reading \/ EncodeSide \/ DecodeSide
       \/ \E r \in Runs : CaptureThread(r)

Spec == Init /\ [][Next]_windowsVars
=============================================================================
