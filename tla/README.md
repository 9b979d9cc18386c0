# Cleona Chat: formal models

TLA+ modules for the parts of Cleona Chat whose correctness depends on the
order in which things happen: the way of a message in the Dart code of the
delivery layer, and the native sessions of voice and video that calls run on.
Every definition follows the code under `src/`; `PROJECT.json` maps each one to the lines it models. TLC checks the
models on small instances, TLAPS proves the theorems for every value of the
constants.

Contents: 1 the system, 2 the plan, 3 the modules, 4 the runs, 5 fairness,
6 the proofs, 7 what the checks found, 8 what is not modelled.

## 1. The system

A node carries the messages of one or more identities over a network of
neighbours; there are no servers. `src/mycelium/lib` is the delivery layer,
`src/lib/core` the application above it. One Dart isolate runs the layer: code
between two `await`s is atomic, and everything else (timers, packets, ends of
futures, calls of the application) interleaves.

| Component (files in `mycelium/lib` unless named) | State | Operations | Talks to |
|---|---|---|---|
| outbound (`mailbox_outbound`, `mailbox_in_transit`, `history`, `message`) | history records (durable); Outbounds, notes, edges passed (memory) | send, edge, placing's end, receipt, check every 200 ms, forget, start | ladder, placing, application |
| ladder (`ladder`, `node_step_four`, `node_deposit`) | shipments, one per message | ship, end, acknowledge; four steps at once | shell, forwarding, placing |
| placing (`post_box_place`, `post_box_runs`, `post_box_holders`) | deposit runs: asked, reserve, receipts, ends | deposit, `0x31`, `0x37`, end of a request, close | holders through silence |
| holder (`post_box_holder`, `post_box_hand_out`, `post_box_disk`) | entries per day value, open tasks, proofs, hand-outs | `0x30`, `0x32`, `0x36`, delete, ageing, restart | depositors, collectors |
| collector (`post_box_collect`, `node_collect_*`) | conversations per holder, in a row | collect, `0x35`, `0x33`, `0x34`, `0x37`, quiet period | holders, inbound |
| silence (`silence`) | one running request; rounds of a conversation | ask, answered, failed | everything that waits for an answer |
| inbound (`mailbox_inbound`, `node_receipt`, `history_store`) | received identifiers (durable); receipts given at this edge | accept, mark, hold a receipt back | application, ladder |
| flow (`split`, `split_flow`) | per hop: running, waiting, kept transmission | send, end mark, request, quiet | shell |
| shell (`shell*`) | links and handshakes per hop | send, handshake, roam, give up | socket |
| forwarding (`forward*`, `code_*`) | code table, loop guard, ways back | `0x20` to `0x23`, register, move | neighbours, ladder |
| first contact (`first_contact*`, `invitation*`) | invitations, requests, pairs | five packets, redeem, revoke | memory, application |
| keys (`pair`, `day_key_notice`, `mailbox_rotation`) | pairs, day keys given | rotate, give notice, adopt | outbound (an edge), post box |
| neighbourhood (`neighbourhood*`, `keep_alive*`, `neighbours*`) | at most 32 nodes, their addresses and stamps | confirm, failed use, join, refill | silence, ladder |
| board, outside, joining, cover, readiness | small tables, measurements | questions and answers | neighbours |
| lane 3 (`bulk_*`), lane 2 (`stream_*`), durable objects (`durable_*`, `channel_*`), update (`update_*`) | pieces, chains, partial files | place, hold, fetch, check | post box, flow |
| voice backends (`src/native/cleona_voice`) | one session: format, buffers, mutes, routes, events, threads | open, start, stop, close, read, write, mute, route, poll | the platform's audio, the calls of the application through FFI |
| video backends (`src/native/cleona_video`) | one session per direction: configuration, encoder, decoder, ring | open, reconfigure, start, stop, close, read, submit, keyframe, camera | camera, codec, the calls of the application through FFI |
| application (`lib/core/service`, `crypto`, `calls`, `link`, `storage`, `sync`, ...) | encrypted stores, service state | user operations, calls, rotation, devices | delivery layer through the seam |

What makes the behaviour hard: the four steps of the ladder run at once and
end in any order; a placing takes seconds and an edge (a key change, a new
address, a start) may come in between; receipts come late, twice or to a
process that has restarted; a holder answers from another address than the
one asked; hand-outs run while entries age, are deleted and asked for again.
The native sessions are called from several threads at once, and the platform
calls back into them: a read blocks while another thread stops the session, a
device vanishes while a route is switched, a listener arrives at a session that
has been closed, a capture thread works with a camera that is being exchanged.

What makes each part correct, the properties this project is after:

* outbound: nothing is lost while it could still be delivered, nothing is sent
  that is settled, the state shown never lies about what happened, every edge
  and every receipt takes effect;
* placing: placed means two copies at two nodes, no candidate is skipped, no
  run is left open;
* holder and collector: what is deleted was taken, what is held is handed out
  in the same edge, no conversation waits forever;
* voice and video: every backend keeps the one contract of its header, whatever
  thread calls when; no call hangs, no buffer or queue outgrows its array,
  nothing recorded is leaked over a mute or a stop, no frame is lost silently,
  a keyframe comes when one is owed, no platform object is used once released;
* inbound: once upwards, every copy receipted, nothing receipted that is lost;
* flow: one transmission per hop, its end is its own, nothing waits forever;
* forwarding: a code keeps its device until it expires, no loops, bounds hold.

## 2. The plan

| # | Module | Of | Abstract specification | Proofs |
|---|---|---|---|---|
| 1 | `MailboxOutbound` | outbound, ladder | `DeliveryStates` | all safety, the refinement |
| 2 | `PostBoxPlacing` | placing, `Silence.ask` | - | all safety |
| 3 | `PostBoxHolder`, `PostBoxCollector`, `PostBoxCollection` (over `PostBoxWire`) | holder, collector, both over a network | - | deletions, rows, repeated proofs |
| 4 | `VoiceSession`, `VoiceLinux`, `VoiceWindows`, `VoiceApple`, `VoiceAndroid`, `VoiceMock`, `VoiceBackends` | voice backends | `VoiceABI` | the guard, the render thread |
| 5 | `VideoSession`, `VideoLinux`, `VideoWindows`, `VideoMock`, `VideoBackends` | video backends | `VideoABI` | the camera's guard, the ceiling, keyframes |
| 6 | `Inbound` | inbound, receipts | once upwards | once upwards |
| 7 | `SplitFlow` | flow | - | one per hop |
| 8 | `CodeTable`, `Forwarding` | forwarding | code to device map | first registration keeps |
| 9 | `KeyRotationRetry`, `CallArbitration`, `AtomicJsonWriter`, first contact, lane 3, neighbourhood | application, others | where stated by the docs | where few lemmas do |

Order: the way of a message from the sender (1, 2) over the holder (3), the
native sessions (4, 5), where threads meet, then the recipient and its receipt
(6), then what carries the packets (7, 8), then the rest. 1 to 5 are built. Modules to be proved about use no recursive operators; every parameter is
a constant with a named assumption. Runs use one or two messages, two peers or
holders and one or two repeats: the hazards are about two things crossing, and
each needs at most two of a kind.

## 3. The modules

### MailboxOutbound (with DeliveryStates, MCMailboxOutbound)

One action is one turn of the event loop.

| Model | Code |
|---|---|
| `state`, `content`, `instant`, `placedAt` | the fields of a `HistoryEntry`, durable |
| `out`, `withoutRoute` | the `Outbound` noted in `inTransit` |
| `shipment`, `deposit`, `late` | `Node._shipments[hex]` and `Shipment.placed`; the deposit of its step 4; deposits of shipments that were ended and still run |
| `edgePassed` | `_edgePassed` |
| `sending` | the identity of the shipment (`identical(now, running)`) |
| `Send`, `Edge`, `KeysChange`, `Start` | `send`; `giveUpAgain` from `atEdge`, from a rotation with `reseal`, from `Host.start` |
| `Placed`, `LatePlaced`, `NotPlacedEnds`, `LateNotPlaced` | `_placingEnded` for the shipment on the ladder and for a superseded one |
| `Receipt`, `ReceiptLate`, `StateCheck` | `_receiptCame`, `_myceliumReceiptLate`, `stateCheck` |
| `Forget`, `Crash` | `forget`; the end of the process |

The ladder is reduced to its outcome: a dispatch is carried by a step other
than the post box or not (`carries`), and its post box step starts a deposit or
not (`places`); both are chosen freely, so the model covers every route,
address and neighbourhood. `route` says only whether a peer has any address.
Four variables (`left`, `carried`, `placedKeys`, `owed`) record history for the
properties; no code action reads them except that a receipt needs a packet
that left.

Choices a reader should know: `Forget` concerns open records with content, as
`_myceliumForget` selects them. A record closed as failed does not end its
shipment, and a receipt that its Outbound still awaits turns it to delivered;
`DeliveryStates` allows that move because the code makes it. Group pairs, pair
notices and edits of a kept copy are left out: they take the same path with
another history.

`DeliveryStates` is what the user is promised (`ARCHITECTURE.md` 9.1, 9.3): a
record rests, is in transit, delivered or failed; it never goes back from in
transit, only one that rests fails, delivered and forgotten are final, a placing is
that of an open record. `Promise == INSTANCE DeliveryStates` maps `state` and the messages with
a placing. The outbound does not keep 9.1 altogether: `LifecycleKept` says that
every step is one `DeliveryStates` allows or `GivenUpInTransit`, the deadline
that gives up a message a way carried; `outbound_carried_fails` shows that this
step is taken (section 7).

### PostBoxPlacing (with MCPostBoxPlacing)

| Model | Code |
|---|---|
| `runs`, `older` | `_deposits`, in insertion order |
| `computing` | a run whose proof of work is being computed (`sentAt` null) |
| `candidates`, `reached` | `asked` followed by `reserve`; how many of them are asked |
| `acknowledged`, `ended`, `answers`, `answered`, `result` | the fields of `DepositRun` |
| `tried` | the address `Silence.ask` is at |
| `Deposit`, `Computed`, `ComputeFails` | `deposit` up to, after and around its `await` |
| `Acknowledged`, `Refused` | `acknowledged` (`0x31`), `refused` (`0x37`) |
| `NextAddress`, `RequestEnds` | `Silence.ask` going on; `_transmissionEnded` with `_giveWay` |
| `HolderTakes`, `HolderDeclines` | the holder's answers to `0x30` |
| `MessageReceipted`, `Close` | `Shipment.acknowledged`; `close` |

The network is three sets that only grow (`wire`, `took`, `declined`): a packet
may be delivered any number of times, in any order, or never. A node may stand
behind two addresses (`NodeOf`), and the neighbourhood may know the other one
(`KnownOthers`). Candidates are distinct addresses (`depositHolders` removes
duplicates). The repeats at one address are one step: they differ only in
time. A holder that took an entry never declines it. The count of the refusals
that a request survives is not kept: a request may end at any time after it
was answered or its last address was tried. Whether a run is finished is asked
after giving way as well (`EndsWith`): the replacement may have acknowledged an
earlier sending of the same deposit already.

### PostBoxCollection (with PostBoxWire, PostBoxHolder, PostBoxCollector, MCPostBoxCollection)

`PostBoxHolder` and `PostBoxCollector` are the two roles, `PostBoxWire` the
packets between them; `PostBoxCollection` puts them together.

| Model | Code |
|---|---|
| `held`, `tasks`, `proven` | `_storage`, `_tasks`, `_proven` |
| `handOut`, `again` | the running `_handOut` of a value (the copy's rest, the number that came), `_again` |
| `Deposit`, `OnCollect`, `OnProof`, `OnDelete` | `onDeposit`, `onCollect`, `onProof`, `onDeleteReceipt`; `RefusedProof` the refusals of `onProof` |
| `HandOutNext`, `HandOutEnds` | the turn after an `await` of `_handOut`; its end with `whenComplete` |
| `rows`, `late`, `end` | `_rows`, `_late`, `Conversation.end` |
| `random`, `expected`, `handed`, `fresh`, `rounds` | the fields of `Conversation`; `fresh` is `progress` different from `progressAtRequest` |
| `seen` | `CollectionRun.seen` (and `taken`, unless the run keeps) |
| `Collect`, `EndOf`, `Quiet`, `Unreachable`, `Close` | `collect`, `_end`, `_quiet`, the end of a send, `close` |
| `Named`, `Asking` | `_from`, `_asking` |
| `OnTask`, `OnPiece`, `OnNothing`, `OnRefusal` | `onTask`, `onHereItIs`, `onNothingThere` for `0x34` and `0x37` |

The network is two sets that only grow: the shell keeps no protection against
replay, so a packet arrives any number of times, in any order, or never. A
request carries a fresh identifier each time, but all of them name the
conversation, so packets carry the run instead. A task carries a number instead
of a random value. Signatures are represented by what they bind: a deletion
names the entry and the task. Entries age from the oldest, at a deposit, a
hand-out or a start, as `_purge` removes them. A hand-out may end after any
piece (the collector is silent to it, `HandOutSilence`, or unreachable); the
tally that decides when is not kept. `missing`, `handOuts` and `returned` record
history for the properties.

Left out: the public manifest compartment (read, never deleted), the choice of
holders and values of a round, the counting of failed addresses, and other
collectors, except that their questions may push out a task or a proof
(`TaskExpires`, `ProofExpires`).

### VoiceBackends (with VoiceSession, VoiceLinux, VoiceWindows, VoiceApple, VoiceAndroid, VoiceMock, VoiceABI, MCVoice)

`cleona_voice.h` is one contract with five backends here, one module each over
`VoiceSession`, which holds what they share (routes, the event queue, buffers).
`VoiceBackends` starts a process with one of them and states what must hold of
each; `VoiceABI` is the contract, and `KeepsTheABI` says every backend
implements it (`State` and `Read` of each module are the refinement mapping).

| Model | Code |
|---|---|
| `session` | `struct cleona_voice_session` of the backend; on Android the fields of `VoiceSession`, `gen` being `generation`, `gone` `deviceLost` |
| `stage` | where the control thread is: in which step of `open`, or in the middle of `start`, `stop`, `close`, `set_route` where a backend leaves its lock there |
| `reader`, `last` | the call of the thread that reads frames; the latest result of any call |
| `guard` (Linux) | `g_session_active` |
| `thread` (Windows, Apple, Android) | the render thread; CoreAudio's property listener; for each start its two loops and its watcher of the routes, and the call that writes |
| `live` (Apple) | `cva_live_tab` |
| `world` | what the platform holds: formats, endpoints, packets, what the clock says is due |
| `lost` | history: times the buffers before and after show that samples were lost |

What lies between two releases of the session's lock is one step. `open` on
Linux is a step per thing PipeWire may refuse, since its callbacks run
meanwhile; on Windows and Apple its parts nobody else can see are one step.
Samples are units that carry what was heard (speech, speech while muted,
silence) and after which start; a frame is `FrameUnits` of them. Callbacks
deliver or take any number of units up to one more than a frame, so that a
frame boundary falls within, at and beyond a callback's end. `Close` requires
that no read is in flight, which `cleona_voice.h` asks of the caller.

On Android `cleona_voice_android.c` passes each call on to `VoiceSession.kt`.
Its lock does not cover the two loops, reads, writes and the watcher, so each of
their looks at a flag and each turn at a ring is a step. `StopEnds` does not ask
whether the threads have ended: the join is bounded, so a thread of an earlier start
may still be in `AudioRecord.read` under a later one, and `StartPlays` and
`StartCounts` are two steps because a thread may look between `running` and
`generation`. Assumed of the platform: a recorder keeps nothing over a stop, and a
watcher that was told keeps its task after it is unregistered (`quitSafely`).

### VideoBackends (with VideoSession, VideoLinux, VideoWindows, VideoMock, VideoABI, MCVideo)

The same for `cleona_video.h`, with three backends. `VideoSession` has the
configurations and how they are negotiated (`ByBudget`, `ByEstimate`), frames
and access units.

| Model | Code |
|---|---|
| `session`, `reader`, `last`, `guard`, `stage` | as for voice; a second Linux session (`session2`, ...) decodes a tile of a group call or competes for the camera |
| `control`, `writer` (Windows) | the calls of the control thread and of the thread that submits, in the middle |
| `threads` (Windows) | the capture thread of each start: `stop` waits three seconds for it and goes on without it |
| `reader`, `dec`, `made`, `freed` in Windows' `session` | Media Foundation's objects by number; a number in `freed` has been released |
| `owed`, `handed` | history: a keyframe is due; frames handed out |

A frame is its size, whether it is a keyframe, its timestamp and the start it was
made after; an access unit of the peer the picture it holds and what its sender
says of it. On Windows the clock of the camera's samples goes on and a timestamp
counts from the first frame encoded since the start (`base`), so timestamps
begin again with a start as the code has it. A call of the platform is a step: on Windows `ReadSample`, encoding
and `ProcessInput` happen outside the lock. Using an object that has been
released is undefined, so the model takes no step after it (`Gone`);
`video_objects` shows that such a state is reached, and what the other
properties say on Windows is said of the runs up to it.

`VideoABI` says what the header says, not what the backends do: a read answers with what the
header lists, and a keyframe taken by a submit that a stop overtook
(`outlived`) is none for the next start. `KeepsTheABI` allows two named steps
beside it, `ReadAnswersBackend` and `SubmitOutlives` (section 7); `ABI!Spec` as it
stands does not hold.

## 4. The runs

| Run | Instance | What it shows |
|---|---|---|
| `outbound` | one message, two peers, copy kept 0 days, deadline 1 day, days 0 to 2, one key change per peer | nine properties below; 193 376 states |
| `placing` | deposit `i1`, sent twice, with three addresses of two nodes as candidates; deposit `i2` that finds no holder; two holders at first, one run at a time | six properties below; 181 534 states |
| `hand_out` | one holder, two entries of one value, one run, one task; deadlines pass, the holder restarts | two properties; 304 895 states up to symmetry of the entries |
| `rows` | one entry, one late conversation kept; either two holders and one run, with ageing and unreachable holders, or two runs (one keeps) at one holder, and the node stops | five properties, with fairness; 307 440 states |
| `collection_answered` | one holder, three entries, one run | section 7 |
| `voice_sessions` | one session of one of five backends, opened any number of times, two starts; two routes; frames of two units, rings of one frame, an event queue of one | ten properties; 918 850 states |
| `voice_calls_end` | the same with one route and no mutes (no control flow depends on one), under fairness; capture and routes | one property in three parts; 60 133 states |
| `video_sessions` | one session of one of three backends, two on Linux; three requests (two that fit, one that cannot), two cameras, two starts, two frames, a ring of one frame | seven properties; 822 870 states |
| `outbound_placed_under_keys`, `outbound_carried_fails`, `collection_answered`, `voice_render_thread`, `video_objects` | smaller | a statement of the code's own comments or documents that the code does not keep (section 7) |

Why the bounds are enough. `outbound`: messages do not share state except the
loop of an edge, so one message meets every interleaving with the edges of its
own peer and of another (an edge for all peers and one for the other peer both
occur). Days: the copy period (0) and the deadline (1) are both passed and both
not yet passed within days 0 to 2, in both orders. One key change makes one
superseded deposit, and a second deposit of the same keys another, so a late
placing of either kind occurs. `placing`: two nodes are the smallest number that
can be placed, a third address makes the duplicate node and the detour, a list
longer than `DepositHolders` makes giving way, a table of one run makes the
eviction, a second sending of one id the replacement.

Properties of `outbound`: a record that could have to be sent again keeps its
content (`CopyKept`); in transit only after something carried it
(`InTransitIsCarried`); no shipment without an Outbound waiting
(`ShipmentAwaited`); nothing settled, placed or closed is dispatched, and nothing
beside its own running placing but for new keys, a first address, or the edge
that waited for that placing's end (`SentOnlyWhenDue`); placed is final
(`PlacedIsFinal`); the refinement but for one step (`LifecycleKept`); an edge that met a running placing is answered
(`EdgeAnswered`); a receipt reaches the history (`ReceiptWritten`).
Properties of `placing`: placed is two nodes that took it
(`PlacedIsTwoCopies`); no more open requests than first holders
(`ThreeAtATime`); no new holder for a deposit that is settled
(`NobodyAskedInVain`); not placed only when every candidate was asked, or as many
as were addressed acknowledged from one node, or the run was taken away, where no
refusal came (`NotPlacedIsExhausted`; refusals: section 7); every run ends (`RunEnds`).
`hand_out`: a repeated proof is noted only under a running hand-out
(`AgainOnlyWhileRunning`); a conversation answered after one hand-out, under which
nothing was deposited again, has everything (`OneHandOutIsWhole`). `rows`: what is taken is deleted at
every holder asked (`TakenIsDeletedEverywhere`); only what was taken by a
deleting run is deleted (`DeletedWasTaken`); the first of a row is asked
(`HeadIsAsked`); a silent holder's row ends (`SilenceEndsTheRow`).

Bounds of the two: `Faults` names the faults an instance has, and `site` (in
`MCPostBoxCollection`) the part of it a behaviour of `rows` is of, so that each
state space stays small; together they have all faults. Two entries make order
and deletion within a hand-out, two holders the two orders of task and piece, two
runs a waiting question and a late conversation beside an open one; one repeat
makes both a repeat and an end after it. A full row (`RowAtMost`) is not
reached with two runs. Nor do the
two reach the push-out of the oldest entry by a new one (`PerValueAtMost`):
every instance has room for all its entries. The theorems of section 6 hold
for every value of both bounds.
These specifications stop when every run has ended, so the two do not check
for deadlock.

`voice_sessions`: a sample lost is counted (`LossIsCounted`), what is said while
muted is never handed out (`MutedIsSilent`, of the two backends that silence at
the source), a frame is whole and no
start finds what was heard or written before it, but for what Android's late threads and
calls had in their hand (`StartsAfresh`), the newest news
names the present mask (`NewsIsTrue`), the one-session guard
(`GuardHeldOnlyForASession`), the render thread lives exactly as long as the
session runs (`ThreadLivesWithTheRun`), recorder, mode and watcher are on exactly
while Android's session runs (`PlatformFollowsTheRun`), the listener never works on a platform
that is gone or another's (`ListenerFindsSession`), the contract
(`KeepsTheABI`). `voice_calls_end`: `NothingHangs`: reads return, stop and
close end, Android's capture thread of an earlier start leaves.
`video_sessions`: a keyframe when one is owed (`NextFrameIsKey`), frames handed
out, waiting or counted as dropped (`NoFrameVanishes`), within the ceiling in
force (`FramesFit`), of the present start and in order, within a start or, on the
mock, within the session (`FramesInOrder`), one camera session
(`CameraGuardHeld`), the contract but for two steps (`KeepsTheABI`).

Bounds of the voice and video runs. A session's sides share little, so an
instance draws a `focus` at the start and tries one side beside the coming and
going of sessions: `capture`, `playback`, `routes`, `formats` for voice; `frames`,
`changes` (configuration and camera), `decoder`, `group` (two sessions) for
video. What an instance does not try outside a focus is stated where it is
bounded (`LinuxStep`, `WindowsStep`, `AppleStep`, `AndroidStep`, `MockStep`,
`WithinFocus`): one start for Windows'
routes and for video's changes, two starts for Windows' decoder, so that a
submit outlives one, formats that disagree only in `formats`, one
geometry in `frames`, sessions without a camera and calls refused for their
state not in `frames` and `changes`. In `decoder` Windows' session is one that
only decodes. A ring of one frame and a queue of one event are full at once;
two starts make a leftover of the first visible in the second; two routes make
a switch; two render clients the old and the new one; four objects of the platform in
`frames` the camera's reader, one for a switch, one to go back and one more
(`MaxObjects`, which bounds a switch and its way back as well, so that every state
stays within it).
Neither specification checks for deadlock: at the bounds, and when `Gone`, they
stop.


Each property has a mutant in `PROJECT.json`: a definition of the module with a
plausible mistake, under which the run finds the property violated.

## 5. Fairness

* `MailboxOutbound`: weak fairness of `StateCheck` (`Host._stateChecker`, a
  periodic timer of 200 ms) and of the end of each placing. Placings end
  because every request of the transport does: it is repeated at most three
  times and then fails (`silence.dart`, §11.3a). Edges, receipts, days and the
  return of the process are under no fairness.
* `PostBoxPlacing`: weak fairness of the computation's end and of each
  request's end, for the same reason. Answers of holders are
  under none: they may all be lost.
* `PostBoxCollection`: weak fairness of `Quiet` of each holder's row: the quiet
  period of an open question is a timer that each request and answer restarts
  (`_listen`). `SilenceEndsTheRow` therefore assumes that answers stop: an
  answer repeated for ever keeps a conversation open for ever, in the code too.
* `VoiceBackends`: weak fairness of the reading call's turns (it runs on a thread of its own
  and every wait in it has a deadline) and strong fairness of its return, since
  at its deadline it returns even if samples that arrive and are discarded keep
  interrupting the wait; weak fairness of the render thread, of
  the engine's signal of each started client (WASAPI signals each period), of
  the middle of each control call, and of Apple's listener, which
  `close` waits for. On Android weak fairness of the middle of start and stop (the
  join is bounded), and of each capture thread: the recorder's blocking read
  returns with samples, with none or with an error. Device data, routes, and the beginning of every call are
  under none. `voice_sessions` and `video_sessions` use no fairness.

## 6. The proofs

`MailboxOutboundProofs` proves, from the three named assumptions of
`MailboxOutbound` (the recipient is a peer, the periods and bounds are
naturals), for any number of messages, peers, days and keys: `TypeCorrect`,
`CopyIsKept`, `InTransitMeansCarried`, `NoShipmentLeftBehind`, `SendsAreDue`,
`PlacingStands` and `ImplementsPromise`.

The argument. A step touches many messages at once (an edge asks all records of
a peer), but each message undergoes one of ten things: it is left as it is, is
sent first, sent again, only noted, given up, its copy dropped, its placing
remembered, settled, forgotten, or its memory lost. Lemmas show that every
action is such a step for every message (`StepOf`). The inductive invariant is
the type invariant and a predicate `Fits(m)` on one message: what its record,
its Outbound and its shipment say of each other. `Fits` is stronger than the
checked invariants. `InTransitIsCarried` is not inductive alone: a dispatch
that is carried writes the record only if its Outbound was still resting, so
the record has to agree with the Outbound beforehand (an Outbound in transit
belongs to a record in transit, or to one that is closed), and a message never
sent must have left no trace. That each of the ten things preserves
`Fits` is then one small lemma per case, and the action properties and the
refinement follow from the same classification. `SendsAreDue` asks more than
that a record is open: where a message is sent beside its own running placing,
the step must replace that shipment or answer its edge, which each dispatching action
shows of itself. In the refinement, giving up a record in transit is the one
case that is no step of `DeliveryStates`; it is `GivenUpInTransit`.
`PostBoxPlacingProofs` proves `TypeCorrect`, `PlacedMeansTwoCopies`,
`NeverMoreThanFirst`, `SettledIsQuiet` and `NotPlacedLeavesNobody`, for any
deposits, addresses, nodes, candidate lists and bounds, from the assumptions
of `PostBoxPlacing`; that a list names no address twice (`DistinctAssumption`,
what `depositHolders` ensures) is needed for the last one. With respect to one deposit a step goes on, begins, asks the first holders or lets one
holder give way, and may end with that (`StepOf`). The invariant counts two sets: the open requests
(`Few`), which giving way keeps at their number, and the holders asked that have
not given way (`Standing`). That there are always as many of these as first
holders while candidates are left and nobody refused (`Replaced`) is what makes
an end without a placing exhaustive; it is in no checked property, and
`NotPlacedIsExhausted` does not follow without it.

`PostBoxCollectionProofs` proves, for any number of holders, values, entries and
runs, from the named assumptions of the four modules: `DeletionsWereTaken`,
`TakenGoesEverywhere`, `FirstOfRowIsAsked` and `NoNoteForgotten`. With respect to
deletions a step does one of three things: it sends none, it answers a task, or
it takes a piece over (`DeletesStep`). Over these, `Deleting` strengthens
`DeletedWasTaken` by the fact that a deletion never names an unanswered task:
otherwise the first task of a conversation could be mistaken for the one a
deletion was signed under. `TakenIsDeletedEverywhere` is inductive beside the
types of rows, late conversations, tasks and takings (`Shape`).
`AgainOnlyWhileRunning` needs no types but the domains.

The same module proves `CollectionIsTyped`, from the same assumptions, of which
`EntriesAssumption` (finitely many entries) is the one the count of what came
needs, and on it `OneHandOutSuffices`. The invariant of the latter, `WholeInv`,
has five parts:

* `TasksAgree`: a holder's task number has one run to itself, and a proof is sent
  under the task its conversation answered. So the run a hand-out is for has a task, and
  before a conversation has its task nothing was handed out to it.
* `HandsOutOrderly` and `TalksOrderly`: what was sent under a value, what a running
  hand-out has yet to reach, and what a conversation counted are entries of that value,
  and what it counted was sent.
* `Announces`: while a value is handed out once, each piece announces at least as many as
  there are entries sent before, still ahead in the hand-out, or missing. The
  entries ahead are the ones the property does not mention; without them a new
  piece could say nothing of those that follow it.
* `Complete`: when as many came as a piece announced, none is missing. What
  came is part of what the piece announced and no smaller, so it is all of it
  (`AllCame`, from the theorems on finite sets).

To one value a holder does one of three things: nothing (`Calm`), it begins a
hand-out (`Begins`), or the next piece leaves (`Continues`); the lemmas `...Views`
show it of every action, and `AnnouncesCalm`, `AnnouncesBegins` and
`AnnouncesContinues` that each keeps `Announces`. To what is counted the
collector does one of four (`CountsStep`, and a refusal).

`VoiceBackendsProofs` proves, for any routes, rates and bounds:

* `GuardIsTheSessions`. With respect to the guard a step of the PipeWire session
  does one of four things (`GuardStep`), each of the twelve steps of `open`
  included; the property is inductive over them.
* `ThreadIsTheRuns`. `ThreadFits` adds to the property what each call needs to
  know of the others: that the stop event exists once the session is open, is
  not set while the session runs, and that a thread being joined belongs to a
  session that no longer runs. Most steps leave all of this alone
  (`RunUntouched`).

The rest of it, `VoiceBuffersProofs` and `VoiceABIProofs` prove the other safety
properties of the five voice backends, for any routes, rates and bounds, from
`BoundsAssumption` of `VoiceSession` (the sizes are positive) and
`ChunkAssumption` of `VoiceBackends` (a block of the mock has at least one sample:
`cleona_voice_mock.c:382-383`):

* `ListenerHasItsSession`. `ListenerFits` says that the table of live platforms
  holds exactly the one there is, so that a listener inside the table works on a
  live one although its call was made for another.
* `PlatformIsAsTheRun`. `PlatformFits` names for each step of start and stop what
  is on by then; `WatcherFits` follows the watcher of the first start.
* `NewestNewsIsTrue`. Pushing makes the newest event, polling takes the oldest
  (`PushedIsNewest`, `PolledKeepsNewest`); per backend the newest event is the mask the
  session holds, and that one what the endpoints are once it was told
  (`WindowsNews`, `MockNews`, and the invariants above).
* `TypeIsKept`, `LossesAreCounted`, `MutedStaysSilent` and `StartsAreFresh` follow from one
  invariant, `Fits`: whose samples each buffer holds, of which start and of
  what sound, beside its length and the counters. That samples within the
  buffers of PipeWire are of the latest start and not said aside is what makes
  the two properties about the reader's frame inductive; on Android the leftovers are
  counted twice, in hands and in rings (`HandOf`, `RingsOf`), and each step either
  moves one from a hand to a ring or adds none (`AddsNothingOld`), or begins a run
  with empty rings (`BeginsEmpty`).
* `EveryBackendKeepsTheABI` is the refinement of `VoiceABI` by each backend. Per backend
  a view says which state and which reading call a caller sees at each step of the
  control thread, and an invariant (`LinuxQuiet` and so on, joined in `CallsAgree`) how
  those steps go with the flags: a session that is not open is not running, one that is
  being started is. Each action is then shown to be a named action of the header, or
  to change nothing that is seen.

`VideoSessionsProofs` and `VideoBackendsProofs` prove every safety property of the three
video backends, for any requests, cameras and bounds:

* `CameraIsGuarded`. With two Linux sessions the property needs that not both
  have a camera (`Guarded`): a step of either leaves guard and claim alone, claims a free
  camera or gives back its own (`ClaimStep`, `ClaimStep2`).
* `SessionsAreTyped`, `EveryFrameIsAccountedFor` and `FramesKeepTheirOrder` follow from one
  invariant, `FramesFitIn`: beside the types, that what was dropped and what waits
  are no more than what was encoded; that what waits is of this start and later
  than what was read; that the time of a session is later than both. Later means a
  later start, or a later timestamp of the same (on the mock, a later timestamp). On Windows
  (`WindowsFits`) the frames of the ring are in this order, below what the
  next frame would get (`encoded` less `base`), each of a thread that is there, except between the end of a thread and the end of the stop that waited
  for it (`RingFits`); that needs which state each step of a control call finds
  (`CallFits`: only `stop` sets the event, a thread runs only in a session with a camera)
  and what each thread knows (`ThreadsFit`). No invariant can count the frames
  lost; the proof compares the two sides of a step instead: `Balance`, what was encoded
  and neither dropped nor waits, moves only by the one frame handed out, or where
  the property allows a loss (`FrameStep`).
* `FramesAreWithinCeiling`. The frame that waits in the mock is within the
  ceiling (`FrameFits`): it was when it was made, and a ceiling that falls below
  it takes it away (`Purged`).
* `OwedKeyframesCome`. What is owed is noted in `force`, unless the session does
  not run (the next start notes it) or has no encoder (`KeyFits`). Each
  step of either backend is one of six kinds (`KeyStep`), and each kind keeps
  this and encodes what is owed (`KeyStepKeeps`).
* `EveryVideoBackendKeepsTheABI` is the refinement of `VideoABI` by each backend. A view
  per backend says what a caller sees (`LinuxView`, `WindowsView`, `MockView`); each action
  is a named action of the header, changes nothing that is seen, or is one of the two
  steps that depart from it. It needs the invariant
  above (a read in flight has a session, a change asked of Windows' thread is
  answered with a code), that of the call that submits (`WriterFits`): while a decoder
  is fed the session is not closed and the start it was admitted after is not a
  later one; and that on Linux and the mock an open session that does not run awaits a
  keyframe (`IdleWaits`).

They rest on `InstanceAssumption` and `RateAssumption` of `VideoSession`, and on
`FocusAssumption` and `PlatformAssumption` of `VideoBackends`. `RateAssumption` says that a second has at
least as many units of time as frames: the code divides a million microseconds
by the frames a second (`cleona_video_mock.c:541`, `cleona_video_linux.c:989`), and the mock
lowers those to 30 (`cleona_video_mock.c:315`), Linux to what the camera delivers. Above a
million, timestamps would stand still and the order be lost. `CameraIsGuarded`,
`OwedKeyframesCome` and those of `VoiceBackendsProofs` on the guard and the thread
rest on no assumption about the constants.

Only model-checked: the liveness properties (`EdgeAnswered`, `ReceiptWritten`,
`RunEnds`, `SilenceEndsTheRow`, `NothingHangs`), which are out
of the prover's reach, as all that rests on fairness is. Every other property of a passing
run is a theorem above, the three refinements among them (`VoiceABI`
outright, `DeliveryStates` and `VideoABI` but for the steps section 7 names).


## 7. What the checks found

Five statements of comments and documents that the code does not keep, each a
run with `expect: violation` and a finding in `PROJECT.json`:

1. `PlacedUnderKeysInForce`: the late placing of a deposit under replaced keys
   marks the record placed; no edge sends it again.
2. `AnsweredIsWhole`: pieces of two hand-outs are counted together, the number
   announced is the last one's; a conversation ends answered with an entry left
   behind. One hand-out is not enough for this (`OneHandOutSuffices`), unless an
   entry comes back ahead of it: deleted or aged out of the list and deposited
   again while the hand-out runs, it is announced by the pieces after its return and not
   by those before, and pieces out of order then end the conversation early
   (`held` in `post_box_holder.dart:340` knows an entry by its id). No run shows that
   second case, which takes four entries; it was met in the proof, and
   `OneHandOutIsWhole` excludes it by `returned`.
3. `RenderFollowsSwitch`: after a switch of the route, the WASAPI render thread
   waits for ever for the event of the client that is gone; the new one is fed
   only after a stop and a start.
4. `OwnsItsObjects`: a camera switch on Windows releases the camera's reader on
   the caller's thread while the capture thread may be reading from it.
5. `GivenUpWasNotCarried`: a message that was carried, not receipted and lies at no
   holder is closed as failed after 14 days (`mailbox_outbound.dart:274`);
   `ARCHITECTURE.md:2439` reserves that state for a message nothing carried.

Where a passing run is about such a step, or about another one that departs from
a document, its property is the document's except for that one step, which it
names: `GivenUpInTransit` in `LifecycleKept`, `ReadAnswersBackend` and
`SubmitOutlives` in `KeepsTheABI` of the video backends. The abstract specifications
themselves (`DeliveryStates`, `VideoABI`) say what the documents say, so TLC refutes
`Promise!Spec` and `ABI!Spec`.

Read in the code while modelling, and held against its comments, without a run
(each is modelled as the code does it, unless it is said to be left out):

* Outbound and placing. An edge noted for a shipment that a second edge then
  replaced makes the message leave once more at the new placing's end
  (`mailbox_outbound.dart:300`, against 172-173). A holder whose receipt came from its other
  address still gives way (`post_box_place.dart:182`, against
  `post_box_runs.dart:32-35`). A second refusal before the request's end settles
  a holder without asking the next candidate (`post_box_place.dart:264`,
  against 256-258).
* Voice. Apple's, Windows' and Android's backends silence what a read takes by the mute at
  that moment, not what was heard while muted (`cleona_voice_apple.c:792-799`,
  `cleona_voice_windows.c:1016-1042`, `VoiceSession.kt:334-343`). Apple's listener, called during `open`,
  tells of no route at all. The render thread may release the buffer of a
  client that a switch has released (`cleona_voice_windows.c:741`). The
  reference signal of Linux' echo canceller survives a stop. The mask of Linux
  never shrinks (370-387), its `open` waits for the capture format only
  (806-818), and playback at another rate is recorded and never reported. A
  started session's route may be unknown on Windows (568-583, against
  `cleona_voice.h:174-176`).
* Voice on Android (`VoiceSession.kt`). `wakeAll` wakes a waiting `take`, which finds the ring
  empty and waits on (1324-1331, against 1323, "null on timeout / wake-up"): a read
  comes back at its deadline, not at `stop`. A thread that outlived a stop and
  whose read then fails sets `deviceLost` after the next start cleared it
  (569), and reads of that start which find the ring empty answer CLOSED. The
  watcher reads the mask before it takes the lock (730), so one of an ended start may
  post an older mask after a newer. `running` is set before `generation` is
  counted (228-229): an old thread that looks between them goes round once more.
  An `open` whose global references fail does not release the recorder and the track
  (`cleona_voice_android.c:440-448`, unlike 409, 418 and 429; left out).
* Video, modelled and named in the properties. A read answers BACKEND when the
  encoder fails (`cleona_video_linux.c:1026`, `cleona_video_mock.c:649`), which
  `cleona_video.h:710-712` does not list (`ReadAnswersBackend`). A submit on Windows that was
  feeding the decoder while the session was stopped and started ends the new
  start's wait for a keyframe (`cleona_video_windows.c:1475`, against
  `cleona_video.h:683-685`; `SubmitOutlives`). Timestamps begin again with a start on
  Linux (654) and Windows (1263), against `cleona_video.h:704-705`; `FramesInOrder` asks
  for growing ones within a start.
* Video. A demand for a keyframe is spent on a frame
  that fails to be encoded or is too large (`cleona_video_linux.c:793`; the
  mock, too large). Linux measures a frame by the caller's buffer (959), and
  Windows does not purge its ring when the ceiling falls, against
  `cleona_video.h:84`. Windows' ring drops its oldest frame uncounted (844-848); a reconfiguration that timed
  out may answer the next one (1037-1044, 1237-1252), one that fails leaves
  objects missing, as on Linux one that fails twice leaves no encoder; the geometry of a duplex
  session changes without one being awaited (999); `stop` waits three seconds only.


## 8. Not modelled, and why

`PROJECT.json` lists every component with its status. Left out for good: the
interface, platform projects and generated code, wire encoding and
cryptography (sequential, tested by vectors), the cover stream's timing
(statistical), installers and HTTP. Of the native code the backends of the
phones and video on macOS (the same two contracts again, on more platforms than
one instance can hold), and the wrappers of a proof of work, of the link's
sockets and of speech recognition. Left to be done: the modules of the plan
above that have no row in section 4.

Left out within what is modelled: group pairs and edits in the outbound; the
public compartment of the post box; routes below Android 12, the route that is
active, calls for which no virtual machine can be reached; sample formats, rate conversion, echo
cancelling and the effects in a voice report; pixels, bit streams, textures, the
number of cameras, which frames Windows' encoder makes keyframes, and an encoder that
cannot be asked for one; memory that runs out inside a ring.
