--------------------------- MODULE PostBoxPlacing ---------------------------
(***************************************************************************)
(* The sender role of the post box: placing own packets with holders       *)
(* (src/mycelium/lib/post_box_place.dart, DepositRun in post_box_runs.dart,*)
(* Silence.ask in silence.dart).                                           *)
(*                                                                         *)
(* A deposit computes its proof of work, asks its first holders and counts *)
(* receipts by node; a holder whose request ends without one gives way to  *)
(* the next candidate.  Every request is one of the transport: it goes to  *)
(* the addresses of its holder in turn until one answers.  Packets may be  *)
(* lost, delayed, duplicated and reordered: what is on the way stays so.   *)
(***************************************************************************)
EXTENDS Integers, Sequences, FiniteSets

CONSTANTS
    Ids,           \* deposit ids
    Addresses,     \* address:port of holders
    Nodes,         \* node identifiers
    NodeOf,        \* the node that answers at an address
    KnownOthers,   \* per address, the other addresses the neighbourhood holds for its node
    CandidateLists, \* per id, the holders a deposit may be given, in their order
    DepositHolders, \* how many are addressed at first (kDepositHolders, 3)
    DepositsAtMost, \* runs at once (kDepositsAtMost, 1024)
    MaxSendings     \* bound of the model: deposits of each id

ASSUME NodeOfAssumption == NodeOf \in [Addresses -> Nodes]
ASSUME KnownOthersAssumption == KnownOthers \in [Addresses -> Seq(Addresses)]
ASSUME CandidatesAssumption == CandidateLists \in [Ids -> SUBSET Seq(Addresses)]
ASSUME DistinctAssumption == \* depositHolders names no address twice
    \A i \in Ids : \A s \in CandidateLists[i] :
        \A j, k \in 1 .. Len(s) : s[j] = s[k] => j = k
ASSUME BoundsAssumption ==
    DepositHolders \in Nat /\ DepositsAtMost \in Nat \ {0}
    /\ MaxSendings \in [Ids -> Nat]

Nobody == "nobody"

VARIABLES
    runs,         \* _deposits: the ids of the running deposits
    older,        \* per id: the runs that stood when its own began (the order of _deposits)
    computing,    \* runs that still compute their proof of work
    candidates,   \* per id: withWhom and reserve, in their order
    reached,      \* per id: how many of them have been asked (asked / reserve)
    acknowledged, \* per id: addresses a receipt came from
    ended,        \* per id: holders whose request has ended
    answers,      \* per id: which holder's request last went to an address
    tried,        \* per id and holder: how many of its other addresses were asked
    answered,     \* per id: holders whose request has its answer
    result,       \* per id: the result of the last deposit, fixed once
    sendings,     \* per id: deposits so far
    receipted,    \* ids of messages whose recipient has acknowledged them
    wire,         \* 0x30 that have left: <<id, address>>
    took,         \* 0x31 that have left: the holder there has stored the entry
    declined      \* 0x37 that have left

run == <<candidates, reached, ended, answers, tried, answered>>
network == <<wire, took, declined>>
vars == <<runs, older, computing, run, acknowledged, result, sendings, receipted, network>>

Packets == Ids \X Addresses

TypeOK ==
    /\ runs \in SUBSET Ids
    /\ older \in [Ids -> SUBSET Ids]
    /\ computing \in SUBSET Ids
    /\ candidates \in [Ids -> Seq(Addresses)]
    /\ reached \in [Ids -> Nat]
    /\ acknowledged \in [Ids -> SUBSET Addresses]
    /\ ended \in [Ids -> SUBSET Addresses]
    /\ answers \in [Ids -> [Addresses -> Addresses \cup {Nobody}]]
    /\ tried \in [Ids -> [Addresses -> Nat]]
    /\ answered \in [Ids -> SUBSET Addresses]
    /\ result \in [Ids -> {"open", "placed", "notPlaced"}]
    /\ sendings \in [Ids -> Nat]
    /\ receipted \in SUBSET Ids
    /\ wire \in SUBSET Packets /\ took \in SUBSET Packets /\ declined \in SUBSET Packets

Unasked == [a \in Addresses |-> Nobody]

Init ==
    /\ runs = {} /\ computing = {} /\ receipted = {}
    /\ older = [i \in Ids |-> {}]
    /\ candidates = [i \in Ids |-> <<>>]
    /\ reached = [i \in Ids |-> 0]
    /\ acknowledged = [i \in Ids |-> {}]
    /\ ended = [i \in Ids |-> {}]
    /\ answers = [i \in Ids |-> Unasked]
    /\ tried = [i \in Ids |-> [a \in Addresses |-> 0]]
    /\ answered = [i \in Ids |-> {}]
    /\ result = [i \in Ids |-> "open"]
    /\ sendings = [i \in Ids |-> 0]
    /\ wire = {} /\ took = {} /\ declined = {}

-----------------------------------------------------------------------------
(* The run has sent its 0x30 (DepositRun.sentAt). *)
Sent(i) == i \in runs /\ i \notin computing

Asked(i) == {candidates[i][k] : k \in 1 .. reached[i]}

(* Two receipts of different nodes: a node under two addresses is one copy. *)
(* Mutation: addresses are counted. *)
TwoAddresses(A) == \E a, b \in A : a # b

TwoNodes(A) == \E a, b \in A : NodeOf[a] # NodeOf[b]

(* DepositRun.complete: fixes the result once. *)
Completed(i, A) ==
    IF result[i] # "open" THEN result[i]
    ELSE IF TwoNodes(A) THEN "placed" ELSE "notPlaced"

(* The sending needs nothing more: placed, or acknowledged by its recipient. *)
Over(i) == result[i] # "open" \/ i \in receipted

(* DepositRun.finished: every asked holder has acknowledged or its request has ended. *)
(* Mutation: only the receipts count. *)
FinishedIfAcknowledged(asked, acks, ends) == asked \subseteq acks

FinishedWith(asked, acks, ends) == asked \subseteq acks \cup ends

(* _depositEnd: the run leaves with what it has. *)
Leaves(i, acks) ==
    /\ runs' = runs \ {i}
    /\ computing' = computing \ {i}
    /\ result' = [result EXCEPT ![i] = Completed(i, acks)]

(* A request to one of asked has ended or been refused: the run ends with it, or goes on. *)
EndsWith(i, asked, ends) ==
    IF FinishedWith(asked, acknowledged[i], ends)
       THEN Leaves(i, acknowledged[i])
       ELSE UNCHANGED <<runs, computing, result>>

-----------------------------------------------------------------------------
(***************************************************************************)
(* PostBoxPlacing.deposit.  A run of the same id is replaced; beyond the   *)
(* bound the oldest run ends with the receipts it has; without a holder    *)
(* the new run ends at once.                                               *)
(***************************************************************************)
Oldest(R, o) == CHOOSE j \in R : o[j] \cap R = {}

Full(others) == Cardinality(others) >= DepositsAtMost

Deposit(i, holders) ==
    LET others == runs \ {i}
        dropped == IF Full(others) THEN {Oldest(others, older)} ELSE {}
    IN  /\ sendings[i] < MaxSendings[i] /\ i \notin receipted
        /\ sendings' = [sendings EXCEPT ![i] = @ + 1]
        /\ runs' = (others \ dropped) \cup (IF holders = <<>> THEN {} ELSE {i})
        /\ older' = [j \in Ids |-> IF j = i THEN others ELSE older[j] \ {i}]
        /\ computing' =
              (computing \ (dropped \cup {i})) \cup (IF holders = <<>> THEN {} ELSE {i})
        /\ result' = [j \in Ids |->
              IF j = i THEN IF holders = <<>> THEN "notPlaced" ELSE "open"
              ELSE IF j \in dropped THEN Completed(j, acknowledged[j])
              ELSE result[j]]
        /\ candidates' = [candidates EXCEPT ![i] = holders]
        /\ reached' = [reached EXCEPT ![i] = 0]
        /\ acknowledged' = [acknowledged EXCEPT ![i] = {}]
        /\ ended' = [ended EXCEPT ![i] = {}]
        /\ answers' = [answers EXCEPT ![i] = Unasked]
        /\ tried' = [tried EXCEPT ![i] = [a \in Addresses |-> 0]]
        /\ answered' = [answered EXCEPT ![i] = {}]
        /\ UNCHANGED <<receipted, network>>

(* The proof of work is ready: the run ends at once, or asks its first holders. *)
EndsUnasked(i) == i \in receipted \/ result[i] # "open"

First(i) ==
    IF Len(candidates[i]) < DepositHolders THEN Len(candidates[i]) ELSE DepositHolders

Computed(i) ==
    /\ i \in computing /\ i \in runs
    /\ UNCHANGED <<older, candidates, acknowledged, ended, tried, answered, sendings, receipted, took,
                   declined>>
    /\ IF EndsUnasked(i)
          THEN Leaves(i, acknowledged[i]) /\ UNCHANGED <<reached, answers, wire>>
          ELSE LET asked == {candidates[i][k] : k \in 1 .. First(i)}
               IN  /\ computing' = computing \ {i}
                   /\ reached' = [reached EXCEPT ![i] = First(i)]
                   /\ answers' = [answers EXCEPT ![i] =
                         [a \in Addresses |-> IF a \in asked THEN a ELSE @[a]]]
                   /\ wire' = wire \cup ({i} \X asked)
                   /\ UNCHANGED <<runs, result>>

(* The computation fails. *)
ComputeFails(i) ==
    /\ i \in computing /\ i \in runs
    /\ Leaves(i, acknowledged[i])
    /\ UNCHANGED <<older, run, acknowledged, sendings, receipted, network>>

-----------------------------------------------------------------------------
(* A holder gets the 0x30: it stores the entry and acknowledges, or declines; *)
(* what it holds already it acknowledges again.                               *)
HolderTakes(i, a) ==
    /\ <<i, a>> \in wire
    /\ took' = took \cup {<<i, a>>}
    /\ UNCHANGED <<runs, older, computing, run, acknowledged, result, sendings, receipted, wire,
                   declined>>

HolderDeclines(i, a) ==
    /\ <<i, a>> \in wire \ took
    /\ declined' = declined \cup {<<i, a>>}
    /\ UNCHANGED <<runs, older, computing, run, acknowledged, result, sendings, receipted, wire, took>>

(***************************************************************************)
(* acknowledged: a 0x31 for a running deposit, also a late one of a run    *)
(* this one replaced.                                                      *)
(***************************************************************************)
(* Mutation: without asking whether a request waits there. *)
AnswersAnyway(i, a) == answered[i] \cup {answers[i][a]}

Answers(i, a) ==
    IF answers[i][a] = Nobody THEN answered[i] ELSE answered[i] \cup {answers[i][a]}

Acknowledged(i, a) ==
    LET acks == acknowledged[i] \cup {a}
    IN  /\ <<i, a>> \in took /\ i \in runs
        /\ acknowledged' = [acknowledged EXCEPT ![i] = acks]
        /\ answered' = [answered EXCEPT ![i] = Answers(i, a)]
        /\ IF Sent(i) /\ FinishedWith(Asked(i), acks, ended[i])
              THEN Leaves(i, acks)
              ELSE /\ result' = [result EXCEPT ![i] =
                         IF TwoNodes(acks) THEN Completed(i, acks) ELSE @]
                   /\ UNCHANGED <<runs, computing>>
        /\ UNCHANGED <<older, candidates, reached, ended, answers, tried, sendings, receipted, network>>

(***************************************************************************)
(* refused: a 0x37 of an asked holder is its answer.  Its request ends     *)
(* next; only one whose request had its answer already is settled here.    *)
(***************************************************************************)
SettlesHere(i, a) == answers[i][a] \in answered[i] \cup {Nobody}

(* Mutation: the refusal gives way at once, and the end of its request again. *)
RefusedAndGivesWay(i, a) ==
    LET next == candidates[i][reached[i] + 1]
    IN  /\ <<i, a>> \in declined /\ Sent(i) /\ a \in Asked(i) \ answered[i]
        /\ ~Over(i) /\ reached[i] < Len(candidates[i])
        /\ answered' = [answered EXCEPT ![i] = Answers(i, a)]
        /\ reached' = [reached EXCEPT ![i] = @ + 1]
        /\ answers' = [answers EXCEPT ![i][next] = next]
        /\ wire' = wire \cup {<<i, next>>}
        /\ UNCHANGED <<runs, older, computing, candidates, ended, tried, acknowledged, result,
                       sendings, receipted, took, declined>>

Refused(i, a) ==
    /\ <<i, a>> \in declined /\ Sent(i) /\ a \in Asked(i)
    /\ IF SettlesHere(i, a)
          THEN /\ ended' = [ended EXCEPT ![i] = @ \cup {a}]
               /\ UNCHANGED answered
               /\ EndsWith(i, Asked(i), ended[i] \cup {a})
          ELSE /\ answered' = [answered EXCEPT ![i] = Answers(i, a)]
               /\ UNCHANGED <<ended, runs, computing, result>>
    /\ UNCHANGED <<older, candidates, reached, answers, tried, acknowledged, sendings, receipted,
                   network>>

-----------------------------------------------------------------------------
(***************************************************************************)
(* The request to holder n (Silence.ask): it runs until _transmissionEnded *)
(* has seen its end.                                                       *)
(***************************************************************************)
Requested(i, n) == Sent(i) /\ n \in Asked(i) /\ n \notin ended[i]

(* Every sending to one address stayed silent: the next address of the node. *)
NextAddress(i, n) ==
    /\ Requested(i, n) /\ n \notin answered[i] /\ ~Over(i)
    /\ tried[i][n] < Len(KnownOthers[n])
    /\ LET a == KnownOthers[n][tried[i][n] + 1]
       IN  /\ answers' = [answers EXCEPT ![i][a] = n]
           /\ wire' = wire \cup {<<i, a>>}
    /\ tried' = [tried EXCEPT ![i][n] = @ + 1]
    /\ UNCHANGED <<runs, older, computing, candidates, reached, ended, answered, acknowledged,
                   result, sendings, receipted, took, declined>>

(* _giveWay: a holder without a receipt, and the run still needs one. *)
(* Mutation: also when the run is over. *)
GivesWayAlways(i, n) == n \notin acknowledged[i] /\ reached[i] < Len(candidates[i])

(* Mutation: only while nobody has acknowledged. *)
GivesWayUnlessOne(i, n) ==
    acknowledged[i] = {} /\ ~Over(i) /\ reached[i] < Len(candidates[i])

GivesWay(i, n) ==
    /\ n \notin acknowledged[i] /\ ~Over(i)
    /\ reached[i] < Len(candidates[i])

(* _transmissionEnded: answered, silent at every address, or not taken by the *)
(* own bound.  Whether the run is finished is asked after giving way, too: the *)
(* replacement may have acknowledged an earlier sending already.              *)
RequestEnds(i, n) ==
    /\ Requested(i, n)
    /\ ended' = [ended EXCEPT ![i] = @ \cup {n}]
    /\ IF GivesWay(i, n)
          THEN LET next == candidates[i][reached[i] + 1]
               IN  /\ reached' = [reached EXCEPT ![i] = @ + 1]
                   /\ answers' = [answers EXCEPT ![i][next] = next]
                   /\ wire' = wire \cup {<<i, next>>}
                   /\ EndsWith(i, Asked(i) \cup {next}, ended[i] \cup {n})
          ELSE /\ EndsWith(i, Asked(i), ended[i] \cup {n})
               /\ UNCHANGED <<reached, answers, wire>>
    /\ UNCHANGED <<older, candidates, tried, answered, acknowledged, sendings, receipted, took,
                   declined>>

(* The recipient's receipt for the message arrives (ended of the run, 7.1). *)
MessageReceipted(i) ==
    /\ i \in runs \ receipted
    /\ receipted' = receipted \cup {i}
    /\ UNCHANGED <<runs, older, computing, run, acknowledged, result, sendings, network>>

(* The node stops: every run ends with what it has. *)
Close ==
    /\ runs # {} /\ runs' = {} /\ computing' = {}
    /\ result' = [i \in Ids |->
          IF i \in runs THEN Completed(i, acknowledged[i]) ELSE result[i]]
    /\ UNCHANGED <<older, run, acknowledged, sendings, receipted, network>>

-----------------------------------------------------------------------------
Next ==
    \/ \E i \in Ids :
        \/ \E holders \in CandidateLists[i] : Deposit(i, holders)
        \/ Computed(i) \/ ComputeFails(i) \/ MessageReceipted(i)
        \/ \E a \in Addresses :
            \/ HolderTakes(i, a) \/ HolderDeclines(i, a)
            \/ Acknowledged(i, a) \/ Refused(i, a)
            \/ NextAddress(i, a) \/ RequestEnds(i, a)
    \/ Close

(***************************************************************************)
(* A computation returns, and a request of the transport ends: it has a    *)
(* bounded number of repeats, each with its answer wait (11.3a).           *)
(***************************************************************************)
Fairness ==
    \A i \in Ids :
        /\ WF_vars(Computed(i))
        /\ \A n \in Addresses : WF_vars(RequestEnds(i, n))

Spec == Init /\ [][Next]_vars /\ Fairness

-----------------------------------------------------------------------------
(***************************************************************************)
(* PROPERTIES                                                              *)
(***************************************************************************)

(* Placed means that two different nodes hold the entry, whatever receipts *)
(* were lost, repeated, or belonged to a deposit of the same id before     *)
(* (8.2; B1: placed is by nodes, not by addresses).                        *)
PlacedIsTwoCopies ==
    \A i \in Ids : result[i] = "placed"
        => \E a, b \in Addresses :
              NodeOf[a] # NodeOf[b] /\ <<i, a>> \in took /\ <<i, b>> \in took

(* At most the first holders are asked at a time: one that fails gives way *)
(* to one, also when it has refused before its request ends (8.2, three    *)
(* addressed; the comment in refused).                                     *)
Outstanding(i) == {n \in Asked(i) : Requested(i, n)}

ThreeAtATime == \A i \in Ids : Cardinality(Outstanding(i)) <= DepositHolders

(* No packet leaves for a deposit that needs nothing more: neither to a    *)
(* replacement nor to another address (over in deposit, _giveWay).         *)
NobodyAskedInVain ==
    [][\A i \in Ids : (\E a \in Addresses : <<i, a>> \in wire' \ wire) => ~Over(i)]_vars

(* A run that ends by itself not placed has left nothing out: each holder  *)
(* it asked acknowledged or ended, and none was left to ask, unless as     *)
(* many as were addressed acknowledged from one node (8.2, "not placed     *)
(* when no holder is left").  A run a holder refused may end before.       *)
EndsNotPlaced(i) ==
    /\ Sent(i) /\ runs' = runs \ {i} /\ i \in runs /\ sendings' = sendings
    /\ result'[i] = "notPlaced" /\ i \notin receipted /\ ~Close

NothingLeft(i) ==
    /\ FinishedWith(Asked(i)', acknowledged'[i], ended'[i])
    /\ \/ reached'[i] = Len(candidates[i])
       \/ Cardinality(acknowledged'[i] \cap Asked(i)') >= First(i)

NotPlacedIsExhausted ==
    [][\A i \in Ids :
          EndsNotPlaced(i) /\ declined \cap ({i} \X Addresses) = {} => NothingLeft(i)]_vars

(* Every run ends: placed, not placed, or by the bound (8.2, never on a    *)
(* deadline, so only the ends of its requests can end it).                 *)
RunEnds == \A i \in Ids : i \in runs ~> i \notin runs

=============================================================================
