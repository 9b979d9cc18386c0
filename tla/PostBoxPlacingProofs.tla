------------------------ MODULE PostBoxPlacingProofs ------------------------
(***************************************************************************)
(* Proofs about PostBoxPlacing, for every set of deposits, addresses and   *)
(* nodes, every list of candidates and every number of first holders.      *)
(*                                                                         *)
(* A step moves one deposit on and may push others out; each deposit goes  *)
(* on, begins, asks its first holders, or lets one holder give way and     *)
(* stays open or ends with it.  The invariant is about one deposit and is  *)
(* proved over these five.                                                 *)
(***************************************************************************)
EXTENDS PostBoxPlacing, FiniteSetTheorems, TLAPS

Distinct(s) == \A j, k \in 1 .. Len(s) : s[j] = s[k] => j = k

Decline(i) == declined \cap ({i} \X Addresses) # {}

-----------------------------------------------------------------------------
(* The inductive invariant of one deposit. *)

(* What is counted was sent by a holder that stores the entry. *)
Honest(i) ==
    /\ \A a \in acknowledged[i] : <<i, a>> \in took
    /\ result[i] = "placed" =>
          \E a, b \in Addresses :
             NodeOf[a] # NodeOf[b] /\ <<i, a>> \in took /\ <<i, b>> \in took
    /\ i \in runs => result[i] # "notPlaced"

(* Only holders of the list are asked, and nobody before the proof of work. *)
InOrder(i) ==
    /\ Distinct(candidates[i])
    /\ reached[i] <= Len(candidates[i])
    /\ ended[i] \subseteq Asked(i)
    /\ i \in computing => reached[i] = 0 /\ ended[i] = {}

Few(i) ==
    /\ IsFiniteSet(Outstanding(i))
    /\ Cardinality(Outstanding(i)) <= DepositHolders

(* The asked holders that have not given way. *)
Standing(i) == {n \in Asked(i) : n \notin ended[i] \/ n \in acknowledged[i]}

(* As long as candidates are left, whoever gave way has been replaced. *)
Replaced(i) ==
    Sent(i) /\ ~Over(i) /\ ~Decline(i) /\ reached[i] < Len(candidates[i])
       => Cardinality(Standing(i)) >= First(i)

Fits(i) == Honest(i) /\ InOrder(i) /\ Few(i) /\ Replaced(i)

IInv == TypeOK /\ \A i \in Ids : Fits(i)

-----------------------------------------------------------------------------
(* The part of a list that is asked is finite and no longer than asked. *)
LEMMA Prefix ==
  ASSUME NEW S, NEW s \in Seq(S), NEW n \in 0 .. Len(s)
  PROVE  LET T == {s[k] : k \in 1 .. n}
         IN  /\ IsFiniteSet(T)
             /\ Cardinality(T) <= n
             /\ Distinct(s) => Cardinality(T) = n
  <1> DEFINE T == {s[k] : k \in 1 .. n}
             f == [k \in 1 .. n |-> s[k]]
  <1>1. f \in Surjection(1 .. n, T)
    BY DEF Surjection
  <1>2. IsFiniteSet(1 .. n) /\ Cardinality(1 .. n) = n
    BY FS_Interval
  <1>3. Distinct(s) => f \in Injection(1 .. n, T)
    BY DEF Distinct, Injection, IsInjective
  <1> HIDE DEF f, T
  <1>4. IsFiniteSet(T) /\ Cardinality(T) <= n
    BY <1>1, <1>2, FS_Surjection
  <1>5. Distinct(s) => Cardinality(T) = n
    BY <1>1, <1>2, <1>3, FS_Surjection
  <1> QED
    BY <1>4, <1>5 DEF T

(* What a running deposit has asked. *)
LEMMA AskedSet ==
  ASSUME TypeOK, NEW i \in Ids, InOrder(i)
  PROVE  /\ reached[i] \in 0 .. Len(candidates[i])
         /\ IsFiniteSet(Asked(i)) /\ Cardinality(Asked(i)) = reached[i]
  <1>1. candidates[i] \in Seq(Addresses) /\ reached[i] \in 0 .. Len(candidates[i])
    BY DEF TypeOK, InOrder
  <1> QED
    BY <1>1, Prefix DEF Asked, InOrder

-----------------------------------------------------------------------------
(* What a step can do to one deposit. *)

GoesOn(i) ==
    /\ candidates'[i] = candidates[i] /\ reached'[i] = reached[i]
    /\ i \in runs' => i \in runs /\ (result'[i] = "notPlaced" => result[i] = "notPlaced")
    /\ i \in computing' => i \in computing /\ ended'[i] = ended[i]
    /\ i \in runs' /\ i \notin computing' => i \notin computing
    /\ ended[i] \subseteq ended'[i] /\ ended'[i] \subseteq ended[i] \cup Asked(i)
    /\ acknowledged[i] \subseteq acknowledged'[i]
    /\ \A a \in acknowledged'[i] : a \in Addresses /\ <<i, a>> \in took'
    /\ took \subseteq took' /\ declined \subseteq declined' /\ receipted \subseteq receipted'
    /\ result'[i] = "placed" => result[i] = "placed" \/ TwoNodes(acknowledged'[i])
    /\ result'[i] = "open" => result[i] = "open"
    /\ Sent(i) /\ ~Over(i) /\ declined' \cap ({i} \X Addresses) = {}
       /\ i \in runs' /\ reached[i] < Len(candidates[i])
          => ended'[i] \ ended[i] \subseteq acknowledged'[i]

Begins(i) ==
    /\ candidates'[i] \in Seq(Addresses) /\ Distinct(candidates'[i])
    /\ reached'[i] = 0 /\ ended'[i] = {} /\ acknowledged'[i] = {}
    /\ result'[i] \in {"open", "notPlaced"}
    /\ i \in runs' => i \in computing' /\ result'[i] = "open"

AsksFirst(i) ==
    /\ i \in computing /\ i \notin computing' /\ i \in runs
    /\ reached' = [reached EXCEPT ![i] = First(i)]
    /\ UNCHANGED <<runs, candidates, acknowledged, ended, result, receipted, took, declined>>

Replaces(i, n) ==
    /\ Requested(i, n) /\ GivesWay(i, n)
    /\ reached' = [reached EXCEPT ![i] = @ + 1]
    /\ ended' = [ended EXCEPT ![i] = @ \cup {n}]
    /\ UNCHANGED <<candidates, acknowledged, receipted, took, declined>>

GivesWayFrom(i, n) == Replaces(i, n) /\ UNCHANGED <<runs, computing, result>>

GivesWayAndEnds(i, n) == Replaces(i, n) /\ Leaves(i, acknowledged[i])

StepOf(i) ==
    \/ GoesOn(i) \/ Begins(i) \/ AsksFirst(i)
    \/ \E n \in Addresses : GivesWayFrom(i, n) \/ GivesWayAndEnds(i, n)

-----------------------------------------------------------------------------
(* Whichever it is, the deposit still fits. *)

LEMMA GoesOnFits ==
  ASSUME TypeOK, TypeOK', NEW i \in Ids, Fits(i), GoesOn(i)
  PROVE  Fits(i)'
  <1>1. Asked(i)' = Asked(i)
    BY DEF GoesOn, Asked
  <1>2. Honest(i)'
    BY DEF Fits, Honest, GoesOn, TwoNodes
  <1>3. InOrder(i)'
    BY <1>1 DEF Fits, InOrder, GoesOn
  <1>4. IsFiniteSet(Asked(i))
    BY AskedSet DEF Fits
  <1>5. Outstanding(i)' \in SUBSET Outstanding(i)
    BY <1>1 DEF Outstanding, Requested, Sent, GoesOn
  <1>6. Cardinality(Outstanding(i)') \in Nat /\ Cardinality(Outstanding(i)) \in Nat
        /\ IsFiniteSet(Outstanding(i)')
        /\ Cardinality(Outstanding(i)') <= Cardinality(Outstanding(i))
    BY <1>5, FS_Subset, FS_CardinalityType DEF Fits, Few
  <1>7. Few(i)'
    BY <1>6, BoundsAssumption DEF Fits, Few
  <1>8. Replaced(i)'
    <2>1. SUFFICES ASSUME Sent(i)', ~Over(i)', ~Decline(i)', reached'[i] < Len(candidates'[i])
                   PROVE  Cardinality(Standing(i)') >= First(i)'
      BY DEF Replaced
    <2>2. Sent(i) /\ ~Over(i) /\ ~Decline(i) /\ reached[i] < Len(candidates[i])
      BY <2>1 DEF GoesOn, Sent, Over, Decline, TypeOK
    <2>3. ended'[i] \ ended[i] \subseteq acknowledged'[i]
      BY <2>1, <2>2 DEF GoesOn, Sent, Decline
    <2>4. Standing(i) \in SUBSET Standing(i)'
      BY <1>1, <2>3 DEF Standing, GoesOn
    <2>5. Standing(i)' \in SUBSET Asked(i)
      BY <1>1 DEF Standing
    <2>6. IsFiniteSet(Standing(i)')
      BY <1>4, <2>5, FS_Subset
    <2>7. Cardinality(Standing(i)) \in Nat /\ Cardinality(Standing(i)') \in Nat
          /\ Cardinality(Standing(i)) <= Cardinality(Standing(i)')
      BY <2>4, <2>6, FS_Subset, FS_CardinalityType
    <2>8. First(i)' = First(i) /\ First(i) \in Nat
      BY BoundsAssumption DEF First, GoesOn, TypeOK
    <2> QED
      BY <2>2, <2>7, <2>8 DEF Fits, Replaced
  <1> QED
    BY <1>2, <1>3, <1>7, <1>8 DEF Fits

LEMMA BeginsFits ==
  ASSUME TypeOK', NEW i \in Ids, Begins(i)
  PROVE  Fits(i)'
  <1>1. ~Sent(i)'
    BY DEF Begins, Sent
  <1>2. Outstanding(i)' = {}
    BY <1>1 DEF Outstanding, Requested
  <1>3. Few(i)'
    BY <1>2, FS_EmptySet, BoundsAssumption DEF Few
  <1>4. Honest(i)' /\ Replaced(i)'
    BY <1>1 DEF Honest, Replaced, Begins
  <1>5. InOrder(i)'
    BY DEF InOrder, Begins, TypeOK
  <1> QED
    BY <1>3, <1>4, <1>5 DEF Fits

LEMMA AsksFirstFits ==
  ASSUME TypeOK, TypeOK', NEW i \in Ids, Fits(i), AsksFirst(i)
  PROVE  Fits(i)'
  <1>1. /\ First(i) \in Nat /\ First(i) <= DepositHolders /\ First(i)' = First(i)
        /\ First(i) <= Len(candidates[i]) /\ reached'[i] = First(i)
    BY BoundsAssumption DEF First, AsksFirst, TypeOK
  <1>2. ended'[i] = {}
    BY DEF AsksFirst, Fits, InOrder
  <1>3. InOrder(i)'
    BY <1>1, <1>2 DEF InOrder, Fits, AsksFirst
  <1>4. reached'[i] \in 0 .. Len(candidates'[i]) /\ candidates'[i] \in Seq(Addresses)
        /\ Distinct(candidates'[i])
    BY <1>3 DEF TypeOK, InOrder
  <1>5. IsFiniteSet(Asked(i)') /\ Cardinality(Asked(i)') = reached'[i]
    BY <1>4, Prefix DEF Asked
  <1>6. Outstanding(i)' \in SUBSET Asked(i)'
    BY DEF Outstanding
  <1>7. IsFiniteSet(Outstanding(i)') /\ Cardinality(Outstanding(i)') <= Cardinality(Asked(i)')
        /\ Cardinality(Outstanding(i)') \in Nat
    BY <1>5, <1>6, FS_Subset, FS_CardinalityType
  <1>8. Few(i)'
    BY <1>1, <1>5, <1>7, BoundsAssumption DEF Few
  <1>9. Standing(i)' = Asked(i)'
    BY <1>2 DEF Standing
  <1>10. Replaced(i)'
    BY <1>1, <1>5, <1>9 DEF Replaced
  <1>11. Honest(i)'
    BY DEF Honest, Fits, AsksFirst
  <1> QED
    BY <1>3, <1>8, <1>10, <1>11 DEF Fits

(* What giving way does to who is asked, and to who stands. *)
LEMMA Replacement ==
  ASSUME TypeOK, NEW i \in Ids, NEW n \in Addresses, Fits(i), Replaces(i, n)
  PROVE  LET next == candidates[i][reached[i] + 1]
         IN  /\ Sent(i) /\ reached'[i] = reached[i] + 1 /\ ended'[i] = ended[i] \cup {n}
             /\ Asked(i)' = Asked(i) \cup {next} /\ next \notin Asked(i)
             /\ n \in Asked(i) /\ n \notin ended[i] /\ next \notin ended[i]
             /\ Distinct(candidates[i]) /\ reached'[i] <= Len(candidates[i])
             /\ ended'[i] \subseteq Asked(i)'
             /\ Cardinality(Standing(i)') = Cardinality(Standing(i))
  <1> DEFINE next == candidates[i][reached[i] + 1]
  <1>1. /\ reached[i] \in Nat /\ reached[i] < Len(candidates[i]) /\ reached'[i] = reached[i] + 1
        /\ candidates'[i] = candidates[i] /\ ended'[i] = ended[i] \cup {n}
        /\ acknowledged'[i] = acknowledged[i] /\ Len(candidates[i]) \in Nat
    BY DEF TypeOK, Replaces, GivesWay
  <1>2. Asked(i)' = Asked(i) \cup {next}
    BY <1>1 DEF Asked
  <1>3. next \notin Asked(i)
    <2>1. Distinct(candidates[i])
      BY DEF Fits, InOrder
    <2>2. reached[i] + 1 \in 1 .. Len(candidates[i])
          /\ 1 .. reached[i] \subseteq 1 .. Len(candidates[i]) /\ reached[i] + 1 \notin 1 .. reached[i]
      BY <1>1
    <2> QED
      BY <2>1, <2>2 DEF Asked, Distinct
  <1>4. n \in Asked(i) /\ n \notin ended[i] /\ n \notin acknowledged[i] /\ next \notin ended[i]
    BY <1>3 DEF Replaces, Requested, GivesWay, Fits, InOrder
  <1>5. Distinct(candidates[i]) /\ reached'[i] <= Len(candidates[i]) /\ ended'[i] \subseteq Asked(i)'
    BY <1>1, <1>2, <1>4 DEF InOrder, Fits
  <1>6. Cardinality(Standing(i)') = Cardinality(Standing(i))
    <2>1. n \in Standing(i)
      BY <1>4 DEF Standing
    <2>2. Standing(i)' = (Standing(i) \ {n}) \cup {next}
      BY <1>1, <1>2, <1>3, <1>4 DEF Standing
    <2>3. next \notin Standing(i) \ {n}
      BY <1>3 DEF Standing
    <2>4. IsFiniteSet(Asked(i)) /\ Standing(i) \in SUBSET Asked(i)
      BY AskedSet DEF Fits, Standing
    <2>5. IsFiniteSet(Standing(i)) /\ Cardinality(Standing(i)) \in Nat
      BY <2>4, FS_Subset, FS_CardinalityType
    <2>6. IsFiniteSet(Standing(i) \ {n})
          /\ Cardinality(Standing(i) \ {n}) = Cardinality(Standing(i)) - 1
      BY <2>1, <2>5, FS_RemoveElement
    <2>7. Cardinality((Standing(i) \ {n}) \cup {next}) = Cardinality(Standing(i) \ {n}) + 1
      BY <2>3, <2>6, FS_AddElement
    <2> QED
      BY <2>2, <2>5, <2>6, <2>7
  <1>7. Sent(i)
    BY DEF Replaces, Requested
  <1> QED
    BY <1>1, <1>2, <1>3, <1>4, <1>5, <1>6, <1>7

LEMMA GivesWayFits ==
  ASSUME TypeOK, TypeOK', NEW i \in Ids, NEW n \in Addresses, Fits(i), GivesWayFrom(i, n)
  PROVE  Fits(i)'
  <1> DEFINE next == candidates[i][reached[i] + 1]
  <1>1. /\ reached[i] < Len(candidates[i]) /\ candidates'[i] = candidates[i]
        /\ Replaces(i, n) /\ UNCHANGED <<runs, computing, result, acknowledged, took>>
    BY DEF GivesWayFrom, Replaces, GivesWay
  <1>2. /\ Sent(i) /\ ended'[i] = ended[i] \cup {n}
        /\ Asked(i)' = Asked(i) \cup {next} /\ next \notin Asked(i)
        /\ n \in Asked(i) /\ n \notin ended[i] /\ next \notin ended[i]
        /\ Distinct(candidates[i]) /\ reached'[i] <= Len(candidates[i])
        /\ ended'[i] \subseteq Asked(i)'
        /\ Cardinality(Standing(i)') = Cardinality(Standing(i))
    BY <1>1, Replacement
  <1>3. Sent(i)'
    BY <1>1, <1>2 DEF Sent
  <1>4. InOrder(i)'
    BY <1>1, <1>2, <1>3 DEF InOrder, Sent
  <1>5. Honest(i)'
    BY <1>1 DEF Honest, Fits
  <1>6. Few(i)'
    <2>1. n \in Outstanding(i)
      BY <1>2 DEF Outstanding, Requested
    <2>2. Outstanding(i)' = (Outstanding(i) \ {n}) \cup {next}
      BY <1>2, <1>3 DEF Outstanding, Requested
    <2>3. Cardinality(Outstanding(i)) \in Nat
      BY FS_CardinalityType DEF Fits, Few
    <2>4. IsFiniteSet(Outstanding(i) \ {n})
          /\ Cardinality(Outstanding(i) \ {n}) = Cardinality(Outstanding(i)) - 1
      BY <2>1, FS_RemoveElement DEF Fits, Few
    <2>5. IsFiniteSet(Outstanding(i)')
          /\ Cardinality(Outstanding(i)') <= Cardinality(Outstanding(i))
      <3> DEFINE rest == Outstanding(i) \ {n}
      <3>1. IsFiniteSet(rest \cup {next})
            /\ Cardinality(rest \cup {next}) =
                 IF next \in rest THEN Cardinality(rest) ELSE Cardinality(rest) + 1
        BY <2>4, FS_AddElement
      <3> QED
        BY <2>2, <2>3, <2>4, <3>1
    <2> QED
      BY <2>3, <2>5, BoundsAssumption, FS_CardinalityType DEF Fits, Few
  <1>7. Replaced(i)'
    <2>1. ~Over(i) /\ (Decline(i)' <=> Decline(i)) /\ First(i)' = First(i)
      BY <1>1 DEF Replaces, GivesWay, Decline, First
    <2> QED
      BY <1>1, <1>2, <2>1 DEF Replaced, Fits
  <1> QED
    BY <1>4, <1>5, <1>6, <1>7 DEF Fits

LEMMA GivesWayAndEndsFits ==
  ASSUME TypeOK, TypeOK', NEW i \in Ids, NEW n \in Addresses, Fits(i), GivesWayAndEnds(i, n)
  PROVE  Fits(i)'
  <1>1. i \notin runs' /\ i \notin computing' /\ result'[i] = Completed(i, acknowledged[i])
        /\ UNCHANGED <<candidates, acknowledged, took>> /\ Replaces(i, n)
    BY DEF GivesWayAndEnds, Leaves, Replaces, TypeOK
  <1>2. InOrder(i)'
    BY <1>1, Replacement DEF InOrder
  <1>3. Honest(i)'
    <2>1. acknowledged[i] \subseteq Addresses
      BY DEF TypeOK
    <2> QED
      BY <1>1, <2>1 DEF Completed, Honest, Fits, TwoNodes
  <1>4. Outstanding(i)' = {} /\ ~Sent(i)'
    BY <1>1 DEF Outstanding, Requested, Sent
  <1>5. Few(i)' /\ Replaced(i)'
    BY <1>4, FS_EmptySet, BoundsAssumption DEF Few, Replaced
  <1> QED
    BY <1>2, <1>3, <1>5 DEF Fits

LEMMA StepKeepsFits ==
  ASSUME TypeOK, TypeOK', NEW i \in Ids, Fits(i), StepOf(i)
  PROVE  Fits(i)'
  BY GoesOnFits, BeginsFits, AsksFirstFits, GivesWayFits, GivesWayAndEndsFits DEF StepOf

-----------------------------------------------------------------------------
(* The initial states fit. *)
LEMMA InitFits == Init => IInv
  <1> SUFFICES ASSUME Init PROVE IInv
    OBVIOUS
  <1>1. TypeOK
    BY BoundsAssumption DEF Init, TypeOK, Unasked, Packets
  <1>2. ASSUME NEW i \in Ids PROVE Fits(i)
    <2>1. ~Sent(i) /\ Outstanding(i) = {}
      BY DEF Init, Sent, Outstanding, Requested
    <2>2. Few(i)
      BY <2>1, FS_EmptySet, BoundsAssumption DEF Few
    <2>3. Honest(i) /\ InOrder(i) /\ Replaced(i)
      BY <2>1 DEF Init, Honest, InOrder, Replaced, Distinct
    <2> QED
      BY <2>2, <2>3 DEF Fits
  <1> QED
    BY <1>1, <1>2 DEF IInv

-----------------------------------------------------------------------------
(* Every action keeps the types and is one of the five for each deposit. *)
LEMMA CompletedType ==
  ASSUME TypeOK, NEW i \in Ids, NEW A
  PROVE  /\ Completed(i, A) \in {"open", "placed", "notPlaced"}
         /\ Completed(i, A) # "open"
         /\ Completed(i, A) = "placed" => result[i] = "placed" \/ TwoNodes(A)
  BY DEF Completed, TypeOK

LEMMA LeavesType ==
  ASSUME TypeOK, NEW i \in Ids, NEW A, Leaves(i, A)
  PROVE  /\ runs' \in SUBSET Ids /\ computing' \in SUBSET Ids
         /\ result' \in [Ids -> {"open", "placed", "notPlaced"}]
  <1>1. Completed(i, A) \in {"open", "placed", "notPlaced"}
    BY CompletedType
  <1> QED
    BY <1>1 DEF Leaves, TypeOK

LEMMA DepositStep ==
  ASSUME TypeOK, \A j \in Ids : Fits(j),
         NEW i \in Ids, NEW holders \in CandidateLists[i], Deposit(i, holders)
  PROVE  TypeOK' /\ \A j \in Ids : StepOf(j)
  <1>1. holders \in Seq(Addresses) /\ Distinct(holders)
    BY CandidatesAssumption, DistinctAssumption DEF Distinct
  <1> DEFINE others == runs \ {i}
             dropped == IF Full(others) THEN {Oldest(others, older)} ELSE {}
  <1>2. /\ sendings' = [sendings EXCEPT ![i] = @ + 1]
        /\ runs' = (others \ dropped) \cup (IF holders = <<>> THEN {} ELSE {i})
        /\ older' = [j \in Ids |-> IF j = i THEN others ELSE older[j] \ {i}]
        /\ computing' =
              (computing \ (dropped \cup {i})) \cup (IF holders = <<>> THEN {} ELSE {i})
        /\ result' = [j \in Ids |->
              IF j = i THEN IF holders = <<>> THEN "notPlaced" ELSE "open"
              ELSE IF j \in dropped THEN Completed(j, acknowledged[j])
              ELSE result[j]]
        /\ candidates' = [candidates EXCEPT ![i] = holders]
        /\ reached' = [reached EXCEPT ![i] = 0]
        /\ acknowledged' = [acknowledged EXCEPT ![i] = {}]
        /\ ended' = [ended EXCEPT ![i] = {}]
        /\ answers' = [answers EXCEPT ![i] = Unasked]
        /\ tried' = [tried EXCEPT ![i] = [a \in Addresses |-> 0]]
        /\ answered' = [answered EXCEPT ![i] = {}]
        /\ UNCHANGED <<receipted, network>>
    BY DEF Deposit
  <1> HIDE DEF others, dropped
  <1>3. others \in SUBSET Ids
    BY DEF others, TypeOK
  <1>4. TypeOK'
    <2>1. result' \in [Ids -> {"open", "placed", "notPlaced"}]
      BY <1>2, CompletedType DEF TypeOK
    <2>2. runs' \in SUBSET Ids /\ computing' \in SUBSET Ids /\ older' \in [Ids -> SUBSET Ids]
      BY <1>2, <1>3 DEF TypeOK
    <2>3. answers' \in [Ids -> [Addresses -> Addresses \cup {Nobody}]]
          /\ tried' \in [Ids -> [Addresses -> Nat]]
      BY <1>2 DEF TypeOK, Unasked
    <2> QED
      BY <1>1, <1>2, <2>1, <2>2, <2>3 DEF TypeOK, network
  <1>5. Begins(i)
    BY <1>1, <1>2 DEF Begins, TypeOK, others
  <1>6. ASSUME NEW j \in Ids, j # i PROVE GoesOn(j)
    BY <1>2, <1>6, CompletedType DEF GoesOn, TypeOK, others, network, Fits, Honest
  <1>7. ASSUME NEW j \in Ids PROVE StepOf(j)
    <2>1. CASE j = i
      BY <1>5, <2>1 DEF StepOf
    <2>2. CASE j # i
      BY <1>6, <2>2 DEF StepOf
    <2> QED
      BY <2>1, <2>2
  <1> QED
    BY <1>4, <1>7

(* The steps in which nothing is sent and no run leaves. *)
LEMMA Untouched ==
  ASSUME \A j \in Ids : Fits(j), TypeOK,
         UNCHANGED <<runs, computing, candidates, reached, ended, acknowledged, result>>,
         took \subseteq took', declined \subseteq declined', receipted \subseteq receipted'
  PROVE  \A j \in Ids : StepOf(j)
  <1> SUFFICES ASSUME NEW j \in Ids PROVE GoesOn(j)
    BY DEF StepOf
  <1> QED
    BY DEF GoesOn, Fits, Honest, TypeOK

LEMMA QuietStep ==
  ASSUME TypeOK, \A j \in Ids : Fits(j), NEW i \in Ids, NEW a \in Addresses,
         HolderTakes(i, a) \/ HolderDeclines(i, a) \/ NextAddress(i, a)
  PROVE  TypeOK' /\ \A j \in Ids : StepOf(j)
  <1>1. CASE HolderTakes(i, a)
    <2>1. TypeOK'
      BY <1>1 DEF HolderTakes, TypeOK, run, Packets
    <2> QED
      BY <1>1, <2>1, Untouched DEF HolderTakes, run
  <1>2. CASE HolderDeclines(i, a)
    <2>1. TypeOK'
      BY <1>2 DEF HolderDeclines, TypeOK, run, Packets
    <2> QED
      BY <1>2, <2>1, Untouched DEF HolderDeclines, run
  <1>3. CASE NextAddress(i, a)
    <2> DEFINE other == KnownOthers[a][tried[i][a] + 1]
    <2>1. other \in Addresses
      BY <1>3, KnownOthersAssumption DEF NextAddress, TypeOK
    <2>2. answers' \in [Ids -> [Addresses -> Addresses \cup {Nobody}]]
          /\ tried' \in [Ids -> [Addresses -> Nat]] /\ wire' \in SUBSET Packets
      BY <1>3, <2>1 DEF NextAddress, TypeOK, Packets
    <2>3. TypeOK'
      BY <1>3, <2>2 DEF NextAddress, TypeOK
    <2> QED
      BY <1>3, <2>3, Untouched DEF NextAddress
  <1> QED
    BY <1>1, <1>2, <1>3

LEMMA ReceiptedStep ==
  ASSUME TypeOK, \A j \in Ids : Fits(j), NEW i \in Ids, MessageReceipted(i)
  PROVE  TypeOK' /\ \A j \in Ids : StepOf(j)
  <1>1. TypeOK'
    BY DEF MessageReceipted, TypeOK, run, network
  <1> QED
    BY <1>1, Untouched DEF MessageReceipted, run, network

(* A deposit another's step leaves alone. *)
LEMMA OthersGoOn ==
  ASSUME TypeOK, \A j \in Ids : Fits(j), NEW i \in Ids, NEW j \in Ids, j # i,
         runs' \ {i} = runs \ {i}, computing' \ {i} = computing \ {i},
         candidates'[j] = candidates[j], reached'[j] = reached[j], ended'[j] = ended[j],
         acknowledged'[j] = acknowledged[j], result'[j] = result[j],
         UNCHANGED <<took, declined, receipted>>
  PROVE  GoesOn(j)
  BY DEF GoesOn, Fits, Honest, TypeOK

LEMMA ComputeStep ==
  ASSUME TypeOK, \A j \in Ids : Fits(j), NEW i \in Ids, Computed(i) \/ ComputeFails(i)
  PROVE  TypeOK' /\ \A j \in Ids : StepOf(j)
  <1> DEFINE asked == {candidates[i][k] : k \in 1 .. First(i)}
  <1>1. CASE /\ i \in runs /\ Leaves(i, acknowledged[i]) /\ UNCHANGED <<reached, answers, wire>>
             /\ UNCHANGED <<older, candidates, acknowledged, ended, tried, answered, sendings,
                            receipted, took, declined>>
    <2>1. TypeOK'
      BY <1>1, CompletedType DEF Leaves, TypeOK
    <2>2. GoesOn(i)
      BY <1>1, CompletedType DEF Leaves, GoesOn, TypeOK, Fits, Honest
    <2>3. ASSUME NEW j \in Ids, j # i PROVE GoesOn(j)
      BY <1>1, <2>3, OthersGoOn DEF Leaves, TypeOK
    <2> QED
      BY <2>1, <2>2, <2>3 DEF StepOf
  <1>2. CASE /\ Computed(i) /\ ~EndsUnasked(i)
    <2> HIDE DEF asked
    <2>1. /\ i \in computing /\ i \in runs /\ computing' = computing \ {i}
          /\ reached' = [reached EXCEPT ![i] = First(i)]
          /\ answers' = [answers EXCEPT ![i] =
                [a \in Addresses |-> IF a \in asked THEN a ELSE @[a]]]
          /\ wire' = wire \cup ({i} \X asked)
          /\ UNCHANGED <<runs, result, older, candidates, acknowledged, ended, tried, answered,
                         sendings, receipted, took, declined>>
      BY <1>2 DEF Computed, asked
    <2>2. First(i) \in Nat /\ First(i) <= Len(candidates[i])
      BY BoundsAssumption DEF First, TypeOK
    <2>3. asked \in SUBSET Addresses
      BY <2>2 DEF TypeOK, asked
    <2>4. TypeOK'
      BY <2>1, <2>2, <2>3 DEF TypeOK, Packets
    <2>5. AsksFirst(i)
      BY <2>1 DEF AsksFirst
    <2>6. ASSUME NEW j \in Ids, j # i PROVE GoesOn(j)
      BY <2>1, <2>6, OthersGoOn DEF TypeOK
    <2> QED
      BY <2>4, <2>5, <2>6 DEF StepOf
  <1> QED
    BY <1>1, <1>2 DEF Computed, ComputeFails, run, network

LEMMA AcknowledgedStep ==
  ASSUME TypeOK, \A j \in Ids : Fits(j), NEW i \in Ids, NEW a \in Addresses, Acknowledged(i, a)
  PROVE  TypeOK' /\ \A j \in Ids : StepOf(j)
  <1> DEFINE acks == acknowledged[i] \cup {a}
  <1>1. /\ <<i, a>> \in took /\ i \in runs
        /\ acknowledged' = [acknowledged EXCEPT ![i] = acks]
        /\ answered' = [answered EXCEPT ![i] = Answers(i, a)]
        /\ \/ Leaves(i, acks)
           \/ /\ result' = [result EXCEPT ![i] =
                    IF TwoNodes(acks) THEN Completed(i, acks) ELSE @]
              /\ UNCHANGED <<runs, computing>>
        /\ UNCHANGED <<older, candidates, reached, ended, answers, tried, sendings, receipted,
                       wire, took, declined>>
    BY DEF Acknowledged, network
  <1>2. Answers(i, a) \in SUBSET Addresses
    BY DEF Answers, TypeOK
  <1>3. /\ runs' \in SUBSET Ids /\ computing' \in SUBSET Ids
        /\ result' \in [Ids -> {"open", "placed", "notPlaced"}]
    <2>1. CASE Leaves(i, acks)
      BY <2>1, LeavesType
    <2>2. CASE /\ result' = [result EXCEPT ![i] =
                       IF TwoNodes(acks) THEN Completed(i, acks) ELSE @]
               /\ UNCHANGED <<runs, computing>>
      <3>1. Completed(i, acks) \in {"open", "placed", "notPlaced"}
        BY CompletedType
      <3> QED
        BY <2>2, <3>1 DEF TypeOK
    <2> QED
      BY <1>1, <2>1, <2>2
  <1>4. TypeOK'
    <2>1. acknowledged' \in [Ids -> SUBSET Addresses] /\ answered' \in [Ids -> SUBSET Addresses]
      BY <1>1, <1>2 DEF TypeOK
    <2> QED
      BY <1>1, <1>3, <2>1 DEF TypeOK
  <1>5. GoesOn(i)
    <2>1. result[i] # "notPlaced" /\ \A b \in acknowledged[i] : <<i, b>> \in took
      BY <1>1 DEF Fits, Honest
    <2>2. acknowledged'[i] = acks
      BY <1>1 DEF TypeOK
    <2>3. CASE Leaves(i, acks)
      BY <1>1, <2>1, <2>2, <2>3, CompletedType DEF Leaves, GoesOn, TypeOK
    <2>4. CASE /\ result' = [result EXCEPT ![i] =
                       IF TwoNodes(acks) THEN Completed(i, acks) ELSE @]
               /\ UNCHANGED <<runs, computing>>
      <3>1. result'[i] = IF TwoNodes(acks) THEN Completed(i, acks) ELSE result[i]
        BY <2>4 DEF TypeOK
      <3>2. TwoNodes(acks) => result'[i] = "placed"
        BY <2>1, <3>1 DEF Completed, TypeOK
      <3> QED
        BY <1>1, <2>1, <2>2, <2>4, <3>1, <3>2 DEF GoesOn, TypeOK
    <2> QED
      BY <1>1, <2>3, <2>4
  <1>6. ASSUME NEW j \in Ids, j # i PROVE GoesOn(j)
    BY <1>1, <1>6, OthersGoOn DEF Leaves, TypeOK
  <1> QED
    BY <1>4, <1>5, <1>6 DEF StepOf

(* The end of a request or a refusal that settles a holder without asking another. *)
Settled(i, n) ==
    /\ Sent(i) /\ n \in Asked(i)
    /\ ended' = [ended EXCEPT ![i] = @ \cup {n}]
    /\ n \in acknowledged[i] \/ Over(i) \/ Decline(i) \/ reached[i] >= Len(candidates[i])
    /\ Leaves(i, acknowledged[i]) \/ UNCHANGED <<runs, computing, result>>
    /\ UNCHANGED <<older, candidates, reached, acknowledged, answers, tried, answered, sendings,
                   receipted, wire, took, declined>>

LEMMA SettledStep ==
  ASSUME TypeOK, \A j \in Ids : Fits(j), NEW i \in Ids, NEW n \in Addresses, Settled(i, n)
  PROVE  TypeOK' /\ \A j \in Ids : StepOf(j)
  <1>1. /\ runs' \in SUBSET Ids /\ computing' \in SUBSET Ids
        /\ result' \in [Ids -> {"open", "placed", "notPlaced"}]
    BY LeavesType DEF Settled, TypeOK
  <1>2. TypeOK'
    BY <1>1 DEF Settled, TypeOK
  <1>3. GoesOn(i)
    <2>1. result[i] # "notPlaced" /\ \A b \in acknowledged[i] : <<i, b>> \in took
      BY DEF Settled, Sent, Fits, Honest
    <2>2. ended'[i] = ended[i] \cup {n} /\ acknowledged'[i] = acknowledged[i]
      BY DEF Settled, TypeOK
    <2>3. CASE Leaves(i, acknowledged[i])
      BY <2>1, <2>2, <2>3, CompletedType DEF Leaves, Settled, GoesOn, TypeOK
    <2>4. CASE UNCHANGED <<runs, computing, result>>
      BY <2>1, <2>2, <2>4 DEF Settled, GoesOn, TypeOK, Sent, Decline
    <2> QED
      BY <2>3, <2>4 DEF Settled
  <1>4. ASSUME NEW j \in Ids, j # i PROVE GoesOn(j)
    BY <1>4, OthersGoOn DEF Settled, Leaves, TypeOK
  <1> QED
    BY <1>2, <1>3, <1>4 DEF StepOf

LEMMA RefusedStep ==
  ASSUME TypeOK, \A j \in Ids : Fits(j), NEW i \in Ids, NEW a \in Addresses, Refused(i, a)
  PROVE  TypeOK' /\ \A j \in Ids : StepOf(j)
  <1>1. CASE SettlesHere(i, a)
    <2>1. Decline(i)
      BY DEF Refused, Decline
    <2>2. Settled(i, a)
      BY <1>1, <2>1 DEF Refused, EndsWith, Settled, network
    <2> QED
      BY <2>2, SettledStep
  <1>2. CASE ~SettlesHere(i, a)
    <2>1. Answers(i, a) \in SUBSET Addresses
      BY DEF Answers, TypeOK
    <2>2. TypeOK'
      BY <1>2, <2>1 DEF Refused, TypeOK, network
    <2> QED
      BY <1>2, <2>2, Untouched DEF Refused, network
  <1> QED
    BY <1>1, <1>2

LEMMA RequestEndsStep ==
  ASSUME TypeOK, \A j \in Ids : Fits(j), NEW i \in Ids, NEW n \in Addresses, RequestEnds(i, n)
  PROVE  TypeOK' /\ \A j \in Ids : StepOf(j)
  <1>1. CASE GivesWay(i, n)
    <2> DEFINE next == candidates[i][reached[i] + 1]
    <2>1. next \in Addresses
      BY <1>1 DEF GivesWay, TypeOK
    <2> HIDE DEF next
    <2>2. /\ reached' = [reached EXCEPT ![i] = @ + 1]
          /\ ended' = [ended EXCEPT ![i] = @ \cup {n}]
          /\ answers' = [answers EXCEPT ![i][next] = next]
          /\ wire' = wire \cup {<<i, next>>}
          /\ Leaves(i, acknowledged[i]) \/ UNCHANGED <<runs, computing, result>>
          /\ UNCHANGED <<older, candidates, tried, answered, acknowledged, sendings, receipted,
                         took, declined>>
      BY <1>1 DEF RequestEnds, EndsWith, next
    <2>3. /\ runs' \in SUBSET Ids /\ computing' \in SUBSET Ids
          /\ result' \in [Ids -> {"open", "placed", "notPlaced"}]
      BY <2>2, LeavesType DEF TypeOK
    <2>4. TypeOK'
      <3>1. /\ reached' \in [Ids -> Nat] /\ ended' \in [Ids -> SUBSET Addresses]
            /\ wire' \in SUBSET Packets
        BY <2>1, <2>2 DEF TypeOK, Packets
      <3>2. answers' \in [Ids -> [Addresses -> Addresses \cup {Nobody}]]
        BY <2>1, <2>2 DEF TypeOK
      <3> QED
        BY <2>2, <2>3, <3>1, <3>2 DEF TypeOK
    <2>5. GivesWayFrom(i, n) \/ GivesWayAndEnds(i, n)
      BY <1>1, <2>2 DEF GivesWayFrom, GivesWayAndEnds, Replaces, RequestEnds
    <2>6. ASSUME NEW j \in Ids, j # i PROVE GoesOn(j)
      BY <2>2, <2>6, OthersGoOn DEF Leaves, TypeOK
    <2> QED
      BY <2>4, <2>5, <2>6 DEF StepOf
  <1>2. CASE ~GivesWay(i, n)
    <2>1. n \in acknowledged[i] \/ Over(i) \/ reached[i] >= Len(candidates[i])
      BY <1>2 DEF GivesWay, TypeOK
    <2>2. Settled(i, n)
      BY <1>2, <2>1 DEF RequestEnds, EndsWith, Requested, Settled
    <2> QED
      BY <2>2, SettledStep
  <1> QED
    BY <1>1, <1>2

LEMMA CloseStep ==
  ASSUME TypeOK, \A j \in Ids : Fits(j), Close
  PROVE  TypeOK' /\ \A j \in Ids : StepOf(j)
  <1>1. TypeOK'
    BY CompletedType DEF Close, TypeOK, run, network
  <1>2. ASSUME NEW j \in Ids PROVE GoesOn(j)
    BY CompletedType DEF Close, GoesOn, TypeOK, run, network, Fits, Honest
  <1> QED
    BY <1>1, <1>2 DEF StepOf

LEMMA StutterStep ==
  ASSUME TypeOK, \A j \in Ids : Fits(j), UNCHANGED vars
  PROVE  TypeOK' /\ \A j \in Ids : StepOf(j)
  <1>1. TypeOK'
    BY DEF vars, run, network, TypeOK
  <1> QED
    BY <1>1, Untouched DEF vars, run, network

LEMMA NextKeepsFits == IInv /\ [Next]_vars => IInv'
  <1> SUFFICES ASSUME IInv, [Next]_vars PROVE IInv'
    OBVIOUS
  <1>1. TypeOK /\ \A j \in Ids : Fits(j)
    BY DEF IInv
  <1>2. TypeOK' /\ \A j \in Ids : StepOf(j)
    <2>1. ASSUME NEW i \in Ids, NEW holders \in CandidateLists[i], Deposit(i, holders)
          PROVE  TypeOK' /\ \A j \in Ids : StepOf(j)
      BY <1>1, <2>1, DepositStep
    <2>2. ASSUME NEW i \in Ids, Computed(i) \/ ComputeFails(i)
          PROVE  TypeOK' /\ \A j \in Ids : StepOf(j)
      BY <1>1, <2>2, ComputeStep
    <2>3. ASSUME NEW i \in Ids, MessageReceipted(i)
          PROVE  TypeOK' /\ \A j \in Ids : StepOf(j)
      BY <1>1, <2>3, ReceiptedStep
    <2>4. ASSUME NEW i \in Ids, NEW a \in Addresses,
                 HolderTakes(i, a) \/ HolderDeclines(i, a) \/ NextAddress(i, a)
          PROVE  TypeOK' /\ \A j \in Ids : StepOf(j)
      BY <1>1, <2>4, QuietStep
    <2>5. ASSUME NEW i \in Ids, NEW a \in Addresses, Acknowledged(i, a)
          PROVE  TypeOK' /\ \A j \in Ids : StepOf(j)
      BY <1>1, <2>5, AcknowledgedStep
    <2>6. ASSUME NEW i \in Ids, NEW a \in Addresses, Refused(i, a)
          PROVE  TypeOK' /\ \A j \in Ids : StepOf(j)
      BY <1>1, <2>6, RefusedStep
    <2>7. ASSUME NEW i \in Ids, NEW n \in Addresses, RequestEnds(i, n)
          PROVE  TypeOK' /\ \A j \in Ids : StepOf(j)
      BY <1>1, <2>7, RequestEndsStep
    <2>8. CASE Close
      BY <1>1, <2>8, CloseStep
    <2>9. CASE UNCHANGED vars
      BY <1>1, <2>9, StutterStep
    <2> QED
      BY <2>1, <2>2, <2>3, <2>4, <2>5, <2>6, <2>7, <2>8, <2>9 DEF Next
  <1> QED
    BY <1>1, <1>2, StepKeepsFits DEF IInv

LEMMA Invariant == Spec => []IInv
  BY InitFits, NextKeepsFits, PTL DEF Spec

-----------------------------------------------------------------------------
(***************************************************************************)
(* THEOREMS                                                                *)
(***************************************************************************)

(* Every variable keeps its type. *)
THEOREM TypeCorrect == Spec => []TypeOK
  <1>1. IInv => TypeOK
    BY DEF IInv
  <1> QED
    BY <1>1, Invariant, PTL

(* Placed means two copies at two nodes, for every number of holders,      *)
(* whatever receipts come late or belong to an earlier deposit of the id   *)
(* (DepositRun.complete).                                                  *)
THEOREM PlacedMeansTwoCopies == Spec => []PlacedIsTwoCopies
  <1>1. IInv => PlacedIsTwoCopies
    BY DEF IInv, Fits, Honest, PlacedIsTwoCopies
  <1> QED
    BY <1>1, Invariant, PTL

(* A deposit never has more open requests than first holders, however its  *)
(* requests end and its holders answer (deposit, _giveWay, refused).       *)
THEOREM NeverMoreThanFirst == Spec => []ThreeAtATime
  <1>1. IInv => ThreeAtATime
    BY DEF IInv, Fits, Few, ThreeAtATime
  <1> QED
    BY <1>1, Invariant, PTL

(* Nothing is sent for a deposit that is placed or acknowledged (over in   *)
(* deposit, _giveWay).                                                     *)
THEOREM SettledIsQuiet == Spec => NobodyAskedInVain
  <1>1. ASSUME [Next]_vars, NEW i \in Ids, NEW a \in Addresses, <<i, a>> \in wire' \ wire
        PROVE  ~Over(i)
    <2>1. ASSUME NEW j \in Ids, Computed(j) PROVE ~Over(i)
      BY <1>1, <2>1 DEF Computed, EndsUnasked, Over
    <2>2. ASSUME NEW j \in Ids, NEW n \in Addresses, NextAddress(j, n) PROVE ~Over(i)
      BY <1>1, <2>2 DEF NextAddress
    <2>3. ASSUME NEW j \in Ids, NEW n \in Addresses, RequestEnds(j, n) PROVE ~Over(i)
      BY <1>1, <2>3 DEF RequestEnds, GivesWay
    <2>4. CASE UNCHANGED wire
      BY <1>1, <2>4
    <2> QED
      BY <1>1, <2>1, <2>2, <2>3, <2>4 DEF Next, vars, network, Deposit, ComputeFails,
         HolderTakes, HolderDeclines, Acknowledged, Refused, MessageReceipted, Close
  <1>2. [Next]_vars => [\A i \in Ids : (\E a \in Addresses : <<i, a>> \in wire' \ wire)
                            => ~Over(i)]_vars
    BY <1>1
  <1> QED
    BY <1>2, PTL DEF Spec, NobodyAskedInVain

(***************************************************************************)
(* A run that no holder refused ends not placed only when nobody is left   *)
(* to ask, or as many as were addressed acknowledged from one node         *)
(* (_giveWay, _transmissionEnded).                                         *)
(***************************************************************************)
LEMMA EndIsByAnswer ==
  ASSUME IInv, Next, NEW i \in Ids, EndsNotPlaced(i), ~Decline(i)
  PROVE  \E a \in Addresses :
            Acknowledged(i, a) \/ RequestEnds(i, a)
  <1>1. i \in runs /\ i \notin computing /\ i \notin runs' /\ sendings' = sendings /\ ~Close
    BY DEF EndsNotPlaced, Sent
  <1>2. ASSUME NEW j \in Ids, NEW holders \in CandidateLists[j], Deposit(j, holders)
        PROVE  FALSE
    BY <1>1, <1>2 DEF Deposit, IInv, TypeOK
  <1>3. ASSUME NEW j \in Ids, Computed(j) \/ ComputeFails(j) \/ MessageReceipted(j)
        PROVE  FALSE
    BY <1>1, <1>3 DEF Computed, ComputeFails, MessageReceipted, Leaves
  <1>4. ASSUME NEW j \in Ids, NEW a \in Addresses,
               HolderTakes(j, a) \/ HolderDeclines(j, a) \/ NextAddress(j, a)
        PROVE  FALSE
    BY <1>1, <1>4 DEF HolderTakes, HolderDeclines, NextAddress
  <1>5. ASSUME NEW j \in Ids, NEW a \in Addresses, Refused(j, a)
        PROVE  FALSE
    <2>1. j # i
      BY <1>5 DEF Refused, Decline
    <2> QED
      BY <1>1, <1>5, <2>1 DEF Refused, EndsWith, Leaves
  <1>6. ASSUME NEW j \in Ids, NEW a \in Addresses, Acknowledged(j, a)
        PROVE  j = i
    BY <1>1, <1>6 DEF Acknowledged, Leaves
  <1>7. ASSUME NEW j \in Ids, NEW a \in Addresses, RequestEnds(j, a)
        PROVE  j = i
    BY <1>1, <1>7 DEF RequestEnds, EndsWith, Leaves
  <1> QED
    BY <1>1, <1>2, <1>3, <1>4, <1>5, <1>6, <1>7 DEF Next

LEMMA EndLeavesNothing ==
  ASSUME IInv, Next, NEW i \in Ids, EndsNotPlaced(i), ~Decline(i)
  PROVE  NothingLeft(i)
  <1>1. TypeOK /\ Fits(i) /\ Sent(i) /\ i \notin runs' /\ i \notin receipted
        /\ result'[i] = "notPlaced" /\ result[i] # "notPlaced"
    BY DEF IInv, EndsNotPlaced, Fits, Honest, Sent
  <1>2. TypeOK' /\ Fits(i)'
    BY NextKeepsFits DEF IInv
  <1>3. PICK a \in Addresses : Acknowledged(i, a) \/ RequestEnds(i, a)
    BY EndIsByAnswer
  <1>4. /\ FinishedWith(Asked(i)', acknowledged'[i], ended'[i])
        /\ Leaves(i, acknowledged'[i]) /\ UNCHANGED candidates
        /\ acknowledged[i] \subseteq acknowledged'[i]
        /\ \/ /\ \A n \in ended'[i] \ ended[i] : ~GivesWay(i, n)
              /\ UNCHANGED reached
           \/ Replaces(i, a)
    <2>1. CASE Acknowledged(i, a)
      <3>1. Asked(i)' = Asked(i) /\ acknowledged'[i] = acknowledged[i] \cup {a}
        BY <1>1, <2>1 DEF Acknowledged, Asked, TypeOK
      <3> QED
        BY <1>1, <2>1, <3>1 DEF Acknowledged, TypeOK
    <2>2. CASE RequestEnds(i, a) /\ ~GivesWay(i, a)
      <3>1. Asked(i)' = Asked(i)
        BY <2>2 DEF RequestEnds, Asked
      <3> QED
        BY <1>1, <2>2, <3>1 DEF RequestEnds, EndsWith, TypeOK
    <2>3. CASE RequestEnds(i, a) /\ GivesWay(i, a)
      <3>1. Replaces(i, a)
        BY <2>3 DEF RequestEnds, Replaces
      <3>2. Asked(i)' = Asked(i) \cup {candidates[i][reached[i] + 1]}
            /\ ended'[i] = ended[i] \cup {a}
        BY <1>1, <3>1, Replacement
      <3> QED
        BY <1>1, <2>3, <3>1, <3>2 DEF RequestEnds, EndsWith, Replaces
    <2> QED
      BY <1>3, <2>1, <2>2, <2>3
  <1>5. ~Over(i)
    <2>1. result'[i] = Completed(i, acknowledged'[i])
      BY <1>1, <1>4 DEF Leaves, TypeOK
    <2>2. result[i] = "open"
      BY <1>1, <2>1 DEF Completed
    <2> QED
      BY <1>1, <2>2 DEF Over
  <1>6. First(i) \in Nat /\ First(i)' = First(i)
    BY <1>1, <1>4, BoundsAssumption DEF First, TypeOK
  <1>7. /\ IsFiniteSet(Asked(i)')
        /\ reached'[i] \in Nat /\ reached'[i] <= Len(candidates[i]) /\ Len(candidates[i]) \in Nat
    <2>1. candidates'[i] \in Seq(Addresses) /\ reached'[i] \in 0 .. Len(candidates'[i])
      BY <1>2 DEF Fits, InOrder, TypeOK
    <2>2. IsFiniteSet(Asked(i)')
      BY <2>1, Prefix DEF Asked
    <2> QED
      BY <1>4, <2>1, <2>2
  <1>8. CASE reached[i] < Len(candidates[i])
    <2>1. Cardinality(Standing(i)) >= First(i)
      BY <1>1, <1>5, <1>8 DEF Fits, Replaced
    <2>2. Standing(i)' \in SUBSET (acknowledged'[i] \cap Asked(i)')
      BY <1>4 DEF Standing, FinishedWith
    <2>3. IsFiniteSet(acknowledged'[i] \cap Asked(i)')
      BY <1>7, FS_Subset
    <2>4. Cardinality(Standing(i)) <= Cardinality(Standing(i)')
          /\ Cardinality(Standing(i)) \in Nat
      <3>1. CASE Replaces(i, a)
        <4>1. IsFiniteSet(Standing(i)') /\ Cardinality(Standing(i)') = Cardinality(Standing(i))
          BY <1>1, <2>2, <2>3, <3>1, FS_Subset, Replacement
        <4> QED
          BY <4>1, FS_CardinalityType
      <3>2. CASE UNCHANGED reached /\ \A n \in ended'[i] \ ended[i] : ~GivesWay(i, n)
        <4>1. \A n \in ended'[i] \ ended[i] : n \in acknowledged[i]
          BY <1>5, <1>8, <3>2 DEF GivesWay
        <4>2. Asked(i)' = Asked(i)
          BY <1>4, <3>2 DEF Asked
        <4>3. Standing(i) \in SUBSET Standing(i)'
          BY <1>4, <4>1, <4>2 DEF Standing
        <4>4. IsFiniteSet(Standing(i)')
          BY <2>2, <2>3, FS_Subset
        <4> QED
          BY <4>3, <4>4, FS_Subset, FS_CardinalityType
      <3> QED
        BY <1>4, <3>1, <3>2
    <2>5. /\ Cardinality(Standing(i)') <= Cardinality(acknowledged'[i] \cap Asked(i)')
          /\ Cardinality(Standing(i)') \in Nat
          /\ Cardinality(acknowledged'[i] \cap Asked(i)') \in Nat
      BY <2>2, <2>3, FS_Subset, FS_CardinalityType
    <2> QED
      BY <1>4, <1>6, <2>1, <2>4, <2>5 DEF NothingLeft
  <1>9. CASE reached[i] >= Len(candidates[i])
    <2>1. ~Replaces(i, a)
      BY <1>1, <1>7, <1>9 DEF Replaces, GivesWay, TypeOK
    <2>2. reached'[i] = Len(candidates[i])
      BY <1>1, <1>4, <1>7, <1>9, <2>1 DEF TypeOK
    <2> QED
      BY <1>4, <2>2 DEF NothingLeft
  <1> QED
    BY <1>1, <1>8, <1>9 DEF TypeOK

THEOREM NotPlacedLeavesNobody == Spec => NotPlacedIsExhausted
  <1>1. ASSUME IInv, [Next]_vars, NEW i \in Ids,
               EndsNotPlaced(i), declined \cap ({i} \X Addresses) = {}
        PROVE  NothingLeft(i)
    <2>1. CASE Next
      BY <1>1, <2>1, EndLeavesNothing DEF Decline
    <2>2. CASE UNCHANGED vars
      BY <1>1, <2>2 DEF vars, EndsNotPlaced
    <2> QED
      BY <1>1, <2>1, <2>2
  <1>2. IInv /\ [Next]_vars =>
           [\A i \in Ids : EndsNotPlaced(i) /\ declined \cap ({i} \X Addresses) = {}
               => NothingLeft(i)]_vars
    BY <1>1
  <1> QED
    BY <1>2, Invariant, PTL DEF Spec, NotPlacedIsExhausted
=============================================================================
