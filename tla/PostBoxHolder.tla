--------------------------- MODULE PostBoxHolder ---------------------------
(***************************************************************************)
(* The holder role of the post box towards a collector                     *)
(* (src/mycelium/lib/post_box_holder.dart): a task for every question, a   *)
(* hand-out entry by entry for every proof that holds, deletion only by    *)
(* the one who proved the value.                                           *)
(*                                                                         *)
(* The entries are on disk; tasks, proofs and hand-outs are in memory.     *)
(***************************************************************************)
EXTENDS PostBoxWire

CONSTANT PerValueAtMost \* entries per value (kAtMostProValue, 100)

ASSUME PerValueAssumption == PerValueAtMost \in Nat \ {0}

VARIABLES
    held,     \* per holder and value: the entries, oldest first
    tasks,    \* per holder: the tasks it knows
    issued,   \* per holder: tasks issued so far
    proven,   \* per holder and value: the random value of the last proof
    handOut,  \* per holder and value: the hand-out that runs
    again,    \* per holder and value: the question of a proof repeated meanwhile
    handOuts  \* history variable, per holder and value: the first two hand-outs

holderVars == <<held, tasks, issued, proven, handOut, again, handOuts>>

Tasks == [random : Randoms, run : Runs, open : BOOLEAN]
NoHandOut == [left |-> <<>>, came |-> 0, run |-> NoRun]

HolderTypeOK ==
    /\ held \in [Holders -> [Values -> Seq(Entries)]]
    /\ tasks \in [Holders -> SUBSET Tasks]
    /\ issued \in [Holders -> 0 .. MaxTasks]
    /\ proven \in [Holders -> [Values -> Randoms \cup {NoTask}]]
    /\ handOut \in [Holders -> [Values ->
          [left : Seq(Entries), came : Nat, run : Runs \cup {NoRun}]]]
    /\ again \in [Holders -> [Values -> Runs \cup {NoRun}]]
    /\ handOuts \in [Holders -> [Values -> Seq(Runs)]]

HolderInit ==
    /\ held = [h \in Holders |-> [v \in Values |-> <<>>]]
    /\ tasks = [h \in Holders |-> {}]
    /\ issued = [h \in Holders |-> 0]
    /\ proven = [h \in Holders |-> [v \in Values |-> NoTask]]
    /\ handOut = [h \in Holders |-> [v \in Values |-> NoHandOut]]
    /\ again = [h \in Holders |-> [v \in Values |-> NoRun]]
    /\ handOuts = [h \in Holders |-> [v \in Values |-> <<>>]]

-----------------------------------------------------------------------------
InList(e, s) == \E i \in 1 .. Len(s) : s[i] = e

Lies(h, e) == InList(e, held[h][ValueOf[e]])

(***************************************************************************)
(* _purge: the oldest entries of a list are too old and go.  It runs at a  *)
(* deposit, at a hand-out and at the start.                                *)
(***************************************************************************)
Purged(list, old) == SubSeq(list, old + 1, Len(list))
Old == IF "age" \in Faults THEN 0 .. PerValueAtMost ELSE {0}

(***************************************************************************)
(* onDeposit: a new entry goes to the end; beyond the bound the oldest is  *)
(* pushed out.  A known one changes nothing.                               *)
(***************************************************************************)
Deposit(h, e, old) ==
    LET v == ValueOf[e]
        list == Append(Purged(held[h][v], old), e)
    IN  /\ ~Lies(h, e) /\ old <= Len(held[h][v])
        /\ held' = [held EXCEPT ![h][v] =
              IF Len(list) > PerValueAtMost THEN Tail(list) ELSE list]
        /\ UNCHANGED <<tasks, issued, proven, handOut, again, handOuts, wire>>

(* onCollect: a task under a new random value; what has expired is dropped. *)
OnCollect(h, r) ==
    LET n == issued[h] + 1
    IN  /\ Collecting(h, r) \in toHolder
        /\ issued[h] < MaxTasks /\ issued' = [issued EXCEPT ![h] = n]
        /\ tasks' = [tasks EXCEPT ![h] =
              {t \in @ : t.open} \cup {[random |-> n, run |-> r, open |-> TRUE]}]
        /\ SentToCollector({Task(h, r, n)})
        /\ UNCHANGED <<held, proven, handOut, again, handOuts, toHolder>>

(* The deadline of a task passes, or the tasks of others push it out. *)
TaskExpires(h, t) ==
    /\ "expiry" \in Faults /\ t \in tasks[h]
    /\ tasks' = [tasks EXCEPT ![h] =
          (@ \ {t}) \cup (IF t.open THEN {[t EXCEPT !.open = FALSE]} ELSE {})]
    /\ UNCHANGED <<held, issued, proven, handOut, again, handOuts, wire>>

ProofExpires(h, v) ==
    /\ "expiry" \in Faults /\ proven[h][v] # NoTask
    /\ proven' = [proven EXCEPT ![h][v] = NoTask]
    /\ UNCHANGED <<held, tasks, issued, handOut, again, handOuts, wire>>

-----------------------------------------------------------------------------
(***************************************************************************)
(* _handOut: of a copy of the list, entry by entry, what still lies there. *)
(* Each piece announces what came and what is left.                        *)
(***************************************************************************)
StillLying(list, s) == {i \in 1 .. Len(s) : InList(s[i], list)}

(* Mutation: a piece announces what is left only. *)
AnnouncedLeft(came, left) == left

Announced(came, left) == came + left

HandsOut(h, v, list, s, came, r) ==
    LET lying == StillLying(list, s)
    IN  \E k \in lying :
          /\ \A i \in lying : k <= i
          /\ handOut' = [handOut EXCEPT ![h][v] =
                [left |-> SubSeq(s, k + 1, Len(s)), came |-> came + 1, run |-> r]]
          /\ SentToCollector({Piece(h, s[k], Announced(came, Cardinality(lying)), r)})

(* _answer: the first piece leaves at once; 0x34 when nothing lies there. *)
Answers(h, v, r, old) ==
    LET list == Purged(held[h][v], old)
    IN  /\ old <= Len(held[h][v])
        /\ held' = [held EXCEPT ![h][v] = list]
        /\ handOuts' = [handOuts EXCEPT ![h][v] = IF Len(@) < 2 THEN Append(@, r) ELSE @]
        /\ IF list = <<>>
              THEN /\ handOut' = [handOut EXCEPT ![h][v] = NoHandOut]
                   /\ SentToCollector({Nothing(h, v, r)})
              ELSE HandsOut(h, v, list, list, 0, r)

Running(h, v) == handOut[h][v].run # NoRun

(***************************************************************************)
(* onProof: refused without a task, or after its deadline; under a running *)
(* hand-out the question is noted, else it is answered.                    *)
(***************************************************************************)
RefusedProof(h, v, n) ==
    LET known == {t \in tasks[h] : t.random = n}
    IN  /\ Proof(h, v, n) \in toHolder
        /\ \A t \in known : ~t.open
        /\ SentToCollector(
              {Refusal(h, v, IF known = {} THEN NoRun ELSE (CHOOSE t \in known : TRUE).run)})
        /\ UNCHANGED <<holderVars, toHolder>>

OnProof(h, v, n, old) ==
    \E t \in tasks[h] :
        /\ Proof(h, v, n) \in toHolder
        /\ t.random = n /\ t.open /\ v \in Asks[t.run]
        /\ proven' = [proven EXCEPT ![h][v] = n]
        /\ IF Running(h, v)
              THEN /\ again' = [again EXCEPT ![h][v] = t.run]
                   /\ UNCHANGED <<held, handOut, handOuts, toCollector>>
              ELSE Answers(h, v, t.run, old) /\ UNCHANGED again
        /\ UNCHANGED <<tasks, issued, toHolder>>

(* The transmission of a piece has ended, the next one leaves. *)
HandOutNext(h, v) ==
    LET s == handOut[h][v].left
        list == held[h][v]
    IN  /\ Running(h, v)
        /\ HandsOut(h, v, list, s, handOut[h][v].came, handOut[h][v].run)
        /\ UNCHANGED <<held, tasks, issued, proven, again, handOuts, toHolder>>

(***************************************************************************)
(* The hand-out ends: nothing is left, or the collector is silent          *)
(* (HandOutSilence).  A proof repeated meanwhile is answered now.          *)
(***************************************************************************)
(* Mutation: the repeated proof stays noted. *)
HandOutEndsAlone(h, v, old) ==
    /\ Running(h, v)
    /\ handOut' = [handOut EXCEPT ![h][v] = NoHandOut]
    /\ UNCHANGED <<held, tasks, issued, proven, again, handOuts, wire>>

HandOutEnds(h, v, old) ==
    /\ Running(h, v)
    /\ again' = [again EXCEPT ![h][v] = NoRun]
    /\ IF again[h][v] = NoRun
          THEN /\ handOut' = [handOut EXCEPT ![h][v] = NoHandOut]
               /\ UNCHANGED <<held, handOuts, toCollector>>
          ELSE Answers(h, v, again[h][v], old)
    /\ UNCHANGED <<tasks, issued, proven, toHolder>>

(* onDeleteReceipt: the signature is over the random value proven last. *)
OnDelete(h, e, n) ==
    LET v == ValueOf[e]
    IN  /\ Delete(h, e, n) \in toHolder
        /\ proven[h][v] = n
        /\ \E i \in 1 .. Len(held[h][v]) :
              /\ held[h][v][i] = e
              /\ held' = [held EXCEPT ![h][v] =
                    SubSeq(@, 1, i - 1) \o SubSeq(@, i + 1, Len(@))]
        /\ UNCHANGED <<tasks, issued, proven, handOut, again, handOuts, wire>>

(* The holder ends and starts again with what lies on its disk. *)
HolderRestarts(h, old) ==
    /\ "restart" \in Faults
    /\ held' = [held EXCEPT ![h] = [v \in Values |-> Purged(@[v], old[v])]]
    /\ tasks' = [tasks EXCEPT ![h] = {}]
    /\ proven' = [proven EXCEPT ![h] = [v \in Values |-> NoTask]]
    /\ handOut' = [handOut EXCEPT ![h] = [v \in Values |-> NoHandOut]]
    /\ again' = [again EXCEPT ![h] = [v \in Values |-> NoRun]]
    /\ UNCHANGED <<issued, handOuts, wire>>

HolderStep ==
    \E h \in Holders :
        \/ \E e \in Entries, old \in Old : Deposit(h, e, old)
        \/ \E r \in Runs : OnCollect(h, r)
        \/ \E t \in tasks[h] : TaskExpires(h, t)
        \/ \E v \in Values : ProofExpires(h, v) \/ HandOutNext(h, v)
        \/ \E v \in Values, old \in Old : HandOutEnds(h, v, old)
        \/ \E v \in Values, n \in Randoms : RefusedProof(h, v, n)
        \/ \E v \in Values, n \in Randoms, old \in Old : OnProof(h, v, n, old)
        \/ \E e \in Entries, n \in Randoms : OnDelete(h, e, n)
        \/ \E old \in [Values -> Old] : HolderRestarts(h, old)
=============================================================================
