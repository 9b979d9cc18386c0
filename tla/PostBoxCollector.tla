-------------------------- MODULE PostBoxCollector --------------------------
(***************************************************************************)
(* The collector role of the post box (src/mycelium/lib/                   *)
(* post_box_collect.dart, Conversation and CollectionRun in                *)
(* post_box_runs.dart): a conversation per holder, the questions to one    *)
(* holder in a row, what is missing asked for again after a quiet period.  *)
(***************************************************************************)
EXTENDS PostBoxWire

CONSTANTS
    Keeps,      \* runs that read and delete nothing (CollectionRun.keep)
    Repeats,    \* repeats without an answer (kRepeatsAtMost, 3)
    RowAtMost,  \* questions in the row of a holder (kRowAtMost, 64)
    LateAtMost  \* quiet conversations kept for a late answer (kLateAtMost, 8)

ASSUME KeepsAssumption == Keeps \subseteq Runs
ASSUME CollectorBounds ==
    /\ Repeats \in Nat /\ RowAtMost \in Nat \ {0} /\ LateAtMost \in Nat

VARIABLES
    rows,     \* per holder: the runs whose question is put to it, the first is open
    late,     \* conversations that ended quiet, oldest first
    end,      \* per conversation: how it ended, "open" in a row
    random,   \* per conversation: the task it has answered
    expected, \* per conversation and value: the number announced
    handed,   \* per conversation and value: the ids handed out since its proof
    fresh,    \* conversations with an answer since the last request
    rounds,   \* per conversation: requests that brought nothing
    seen,     \* per run: the ids its consumer took
    closed    \* the node has stopped

collectorVars == <<rows, late, end, random, expected, handed, fresh, rounds, seen, closed>>

NotYet == 1 + Cardinality(Entries)
Ends == {"none", "open", "answered", "unreachable", "quiet", "dropped"}

CollectorTypeOK ==
    /\ rows \in [Holders -> Seq(Runs)]
    /\ \A h \in Holders : Len(rows[h]) <= RowAtMost
    /\ late \in Seq(Talks) /\ Len(late) <= LateAtMost
    /\ end \in [Talks -> Ends]
    /\ random \in [Talks -> Randoms \cup {NoTask}]
    /\ expected \in [Talks -> [Values -> 0 .. NotYet]]
    /\ handed \in [Talks -> [Values -> SUBSET Entries]]
    /\ fresh \in SUBSET Talks
    /\ rounds \in [Talks -> 0 .. Repeats]
    /\ seen \in [Runs -> SUBSET Entries]
    /\ closed \in BOOLEAN

CollectorInit ==
    /\ rows = [h \in Holders |-> <<>>]
    /\ late = <<>>
    /\ end = [c \in Talks |-> "none"]
    /\ random = [c \in Talks |-> NoTask]
    /\ expected = [c \in Talks |-> [v \in Values |-> NotYet]]
    /\ handed = [c \in Talks |-> [v \in Values |-> {}]]
    /\ fresh = {}
    /\ rounds = [c \in Talks |-> 0]
    /\ seen = [r \in Runs |-> {}]
    /\ closed = FALSE

-----------------------------------------------------------------------------
Head1(h) == <<Head(rows[h]), h>>
Open(c) == end[c] = "open"
Talking(h) == rows[h] # <<>>

(* Conversation.done, and handedOut, under the announcements x and pieces d. *)
Done(n, d) == n # NotYet /\ Cardinality(d) >= n

HandedOut(c, x, d) ==
    random[c] # NoTask /\ \A v \in Asks[c[1]] : Done(x[v], d[v])

(* collect: at a holder with an open question this one waits its turn. *)
Collect(r, H) ==
    LET full == {h \in H : Len(rows[h]) >= RowAtMost}
    IN  /\ ~closed /\ \A h \in Holders : end[<<r, h>>] = "none"
        /\ rows' = [h \in Holders |->
              IF h \in H \ full THEN Append(rows[h], r) ELSE rows[h]]
        /\ end' = [c \in Talks |->
              IF c[1] # r \/ c[2] \notin H THEN end[c]
              ELSE IF c[2] \in full THEN "dropped" ELSE "open"]
        /\ SentToHolder({Collecting(h, r) : h \in {x \in H \ full : ~Talking(x)}})
        /\ UNCHANGED <<late, random, expected, handed, fresh, rounds, seen, closed,
                       toCollector>>

(***************************************************************************)
(* _end of the open conversation with h.  The next question goes out; only *)
(* when the holder is unreachable what waits is dropped.  P is what the    *)
(* step sends besides.                                                     *)
(***************************************************************************)
(* Mutation: a quiet holder keeps the next question waiting. *)
NextAskedUnlessQuiet(h, row, how) ==
    IF row = <<>> \/ how = "quiet" THEN {} ELSE {Collecting(h, Head(row))}

NextAsked(h, row, how) == IF row = <<>> THEN {} ELSE {Collecting(h, Head(row))}

(* Mutation: the table grows without bound. *)
NewestUncapped(s, n) == s

(* The newest n: what is older has dropped. *)
Newest(s, n) == IF Len(s) > n THEN SubSeq(s, Len(s) - n + 1, Len(s)) ELSE s

EndOf(h, how, P) ==
    LET c == Head1(h)
        waiting == {<<rows[h][i], h>> : i \in 2 .. Len(rows[h])}
        row == IF how = "unreachable" THEN <<>> ELSE Tail(rows[h])
    IN  /\ rows' = [rows EXCEPT ![h] = row]
        /\ end' = [x \in Talks |->
              IF x = c THEN how
              ELSE IF how = "unreachable" /\ x \in waiting THEN "dropped" ELSE end[x]]
        /\ late' = IF how = "quiet" THEN Newest(Append(late, c), LateAtMost) ELSE late
        /\ SentToHolder(P \cup NextAsked(h, row, how))

Unreachable(h) ==
    /\ "unreachable" \in Faults /\ Talking(h)
    /\ EndOf(h, "unreachable", {})
    /\ UNCHANGED <<random, expected, handed, fresh, rounds, seen, closed, toCollector>>

(***************************************************************************)
(* _quiet: a quiet period without a new answer.  The question goes out     *)
(* again, or the proofs of the values still open, whose answers count from *)
(* zero; when a request and its repeats brought nothing the conversation   *)
(* ends.  It runs only once the question has left.                         *)
(***************************************************************************)
(* Mutation: a repeat that brought nothing is not counted. *)
CountedUnlessTask(c) == IF random[c] # NoTask THEN rounds[c] ELSE rounds[c] + 1

Counted(c) == IF c \in fresh THEN 0 ELSE rounds[c] + 1

Quiet(h) ==
    LET c == Head1(h)
        undone == {v \in Asks[c[1]] : ~Done(expected[c][v], handed[c][v])}
    IN  /\ Talking(h) /\ Collecting(h, c[1]) \in toHolder
        /\ UNCHANGED <<random, seen, closed, toCollector>>
        /\ IF Counted(c) > Repeats
              THEN EndOf(h, "quiet", {}) /\ UNCHANGED <<expected, handed, fresh, rounds>>
              ELSE /\ rounds' = [rounds EXCEPT ![c] = Counted(c)]
                   /\ fresh' = fresh \ {c}
                   /\ UNCHANGED <<rows, late, end>>
                   /\ IF random[c] = NoTask
                         THEN /\ SentToHolder({Collecting(h, c[1])})
                              /\ UNCHANGED <<expected, handed>>
                         ELSE /\ SentToHolder({Proof(h, v, random[c]) : v \in undone})
                              /\ expected' = [expected EXCEPT ![c] =
                                    [v \in Values |-> IF v \in undone THEN NotYet ELSE @[v]]]
                              /\ handed' = [handed EXCEPT ![c] =
                                    [v \in Values |-> IF v \in undone THEN {} ELSE @[v]]]

-----------------------------------------------------------------------------
(***************************************************************************)
(* _from: the conversation a packet of h that names r answers: the open    *)
(* one, whose quiet period starts anew, or one that ended quiet.           *)
(***************************************************************************)
IsLate(c) == \E i \in 1 .. Len(late) : late[i] = c

Named(h, r) ==
    IF Talking(h) /\ Head(rows[h]) = r THEN {<<r, h>>}
    ELSE {c \in {<<r, h>>} : IsLate(c)}

Heard(h, r) == fresh' = fresh \cup {c \in Named(h, r) : Open(c)}

(***************************************************************************)
(* _asking: what an answer under v belongs to: the named conversation if   *)
(* it asks v and has a task, else the open one, else the newest late one.  *)
(***************************************************************************)
Takes(c, v) == random[c] # NoTask /\ v \in Asks[c[1]]

LateTaking(h, v) == {i \in 1 .. Len(late) : late[i][2] = h /\ Takes(late[i], v)}

Asking(h, r, v) ==
    LET named == {c \in Named(h, r) : Takes(c, v)}
        open == {c \in {Head1(h)} : Takes(c, v)}
        lates == LateTaking(h, v)
    IN  IF named # {} THEN named
        ELSE IF Talking(h) /\ open # {} THEN open
        ELSE {late[i] : i \in {j \in lates : \A k \in lates : k <= j}}

(* onTask: the first task is answered with the proofs and the deletion of  *)
(* what the run has taken already; a further one only breaks the silence.  *)
OnTask(h, r, n) ==
    /\ Task(h, r, n) \in toCollector /\ Named(h, r) # {}
    /\ Heard(h, r)
    /\ UNCHANGED <<rows, late, end, expected, handed, rounds, seen, closed, toCollector>>
    /\ IF random[<<r, h>>] # NoTask
          THEN UNCHANGED <<random, toHolder>>
          ELSE /\ random' = [random EXCEPT ![<<r, h>>] = n]
               /\ SentToHolder({Proof(h, v, n) : v \in Asks[r]} \cup
                     {Delete(h, e, n) : e \in IF r \in Keeps THEN {} ELSE seen[r]})

(***************************************************************************)
(* An answer under v in conversation c: the announcement x, the pieces d.  *)
(* The conversation ends when every value is handed out.                   *)
(***************************************************************************)
Counts(h, c, v, x, d, P) ==
    /\ expected' = [expected EXCEPT ![c][v] = x]
    /\ handed' = [handed EXCEPT ![c][v] = d]
    /\ IF Talking(h) /\ c = Head1(h) /\ HandedOut(c, expected'[c], handed'[c])
          THEN EndOf(h, "answered", P)
          ELSE SentToHolder(P) /\ UNCHANGED <<rows, late, end>>

(* The deletion of e goes to every holder asked whose task is answered. *)
(* Mutation: only to the one that handed it out. *)
DeletionsHere(h, r, e) == {Delete(h, e, random[<<r, h>>])}

Deletions(h, r, e) ==
    {Delete(g, e, random[<<r, g>>]) : g \in {x \in Holders : random[<<r, x>>] # NoTask}}

(***************************************************************************)
(* onHereItIs: a piece is given to its consumer once per run; if that took *)
(* it, it is acknowledged for deletion.  A copy of one taken is            *)
(* acknowledged once more, to this holder.                                 *)
(***************************************************************************)
(* Mutation: what the consumer did not take is acknowledged too. *)
AcknowledgedAnyway(h, r, e, takes) == IF r \in Keeps THEN {} ELSE Deletions(h, r, e)

Acknowledged(h, r, e, takes) ==
    IF r \in Keeps THEN {}
    ELSE IF e \in seen[r] THEN {Delete(h, e, random[<<r, h>>])}
    ELSE IF takes THEN Deletions(h, r, e) ELSE {}

OnPiece(h, e, n, r, takes) ==
    LET v == ValueOf[e]
    IN  /\ Piece(h, e, n, r) \in toCollector /\ ~closed
        /\ Heard(h, r)
        /\ \E c \in Asking(h, r, v) :
              /\ seen' = [seen EXCEPT ![c[1]] = IF takes THEN @ \cup {e} ELSE @]
              /\ Counts(h, c, v, n, handed[c][v] \cup {e}, Acknowledged(h, c[1], e, takes))
        /\ UNCHANGED <<random, rounds, closed, toCollector>>

(* onNothingThere: nothing lies there. *)
OnNothing(h, v, r) ==
    /\ Nothing(h, v, r) \in toCollector /\ ~closed
    /\ Heard(h, r)
    /\ \E c \in Asking(h, r, v) : Counts(h, c, v, 0, handed[c][v], {})
    /\ UNCHANGED <<random, rounds, seen, closed, toCollector>>

(* onNothingThere, refused: what has come is all. *)
OnRefusal(h, v, r) ==
    /\ Refusal(h, v, r) \in toCollector /\ ~closed
    /\ Heard(h, r)
    /\ \E c \in Asking(h, r, v) :
          Counts(h, c, v, Cardinality(handed[c][v]), handed[c][v], {})
    /\ UNCHANGED <<random, rounds, seen, closed, toCollector>>

(* An answer that names a conversation and fits none with a task only      *)
(* breaks the silence.                                                     *)
OnUnfitting(h, v, r) ==
    /\ \E p \in toCollector :
          /\ p.holder = h /\ p.run = r
          /\ \/ p.kind \in {"nothing", "refusal"} /\ p.value = v
             \/ p.kind = "piece" /\ ValueOf[p.entry] = v
    /\ ~closed /\ Asking(h, r, v) = {}
    /\ Heard(h, r)
    /\ UNCHANGED <<rows, late, end, random, expected, handed, rounds, seen, closed, wire>>

(* close: everything ends without sending. *)
Close ==
    /\ "close" \in Faults /\ ~closed /\ closed' = TRUE
    /\ rows' = [h \in Holders |-> <<>>] /\ late' = <<>>
    /\ end' = [c \in Talks |-> IF Open(c) THEN "dropped" ELSE end[c]]
    /\ UNCHANGED <<random, expected, handed, fresh, rounds, seen, wire>>

(* Every step but a refusal's. *)
CollectorStep ==
    \/ \E r \in Runs, H \in SUBSET Holders : Collect(r, H)
    \/ \E h \in Holders : Unreachable(h) \/ Quiet(h)
    \/ \E h \in Holders, r \in Runs, n \in Randoms : OnTask(h, r, n)
    \/ \E h \in Holders, r \in Runs, e \in Entries, n \in 1 .. Cardinality(Entries) :
          \E takes \in BOOLEAN : OnPiece(h, e, n, r, takes)
    \/ \E h \in Holders, v \in Values, r \in Runs : OnNothing(h, v, r) \/ OnUnfitting(h, v, r)
    \/ Close
=============================================================================
