---------------------- MODULE PostBoxCollectionProofs ----------------------
(***************************************************************************)
(* Theorems about PostBoxCollection, for any number of holders, values,    *)
(* entries and runs: what collecting deletes, whom it asks, that no        *)
(* repeated proof is forgotten, the types, and that a conversation         *)
(* answered after one hand-out has all that lay there.                     *)
(***************************************************************************)
EXTENDS PostBoxCollection, FiniteSetTheorems, SequenceTheorems, TLAPS

(* What the collector's arguments need of the types. *)
Shape ==
    /\ rows \in [Holders -> Seq(Runs)]
    /\ late \in Seq(Talks)
    /\ random \in [Talks -> Randoms \cup {NoTask}]
    /\ seen \in [Runs -> SUBSET Entries]

LEMMA NoTaskIsNoRandom == \A n \in Randoms : n # NoTask
  BY DEF NoTask, Randoms

-----------------------------------------------------------------------------
(* What a step sends to holders: P, and of deletions nothing but P. *)
Sends(P) ==
    /\ toHolder \cup P \subseteq toHolder'
    /\ \A p \in toHolder' : p.kind = "delete" => p \in toHolder \cup P

(* The next question is no deletion. *)
LEMMA EndSends ==
  ASSUME NEW h, NEW how, NEW P, EndOf(h, how, P)
  PROVE  Sends(P)
  BY DEF EndOf, NextAsked, Sends, SentToHolder, Collecting

LEMMA AnswerSends ==
  ASSUME NEW h, NEW c, NEW v, NEW x, NEW d, NEW P, Counts(h, c, v, x, d, P)
  PROVE  Sends(P)
  <1>1. CASE EndOf(h, "answered", P)
    BY <1>1, EndSends
  <1>2. CASE SentToHolder(P)
    BY <1>2 DEF SentToHolder, Sends
  <1> QED  BY <1>1, <1>2 DEF Counts

(* The end of the first question of a row leaves rows and late ones typed. *)
LEMMA EndShape ==
  ASSUME Shape, NEW h \in Holders, NEW how, NEW P, rows[h] # <<>>, EndOf(h, how, P)
  PROVE  rows' \in [Holders -> Seq(Runs)] /\ late' \in Seq(Talks)
  <1>1. Tail(rows[h]) \in Seq(Runs) /\ Head(rows[h]) \in Runs
    BY DEF Shape
  <1>2. rows' \in [Holders -> Seq(Runs)]
    BY <1>1 DEF EndOf, Shape
  <1>3. Append(late, Head1(h)) \in Seq(Talks)
    BY <1>1 DEF Head1, Talks, Shape
  <1>4. ASSUME NEW s \in Seq(Talks)  PROVE Newest(s, LateAtMost) \in Seq(Talks)
    <2>1. CASE Len(s) > LateAtMost
      <3>1. LateAtMost \in Nat  BY CollectorBounds
      <3>2. Len(s) - LateAtMost + 1 \in 1 .. Len(s) + 1  BY <2>1, <3>1
      <3> QED  BY <2>1, <3>1, <3>2 DEF Newest
    <2>2. CASE ~(Len(s) > LateAtMost)
      BY <2>2 DEF Newest
    <2> QED  BY <2>1, <2>2
  <1>5. late' \in Seq(Talks)
    BY <1>3, <1>4 DEF EndOf, Shape
  <1> QED  BY <1>2, <1>5

(* An answer belongs to a conversation with its sender that has a task. *)
LEMMA AskingTalks ==
  ASSUME Shape, NEW h \in Holders, NEW r, NEW v, NEW c \in Asking(h, r, v)
  PROVE  /\ c \in Talks /\ c = <<c[1], h>> /\ c[1] \in Runs
         /\ random[c] # NoTask
  <1>1. ASSUME NEW i \in 1 .. Len(late)  PROVE late[i] \in Talks
    BY <1>1 DEF Shape
  <1>2. rows[h] # <<>> => Head(rows[h]) \in Runs
    BY DEF Shape
  <1>3. CASE c \in Named(h, r) /\ Takes(c, v)
    BY <1>1, <1>2, <1>3 DEF Named, Talking, IsLate, Takes, Talks
  <1>4. CASE Talking(h) /\ c = Head1(h) /\ Takes(c, v)
    BY <1>2, <1>4 DEF Talking, Head1, Takes, Talks
  <1>5. CASE \E i \in LateTaking(h, v) : c = late[i]
    BY <1>1, <1>5 DEF LateTaking, Takes, Talks
  <1> QED  BY <1>3, <1>4, <1>5 DEF Asking

LEMMA AnswerShape ==
  ASSUME Shape, NEW h \in Holders, NEW c, NEW v, NEW x, NEW d, NEW P,
         Counts(h, c, v, x, d, P)
  PROVE  rows' \in [Holders -> Seq(Runs)] /\ late' \in Seq(Talks)
  <1>1. CASE Talking(h) /\ EndOf(h, "answered", P)
    BY <1>1, EndShape DEF Talking
  <1>2. CASE UNCHANGED <<rows, late, end>>
    BY <1>2 DEF Shape
  <1> QED  BY <1>1, <1>2 DEF Counts

-----------------------------------------------------------------------------
(***************************************************************************)
(* A step with respect to tasks, takings and deletions does one of three   *)
(* things.                                                                 *)
(***************************************************************************)
Neither == UNCHANGED <<random, seen>> /\ Sends({})

TaskPackets(h, r, n, P) ==
    /\ \A p \in P : p.kind = "delete" =>
          r \notin Keeps /\ \E e \in seen[r] : p = Delete(h, e, n)
    /\ r \notin Keeps => \A e \in seen[r] : Delete(h, e, n) \in P

TaskCame(h, r, n) ==
    /\ random[<<r, h>>] = NoTask /\ random' = [random EXCEPT ![<<r, h>>] = n]
    /\ UNCHANGED seen
    /\ \E P : Sends(P) /\ TaskPackets(h, r, n, P)

PieceCame(h, r, e, takes) ==
    /\ random[<<r, h>>] # NoTask /\ UNCHANGED random
    /\ seen' = [seen EXCEPT ![r] = IF takes THEN @ \cup {e} ELSE @]
    /\ Sends(Acknowledged(h, r, e, takes))

DeletesStep ==
    \/ Neither
    \/ \E h \in Holders, r \in Runs, n \in Randoms : TaskCame(h, r, n)
    \/ \E h \in Holders, r \in Runs, e \in Entries, takes \in BOOLEAN :
          PieceCame(h, r, e, takes)

(* A holder sends nothing to holders. *)
LEMMA HolderSends ==
  ASSUME HolderStep  PROVE UNCHANGED toHolder
  <1>1. PICK h \in Holders :
          \/ \E e \in Entries, old \in Old : Deposit(h, e, old)
          \/ \E r \in Runs : OnCollect(h, r)
          \/ \E t \in tasks[h] : TaskExpires(h, t)
          \/ \E v \in Values : ProofExpires(h, v) \/ HandOutNext(h, v)
          \/ \E v \in Values, old \in Old : HandOutEnds(h, v, old)
          \/ \E v \in Values, n \in Randoms : RefusedProof(h, v, n)
          \/ \E v \in Values, n \in Randoms, old \in Old : OnProof(h, v, n, old)
          \/ \E e \in Entries, n \in Randoms : OnDelete(h, e, n)
          \/ \E old \in [Values -> Old] : HolderRestarts(h, old)
    BY DEF HolderStep
  <1>2. ASSUME NEW e, NEW old, Deposit(h, e, old)  PROVE UNCHANGED toHolder
    BY <1>2 DEF Deposit, wire
  <1>3. ASSUME NEW r, OnCollect(h, r)  PROVE UNCHANGED toHolder
    BY <1>3 DEF OnCollect
  <1>4. ASSUME NEW t, TaskExpires(h, t)  PROVE UNCHANGED toHolder
    BY <1>4 DEF TaskExpires, wire
  <1>5. ASSUME NEW v, ProofExpires(h, v) \/ HandOutNext(h, v)  PROVE UNCHANGED toHolder
    BY <1>5 DEF ProofExpires, HandOutNext, wire
  <1>6. ASSUME NEW v, NEW old, HandOutEnds(h, v, old)  PROVE UNCHANGED toHolder
    BY <1>6 DEF HandOutEnds
  <1>7. ASSUME NEW v, NEW n, RefusedProof(h, v, n)  PROVE UNCHANGED toHolder
    BY <1>7 DEF RefusedProof
  <1>8. ASSUME NEW v, NEW n, NEW old, OnProof(h, v, n, old)  PROVE UNCHANGED toHolder
    BY <1>8 DEF OnProof
  <1>9. ASSUME NEW e, NEW n, OnDelete(h, e, n)  PROVE UNCHANGED toHolder
    BY <1>9 DEF OnDelete, wire
  <1>10. ASSUME NEW old, HolderRestarts(h, old)  PROVE UNCHANGED toHolder
    BY <1>10 DEF HolderRestarts, wire
  <1> QED  BY <1>1, <1>2, <1>3, <1>4, <1>5, <1>6, <1>7, <1>8, <1>9, <1>10

LEMMA TaskStep ==
  ASSUME NEW h \in Holders, NEW r \in Runs, NEW n \in Randoms, OnTask(h, r, n)
  PROVE  Neither \/ TaskCame(h, r, n)
  <1>1. CASE random[<<r, h>>] # NoTask
    BY <1>1 DEF OnTask, Neither, Sends
  <1>2. CASE random[<<r, h>>] = NoTask
    <2> DEFINE P == {Proof(h, v, n) : v \in Asks[r]} \cup
                    {Delete(h, e, n) : e \in IF r \in Keeps THEN {} ELSE seen[r]}
    <2>1. SentToHolder(P) /\ random' = [random EXCEPT ![<<r, h>>] = n] /\ UNCHANGED seen
      BY <1>2 DEF OnTask
    <2>2. Sends(P)
      BY <2>1 DEF SentToHolder, Sends
    <2>3. TaskPackets(h, r, n, P)
      BY DEF Proof, TaskPackets
    <2> HIDE DEF P
    <2> QED  BY <1>2, <2>1, <2>2, <2>3 DEF TaskCame
  <1> QED  BY <1>1, <1>2

LEMMA PieceStep ==
  ASSUME Shape, NEW h \in Holders, NEW e \in Entries, NEW n, NEW r,
         NEW takes \in BOOLEAN, OnPiece(h, e, n, r, takes)
  PROVE  \E q \in Runs : PieceCame(h, q, e, takes)
  <1>1. PICK c \in Asking(h, r, ValueOf[e]) :
          /\ seen' = [seen EXCEPT ![c[1]] = IF takes THEN @ \cup {e} ELSE @]
          /\ Counts(h, c, ValueOf[e], n, handed[c][ValueOf[e]] \cup {e},
                    Acknowledged(h, c[1], e, takes))
    BY DEF OnPiece
  <1>2. c = <<c[1], h>> /\ c[1] \in Runs /\ random[c] # NoTask
    BY <1>1, AskingTalks
  <1>3. Sends(Acknowledged(h, c[1], e, takes))
    BY <1>1, AnswerSends
  <1>4. UNCHANGED random
    BY DEF OnPiece
  <1> QED  BY <1>1, <1>2, <1>3, <1>4 DEF PieceCame

LEMMA QuietStep ==
  ASSUME NEW h \in Holders, Quiet(h)  PROVE Neither
  <1>1. UNCHANGED <<random, seen>>
    BY DEF Quiet
  <1>2. CASE EndOf(h, "quiet", {})
    BY <1>1, <1>2, EndSends DEF Neither
  <1>3. CASE \E P : SentToHolder(P) /\ \A p \in P : p.kind # "delete"
    BY <1>1, <1>3 DEF Neither, Sends, SentToHolder
  <1>4. Collecting(h, Head1(h)[1]).kind # "delete"
    BY DEF Collecting
  <1>5. \A v, n : Proof(h, v, n).kind # "delete"
    BY DEF Proof
  <1> QED  BY <1>2, <1>3, <1>4, <1>5 DEF Quiet

LEMMA CollectStep ==
  ASSUME NEW r, NEW H, Collect(r, H)  PROVE Neither
  BY DEF Collect, Neither, Sends, SentToHolder, Collecting

LEMMA AnswerStep ==
  ASSUME NEW h \in Holders, NEW c, NEW v, NEW x, NEW d,
         Counts(h, c, v, x, d, {}), UNCHANGED <<random, seen>>
  PROVE  Neither
  BY AnswerSends DEF Neither

(* Every step of the collector is one of the three. *)
LEMMA CollectorDeletes ==
  ASSUME Shape, CollectorStep \/ Refused  PROVE DeletesStep
  <1>1. ASSUME NEW r \in Runs, NEW H \in SUBSET Holders, Collect(r, H)
        PROVE  DeletesStep
    BY <1>1, CollectStep DEF DeletesStep
  <1>2. ASSUME NEW h \in Holders, Unreachable(h)  PROVE DeletesStep
    BY <1>2, EndSends DEF Unreachable, DeletesStep, Neither
  <1>3. ASSUME NEW h \in Holders, Quiet(h)  PROVE DeletesStep
    BY <1>3, QuietStep DEF DeletesStep
  <1>4. ASSUME NEW h \in Holders, NEW r \in Runs, NEW n \in Randoms, OnTask(h, r, n)
        PROVE  DeletesStep
    BY <1>4, TaskStep DEF DeletesStep
  <1>5. ASSUME NEW h \in Holders, NEW r \in Runs, NEW e \in Entries, NEW n,
               NEW takes \in BOOLEAN, OnPiece(h, e, n, r, takes)
        PROVE  DeletesStep
    BY <1>5, PieceStep DEF DeletesStep
  <1>6. ASSUME NEW h \in Holders, NEW v, NEW r, OnNothing(h, v, r)  PROVE DeletesStep
    BY <1>6, AnswerStep DEF OnNothing, DeletesStep
  <1>7. ASSUME NEW h \in Holders, NEW v, NEW r, OnUnfitting(h, v, r)  PROVE DeletesStep
    BY <1>7 DEF OnUnfitting, DeletesStep, Neither, Sends, wire
  <1>8. ASSUME NEW h \in Holders, NEW v, NEW r, OnRefusal(h, v, r)  PROVE DeletesStep
    BY <1>8, AnswerStep DEF OnRefusal, DeletesStep
  <1>9. ASSUME Close  PROVE DeletesStep
    BY <1>9 DEF Close, DeletesStep, Neither, Sends, wire
  <1> QED
    BY <1>1, <1>2, <1>3, <1>4, <1>5, <1>6, <1>7, <1>8, <1>9 DEF CollectorStep, Refused

LEMMA StepDeletes ==
  ASSUME Shape, [Next]_vars  PROVE DeletesStep
  <1>1. CASE HolderStep /\ UNCHANGED collectorVars
    BY <1>1, HolderSends DEF collectorVars, DeletesStep, Neither, Sends
  <1>2. CASE CollectorStep \/ Refused
    BY <1>2, CollectorDeletes
  <1>3. CASE UNCHANGED vars
    BY <1>3 DEF vars, collectorVars, wire, DeletesStep, Neither, Sends
  <1> QED  BY <1>1, <1>2, <1>3 DEF Next

-----------------------------------------------------------------------------
RowsTyped == rows' \in [Holders -> Seq(Runs)] /\ late' \in Seq(Talks)

LEMMA CollectorRows ==
  ASSUME Shape, CollectorStep \/ Refused  PROVE RowsTyped
  <1>1. ASSUME NEW r \in Runs, NEW H \in SUBSET Holders, Collect(r, H)
        PROVE  RowsTyped
    BY <1>1 DEF Collect, Shape, RowsTyped
  <1>2. ASSUME NEW h \in Holders, Unreachable(h)  PROVE RowsTyped
    BY <1>2, EndShape DEF Unreachable, Talking, RowsTyped
  <1>3. ASSUME NEW h \in Holders, Quiet(h)  PROVE RowsTyped
    <2>1. CASE EndOf(h, "quiet", {})
      BY <1>3, <2>1, EndShape DEF Quiet, Talking, RowsTyped
    <2>2. CASE UNCHANGED <<rows, late, end>>
      BY <2>2 DEF Shape, RowsTyped
    <2> QED  BY <1>3, <2>1, <2>2 DEF Quiet
  <1>4. ASSUME NEW h \in Holders, NEW r \in Runs, NEW n \in Randoms, OnTask(h, r, n)
        PROVE  RowsTyped
    BY <1>4 DEF OnTask, Shape, RowsTyped
  <1>5. ASSUME NEW h \in Holders, NEW r, NEW e, NEW n, NEW takes, OnPiece(h, e, n, r, takes)
        PROVE  RowsTyped
    BY <1>5, AnswerShape DEF OnPiece, RowsTyped
  <1>6. ASSUME NEW h \in Holders, NEW v, NEW r, OnNothing(h, v, r)  PROVE RowsTyped
    BY <1>6, AnswerShape DEF OnNothing, RowsTyped
  <1>7. ASSUME NEW h \in Holders, NEW v, NEW r, OnUnfitting(h, v, r)  PROVE RowsTyped
    BY <1>7 DEF OnUnfitting, Shape, RowsTyped
  <1>8. ASSUME NEW h \in Holders, NEW v, NEW r, OnRefusal(h, v, r)  PROVE RowsTyped
    BY <1>8, AnswerShape DEF OnRefusal, RowsTyped
  <1>9. ASSUME Close  PROVE RowsTyped
    BY <1>9 DEF Close, RowsTyped
  <1> QED
    BY <1>1, <1>2, <1>3, <1>4, <1>5, <1>6, <1>7, <1>8, <1>9 DEF CollectorStep, Refused

LEMMA ShapeInit == Init => Shape
  BY DEF Init, CollectorInit, Shape

LEMMA ShapeKept ==
  ASSUME Shape, [Next]_vars  PROVE Shape'
  <1>1. RowsTyped
    <2>1. CASE UNCHANGED collectorVars
      BY <2>1 DEF collectorVars, Shape, RowsTyped
    <2>2. CASE CollectorStep \/ Refused
      BY <2>2, CollectorRows
    <2> QED  BY <2>1, <2>2 DEF Next, vars, collectorVars
  <1>2. DeletesStep
    BY StepDeletes
  <1>3. random' \in [Talks -> Randoms \cup {NoTask}] /\ seen' \in [Runs -> SUBSET Entries]
    <2>1. CASE Neither
      BY <2>1 DEF Neither, Shape
    <2>2. CASE \E h \in Holders, r \in Runs, n \in Randoms : TaskCame(h, r, n)
      BY <2>2 DEF TaskCame, Shape
    <2>3. CASE \E h \in Holders, r \in Runs, e \in Entries, takes \in BOOLEAN :
                  PieceCame(h, r, e, takes)
      BY <2>3 DEF PieceCame, Shape
    <2> QED  BY <1>2, <2>1, <2>2, <2>3 DEF DeletesStep
  <1> QED  BY <1>1, <1>3 DEF RowsTyped, Shape

-----------------------------------------------------------------------------
(***************************************************************************)
(* Deletions.  A deletion names the task of the run that took the entry;   *)
(* this task stays, as does what was taken.                                *)
(***************************************************************************)
TakenBy(p, r) == p.entry \in seen[r] /\ p.random = random[<<r, p.holder>>]

Deleting ==
    \A p \in toHolder : p.kind = "delete" =>
        /\ p.holder \in Holders /\ p.random # NoTask
        /\ \E r \in Runs \ Keeps : TakenBy(p, r)

LEMMA DeletingKept ==
  ASSUME Shape, Deleting, DeletesStep  PROVE Deleting'
  <1>1. ASSUME NEW p \in toHolder, p.kind = "delete"
        PROVE  /\ p.holder \in Holders /\ p.random # NoTask
               /\ \E r \in Runs \ Keeps : TakenBy(p, r)'
    <2>1. PICK r \in Runs \ Keeps : TakenBy(p, r)
      BY <1>1 DEF Deleting
    <2>2. p.holder \in Holders /\ p.random # NoTask
      BY <1>1 DEF Deleting
    <2>3. seen[r] \subseteq seen'[r]
      BY DEF DeletesStep, Neither, TaskCame, PieceCame, Shape
    <2>4. <<r, p.holder>> \in Talks
      BY <2>2 DEF Talks
    <2>5. random'[<<r, p.holder>>] = random[<<r, p.holder>>]
      BY <2>1, <2>2, <2>4 DEF TakenBy, DeletesStep, Neither, TaskCame, PieceCame, Shape
    <2> QED  BY <2>1, <2>2, <2>3, <2>5 DEF TakenBy
  <1>2. CASE Neither
    BY <1>1, <1>2 DEF Neither, Sends, Deleting, TakenBy
  <1>3. ASSUME NEW h \in Holders, NEW r \in Runs, NEW n \in Randoms, TaskCame(h, r, n)
        PROVE  Deleting'
    <2>1. PICK P : Sends(P) /\ TaskPackets(h, r, n, P)
      BY <1>3 DEF TaskCame
    <2>2. seen' = seen /\ random'[<<r, h>>] = n
      BY <1>3 DEF TaskCame, Talks, Shape
    <2>3. ASSUME NEW p \in P, p.kind = "delete"
          PROVE  /\ p.holder \in Holders /\ p.random # NoTask
                 /\ r \in Runs \ Keeps /\ TakenBy(p, r)'
      BY <2>1, <2>2, <2>3, NoTaskIsNoRandom DEF Delete, TakenBy, TaskPackets
    <2> QED  BY <1>1, <2>1, <2>3 DEF Sends, Deleting
  <1>4. ASSUME NEW h \in Holders, NEW r \in Runs, NEW e \in Entries,
               NEW takes \in BOOLEAN, PieceCame(h, r, e, takes)
        PROVE  Deleting'
    <2>1. ASSUME NEW p \in Acknowledged(h, r, e, takes)
          PROVE  /\ p.holder \in Holders /\ p.random # NoTask
                 /\ r \in Runs \ Keeps /\ TakenBy(p, r)'
      <3>1. PICK g \in Holders : random[<<r, g>>] # NoTask /\ p = Delete(g, e, random[<<r, g>>])
        BY <1>4, <2>1 DEF PieceCame, Acknowledged, Deletions
      <3>2. r \notin Keeps /\ e \in seen'[r]
        BY <1>4, <2>1 DEF PieceCame, Acknowledged, Shape
      <3> QED  BY <1>4, <3>1, <3>2 DEF PieceCame, Delete, TakenBy
    <2> QED  BY <1>1, <1>4, <2>1 DEF PieceCame, Sends, Deleting
  <1> QED  BY <1>2, <1>3, <1>4 DEF DeletesStep

(***************************************************************************)
(* An entry is deleted only after the consumer of a deleting run took it.  *)
(***************************************************************************)
THEOREM DeletionsWereTaken == Spec => []DeletedWasTaken
  <1>1. Init => Shape /\ Deleting
    BY ShapeInit DEF Init, Deleting
  <1>2. Shape /\ Deleting /\ [Next]_vars => (Shape /\ Deleting)'
    BY ShapeKept, StepDeletes, DeletingKept
  <1>3. Deleting => DeletedWasTaken
    BY DEF Deleting, DeletedWasTaken, TakenBy
  <1> QED  BY <1>1, <1>2, <1>3, PTL DEF Spec

(***************************************************************************)
(* And it is deleted at every holder asked whose task is answered,         *)
(* whichever of the two came first.                                        *)
(***************************************************************************)
LEMMA DeletedEverywhereKept ==
  ASSUME Shape, TakenIsDeletedEverywhere, DeletesStep
  PROVE  TakenIsDeletedEverywhere'
  <1> SUFFICES ASSUME NEW q \in Runs \ Keeps, NEW g \in Holders,
                      random'[<<q, g>>] # NoTask, NEW x \in seen'[q]
               PROVE  Delete(g, x, random'[<<q, g>>]) \in toHolder'
    BY DEF TakenIsDeletedEverywhere
  <1>0. <<q, g>> \in Talks
    BY DEF Talks
  <1>1. CASE Neither
    BY <1>1 DEF Neither, Sends, TakenIsDeletedEverywhere
  <1>2. ASSUME NEW h \in Holders, NEW r \in Runs, NEW n \in Randoms, TaskCame(h, r, n)
        PROVE  Delete(g, x, random'[<<q, g>>]) \in toHolder'
    <2>1. PICK P : Sends(P) /\ TaskPackets(h, r, n, P)
      BY <1>2 DEF TaskCame
    <2>2. x \in seen[q]
      BY <1>2 DEF TaskCame
    <2>3. CASE q = r /\ g = h
      BY <1>0, <1>2, <2>1, <2>2, <2>3 DEF TaskCame, TaskPackets, Sends, Shape
    <2>4. CASE ~(q = r /\ g = h)
      <3>1. random'[<<q, g>>] = random[<<q, g>>]
        BY <1>0, <1>2, <2>4 DEF TaskCame, Shape
      <3> QED  BY <2>1, <2>2, <3>1 DEF Sends, TakenIsDeletedEverywhere
    <2> QED  BY <2>3, <2>4
  <1>3. ASSUME NEW h \in Holders, NEW r \in Runs, NEW e \in Entries,
               NEW takes \in BOOLEAN, PieceCame(h, r, e, takes)
        PROVE  Delete(g, x, random'[<<q, g>>]) \in toHolder'
    <2>1. toHolder \cup Acknowledged(h, r, e, takes) \subseteq toHolder' /\ random' = random
      BY <1>3 DEF PieceCame, Sends
    <2>2. CASE x \in seen[q]
      BY <2>1, <2>2 DEF TakenIsDeletedEverywhere
    <2>3. CASE x \notin seen[q]
      <3>1. q = r /\ x = e /\ takes
        BY <1>3, <2>3 DEF PieceCame, Shape
      <3>2. Delete(g, x, random[<<q, g>>]) \in Acknowledged(h, r, e, takes)
        BY <2>1, <2>3, <3>1 DEF Acknowledged, Deletions
      <3> QED  BY <2>1, <3>2
    <2> QED  BY <2>2, <2>3
  <1> QED  BY <1>1, <1>2, <1>3 DEF DeletesStep

(***************************************************************************)
(* What a deleting run took is deleted at every holder it asked.           *)
(***************************************************************************)
THEOREM TakenGoesEverywhere == Spec => []TakenIsDeletedEverywhere
  <1>1. Init => Shape /\ TakenIsDeletedEverywhere
    BY ShapeInit DEF Init, CollectorInit, Talks, TakenIsDeletedEverywhere
  <1>2. Shape /\ TakenIsDeletedEverywhere /\ [Next]_vars
            => (Shape /\ TakenIsDeletedEverywhere)'
    BY ShapeKept, StepDeletes, DeletedEverywhereKept
  <1> QED  BY <1>1, <1>2, PTL DEF Spec

-----------------------------------------------------------------------------
(* The rows. *)
LEMMA EndAsks ==
  ASSUME Shape, HeadIsAsked, NEW h \in Holders, NEW how, NEW P, rows[h] # <<>>,
         EndOf(h, how, P)
  PROVE  HeadIsAsked'
  <1> SUFFICES ASSUME NEW g \in Holders, rows'[g] # <<>>
               PROVE  Collecting(g, Head(rows'[g])) \in toHolder'
    BY DEF HeadIsAsked
  <1>1. CASE g = h
    BY <1>1 DEF EndOf, NextAsked, SentToHolder, Shape
  <1>2. CASE g # h
    BY <1>2 DEF EndOf, SentToHolder, HeadIsAsked, Shape
  <1> QED  BY <1>1, <1>2

LEMMA AnswerAsks ==
  ASSUME Shape, HeadIsAsked, NEW h \in Holders, NEW c, NEW v, NEW x, NEW d, NEW P,
         Counts(h, c, v, x, d, P)
  PROVE  HeadIsAsked'
  <1>1. CASE Talking(h) /\ EndOf(h, "answered", P)
    BY <1>1, EndAsks DEF Talking
  <1>2. CASE SentToHolder(P) /\ UNCHANGED <<rows, late, end>>
    BY <1>2 DEF SentToHolder, HeadIsAsked
  <1> QED  BY <1>1, <1>2 DEF Counts

LEMMA CollectAsks ==
  ASSUME Shape, HeadIsAsked, NEW r \in Runs, NEW H \in SUBSET Holders, Collect(r, H)
  PROVE  HeadIsAsked'
  <1> SUFFICES ASSUME NEW g \in Holders, rows'[g] # <<>>
               PROVE  Collecting(g, Head(rows'[g])) \in toHolder'
    BY DEF HeadIsAsked
  <1>1. rows[g] \in Seq(Runs) /\ toHolder \subseteq toHolder'
    BY DEF Shape, Collect, SentToHolder
  <1>2. CASE rows'[g] = rows[g]
    BY <1>1, <1>2 DEF HeadIsAsked
  <1>3. CASE rows'[g] = Append(rows[g], r) /\ rows[g] # <<>>
    <2>1. Head(rows'[g]) = Head(rows[g])
      BY <1>1, <1>3
    <2> QED  BY <1>1, <1>3, <2>1 DEF HeadIsAsked
  <1>4. CASE rows'[g] # rows[g] /\ rows'[g] = Append(rows[g], r) /\ rows[g] = <<>>
    <2>1. Head(rows'[g]) = r
      BY <1>1, <1>4
    <2>2. Collecting(g, r) \in toHolder'
      BY <1>4 DEF Collect, SentToHolder, Talking
    <2> QED  BY <2>1, <2>2
  <1> QED  BY <1>2, <1>3, <1>4 DEF Collect

LEMMA StillAsked ==
  ASSUME HeadIsAsked, UNCHANGED rows, toHolder \subseteq toHolder'
  PROVE  HeadIsAsked'
  BY DEF HeadIsAsked

LEMMA CollectorAsks ==
  ASSUME Shape, HeadIsAsked, CollectorStep \/ Refused  PROVE HeadIsAsked'
  <1>1. ASSUME NEW r \in Runs, NEW H \in SUBSET Holders, Collect(r, H)
        PROVE  HeadIsAsked'
    BY <1>1, CollectAsks
  <1>2. ASSUME NEW h \in Holders, Unreachable(h)  PROVE HeadIsAsked'
    BY <1>2, EndAsks DEF Unreachable, Talking
  <1>3. ASSUME NEW h \in Holders, Quiet(h)  PROVE HeadIsAsked'
    <2>1. CASE EndOf(h, "quiet", {})
      BY <1>3, <2>1, EndAsks DEF Quiet, Talking
    <2>2. CASE UNCHANGED rows /\ toHolder \subseteq toHolder'
      BY <2>2, StillAsked
    <2> QED  BY <1>3, <2>1, <2>2 DEF Quiet, SentToHolder
  <1>4. ASSUME NEW h \in Holders, NEW r \in Runs, NEW n \in Randoms, OnTask(h, r, n)
        PROVE  HeadIsAsked'
    BY <1>4, StillAsked DEF OnTask, SentToHolder
  <1>5. ASSUME NEW h \in Holders, NEW r, NEW e, NEW n, NEW takes, OnPiece(h, e, n, r, takes)
        PROVE  HeadIsAsked'
    BY <1>5, AnswerAsks DEF OnPiece
  <1>6. ASSUME NEW h \in Holders, NEW v, NEW r, OnNothing(h, v, r)  PROVE HeadIsAsked'
    BY <1>6, AnswerAsks DEF OnNothing
  <1>7. ASSUME NEW h \in Holders, NEW v, NEW r, OnUnfitting(h, v, r)  PROVE HeadIsAsked'
    BY <1>7, StillAsked DEF OnUnfitting, wire
  <1>8. ASSUME NEW h \in Holders, NEW v, NEW r, OnRefusal(h, v, r)  PROVE HeadIsAsked'
    BY <1>8, AnswerAsks DEF OnRefusal
  <1>9. ASSUME Close  PROVE HeadIsAsked'
    BY <1>9 DEF Close, HeadIsAsked
  <1> QED
    BY <1>1, <1>2, <1>3, <1>4, <1>5, <1>6, <1>7, <1>8, <1>9 DEF CollectorStep, Refused

(***************************************************************************)
(* No question waits at the head of a row without having been asked.       *)
(***************************************************************************)
THEOREM FirstOfRowIsAsked == Spec => []HeadIsAsked
  <1>1. Init => Shape /\ HeadIsAsked
    BY ShapeInit DEF Init, CollectorInit, HeadIsAsked
  <1>2. ASSUME Shape, HeadIsAsked, [Next]_vars  PROVE HeadIsAsked'
    <2>1. CASE HolderStep /\ UNCHANGED collectorVars
      BY <1>2, <2>1, HolderSends, StillAsked DEF collectorVars
    <2>2. CASE CollectorStep \/ Refused
      BY <1>2, <2>2, CollectorAsks
    <2>3. CASE UNCHANGED vars
      BY <1>2, <2>3, StillAsked DEF vars, collectorVars, wire
    <2> QED  BY <1>2, <2>1, <2>2, <2>3 DEF Next
  <1>3. Shape /\ HeadIsAsked /\ [Next]_vars => (Shape /\ HeadIsAsked)'
    BY <1>2, ShapeKept
  <1> QED  BY <1>1, <1>3, PTL DEF Spec

-----------------------------------------------------------------------------
(***************************************************************************)
(* Repeated proofs.  Of the holder's types only the domains matter.        *)
(***************************************************************************)
PerValue(f) == f = [h \in Holders |-> [v \in Values |-> f[h][v]]]

HolderShape == PerValue(handOut) /\ PerValue(again)

Noted == HolderShape /\ AgainOnlyWhileRunning

(* The hand-out under one value is set, that of no other changes. *)
HandOutSet(h, v, x) == handOut' = [handOut EXCEPT ![h][v] = x]

LEMMA SettledNotes ==
  ASSUME Noted, NEW h \in Holders, NEW v \in Values, NEW x, HandOutSet(h, v, x),
         again' = [again EXCEPT ![h][v] = NoRun] \/ (UNCHANGED again /\ again[h][v] = NoRun)
  PROVE  Noted'
  <1>1. HolderShape'
    BY DEF Noted, HolderShape, HandOutSet, PerValue
  <1> SUFFICES ASSUME NEW g \in Holders, NEW w \in Values, again'[g][w] # NoRun
               PROVE  handOut'[g][w].run # NoRun
    BY <1>1 DEF Noted, AgainOnlyWhileRunning, Running
  <1>2. again'[h][v] = NoRun
    BY DEF Noted, HolderShape, PerValue
  <1>3. CASE g = h /\ w = v
    BY <1>2, <1>3
  <1>4. CASE ~(g = h /\ w = v)
    <2>1. again'[g][w] = again[g][w]
      BY <1>4 DEF Noted, HolderShape, PerValue
    <2>2. handOut'[g][w] = handOut[g][w]
      BY <1>4 DEF Noted, HolderShape, HandOutSet, PerValue
    <2> QED  BY <2>1, <2>2 DEF Noted, AgainOnlyWhileRunning, Running
  <1> QED  BY <1>3, <1>4

LEMMA HandOutStep ==
  ASSUME Noted, NEW h \in Holders, NEW v \in Values, NEW old,
         HandOutNext(h, v) \/ HandOutEnds(h, v, old)
  PROVE  Noted'
  <1>1. CASE HandOutNext(h, v)
    <2>1. PICK x : HandOutSet(h, v, x) /\ x.run = handOut[h][v].run
      <3> DEFINE s == handOut[h][v].left
      <3>1. HandsOut(h, v, held[h][v], s, handOut[h][v].came, handOut[h][v].run)
        BY <1>1, Zenon DEF HandOutNext
      <3>2. PICK k : handOut' = [handOut EXCEPT ![h][v] =
              [left |-> SubSeq(s, k + 1, Len(s)), came |-> handOut[h][v].came + 1,
               run |-> handOut[h][v].run]]
        BY <3>1, Zenon DEF HandsOut
      <3> DEFINE x == [left |-> SubSeq(s, k + 1, Len(s)), came |-> handOut[h][v].came + 1,
                       run |-> handOut[h][v].run]
      <3>3. HandOutSet(h, v, x) /\ x.run = handOut[h][v].run
        BY <3>2 DEF HandOutSet
      <3> QED  BY <3>3
    <2>2. HolderShape'
      BY <1>1, <2>1 DEF Noted, HolderShape, HandOutSet, PerValue, HandOutNext
    <2>3. ASSUME NEW g \in Holders, NEW w \in Values
          PROVE  handOut'[g][w].run = handOut[g][w].run
      <3>1. CASE g = h /\ w = v
        BY <2>1, <3>1 DEF Noted, HolderShape, HandOutSet, PerValue
      <3>2. CASE ~(g = h /\ w = v)
        BY <2>1, <3>2 DEF Noted, HolderShape, HandOutSet, PerValue
      <3> QED  BY <3>1, <3>2
    <2> QED  BY <1>1, <2>2, <2>3 DEF HandOutNext, Noted, AgainOnlyWhileRunning, Running
  <1>2. CASE HandOutEnds(h, v, old)
    <2>1. again' = [again EXCEPT ![h][v] = NoRun]
      BY <1>2 DEF HandOutEnds
    <2>2. \E x : HandOutSet(h, v, x)
      BY <1>2 DEF HandOutEnds, Answers, HandsOut, HandOutSet
    <2> QED  BY <2>1, <2>2, SettledNotes
  <1> QED  BY <1>1, <1>2

LEMMA ProofStep ==
  ASSUME Noted, NEW h \in Holders, NEW v \in Values, NEW n, NEW old, OnProof(h, v, n, old)
  PROVE  Noted'
  <1>1. PICK t \in tasks[h] :
          IF Running(h, v)
             THEN again' = [again EXCEPT ![h][v] = t.run] /\ UNCHANGED handOut
             ELSE Answers(h, v, t.run, old) /\ UNCHANGED again
    BY DEF OnProof
  <1>2. CASE Running(h, v)
    <2>1. again' = [again EXCEPT ![h][v] = t.run] /\ UNCHANGED handOut
      BY <1>1, <1>2
    <2>2. HolderShape'
      BY <1>1, <2>1 DEF Noted, HolderShape, PerValue
    <2>3. ASSUME NEW g \in Holders, NEW w \in Values, ~(g = h /\ w = v)
          PROVE  again'[g][w] = again[g][w]
      BY <2>1, <2>3 DEF Noted, HolderShape, PerValue
    <2> QED  BY <1>2, <2>1, <2>2, <2>3 DEF Noted, AgainOnlyWhileRunning, Running
  <1>3. CASE ~Running(h, v)
    <2>1. Answers(h, v, t.run, old) /\ UNCHANGED again
      BY <1>1, <1>3
    <2>2. \E x : HandOutSet(h, v, x)
      BY <2>1 DEF Answers, HandsOut, HandOutSet
    <2>3. again[h][v] = NoRun
      BY <1>3 DEF Noted, AgainOnlyWhileRunning
    <2> QED  BY <1>1, <2>1, <2>2, <2>3, SettledNotes
  <1> QED  BY <1>2, <1>3

LEMMA RestartStep ==
  ASSUME Noted, NEW h \in Holders, NEW old, HolderRestarts(h, old)
  PROVE  Noted'
  <1>1. HolderShape'
    BY DEF Noted, HolderShape, PerValue, HolderRestarts
  <1>2. ASSUME NEW v \in Values  PROVE again'[h][v] = NoRun
    BY DEF Noted, HolderShape, PerValue, HolderRestarts
  <1>3. ASSUME NEW g \in Holders, NEW v \in Values, g # h
        PROVE  again'[g][v] = again[g][v] /\ handOut'[g][v] = handOut[g][v]
    BY <1>3 DEF Noted, HolderShape, PerValue, HolderRestarts
  <1> QED  BY <1>1, <1>2, <1>3 DEF Noted, AgainOnlyWhileRunning, Running

LEMMA OtherHolderStep ==
  ASSUME Noted, UNCHANGED <<handOut, again>>
  PROVE  Noted'
  BY DEF Noted, HolderShape, PerValue, AgainOnlyWhileRunning, Running

LEMMA HolderNotes ==
  ASSUME Noted, HolderStep  PROVE Noted'
  <1>1. PICK h \in Holders :
          \/ \E e \in Entries, old \in Old : Deposit(h, e, old)
          \/ \E r \in Runs : OnCollect(h, r)
          \/ \E t \in tasks[h] : TaskExpires(h, t)
          \/ \E v \in Values : ProofExpires(h, v) \/ HandOutNext(h, v)
          \/ \E v \in Values, old \in Old : HandOutEnds(h, v, old)
          \/ \E v \in Values, n \in Randoms : RefusedProof(h, v, n)
          \/ \E v \in Values, n \in Randoms, old \in Old : OnProof(h, v, n, old)
          \/ \E e \in Entries, n \in Randoms : OnDelete(h, e, n)
          \/ \E old \in [Values -> Old] : HolderRestarts(h, old)
    BY DEF HolderStep
  <1>2. ASSUME NEW e, NEW old, Deposit(h, e, old)  PROVE Noted'
    BY <1>2, OtherHolderStep DEF Deposit
  <1>3. ASSUME NEW r, OnCollect(h, r)  PROVE Noted'
    BY <1>3, OtherHolderStep DEF OnCollect
  <1>4. ASSUME NEW t, TaskExpires(h, t)  PROVE Noted'
    BY <1>4, OtherHolderStep DEF TaskExpires
  <1>5. ASSUME NEW v \in Values, ProofExpires(h, v)  PROVE Noted'
    BY <1>5, OtherHolderStep DEF ProofExpires
  <1>6. ASSUME NEW v \in Values, NEW old, HandOutNext(h, v) \/ HandOutEnds(h, v, old)
        PROVE  Noted'
    BY <1>6, HandOutStep
  <1>7. ASSUME NEW v, NEW n, RefusedProof(h, v, n)  PROVE Noted'
    BY <1>7, OtherHolderStep DEF RefusedProof, holderVars
  <1>8. ASSUME NEW v \in Values, NEW n, NEW old, OnProof(h, v, n, old)  PROVE Noted'
    BY <1>8, ProofStep
  <1>9. ASSUME NEW e, NEW n, OnDelete(h, e, n)  PROVE Noted'
    BY <1>9, OtherHolderStep DEF OnDelete
  <1>10. ASSUME NEW old, HolderRestarts(h, old)  PROVE Noted'
    BY <1>10, RestartStep
  <1> QED
    BY <1>1, <1>2, <1>3, <1>4, <1>5, <1>6, <1>7, <1>8, <1>9, <1>10

(***************************************************************************)
(* A question noted for a repeated proof is noted under a running hand-out *)
(* only, whose end answers it.                                             *)
(***************************************************************************)
THEOREM NoNoteForgotten == Spec => []AgainOnlyWhileRunning
  <1>1. Init => Noted
    BY DEF Init, HolderInit, Noted, HolderShape, PerValue, AgainOnlyWhileRunning
  <1>2. Noted /\ [Next]_vars => Noted'
    <2> SUFFICES ASSUME Noted, [Next]_vars  PROVE Noted'
      OBVIOUS
    <2>1. CASE HolderStep
      BY <2>1, HolderNotes
    <2>2. CASE UNCHANGED holderVars
      BY <2>2, OtherHolderStep DEF holderVars
    <2> QED  BY <2>1, <2>2 DEF Next, Refused, vars
  <1>3. Noted => AgainOnlyWhileRunning
    BY DEF Noted
  <1> QED  BY <1>1, <1>2, <1>3, PTL DEF Spec

-----------------------------------------------------------------------------
(***************************************************************************)
(* The types.  Only the count of what came needs care: it stays within the *)
(* number of entries, which is finite.                                     *)
(***************************************************************************)
HeldType == held \in [Holders -> [Values -> Seq(Entries)]]

LEMMA LaterPart ==
  ASSUME NEW S, NEW s \in Seq(S), NEW k \in Nat
  PROVE  SubSeq(s, k + 1, Len(s)) \in Seq(S)
  <1>1. CASE k + 1 \in 1 .. Len(s)
    BY <1>1
  <1>2. CASE k + 1 > Len(s)
    BY <1>2
  <1> QED  BY <1>1, <1>2

LEMMA PurgedType ==
  ASSUME NEW s \in Seq(Entries), NEW old \in Nat
  PROVE  Purged(s, old) \in Seq(Entries)
  BY LaterPart DEF Purged

LEMMA OldType == Old \subseteq Nat
  BY PerValueAssumption DEF Old

LEMMA WithoutType ==
  ASSUME NEW s \in Seq(Entries), NEW i \in 1 .. Len(s)
  PROVE  SubSeq(s, 1, i - 1) \o SubSeq(s, i + 1, Len(s)) \in Seq(Entries)
  <1>1. SubSeq(s, i + 1, Len(s)) \in Seq(Entries)
    BY LaterPart
  <1>2. SubSeq(s, 1, i - 1) \in Seq(Entries)
    OBVIOUS
  <1> QED  BY <1>1, <1>2, ConcatProperties

LEMMA HandsOutType ==
  ASSUME HolderTypeOK, NEW h \in Holders, NEW v \in Values, NEW list,
         NEW s \in Seq(Entries), NEW came \in Nat, NEW r \in Runs,
         HandsOut(h, v, list, s, came, r)
  PROVE  handOut' \in [Holders -> [Values ->
            [left : Seq(Entries), came : Nat, run : Runs \cup {NoRun}]]]
  <1>1. PICK k \in StillLying(list, s) : handOut' = [handOut EXCEPT ![h][v] =
            [left |-> SubSeq(s, k + 1, Len(s)), came |-> came + 1, run |-> r]]
    BY Zenon DEF HandsOut
  <1>0. k \in Nat
    BY DEF StillLying
  <1>2. SubSeq(s, k + 1, Len(s)) \in Seq(Entries)
    BY <1>0, LaterPart
  <1> QED  BY <1>1, <1>2 DEF HolderTypeOK

LEMMA AnswersType ==
  ASSUME HolderTypeOK, NEW h \in Holders, NEW v \in Values, NEW r \in Runs,
         NEW old \in Nat, Answers(h, v, r, old)
  PROVE  /\ held' \in [Holders -> [Values -> Seq(Entries)]]
         /\ handOuts' \in [Holders -> [Values -> Seq(Runs)]]
         /\ handOut' \in [Holders -> [Values ->
               [left : Seq(Entries), came : Nat, run : Runs \cup {NoRun}]]]
  <1>1. Purged(held[h][v], old) \in Seq(Entries)
    BY PurgedType DEF HolderTypeOK
  <1>2. held' \in [Holders -> [Values -> Seq(Entries)]]
    BY <1>1 DEF Answers, HolderTypeOK
  <1>3. handOuts' \in [Holders -> [Values -> Seq(Runs)]]
    BY DEF Answers, HolderTypeOK
  <1>4. CASE HandsOut(h, v, Purged(held[h][v], old), Purged(held[h][v], old), 0, r)
    BY <1>1, <1>2, <1>3, <1>4, HandsOutType
  <1>5. CASE handOut' = [handOut EXCEPT ![h][v] = NoHandOut]
    BY <1>2, <1>3, <1>5 DEF HolderTypeOK, NoHandOut
  <1> QED  BY <1>4, <1>5 DEF Answers

LEMMA HolderTypes ==
  ASSUME HolderTypeOK, HolderStep  PROVE HolderTypeOK'
  <1>1. PICK h \in Holders :
          \/ \E e \in Entries, old \in Old : Deposit(h, e, old)
          \/ \E r \in Runs : OnCollect(h, r)
          \/ \E t \in tasks[h] : TaskExpires(h, t)
          \/ \E v \in Values : ProofExpires(h, v) \/ HandOutNext(h, v)
          \/ \E v \in Values, old \in Old : HandOutEnds(h, v, old)
          \/ \E v \in Values, n \in Randoms : RefusedProof(h, v, n)
          \/ \E v \in Values, n \in Randoms, old \in Old : OnProof(h, v, n, old)
          \/ \E e \in Entries, n \in Randoms : OnDelete(h, e, n)
          \/ \E old \in [Values -> Old] : HolderRestarts(h, old)
    BY DEF HolderStep
  <1>2. ASSUME NEW e \in Entries, NEW old \in Old, Deposit(h, e, old)
        PROVE  HolderTypeOK'
    <2> DEFINE list == Append(Purged(held[h][ValueOf[e]], old), e)
    <2>1. ValueOf[e] \in Values
      BY ValueOfAssumption
    <2>2. list \in Seq(Entries) /\ Len(list) > 0
      <3>1. Purged(held[h][ValueOf[e]], old) \in Seq(Entries)
        BY <2>1, OldType, PurgedType DEF HolderTypeOK
      <3> QED  BY <3>1
    <2>3. (IF Len(list) > PerValueAtMost THEN Tail(list) ELSE list) \in Seq(Entries)
      BY <2>2
    <2>4. held' = [held EXCEPT ![h][ValueOf[e]] =
              IF Len(list) > PerValueAtMost THEN Tail(list) ELSE list]
      BY <1>2 DEF Deposit
    <2> HIDE DEF list
    <2>5. HeldType'
      BY <2>1, <2>3, <2>4 DEF HolderTypeOK, HeldType
    <2> QED  BY <1>2, <2>5 DEF Deposit, HolderTypeOK, HeldType
  <1>3. ASSUME NEW r \in Runs, OnCollect(h, r)  PROVE HolderTypeOK'
    <2>1. issued[h] + 1 \in Randoms
      BY <1>3, MaxTasksAssumption DEF OnCollect, HolderTypeOK, Randoms
    <2>2. [random |-> issued[h] + 1, run |-> r, open |-> TRUE] \in Tasks
      BY <2>1 DEF Tasks
    <2>3. tasks' \in [Holders -> SUBSET Tasks]
      BY <1>3, <2>2 DEF OnCollect, HolderTypeOK
    <2>4. issued' \in [Holders -> 0 .. MaxTasks]
      BY <1>3, <2>1, MaxTasksAssumption DEF OnCollect, HolderTypeOK, Randoms
    <2> QED  BY <1>3, <2>3, <2>4 DEF OnCollect, HolderTypeOK
  <1>4. ASSUME NEW t \in tasks[h], TaskExpires(h, t)  PROVE HolderTypeOK'
    <2>1. t \in Tasks
      BY DEF HolderTypeOK
    <2>2. [t EXCEPT !.open = FALSE] \in Tasks
      BY <2>1 DEF Tasks
    <2>3. tasks' \in [Holders -> SUBSET Tasks]
      BY <1>4, <2>2 DEF TaskExpires, HolderTypeOK
    <2> QED  BY <1>4, <2>3 DEF TaskExpires, HolderTypeOK
  <1>5. ASSUME NEW v \in Values, ProofExpires(h, v)  PROVE HolderTypeOK'
    BY <1>5 DEF ProofExpires, HolderTypeOK
  <1>6. ASSUME NEW v \in Values, HandOutNext(h, v)  PROVE HolderTypeOK'
    <2>1. handOut[h][v] \in [left : Seq(Entries), came : Nat, run : Runs \cup {NoRun}]
      BY DEF HolderTypeOK
    <2>2. handOut[h][v].run \in Runs
      BY <1>6, <2>1 DEF HandOutNext, Running
    <2>3. HandsOut(h, v, held[h][v], handOut[h][v].left, handOut[h][v].came,
                   handOut[h][v].run)
      BY <1>6, Zenon DEF HandOutNext
    <2>4. handOut' \in [Holders -> [Values ->
              [left : Seq(Entries), came : Nat, run : Runs \cup {NoRun}]]]
      BY <2>1, <2>2, <2>3, HandsOutType
    <2> QED  BY <1>6, <2>4 DEF HandOutNext, HolderTypeOK
  <1>7. ASSUME NEW v \in Values, NEW old \in Old, HandOutEnds(h, v, old)
        PROVE  HolderTypeOK'
    <2>1. again' \in [Holders -> [Values -> Runs \cup {NoRun}]]
      BY <1>7 DEF HandOutEnds, HolderTypeOK
    <2>2. CASE again[h][v] = NoRun
      <3>1. handOut' = [handOut EXCEPT ![h][v] = NoHandOut]
        BY <1>7, <2>2 DEF HandOutEnds
      <3>2. handOut' \in [Holders -> [Values ->
              [left : Seq(Entries), came : Nat, run : Runs \cup {NoRun}]]]
        BY <3>1 DEF HolderTypeOK, NoHandOut
      <3> QED  BY <1>7, <2>1, <2>2, <3>2 DEF HandOutEnds, HolderTypeOK
    <2>3. CASE again[h][v] # NoRun
      <3>1. again[h][v] \in Runs /\ old \in Nat
        BY <2>3, OldType DEF HolderTypeOK
      <3>2. Answers(h, v, again[h][v], old)
        BY <1>7, <2>3 DEF HandOutEnds
      <3> QED  BY <1>7, <2>1, <3>1, <3>2, AnswersType DEF HandOutEnds, HolderTypeOK
    <2> QED  BY <2>2, <2>3
  <1>8. ASSUME NEW v, NEW n, RefusedProof(h, v, n)  PROVE HolderTypeOK'
    BY <1>8 DEF RefusedProof, holderVars, HolderTypeOK
  <1>9. ASSUME NEW v \in Values, NEW n \in Randoms, NEW old \in Old, OnProof(h, v, n, old)
        PROVE  HolderTypeOK'
    <2>1. PICK t \in tasks[h] :
            /\ proven' = [proven EXCEPT ![h][v] = n]
            /\ IF Running(h, v)
                  THEN /\ again' = [again EXCEPT ![h][v] = t.run]
                       /\ UNCHANGED <<held, handOut, handOuts>>
                  ELSE Answers(h, v, t.run, old) /\ UNCHANGED again
      BY <1>9 DEF OnProof
    <2>2. t.run \in Runs /\ old \in Nat
      BY OldType DEF HolderTypeOK, Tasks
    <2>3. proven' \in [Holders -> [Values -> Randoms \cup {NoTask}]]
      BY <2>1 DEF HolderTypeOK
    <2>4. again' \in [Holders -> [Values -> Runs \cup {NoRun}]]
      <3>1. again \in [Holders -> [Values -> Runs \cup {NoRun}]]
        BY DEF HolderTypeOK
      <3>2. again' = [again EXCEPT ![h][v] = t.run] \/ UNCHANGED again
        BY <2>1
      <3> QED  BY <2>2, <3>1, <3>2
    <2>5. UNCHANGED <<tasks, issued>>
      BY <1>9 DEF OnProof
    <2>6. CASE Running(h, v)
      BY <2>1, <2>3, <2>4, <2>5, <2>6 DEF HolderTypeOK
    <2>7. CASE ~Running(h, v)
      <3>1. Answers(h, v, t.run, old)
        BY <2>1, <2>7
      <3> QED  BY <2>2, <2>3, <2>4, <2>5, <3>1, AnswersType DEF HolderTypeOK
    <2> QED  BY <2>6, <2>7
  <1>10. ASSUME NEW e \in Entries, NEW n, OnDelete(h, e, n)  PROVE HolderTypeOK'
    <2> DEFINE list == held[h][ValueOf[e]]
    <2>1. PICK i \in 1 .. Len(list) :
            held' = [held EXCEPT ![h][ValueOf[e]] =
                SubSeq(list, 1, i - 1) \o SubSeq(list, i + 1, Len(list))]
      BY <1>10, Zenon DEF OnDelete
    <2>2. ValueOf[e] \in Values
      BY ValueOfAssumption
    <2>3. list \in Seq(Entries)
      BY <2>2 DEF HolderTypeOK
    <2>4. SubSeq(list, 1, i - 1) \o SubSeq(list, i + 1, Len(list)) \in Seq(Entries)
      BY <2>3, WithoutType
    <2>5. HeldType'
      BY <2>1, <2>2, <2>4 DEF HolderTypeOK, HeldType
    <2> QED  BY <1>10, <2>5 DEF OnDelete, HolderTypeOK, HeldType
  <1>11. ASSUME NEW old \in [Values -> Old], HolderRestarts(h, old)  PROVE HolderTypeOK'
    <2>1. ASSUME NEW v \in Values  PROVE Purged(held[h][v], old[v]) \in Seq(Entries)
      BY OldType, PurgedType DEF HolderTypeOK
    <2>2. HeldType'
      BY <1>11, <2>1 DEF HolderRestarts, HolderTypeOK, HeldType
    <2>3. NoHandOut \in [left : Seq(Entries), came : Nat, run : Runs \cup {NoRun}]
      BY DEF NoHandOut
    <2>4. handOut' \in [Holders -> [Values ->
              [left : Seq(Entries), came : Nat, run : Runs \cup {NoRun}]]]
      BY <1>11, <2>3 DEF HolderRestarts, HolderTypeOK
    <2>5. proven' \in [Holders -> [Values -> Randoms \cup {NoTask}]]
      BY <1>11 DEF HolderRestarts, HolderTypeOK
    <2>6. again' \in [Holders -> [Values -> Runs \cup {NoRun}]]
      BY <1>11 DEF HolderRestarts, HolderTypeOK
    <2>7. tasks' \in [Holders -> SUBSET Tasks]
      BY <1>11 DEF HolderRestarts, HolderTypeOK
    <2> QED  BY <1>11, <2>2, <2>4, <2>5, <2>6, <2>7 DEF HolderRestarts, HolderTypeOK, HeldType
  <1> QED
    BY <1>1, <1>2, <1>3, <1>4, <1>5, <1>6, <1>7, <1>8, <1>9, <1>10, <1>11

-----------------------------------------------------------------------------
RowsType ==
    /\ rows \in [Holders -> Seq(Runs)]
    /\ \A h \in Holders : Len(rows[h]) <= RowAtMost
    /\ late \in Seq(Talks) /\ Len(late) <= LateAtMost
    /\ end \in [Talks -> Ends]

CountsType ==
    /\ expected \in [Talks -> [Values -> 0 .. NotYet]]
    /\ handed \in [Talks -> [Values -> SUBSET Entries]]

LEMMA EntriesCounted ==
  /\ Cardinality(Entries) \in Nat /\ NotYet \in Nat
  /\ \A d \in SUBSET Entries : IsFiniteSet(d) /\ Cardinality(d) \in 0 .. Cardinality(Entries)
  <1>1. Cardinality(Entries) \in Nat
    BY EntriesAssumption, FS_CardinalityType
  <1>2. ASSUME NEW d \in SUBSET Entries
        PROVE  IsFiniteSet(d) /\ Cardinality(d) \in 0 .. Cardinality(Entries)
    <2>1. IsFiniteSet(d) /\ Cardinality(d) <= Cardinality(Entries)
      BY EntriesAssumption, FS_Subset
    <2>2. Cardinality(d) \in Nat
      BY <2>1, FS_CardinalityType
    <2> QED  BY <1>1, <2>1, <2>2
  <1> QED  BY <1>1, <1>2 DEF NotYet

LEMMA EndType ==
  ASSUME CollectorTypeOK, NEW h \in Holders, NEW how \in Ends, NEW P, rows[h] # <<>>,
         EndOf(h, how, P)
  PROVE  RowsType'
  <1>1. /\ Tail(rows[h]) \in Seq(Runs) /\ Head(rows[h]) \in Runs
        /\ Len(Tail(rows[h])) <= RowAtMost
    <2>1. rows[h] \in Seq(Runs) /\ Len(rows[h]) <= RowAtMost /\ RowAtMost \in Nat
      BY CollectorBounds DEF CollectorTypeOK
    <2> QED  BY <2>1
  <1>2. ASSUME NEW row, rows' = [rows EXCEPT ![h] = row], row = <<>> \/ row = Tail(rows[h])
        PROVE  /\ rows' \in [Holders -> Seq(Runs)]
               /\ \A g \in Holders : Len(rows'[g]) <= RowAtMost
    <2>1. row \in Seq(Runs) /\ Len(row) <= RowAtMost
      <3>1. <<>> \in Seq(Runs) /\ Len(<<>>) <= RowAtMost
        BY CollectorBounds
      <3>2. CASE row = <<>>
        BY <3>1, <3>2
      <3>3. CASE row = Tail(rows[h])
        BY <1>1, <3>3
      <3> QED  BY <1>2, <3>2, <3>3
    <2> QED  BY <1>2, <2>1 DEF CollectorTypeOK
  <1>3. /\ rows' \in [Holders -> Seq(Runs)]
        /\ \A g \in Holders : Len(rows'[g]) <= RowAtMost
    BY <1>2 DEF EndOf
  <1>4. Append(late, Head1(h)) \in Seq(Talks)
    BY <1>1 DEF Head1, Talks, CollectorTypeOK
  <1>5. ASSUME NEW s \in Seq(Talks)
        PROVE  Newest(s, LateAtMost) \in Seq(Talks) /\ Len(Newest(s, LateAtMost)) <= LateAtMost
    <2>0. LateAtMost \in Nat
      BY CollectorBounds
    <2>1. CASE Len(s) > LateAtMost
      <3>1. SubSeq(s, Len(s) - LateAtMost + 1, Len(s)) \in Seq(Talks)
        BY <2>0, <2>1, LaterPart
      <3>2. Len(SubSeq(s, Len(s) - LateAtMost + 1, Len(s))) = LateAtMost
        BY <2>0, <2>1
      <3> QED  BY <2>0, <2>1, <3>1, <3>2 DEF Newest
    <2>2. CASE ~(Len(s) > LateAtMost)
      BY <2>0, <2>2 DEF Newest
    <2> QED  BY <2>1, <2>2
  <1>6. late' \in Seq(Talks) /\ Len(late') <= LateAtMost
    BY <1>4, <1>5 DEF EndOf, CollectorTypeOK
  <1>7. end' \in [Talks -> Ends]
    BY DEF EndOf, CollectorTypeOK, Ends
  <1> QED  BY <1>3, <1>6, <1>7 DEF RowsType

LEMMA AnswerType ==
  ASSUME CollectorTypeOK, NEW h \in Holders, NEW c \in Talks, NEW v, NEW x \in 0 .. NotYet,
         NEW d \in SUBSET Entries, NEW P, Counts(h, c, v, x, d, P)
  PROVE  RowsType' /\ CountsType'
  <1>1. CountsType'
    BY DEF Counts, CollectorTypeOK, CountsType
  <1>2. CASE Talking(h) /\ EndOf(h, "answered", P)
    BY <1>1, <1>2, EndType DEF Talking, Ends
  <1>3. CASE UNCHANGED <<rows, late, end>>
    BY <1>1, <1>3 DEF CollectorTypeOK, RowsType
  <1> QED  BY <1>2, <1>3 DEF Counts

LEMMA HeardType ==
  ASSUME CollectorTypeOK, NEW h \in Holders, NEW r, Heard(h, r)
  PROVE  fresh' \in SUBSET Talks
  <1>1. Named(h, r) \subseteq Talks
    BY DEF Named, Talking, IsLate, Talks, CollectorTypeOK
  <1> QED  BY <1>1 DEF Heard, CollectorTypeOK

LEMMA TypeIsShape ==
  ASSUME CollectorTypeOK  PROVE Shape
  BY DEF CollectorTypeOK, Shape

LEMMA CollectorTypes ==
  ASSUME CollectorTypeOK, CollectorStep \/ Refused  PROVE CollectorTypeOK'
  <1>a. ASSUME NEW h \in Holders, NEW c \in Talks, NEW v \in Values
        PROVE  /\ handed[c][v] \in SUBSET Entries
               /\ Cardinality(handed[c][v]) \in 0 .. NotYet
    <2>1. handed[c][v] \in SUBSET Entries
      BY DEF CollectorTypeOK
    <2> QED  BY <2>1, EntriesCounted DEF NotYet
  <1>b. 0 \in 0 .. NotYet /\ NotYet \in 0 .. NotYet
    BY EntriesCounted
  <1>1. ASSUME NEW r \in Runs, NEW H \in SUBSET Holders, Collect(r, H)
        PROVE  CollectorTypeOK'
    <2>1. ASSUME NEW g \in Holders
          PROVE  rows'[g] \in Seq(Runs) /\ Len(rows'[g]) <= RowAtMost
      <3>1. rows[g] \in Seq(Runs) /\ Len(rows[g]) <= RowAtMost /\ RowAtMost \in Nat
        BY CollectorBounds DEF CollectorTypeOK
      <3>2. CASE rows'[g] = rows[g]
        BY <3>1, <3>2
      <3>3. CASE rows'[g] = Append(rows[g], r) /\ Len(rows[g]) < RowAtMost
        BY <3>1, <3>3
      <3> QED  BY <1>1, <3>1, <3>2, <3>3 DEF Collect
    <2>2. rows' \in [Holders -> Seq(Runs)]
      BY <1>1, <2>1 DEF Collect
    <2>3. end' \in [Talks -> Ends]
      BY <1>1 DEF Collect, CollectorTypeOK, Ends
    <2> QED  BY <1>1, <2>1, <2>2, <2>3 DEF Collect, CollectorTypeOK
  <1>2. ASSUME NEW h \in Holders, Unreachable(h)  PROVE CollectorTypeOK'
    <2>1. RowsType'
      BY <1>2, EndType DEF Unreachable, Talking, Ends
    <2> QED  BY <1>2, <2>1 DEF Unreachable, RowsType, CollectorTypeOK
  <1>3. ASSUME NEW h \in Holders, Quiet(h)  PROVE CollectorTypeOK'
    <2> DEFINE c == Head1(h)
    <2>1. c \in Talks /\ rows[h] # <<>>
      BY <1>3 DEF Quiet, Talking, Head1, Talks, CollectorTypeOK
    <2>2. UNCHANGED <<random, seen, closed>>
      BY <1>3 DEF Quiet
    <2>3. CASE EndOf(h, "quiet", {}) /\ UNCHANGED <<expected, handed, fresh, rounds>>
      <3>1. RowsType'
        BY <2>1, <2>3, EndType DEF Ends
      <3> QED  BY <2>2, <2>3, <3>1 DEF RowsType, CollectorTypeOK
    <2>4. CASE /\ ~(Counted(c) > Repeats)
               /\ rounds' = [rounds EXCEPT ![c] = Counted(c)]
               /\ fresh' = fresh \ {c}
               /\ UNCHANGED <<rows, late, end>>
      <3>1. Counted(c) \in 0 .. Repeats
        BY <2>1, <2>4, CollectorBounds DEF Counted, CollectorTypeOK
      <3>2. rounds' \in [Talks -> 0 .. Repeats] /\ fresh' \in SUBSET Talks
        BY <2>4, <3>1 DEF CollectorTypeOK
      <3>3. CountsType'
        <4> DEFINE undone == {v \in Asks[c[1]] : ~Done(expected[c][v], handed[c][v])}
        <4>1. CASE UNCHANGED <<expected, handed>>
          BY <4>1 DEF CollectorTypeOK, CountsType
        <4>2. CASE /\ expected' = [expected EXCEPT ![c] =
                         [v \in Values |-> IF v \in undone THEN NotYet ELSE @[v]]]
                   /\ handed' = [handed EXCEPT ![c] =
                         [v \in Values |-> IF v \in undone THEN {} ELSE @[v]]]
          <5> HIDE DEF undone
          <5> QED  BY <1>b, <2>1, <4>2 DEF CollectorTypeOK, CountsType
        <4> QED  BY <1>3, <2>4, <4>1, <4>2, Zenon DEF Quiet
      <3> QED  BY <2>2, <2>4, <3>2, <3>3 DEF CountsType, CollectorTypeOK
    <2> QED  BY <1>3, <2>3, <2>4, Zenon DEF Quiet
  <1>4. ASSUME NEW h \in Holders, NEW r \in Runs, NEW n \in Randoms, OnTask(h, r, n)
        PROVE  CollectorTypeOK'
    <2>1. fresh' \in SUBSET Talks
      BY <1>4, HeardType DEF OnTask
    <2>2. random' \in [Talks -> Randoms \cup {NoTask}]
      BY <1>4 DEF OnTask, CollectorTypeOK
    <2> QED  BY <1>4, <2>1, <2>2 DEF OnTask, CollectorTypeOK
  <1>5. ASSUME NEW h \in Holders, NEW r \in Runs, NEW e \in Entries,
               NEW n \in 1 .. Cardinality(Entries), NEW takes \in BOOLEAN,
               OnPiece(h, e, n, r, takes)
        PROVE  CollectorTypeOK'
    <2>1. PICK c \in Asking(h, r, ValueOf[e]) :
            /\ seen' = [seen EXCEPT ![c[1]] = IF takes THEN @ \cup {e} ELSE @]
            /\ Counts(h, c, ValueOf[e], n, handed[c][ValueOf[e]] \cup {e},
                      Acknowledged(h, c[1], e, takes))
      BY <1>5 DEF OnPiece
    <2>2. c \in Talks
      BY <2>1, AskingTalks, TypeIsShape
    <2>3. ValueOf[e] \in Values
      BY ValueOfAssumption
    <2>4. handed[c][ValueOf[e]] \cup {e} \in SUBSET Entries /\ n \in 0 .. NotYet
      BY <1>a, <2>2, <2>3, EntriesCounted DEF NotYet
    <2>5. RowsType' /\ CountsType'
      BY <2>1, <2>2, <2>4, AnswerType
    <2>6. fresh' \in SUBSET Talks
      BY <1>5, HeardType DEF OnPiece
    <2>7. seen' \in [Runs -> SUBSET Entries]
      BY <2>1 DEF CollectorTypeOK
    <2> QED  BY <1>5, <2>5, <2>6, <2>7 DEF OnPiece, RowsType, CountsType, CollectorTypeOK
  <1>6. ASSUME NEW h \in Holders, NEW v \in Values, NEW r \in Runs, OnNothing(h, v, r)
        PROVE  CollectorTypeOK'
    <2>1. PICK c \in Asking(h, r, v) : Counts(h, c, v, 0, handed[c][v], {})
      BY <1>6 DEF OnNothing
    <2>2. c \in Talks
      BY <2>1, AskingTalks, TypeIsShape
    <2>3. RowsType' /\ CountsType'
      BY <1>a, <1>b, <2>1, <2>2, AnswerType
    <2>4. fresh' \in SUBSET Talks
      BY <1>6, HeardType DEF OnNothing
    <2> QED  BY <1>6, <2>3, <2>4 DEF OnNothing, RowsType, CountsType, CollectorTypeOK
  <1>7. ASSUME NEW h \in Holders, NEW v, NEW r, OnUnfitting(h, v, r)  PROVE CollectorTypeOK'
    <2>1. fresh' \in SUBSET Talks
      BY <1>7, HeardType DEF OnUnfitting
    <2> QED  BY <1>7, <2>1 DEF OnUnfitting, CollectorTypeOK
  <1>8. ASSUME NEW h \in Holders, NEW v \in Values, NEW r, OnRefusal(h, v, r)
        PROVE  CollectorTypeOK'
    <2>1. PICK c \in Asking(h, r, v) :
            Counts(h, c, v, Cardinality(handed[c][v]), handed[c][v], {})
      BY <1>8 DEF OnRefusal
    <2>2. c \in Talks
      BY <2>1, AskingTalks, TypeIsShape
    <2>3. RowsType' /\ CountsType'
      BY <1>a, <2>1, <2>2, AnswerType
    <2>4. fresh' \in SUBSET Talks
      BY <1>8, HeardType DEF OnRefusal
    <2> QED  BY <1>8, <2>3, <2>4 DEF OnRefusal, RowsType, CountsType, CollectorTypeOK
  <1>9. ASSUME Close  PROVE CollectorTypeOK'
    <2>1. /\ rows' \in [Holders -> Seq(Runs)]
          /\ \A h \in Holders : Len(rows'[h]) <= RowAtMost
          /\ late' \in Seq(Talks) /\ Len(late') <= LateAtMost
      BY <1>9, CollectorBounds DEF Close
    <2>2. end' \in [Talks -> Ends]
      BY <1>9 DEF Close, CollectorTypeOK, Ends
    <2> QED  BY <1>9, <2>1, <2>2 DEF Close, CollectorTypeOK
  <1> QED
    BY <1>1, <1>2, <1>3, <1>4, <1>5, <1>6, <1>7, <1>8, <1>9 DEF CollectorStep, Refused

LEMMA MissingType ==
  ASSUME TypeOK, NEW S, Settles(S)
  PROVE  /\ missing' \in [Talks -> SUBSET Entries]
         /\ returned' \in SUBSET (Holders \X Values)
  <1>1. returned' \in SUBSET (Holders \X Values)
    BY DEF Settles, TypeOK
  <1>2. ASSUME NEW c \in Talks  PROVE missing[c] \subseteq Entries
    BY DEF TypeOK
  <1>3. missing' \in [Talks -> SUBSET Entries]
    BY <1>2, Zenon DEF Settles
  <1> QED  BY <1>1, <1>3

(***************************************************************************)
(* Every variable keeps its type: the row of a holder never holds more     *)
(* questions than _row admits, no more than kLateAtMost conversations wait *)
(* for a late answer, and nothing is announced that no count of entries    *)
(* could be.                                                               *)
(***************************************************************************)
THEOREM CollectionIsTyped == Spec => []TypeOK
  <1>1. Init => TypeOK
    <2> SUFFICES ASSUME Init  PROVE TypeOK
      OBVIOUS
    <2>1. HolderTypeOK
      BY MaxTasksAssumption DEF Init, HolderInit, HolderTypeOK, NoHandOut
    <2>2. CollectorTypeOK
      <3> USE DEF Init, CollectorInit
      <3>1. /\ rows \in [Holders -> Seq(Runs)]
            /\ \A h \in Holders : Len(rows[h]) <= RowAtMost
        BY CollectorBounds
      <3>2. late \in Seq(Talks) /\ Len(late) <= LateAtMost
        BY CollectorBounds
      <3>3. expected \in [Talks -> [Values -> 0 .. NotYet]]
        BY EntriesCounted
      <3>4. rounds \in [Talks -> 0 .. Repeats]
        BY CollectorBounds
      <3>5. /\ end \in [Talks -> Ends] /\ random \in [Talks -> Randoms \cup {NoTask}]
            /\ handed \in [Talks -> [Values -> SUBSET Entries]]
            /\ fresh \in SUBSET Talks /\ seen \in [Runs -> SUBSET Entries]
            /\ closed \in BOOLEAN
        BY DEF Ends
      <3> QED  BY <3>1, <3>2, <3>3, <3>4, <3>5 DEF CollectorTypeOK
    <2> QED  BY <2>1, <2>2 DEF Init, TypeOK
  <1>2. ASSUME TypeOK, [Next]_vars  PROVE TypeOK'
    <2>1. CASE HolderStep /\ UNCHANGED collectorVars /\ Settles({})
      <3>1. HolderTypeOK'
        BY <1>2, <2>1, HolderTypes DEF TypeOK
      <3>2. CollectorTypeOK'
        BY <1>2, <2>1 DEF TypeOK, collectorVars, CollectorTypeOK
      <3> QED  BY <1>2, <2>1, <3>1, <3>2, MissingType DEF TypeOK
    <2>2. CASE CollectorStep /\ UNCHANGED holderVars /\ Settles({})
      <3>1. HolderTypeOK'
        BY <1>2, <2>2 DEF TypeOK, holderVars, HolderTypeOK
      <3>2. CollectorTypeOK'
        BY <1>2, <2>2, CollectorTypes DEF TypeOK
      <3> QED  BY <1>2, <2>2, <3>1, <3>2, MissingType DEF TypeOK
    <2>3. CASE Refused
      <3>1. HolderTypeOK' /\ \E S : Settles(S)
        BY <1>2, <2>3 DEF TypeOK, holderVars, HolderTypeOK, Refused
      <3>2. CollectorTypeOK'
        BY <1>2, <2>3, CollectorTypes DEF TypeOK
      <3> QED  BY <1>2, <3>1, <3>2, MissingType DEF TypeOK
    <2>4. CASE UNCHANGED vars
      BY <1>2, <2>4 DEF vars, holderVars, collectorVars, TypeOK, HolderTypeOK, CollectorTypeOK
    <2> QED  BY <1>2, <2>1, <2>2, <2>3, <2>4 DEF Next
  <1> QED  BY <1>1, <1>2, PTL DEF Spec

-----------------------------------------------------------------------------
(***************************************************************************)
(* Which run a hand-out is for.  Tasks have their run to themselves, a     *)
(* proof is sent under the task its conversation answered: so the run a    *)
(* holder hands out to has a task there.                                   *)
(***************************************************************************)
TasksAgree ==
    /\ \A h \in Holders, r \in Runs, n \in Randoms : Task(h, r, n) \in toCollector =>
          n <= issued[h] /\ \A q \in Runs : Task(h, q, n) \in toCollector => q = r
    /\ \A h \in Holders : \A t \in tasks[h] : Task(h, t.run, t.random) \in toCollector
    /\ \A h \in Holders, r \in Runs : random[<<r, h>>] # NoTask =>
          Task(h, r, random[<<r, h>>]) \in toCollector
    /\ \A h \in Holders, v \in Values, n \in Randoms : Proof(h, v, n) \in toHolder =>
          \E r \in Runs : random[<<r, h>>] = n

-----------------------------------------------------------------------------
(***************************************************************************)
(* What a holder has sent under a value, and what its hand-out has yet to  *)
(* reach.                                                                  *)
(***************************************************************************)
Pieces(h, v) ==
    {p \in toCollector : p.kind = "piece" /\ p.holder = h /\ ValueOf[p.entry] = v}
Nothings(h, v) == {p \in toCollector : p.kind = "nothing" /\ p.holder = h /\ p.value = v}

Sent(h, v) == {p.entry : p \in Pieces(h, v)}
Left(h, v) == {e \in Entries : InList(e, handOut[h][v].left)}
Ahead(h, v) == {e \in Left(h, v) : InList(e, held[h][v])}

HandsOutOrderly(h, v) ==
    /\ Pieces(h, v) \cup Nothings(h, v) # {} => handOuts[h][v] # <<>>
    /\ \A p \in Pieces(h, v) : p.count \in Nat /\ p.entry \in Entries
    /\ Running(h, v) => handOuts[h][v] # <<>>
    /\ ~Running(h, v) => handOut[h][v].left = <<>>
    /\ \A r \in Runs : handOuts[h][v] = <<r>> \/ again[h][v] = r => random[<<r, h>>] # NoTask
    /\ \A e \in Entries : InList(e, held[h][v]) \/ e \in Left(h, v) => ValueOf[e] = v

TalksOrderly(c) ==
    /\ random[c] = NoTask =>
          /\ missing[c] = {} /\ end[c] # "answered"
          /\ \A v \in Values : expected[c][v] = NotYet
    /\ \A e \in missing[c] :
          /\ ValueOf[e] \in Asks[c[1]] /\ InList(e, held[c[2]][ValueOf[e]])
          /\ e \notin handed[c][ValueOf[e]]
    /\ \A v \in Values : handed[c][v] \subseteq Sent(c[2], v)

-----------------------------------------------------------------------------
(***************************************************************************)
(* One hand-out.  Every piece announces at least as many entries as have   *)
(* come before it, come with it or later, or are missing: so when as many  *)
(* have come as any piece announced, none is missing.                      *)
(***************************************************************************)
Missing(c, v) == {e \in missing[c] : ValueOf[e] = v}

Once(c, v) ==
    handOuts[c[2]][v] \in {<<>>, <<c[1]>>} /\ <<c[2], v>> \notin returned

Announces(c, v) ==
    LET h == c[2] IN
    /\ Running(h, v) =>
          /\ Cardinality(Sent(h, v)) <= handOut[h][v].came
          /\ Missing(c, v) \subseteq Sent(h, v) \cup Left(h, v)
    /\ \A p \in Pieces(h, v) :
          Cardinality(Sent(h, v) \cup Missing(c, v) \cup Ahead(h, v)) <= p.count
    /\ Nothings(h, v) # {} => Missing(c, v) = {}

Complete(c, v) ==
    Done(expected[c][v], handed[c][v]) \/ end[c] = "answered" => Missing(c, v) = {}

Whole(c, v) == Once(c, v) => Announces(c, v) /\ (v \in Asks[c[1]] => Complete(c, v))

WholeInv ==
    /\ TypeOK /\ TasksAgree
    /\ \A h \in Holders, v \in Values : HandsOutOrderly(h, v)
    /\ \A c \in Talks : TalksOrderly(c)
    /\ \A c \in Talks, v \in Values : Whole(c, v)
-----------------------------------------------------------------------------
(* A step of a holder with respect to tasks. *)
TasksStep ==
    /\ toCollector \subseteq toCollector'
    /\ \/ /\ \A h \in Holders : issued'[h] = issued[h]
          /\ \A p \in toCollector' : p.kind = "task" => p \in toCollector
          /\ \A h \in Holders : \A t \in tasks'[h] :
                \E u \in tasks[h] : u.run = t.run /\ u.random = t.random
       \/ \E h \in Holders, r \in Runs :
             /\ issued' = [issued EXCEPT ![h] = @ + 1]
             /\ toCollector' = toCollector \cup {Task(h, r, issued[h] + 1)}
             /\ tasks' = [tasks EXCEPT ![h] =
                   {t \in @ : t.open} \cup
                   {[random |-> issued[h] + 1, run |-> r, open |-> TRUE]}]

LEMMA AnswersPackets ==
  ASSUME NEW h, NEW v, NEW r, NEW old, Answers(h, v, r, old)
  PROVE  /\ toCollector \subseteq toCollector'
         /\ \A p \in toCollector' : p.kind = "task" => p \in toCollector
  <1>1. CASE \E s, came : HandsOut(h, v, s, s, came, r)
    BY <1>1 DEF HandsOut, SentToCollector, Piece
  <1>2. CASE SentToCollector({Nothing(h, v, r)})
    BY <1>2 DEF SentToCollector, Nothing
  <1> QED  BY <1>1, <1>2 DEF Answers

LEMMA HolderTasks ==
  ASSUME TypeOK, HolderStep  PROVE TasksStep
  <1> DEFINE Same == UNCHANGED <<issued, tasks>>
             Other == /\ toCollector \subseteq toCollector'
                      /\ \A p \in toCollector' : p.kind = "task" => p \in toCollector
  <1>0. Same /\ Other => TasksStep
    BY DEF TasksStep
  <1>1. PICK h \in Holders :
          \/ \E e \in Entries, old \in Old : Deposit(h, e, old)
          \/ \E r \in Runs : OnCollect(h, r)
          \/ \E t \in tasks[h] : TaskExpires(h, t)
          \/ \E v \in Values : ProofExpires(h, v) \/ HandOutNext(h, v)
          \/ \E v \in Values, old \in Old : HandOutEnds(h, v, old)
          \/ \E v \in Values, n \in Randoms : RefusedProof(h, v, n)
          \/ \E v \in Values, n \in Randoms, old \in Old : OnProof(h, v, n, old)
          \/ \E e \in Entries, n \in Randoms : OnDelete(h, e, n)
          \/ \E old \in [Values -> Old] : HolderRestarts(h, old)
    BY DEF HolderStep
  <1>2. ASSUME NEW e, NEW old, Deposit(h, e, old)  PROVE TasksStep
    BY <1>0, <1>2 DEF Deposit, wire
  <1>3. ASSUME NEW r \in Runs, OnCollect(h, r)  PROVE TasksStep
    BY <1>3 DEF OnCollect, SentToCollector, TasksStep
  <1>4. ASSUME NEW t \in tasks[h], TaskExpires(h, t)  PROVE TasksStep
    <2>1. \A g \in Holders : \A u \in tasks'[g] :
            \E w \in tasks[g] : w.run = u.run /\ w.random = u.random
      <3>1. t \in Tasks
        BY DEF TypeOK, HolderTypeOK
      <3>2. [t EXCEPT !.open = FALSE].run = t.run /\ [t EXCEPT !.open = FALSE].random = t.random
        BY <3>1 DEF Tasks
      <3> QED  BY <1>4, <3>2 DEF TaskExpires, TypeOK, HolderTypeOK
    <2> QED  BY <1>4, <2>1 DEF TaskExpires, TasksStep, wire
  <1>5. ASSUME NEW v, ProofExpires(h, v)  PROVE TasksStep
    BY <1>0, <1>5 DEF ProofExpires, wire
  <1>6. ASSUME NEW v, HandOutNext(h, v)  PROVE TasksStep
    <2>1. Other
      BY <1>6 DEF HandOutNext, HandsOut, SentToCollector, Piece
    <2> QED  BY <1>0, <1>6, <2>1 DEF HandOutNext
  <1>7. ASSUME NEW v, NEW old, HandOutEnds(h, v, old)  PROVE TasksStep
    <2>1. Other
      BY <1>7, AnswersPackets DEF HandOutEnds
    <2> QED  BY <1>0, <1>7, <2>1 DEF HandOutEnds
  <1>8. ASSUME NEW v, NEW n, RefusedProof(h, v, n)  PROVE TasksStep
    <2>1. Other
      BY <1>8 DEF RefusedProof, SentToCollector, Refusal
    <2> QED  BY <1>0, <1>8, <2>1 DEF RefusedProof, holderVars
  <1>9. ASSUME NEW v, NEW n, NEW old, OnProof(h, v, n, old)  PROVE TasksStep
    <2>1. Other
      BY <1>9, AnswersPackets DEF OnProof
    <2> QED  BY <1>0, <1>9, <2>1 DEF OnProof
  <1>10. ASSUME NEW e, NEW n, OnDelete(h, e, n)  PROVE TasksStep
    BY <1>0, <1>10 DEF OnDelete, wire
  <1>11. ASSUME NEW old, HolderRestarts(h, old)  PROVE TasksStep
    BY <1>11 DEF HolderRestarts, TasksStep, TypeOK, HolderTypeOK, wire
  <1> QED
    BY <1>1, <1>2, <1>3, <1>4, <1>5, <1>6, <1>7, <1>8, <1>9, <1>10, <1>11

LEMMA HolderTasksAgree ==
  ASSUME TypeOK, TypeOK', TasksAgree, HolderStep, UNCHANGED collectorVars
  PROVE  TasksAgree'
  <1>1. TasksStep /\ UNCHANGED <<random, toHolder>>
    BY HolderTasks, HolderSends DEF collectorVars
  <1>2. \A h \in Holders : issued[h] \in Nat
    BY MaxTasksAssumption DEF TypeOK, HolderTypeOK
  <1>3. CASE /\ \A h \in Holders : issued'[h] = issued[h]
             /\ \A p \in toCollector' : p.kind = "task" => p \in toCollector
             /\ \A h \in Holders : \A t \in tasks'[h] :
                   \E u \in tasks[h] : u.run = t.run /\ u.random = t.random
    <2>1. \A h \in Holders, r \in Runs, n \in Randoms :
            Task(h, r, n) \in toCollector' => Task(h, r, n) \in toCollector
      BY <1>3 DEF Task
    <2>2. \A h \in Holders : \A t \in tasks'[h] : Task(h, t.run, t.random) \in toCollector'
      BY <1>1, <1>3 DEF TasksAgree, TasksStep
    <2> QED  BY <1>1, <1>3, <2>1, <2>2 DEF TasksAgree, TasksStep
  <1>4. ASSUME NEW g \in Holders, NEW q \in Runs,
               issued' = [issued EXCEPT ![g] = @ + 1],
               toCollector' = toCollector \cup {Task(g, q, issued[g] + 1)},
               tasks' = [tasks EXCEPT ![g] =
                   {t \in @ : t.open} \cup
                   {[random |-> issued[g] + 1, run |-> q, open |-> TRUE]}]
        PROVE  TasksAgree'
    <2>0. /\ issued'[g] = issued[g] + 1 /\ \A h \in Holders : issued'[h] >= issued[h]
      BY <1>2, <1>4 DEF TypeOK, HolderTypeOK
    <2>1. ASSUME NEW h \in Holders, NEW r \in Runs, NEW n \in Randoms,
                 Task(h, r, n) \in toCollector'
          PROVE  Task(h, r, n) \in toCollector \/ (h = g /\ r = q /\ n = issued[g] + 1)
      BY <1>4, <2>1 DEF Task
    <2>2. \A r \in Runs : Task(g, r, issued[g] + 1) \notin toCollector
      <3>1. issued[g] + 1 \in Randoms
        BY <2>0 DEF TypeOK, HolderTypeOK, Randoms
      <3> QED  BY <1>2, <3>1 DEF TasksAgree
    <2>3. ASSUME NEW h \in Holders, NEW r \in Runs, NEW n \in Randoms,
                 Task(h, r, n) \in toCollector'
          PROVE  n <= issued'[h] /\ \A z \in Runs : Task(h, z, n) \in toCollector' => z = r
      <3>1. CASE h = g /\ n = issued[g] + 1
        BY <2>0, <2>1, <2>2, <2>3, <3>1
      <3>2. CASE ~(h = g /\ n = issued[g] + 1)
        <4>1. Task(h, r, n) \in toCollector
          BY <2>1, <2>3, <3>2
        <4>2. n <= issued[h] /\ \A z \in Runs : Task(h, z, n) \in toCollector => z = r
          BY <4>1 DEF TasksAgree
        <4>3. n <= issued'[h]
          BY <1>2, <2>0, <4>2 DEF Randoms, TypeOK, HolderTypeOK
        <4> QED  BY <2>1, <3>2, <4>2, <4>3
      <3> QED  BY <3>1, <3>2
    <2>4. ASSUME NEW h \in Holders, NEW t \in tasks'[h]
          PROVE  Task(h, t.run, t.random) \in toCollector'
      <3>1. CASE t \in tasks[h]
        BY <1>4, <3>1 DEF TasksAgree
      <3>2. CASE t \notin tasks[h]
        <4>1. h = g /\ t = [random |-> issued[g] + 1, run |-> q, open |-> TRUE]
          BY <1>4, <2>4, <3>2 DEF TypeOK, HolderTypeOK
        <4> QED  BY <1>4, <4>1
      <3> QED  BY <3>1, <3>2
    <2> QED  BY <1>1, <1>4, <2>3, <2>4 DEF TasksAgree
  <1> QED  BY <1>1, <1>3, <1>4 DEF TasksStep

-----------------------------------------------------------------------------
(***************************************************************************)
(* A step of the collector with respect to what it counts: nothing new is  *)
(* counted, a task is answered, or an answer is counted in a conversation  *)
(* that has a task.                                                        *)
(***************************************************************************)
Rests ==
    /\ UNCHANGED random
    /\ \A c \in Talks :
          /\ end'[c] = "answered" => end[c] = "answered"
          /\ \A v \in Values :
                \/ expected'[c][v] = expected[c][v] /\ handed'[c][v] = handed[c][v]
                \/ expected'[c][v] = NotYet /\ handed'[c][v] = {}

TaskTaken(h, r, n) ==
    /\ random[<<r, h>>] = NoTask /\ random' = [random EXCEPT ![<<r, h>>] = n]
    /\ Task(h, r, n) \in toCollector
    /\ UNCHANGED <<expected, handed, end>>

Counting(c, v, x, d) ==
    /\ random[c] # NoTask /\ UNCHANGED random
    /\ expected' = [expected EXCEPT ![c][v] = x]
    /\ handed' = [handed EXCEPT ![c][v] = d]
    /\ \A q \in Talks : end'[q] = "answered" =>
          end[q] = "answered" \/ (q = c /\ HandedOut(c, expected'[c], handed'[c]))

PieceCounts(c, v) ==
    \E p \in Pieces(c[2], v) : Counting(c, v, p.count, handed[c][v] \cup {p.entry})

NothingCounts(c, v) ==
    Nothings(c[2], v) # {} /\ Counting(c, v, 0, handed[c][v])

CountsStep ==
    \/ Rests
    \/ \E h \in Holders, r \in Runs, n \in Randoms : TaskTaken(h, r, n)
    \/ \E c \in Talks, v \in Values : PieceCounts(c, v) \/ NothingCounts(c, v)

ProofsUnderTasks ==
    \A h \in Holders, v \in Values, n \in Randoms : Proof(h, v, n) \in toHolder' =>
       Proof(h, v, n) \in toHolder \/ \E r \in Runs : random'[<<r, h>>] = n

LEMMA EndRests ==
  ASSUME TypeOK, NEW h \in Holders, NEW how, how # "answered", NEW P, EndOf(h, how, P)
  PROVE  \A c \in Talks : end'[c] = "answered" => end[c] = "answered"
  BY DEF EndOf

LEMMA EndProofs ==
  ASSUME NEW h, NEW how, NEW P, EndOf(h, how, P), \A p \in P : p.kind # "proof"
  PROVE  ProofsUnderTasks
  BY DEF EndOf, NextAsked, SentToHolder, Collecting, Proof, ProofsUnderTasks

LEMMA CountsCount ==
  ASSUME TypeOK, NEW h \in Holders, NEW r, NEW v, NEW c \in Asking(h, r, v), NEW x, NEW d,
         NEW P, \A p \in P : p.kind # "proof", Counts(h, c, v, x, d, P), UNCHANGED random
  PROVE  c \in Talks /\ c[2] = h /\ Counting(c, v, x, d) /\ ProofsUnderTasks
  <1>1. c \in Talks /\ c = <<c[1], h>> /\ random[c] # NoTask
    BY AskingTalks, TypeIsShape DEF TypeOK
  <1>2. ProofsUnderTasks
    <2>1. CASE EndOf(h, "answered", P)
      BY <2>1, EndProofs
    <2>2. CASE SentToHolder(P)
      BY <2>2 DEF SentToHolder, Proof, ProofsUnderTasks
    <2> QED  BY <2>1, <2>2 DEF Counts
  <1>3. \A q \in Talks : end'[q] = "answered" =>
          end[q] = "answered" \/ (q = c /\ HandedOut(c, expected'[c], handed'[c]))
    BY DEF Counts, EndOf
  <1> QED  BY <1>1, <1>2, <1>3 DEF Counts, Counting

LEMMA DeletionsNoProofs ==
  ASSUME NEW h, NEW r, NEW e, NEW takes
  PROVE  \A p \in Acknowledged(h, r, e, takes) : p.kind # "proof"
  <1>1. \A g, n : Delete(g, e, n).kind # "proof"
    BY DEF Delete
  <1>2. \A p \in Deletions(h, r, e) : p.kind # "proof"
    BY <1>1 DEF Deletions
  <1> QED  BY <1>1, <1>2 DEF Acknowledged

LEMMA QuietCounts ==
  ASSUME TypeOK, NEW h \in Holders, Quiet(h)
  PROVE  Rests /\ ProofsUnderTasks
  <1> DEFINE c == Head1(h)
             undone == {v \in Asks[c[1]] : ~Done(expected[c][v], handed[c][v])}
  <1>1. c \in Talks /\ c[2] = h /\ c = <<c[1], h>> /\ c[1] \in Runs /\ UNCHANGED random
    BY DEF Quiet, Talking, Head1, Talks, TypeOK, CollectorTypeOK
  <1>2. CASE EndOf(h, "quiet", {}) /\ UNCHANGED <<expected, handed>>
    <2>1. \A q \in Talks : end'[q] = "answered" => end[q] = "answered"
      BY <1>2, EndRests
    <2>2. ProofsUnderTasks
      BY <1>2, EndProofs
    <2> QED  BY <1>1, <1>2, <2>1, <2>2 DEF Rests
  <1>3. CASE UNCHANGED <<end, expected, handed>> /\ SentToHolder({Collecting(h, c[1])})
    BY <1>1, <1>3 DEF Rests, SentToHolder, Collecting, Proof, ProofsUnderTasks
  <1>4. CASE /\ UNCHANGED end
             /\ SentToHolder({Proof(h, v, random[c]) : v \in undone})
             /\ expected' = [expected EXCEPT ![c] =
                   [v \in Values |-> IF v \in undone THEN NotYet ELSE @[v]]]
             /\ handed' = [handed EXCEPT ![c] =
                   [v \in Values |-> IF v \in undone THEN {} ELSE @[v]]]
    <2> HIDE DEF undone
    <2>1. Rests
      BY <1>1, <1>4 DEF Rests, TypeOK, CollectorTypeOK
    <2>2. ProofsUnderTasks
      BY <1>1, <1>4 DEF SentToHolder, Proof, ProofsUnderTasks
    <2> QED  BY <2>1, <2>2
  <1>5. \/ EndOf(h, "quiet", {}) /\ UNCHANGED <<expected, handed>>
        \/ UNCHANGED <<end, expected, handed>> /\ SentToHolder({Collecting(h, c[1])})
        \/ /\ UNCHANGED end
           /\ SentToHolder({Proof(h, v, random[c]) : v \in undone})
           /\ expected' = [expected EXCEPT ![c] =
                 [v \in Values |-> IF v \in undone THEN NotYet ELSE @[v]]]
           /\ handed' = [handed EXCEPT ![c] =
                 [v \in Values |-> IF v \in undone THEN {} ELSE @[v]]]
    BY Zenon DEF Quiet
  <1> QED  BY <1>2, <1>3, <1>4, <1>5

LEMMA CollectorCounts ==
  ASSUME TypeOK, CollectorStep  PROVE CountsStep /\ ProofsUnderTasks
  <1>1. ASSUME NEW r \in Runs, NEW H \in SUBSET Holders, Collect(r, H)
        PROVE  CountsStep /\ ProofsUnderTasks
    <2>1. Rests
      BY <1>1 DEF Collect, Rests
    <2> QED  BY <1>1, <2>1 DEF Collect, SentToHolder, Collecting, Proof, ProofsUnderTasks,
                             CountsStep
  <1>2. ASSUME NEW h \in Holders, Unreachable(h)  PROVE CountsStep /\ ProofsUnderTasks
    <2>1. EndOf(h, "unreachable", {}) /\ UNCHANGED <<random, expected, handed>>
      BY <1>2 DEF Unreachable
    <2>2. \A q \in Talks : end'[q] = "answered" => end[q] = "answered"
      BY <2>1, EndRests
    <2>3. ProofsUnderTasks
      BY <2>1, EndProofs
    <2> QED  BY <2>1, <2>2, <2>3 DEF Rests, CountsStep
  <1>3. ASSUME NEW h \in Holders, Quiet(h)  PROVE CountsStep /\ ProofsUnderTasks
    BY <1>3, QuietCounts DEF CountsStep
  <1>4. ASSUME NEW h \in Holders, NEW r \in Runs, NEW n \in Randoms, OnTask(h, r, n)
        PROVE  CountsStep /\ ProofsUnderTasks
    <2>1. CASE random[<<r, h>>] # NoTask
      BY <1>4, <2>1 DEF OnTask, Rests, CountsStep, ProofsUnderTasks
    <2>2. CASE random[<<r, h>>] = NoTask
      <3>1. TaskTaken(h, r, n)
        BY <1>4, <2>2 DEF OnTask, TaskTaken
      <3>2. random'[<<r, h>>] = n
        BY <3>1 DEF TaskTaken, Talks, TypeOK, CollectorTypeOK
      <3>3. ProofsUnderTasks
        BY <1>4, <2>2, <3>2 DEF OnTask, SentToHolder, Proof, Delete, ProofsUnderTasks
      <3> QED  BY <3>1, <3>3 DEF CountsStep
    <2> QED  BY <2>1, <2>2
  <1>5. ASSUME NEW h \in Holders, NEW r \in Runs, NEW e \in Entries, NEW n,
               NEW takes \in BOOLEAN, OnPiece(h, e, n, r, takes)
        PROVE  CountsStep /\ ProofsUnderTasks
    <2>1. PICK c \in Asking(h, r, ValueOf[e]) :
            Counts(h, c, ValueOf[e], n, handed[c][ValueOf[e]] \cup {e},
                   Acknowledged(h, c[1], e, takes))
      BY <1>5 DEF OnPiece
    <2>2. /\ c \in Talks /\ c[2] = h /\ ProofsUnderTasks
          /\ Counting(c, ValueOf[e], n, handed[c][ValueOf[e]] \cup {e})
      BY <1>5, <2>1, CountsCount, DeletionsNoProofs DEF OnPiece
    <2>3. /\ Piece(h, e, n, r) \in Pieces(h, ValueOf[e])
          /\ Piece(h, e, n, r).count = n /\ Piece(h, e, n, r).entry = e
      BY <1>5 DEF OnPiece, Piece, Pieces
    <2>4. PieceCounts(c, ValueOf[e])
      BY <2>2, <2>3 DEF PieceCounts
    <2> QED  BY <2>2, <2>4, ValueOfAssumption DEF CountsStep
  <1>6. ASSUME NEW h \in Holders, NEW v \in Values, NEW r, OnNothing(h, v, r)
        PROVE  CountsStep /\ ProofsUnderTasks
    <2>1. PICK c \in Asking(h, r, v) : Counts(h, c, v, 0, handed[c][v], {})
      BY <1>6 DEF OnNothing
    <2>2. c \in Talks /\ c[2] = h /\ Counting(c, v, 0, handed[c][v]) /\ ProofsUnderTasks
      BY <1>6, <2>1, CountsCount DEF OnNothing
    <2>3. Nothings(h, v) # {}
      BY <1>6 DEF OnNothing, Nothing, Nothings
    <2> QED  BY <2>2, <2>3 DEF NothingCounts, CountsStep
  <1>7. ASSUME NEW h \in Holders, NEW v, NEW r, OnUnfitting(h, v, r)
        PROVE  CountsStep /\ ProofsUnderTasks
    BY <1>7 DEF OnUnfitting, Rests, CountsStep, ProofsUnderTasks, wire
  <1>8. ASSUME Close  PROVE CountsStep /\ ProofsUnderTasks
    <2>1. Rests
      BY <1>8 DEF Close, Rests
    <2> QED  BY <1>8, <2>1 DEF Close, wire, CountsStep, ProofsUnderTasks
  <1> QED  BY <1>1, <1>2, <1>3, <1>4, <1>5, <1>6, <1>7, <1>8 DEF CollectorStep

LEMMA RefusedCounts ==
  ASSUME TypeOK, Refused
  PROVE  /\ ProofsUnderTasks
         /\ \E c \in Talks, v \in Values :
               /\ Counting(c, v, Cardinality(handed[c][v]), handed[c][v])
               /\ \E S : <<c, v>> \in S /\ Settles(S)
  <1>1. PICK h \in Holders, v \in Values, r \in Runs \cup {NoRun} :
          OnRefusal(h, v, r) /\ Settles({<<c, v>> : c \in Asking(h, r, v)})
    BY DEF Refused
  <1>2. PICK c \in Asking(h, r, v) :
          Counts(h, c, v, Cardinality(handed[c][v]), handed[c][v], {})
    BY <1>1 DEF OnRefusal
  <1>3. /\ c \in Talks /\ ProofsUnderTasks
        /\ Counting(c, v, Cardinality(handed[c][v]), handed[c][v])
    BY <1>1, <1>2, CountsCount DEF OnRefusal
  <1>4. <<c, v>> \in {<<d, v>> : d \in Asking(h, r, v)}
    OBVIOUS
  <1> QED  BY <1>1, <1>3, <1>4

LEMMA CollectorWire ==
  ASSUME CollectorStep \/ Refused  PROVE UNCHANGED toCollector
  BY DEF CollectorStep, Refused, Collect, Unreachable, Quiet, OnTask, OnPiece, OnNothing,
         OnRefusal, OnUnfitting, Close, wire

LEMMA CollectorTasksAgree ==
  ASSUME TypeOK, TasksAgree, CollectorStep \/ Refused, UNCHANGED holderVars
  PROVE  TasksAgree'
  <1>1. UNCHANGED <<toCollector, issued, tasks>> /\ ProofsUnderTasks
    BY CollectorWire, CollectorCounts, RefusedCounts DEF holderVars
  <1>2. CASE UNCHANGED random
    BY <1>1, <1>2 DEF TasksAgree, ProofsUnderTasks
  <1>3. ASSUME NEW g \in Holders, NEW q \in Runs, NEW m \in Randoms, TaskTaken(g, q, m)
        PROVE  TasksAgree'
    <2>0. random \in [Talks -> Randoms \cup {NoTask}] /\ <<q, g>> \in Talks
      BY DEF TypeOK, CollectorTypeOK, Talks
    <2>1. \A h \in Holders, r \in Runs : random[<<r, h>>] # NoTask =>
            random'[<<r, h>>] = random[<<r, h>>]
      BY <1>3, <2>0 DEF TaskTaken, Talks
    <2>2. \A h \in Holders, r \in Runs : random'[<<r, h>>] # NoTask =>
            Task(h, r, random'[<<r, h>>]) \in toCollector'
      BY <1>1, <1>3, <2>0 DEF TaskTaken, TasksAgree, Talks
    <2>3. \A h \in Holders, v \in Values, n \in Randoms : Proof(h, v, n) \in toHolder' =>
            \E r \in Runs : random'[<<r, h>>] = n
      BY <1>1, <2>1, NoTaskIsNoRandom DEF TasksAgree, ProofsUnderTasks
    <2> QED  BY <1>1, <2>2, <2>3 DEF TasksAgree
  <1>4. UNCHANGED random \/ \E h \in Holders, r \in Runs, n \in Randoms : TaskTaken(h, r, n)
    BY CollectorCounts, RefusedCounts DEF CountsStep, Rests, PieceCounts, NothingCounts, Counting
  <1> QED  BY <1>2, <1>3, <1>4

-----------------------------------------------------------------------------
(* What a step leaves missing. *)
LEMMA StillMissing ==
  ASSUME TypeOK, NEW S, Settles(S), NEW c \in Talks, NEW e \in missing'[c]
  PROVE  /\ e \in Entries /\ <<c, ValueOf[e]>> \notin S
         /\ InList(e, held'[c[2]][ValueOf[e]]) /\ e \notin handed'[c][ValueOf[e]]
         /\ \/ e \in missing[c]
            \/ random[c] = NoTask /\ random'[c] # NoTask /\ ValueOf[e] \in Asks[c[1]]
  <1> DEFINE noted == IF random[c] = NoTask /\ random'[c] # NoTask
                         THEN {f \in Entries : ValueOf[f] \in Asks[c[1]]}
                         ELSE missing[c]
  <1>1. missing'[c] = {f \in noted : /\ InList(f, held'[c[2]][ValueOf[f]])
                                    /\ f \notin handed'[c][ValueOf[f]]
                                    /\ <<c, ValueOf[f]>> \notin S}
    BY DEF Settles
  <1>2. missing[c] \subseteq Entries
    BY DEF TypeOK
  <1> QED  BY <1>1, <1>2

LEMMA NothingReturns ==
  ASSUME NEW S, Settles(S), NEW h \in Holders, NEW v \in Values, <<h, v>> \notin returned'
  PROVE  /\ <<h, v>> \notin returned
         /\ \A e \in Entries : InList(e, handOut[h][v].left) /\ InList(e, held'[h][v]) =>
               InList(e, held[h][v])
  BY DEF Settles

LEMMA SentGrows ==
  ASSUME NEW h, NEW v, toCollector \subseteq toCollector'
  PROVE  Sent(h, v) \subseteq Sent(h, v)'
  BY DEF Sent, Pieces

LEMMA TalksRest ==
  ASSUME TypeOK, NEW S, Settles(S), NEW c \in Talks, TalksOrderly(c),
         random'[c] = random[c], toCollector \subseteq toCollector',
         end'[c] = "answered" => end[c] = "answered",
         \A v \in Values :
            \/ expected'[c][v] = expected[c][v] /\ handed'[c][v] = handed[c][v]
            \/ expected'[c][v] = NotYet /\ handed'[c][v] = {}
  PROVE  TalksOrderly(c)'
  <1>1. random'[c] = NoTask =>
          /\ missing'[c] = {} /\ end'[c] # "answered"
          /\ \A v \in Values : expected'[c][v] = NotYet
    BY StillMissing DEF TalksOrderly
  <1>2. \A e \in missing'[c] :
          /\ ValueOf[e] \in Asks[c[1]] /\ InList(e, held'[c[2]][ValueOf[e]])
          /\ e \notin handed'[c][ValueOf[e]]
    BY StillMissing DEF TalksOrderly
  <1>3. \A v \in Values : handed'[c][v] \subseteq Sent(c[2], v)'
    BY SentGrows DEF TalksOrderly
  <1> QED  BY <1>1, <1>2, <1>3 DEF TalksOrderly

LEMMA TalksCounting ==
  ASSUME TypeOK, NEW S, Settles(S), NEW c \in Talks, TalksOrderly(c), UNCHANGED toCollector,
         NEW q \in Talks, NEW v \in Values, NEW x, NEW d, Counting(q, v, x, d),
         q = c => d \subseteq Sent(c[2], v)
  PROVE  TalksOrderly(c)'
  <1>0. /\ expected \in [Talks -> [Values -> 0 .. NotYet]]
        /\ handed \in [Talks -> [Values -> SUBSET Entries]]
    BY DEF TypeOK, CollectorTypeOK
  <1>1. CASE q # c
    <2>1. expected'[c] = expected[c] /\ handed'[c] = handed[c]
      BY <1>0, <1>1 DEF Counting
    <2> QED  BY <1>1, <2>1, TalksRest DEF Counting
  <1>2. CASE q = c
    <2>1. random'[c] # NoTask /\ random[c] # NoTask
      BY <1>2 DEF Counting
    <2>2. \A e \in missing'[c] :
            /\ ValueOf[e] \in Asks[c[1]] /\ InList(e, held'[c[2]][ValueOf[e]])
            /\ e \notin handed'[c][ValueOf[e]]
      BY <2>1, StillMissing DEF TalksOrderly
    <2>3. ASSUME NEW w \in Values  PROVE handed'[c][w] \subseteq Sent(c[2], w)'
      <3>1. Sent(c[2], w) \subseteq Sent(c[2], w)'
        BY SentGrows
      <3>2. handed'[c][w] = IF w = v THEN d ELSE handed[c][w]
        BY <1>0, <1>2 DEF Counting
      <3> QED  BY <1>2, <3>1, <3>2 DEF TalksOrderly
    <2> QED  BY <2>1, <2>2, <2>3 DEF TalksOrderly
  <1> QED  BY <1>1, <1>2

-----------------------------------------------------------------------------
(* Finite sets of entries. *)
LEMMA FewerEntries ==
  ASSUME NEW A, NEW B \in SUBSET Entries, A \subseteq B
  PROVE  /\ Cardinality(A) \in Nat /\ Cardinality(B) \in Nat
         /\ Cardinality(A) <= Cardinality(B)
  <1>1. IsFiniteSet(B) /\ Cardinality(B) \in Nat
    BY EntriesCounted
  <1> QED  BY <1>1, FS_Subset, FS_CardinalityType

LEMMA EntriesTogether ==
  ASSUME NEW A \in SUBSET Entries, NEW B \in SUBSET Entries
  PROVE  Cardinality(A \cup B) <= Cardinality(A) + Cardinality(B)
  <1>1. IsFiniteSet(A) /\ IsFiniteSet(B)
    BY EntriesCounted
  <1>2. Cardinality(A \cup B) = Cardinality(A) + Cardinality(B) - Cardinality(A \cap B)
    BY <1>1, FS_Union
  <1>3. /\ Cardinality(A) \in Nat /\ Cardinality(B) \in Nat /\ Cardinality(A \cap B) \in Nat
    BY <1>1, FS_CardinalityType, FewerEntries
  <1> QED  BY <1>2, <1>3

(* The entries that lie are no more than the places they lie at. *)
LEMMA LyingEntries ==
  ASSUME NEW list, NEW s \in Seq(Entries)
  PROVE  /\ {s[i] : i \in StillLying(list, s)} \in SUBSET Entries
         /\ Cardinality(StillLying(list, s)) \in Nat
         /\ Cardinality({s[i] : i \in StillLying(list, s)}) <= Cardinality(StillLying(list, s))
  <1> DEFINE L == StillLying(list, s)
             f == [i \in L |-> s[i]]
  <1>1. L \subseteq 1 .. Len(s) /\ Len(s) \in Nat
    BY DEF StillLying
  <1>2. IsFiniteSet(1 .. Len(s))
    BY <1>1, FS_Interval
  <1>3. IsFiniteSet(L) /\ Cardinality(L) \in Nat
    BY <1>1, <1>2, FS_Subset, FS_CardinalityType
  <1>4. {s[i] : i \in L} \in SUBSET Entries
    BY <1>1
  <1>5. f \in Surjection(L, {s[i] : i \in L})
    BY DEF Surjection
  <1>6. Cardinality({s[i] : i \in L}) <= Cardinality(L)
    BY <1>3, <1>5, FS_Surjection
  <1> QED  BY <1>3, <1>4, <1>6

-----------------------------------------------------------------------------
(* What a holder does under one value: nothing, or it begins a hand-out,   *)
(* or the next piece of the running one leaves.                            *)
Calm(h, v) ==
    /\ handOuts'[h][v] = handOuts[h][v]
    /\ handOut'[h][v] = handOut[h][v] \/ handOut'[h][v] = NoHandOut
    /\ Pieces(h, v)' = Pieces(h, v) /\ Nothings(h, v)' = Nothings(h, v)

PieceLeaves(h, v, list, s, came, r) ==
    /\ held'[h][v] = list
    /\ \E k \in StillLying(list, s) :
          /\ \A i \in StillLying(list, s) : k <= i
          /\ handOut'[h][v] = [left |-> SubSeq(s, k + 1, Len(s)), came |-> came + 1, run |-> r]
          /\ \E p : /\ Pieces(h, v)' = Pieces(h, v) \cup {p} /\ p.entry = s[k]
                    /\ p.count = came + Cardinality(StillLying(list, s))

Begins(h, v) ==
    /\ Nothings(h, v) \subseteq Nothings(h, v)'
    /\ \E r \in Runs, list \in Seq(Entries) :
          /\ random[<<r, h>>] # NoTask
          /\ handOuts'[h][v] =
                IF Len(handOuts[h][v]) < 2 THEN Append(handOuts[h][v], r) ELSE handOuts[h][v]
          /\ \/ /\ list = <<>> /\ held'[h][v] = <<>> /\ handOut'[h][v] = NoHandOut
                /\ Pieces(h, v)' = Pieces(h, v)
             \/ /\ PieceLeaves(h, v, list, list, 0, r)
                /\ Nothings(h, v)' = Nothings(h, v)

Continues(h, v) ==
    /\ Running(h, v) /\ handOuts'[h][v] = handOuts[h][v] /\ held'[h][v] = held[h][v]
    /\ PieceLeaves(h, v, held[h][v], handOut[h][v].left, handOut[h][v].came,
                   handOut[h][v].run)
    /\ Nothings(h, v)' = Nothings(h, v)

LEMMA LeftType ==
  ASSUME TypeOK, NEW h \in Holders, NEW v \in Values
  PROVE  /\ handOut[h][v].left \in Seq(Entries) /\ handOut[h][v].came \in Nat
         /\ handOut[h][v].run \in Runs \cup {NoRun}
         /\ held[h][v] \in Seq(Entries) /\ handOuts[h][v] \in Seq(Runs)
  BY DEF TypeOK, HolderTypeOK

(* The counts of a holder with nothing new under the value. *)
LEMMA AnnouncesCalm ==
  ASSUME TypeOK, NEW S, Settles(S), NEW c \in Talks, NEW v \in Values,
         HandsOutOrderly(c[2], v), <<c[2], v>> \notin returned', Announces(c, v),
         Calm(c[2], v), Missing(c, v)' \subseteq Missing(c, v)
  PROVE  Announces(c, v)'
  <1> DEFINE h == c[2]
  <1>0. h \in Holders
    BY DEF Talks
  <1>1. Sent(h, v)' = Sent(h, v) /\ Sent(h, v) \subseteq Entries
    BY DEF Calm, Sent, HandsOutOrderly
  <1>2. Missing(c, v) \subseteq Entries
    BY DEF TypeOK, Missing
  <1>3. Running(h, v)' => handOut'[h][v] = handOut[h][v]
    BY DEF Calm, Running, NoHandOut
  <1>4. Ahead(h, v)' \subseteq Ahead(h, v)
    <2>1. ASSUME NEW e \in Entries, InList(e, handOut'[h][v].left), InList(e, held'[h][v])
          PROVE  InList(e, handOut[h][v].left) /\ InList(e, held[h][v])
      <3>1. CASE handOut'[h][v] = handOut[h][v]
        BY <1>0, <2>1, <3>1, NothingReturns
      <3>2. CASE handOut'[h][v] = NoHandOut
        BY <2>1, <3>2 DEF NoHandOut, InList
      <3> QED  BY <3>1, <3>2 DEF Calm
    <2> QED  BY <2>1 DEF Ahead, Left
  <1>5. Running(h, v)' =>
          /\ Cardinality(Sent(h, v)') <= handOut'[h][v].came
          /\ Missing(c, v)' \subseteq Sent(h, v)' \cup Left(h, v)'
    <2> SUFFICES ASSUME Running(h, v)'
                 PROVE  /\ Cardinality(Sent(h, v)') <= handOut'[h][v].came
                        /\ Missing(c, v)' \subseteq Sent(h, v)' \cup Left(h, v)'
      OBVIOUS
    <2>1. Running(h, v) /\ Left(h, v)' = Left(h, v)
      BY <1>3 DEF Running, Left
    <2> QED  BY <1>1, <1>3, <2>1 DEF Announces
  <1>6. ASSUME NEW p \in Pieces(h, v)'
        PROVE  Cardinality((Sent(h, v) \cup Missing(c, v) \cup Ahead(h, v))') <= p.count
    <2> DEFINE U == Sent(h, v) \cup Missing(c, v) \cup Ahead(h, v)
    <2>1. p \in Pieces(h, v) /\ p.count \in Nat /\ Cardinality(U) <= p.count
      BY <1>6 DEF Calm, HandsOutOrderly, Announces
    <2>2. U \subseteq Entries /\ U' \subseteq U
      BY <1>1, <1>2, <1>4 DEF Ahead, Left
    <2>3. Cardinality(U') \in Nat /\ Cardinality(U) \in Nat /\ Cardinality(U') <= Cardinality(U)
      BY <2>2, FewerEntries
    <2> HIDE DEF U
    <2>4. Cardinality(U') <= p.count
      BY <2>1, <2>3
    <2> QED  BY <2>4 DEF U
  <1>7. Nothings(h, v)' # {} => Missing(c, v)' = {}
    BY DEF Calm, Announces
  <1> QED  BY <1>5, <1>6, <1>7 DEF Announces

(* The place of a sequence an entry is at, before and after the next one. *)
LEMMA LaterPlaces ==
  ASSUME NEW s \in Seq(Entries), NEW k \in 1 .. Len(s), NEW e
  PROVE  InList(e, SubSeq(s, k + 1, Len(s))) <=> \E i \in k + 1 .. Len(s) : s[i] = e
  <1> DEFINE t == SubSeq(s, k + 1, Len(s))
  <1>1. Len(t) = Len(s) - k /\ \A j \in 1 .. Len(t) : t[j] = s[j + k]
    BY SubSeqProperties
  <1>2. ASSUME NEW i \in k + 1 .. Len(s), s[i] = e  PROVE InList(e, t)
    <2>1. i - k \in 1 .. Len(t) /\ t[i - k] = s[i - k + k] /\ i - k + k = i
      BY <1>1
    <2> QED  BY <1>2, <2>1 DEF InList
  <1>3. ASSUME NEW j \in 1 .. Len(t), t[j] = e  PROVE \E i \in k + 1 .. Len(s) : s[i] = e
    <2>1. j + k \in k + 1 .. Len(s)
      BY <1>1
    <2> QED  BY <1>1, <1>3, <2>1
  <1> QED  BY <1>2, <1>3 DEF InList

PieceTells(h, v, list, s, M) ==
    LET lying == {s[i] : i \in StillLying(list, s)} IN
    /\ Cardinality(Sent(h, v)') <= handOut'[h][v].came
    /\ \A e \in M : e \in Sent(h, v)' \/ InList(e, handOut'[h][v].left)
    /\ Sent(h, v)' \cup Ahead(h, v)' \subseteq Sent(h, v) \cup lying
    /\ M \subseteq Sent(h, v) \cup lying
    /\ \E p : /\ Pieces(h, v)' = Pieces(h, v) \cup {p}
              /\ p.entry \in Entries /\ p.count \in Nat
              /\ Cardinality(Sent(h, v) \cup lying) <= p.count

(***************************************************************************)
(* A piece leaves: what comes with it or later are the entries that lie,   *)
(* and it announces those besides what came.                               *)
(***************************************************************************)
LEMMA PieceAnnounces ==
  ASSUME TypeOK', NEW h \in Holders, NEW v \in Values, NEW list, NEW s \in Seq(Entries),
         NEW came \in Nat, NEW r, PieceLeaves(h, v, list, s, came, r),
         Sent(h, v) \subseteq Entries, Cardinality(Sent(h, v)) <= came,
         NEW M, \A e \in M : e \in Sent(h, v) \/ InList(e, s), \A e \in M : InList(e, list)
  PROVE  PieceTells(h, v, list, s, M)
  <1> DEFINE L == StillLying(list, s)
             lying == {s[i] : i \in L}
  <1>0. handOut' \in [Holders -> [Values ->
            [left : Seq(Entries), came : Nat, run : Runs \cup {NoRun}]]]
        /\ held' \in [Holders -> [Values -> Seq(Entries)]]
    BY DEF TypeOK, HolderTypeOK
  <1>1. PICK k \in L :
          /\ \A i \in L : k <= i
          /\ handOut'[h][v] = [left |-> SubSeq(s, k + 1, Len(s)), came |-> came + 1, run |-> r]
          /\ \E p : /\ Pieces(h, v)' = Pieces(h, v) \cup {p} /\ p.entry = s[k]
                    /\ p.count = came + Cardinality(L)
    BY Zenon DEF PieceLeaves
  <1>2. PICK p : /\ Pieces(h, v)' = Pieces(h, v) \cup {p} /\ p.entry = s[k]
                 /\ p.count = came + Cardinality(L)
    BY <1>1
  <1>3. k \in 1 .. Len(s) /\ s[k] \in Entries /\ L \subseteq 1 .. Len(s)
    BY DEF StillLying
  <1>4. Sent(h, v)' = Sent(h, v) \cup {s[k]}
    BY <1>2 DEF Sent
  <1>5. Cardinality(Sent(h, v)') <= handOut'[h][v].came
    <2>1. /\ Cardinality(Sent(h, v)') <= Cardinality(Sent(h, v)) + Cardinality({s[k]})
          /\ Cardinality({s[k]}) = 1
      BY <1>3, <1>4, EntriesTogether, FS_Singleton
    <2>2. Cardinality(Sent(h, v)) \in Nat /\ Cardinality(Sent(h, v)') \in Nat
      BY <1>3, <1>4, FewerEntries
    <2> QED  BY <1>1, <2>1, <2>2
  <1>6. ASSUME NEW e \in M  PROVE e \in Sent(h, v) \/ \E i \in L : s[i] = e
    BY DEF InList, StillLying
  <1>7. ASSUME NEW e \in M  PROVE e \in Sent(h, v)' \/ InList(e, handOut'[h][v].left)
    <2>1. CASE e \in Sent(h, v)
      BY <1>4, <2>1
    <2>2. ASSUME NEW i \in L, s[i] = e  PROVE e \in Sent(h, v)' \/ InList(e, handOut'[h][v].left)
      <3>1. CASE i = k
        BY <1>4, <2>2, <3>1
      <3>2. CASE i # k
        <4>1. i \in k + 1 .. Len(s)
          BY <1>1, <1>3, <3>2
        <4> QED  BY <1>1, <1>3, <2>2, <4>1, LaterPlaces
      <3> QED  BY <3>1, <3>2
    <2> QED  BY <1>6, <2>1, <2>2
  <1>8. Sent(h, v)' \cup Ahead(h, v)' \subseteq Sent(h, v) \cup lying
    <2>1. ASSUME NEW e \in Entries, e \in Ahead(h, v)'  PROVE e \in lying
      <3>1. InList(e, SubSeq(s, k + 1, Len(s))) /\ InList(e, list)
        <4>1. held'[h][v] = list /\ handOut'[h][v].left = SubSeq(s, k + 1, Len(s))
          <5>1. held'[h][v] = list
            BY Zenon DEF PieceLeaves
          <5>2. handOut'[h][v] =
                  [left |-> SubSeq(s, k + 1, Len(s)), came |-> came + 1, run |-> r]
            BY <1>1, Zenon
          <5>3. PICK x : x = handOut'[h][v]
            OBVIOUS
          <5>4. x = [left |-> SubSeq(s, k + 1, Len(s)), came |-> came + 1, run |-> r]
            BY <5>2, <5>3, Zenon
          <5>5. x.left = SubSeq(s, k + 1, Len(s))
            BY <5>4
          <5> QED  BY <5>1, <5>3, <5>5, Zenon
        <4> QED  BY <2>1, <4>1, Zenon DEF Ahead, Left
      <3>2. PICK i \in k + 1 .. Len(s) : s[i] = e
        BY <1>3, <3>1, LaterPlaces
      <3>3. i \in L
        BY <1>3, <3>1, <3>2 DEF StillLying
      <3> QED  BY <3>2, <3>3
    <2> QED  BY <1>4, <2>1 DEF Ahead, Left
  <1>9. M \subseteq Sent(h, v) \cup lying
    BY <1>6
  <1>10. Cardinality(Sent(h, v) \cup lying) <= p.count /\ p.count \in Nat
    <2>1. /\ lying \in SUBSET Entries /\ Cardinality(L) \in Nat
          /\ Cardinality(lying) <= Cardinality(L)
      BY LyingEntries
    <2>2. /\ Cardinality(Sent(h, v) \cup lying) <= Cardinality(Sent(h, v)) + Cardinality(lying)
      BY <2>1, EntriesTogether
    <2>3. /\ Cardinality(Sent(h, v)) \in Nat /\ Cardinality(lying) \in Nat
          /\ Cardinality(Sent(h, v) \cup lying) \in Nat
      BY <2>1, FewerEntries
    <2> QED  BY <1>2, <2>1, <2>2, <2>3
  <1> QED  BY <1>2, <1>3, <1>5, <1>7, <1>8, <1>9, <1>10 DEF PieceTells

LEMMA AnnouncesContinues ==
  ASSUME TypeOK, TypeOK', NEW S, Settles(S), NEW c \in Talks, NEW v \in Values,
         HandsOutOrderly(c[2], v), TalksOrderly(c)', Announces(c, v),
         Continues(c[2], v), Missing(c, v)' \subseteq Missing(c, v)
  PROVE  Announces(c, v)'
  <1> DEFINE h == c[2]
             s == handOut[h][v].left
             list == held[h][v]
             came == handOut[h][v].came
             lying == {s[i] : i \in StillLying(list, s)}
             M == Missing(c, v)'
  <1>0. h \in Holders /\ s \in Seq(Entries) /\ came \in Nat
    BY LeftType DEF Talks
  <1>1. Sent(h, v) \subseteq Entries /\ Cardinality(Sent(h, v)) <= came /\ Running(h, v)
    BY DEF Continues, Announces, Sent, HandsOutOrderly
  <1>2. \A e \in M : e \in Sent(h, v) \/ InList(e, s)
    BY <1>1 DEF Announces, Left
  <1>3. \A e \in M : InList(e, list)
    BY DEF TalksOrderly, Missing, Continues
  <1>4. PieceLeaves(h, v, list, s, came, handOut[h][v].run)
    BY DEF Continues
  <1>5. /\ Cardinality(Sent(h, v)') <= handOut'[h][v].came
        /\ \A e \in M : e \in Sent(h, v)' \/ InList(e, handOut'[h][v].left)
        /\ Sent(h, v)' \cup Ahead(h, v)' \subseteq Sent(h, v) \cup lying
        /\ M \subseteq Sent(h, v) \cup lying
        /\ \E p : /\ Pieces(h, v)' = Pieces(h, v) \cup {p}
                  /\ p.entry \in Entries /\ p.count \in Nat
                  /\ Cardinality(Sent(h, v) \cup lying) <= p.count
    <2>1. PieceTells(h, v, list, s, M)
      <3> HIDE DEF s, list, came, M
      <3> QED  BY <1>0, <1>1, <1>2, <1>3, <1>4, PieceAnnounces
    <2> QED  BY <2>1, Zenon DEF PieceTells
  <1>6. PICK p : /\ Pieces(h, v)' = Pieces(h, v) \cup {p}
                 /\ p.entry \in Entries /\ p.count \in Nat
                 /\ Cardinality(Sent(h, v) \cup lying) <= p.count
    BY <1>5
  <1>7. M \subseteq Entries
    BY DEF TypeOK, Missing
  <1>8. M \subseteq Sent(h, v)' \cup Left(h, v)'
    BY <1>5, <1>7 DEF Left
  <1>9. ASSUME NEW q \in Pieces(h, v)'
        PROVE  Cardinality((Sent(h, v) \cup Missing(c, v) \cup Ahead(h, v))') <= q.count
    <2> DEFINE U == Sent(h, v)' \cup M \cup Ahead(h, v)'
    <2>0. lying \subseteq Entries
      BY <1>0, LyingEntries
    <2>1. /\ Cardinality(U) \in Nat /\ Cardinality(Sent(h, v) \cup lying) \in Nat
          /\ Cardinality(U) <= Cardinality(Sent(h, v) \cup lying)
      BY <1>1, <1>5, <2>0, FewerEntries
    <2>2. lying \subseteq Ahead(h, v)
      BY <1>0, <2>0 DEF Ahead, Left, StillLying, InList
    <2>3. CASE q \in Pieces(h, v)
      <3> DEFINE V == Sent(h, v) \cup Missing(c, v) \cup Ahead(h, v)
      <3>1. Cardinality(V) <= q.count /\ q.count \in Nat
        BY <2>3 DEF Announces, HandsOutOrderly
      <3>2. V \subseteq Entries
        BY <1>1 DEF TypeOK, Missing, Ahead, Left
      <3>3. Sent(h, v) \cup lying \subseteq V
        BY <2>2
      <3>4. /\ Cardinality(V) \in Nat /\ Cardinality(Sent(h, v) \cup lying) <= Cardinality(V)
        BY <3>2, <3>3, FewerEntries
      <3> HIDE DEF U, V, lying
      <3>5. Cardinality(U) <= q.count
        BY <2>1, <3>1, <3>4
      <3> QED  BY <3>5 DEF U
    <2>4. CASE q = p
      <3> HIDE DEF U, lying
      <3>1. Cardinality(U) <= q.count
        BY <1>6, <2>1, <2>4
      <3> QED  BY <3>1 DEF U
    <2> QED  BY <1>6, <1>9, <2>3, <2>4
  <1>10. Nothings(h, v)' # {} => M = {}
    BY DEF Continues, Announces
  <1> QED  BY <1>5, <1>8, <1>9, <1>10 DEF Announces

(* The first hand-out under a value: nothing was sent before it. *)
LEMMA AnnouncesBegins ==
  ASSUME TypeOK, TypeOK', NEW S, Settles(S), NEW c \in Talks, NEW v \in Values,
         HandsOutOrderly(c[2], v), TalksOrderly(c)', Once(c, v)', Begins(c[2], v)
  PROVE  Announces(c, v)'
  <1> DEFINE h == c[2]
             M == Missing(c, v)'
  <1>0. h \in Holders /\ c[1] \in Runs /\ handOuts[h][v] \in Seq(Runs)
        /\ handOuts' \in [Holders -> [Values -> Seq(Runs)]]
    BY LeftType DEF Talks, TypeOK, HolderTypeOK
  <1>1. PICK r \in Runs, list \in Seq(Entries) :
          /\ handOuts'[h][v] =
                IF Len(handOuts[h][v]) < 2 THEN Append(handOuts[h][v], r) ELSE handOuts[h][v]
          /\ \/ /\ list = <<>> /\ held'[h][v] = <<>> /\ handOut'[h][v] = NoHandOut
                /\ Pieces(h, v)' = Pieces(h, v)
             \/ /\ PieceLeaves(h, v, list, list, 0, r)
                /\ Nothings(h, v)' = Nothings(h, v)
    BY Zenon DEF Begins
  <1>2. handOuts[h][v] = <<>>
    <2>1. Len(handOuts'[h][v]) < 2
      <3>1. PICK x : x = handOuts'[h][v]
        OBVIOUS
      <3>2. PICK q \in Runs : q = c[1]
        BY <1>0
      <3>3. x = <<>> \/ x = <<q>>
        BY <3>1, <3>2, Zenon DEF Once
      <3>4. Len(<<>>) < 2 /\ Len(<<q>>) < 2
        OBVIOUS
      <3> QED  BY <3>1, <3>3, <3>4, Zenon
    <2>2. Len(handOuts[h][v]) = 0
      BY <1>0, <1>1, <2>1
    <2> QED  BY <1>0, <2>2
  <1>3. Pieces(h, v) = {} /\ Nothings(h, v) = {} /\ Sent(h, v) = {}
    BY <1>2 DEF HandsOutOrderly, Sent
  <1>4. M \subseteq Entries /\ \A e \in M : InList(e, held'[h][v])
    BY StillMissing DEF Missing
  <1>5. CASE /\ held'[h][v] = <<>> /\ handOut'[h][v] = NoHandOut
             /\ Pieces(h, v)' = Pieces(h, v)
    <2>1. M = {}
      BY <1>4, <1>5 DEF InList
    <2>2. ~Running(h, v)'
      BY <1>5 DEF Running, NoHandOut
    <2> QED  BY <1>3, <1>5, <2>1, <2>2 DEF Announces
  <1>6. CASE PieceLeaves(h, v, list, list, 0, r) /\ Nothings(h, v)' = Nothings(h, v)
    <2> DEFINE lying == {list[i] : i \in StillLying(list, list)}
    <2>1. held'[h][v] = list
      BY <1>6, Zenon DEF PieceLeaves
    <2>2. Sent(h, v) \subseteq Entries /\ Cardinality(Sent(h, v)) <= 0
      BY <1>3, FS_EmptySet
    <2>3. /\ Cardinality(Sent(h, v)') <= handOut'[h][v].came
          /\ \A e \in M : e \in Sent(h, v)' \/ InList(e, handOut'[h][v].left)
          /\ Sent(h, v)' \cup Ahead(h, v)' \subseteq Sent(h, v) \cup lying
          /\ M \subseteq Sent(h, v) \cup lying
          /\ \E p : /\ Pieces(h, v)' = Pieces(h, v) \cup {p}
                    /\ p.entry \in Entries /\ p.count \in Nat
                    /\ Cardinality(Sent(h, v) \cup lying) <= p.count
      <3>1. PieceTells(h, v, list, list, M)
        <4> HIDE DEF M
        <4>1. \A e \in M : e \in Sent(h, v) \/ InList(e, list)
          BY <1>4, <2>1
        <4>2. \A e \in M : InList(e, list)
          BY <1>4, <2>1
        <4>3. 0 \in Nat /\ h \in Holders
          BY <1>0
        <4> HIDE DEF h
        <4> QED  BY <1>6, <2>2, <4>1, <4>2, <4>3, PieceAnnounces
      <3> QED  BY <3>1, Zenon DEF PieceTells
    <2>4. M \subseteq Sent(h, v)' \cup Left(h, v)'
      BY <1>4, <2>3 DEF Left
    <2>5. ASSUME NEW q \in Pieces(h, v)'
          PROVE  Cardinality((Sent(h, v) \cup Missing(c, v) \cup Ahead(h, v))') <= q.count
      <3> DEFINE U == Sent(h, v)' \cup M \cup Ahead(h, v)'
                 V == Sent(h, v) \cup lying
      <3>1. V \subseteq Entries
        BY <1>3, LyingEntries
      <3>2. U \subseteq V
        BY <2>3
      <3>3. q.count \in Nat /\ Cardinality(V) <= q.count
        BY <1>3, <2>3, <2>5
      <3>4. Cardinality(U) \in Nat /\ Cardinality(V) \in Nat /\ Cardinality(U) <= Cardinality(V)
        BY <3>1, <3>2, FewerEntries
      <3> HIDE DEF U, V
      <3>5. Cardinality(U) <= q.count
        BY <3>3, <3>4
      <3> QED  BY <3>5 DEF U
    <2> QED  BY <1>3, <1>6, <2>3, <2>4, <2>5 DEF Announces
  <1> QED  BY <1>1, <1>5, <1>6

-----------------------------------------------------------------------------
(* What a holder sends under a value. *)
NothingSent ==
    /\ toCollector \subseteq toCollector'
    /\ \A p \in toCollector' : p.kind \in {"piece", "nothing"} => p \in toCollector

View(h, v) == Calm(h, v) \/ Begins(h, v) \/ Continues(h, v)

(* What a holder notes and holds under a value. *)
Notes(h, v) ==
    /\ \/ again'[h][v] = again[h][v] \/ again'[h][v] = NoRun
       \/ again'[h][v] \in Runs /\ random[<<again'[h][v], h>>] # NoTask
    /\ \A e \in Entries : InList(e, held'[h][v]) => InList(e, held[h][v]) \/ ValueOf[e] = v

LEMMA SilentIsCalm ==
  ASSUME NothingSent, NEW h, NEW v, handOuts'[h][v] = handOuts[h][v],
         handOut'[h][v] = handOut[h][v] \/ handOut'[h][v] = NoHandOut
  PROVE  Calm(h, v)
  <1>1. Pieces(h, v)' = Pieces(h, v) /\ Nothings(h, v)' = Nothings(h, v)
    BY DEF NothingSent, Pieces, Nothings
  <1> QED  BY <1>1 DEF Calm

(* A piece of s leaves, and nothing else does. *)
LEMMA PieceSent ==
  ASSUME TypeOK, NEW h \in Holders, NEW v \in Values, NEW list, NEW s \in Seq(Entries),
         NEW came \in Nat, NEW r, HandsOut(h, v, list, s, came, r), held'[h][v] = list,
         \A i \in 1 .. Len(s) : ValueOf[s[i]] = v
  PROVE  /\ PieceLeaves(h, v, list, s, came, r)
         /\ \A g \in Holders, w \in Values :
               /\ Nothings(g, w)' = Nothings(g, w)
               /\ <<g, w>> # <<h, v>> =>
                     handOut'[g][w] = handOut[g][w] /\ Pieces(g, w)' = Pieces(g, w)
  <1> DEFINE n == came + Cardinality(StillLying(list, s))
  <1>1. PICK k \in StillLying(list, s) :
          /\ \A i \in StillLying(list, s) : k <= i
          /\ handOut' = [handOut EXCEPT ![h][v] =
                [left |-> SubSeq(s, k + 1, Len(s)), came |-> came + 1, run |-> r]]
          /\ SentToCollector({Piece(h, s[k], Announced(came, Cardinality(StillLying(list, s))), r)})
    BY Zenon DEF HandsOut
  <1>2. ValueOf[s[k]] = v
    BY DEF StillLying
  <1>3. PICK p : p = Piece(h, s[k], n, r)
    OBVIOUS
  <1>4. /\ p.kind = "piece" /\ p.holder = h /\ p.entry = s[k] /\ p.count = n
        /\ toCollector' = toCollector \cup {p}
    BY <1>1, <1>3 DEF Piece, SentToCollector, Announced
  <1>5. Pieces(h, v)' = Pieces(h, v) \cup {p}
    BY <1>2, <1>4 DEF Pieces
  <1>6. PICK x : x = [left |-> SubSeq(s, k + 1, Len(s)), came |-> came + 1, run |-> r]
    OBVIOUS
  <1>7. /\ handOut'[h][v] = x
        /\ \A g \in Holders, w \in Values : <<g, w>> # <<h, v>> => handOut'[g][w] = handOut[g][w]
    BY <1>1, <1>6 DEF TypeOK, HolderTypeOK
  <1>8. PieceLeaves(h, v, list, s, came, r)
    BY <1>1, <1>4, <1>5, <1>6, <1>7, Zenon DEF PieceLeaves
  <1>9. ASSUME NEW g \in Holders, NEW w \in Values
        PROVE  /\ Nothings(g, w)' = Nothings(g, w)
               /\ <<g, w>> # <<h, v>> => Pieces(g, w)' = Pieces(g, w)
    BY <1>2, <1>4 DEF Nothings, Pieces
  <1> QED  BY <1>7, <1>8, <1>9

(* Entries of part of a list are entries of the list. *)
LEMMA PurgedIn ==
  ASSUME NEW s \in Seq(Entries), NEW old \in Nat, NEW e, InList(e, Purged(s, old))
  PROVE  InList(e, s)
  <1> DEFINE t == SubSeq(s, old + 1, Len(s))
  <1>1. PICK j \in 1 .. Len(t) : t[j] = e
    BY DEF InList, Purged
  <1>2. CASE old + 1 <= Len(s)
    <2>1. old + 1 \in 1 .. Len(s)
      BY <1>2
    <2>2. Len(t) = Len(s) - old /\ \A i \in 1 .. Len(t) : t[i] = s[i + old]
      BY <2>1, SubSeqProperties
    <2>3. j + old \in 1 .. Len(s) /\ s[j + old] = e
      BY <1>1, <2>2
    <2> QED  BY <2>3 DEF InList
  <1>3. CASE ~(old + 1 <= Len(s))
    BY <1>1, <1>3
  <1> QED  BY <1>2, <1>3

LEMMA AnswersView ==
  ASSUME TypeOK, NEW h \in Holders, NEW v \in Values, NEW r \in Runs, NEW old \in Nat,
         Answers(h, v, r, old), HandsOutOrderly(h, v), random[<<r, h>>] # NoTask
  PROVE  /\ Begins(h, v)
         /\ \A g \in Holders, w \in Values :
               /\ <<g, w>> # <<h, v>> => Calm(g, w)
               /\ \A e \in Entries : InList(e, held'[g][w]) => InList(e, held[g][w])
  <1> DEFINE list == Purged(held[h][v], old)
  <1>1. list \in Seq(Entries) /\ held[h][v] \in Seq(Entries)
    BY PurgedType, LeftType
  <1>2. /\ held'[h][v] = list
        /\ \A g \in Holders, w \in Values : <<g, w>> # <<h, v>> => held'[g][w] = held[g][w]
    BY DEF Answers, TypeOK, HolderTypeOK
  <1>3. /\ handOuts'[h][v] =
              IF Len(handOuts[h][v]) < 2 THEN Append(handOuts[h][v], r) ELSE handOuts[h][v]
        /\ \A g \in Holders, w \in Values :
              <<g, w>> # <<h, v>> => handOuts'[g][w] = handOuts[g][w]
    BY DEF Answers, TypeOK, HolderTypeOK
  <1>4. \A e \in Entries : InList(e, list) => InList(e, held[h][v])
    BY <1>1, PurgedIn
  <1> HIDE DEF list
  <1>5. CASE list = <<>> /\ handOut' = [handOut EXCEPT ![h][v] = NoHandOut]
             /\ SentToCollector({Nothing(h, v, r)})
    <2>1. /\ handOut'[h][v] = NoHandOut
          /\ \A g \in Holders, w \in Values : <<g, w>> # <<h, v>> => handOut'[g][w] = handOut[g][w]
      BY <1>5 DEF TypeOK, HolderTypeOK
    <2>2. PICK p : p = Nothing(h, v, r)
      OBVIOUS
    <2>3. /\ p.kind = "nothing" /\ p.holder = h /\ p.value = v
          /\ toCollector' = toCollector \cup {p}
      BY <1>5, <2>2 DEF Nothing, SentToCollector
    <2>4. \A g \in Holders, w \in Values :
            /\ Pieces(g, w)' = Pieces(g, w) /\ Nothings(g, w) \subseteq Nothings(g, w)'
            /\ <<g, w>> # <<h, v>> => Nothings(g, w)' = Nothings(g, w)
      BY <2>3 DEF Pieces, Nothings
    <2>5. Begins(h, v)
      BY <1>1, <1>2, <1>3, <1>5, <2>1, <2>4, Zenon DEF Begins
    <2>6. \A g \in Holders, w \in Values : <<g, w>> # <<h, v>> => Calm(g, w)
      BY <1>3, <2>1, <2>4 DEF Calm
    <2> QED  BY <1>2, <1>4, <2>5, <2>6
  <1>6. CASE HandsOut(h, v, list, list, 0, r)
    <2>1. \A i \in 1 .. Len(list) : ValueOf[list[i]] = v
      <3>1. ASSUME NEW i \in 1 .. Len(list)  PROVE ValueOf[list[i]] = v
        <4>1. list[i] \in Entries /\ InList(list[i], list)
          BY <1>1 DEF InList
        <4> QED  BY <1>4, <4>1 DEF HandsOutOrderly
      <3> QED  BY <3>1
    <2>2. 0 \in Nat
      OBVIOUS
    <2>3. /\ PieceLeaves(h, v, list, list, 0, r)
          /\ \A g \in Holders, w \in Values :
                /\ Nothings(g, w)' = Nothings(g, w)
                /\ <<g, w>> # <<h, v>> =>
                      handOut'[g][w] = handOut[g][w] /\ Pieces(g, w)' = Pieces(g, w)
      BY <1>1, <1>2, <1>6, <2>1, <2>2, PieceSent
    <2>4. Nothings(h, v) \subseteq Nothings(h, v)' /\ Nothings(h, v)' = Nothings(h, v)
      BY <2>3
    <2>5. Begins(h, v)
      BY <1>1, <1>3, <2>3, <2>4, Zenon DEF Begins
    <2>6. \A g \in Holders, w \in Values : <<g, w>> # <<h, v>> => Calm(g, w)
      BY <1>3, <2>3 DEF Calm
    <2> QED  BY <1>2, <1>4, <2>5, <2>6
  <1>7. \/ /\ list = <<>> /\ handOut' = [handOut EXCEPT ![h][v] = NoHandOut]
           /\ SentToCollector({Nothing(h, v, r)})
        \/ HandsOut(h, v, list, list, 0, r)
    BY Zenon DEF Answers, list
  <1> QED  BY <1>5, <1>6, <1>7

-----------------------------------------------------------------------------
LEMMA AppendedIn ==
  ASSUME NEW s \in Seq(Entries), NEW d \in Entries, NEW t \in {Append(s, d), Tail(Append(s, d))},
         NEW e, InList(e, t)
  PROVE  InList(e, s) \/ e = d
  <1> DEFINE u == Append(s, d)
  <1>1. u \in Seq(Entries) /\ Len(u) = Len(s) + 1 /\ u # <<>>
        /\ \A i \in 1 .. Len(u) : u[i] = IF i = Len(s) + 1 THEN d ELSE s[i]
    OBVIOUS
  <1>2. ASSUME NEW i \in 1 .. Len(u), u[i] = e  PROVE InList(e, s) \/ e = d
    <2>1. i = Len(s) + 1 \/ i \in 1 .. Len(s)
      BY <1>1
    <2> QED  BY <1>1, <1>2, <2>1 DEF InList
  <1>3. CASE t = u
    BY <1>2, <1>3 DEF InList
  <1>4. CASE t = Tail(u)
    <2> HIDE DEF u
    <2>1. Len(Tail(u)) = Len(u) - 1 /\ \A i \in 1 .. Len(Tail(u)) : Tail(u)[i] = u[i + 1]
      BY <1>1
    <2>2. PICK i \in 1 .. Len(Tail(u)) : Tail(u)[i] = e
      BY <1>4 DEF InList
    <2>3. i + 1 \in 1 .. Len(u) /\ u[i + 1] = e
      BY <1>1, <2>1, <2>2
    <2> QED  BY <1>2, <2>3
  <1> QED  BY <1>3, <1>4

LEMMA WithoutIn ==
  ASSUME NEW s \in Seq(Entries), NEW k \in 1 .. Len(s), NEW e,
         InList(e, SubSeq(s, 1, k - 1) \o SubSeq(s, k + 1, Len(s)))
  PROVE  InList(e, s)
  <1> DEFINE a == SubSeq(s, 1, k - 1)
             b == SubSeq(s, k + 1, Len(s))
  <1>1. a \in Seq(Entries) /\ b \in Seq(Entries)
    BY LaterPart
  <1>2. Len(a) = k - 1 /\ \A i \in 1 .. Len(a) : a[i] = s[i]
    BY SubSeqProperties
  <1>3. Len(b) = Len(s) - k /\ \A i \in 1 .. Len(b) : b[i] = s[i + k]
    BY SubSeqProperties
  <1>4. /\ Len(a \o b) = Len(a) + Len(b)
        /\ \A i \in 1 .. Len(a) + Len(b) : (a \o b)[i] = IF i <= Len(a) THEN a[i] ELSE b[i - Len(a)]
    BY <1>1, ConcatProperties
  <1>5. PICK i \in 1 .. Len(a \o b) : (a \o b)[i] = e
    BY DEF InList
  <1> HIDE DEF a, b
  <1>6. CASE i <= Len(a)
    <2>1. i \in 1 .. Len(s) /\ s[i] = e
      BY <1>2, <1>4, <1>5, <1>6
    <2> QED  BY <2>1 DEF InList
  <1>7. CASE ~(i <= Len(a))
    <2>1. i - Len(a) \in 1 .. Len(b) /\ i - Len(a) + k \in 1 .. Len(s)
      BY <1>2, <1>3, <1>4, <1>5, <1>7
    <2>2. s[i - Len(a) + k] = e
      BY <1>2, <1>3, <1>4, <1>5, <1>7, <2>1
    <2> QED  BY <2>1, <2>2 DEF InList
  <1> QED  BY <1>6, <1>7

-----------------------------------------------------------------------------
Views == \A g \in Holders, w \in Values : View(g, w) /\ Notes(g, w)

(* A step that hands nothing out. *)
LEMMA SilentViews ==
  ASSUME NothingSent, UNCHANGED <<handOut, handOuts>>,
         \A g \in Holders, w \in Values : Notes(g, w)
  PROVE  Views
  BY SilentIsCalm DEF Views, View

LEMMA SameNotes ==
  ASSUME UNCHANGED <<held, again>>, NEW g, NEW w  PROVE Notes(g, w)
  BY DEF Notes

LEMMA DepositViews ==
  ASSUME TypeOK, NEW h \in Holders, NEW e \in Entries, NEW old \in Old, Deposit(h, e, old)
  PROVE  Views
  <1> DEFINE v == ValueOf[e]
             list == Purged(held[h][v], old)
             new == IF Len(Append(list, e)) > PerValueAtMost THEN Tail(Append(list, e))
                    ELSE Append(list, e)
  <1>1. v \in Values /\ old \in Nat
    BY ValueOfAssumption, OldType
  <1>2. list \in Seq(Entries) /\ held[h][v] \in Seq(Entries)
    BY <1>1, LeftType, PurgedType
  <1>3. held' = [held EXCEPT ![h][v] = new]
    BY DEF Deposit
  <1>4. new \in {Append(list, e), Tail(Append(list, e))}
    OBVIOUS
  <1>5. \A f \in Entries : InList(f, new) => InList(f, held[h][v]) \/ f = e
    <2> HIDE DEF new
    <2> QED  BY <1>1, <1>2, <1>4, AppendedIn, PurgedIn
  <1> HIDE DEF new
  <1>6. ASSUME NEW g \in Holders, NEW w \in Values  PROVE Notes(g, w)
    <2>1. held'[g][w] = held[g][w] \/ (g = h /\ w = v /\ held'[g][w] = new)
      BY <1>1, <1>3 DEF TypeOK, HolderTypeOK
    <2> QED  BY <1>5, <2>1 DEF Notes, Deposit
  <1>7. NothingSent /\ UNCHANGED <<handOut, handOuts>>
    BY DEF Deposit, NothingSent, wire
  <1> QED  BY <1>6, <1>7, SilentViews

LEMMA DeleteViews ==
  ASSUME TypeOK, NEW h \in Holders, NEW e \in Entries, NEW n, OnDelete(h, e, n)
  PROVE  Views
  <1> DEFINE list == held[h][ValueOf[e]]
  <1>1. PICK i \in 1 .. Len(list) :
          held' = [held EXCEPT ![h][ValueOf[e]] =
              SubSeq(list, 1, i - 1) \o SubSeq(list, i + 1, Len(list))]
    BY Zenon DEF OnDelete
  <1>2. PICK new : new = SubSeq(list, 1, i - 1) \o SubSeq(list, i + 1, Len(list))
    OBVIOUS
  <1>3. list \in Seq(Entries) /\ ValueOf[e] \in Values
    BY LeftType, ValueOfAssumption
  <1>4. \A f \in Entries : InList(f, new) => InList(f, list)
    BY <1>2, <1>3, WithoutIn
  <1>5. ASSUME NEW g \in Holders, NEW w \in Values  PROVE Notes(g, w)
    <2>1. held'[g][w] = held[g][w] \/ (g = h /\ w = ValueOf[e] /\ held'[g][w] = new)
      BY <1>1, <1>2, <1>3 DEF TypeOK, HolderTypeOK
    <2> QED  BY <1>4, <2>1 DEF Notes, OnDelete
  <1>6. NothingSent /\ UNCHANGED <<handOut, handOuts>>
    BY DEF OnDelete, NothingSent, wire
  <1> QED  BY <1>5, <1>6, SilentViews

LEMMA RestartViews ==
  ASSUME TypeOK, NEW h \in Holders, NEW old \in [Values -> Old], HolderRestarts(h, old)
  PROVE  Views
  <1>0. NothingSent
    BY DEF HolderRestarts, NothingSent, wire
  <1> SUFFICES ASSUME NEW g \in Holders, NEW w \in Values  PROVE View(g, w) /\ Notes(g, w)
    BY DEF Views
  <1>1. CASE g = h
    <2>1. /\ handOut'[g][w] = NoHandOut /\ handOuts'[g][w] = handOuts[g][w]
          /\ again'[g][w] = NoRun /\ held'[g][w] = Purged(held[g][w], old[w])
      BY <1>1 DEF HolderRestarts, TypeOK, HolderTypeOK
    <2>2. held[g][w] \in Seq(Entries) /\ old[w] \in Nat
      BY LeftType, OldType
    <2>3. \A e \in Entries : InList(e, held'[g][w]) => InList(e, held[g][w])
      BY <2>1, <2>2, PurgedIn
    <2> QED  BY <1>0, <2>1, <2>3, SilentIsCalm DEF View, Notes
  <1>2. CASE g # h
    <2>1. /\ handOut'[g][w] = handOut[g][w] /\ handOuts'[g][w] = handOuts[g][w]
          /\ again'[g][w] = again[g][w] /\ held'[g][w] = held[g][w]
      BY <1>2 DEF HolderRestarts, TypeOK, HolderTypeOK
    <2> QED  BY <1>0, <2>1, SilentIsCalm DEF View, Notes
  <1> QED  BY <1>1, <1>2

LEMMA NextViews ==
  ASSUME TypeOK, NEW h \in Holders, NEW v \in Values, HandOutNext(h, v), HandsOutOrderly(h, v)
  PROVE  Views
  <1> DEFINE s == handOut[h][v].left
             list == held[h][v]
             came == handOut[h][v].came
             r == handOut[h][v].run
  <1>1. s \in Seq(Entries) /\ came \in Nat
    BY LeftType
  <1>2. HandsOut(h, v, list, s, came, r) /\ UNCHANGED <<held, again, handOuts>> /\ Running(h, v)
    BY Zenon DEF HandOutNext
  <1>3. ASSUME NEW i \in 1 .. Len(s)  PROVE ValueOf[s[i]] = v
    <2>1. s[i] \in Entries /\ InList(s[i], s)
      BY <1>1 DEF InList
    <2> QED  BY <2>1 DEF HandsOutOrderly, Left
  <1>4. /\ PieceLeaves(h, v, list, s, came, r)
        /\ \A g \in Holders, w \in Values :
              /\ Nothings(g, w)' = Nothings(g, w)
              /\ <<g, w>> # <<h, v>> =>
                    handOut'[g][w] = handOut[g][w] /\ Pieces(g, w)' = Pieces(g, w)
    <2>1. held'[h][v] = list
      BY <1>2, Zenon
    <2> HIDE DEF s, list, came, r
    <2> QED  BY <1>1, <1>2, <1>3, <2>1, PieceSent
  <1>5. Continues(h, v)
    BY <1>2, <1>4, Zenon DEF Continues
  <1>6. \A g \in Holders, w \in Values : <<g, w>> # <<h, v>> => Calm(g, w)
    BY <1>2, <1>4 DEF Calm
  <1> QED  BY <1>2, <1>5, <1>6, SameNotes DEF Views, View

LEMMA AnswerViews ==
  ASSUME TypeOK, NEW h \in Holders, NEW v \in Values, NEW r \in Runs, NEW old \in Old,
         Answers(h, v, r, old), HandsOutOrderly(h, v), random[<<r, h>>] # NoTask,
         again' = again \/ again' = [again EXCEPT ![h][v] = NoRun]
  PROVE  Views
  <1>1. /\ Begins(h, v)
        /\ \A g \in Holders, w \in Values :
              /\ <<g, w>> # <<h, v>> => Calm(g, w)
              /\ \A e \in Entries : InList(e, held'[g][w]) => InList(e, held[g][w])
    BY OldType, AnswersView
  <1>2. \A g \in Holders, w \in Values : again'[g][w] = again[g][w] \/ again'[g][w] = NoRun
    <2>1. CASE again' = [again EXCEPT ![h][v] = NoRun]
      BY <2>1 DEF TypeOK, HolderTypeOK
    <2> QED  BY <2>1
  <1> QED  BY <1>1, <1>2 DEF Views, View, Notes

LEMMA EndsViews ==
  ASSUME TypeOK, NEW h \in Holders, NEW v \in Values, NEW old \in Old, HandOutEnds(h, v, old),
         HandsOutOrderly(h, v)
  PROVE  Views
  <1>1. again' = [again EXCEPT ![h][v] = NoRun]
    BY DEF HandOutEnds
  <1>2. CASE again[h][v] = NoRun
    <2>1. /\ handOut' = [handOut EXCEPT ![h][v] = NoHandOut]
          /\ UNCHANGED <<held, handOuts, toCollector>>
      BY <1>2 DEF HandOutEnds
    <2>2. \A g \in Holders, w \in Values :
            /\ handOut'[g][w] = handOut[g][w] \/ handOut'[g][w] = NoHandOut
            /\ again'[g][w] = again[g][w] \/ again'[g][w] = NoRun
      BY <1>1, <2>1 DEF TypeOK, HolderTypeOK
    <2>3. NothingSent
      BY <2>1 DEF NothingSent
    <2> QED  BY <2>1, <2>2, <2>3, SilentIsCalm DEF Views, View, Notes
  <1>3. CASE again[h][v] # NoRun
    <2>1. again[h][v] \in Runs
      BY <1>3 DEF TypeOK, HolderTypeOK
    <2>2. random[<<again[h][v], h>>] # NoTask
      BY <2>1 DEF HandsOutOrderly
    <2>3. Answers(h, v, again[h][v], old)
      BY <1>3 DEF HandOutEnds
    <2> QED  BY <1>1, <2>1, <2>2, <2>3, AnswerViews
  <1> QED  BY <1>2, <1>3

(* A proof is answered, or noted, for the run whose task it is under. *)
LEMMA ProofViews ==
  ASSUME TypeOK, TasksAgree, NEW h \in Holders, NEW v \in Values, NEW n \in Randoms,
         NEW old \in Old, OnProof(h, v, n, old), HandsOutOrderly(h, v)
  PROVE  Views
  <1>1. PICK t \in tasks[h] :
          /\ Proof(h, v, n) \in toHolder /\ t.random = n
          /\ IF Running(h, v)
                THEN /\ again' = [again EXCEPT ![h][v] = t.run]
                     /\ UNCHANGED <<held, handOut, handOuts, toCollector>>
                ELSE Answers(h, v, t.run, old) /\ UNCHANGED again
    BY DEF OnProof
  <1>2. t.run \in Runs
    BY DEF TypeOK, HolderTypeOK, Tasks
  <1>3. random[<<t.run, h>>] # NoTask
    <2>1. PICK r \in Runs : random[<<r, h>>] = n
      BY <1>1 DEF TasksAgree
    <2>2. Task(h, r, n) \in toCollector /\ Task(h, t.run, n) \in toCollector
      BY <1>1, <2>1, NoTaskIsNoRandom DEF TasksAgree
    <2>3. t.run = r
      BY <1>2, <2>2 DEF TasksAgree
    <2> QED  BY <2>1, <2>3, NoTaskIsNoRandom
  <1>4. CASE Running(h, v)
    <2>1. /\ again' = [again EXCEPT ![h][v] = t.run]
          /\ UNCHANGED <<held, handOut, handOuts, toCollector>>
      BY <1>1, <1>4
    <2>2. \A g \in Holders, w \in Values :
            again'[g][w] = again[g][w] \/ (g = h /\ w = v /\ again'[g][w] = t.run)
      BY <2>1 DEF TypeOK, HolderTypeOK
    <2>3. \A g \in Holders, w \in Values : Notes(g, w)
      BY <1>2, <1>3, <2>1, <2>2 DEF Notes
    <2>4. NothingSent
      BY <2>1 DEF NothingSent
    <2> QED  BY <2>1, <2>3, <2>4, SilentViews
  <1>5. CASE ~Running(h, v)
    <2>1. Answers(h, v, t.run, old) /\ again' = again
      BY <1>1, <1>5
    <2> QED  BY <1>2, <1>3, <2>1, AnswerViews
  <1> QED  BY <1>4, <1>5

LEMMA HolderViews ==
  ASSUME TypeOK, TasksAgree, \A g \in Holders, w \in Values : HandsOutOrderly(g, w), HolderStep
  PROVE  Views
  <1>1. PICK h \in Holders :
          \/ \E e \in Entries, old \in Old : Deposit(h, e, old)
          \/ \E r \in Runs : OnCollect(h, r)
          \/ \E t \in tasks[h] : TaskExpires(h, t)
          \/ \E v \in Values : ProofExpires(h, v) \/ HandOutNext(h, v)
          \/ \E v \in Values, old \in Old : HandOutEnds(h, v, old)
          \/ \E v \in Values, n \in Randoms : RefusedProof(h, v, n)
          \/ \E v \in Values, n \in Randoms, old \in Old : OnProof(h, v, n, old)
          \/ \E e \in Entries, n \in Randoms : OnDelete(h, e, n)
          \/ \E old \in [Values -> Old] : HolderRestarts(h, old)
    BY DEF HolderStep
  <1>2. ASSUME NEW r, OnCollect(h, r)  PROVE Views
    <2>1. NothingSent
      BY <1>2 DEF OnCollect, SentToCollector, NothingSent, Task
    <2> QED  BY <1>2, <2>1, SameNotes, SilentViews DEF OnCollect
  <1>3. ASSUME NEW t, TaskExpires(h, t)  PROVE Views
    <2>1. NothingSent
      BY <1>3 DEF TaskExpires, NothingSent, wire
    <2> QED  BY <1>3, <2>1, SameNotes, SilentViews DEF TaskExpires
  <1>4. ASSUME NEW v, ProofExpires(h, v)  PROVE Views
    <2>1. NothingSent
      BY <1>4 DEF ProofExpires, NothingSent, wire
    <2> QED  BY <1>4, <2>1, SameNotes, SilentViews DEF ProofExpires
  <1>5. ASSUME NEW v, NEW n, RefusedProof(h, v, n)  PROVE Views
    <2>1. NothingSent
      BY <1>5 DEF RefusedProof, SentToCollector, NothingSent, Refusal
    <2> QED  BY <1>5, <2>1, SameNotes, SilentViews DEF RefusedProof, holderVars
  <1> QED
    BY <1>1, <1>2, <1>3, <1>4, <1>5, DepositViews, NextViews, EndsViews, ProofViews, DeleteViews,
       RestartViews

-----------------------------------------------------------------------------
(* The piece that leaves, and the rest of the hand-out. *)
LEMMA PieceOrderly ==
  ASSUME TypeOK', NEW h \in Holders, NEW v \in Values, NEW list, NEW s \in Seq(Entries),
         NEW came \in Nat, NEW r \in Runs, PieceLeaves(h, v, list, s, came, r)
  PROVE  /\ \A p \in Pieces(h, v)' :
               p \in Pieces(h, v) \/ (p.count \in Nat /\ p.entry \in Entries)
         /\ Running(h, v)' /\ \A e \in Left(h, v)' : InList(e, s)
  <1>1. PICK k, p :
          /\ k \in StillLying(list, s)
          /\ handOut'[h][v] = [left |-> SubSeq(s, k + 1, Len(s)), came |-> came + 1, run |-> r]
          /\ Pieces(h, v)' = Pieces(h, v) \cup {p} /\ p.entry = s[k]
          /\ p.count = came + Cardinality(StillLying(list, s))
    BY Zenon DEF PieceLeaves
  <1>2. p.count \in Nat /\ p.entry \in Entries /\ k \in 1 .. Len(s)
    <2>1. k \in 1 .. Len(s)
      BY <1>1 DEF StillLying
    <2>2. Cardinality(StillLying(list, s)) \in Nat
      BY LyingEntries
    <2> QED  BY <1>1, <2>1, <2>2
  <1>3. PICK x : x = handOut'[h][v]
    OBVIOUS
  <1>4. x.left = SubSeq(s, k + 1, Len(s)) /\ x.run = r
    <2>1. x = [left |-> SubSeq(s, k + 1, Len(s)), came |-> came + 1, run |-> r]
      BY <1>1, <1>3, Zenon
    <2> QED  BY <2>1
  <1>5. Running(h, v)'
    <2>1. x.run # NoRun
      BY <1>4, NoRunAssumption
    <2> QED  BY <1>3, <2>1, Zenon DEF Running
  <1>6. ASSUME NEW e \in Left(h, v)'  PROVE InList(e, s)
    <2>1. InList(e, SubSeq(s, k + 1, Len(s)))
      BY <1>3, <1>4, Zenon DEF Left
    <2>2. PICK i \in k + 1 .. Len(s) : s[i] = e
      BY <1>2, <2>1, LaterPlaces
    <2>3. i \in 1 .. Len(s)
      BY <1>2
    <2> QED  BY <2>2, <2>3 DEF InList
  <1> QED  BY <1>1, <1>2, <1>5, <1>6

LEMMA OrderlyCalm ==
  ASSUME TypeOK, TypeOK', NEW h \in Holders, NEW v \in Values, HandsOutOrderly(h, v),
         Calm(h, v), Notes(h, v), \A r \in Runs : random[<<r, h>>] # NoTask =>
                                     random'[<<r, h>>] # NoTask
  PROVE  HandsOutOrderly(h, v)'
  <1>1. /\ Running(h, v)' => Running(h, v)
        /\ ~Running(h, v)' => handOut'[h][v].left = <<>>
        /\ Left(h, v)' \subseteq Left(h, v)
    <2>1. CASE handOut'[h][v] = handOut[h][v]
      BY <2>1 DEF Running, Left, HandsOutOrderly
    <2>2. CASE handOut'[h][v] = NoHandOut
      BY <2>2 DEF NoHandOut, Running, Left, InList
    <2> QED  BY <2>1, <2>2 DEF Calm
  <1>2. \A e \in Entries : InList(e, held'[h][v]) \/ e \in Left(h, v)' => ValueOf[e] = v
    BY <1>1 DEF HandsOutOrderly, Notes
  <1>3. \A r \in Runs : handOuts'[h][v] = <<r>> \/ again'[h][v] = r => random'[<<r, h>>] # NoTask
    BY NoRunAssumption DEF HandsOutOrderly, Notes, Calm
  <1>4. /\ (Pieces(h, v) \cup Nothings(h, v))' # {} => handOuts'[h][v] # <<>>
        /\ \A p \in Pieces(h, v)' : p.count \in Nat /\ p.entry \in Entries
        /\ Running(h, v)' => handOuts'[h][v] # <<>>
    BY <1>1 DEF Calm, HandsOutOrderly
  <1> QED  BY <1>1, <1>2, <1>3, <1>4 DEF HandsOutOrderly

LEMMA OrderlyContinues ==
  ASSUME TypeOK, TypeOK', NEW h \in Holders, NEW v \in Values, HandsOutOrderly(h, v),
         Continues(h, v), Notes(h, v), UNCHANGED random
  PROVE  HandsOutOrderly(h, v)'
  <1> DEFINE s == handOut[h][v].left
  <1>1. s \in Seq(Entries) /\ handOut[h][v].came \in Nat /\ handOut[h][v].run \in Runs
    BY LeftType DEF Continues, Running
  <1>2. PieceLeaves(h, v, held[h][v], s, handOut[h][v].came, handOut[h][v].run)
    BY DEF Continues
  <1>3. /\ \A p \in Pieces(h, v)' :
              p \in Pieces(h, v) \/ (p.count \in Nat /\ p.entry \in Entries)
        /\ Running(h, v)' /\ \A e \in Left(h, v)' : InList(e, s)
    BY <1>1, <1>2, PieceOrderly
  <1>4. \A e \in Entries : InList(e, held'[h][v]) \/ e \in Left(h, v)' => ValueOf[e] = v
    BY <1>3 DEF HandsOutOrderly, Notes, Left
  <1>5. \A r \in Runs : handOuts'[h][v] = <<r>> \/ again'[h][v] = r => random'[<<r, h>>] # NoTask
    BY NoRunAssumption DEF HandsOutOrderly, Notes, Continues
  <1>6. handOuts'[h][v] # <<>>
    BY DEF HandsOutOrderly, Continues
  <1> QED  BY <1>3, <1>4, <1>5, <1>6 DEF HandsOutOrderly

LEMMA OrderlyBegins ==
  ASSUME TypeOK, TypeOK', NEW h \in Holders, NEW v \in Values, HandsOutOrderly(h, v),
         Begins(h, v), Notes(h, v), UNCHANGED random
  PROVE  HandsOutOrderly(h, v)'
  <1>1. PICK r \in Runs, list \in Seq(Entries) :
          /\ random[<<r, h>>] # NoTask
          /\ handOuts'[h][v] =
                IF Len(handOuts[h][v]) < 2 THEN Append(handOuts[h][v], r) ELSE handOuts[h][v]
          /\ \/ /\ list = <<>> /\ held'[h][v] = <<>> /\ handOut'[h][v] = NoHandOut
                /\ Pieces(h, v)' = Pieces(h, v)
             \/ /\ PieceLeaves(h, v, list, list, 0, r)
                /\ Nothings(h, v)' = Nothings(h, v)
    BY Zenon DEF Begins
  <1>2. PICK a, b : a = handOuts[h][v] /\ b = handOuts'[h][v]
    OBVIOUS
  <1>3. b # <<>> /\ \A q \in Runs : b = <<q>> => q = r
    <2>1. a \in Seq(Runs)
      BY <1>2, LeftType
    <2>2. b = IF Len(a) < 2 THEN Append(a, r) ELSE a
      BY <1>1, <1>2, Zenon
    <2>3. CASE Len(a) < 2
      <3>1. Len(Append(a, r)) = Len(a) + 1 /\ Append(a, r)[Len(a) + 1] = r
        BY <2>1
      <3>2. ASSUME NEW q \in Runs, b = <<q>>  PROVE q = r
        <4>1. Len(<<q>>) = 1 /\ <<q>>[1] = q
          OBVIOUS
        <4>2. Len(b) = 1 /\ b[1] = q
          BY <3>2, <4>1, Zenon
        <4>3. Len(b) = Len(a) + 1 /\ b[Len(a) + 1] = r
          BY <2>2, <2>3, <3>1
        <4> QED  BY <4>2, <4>3
      <3> QED  BY <2>1, <2>2, <2>3, <3>1, <3>2
    <2>4. CASE ~(Len(a) < 2)
      <3>1. ASSUME NEW q  PROVE Len(<<q>>) < 2 /\ Len(<<>>) < 2
        OBVIOUS
      <3>2. b = a
        BY <2>2, <2>4
      <3> QED  BY <2>4, <3>1, <3>2, Zenon
    <2> QED  BY <2>3, <2>4
  <1>4. handOuts'[h][v] # <<>> /\ \A q \in Runs : handOuts'[h][v] = <<q>> => q = r
    BY <1>2, <1>3, Zenon
  <1>5. \A q \in Runs : handOuts'[h][v] = <<q>> \/ again'[h][v] = q => random'[<<q, h>>] # NoTask
    BY <1>1, <1>4, NoRunAssumption DEF HandsOutOrderly, Notes
  <1>6. /\ \A p \in Pieces(h, v)' : p.count \in Nat /\ p.entry \in Entries
        /\ ~Running(h, v)' => handOut'[h][v].left = <<>>
        /\ \A e \in Left(h, v)' : InList(e, held'[h][v])
    <2>1. CASE /\ handOut'[h][v] = NoHandOut /\ Pieces(h, v)' = Pieces(h, v)
      BY <2>1 DEF NoHandOut, Running, Left, InList, HandsOutOrderly
    <2>2. CASE PieceLeaves(h, v, list, list, 0, r)
      <3>0. 0 \in Nat
        OBVIOUS
      <3>1. /\ \A p \in Pieces(h, v)' :
                  p \in Pieces(h, v) \/ (p.count \in Nat /\ p.entry \in Entries)
            /\ Running(h, v)' /\ \A e \in Left(h, v)' : InList(e, list)
        BY <2>2, <3>0, PieceOrderly
      <3>2. held'[h][v] = list
        BY <2>2, Zenon DEF PieceLeaves
      <3> QED  BY <3>1, <3>2, Zenon DEF HandsOutOrderly
    <2> QED  BY <1>1, <2>1, <2>2
  <1>7. \A e \in Entries : InList(e, held'[h][v]) \/ e \in Left(h, v)' => ValueOf[e] = v
    BY <1>6 DEF HandsOutOrderly, Notes
  <1> QED  BY <1>4, <1>5, <1>6, <1>7 DEF HandsOutOrderly

-----------------------------------------------------------------------------
LEMMA FewerMissing ==
  ASSUME TypeOK, NEW S, Settles(S), NEW c \in Talks, random'[c] = random[c], NEW v
  PROVE  Missing(c, v)' \subseteq Missing(c, v)
  BY StillMissing DEF Missing

(* A hand-out begins only where none of the collector's began before. *)
LEMMA FirstBegins ==
  ASSUME TypeOK, NEW c \in Talks, NEW v \in Values, Once(c, v)', Begins(c[2], v)
  PROVE  handOuts[c[2]][v] = <<>>
  <1>1. PICK r \in Runs : handOuts'[c[2]][v] =
          IF Len(handOuts[c[2]][v]) < 2 THEN Append(handOuts[c[2]][v], r) ELSE handOuts[c[2]][v]
    BY Zenon DEF Begins
  <1>0. PICK q \in Runs : q = c[1]
    BY DEF Talks
  <1>2. PICK a, b : a = handOuts[c[2]][v] /\ b = handOuts'[c[2]][v]
    OBVIOUS
  <1>3. a \in Seq(Runs)
    BY <1>2, LeftType DEF Talks
  <1>4. b = IF Len(a) < 2 THEN Append(a, r) ELSE a
    BY <1>1, <1>2, Zenon
  <1>5. b = <<>> \/ b = <<q>>
    BY <1>0, <1>2, Zenon DEF Once
  <1>6. Len(b) < 2
    <2>1. Len(<<>>) < 2 /\ Len(<<q>>) < 2
      OBVIOUS
    <2> QED  BY <1>5, <2>1, Zenon
  <1>7. a = <<>>
    BY <1>3, <1>4, <1>6
  <1> QED  BY <1>2, <1>7, Zenon

LEMMA OnceBefore ==
  ASSUME TypeOK, NEW S, Settles(S), NEW c \in Talks, NEW v \in Values, Once(c, v)',
         View(c[2], v)
  PROVE  Once(c, v)
  <1>1. <<c[2], v>> \notin returned
    BY DEF Once, Settles
  <1>2. CASE Begins(c[2], v)
    BY <1>1, <1>2, FirstBegins, Zenon DEF Once
  <1>3. CASE handOuts'[c[2]][v] = handOuts[c[2]][v]
    BY <1>1, <1>3, Zenon DEF Once
  <1> QED  BY <1>2, <1>3 DEF View, Calm, Continues

(* A step of a holder. *)
LEMMA HolderWhole ==
  ASSUME TypeOK, TypeOK', NEW c \in Talks, NEW v \in Values, HandsOutOrderly(c[2], v),
         TalksOrderly(c)', Whole(c, v), View(c[2], v), UNCHANGED collectorVars, Settles({})
  PROVE  Whole(c, v)'
  <1> SUFFICES ASSUME Once(c, v)'
               PROVE  Announces(c, v)' /\ (v \in Asks[c[1]] => Complete(c, v)')
    BY DEF Whole
  <1>1. Missing(c, v)' \subseteq Missing(c, v)
    BY FewerMissing DEF collectorVars
  <1>2. Announces(c, v) /\ (v \in Asks[c[1]] => Complete(c, v))
    BY OnceBefore DEF Whole
  <1>3. v \in Asks[c[1]] => Complete(c, v)'
    BY <1>1, <1>2 DEF Complete, collectorVars
  <1>4. Announces(c, v)'
    <2>1. CASE Calm(c[2], v)
      BY <1>1, <1>2, <2>1, AnnouncesCalm DEF Once
    <2>2. CASE Begins(c[2], v)
      BY <2>2, AnnouncesBegins
    <2>3. CASE Continues(c[2], v)
      BY <1>1, <1>2, <2>3, AnnouncesContinues
    <2> QED  BY <2>1, <2>2, <2>3 DEF View
  <1> QED  BY <1>3, <1>4

-----------------------------------------------------------------------------
(* A step of the collector: the holders stay as they are. *)
LEMMA HoldersCalm ==
  ASSUME UNCHANGED <<holderVars, toCollector>>, NEW h, NEW v
  PROVE  Calm(h, v) /\ Notes(h, v)
  BY DEF holderVars, Calm, Notes, Pieces, Nothings

LEMMA RestsWhole ==
  ASSUME TypeOK, NEW S, Settles(S), UNCHANGED <<holderVars, toCollector>>,
         NEW c \in Talks, NEW v \in Values, HandsOutOrderly(c[2], v), Whole(c, v),
         random'[c] = random[c], Once(c, v)'
  PROVE  /\ Announces(c, v)' /\ Announces(c, v) /\ Missing(c, v)' \subseteq Missing(c, v)
         /\ v \in Asks[c[1]] => Complete(c, v)
  <1>1. Calm(c[2], v)
    BY HoldersCalm
  <1>2. Once(c, v)
    BY <1>1, OnceBefore DEF View
  <1>3. Missing(c, v)' \subseteq Missing(c, v)
    BY FewerMissing
  <1> QED  BY <1>1, <1>2, <1>3, AnnouncesCalm DEF Whole, Once

(* As many have come as were announced: none of what lies there is missing. *)
LEMMA AllCame ==
  ASSUME TypeOK, TypeOK', NEW S, Settles(S), NEW c \in Talks, NEW v \in Values,
         HandsOutOrderly(c[2], v), TalksOrderly(c), TalksOrderly(c)', Announces(c, v),
         Missing(c, v)' \subseteq Missing(c, v), NEW p \in Pieces(c[2], v),
         handed'[c][v] = handed[c][v] \cup {p.entry}, Done(p.count, handed'[c][v])
  PROVE  Missing(c, v)' = {}
  <1> DEFINE d == handed'[c][v]
             U == Sent(c[2], v) \cup Missing(c, v) \cup Ahead(c[2], v)
  <1>1. U \subseteq Entries
    BY DEF HandsOutOrderly, Sent, Missing, Ahead, Left, TypeOK
  <1>2. d \subseteq U
    BY DEF TalksOrderly, Sent
  <1>3. Cardinality(U) <= p.count /\ p.count \in Nat /\ Cardinality(d) >= p.count
    BY DEF Announces, Done, HandsOutOrderly
  <1>4. IsFiniteSet(U)
    BY <1>1, EntriesCounted
  <1>5. Cardinality(d) \in Nat /\ Cardinality(U) \in Nat /\ Cardinality(d) <= Cardinality(U)
    BY <1>1, <1>2, FewerEntries
  <1>6. d = U
    <2> HIDE DEF d, U
    <2>1. Cardinality(d) = Cardinality(U)
      BY <1>3, <1>5
    <2> QED  BY <1>2, <1>4, <2>1, FS_Subset
  <1>7. ASSUME NEW e \in Missing(c, v)'  PROVE FALSE
    <2>1. e \in d
      BY <1>6
    <2>2. e \notin d
      BY DEF Missing, TalksOrderly
    <2> QED  BY <2>1, <2>2
  <1> QED  BY <1>7

LEMMA CountingWhole ==
  ASSUME TypeOK, TypeOK', NEW S, Settles(S), UNCHANGED <<holderVars, toCollector>>,
         NEW q \in Talks, NEW w \in Values, NEW x, NEW d, Counting(q, w, x, d),
         NEW c \in Talks, NEW v \in Values, HandsOutOrderly(c[2], v), Whole(c, v),
         c = q /\ v = w /\ Announces(c, v) /\ Done(x, d) => Missing(c, v)' = {}
  PROVE  Whole(c, v)'
  <1> SUFFICES ASSUME Once(c, v)'
               PROVE  Announces(c, v)' /\ (v \in Asks[c[1]] => Complete(c, v)')
    BY DEF Whole
  <1>1. /\ Announces(c, v)' /\ Announces(c, v) /\ Missing(c, v)' \subseteq Missing(c, v)
        /\ v \in Asks[c[1]] => Complete(c, v)
    BY RestsWhole DEF Counting
  <1>2. Done(expected'[c][v], handed'[c][v]) => Missing(c, v)' = {} \/ v \notin Asks[c[1]]
    <2>0. /\ expected \in [Talks -> [Values -> 0 .. NotYet]]
          /\ handed \in [Talks -> [Values -> SUBSET Entries]]
      BY DEF TypeOK, CollectorTypeOK
    <2>1. CASE c = q /\ v = w
      <3>1. expected'[c][v] = x /\ handed'[c][v] = d
        BY <2>0, <2>1 DEF Counting
      <3> QED  BY <1>1, <2>1, <3>1
    <2>2. CASE ~(c = q /\ v = w)
      <3>1. expected'[c][v] = expected[c][v] /\ handed'[c][v] = handed[c][v]
        BY <2>0, <2>2 DEF Counting
      <3> QED  BY <1>1, <3>1 DEF Complete
    <2> QED  BY <2>1, <2>2
  <1>3. v \in Asks[c[1]] /\ end'[c] = "answered" => Missing(c, v)' = {}
    <2>1. CASE end[c] = "answered"
      BY <1>1, <2>1 DEF Complete
    <2>2. CASE end'[c] = "answered" /\ HandedOut(c, expected'[c], handed'[c])
      BY <1>2, <2>2 DEF HandedOut
    <2> QED  BY <2>1, <2>2 DEF Counting
  <1> QED  BY <1>1, <1>2, <1>3 DEF Complete

LEMMA RestingWhole ==
  ASSUME TypeOK, NEW S, Settles(S), UNCHANGED <<holderVars, toCollector>>, Rests,
         NEW c \in Talks, NEW v \in Values, HandsOutOrderly(c[2], v), Whole(c, v)
  PROVE  Whole(c, v)'
  <1> SUFFICES ASSUME Once(c, v)'
               PROVE  Announces(c, v)' /\ (v \in Asks[c[1]] => Complete(c, v)')
    BY DEF Whole
  <1>1. /\ Announces(c, v)' /\ Announces(c, v) /\ Missing(c, v)' \subseteq Missing(c, v)
        /\ v \in Asks[c[1]] => Complete(c, v)
    BY RestsWhole DEF Rests
  <1>2. Done(expected'[c][v], handed'[c][v]) => Done(expected[c][v], handed[c][v])
    BY DEF Rests, Done
  <1> QED  BY <1>1, <1>2 DEF Complete, Rests

(* With its task a conversation begins: nothing was handed out to it yet. *)
LEMMA TaskWhole ==
  ASSUME TypeOK, NEW S, Settles(S), UNCHANGED <<holderVars, toCollector>>,
         NEW h \in Holders, NEW r \in Runs, NEW n \in Randoms, TaskTaken(h, r, n),
         NEW c \in Talks, NEW v \in Values, HandsOutOrderly(c[2], v), TalksOrderly(c),
         Whole(c, v)
  PROVE  Whole(c, v)'
  <1> SUFFICES ASSUME Once(c, v)'
               PROVE  Announces(c, v)' /\ (v \in Asks[c[1]] => Complete(c, v)')
    BY DEF Whole
  <1>0. random \in [Talks -> Randoms \cup {NoTask}]
    BY DEF TypeOK, CollectorTypeOK
  <1>1. CASE random[c] = NoTask
    <2>1. handOuts[c[2]][v] = <<>>
      <3>1. c[1] \in Runs /\ c = <<c[1], c[2]>>
        BY DEF Talks
      <3>2. handOuts[c[2]][v] # <<c[1]>>
        BY <1>1, <3>1 DEF HandsOutOrderly
      <3>3. handOuts'[c[2]][v] = handOuts[c[2]][v]
        BY DEF holderVars
      <3> QED  BY <3>2, <3>3, Zenon DEF Once
    <2>2. Pieces(c[2], v) = {} /\ Nothings(c[2], v) = {} /\ ~Running(c[2], v)
      BY <2>1 DEF HandsOutOrderly
    <2>3. Announces(c, v)'
      BY <2>2 DEF Announces, Pieces, Nothings, Running, holderVars
    <2>4. expected'[c][v] = NotYet /\ end'[c] # "answered"
      BY <1>1 DEF TalksOrderly, TaskTaken
    <2> QED  BY <2>3, <2>4 DEF Complete, Done
  <1>2. CASE random[c] # NoTask
    <2>1. random'[c] = random[c]
      BY <1>0, <1>2 DEF TaskTaken
    <2>2. /\ Announces(c, v)' /\ Announces(c, v) /\ Missing(c, v)' \subseteq Missing(c, v)
          /\ v \in Asks[c[1]] => Complete(c, v)
      BY <2>1, RestsWhole
    <2> QED  BY <2>2 DEF Complete, TaskTaken
  <1> QED  BY <1>1, <1>2

-----------------------------------------------------------------------------
LEMMA OrderlyView ==
  ASSUME TypeOK, TypeOK', NEW h \in Holders, NEW v \in Values, HandsOutOrderly(h, v),
         View(h, v), Notes(h, v), UNCHANGED random
  PROVE  HandsOutOrderly(h, v)'
  BY OrderlyCalm, OrderlyBegins, OrderlyContinues DEF View

LEMMA HolderWholeInv ==
  ASSUME WholeInv, TypeOK', HolderStep, UNCHANGED collectorVars, Settles({})
  PROVE  WholeInv'
  <1>1. TypeOK /\ TasksAgree /\ Views
    BY HolderViews DEF WholeInv
  <1>2. TasksAgree'
    BY <1>1, HolderTasksAgree
  <1>3. \A h \in Holders, v \in Values : HandsOutOrderly(h, v)'
    BY <1>1, OrderlyView DEF WholeInv, Views, collectorVars
  <1>4. \A c \in Talks : TalksOrderly(c)'
    <2>1. toCollector \subseteq toCollector'
      BY <1>1, HolderTasks DEF TasksStep
    <2> QED  BY <1>1, <2>1, TalksRest DEF WholeInv, collectorVars
  <1>5. ASSUME NEW c \in Talks, NEW v \in Values  PROVE Whole(c, v)'
    <2>1. c[2] \in Holders
      BY DEF Talks
    <2> QED  BY <1>1, <1>4, <2>1, HolderWhole DEF WholeInv, Views
  <1> QED  BY <1>2, <1>3, <1>4, <1>5 DEF WholeInv

LEMMA TaskTalks ==
  ASSUME TypeOK, NEW S, Settles(S), UNCHANGED <<holderVars, toCollector>>,
         NEW h \in Holders, NEW r \in Runs, NEW n \in Randoms, TaskTaken(h, r, n),
         NEW c \in Talks, TalksOrderly(c)
  PROVE  TalksOrderly(c)' /\ (random[c] # NoTask => random'[c] # NoTask)
  <1>0. random \in [Talks -> Randoms \cup {NoTask}]
    BY DEF TypeOK, CollectorTypeOK
  <1>1. CASE c # <<r, h>>
    <2>1. random'[c] = random[c]
      BY <1>0, <1>1 DEF TaskTaken
    <2> QED  BY <2>1, TalksRest DEF TaskTaken
  <1>2. CASE c = <<r, h>>
    <2>1. random'[c] = n /\ n # NoTask
      BY <1>0, <1>2, NoTaskIsNoRandom DEF TaskTaken
    <2>2. \A e \in missing'[c] :
            /\ ValueOf[e] \in Asks[c[1]] /\ InList(e, held'[c[2]][ValueOf[e]])
            /\ e \notin handed'[c][ValueOf[e]]
      BY StillMissing DEF TalksOrderly
    <2>3. \A v \in Values : handed'[c][v] \subseteq Sent(c[2], v)'
      BY SentGrows DEF TalksOrderly, TaskTaken
    <2> QED  BY <2>1, <2>2, <2>3 DEF TalksOrderly
  <1> QED  BY <1>1, <1>2

(* What a step of the collector keeps whatever it counts. *)
LEMMA CollectorOrderly ==
  ASSUME WholeInv, TypeOK', UNCHANGED <<holderVars, toCollector>>,
         \A h \in Holders, r \in Runs : random[<<r, h>>] # NoTask => random'[<<r, h>>] # NoTask
  PROVE  \A h \in Holders, v \in Values : HandsOutOrderly(h, v)'
  BY HoldersCalm, OrderlyCalm DEF WholeInv

LEMMA PieceWhole ==
  ASSUME WholeInv, TypeOK', NEW S, Settles(S), UNCHANGED <<holderVars, toCollector>>,
         NEW q \in Talks, NEW w \in Values, NEW x, NEW d, Counting(q, w, x, d),
         NEW p \in Pieces(q[2], w), x = p.count, d = handed[q][w] \cup {p.entry}
  PROVE  /\ \A c \in Talks : TalksOrderly(c)'
         /\ \A c \in Talks, v \in Values : Whole(c, v)'
  <1>0. TypeOK
    BY DEF WholeInv
  <1>1. \A c \in Talks : TalksOrderly(c)'
    <2>1. d \subseteq Sent(q[2], w)
      BY DEF WholeInv, TalksOrderly, Sent
    <2> QED  BY <1>0, <2>1, TalksCounting DEF WholeInv
  <1>2. ASSUME Announces(q, w), Done(x, d)  PROVE Missing(q, w)' = {}
    <2>1. HandsOutOrderly(q[2], w) /\ TalksOrderly(q)
      BY DEF WholeInv, Talks
    <2>2. Missing(q, w)' \subseteq Missing(q, w)
      BY <1>0, FewerMissing DEF Counting
    <2>3. handed'[q][w] = d
      BY <1>0 DEF Counting, TypeOK, CollectorTypeOK
    <2> QED  BY <1>0, <1>1, <1>2, <2>1, <2>2, <2>3, AllCame
  <1>3. ASSUME NEW c \in Talks, NEW v \in Values  PROVE Whole(c, v)'
    <2>1. HandsOutOrderly(c[2], v) /\ Whole(c, v)
      BY DEF WholeInv, Talks
    <2> QED  BY <1>0, <1>2, <2>1, CountingWhole
  <1> QED  BY <1>1, <1>3

(* Nothing is missing under the value when the number is counted. *)
LEMMA NoneWhole ==
  ASSUME WholeInv, TypeOK', NEW S, Settles(S), UNCHANGED <<holderVars, toCollector>>,
         NEW q \in Talks, NEW w \in Values, NEW x, Counting(q, w, x, handed[q][w]),
         Announces(q, w) => Missing(q, w)' = {}
  PROVE  /\ \A c \in Talks : TalksOrderly(c)'
         /\ \A c \in Talks, v \in Values : Whole(c, v)'
  <1>0. TypeOK
    BY DEF WholeInv
  <1>1. \A c \in Talks : TalksOrderly(c)'
    <2>1. handed[q][w] \subseteq Sent(q[2], w)
      BY DEF WholeInv, TalksOrderly
    <2> QED  BY <1>0, <2>1, TalksCounting DEF WholeInv
  <1>2. ASSUME NEW c \in Talks, NEW v \in Values  PROVE Whole(c, v)'
    <2>1. HandsOutOrderly(c[2], v) /\ Whole(c, v)
      BY DEF WholeInv, Talks
    <2> QED  BY <1>0, <2>1, CountingWhole
  <1> QED  BY <1>1, <1>2

LEMMA CollectorWholeInv ==
  ASSUME WholeInv, TypeOK', CollectorStep, UNCHANGED holderVars, Settles({})
  PROVE  WholeInv'
  <1>0. TypeOK /\ TasksAgree' /\ UNCHANGED <<holderVars, toCollector>> /\ CountsStep
    BY CollectorTasksAgree, CollectorWire, CollectorCounts DEF WholeInv
  <1> SUFFICES /\ \A h \in Holders, r \in Runs :
                     random[<<r, h>>] # NoTask => random'[<<r, h>>] # NoTask
               /\ \A c \in Talks : TalksOrderly(c)'
               /\ \A c \in Talks, v \in Values : Whole(c, v)'
    BY <1>0, CollectorOrderly DEF WholeInv
  <1>1. CASE Rests
    <2>1. \A c \in Talks : TalksOrderly(c)'
      BY <1>0, <1>1, TalksRest DEF WholeInv, Rests
    <2>2. ASSUME NEW c \in Talks, NEW v \in Values  PROVE Whole(c, v)'
      <3>1. HandsOutOrderly(c[2], v) /\ Whole(c, v)
        BY DEF WholeInv, Talks
      <3> QED  BY <1>0, <1>1, <3>1, RestingWhole
    <2> QED  BY <1>1, <2>1, <2>2 DEF Rests
  <1>2. ASSUME NEW h \in Holders, NEW r \in Runs, NEW n \in Randoms, TaskTaken(h, r, n)
        PROVE  /\ \A g \in Holders, q \in Runs :
                     random[<<q, g>>] # NoTask => random'[<<q, g>>] # NoTask
               /\ \A c \in Talks : TalksOrderly(c)'
               /\ \A c \in Talks, v \in Values : Whole(c, v)'
    <2>1. \A c \in Talks : TalksOrderly(c)' /\ (random[c] # NoTask => random'[c] # NoTask)
      BY <1>0, <1>2, TaskTalks DEF WholeInv
    <2>2. ASSUME NEW c \in Talks, NEW v \in Values  PROVE Whole(c, v)'
      <3>1. HandsOutOrderly(c[2], v) /\ TalksOrderly(c) /\ Whole(c, v)
        BY DEF WholeInv, Talks
      <3> QED  BY <1>0, <1>2, <3>1, TaskWhole
    <2> QED  BY <2>1, <2>2 DEF Talks
  <1>3. ASSUME NEW q \in Talks, NEW w \in Values, PieceCounts(q, w)
        PROVE  /\ UNCHANGED random
               /\ \A c \in Talks : TalksOrderly(c)'
               /\ \A c \in Talks, v \in Values : Whole(c, v)'
    BY <1>0, <1>3, PieceWhole DEF PieceCounts, Counting
  <1>4. ASSUME NEW q \in Talks, NEW w \in Values, NothingCounts(q, w)
        PROVE  /\ UNCHANGED random
               /\ \A c \in Talks : TalksOrderly(c)'
               /\ \A c \in Talks, v \in Values : Whole(c, v)'
    <2>1. UNCHANGED random /\ Nothings(q[2], w) # {} /\ Counting(q, w, 0, handed[q][w])
      BY <1>4 DEF NothingCounts, Counting
    <2>2. Announces(q, w) => Missing(q, w)' = {}
      BY <1>0, <2>1, FewerMissing DEF Announces
    <2> QED  BY <1>0, <2>1, <2>2, NoneWhole
  <1> QED  BY <1>0, <1>1, <1>2, <1>3, <1>4 DEF CountsStep

LEMMA RefusedWholeInv ==
  ASSUME WholeInv, TypeOK', Refused  PROVE WholeInv'
  <1>0. TypeOK /\ UNCHANGED <<holderVars, toCollector>>
    BY CollectorWire DEF WholeInv, Refused
  <1>1. TasksAgree'
    BY <1>0, CollectorTasksAgree DEF WholeInv
  <1>2. PICK q, w, S :
          /\ q \in Talks /\ w \in Values
          /\ Counting(q, w, Cardinality(handed[q][w]), handed[q][w])
          /\ <<q, w>> \in S /\ Settles(S)
    BY <1>0, RefusedCounts
  <1>3. Missing(q, w)' = {}
    BY <1>0, <1>2, StillMissing DEF Missing
  <1>4. /\ \A c \in Talks : TalksOrderly(c)'
        /\ \A c \in Talks, v \in Values : Whole(c, v)'
    BY <1>0, <1>2, <1>3, NoneWhole
  <1>5. \A h \in Holders, v \in Values : HandsOutOrderly(h, v)'
    BY <1>0, <1>2, CollectorOrderly DEF Counting
  <1> QED  BY <1>1, <1>4, <1>5 DEF WholeInv

LEMMA WholeInit ==
  ASSUME Init, TypeOK  PROVE WholeInv
  <1>1. TasksAgree
    BY DEF Init, HolderInit, CollectorInit, TasksAgree, Talks
  <1>2. \A h \in Holders, v \in Values : Pieces(h, v) = {} /\ Nothings(h, v) = {}
    BY DEF Init, Pieces, Nothings
  <1>3. \A h \in Holders, v \in Values :
          /\ ~Running(h, v) /\ handOut[h][v].left = <<>> /\ Left(h, v) = {}
          /\ held[h][v] = <<>> /\ again[h][v] = NoRun /\ handOuts[h][v] = <<>>
    BY DEF Init, HolderInit, Running, NoHandOut, Left, InList
  <1>4. ASSUME NEW h \in Holders, NEW v \in Values  PROVE HandsOutOrderly(h, v)
    <2>1. \A r \in Runs : handOuts[h][v] # <<r>> /\ again[h][v] # r
      BY <1>3, NoRunAssumption
    <2> QED  BY <1>2, <1>3, <2>1 DEF HandsOutOrderly, InList
  <1>5. ASSUME NEW c \in Talks  PROVE TalksOrderly(c)
    BY DEF Init, CollectorInit, TalksOrderly
  <1>6. ASSUME NEW c \in Talks, NEW v \in Values  PROVE Whole(c, v)
    <2>1. c[2] \in Holders
      BY DEF Talks
    <2>2. Announces(c, v)
      BY <1>2, <1>3, <2>1 DEF Announces
    <2>3. Missing(c, v) = {}
      BY DEF Init, Missing
    <2> QED  BY <2>2, <2>3 DEF Whole, Complete
  <1> QED  BY <1>1, <1>4, <1>5, <1>6 DEF WholeInv

LEMMA WholeKept ==
  ASSUME WholeInv, TypeOK', [Next]_vars  PROVE WholeInv'
  <1>1. CASE HolderStep /\ UNCHANGED collectorVars /\ Settles({})
    BY <1>1, HolderWholeInv
  <1>2. CASE CollectorStep /\ UNCHANGED holderVars /\ Settles({})
    BY <1>2, CollectorWholeInv
  <1>3. CASE Refused
    BY <1>3, RefusedWholeInv
  <1>4. CASE UNCHANGED vars
    <2>1. UNCHANGED <<held, tasks, issued, proven, handOut, again, handOuts, random, expected,
                      handed, end, toHolder, toCollector, missing, returned>>
      BY <1>4 DEF vars, holderVars, collectorVars, wire
    <2>2. TasksAgree'
      BY <2>1 DEF WholeInv, TasksAgree
    <2>3. \A h \in Holders, v \in Values : HandsOutOrderly(h, v)'
      BY <2>1 DEF WholeInv, HandsOutOrderly, Pieces, Nothings, Running, Left
    <2>4. \A c \in Talks : TalksOrderly(c)'
      BY <2>1 DEF WholeInv, TalksOrderly, Sent, Pieces
    <2>5. \A c \in Talks, v \in Values : Whole(c, v)'
      <3>1. \A h \in Holders, v \in Values :
              /\ Sent(h, v)' = Sent(h, v) /\ Ahead(h, v)' = Ahead(h, v)
              /\ Left(h, v)' = Left(h, v) /\ Running(h, v)' = Running(h, v)
              /\ Pieces(h, v)' = Pieces(h, v) /\ Nothings(h, v)' = Nothings(h, v)
        BY <2>1 DEF Sent, Pieces, Nothings, Running, Left, Ahead
      <3>2. ASSUME NEW c \in Talks, NEW v \in Values  PROVE Whole(c, v)'
        <4>1. c[2] \in Holders /\ Whole(c, v)
          BY DEF Talks, WholeInv
        <4>2. Once(c, v)' = Once(c, v) /\ Missing(c, v)' = Missing(c, v)
          BY <2>1 DEF Once, Missing
        <4>3. Complete(c, v)' = Complete(c, v)
          BY <2>1, <4>2 DEF Complete
        <4>4. Announces(c, v)' = Announces(c, v)
          BY <2>1, <3>1, <4>1, <4>2 DEF Announces
        <4> QED  BY <4>1, <4>2, <4>3, <4>4 DEF Whole
      <3> QED  BY <3>2
    <2> QED  BY <2>2, <2>3, <2>4, <2>5 DEF WholeInv
  <1> QED  BY <1>1, <1>2, <1>3, <1>4 DEF Next

(***************************************************************************)
(* A conversation that ended "answered" after one hand-out of its values   *)
(* has received all that lay there (onHereItIs, Conversation.done, and     *)
(* _handOut's announcement of what came and what is left).                 *)
(***************************************************************************)
THEOREM OneHandOutSuffices == Spec => []OneHandOutIsWhole
  <1>1. Init /\ TypeOK => WholeInv
    BY WholeInit
  <1>2. WholeInv /\ TypeOK' /\ [Next]_vars => WholeInv'
    BY WholeKept
  <1>3. WholeInv => OneHandOutIsWhole
    <2> SUFFICES ASSUME WholeInv, NEW c \in Talks, end[c] = "answered", HandedOutOnce(c),
                        NEW e \in missing[c]
                 PROVE  FALSE
      BY DEF OneHandOutIsWhole
    <2>1. e \in Entries /\ ValueOf[e] \in Asks[c[1]] /\ ValueOf[e] \in Values
      BY ValueOfAssumption DEF WholeInv, TypeOK, TalksOrderly
    <2>2. Once(c, ValueOf[e])
      BY <2>1, Zenon DEF HandedOutOnce, Once
    <2>3. Missing(c, ValueOf[e]) = {}
      BY <2>1, <2>2 DEF WholeInv, Whole, Complete
    <2> QED  BY <2>3 DEF Missing
  <1> QED  BY <1>1, <1>2, <1>3, CollectionIsTyped, PTL DEF Spec
=============================================================================
