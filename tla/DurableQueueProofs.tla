------------------------- MODULE DurableQueueProofs -------------------------
(* Theorems about DurableQueue for every instance of its constants.        *)
EXTENDS DurableQueue, TLAPS

(* Rows: the helpers keep the type, and what a helper does to one row.     *)

\* The clock bounds: a settled row and a fresh lease stay within them.
LEMMA ClockBounds ==
    /\ Due \in Int /\ Expired \in Int
    /\ 0 \in Expired .. LeaseTicks
    /\ Due \in Due .. MaxBackoff
    /\ \A lag \in 0 .. Lag : /\ LeaseTicks - lag \in Expired .. LeaseTicks
                            /\ -lag \in Due .. MaxBackoff
                            /\ \A d \in 0 .. MaxBackoff : d - lag \in Due .. MaxBackoff
BY BoundAssumption, BackoffAssumption DEF Due, Expired

\* The lease of a row that settles is gone; its attempts and output stay.
LEMMA SettledRow ==
    ASSUME NEW r \in Row, NEW s \in States
    PROVE  /\ Settled(r, s) \in Row
           /\ Settled(r, s).state = s /\ Settled(r, s).owner = NoOwner
           /\ Settled(r, s).left = 0 /\ Settled(r, s).wait = Due
           /\ Settled(r, s).attempt = r.attempt /\ Settled(r, s).output = r.output
BY ClockBounds DEF Settled, Row

\* A claim charges one attempt and hands the row to its owner.
LEMMA LeasedRow ==
    ASSUME NEW r \in Row, NEW o \in Owners, NEW lag \in 0 .. Lag
    PROVE  /\ Leased(r, o, lag) \in Row
           /\ Leased(r, o, lag).state = "running" /\ Leased(r, o, lag).owner = o
           /\ Leased(r, o, lag).attempt = r.attempt + 1
           /\ Leased(r, o, lag).output = r.output
<1>1. "running" \in States
  BY DEF States
<1>2. LeaseTicks - lag \in Expired .. LeaseTicks /\ Due \in Due .. MaxBackoff
  BY ClockBounds
<1>3. r.attempt \in Nat /\ r.attempt + 1 \in Nat
  BY DEF Row
<1>4. QED
  BY <1>1, <1>2, <1>3 DEF Leased, Row

\* The back-off is a delay between 0 and the configured maximum.
LEMMA BackoffBound == ASSUME NEW a PROVE Backoff(a) \in 0 .. MaxBackoff
BY BackoffAssumption DEF Backoff

----------------------------------------------------------------------------
(* The inductive invariant.  AttemptBudget and AttemptAfterParents are not *)
(* inductive alone: a report that returns a row to retry_wait needs to     *)
(* know that the attempt it ends was charged.                              *)

Charged  == \A i \in Ids : row[i].state \in {"running", "succeeded", "retry_wait"}
                           => row[i].attempt > 0
Recorded == \A i \in Ids : i \in Existing <=> request[i] \in Requests

Inv == /\ TypeOK /\ Recorded /\ Charged
       /\ LeaseIffRunning /\ AttemptBudget /\ AttemptAfterParents

\* What a reconciliation with timestamp clock - lag may make of row i.
ReconcileMove(i, lag) ==
    LET r == row[i]
        t == Reconciled(lag)
        f == t[i]
    IN /\ f.attempt = r.attempt /\ f.output = r.output
       /\ \/ f = r
          \/ /\ r.state = "retry_wait" /\ f.state = "queued"
             /\ f.owner = r.owner /\ f.left = r.left
          \/ /\ r.state = "running" /\ r.left < -lag
             /\ f.state = IF r.attempt >= request[i].max THEN "failed" ELSE "queued"
             /\ f.owner = NoOwner /\ f.left = 0
          \/ /\ r.state \in Pending /\ f.state = "failed"
             /\ f.owner = NoOwner /\ f.left = 0
             /\ \E p \in parents[i] : t[p].state \in Lost

\* A reconciliation moves each row by one of four moves, and never fails a row
\* whose lease it has just taken back: such a row has no lost parent.
LEMMA ReconciledRows ==
    ASSUME Inv, NEW lag \in 0 .. Lag
    PROVE  /\ Reconciled(lag) \in [Ids -> Row]
           /\ \A i \in Ids : ReconcileMove(i, lag)
<1> DEFINE a == ExpireLeases(row, lag)
           b == Requeue(a, lag)
           c == FailBlocked(b)
<1>0. Reconciled(lag) = c
  BY DEF Reconciled
<1>1. row \in [Ids -> Row] /\ parents \in [Ids -> SUBSET Ids]
  BY DEF Inv, TypeOK
<1>2. /\ {"queued", "retry_wait", "failed"} \subseteq States
      /\ -lag \in Due .. MaxBackoff
  BY ClockBounds DEF States, Pending, Terminal, Lost
<1>3. ASSUME NEW i \in Ids
      PROVE  /\ a[i] \in Row
             /\ a[i].attempt = row[i].attempt /\ a[i].output = row[i].output
             /\ \/ a[i] = row[i]
                \/ /\ row[i].state = "running" /\ row[i].left < -lag
                   /\ a[i].owner = NoOwner /\ a[i].left = 0
                   /\ IF row[i].attempt >= request[i].max
                      THEN a[i].state = "failed"
                      ELSE a[i].state = "retry_wait" /\ a[i].wait = -lag
  <2>1. CASE row[i].state = "running" /\ row[i].left < -lag
    <3>1. CASE row[i].attempt >= request[i].max
      <4>1. a[i] = Settled(row[i], "failed")
        BY <2>1, <3>1 DEF ExpireLeases
      <4>2. QED BY <4>1, <2>1, <3>1, <1>1, <1>2, SettledRow
    <3>2. CASE ~ (row[i].attempt >= request[i].max)
      <4>1. a[i] = [Settled(row[i], "retry_wait") EXCEPT !.wait = -lag]
        BY <2>1, <3>2 DEF ExpireLeases
      <4>2. Settled(row[i], "retry_wait") \in Row
        BY <1>1, <1>2, SettledRow
      <4>3. a[i] \in Row /\ a[i].wait = -lag
        BY <4>1, <4>2, <1>2 DEF Row
      <4>4. /\ a[i].state = "retry_wait" /\ a[i].owner = NoOwner /\ a[i].left = 0
            /\ a[i].attempt = row[i].attempt /\ a[i].output = row[i].output
        BY <4>1, <4>2, <1>1, <1>2, SettledRow DEF Row
      <4>5. QED BY <4>3, <4>4, <2>1, <3>2
    <3>3. QED BY <3>1, <3>2
  <2>2. CASE ~ (row[i].state = "running" /\ row[i].left < -lag)
    <3>1. a[i] = row[i]
      BY <2>2 DEF ExpireLeases
    <3>2. QED BY <3>1, <1>1
  <2>3. QED BY <2>1, <2>2
<1>4. ASSUME NEW i \in Ids
      PROVE  /\ b[i] \in Row
             /\ b[i].attempt = a[i].attempt /\ b[i].output = a[i].output
             /\ b[i].owner = a[i].owner /\ b[i].left = a[i].left
             /\ IF a[i].state = "retry_wait" /\ a[i].wait <= -lag
                THEN b[i].state = "queued" ELSE b[i] = a[i]
  <2>1. a[i] \in Row
    BY <1>3
  <2>2. b[i] = IF a[i].state = "retry_wait" /\ a[i].wait <= -lag
               THEN [a[i] EXCEPT !.state = "queued"] ELSE a[i]
    BY DEF Requeue
  <2> HIDE DEF a, b
  <2>3. QED BY <2>1, <2>2, <1>2 DEF Row
<1>5. ASSUME NEW i \in Ids
      PROVE  c[i] = IF b[i].state \in Pending /\ \E p \in parents[i] : b[p].state \in Lost
                    THEN Settled(b[i], "failed") ELSE b[i]
  BY DEF FailBlocked
<1>6. c \in [Ids -> Row]
  <2>1. \A i \in Ids : c[i] \in Row
    BY <1>2, <1>4, <1>5, SettledRow
  <2>2. c = [i \in Ids |-> c[i]]
    BY DEF FailBlocked
  <2> HIDE DEF c
  <2>3. QED BY <2>1, <2>2
<1>7. ASSUME NEW i \in Ids PROVE ReconcileMove(i, lag)
  <2> HIDE DEF a, b, c
  <2>1. ASSUME row[i].state = "running", NEW p \in parents[i]
        PROVE  b[p].state = "succeeded"
    <3>1. row[p].state = "succeeded" /\ p \in Ids
      BY <2>1, <1>1 DEF Inv, Charged, AttemptAfterParents, Existing
    <3>2. a[p] = row[p]
      BY <3>1, <1>3
    <3>3. QED BY <3>1, <3>2, <1>4
  <2>2. CASE b[i].state \in Pending /\ \E p \in parents[i] : b[p].state \in Lost
    <3>1. row[i].state # "running"
      BY <2>1, <2>2 DEF Lost
    <3>2. a[i] = row[i]
      BY <3>1, <1>3
    <3>3. row[i].state \in Pending
      BY <2>2, <3>2, <1>4 DEF Pending
    <3>4. PICK p \in parents[i] : b[p].state \in Lost
      BY <2>2
    <3>5. c[p].state \in Lost
      BY <3>4, <1>1, <1>5 DEF Lost, Pending
    <3>6. c[i] = Settled(b[i], "failed") /\ b[i] \in Row
      BY <2>2, <1>4, <1>5
    <3>7. /\ c[i].state = "failed" /\ c[i].owner = NoOwner /\ c[i].left = 0
          /\ c[i].attempt = row[i].attempt /\ c[i].output = row[i].output
      BY <3>6, <3>2, <1>2, <1>4, SettledRow
    <3>8. QED BY <1>0, <3>3, <3>5, <3>7 DEF ReconcileMove
  <2>3. CASE ~ (b[i].state \in Pending /\ \E p \in parents[i] : b[p].state \in Lost)
    <3>1. c[i] = b[i]
      BY <2>3, <1>5
    <3>2. CASE a[i] = row[i]
      BY <3>1, <3>2, <1>0, <1>4 DEF ReconcileMove
    <3>3. CASE a[i] # row[i]
      <4>1. -lag <= -lag
        OBVIOUS
      <4>2. QED BY <3>1, <3>3, <4>1, <1>0, <1>3, <1>4 DEF ReconcileMove
    <3>4. QED BY <3>2, <3>3
  <2>4. QED BY <2>2, <2>3
<1>8. QED BY <1>0, <1>6, <1>7

----------------------------------------------------------------------------
(* What one transaction may make of one row, whatever the transaction.     *)

SameTerms(i) == request'[i] = request[i] /\ parents'[i] = parents[i]
LeaseGone(f) == f.owner = NoOwner /\ f.left = 0

Untouched(i, r, f) ==          \* also a renewed lease, and a clock tick
    /\ f.state = r.state /\ f.owner = r.owner /\ f.attempt = r.attempt
    /\ f.output = r.output
    /\ r.state # "running" => f.left = r.left
    /\ SameTerms(i)

Inserted(i, r, f) ==
    /\ r.state = "absent" /\ f.state = "queued" /\ f.attempt = 0 /\ LeaseGone(f)
    /\ request'[i] \in Requests /\ parents'[i] \subseteq Existing

Promoted(i, r, f) ==
    /\ r.state = "retry_wait" /\ f.state = "queued"
    /\ f.owner = r.owner /\ f.left = r.left /\ f.attempt = r.attempt
    /\ SameTerms(i)

Claimed(i, r, f) ==
    /\ r.state \in Pending \/ (r.state = "running" /\ r.left < 0)
    /\ r.attempt < request[i].max
    /\ \A p \in parents[i] : row[p].state = "succeeded"
    /\ f.state = "running" /\ f.owner \in Owners /\ f.attempt = r.attempt + 1
    /\ SameTerms(i)

Ended(i, r, f) ==              \* by its owner's report, or by expiry
    /\ r.state = "running"
    /\ r.left < 0 \/ \E lag \in 0 .. Lag : Report(r.owner, i, lag)
    /\ \/ f.state \in {"succeeded", "failed"}
       \/ f.state \in Pending /\ r.attempt < request[i].max
    /\ LeaseGone(f) /\ f.attempt = r.attempt
    /\ SameTerms(i)

Dropped(i, r, f) ==
    /\ r.state \in Pending
    /\ \/ f.state = "cancelled"
       \/ f.state = "failed" /\ \E p \in parents[i] : row'[p].state \in Lost
    /\ LeaseGone(f) /\ f.attempt = r.attempt
    /\ SameTerms(i)

RowMove(i) == LET r == row[i]
                  f == row'[i]
              IN \/ Untouched(i, r, f) \/ Inserted(i, r, f) \/ Promoted(i, r, f)
                 \/ Claimed(i, r, f)   \/ Ended(i, r, f)    \/ Dropped(i, r, f)

\* A coalescing submission settles pending rows as cancelled, and no others.
LEMMA CoalescedRows ==
    ASSUME NEW t \in [Ids -> Row], NEW r, NEW i
    PROVE  /\ Coalesced(t, r, i) \in [Ids -> Row]
           /\ \A j \in Ids : \/ Coalesced(t, r, i)[j] = t[j]
                             \/ /\ j # i /\ t[j].state \in Pending
                                /\ Coalesced(t, r, i)[j] = Settled(t[j], "cancelled")
<1>1. "cancelled" \in States
  BY DEF States, Terminal, Lost
<1>2. \A j \in Ids : Settled(t[j], "cancelled") \in Row
  BY <1>1, SettledRow
<1>3. QED BY <1>2 DEF Coalesced

\* Reconciliation leads only to moves of RowMove.
LEMMA ReconcileStep ==
    ASSUME Inv, NEW lag \in 0 .. Lag, Reconcile(lag)
    PROVE  TypeOK' /\ \A i \in Ids : RowMove(i)
<1>1. row' \in [Ids -> Row] /\ \A i \in Ids : ReconcileMove(i, lag)
  BY ReconciledRows DEF Reconcile
<1>2. UNCHANGED <<request, parents>> /\ row' = Reconciled(lag)
  BY DEF Reconcile
<1>3. ASSUME NEW i \in Ids PROVE RowMove(i)
  <2>1. SameTerms(i)
    BY <1>2 DEF SameTerms
  <2>2. row[i] \in Row /\ row'[i] = Reconciled(lag)[i]
    BY <1>2 DEF Inv, TypeOK
  <2>3. CASE row'[i] = row[i]
    BY <2>1, <2>3 DEF RowMove, Untouched
  <2>4. CASE row[i].state = "retry_wait" /\ row'[i].state = "queued"
    BY <1>1, <2>1, <2>2, <2>4 DEF RowMove, Promoted, Untouched, ReconcileMove, Pending
  <2>5. CASE row[i].state = "running" /\ row'[i] # row[i]
    <3>1. /\ row[i].left < -lag
          /\ row'[i].state = IF row[i].attempt >= request[i].max THEN "failed" ELSE "queued"
          /\ LeaseGone(row'[i]) /\ row'[i].attempt = row[i].attempt
      BY <1>1, <2>2, <2>5 DEF ReconcileMove, Pending, LeaseGone
    <3>2. row[i].left < 0
      BY <3>1, <2>2, BoundAssumption DEF Row, Expired
    <3>3. row[i].attempt < request[i].max \/ row[i].attempt >= request[i].max
      BY <2>2, <2>5, RequestAssumption DEF Row, Inv, Recorded, Existing
    <3>4. QED BY <2>1, <2>5, <3>1, <3>2, <3>3 DEF RowMove, Ended, Pending
  <2>6. CASE row[i].state \in Pending /\ row'[i].state = "failed"
    BY <1>1, <1>2, <2>1, <2>2, <2>6 DEF RowMove, Dropped, ReconcileMove, Pending, LeaseGone
  <2>7. QED BY <1>1, <2>2, <2>3, <2>4, <2>5, <2>6 DEF ReconcileMove
<1>4. QED BY <1>1, <1>2, <1>3 DEF TypeOK, Inv

\* Claims: the row taken had no live lease, attempts left, and succeeded parents.
LEMMA ClaimStep ==
    ASSUME Inv, NEW lag \in 0 .. Lag, NEW o \in Owners, Claim(o, lag)
    PROVE  TypeOK' /\ \A i \in Ids : RowMove(i)
<1> DEFINE t == Reconciled(lag)
<1>1. t \in [Ids -> Row] /\ \A i \in Ids : ReconcileMove(i, lag)
  BY ReconciledRows
<1>2. UNCHANGED <<request, parents>>
  BY DEF Claim
<1>3. CASE row' = t
  BY <1>2, <1>3, ReconcileStep DEF Reconcile
<1>4. ASSUME NEW k \in Foremost(Claimable(t, o, lag)),
             row' = [t EXCEPT ![k] = Leased(t[k], o, lag)]
      PROVE  TypeOK' /\ \A i \in Ids : RowMove(i)
  <2>1. /\ k \in Ids /\ t[k] \in Row /\ t[k].state = "queued"
        /\ \A p \in parents[k] : t[p].state = "succeeded"
    BY <1>1, <1>4 DEF Foremost, Claimable
  <2> HIDE DEF t
  <2>2. /\ row'[k].state = "running" /\ row'[k].owner = o
        /\ row'[k].attempt = t[k].attempt + 1 /\ row'[k] \in Row
    BY <1>1, <1>4, <2>1, LeasedRow
  <2>3. row' \in [Ids -> Row]
    BY <1>1, <1>4, <2>1, LeasedRow
  <2>4. ASSUME NEW i \in Ids, i # k PROVE row'[i] = t[i]
    BY <1>1, <1>4, <2>4
  <2>5. ASSUME NEW p \in Ids PROVE t[p].state = "succeeded" <=> row[p].state = "succeeded"
    BY <1>1 DEF ReconcileMove, Pending, t
  <2>6. ASSUME NEW p \in Ids, t[p].state \in Lost PROVE row'[p].state \in Lost
    BY <2>1, <2>4, <2>6 DEF Lost
  <2>7. RowMove(k)
    <3>1. row[k] \in Row /\ parents[k] \subseteq Ids
      BY <2>1 DEF Inv, TypeOK
    <3>2. /\ t[k].attempt = row[k].attempt
          /\ \/ row[k].state \in Pending
             \/ /\ row[k].state = "running" /\ row[k].left < -lag
                /\ ~ (row[k].attempt >= request[k].max)
      BY <1>1, <2>1 DEF ReconcileMove, Pending, t
    <3>3. row[k].state \in Pending \/ (row[k].state = "running" /\ row[k].left < 0)
      BY <3>1, <3>2, BoundAssumption DEF Row, Expired
    <3>4. row[k].state # "absent"
      BY <3>2 DEF Pending
    <3>5. row[k].attempt < request[k].max
      <4>1. request[k].max \in Nat
        BY <2>1, <3>4, RequestAssumption DEF Inv, Recorded, Existing
      <4>2. row[k].state \in Pending => row[k].attempt < request[k].max
        BY <2>1, <3>4 DEF Inv, AttemptBudget, Existing
      <4>3. QED BY <4>1, <4>2, <3>1, <3>2 DEF Row
    <3>6. \A p \in parents[k] : row[p].state = "succeeded"
      BY <2>1, <2>5, <3>1
    <3>7. SameTerms(k)
      BY <1>2 DEF SameTerms
    <3>8. Claimed(k, row[k], row'[k])
      BY <2>2, <3>2, <3>3, <3>5, <3>6, <3>7 DEF Claimed
    <3>9. QED BY <3>8 DEF RowMove
  <2>8. ASSUME NEW i \in Ids, i # k PROVE RowMove(i)
    <3>1. row'[i] = t[i] /\ row[i] \in Row
      BY <2>4, <2>8 DEF Inv, TypeOK
    <3>2. SameTerms(i) /\ parents[i] \subseteq Ids
      BY <1>2 DEF SameTerms, Inv, TypeOK
    <3>3. CASE row'[i] = row[i]
      BY <3>2, <3>3 DEF RowMove, Untouched
    <3>4. CASE row[i].state = "retry_wait" /\ row'[i].state = "queued"
      BY <1>1, <3>1, <3>2, <3>4 DEF RowMove, Promoted, ReconcileMove, Pending, t
    <3>5. CASE row[i].state = "running" /\ row'[i] # row[i]
      <4>1. /\ row[i].left < -lag
            /\ row'[i].state = IF row[i].attempt >= request[i].max THEN "failed" ELSE "queued"
            /\ LeaseGone(row'[i]) /\ row'[i].attempt = row[i].attempt
        BY <1>1, <3>1, <3>5 DEF ReconcileMove, Pending, LeaseGone, t
      <4>2. row[i].left < 0
        BY <4>1, <3>1, BoundAssumption DEF Row, Expired
      <4>3. row[i].attempt < request[i].max \/ row[i].attempt >= request[i].max
        BY <3>1, <3>5, RequestAssumption DEF Row, Inv, Recorded, Existing
      <4>4. QED BY <3>2, <3>5, <4>1, <4>2, <4>3 DEF RowMove, Ended, Pending
    <3>6. CASE row[i].state \in Pending /\ row'[i].state = "failed" /\ row'[i] # row[i]
      <4>1. /\ LeaseGone(row'[i]) /\ row'[i].attempt = row[i].attempt
            /\ \E p \in parents[i] : t[p].state \in Lost
        BY <1>1, <3>1, <3>6 DEF ReconcileMove, Pending, LeaseGone, t
      <4>2. \E p \in parents[i] : row'[p].state \in Lost
        BY <4>1, <2>6, <3>2
      <4>3. QED BY <3>2, <3>6, <4>1, <4>2 DEF RowMove, Dropped
    <3>7. QED BY <1>1, <3>1, <3>3, <3>4, <3>5, <3>6 DEF ReconcileMove, t
  <2>9. QED BY <1>2, <2>3, <2>7, <2>8 DEF TypeOK, Inv
<1>5. QED BY <1>3, <1>4 DEF Claim

\* Submissions insert one row and may cancel the rest of its cohort.
LEMMA EnqueueStep ==
    ASSUME Inv, NEW lag \in 0 .. Lag, NEW r \in Requests, NEW deps \in SUBSET Ids,
           Enqueue(r, deps, lag)
    PROVE  TypeOK' /\ \A i \in Ids : RowMove(i)
<1>1. row \in [Ids -> Row] /\ request \in [Ids -> Requests \cup {NoRequest}]
      /\ parents \in [Ids -> SUBSET Ids]
  BY DEF Inv, TypeOK
<1>2. {"queued", "cancelled", "absent"} \subseteq States
  BY DEF States, Pending, Terminal, Lost
<1>3. CASE EnqueueNew(r, deps, lag)
  <2>1. PICK k \in Ids \ Existing :
            /\ deps \subseteq Existing
            /\ row' = LET t == [row EXCEPT ![k] = [NoRow EXCEPT !.state = "queued",
                                                                !.wait = -lag]]
                      IN IF r.cohort = NoCohort THEN t ELSE Coalesced(t, r, k)
            /\ request' = [request EXCEPT ![k] = r]
            /\ parents' = [parents EXCEPT ![k] = deps]
    BY <1>3 DEF EnqueueNew
  <2> DEFINE n == [NoRow EXCEPT !.state = "queued", !.wait = -lag]
             t == [row EXCEPT ![k] = n]
  <2>2. -lag \in Due .. MaxBackoff /\ 0 \in Expired .. LeaseTicks
    BY ClockBounds
  <2>3. /\ n \in Row /\ n.state = "queued" /\ n.attempt = 0 /\ n.owner = NoOwner
        /\ n.left = 0
    BY <1>2, <2>2 DEF NoRow, Row
  <2> HIDE DEF n
  <2>4. t \in [Ids -> Row] /\ t[k] = n /\ \A i \in Ids \ {k} : t[i] = row[i]
    BY <1>1, <2>1, <2>3
  <2>5. row' = t \/ row' = Coalesced(t, r, k)
    BY <2>1 DEF n
  <2> HIDE DEF t
  <2>6. /\ row' \in [Ids -> Row]
        /\ \A i \in Ids : \/ row'[i] = t[i]
                          \/ /\ i # k /\ t[i].state \in Pending
                             /\ row'[i] = Settled(t[i], "cancelled")
    BY <2>4, <2>5, CoalescedRows
  <2>7. ASSUME NEW i \in Ids \ {k} PROVE RowMove(i)
    <3>1. SameTerms(i)
      BY <1>1, <2>1 DEF SameTerms
    <3>2. CASE row'[i] = row[i]
      BY <3>1, <3>2 DEF RowMove, Untouched
    <3>3. CASE row[i].state \in Pending /\ row'[i] = Settled(row[i], "cancelled")
      BY <1>1, <1>2, <3>1, <3>3, SettledRow DEF RowMove, Dropped, LeaseGone
    <3>4. QED BY <2>4, <2>6, <3>2, <3>3
  <2>8. RowMove(k)
    <3>1. row[k].state = "absent" /\ row'[k] = n
      BY <2>1, <2>4, <2>6 DEF Existing
    <3>2. request'[k] = r /\ parents'[k] = deps
      BY <1>1, <2>1
    <3>3. Inserted(k, row[k], row'[k])
      BY <2>1, <2>3, <3>1, <3>2 DEF Inserted, LeaseGone
    <3>4. QED BY <3>3 DEF RowMove
  <2>9. request' \in [Ids -> Requests \cup {NoRequest}] /\ parents' \in [Ids -> SUBSET Ids]
    BY <1>1, <2>1
  <2>10. QED BY <2>6, <2>7, <2>8, <2>9 DEF TypeOK
<1>4. CASE EnqueueAgain(r, deps)
  <2>1. PICK k \in Existing : row' = Coalesced(row, r, k)
    BY <1>4 DEF EnqueueAgain
  <2>2. UNCHANGED <<request, parents>>
    BY <1>4 DEF EnqueueAgain
  <2>3. ASSUME NEW i \in Ids PROVE RowMove(i)
    <3>1. SameTerms(i)
      BY <2>2 DEF SameTerms
    <3>2. \/ row'[i] = row[i]
          \/ row[i].state \in Pending /\ row'[i] = Settled(row[i], "cancelled")
      BY <1>1, <2>1, CoalescedRows
    <3>3. QED
      BY <1>1, <1>2, <3>1, <3>2, SettledRow DEF RowMove, Untouched, Dropped, LeaseGone
  <2>4. QED BY <1>1, <2>1, <2>2, <2>3, CoalescedRows DEF TypeOK
<1>5. QED BY <1>3, <1>4 DEF Enqueue

\* A renewal changes nothing but the lease of the row its owner holds.
LEMMA HeartbeatStep ==
    ASSUME Inv, NEW lag \in 0 .. Lag, NEW o \in Owners, NEW k \in Ids, Heartbeat(o, k, lag)
    PROVE  TypeOK' /\ \A i \in Ids : RowMove(i)
<1>1. row \in [Ids -> Row] /\ LeaseTicks - lag \in Expired .. LeaseTicks
  BY ClockBounds DEF Inv, TypeOK
<1>2. /\ row' = [row EXCEPT ![k] = [row[k] EXCEPT !.left = LeaseTicks - lag]]
      /\ row[k].state = "running" /\ UNCHANGED <<request, parents>>
  BY DEF Heartbeat, Owns
<1>3. [row[k] EXCEPT !.left = LeaseTicks - lag] \in Row
  BY <1>1 DEF Row
<1>4. row' \in [Ids -> Row]
  BY <1>1, <1>2, <1>3
<1>5. ASSUME NEW i \in Ids PROVE Untouched(i, row[i], row'[i])
  <2>1. CASE i = k
    <3>1. row'[k] = [row[k] EXCEPT !.left = LeaseTicks - lag] /\ row[k] \in Row
      BY <1>1, <1>2
    <3>2. QED BY <2>1, <3>1, <1>2 DEF Untouched, SameTerms, Row
  <2>2. CASE i # k
    BY <1>1, <1>2, <2>2 DEF Untouched, SameTerms
  <2>3. QED BY <2>1, <2>2
<1>6. QED BY <1>2, <1>4, <1>5 DEF RowMove, TypeOK, Inv

\* A report ends the attempt of the row its owner holds.
LEMMA ReportStep ==
    ASSUME Inv, NEW lag \in 0 .. Lag, NEW o \in Owners, NEW k \in Ids, Report(o, k, lag)
    PROVE  TypeOK' /\ \A i \in Ids : RowMove(i)
<1>1. row \in [Ids -> Row] /\ row[k] \in Row
  BY DEF Inv, TypeOK
<1>2. /\ row[k].state = "running" /\ row[k].owner = o
      /\ UNCHANGED <<request, parents>>
  BY DEF Report, Succeed, Fail, Owns
<1>3. {"succeeded", "failed", "retry_wait"} \subseteq States
  BY DEF States, Pending, Terminal, Lost
<1>4. PICK f \in Row :
          /\ row' = [row EXCEPT ![k] = f]
          /\ f.attempt = row[k].attempt /\ LeaseGone(f)
          /\ \/ f.state \in {"succeeded", "failed"}
             \/ f.state \in Pending /\ row[k].attempt < request[k].max
  <2>1. CASE \E output \in Outputs \cup {NoOutput} : Succeed(o, k, output, lag)
    <3>1. PICK output \in Outputs \cup {NoOutput} : Succeed(o, k, output, lag)
      BY <2>1
    <3> DEFINE s == Settled(row[k], "succeeded")
               f == [s EXCEPT !.output = output]
    <3>2. s \in Row /\ s.state = "succeeded" /\ LeaseGone(s) /\ s.attempt = row[k].attempt
      BY <1>1, <1>3, SettledRow DEF LeaseGone
    <3>3. row' = [row EXCEPT ![k] = f]
      BY <3>1 DEF Succeed
    <3> HIDE DEF s
    <3>4. /\ f \in Row /\ f.state = "succeeded" /\ LeaseGone(f)
          /\ f.attempt = row[k].attempt
      BY <3>2 DEF Row, LeaseGone
    <3>5. QED BY <3>3, <3>4
  <2>2. CASE \E retry \in BOOLEAN : Fail(o, k, retry, lag)
    <3>1. PICK retry \in BOOLEAN : Fail(o, k, retry, lag)
      BY <2>2
    <3>2. CASE retry /\ row[k].attempt < request[k].max
      <4> DEFINE s == Settled(row[k], "retry_wait")
                 d == Backoff(row[k].attempt) - lag
                 f == [s EXCEPT !.wait = d]
      <4>1. s \in Row /\ s.state = "retry_wait" /\ LeaseGone(s) /\ s.attempt = row[k].attempt
        BY <1>1, <1>3, SettledRow DEF LeaseGone
      <4>2. d \in Due .. MaxBackoff
        BY BackoffBound, ClockBounds
      <4>3. row' = [row EXCEPT ![k] = f]
        BY <3>1, <3>2 DEF Fail
      <4> HIDE DEF s, d
      <4>4. /\ f \in Row /\ f.state = "retry_wait" /\ LeaseGone(f)
            /\ f.attempt = row[k].attempt
        BY <4>1, <4>2 DEF Row, LeaseGone
      <4>5. QED BY <3>2, <4>3, <4>4 DEF Pending
    <3>3. CASE ~ (retry /\ row[k].attempt < request[k].max)
      <4> DEFINE f == Settled(row[k], "failed")
      <4>1. f \in Row /\ f.state = "failed" /\ LeaseGone(f) /\ f.attempt = row[k].attempt
        BY <1>1, <1>3, SettledRow DEF LeaseGone
      <4>2. row' = [row EXCEPT ![k] = f]
        BY <3>1, <3>3 DEF Fail
      <4>3. QED BY <4>1, <4>2
    <3>4. QED BY <3>2, <3>3
  <2>3. QED BY <2>1, <2>2 DEF Report
<1>5. row' \in [Ids -> Row] /\ row'[k] = f /\ \A i \in Ids \ {k} : row'[i] = row[i]
  BY <1>1, <1>4
<1>6. \A i \in Ids : SameTerms(i)
  BY <1>2 DEF SameTerms
<1>7. Ended(k, row[k], row'[k])
  BY <1>2, <1>4, <1>5, <1>6 DEF Ended
<1>8. \A i \in Ids \ {k} : Untouched(i, row[i], row'[i])
  BY <1>5, <1>6 DEF Untouched
<1>9. QED BY <1>2, <1>5, <1>7, <1>8 DEF RowMove, TypeOK, Inv

\* Cancellations, of one job or of a cohort, settle pending rows only.
LEMMA CancelStep ==
    ASSUME Inv,
           \/ \E k \in Ids : Cancel(k)
           \/ \E r \in Requests : CancelCoalescedPending(r)
    PROVE  TypeOK' /\ \A i \in Ids : RowMove(i)
<1>1. row \in [Ids -> Row] /\ "cancelled" \in States
  BY DEF Inv, TypeOK, States, Terminal, Lost
<1>2. UNCHANGED <<request, parents>>
  BY DEF Cancel, CancelCoalescedPending
<1>3. /\ row' \in [Ids -> Row]
      /\ \A i \in Ids : \/ row'[i] = row[i]
                        \/ /\ row[i].state \in Pending
                           /\ row'[i] = Settled(row[i], "cancelled")
  <2>1. CASE \E k \in Ids : Cancel(k)
    BY <1>1, <2>1, SettledRow DEF Cancel
  <2>2. CASE \E r \in Requests : CancelCoalescedPending(r)
    BY <1>1, <2>2, CoalescedRows DEF CancelCoalescedPending
  <2>3. QED BY <2>1, <2>2
<1>4. ASSUME NEW i \in Ids PROVE RowMove(i)
  <2>1. SameTerms(i)
    BY <1>2 DEF SameTerms
  <2>2. QED BY <1>1, <1>3, <2>1, SettledRow DEF RowMove, Untouched, Dropped, LeaseGone
<1>5. QED BY <1>2, <1>3, <1>4 DEF TypeOK, Inv

\* The clock moves the countdowns within their bounds and nothing else.
LEMMA TickStep ==
    ASSUME Inv, Tick
    PROVE  TypeOK' /\ \A i \in Ids : RowMove(i)
<1>1. row \in [Ids -> Row] /\ UNCHANGED <<request, parents>>
  BY DEF Inv, TypeOK, Tick
<1>2. ASSUME NEW i \in Ids
      PROVE  row'[i] \in Row /\ Untouched(i, row[i], row'[i])
  <2> DEFINE r == row[i]
             u == IF r.state # "running" \/ r.left = Expired THEN r.left ELSE r.left - 1
             w == IF r.wait = Due THEN Due ELSE r.wait - 1
  <2>1. r \in Row /\ row'[i] = [r EXCEPT !.left = u, !.wait = w]
    BY <1>1 DEF Tick
  <2>2. u \in Expired .. LeaseTicks /\ w \in Due .. MaxBackoff
    BY <2>1, BoundAssumption, BackoffAssumption DEF Row, Due, Expired
  <2>3. r.state # "running" => u = r.left
    OBVIOUS
  <2> HIDE DEF r, u, w
  <2>4. /\ row'[i] \in Row /\ row'[i].state = r.state /\ row'[i].owner = r.owner
        /\ row'[i].attempt = r.attempt /\ row'[i].output = r.output /\ row'[i].left = u
    BY <2>1, <2>2 DEF Row
  <2>5. QED BY <1>1, <2>3, <2>4 DEF Untouched, SameTerms, r
<1>3. row' = [i \in Ids |-> row'[i]]
  BY DEF Tick
<1>4. row' \in [Ids -> Row]
  BY <1>2, <1>3
<1>5. QED BY <1>1, <1>2, <1>4 DEF RowMove, TypeOK, Inv

\* Every transaction moves every row by a RowMove.
LEMMA StepMoves ==
    ASSUME Inv, [Next]_vars
    PROVE  TypeOK' /\ \A i \in Ids : RowMove(i)
<1>1. CASE UNCHANGED vars
  BY <1>1 DEF vars, RowMove, Untouched, SameTerms, Inv, TypeOK
<1>2. CASE Next
  BY <1>2, EnqueueStep, ReconcileStep, ClaimStep, HeartbeatStep, ReportStep, CancelStep,
     TickStep DEF Next
<1>3. QED BY <1>1, <1>2

----------------------------------------------------------------------------
(* The invariant.                                                          *)

LEMMA InvInit == ASSUME Init PROVE Inv
<1>1. NoRow \in Row
  BY ClockBounds DEF NoRow, Row, States
<1>2. NoRequest \notin Requests
  <2>1. ASSUME NoRequest \in Requests PROVE FALSE
    <3>1. NoRequest.max \in Nat \ {0}
      BY <2>1, RequestAssumption
    <3>2. QED BY <3>1 DEF NoRequest
  <2>2. QED BY <2>1
<1>3. Existing = {}
  BY DEF Init, Existing, NoRow
<1>4. TypeOK
  BY <1>1 DEF Init, TypeOK
<1>5. Charged /\ LeaseIffRunning
  BY DEF Init, NoRow, Charged, LeaseIffRunning
<1>6. Recorded /\ AttemptBudget /\ AttemptAfterParents
  BY <1>2, <1>3 DEF Init, Recorded, AttemptBudget, AttemptAfterParents
<1>7. QED BY <1>4, <1>5, <1>6 DEF Inv

\* One conjunct per step, each from the six ways a row can move.
LEMMA InvStep == ASSUME Inv, [Next]_vars PROVE Inv'
<1>1. TypeOK' /\ \A i \in Ids : RowMove(i)
  BY StepMoves
<1>2. \A i \in Ids : row[i] \in Row /\ row'[i] \in Row
  BY <1>1 DEF Inv, TypeOK
<1>3. Recorded'
  BY <1>1 DEF Inv, Recorded, Existing, RowMove, Untouched, Inserted, Promoted, Claimed, Ended,
              Dropped, SameTerms, Pending, Lost
<1>4. Charged'
  <2>1. ASSUME NEW i \in Ids, row'[i].state \in {"running", "succeeded", "retry_wait"}
        PROVE  row'[i].attempt > 0
    <3>1. row[i].state = "running" => row[i].attempt > 0
      BY DEF Inv, Charged
    <3>2. row[i].state \in {"succeeded", "retry_wait"} => row[i].attempt > 0
      BY DEF Inv, Charged
    <3>3. row[i].attempt \in Nat /\ RowMove(i)
      BY <1>1, <1>2 DEF Row
    <3>4. QED
      BY <2>1, <3>1, <3>2, <3>3 DEF RowMove, Untouched, Inserted, Promoted, Claimed, Ended,
                                    Dropped, Lost
  <2>2. QED BY <2>1 DEF Charged
<1>5. LeaseIffRunning'
  BY <1>1, NullAssumption
     DEF Inv, LeaseIffRunning, RowMove, Untouched, Inserted, Promoted, Claimed, Ended, Dropped,
         LeaseGone, Pending, Lost
<1>6. AttemptBudget'
  <2>1. ASSUME NEW i \in Ids, row'[i].state # "absent"
        PROVE  /\ row'[i].attempt <= request'[i].max
               /\ row'[i].state \in Pending => row'[i].attempt < request'[i].max
    <3>1. row[i].attempt \in Nat /\ RowMove(i)
      BY <1>1, <1>2 DEF Row
    <3>2. CASE Inserted(i, row[i], row'[i])
      BY <3>2, RequestAssumption DEF Inserted
    <3>3. CASE ~ Inserted(i, row[i], row'[i])
      <4>1. row[i].state # "absent" /\ request'[i] = request[i]
        BY <2>1, <3>1, <3>3 DEF RowMove, Untouched, Promoted, Claimed, Ended, Dropped,
                                SameTerms, Pending
      <4>2. /\ row[i].attempt <= request[i].max
            /\ row[i].state \in Pending => row[i].attempt < request[i].max
        BY <4>1 DEF Inv, AttemptBudget, Existing
      <4>3. request[i].max \in Nat
        BY <4>1, RequestAssumption DEF Inv, Recorded, Existing
      <4>4. QED
        BY <3>1, <3>3, <4>1, <4>2, <4>3
           DEF RowMove, Untouched, Promoted, Claimed, Ended, Dropped, Pending, Lost
    <3>4. QED BY <3>2, <3>3
  <2>2. QED BY <2>1 DEF AttemptBudget, Existing
<1>7. AttemptAfterParents'
  <2>1. ASSUME NEW i \in Ids, row'[i].state # "absent", row'[i].attempt > 0,
               NEW p \in parents'[i]
        PROVE  row'[p].state = "succeeded"
    <3>1. row[i].attempt \in Nat /\ RowMove(i)
      BY <1>1, <1>2 DEF Row
    <3>2. ~ Inserted(i, row[i], row'[i])
      BY <2>1 DEF Inserted
    <3>3. row[i].state # "absent" /\ p \in parents[i] /\ p \in Ids
      BY <2>1, <3>1, <3>2 DEF RowMove, Untouched, Promoted, Claimed, Ended, Dropped,
                              SameTerms, Pending, Inv, TypeOK
    <3>4. row[p].state = "succeeded"
      BY <2>1, <3>1, <3>2, <3>3
         DEF RowMove, Untouched, Promoted, Claimed, Ended, Dropped, Inv,
             AttemptAfterParents, Existing
    <3>5. QED
      BY <1>1, <3>3, <3>4 DEF RowMove, Untouched, Inserted, Promoted, Claimed, Ended,
                              Dropped, Pending
  <2>2. QED BY <2>1 DEF AttemptAfterParents, Existing
<1>8. QED BY <1>1, <1>3, <1>4, <1>5, <1>6, <1>7 DEF Inv

\* Every reachable table satisfies the inductive invariant: row types, the
\* attempt charged before a row runs, and the three properties below.
THEOREM Invariance == Spec => []Inv
<1>1. Init => Inv
  BY InvInit
<1>2. Inv /\ [Next]_vars => Inv'
  BY InvStep
<1>3. QED BY <1>1, <1>2, PTL DEF Spec

\* The table always has its type: leases and waits stay within the bounds the
\* countdowns need, whatever the lease, back-off and lag.
THEOREM TypeCorrect == Spec => []TypeOK
<1>1. Inv => TypeOK
  BY DEF Inv
<1>2. QED BY <1>1, Invariance, PTL

\* A row has an owner and a lease exactly while it runs.
THEOREM LeaseDiscipline == Spec => []LeaseIffRunning
<1>1. Inv => LeaseIffRunning
  BY DEF Inv
<1>2. QED BY <1>1, Invariance, PTL

\* No interleaving of claims, expiries, reports and retries overdraws
\* max_attempts, or leaves a job waiting that has no attempt left.
THEOREM AttemptsBounded == Spec => []AttemptBudget
<1>1. Inv => AttemptBudget
  BY DEF Inv
<1>2. QED BY <1>1, Invariance, PTL

\* No job is ever attempted before all its dependencies have succeeded.
THEOREM DependenciesFirst == Spec => []AttemptAfterParents
<1>1. Inv => AttemptAfterParents
  BY DEF Inv
<1>2. QED BY <1>1, Invariance, PTL

\* Only its owner moves a row whose lease has time left, however stale the
\* timestamp of the transaction that looks at it.
THEOREM LeaseRespected == Spec => LiveLeaseKept
<1>1. ASSUME Inv, [Next]_vars,
             NEW i \in Ids, row[i].state = "running", row[i].left >= 0
      PROVE  \/ /\ row'[i].state = "running" /\ row'[i].owner = row[i].owner
                /\ row'[i].attempt = row[i].attempt
             \/ \E lag \in 0 .. Lag : Report(row[i].owner, i, lag)
  <2>1. RowMove(i) /\ row[i].left \in Int
    BY <1>1, StepMoves, BoundAssumption DEF Inv, TypeOK, Row, Expired
  <2>2. ~ (row[i].left < 0)
    BY <1>1, <2>1
  <2>3. QED
    BY <1>1, <2>1, <2>2 DEF RowMove, Untouched, Inserted, Promoted, Claimed, Ended, Dropped,
                            Pending
<1>2. Inv /\ [Next]_vars
      => [\A i \in Ids :
             row[i].state = "running" /\ row[i].left >= 0
             => \/ row'[i].state = "running" /\ row'[i].owner = row[i].owner
                                             /\ row'[i].attempt = row[i].attempt
                \/ \E lag \in 0 .. Lag : Report(row[i].owner, i, lag)]_vars
  BY <1>1
<1>3. QED BY <1>2, Invariance, PTL DEF Spec, LiveLeaseKept

\* The outcome of a job that succeeded, failed or was cancelled never changes.
THEOREM OutcomesFinal == Spec => EndedStays
<1>1. ASSUME Inv, [Next]_vars, NEW i \in Ids, row[i].state \in Terminal
      PROVE  /\ row'[i].state = row[i].state /\ row'[i].output = row[i].output
             /\ row'[i].attempt = row[i].attempt
  <2>1. RowMove(i)
    BY <1>1, StepMoves
  <2>2. QED
    BY <1>1, <2>1 DEF RowMove, Untouched, Inserted, Promoted, Claimed, Ended, Dropped,
                      Pending, Terminal, Lost
<1>2. Inv /\ [Next]_vars
      => [\A i \in Ids : row[i].state \in Terminal
             => /\ row'[i].state = row[i].state /\ row'[i].output = row[i].output
                /\ row'[i].attempt = row[i].attempt]_vars
  BY <1>1
<1>3. QED BY <1>2, Invariance, PTL DEF Spec, EndedStays

----------------------------------------------------------------------------
(* Coalescing.                                                             *)

Fresh(i) == row[i].state \in Pending /\ row[i].attempt = 0

\* A row that waits for its first attempt after a step waited for it before,
\* or has just been inserted.
LEMMA FreshOrigin ==
    ASSUME Inv, [Next]_vars, NEW i \in Ids, Fresh(i)'
    PROVE  \/ Fresh(i) /\ SameTerms(i)
           \/ row[i].state = "absent" /\ request'[i] \in Requests
<1>1. RowMove(i) /\ row[i].attempt \in Nat
  BY StepMoves DEF Inv, TypeOK, Row
<1>2. row[i].state \in {"running", "retry_wait"} => row[i].attempt > 0
  BY DEF Inv, Charged
<1>3. QED
  BY <1>1, <1>2 DEF Fresh, RowMove, Untouched, Inserted, Promoted, Claimed, Ended, Dropped,
                    Pending, Lost

\* A newcomer with a cohort finds no other fresh member of it left after its
\* submission.
LEMMA NewcomerAlone ==
    ASSUME Inv, [Next]_vars, NEW i \in Ids, NEW j \in Ids, i # j,
           row[i].state = "absent", request'[i] \in Requests, request'[i].cohort # NoCohort,
           Fresh(j)', request'[i].type = request'[j].type,
           request'[i].cohort = request'[j].cohort
    PROVE  FALSE
<1>1. request[i] \notin Requests
  BY DEF Inv, Recorded, Existing
<1>2. \E r \in Requests, deps \in SUBSET Ids, lag \in 0 .. Lag : EnqueueNew(r, deps, lag)
  <2>1. request' # request
    BY <1>1
  <2>2. QED
    BY <2>1 DEF Next, vars, Enqueue, EnqueueAgain, Reconcile, Claim, Heartbeat, Report, Succeed,
                Fail, Cancel, CancelCoalescedPending, Tick
<1>3. PICK r \in Requests, deps \in SUBSET Ids, lag \in 0 .. Lag : EnqueueNew(r, deps, lag)
  BY <1>2
<1>4. PICK k \in Ids \ Existing :
          /\ row' = LET t == [row EXCEPT ![k] = [NoRow EXCEPT !.state = "queued", !.wait = -lag]]
                    IN IF r.cohort = NoCohort THEN t ELSE Coalesced(t, r, k)
          /\ request' = [request EXCEPT ![k] = r]
  BY <1>3 DEF EnqueueNew
<1>5. row \in [Ids -> Row] /\ request \in [Ids -> Requests \cup {NoRequest}]
  BY DEF Inv, TypeOK
<1>6. k = i /\ request'[i] = r /\ request'[j] = request[j]
  BY <1>1, <1>4, <1>5
<1>7. DEFINE t == [row EXCEPT ![k] = [NoRow EXCEPT !.state = "queued", !.wait = -lag]]
<1>8. row' = Coalesced(t, r, k) /\ t[j] = row[j]
  BY <1>4, <1>5, <1>6
<1> HIDE DEF t
<1>9. row'[j] = IF t[j].state \in Pending THEN Settled(t[j], "cancelled") ELSE t[j]
  BY <1>6, <1>8 DEF Coalesced
<1>10. row'[j].state \notin Pending
  BY <1>5, <1>8, <1>9, SettledRow DEF Pending, States, Terminal, Lost
<1>11. QED BY <1>10 DEF Fresh

LEMMA FreshStep == ASSUME Inv, OneFreshPerCohort, [Next]_vars PROVE OneFreshPerCohort'
<1>1. ASSUME NEW i \in Ids, NEW j \in Ids, Fresh(i)', Fresh(j)',
             request'[i].type = request'[j].type, request'[i].cohort = request'[j].cohort,
             request'[i].cohort # NoCohort, i # j
      PROVE  FALSE
  <2>1. CASE row[i].state = "absent" /\ request'[i] \in Requests
    BY <1>1, <2>1, NewcomerAlone
  <2>2. CASE row[j].state = "absent" /\ request'[j] \in Requests
    BY <1>1, <2>2, NewcomerAlone
  <2>3. CASE Fresh(i) /\ SameTerms(i) /\ Fresh(j) /\ SameTerms(j)
    BY <1>1, <2>3 DEF OneFreshPerCohort, Fresh, Existing, SameTerms, Pending
  <2>4. QED BY <1>1, <2>1, <2>2, <2>3, FreshOrigin
<1>2. QED BY <1>1 DEF OneFreshPerCohort, Fresh, Existing

\* At most one submission of each cohort waits for its first attempt: a newer
\* one displaces it in the transaction that inserts it, and no retry, expiry or
\* repeated submission brings a second one back.
THEOREM Coalescing == Spec => []OneFreshPerCohort
<1>1. Init => OneFreshPerCohort
  BY DEF Init, OneFreshPerCohort, Existing, NoRow
<1>2. Inv /\ OneFreshPerCohort /\ [Next]_vars => OneFreshPerCohort'
  BY FreshStep
<1>3. QED BY <1>1, <1>2, Invariance, PTL DEF Spec

----------------------------------------------------------------------------
(* Refinement.                                                             *)

LEMMA LedgerInit == ASSUME Init PROVE Ledger!Init
BY DEF Init, Ledger!Init, Ledger!Blank, LedgerView, NoRow, NoRequest, PhaseOf, Pending

\* Each way a row can move is a move of the ledger, or no move at all.
LEMMA LedgerStep == ASSUME Inv, [Next]_vars PROVE [Ledger!Next]_LedgerView
<1> DEFINE E(i) == LedgerView[i]
           F(i) == LedgerView'[i]
<1>1. \A i \in Ids : RowMove(i)
  BY StepMoves
<1>2. ASSUME NEW i \in Ids
      PROVE  /\ E(i).phase = PhaseOf(row[i].state)   /\ F(i).phase = PhaseOf(row'[i].state)
             /\ E(i).tries = row[i].attempt          /\ F(i).tries = row'[i].attempt
             /\ E(i).limit = request[i].max          /\ F(i).limit = request'[i].max
             /\ E(i).holder = row[i].owner           /\ F(i).holder = row'[i].owner
             /\ E(i).live = (row[i].state = "running" /\ row[i].left >= 0)
             /\ F(i).live = (row'[i].state = "running" /\ row'[i].left >= 0)
             /\ E(i).needs = parents[i]              /\ F(i).needs = parents'[i]
  BY DEF LedgerView
<1> HIDE DEF E, F
<1>3. ASSUME NEW i \in Ids PROVE E(i) = F(i) \/ Ledger!Move(E(i), F(i))
  <2>1. CASE Untouched(i, row[i], row'[i])
    <3>1. CASE row[i].state = "running"
      <4>1. Ledger!Kept(E(i), F(i))
        BY <1>2, <2>1, <3>1 DEF Ledger!Kept, Ledger!SameTerms, Untouched, SameTerms, PhaseOf,
                                Pending
      <4>2. QED BY <4>1 DEF Ledger!Move
    <3>2. CASE row[i].state # "running"
      BY <2>1, <3>2 DEF LedgerView, E, F, Untouched, SameTerms
    <3>3. QED BY <3>1, <3>2
  <2>2. CASE Inserted(i, row[i], row'[i])
    <3>1. request'[i].max > 0
      BY <2>2, RequestAssumption DEF Inserted
    <3>2. \A p \in parents'[i] : p \in Ids /\ LedgerView[p].phase # "absent"
      BY <2>2 DEF Inserted, Existing, LedgerView, PhaseOf, Pending
    <3>3. F(i).live = FALSE
      BY <1>2, <2>2 DEF Inserted
    <3>4. Ledger!Submitted(E(i), F(i))
      BY <1>2, <2>2, <3>1, <3>2, <3>3
         DEF Ledger!Submitted, Ledger!Unheld, Inserted, LeaseGone, PhaseOf, Pending
    <3>5. QED BY <3>4 DEF Ledger!Move
  <2>3. CASE Promoted(i, row[i], row'[i])
    BY <2>3 DEF LedgerView, E, F, Promoted, SameTerms, PhaseOf, Pending
  <2>4. CASE Claimed(i, row[i], row'[i])
    <3>1. \A p \in parents[i] : LedgerView[p].phase = "done"
      BY <2>4 DEF Claimed, LedgerView, PhaseOf, Pending, Inv, TypeOK
    <3>2. E(i).phase = "waiting" \/ (E(i).phase = "held" /\ ~ E(i).live)
      <4>1. CASE row[i].state \in Pending
        BY <1>2, <4>1 DEF PhaseOf, Pending
      <4>2. CASE row[i].state = "running" /\ row[i].left < 0
        <5>1. row[i].left \in Int
          BY BoundAssumption DEF Inv, TypeOK, Row, Expired
        <5>2. ~ (row[i].left >= 0)
          BY <4>2, <5>1
        <5>3. QED BY <1>2, <4>2, <5>2 DEF PhaseOf, Pending
      <4>3. QED BY <2>4, <4>1, <4>2 DEF Claimed
    <3>3. F(i).phase = "held" /\ F(i).holder # NoOwner
      BY <1>2, <2>4, NullAssumption DEF Claimed, PhaseOf, Pending
    <3>4. Ledger!Started(E(i), F(i))
      BY <1>2, <2>4, <3>1, <3>2, <3>3 DEF Ledger!Started, Ledger!SameTerms, Claimed, SameTerms
    <3>5. QED BY <3>4 DEF Ledger!Move
  <2>5. CASE Ended(i, row[i], row'[i])
    <3>1. /\ E(i).phase = "held"
          /\ \/ F(i).phase = "done" \/ F(i).phase = "failed"
             \/ F(i).phase = "waiting" /\ E(i).tries < E(i).limit
      BY <1>2, <2>5 DEF Ended, PhaseOf, Pending
    <3>2. F(i).live = FALSE
      BY <1>2, <2>5 DEF Ended, Pending
    <3>3. Ledger!Finished(E(i), F(i))
      BY <1>2, <2>5, <3>1, <3>2
         DEF Ledger!Finished, Ledger!Unheld, Ledger!SameTerms, Ended, LeaseGone, SameTerms
    <3>4. QED BY <3>3 DEF Ledger!Move
  <2>6. CASE Dropped(i, row[i], row'[i])
    <3>0. row[i].state \in Pending /\ row'[i].state # "running"
      BY <2>6 DEF Dropped
    <3>1. /\ E(i).phase = "waiting" /\ F(i).live = FALSE
          /\ F(i).holder = NoOwner /\ F(i).tries = E(i).tries
          /\ F(i).limit = E(i).limit /\ F(i).needs = E(i).needs
      <4>1. E(i).phase = "waiting"
        BY <1>2, <3>0 DEF PhaseOf, Pending
      <4>2. F(i).live = FALSE
        BY <1>2, <3>0
      <4>3. QED BY <1>2, <2>6, <4>1, <4>2 DEF Dropped, LeaseGone, SameTerms
    <3>2. CASE row'[i].state = "cancelled"
      <4>1. Ledger!Withdrawn(E(i), F(i))
        BY <1>2, <3>1, <3>2 DEF Ledger!Withdrawn, Ledger!Unheld, Ledger!SameTerms, PhaseOf,
                                Pending
      <4>2. QED BY <4>1 DEF Ledger!Move
    <3>3. CASE row'[i].state = "failed" /\ \E p \in parents[i] : row'[p].state \in Lost
      <4>1. \E p \in parents[i] : LedgerView'[p].phase \in Lost
        BY <3>3 DEF LedgerView, PhaseOf, Pending, Lost, Inv, TypeOK
      <4>2. Ledger!GivenUp(E(i), F(i))
        BY <1>2, <3>1, <3>3, <4>1
           DEF Ledger!GivenUp, Ledger!Unheld, Ledger!SameTerms, Ledger!Lost, PhaseOf, Pending, Lost
      <4>3. QED BY <4>2 DEF Ledger!Move
    <3>4. QED BY <2>6, <3>2, <3>3 DEF Dropped
  <2>7. QED BY <1>1, <2>1, <2>2, <2>3, <2>4, <2>5, <2>6 DEF RowMove
<1>4. LedgerView' = [i \in Ids |-> LedgerView'[i]]
  BY DEF LedgerView
<1>5. QED BY <1>3, <1>4 DEF Ledger!Next, E, F

\* The queue implements JobLedger: what its clients may rely on job by job
\* survives every transaction, although one transaction moves many jobs.
THEOREM Refinement == Spec => ImplementsLedger
<1>1. Init => Ledger!Init
  BY LedgerInit
<1>2. Inv /\ [Next]_vars => [Ledger!Next]_LedgerView
  BY LedgerStep
<1>3. QED BY <1>1, <1>2, Invariance, PTL DEF Spec, ImplementsLedger, Ledger!Spec
=============================================================================
