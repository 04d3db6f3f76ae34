------------------------- MODULE DatasetMergeProofs -------------------------
(* Theorems about DatasetMerge, for any number of tasks, local runs,       *)
(* candidates, overlapping passes and crashes.                             *)
EXTENDS DatasetMerge, TLAPS

-----------------------------------------------------------------------------
(* The invariant                                                            *)

\* Who writes has the lock.
Exclusive ==
    /\ \A p \in Collectors : pass[p].step \in {"ranks", "view", "cache"} => lock = p
    /\ driver.step = "ranks" => lock = Driver

\* What can be read of sample i.
RowOK(i, r) ==
    /\ r \in Row /\ r.rank <= Authority(r.form) /\ (r.form # "none" => r.rank > 0)
    /\ r.form = "candidate" => r.rank = 50
    /\ i \in Locals => \/ r.form = "none"
                       \/ r.form = "local" /\ r.rank = 30
                       \/ r.form = "part" /\ r.rank = 40

FrameOK(F) == F \in [Ids -> Row] /\ \A i \in Ids : RowOK(i, F[i])

Frames == \A p \in Collectors : FrameOK(pass[p].frame)

LocalRow(form, rank) == form \in {"none", "local", "part"} /\ rank \in {0, 30, 40}

Locally == \A i \in Locals : LocalRow(master[i], ranks[i])

\* Ranks that may follow the master as it is.
PlanOK(plan) ==
    /\ \A i \in Ids : plan[i] <= Authority(master[i])
    /\ \A i \in Locals : plan[i] \in {0, 30, 40}

Plans ==
    /\ \A p \in Collectors : pass[p].step = "ranks" => PlanOK(pass[p].plan)
    /\ driver.step = "ranks" => PlanOK(driver.plan)

\* A task that has ended stays as it is.
Listings ==
    /\ \A t \in Tasks : status[t] = "withdrawn" => output[t] = {}
    /\ \A p \in Collectors : pass[p].step = "fetch" =>
           \A t \in Tasks : pass[p].listed[t] \in Ended => status[t] = pass[p].listed[t]

\* What a pass will add to the cache is in its frame, and once merged in the master.
Kept(q) ==
    /\ \A t \in q.harvested : IF q.step = "merge" THEN q.frame[t].form # "none"
                                                  ELSE master[t] # "none"
    /\ \A i \in q.parts : IF q.step = "merge" THEN q.frame[i].form = "part"
                                              ELSE master[i] = "part"
    /\ \A t \in q.nodata : output[t] = {} /\ status[t] \in Ended

Promised == \A p \in Collectors : Kept(pass[p])

Cached ==
    /\ \A t \in cache.harvested : master[t] # "none"
    /\ \A i \in cache.parts : master[i] = "part"
    /\ \A t \in cache.nodata : output[t] = {} /\ status[t] \in Ended

\* The round's candidates, once installed, are not replaced, nor are their ranks.
Round ==
    /\ driver.step # "wait" => \A c \in Candidates : status[c] \in Ended
    /\ driver.step = "ranks" =>
           \A c \in Verified : master[c] = "candidate" /\ driver.plan[c] = 50
    /\ driver.step \in {"save", "check"} =>
           \A c \in Verified :
               /\ master[c] = "candidate" /\ ranks[c] = 50
               /\ \A p \in Collectors : pass[p].step = "ranks" => pass[p].plan[c] = 50

Inv == /\ DatasetTypeOK /\ Exclusive /\ Frames /\ RanksBacked /\ Locally /\ Plans
       /\ Listings /\ Promised /\ Cached /\ Round

-----------------------------------------------------------------------------
(* Merging                                                                  *)

LEMMA NoRowOK == NoRow \in Row /\ \A i \in Ids : RowOK(i, NoRow)
  BY DEF NoRow, Row, RowOK, Authority, Forms

LEMMA OffTyped == Off \in Pass /\ FrameOK(Off.frame)
<1>1. Off \in Pass
  BY NoRowOK DEF Off, Pass, Ended
<1>2. FrameOK(Off.frame)
  BY NoRowOK DEF Off, FrameOK
<1> QED
  BY <1>1, <1>2

LEMMA AuthorityInt == \A f \in Forms \cup {"none"} : Authority(f) \in Int
  BY DEF Authority, Again, Rank, Forms

\* What merging a frame does to one sample: m and k are its new form and rank.
LEMMA MergedSample ==
    ASSUME DatasetTypeOK, RanksBacked, Locally, NEW F, FrameOK(F), Replayed(F), NEW i \in Ids,
           NEW m, m = Merged(F)[i], NEW k, k = RanksOf(F)[i]
    PROVE  /\ m \in Forms \cup {"none"} /\ k \in 0 .. 50
           /\ k <= Authority(m) /\ ranks[i] <= k
           /\ F[i].form # "none" \/ master[i] # "none" => m # "none"
           /\ i \in Locals => LocalRow(m, k)
           /\ i \in Locals /\ ("part" \in {F[i].form, master[i]}) => m = "part"
           /\ F[i].form = "candidate" \/ (ranks[i] = 50 /\ master[i] = "candidate")
                  => m = "candidate" /\ k = 50
<1>1. /\ F[i] \in Row /\ F[i].rank \in 0 .. 50 /\ F[i].form \in Forms \cup {"none"}
      /\ F[i].rank <= Authority(F[i].form)
      /\ F[i].form # "none" => F[i].rank > 0
      /\ ranks[i] \in 0 .. 50 /\ ranks[i] <= Authority(master[i])
      /\ master[i] \in Forms \cup {"none"}
  BY DEF FrameOK, RowOK, Row, DatasetTypeOK, RanksBacked
<1>2. /\ m = IF F[i].rank > Held(F, i) THEN F[i].form ELSE master[i]
      /\ k = IF F[i].rank > Held(F, i) THEN F[i].rank ELSE Held(F, i)
  BY DEF Merged, RanksOf, Accepted
<1>3. /\ Authority("none") = 0 /\ Authority("local") = 30 /\ Authority("part") = 40
      /\ Authority("candidate") = 50
      /\ \A f \in Forms : f # "candidate" => Authority(f) \in 0 .. 49
  BY DEF Authority, Forms, Rank, Again
<1>4. i \in Locals => /\ master[i] \in {"none", "local", "part"} /\ ranks[i] \in {0, 30, 40}
                      /\ \/ F[i].form = "none"
                         \/ F[i].form = "local" /\ F[i].rank = 30
                         \/ F[i].form = "part" /\ F[i].rank = 40
  BY DEF Locally, LocalRow, FrameOK, RowOK
<1>a. F[i].form = "none" => F[i].rank = 0
  BY <1>1, <1>3
<1>b. F[i].form = "candidate" => F[i].rank = 50
  BY DEF FrameOK, RowOK
<1>5. CASE i \in Uncovered
  <2>1. Held(F, i) = F[i].rank /\ master[i] = F[i].form /\ ranks[i] = 0
    BY <1>5 DEF Held, Replayed, Uncovered
  <2>2. m = F[i].form /\ k = F[i].rank
    BY <1>1, <1>2, <2>1
  <2> QED
    BY <1>1, <1>3, <1>4, <1>a, <1>b, <2>1, <2>2 DEF LocalRow
<1>6. CASE i \notin Uncovered /\ F[i].rank > ranks[i]
  <2>1. m = F[i].form /\ k = F[i].rank /\ m # "none"
    BY <1>1, <1>2, <1>3, <1>6 DEF Held
  <2> QED
    BY <1>1, <1>3, <1>4, <1>a, <1>b, <1>6, <2>1 DEF LocalRow, Uncovered
<1>7. CASE i \notin Uncovered /\ ~ (F[i].rank > ranks[i])
  <2>1. m = master[i] /\ k = ranks[i]
    BY <1>1, <1>2, <1>7 DEF Held
  <2>2. F[i].rank <= ranks[i]
    BY <1>1, <1>7
  <2> QED
    <3>1. m \in Forms \cup {"none"} /\ k \in 0 .. 50 /\ k <= Authority(m)
          /\ ranks[i] <= k
      BY <1>1, <2>1
    <3>2. master[i] = "none" => F[i].form = "none"
      BY <1>1, <1>3, <2>2
    <3>3. i \in Locals => LocalRow(m, k)
      BY <1>4, <2>1 DEF LocalRow
    <3>4. i \in Locals /\ F[i].form = "part" => master[i] = "part"
      BY <1>1, <1>3, <1>4, <2>2
    <3>5. F[i].form = "candidate" => master[i] = "candidate" /\ ranks[i] = 50
      <4>1. SUFFICES ASSUME F[i].form = "candidate"
                     PROVE  master[i] = "candidate" /\ ranks[i] = 50
        OBVIOUS
      <4>2. ranks[i] = 50
        BY <1>1, <1>b, <2>2, <4>1
      <4>3. Authority(master[i]) >= 50
        BY <1>1, <4>2, <1>3
      <4> QED
        BY <1>1, <1>3, <4>2, <4>3
    <3> QED
      BY <2>1, <3>1, <3>2, <3>3, <3>4, <3>5
<1> QED
  BY <1>5, <1>6, <1>7

LEMMA MergedFiles ==
    ASSUME DatasetTypeOK, RanksBacked, Locally, NEW F, FrameOK(F), Replayed(F),
           NEW plan, plan = RanksOf(F), master' = Merged(F), ranks' = ranks
    PROVE  /\ master' \in [Ids -> Forms \cup {"none"}] /\ plan \in [Ids -> 0 .. 50]
           /\ RanksBacked' /\ Locally' /\ PlanOK(plan)'
           /\ \A i \in Ids : F[i].form # "none" \/ master[i] # "none" => master'[i] # "none"
           /\ \A i \in Locals : "part" \in {F[i].form, master[i]} => master'[i] = "part"
           /\ \A i \in Ids :
                  F[i].form = "candidate" \/ (ranks[i] = 50 /\ master[i] = "candidate")
                      => master'[i] = "candidate" /\ plan[i] = 50
<1>1. \A i \in Ids :
           /\ master'[i] \in Forms \cup {"none"} /\ plan[i] \in 0 .. 50
           /\ plan[i] <= Authority(master'[i]) /\ ranks[i] <= plan[i]
           /\ F[i].form # "none" \/ master[i] # "none" => master'[i] # "none"
           /\ i \in Locals => LocalRow(master'[i], plan[i])
           /\ i \in Locals /\ ("part" \in {F[i].form, master[i]}) => master'[i] = "part"
           /\ F[i].form = "candidate" \/ (ranks[i] = 50 /\ master[i] = "candidate")
                  => master'[i] = "candidate" /\ plan[i] = 50
  BY MergedSample
<1>2. /\ master' = [i \in Ids |-> master'[i]] /\ plan = [i \in Ids |-> plan[i]]
  BY DEF Merged, RanksOf
<1>3. master' \in [Ids -> Forms \cup {"none"}] /\ plan \in [Ids -> 0 .. 50]
  BY <1>1, <1>2
<1>4. RanksBacked'
  <2> SUFFICES ASSUME NEW i \in Ids PROVE ranks[i] <= Authority(master'[i])
    BY DEF RanksBacked
  <2>1. ranks[i] \in Int /\ plan[i] \in Int /\ Authority(master'[i]) \in Int
    BY <1>1, AuthorityInt DEF DatasetTypeOK
  <2> QED
    BY <1>1, <2>1
<1>5. Locally'
  BY <1>1 DEF Locally, LocalRow, Ids
<1>6. PlanOK(plan)'
  BY <1>1 DEF PlanOK, LocalRow, Ids
<1> QED
  BY <1>1, <1>3, <1>4, <1>5, <1>6 DEF Ids

-----------------------------------------------------------------------------
(* Steps of a pass                                                          *)

\* Steps that change neither the master nor its ranks: of pass p, to q.
LEMMA PassStep ==
    ASSUME Inv, NEW p \in Collectors, NEW q \in Pass, pass' = [pass EXCEPT ![p] = q],
           FrameOK(q.frame), q.step # "ranks", Kept(q),
           q.step = "fetch" => \A t \in Tasks : q.listed[t] \in Ended => status[t] = q.listed[t],
           \/ lock' = lock /\ (q.step \in {"view", "cache"} => lock = p)
           \/ lock = Nobody /\ lock' = p
           \/ lock = p /\ lock' = Nobody /\ q.step \notin {"view", "cache"},
           UNCHANGED <<outside, master, ranks, driver>>,
           view' \in [Ids -> Forms \cup {"none"}], crashes' \in 0 .. MaxCrashes,
           cache' \in [harvested : SUBSET Tasks, nodata : SUBSET Tasks, parts : SUBSET Locals],
           Cached'
    PROVE  Inv'
<1> USE DEF outside
<1>0. pass \in [Collectors -> Pass] /\ p \notin {Driver, Nobody}
  BY ActorsAssumption DEF Inv, DatasetTypeOK
<1>1. pass'[p] = q /\ \A r \in Collectors \ {p} : pass'[r] = pass[r]
  BY <1>0
<1>2. DatasetTypeOK'
  BY <1>0 DEF Inv, DatasetTypeOK, Ids
<1>3. Exclusive'
  <2>1. q.step \in {"off", "fetch", "merge", "view", "cache"}
    BY DEF Pass
  <2> QED
    BY <1>0, <1>1, <2>1, ActorsAssumption DEF Inv, Exclusive
<1>4. Frames'
  BY <1>1 DEF Inv, Frames, FrameOK, RowOK, Row
<1>5. RanksBacked' /\ Locally'
  BY DEF Inv, RanksBacked, Locally
<1>6. Plans'
  BY <1>1 DEF Inv, Plans, PlanOK
<1>7. Listings'
  BY <1>1 DEF Inv, Listings
<1>8. Promised'
  BY <1>1 DEF Inv, Promised, Kept
<1>9. Round'
  BY <1>1 DEF Inv, Round, Verified
<1> QED
  BY <1>2, <1>3, <1>4, <1>5, <1>6, <1>7, <1>8, <1>9 DEF Inv

LEMMA OffKept == Kept(Off) /\ Off.step = "off"
  BY DEF Kept, Off

\* A pass that ends without having committed.
LEMMA EndedPass ==
    ASSUME Inv, NEW p \in Collectors, pass' = [pass EXCEPT ![p] = Off],
           lock' = IF lock = p THEN Nobody ELSE lock,
           UNCHANGED <<outside, master, ranks, view, cache, driver>>,
           crashes' \in 0 .. MaxCrashes
    PROVE  Inv'
<1>1. Off \in Pass /\ FrameOK(Off.frame) /\ Kept(Off) /\ Off.step = "off"
  BY OffTyped, OffKept
<1>2. view' \in [Ids -> Forms \cup {"none"}] /\ Cached'
      /\ cache' \in [harvested : SUBSET Tasks, nodata : SUBSET Tasks, parts : SUBSET Locals]
  BY DEF Inv, DatasetTypeOK, Cached, outside
<1>3. lock' = lock \/ (lock = p /\ lock' = Nobody)
  OBVIOUS
<1> QED
  BY <1>1, <1>2, <1>3, PassStep

LEMMA ListKeeps == ASSUME Inv, NEW p \in Collectors, List(p) PROVE Inv'
<1>1. PICK again \in {{}} \cup {{t} : t \in {r \in Recollected : status[r] \in Ended}} :
          pass' = [pass EXCEPT ![p] =
             [Off EXCEPT !.step = "fetch", !.listed = status, !.again = again,
                         !.skip = ((cache.harvested \cup cache.nodata) \ again) \cup cache.parts]]
  BY DEF List
<1>2. PICK q : q = [Off EXCEPT !.step = "fetch", !.listed = status, !.again = again,
                         !.skip = ((cache.harvested \cup cache.nodata) \ again) \cup cache.parts]
  OBVIOUS
<1>3. again \subseteq Tasks
  BY ActorsAssumption
<1>4. q \in Pass /\ q.step = "fetch" /\ q.listed = status
  BY <1>2, <1>3, OffTyped DEF Inv, DatasetTypeOK, Pass, Off, Ids
<1>5. FrameOK(q.frame) /\ Kept(q)
  BY <1>2, OffTyped DEF Kept, Off
<1>6. view' \in [Ids -> Forms \cup {"none"}] /\ Cached' /\ crashes' \in 0 .. MaxCrashes
      /\ cache' \in [harvested : SUBSET Tasks, nodata : SUBSET Tasks, parts : SUBSET Locals]
  BY DEF List, Inv, DatasetTypeOK, Cached, outside
<1> QED
  BY <1>1, <1>2, <1>4, <1>5, <1>6, PassStep DEF List

LEMMA FetchKeeps == ASSUME Inv, NEW p \in Collectors, Fetch(p) PROVE Inv'
<1>1. PICK broken \in SUBSET Flaky, streaming \in Streaming :
        LET read     == Pending(p) \ broken
            streamed == IF streaming THEN Running(p) \ broken ELSE {}
            parts    == PartsOf(p, broken)
        IN pass' = [pass EXCEPT
                ![p].step = "merge", ![p].listed = Off.listed, ![p].skip = {}, ![p].again = {},
                ![p].frame = FrameOf(p, read, streamed, parts),
                ![p].harvested = {t \in read : output[t] # {}},
                ![p].nodata = Judged(p, read), ![p].parts = parts]
  BY DEF Fetch
<1>2. PICK read, streamed, parts :
        /\ read = Pending(p) \ broken
        /\ streamed = IF streaming THEN Running(p) \ broken ELSE {}
        /\ parts = PartsOf(p, broken)
  OBVIOUS
<1>3. PICK q : q = [pass[p] EXCEPT
                !.step = "merge", !.listed = Off.listed, !.skip = {}, !.again = {},
                !.frame = FrameOf(p, read, streamed, parts),
                !.harvested = {t \in read : output[t] # {}},
                !.nodata = Judged(p, read), !.parts = parts]
  OBVIOUS
<1>4. pass[p] \in Pass /\ pass[p].step = "fetch" /\ pass \in [Collectors -> Pass]
  BY DEF Fetch, Inv, DatasetTypeOK
<1>5. pass' = [pass EXCEPT ![p] = q]
  BY <1>1, <1>2, <1>3, <1>4 DEF Pass
<1>6. read \subseteq Tasks /\ parts \subseteq Locals
  BY <1>2 DEF Pending, PartsOf
<1>7. FrameOK(FrameOf(p, read, streamed, parts))
  <2>1. \A i \in Ids : RowOK(i, FrameOf(p, read, streamed, parts)[i])
    <3> SUFFICES ASSUME NEW i \in Ids
                 PROVE  RowOK(i, FrameOf(p, read, streamed, parts)[i])
      OBVIOUS
    <3>1. CASE i \in Tasks /\ i \in read /\ output[i] # {}
      <4>1. FrameOf(p, read, streamed, parts)[i] = TaskRow(p, i)
        BY <3>1 DEF FrameOf
      <4>2. FormOf(p, i) \in {"csv", "json", "guarded"}
        BY DEF FormOf
      <4>3. PICK form : form = FormOf(p, i)
        OBVIOUS
      <4>4. TaskRow(p, i) = [form |-> form,
                             rank |-> IF i \in pass[p].again THEN Again(form) ELSE Rank[form]]
        BY <4>3 DEF TaskRow
      <4>5. Rank[form] \in {10, 20} /\ Again(form) = Rank[form] + 1 /\ Authority(form) = Again(form)
            /\ form \in Forms /\ form \notin {"none", "candidate"}
        BY <4>2, <4>3 DEF Rank, Again, Authority, Forms
      <4> QED
        BY <3>1, <4>1, <4>4, <4>5, ActorsAssumption DEF RowOK, Row
    <3>2. CASE i \in Tasks /\ ~ (i \in read /\ output[i] # {})
      BY <3>2, NoRowOK, ActorsAssumption
         DEF FrameOf, RowOK, Row, NoRow, Rank, Again, Authority, Forms
    <3>3. CASE i \in Locals
      BY <3>3, NoRowOK, ActorsAssumption
         DEF FrameOf, RowOK, Row, NoRow, Rank, Again, Authority, Forms
    <3> QED
      BY <3>1, <3>2, <3>3 DEF Ids
  <2>2. FrameOf(p, read, streamed, parts) =
            [i \in Ids |-> FrameOf(p, read, streamed, parts)[i]]
    BY DEF FrameOf
  <2>3. FrameOf(p, read, streamed, parts) \in [Ids -> Row]
    BY <2>1, <2>2 DEF RowOK
  <2> QED
    BY <2>1, <2>3 DEF FrameOK
<1>8. Judged(p, read) \subseteq Tasks
  BY <1>6 DEF Judged, Withdrawn
<1>9. q \in Pass /\ q.step = "merge" /\ q.frame = FrameOf(p, read, streamed, parts)
      /\ q.harvested = {t \in read : output[t] # {}} /\ q.nodata = Judged(p, read)
      /\ q.parts = parts
  BY <1>3, <1>4, <1>6, <1>7, <1>8, OffTyped DEF Pass, FrameOK
<1>10. Kept(q)
  <2>1. \A t \in q.harvested : q.frame[t].form # "none"
    <3> SUFFICES ASSUME NEW t \in Tasks, t \in read, output[t] # {}
                 PROVE  q.frame[t].form # "none"
      BY <1>6, <1>9
    <3>1. q.frame[t] = TaskRow(p, t)
      BY <1>9 DEF FrameOf, Ids
    <3> QED
      BY <3>1 DEF TaskRow, FormOf
  <2>2. \A i \in q.parts : q.frame[i].form = "part"
    BY <1>6, <1>9, ActorsAssumption DEF FrameOf, Ids
  <2>3. \A t \in q.nodata : output[t] = {} /\ status[t] \in Ended
    BY <1>2, <1>4, <1>9 DEF Judged, Withdrawn, Pending, Inv, Listings, Ended
  <2> QED
    BY <1>9, <2>1, <2>2, <2>3 DEF Kept
<1>11. view' \in [Ids -> Forms \cup {"none"}] /\ Cached' /\ crashes' \in 0 .. MaxCrashes
      /\ cache' \in [harvested : SUBSET Tasks, nodata : SUBSET Tasks, parts : SUBSET Locals]
  BY DEF Fetch, Inv, DatasetTypeOK, Cached, outside
<1> QED
  BY <1>5, <1>7, <1>9, <1>10, <1>11, PassStep DEF Fetch

LEMMA RefuseKeeps == ASSUME Inv, NEW p \in Collectors, Refuse(p) PROVE Inv'
<1>1. lock = Nobody /\ crashes' \in 0 .. MaxCrashes
      /\ lock' = IF lock = p THEN Nobody ELSE lock
  BY ActorsAssumption DEF Refuse, Inv, DatasetTypeOK
<1> QED
  BY <1>1, EndedPass DEF Refuse

LEMMA CrashKeeps == ASSUME Inv, NEW p \in Collectors, Crash(p) PROVE Inv'
<1>1. crashes' \in 0 .. MaxCrashes
  BY ActorsAssumption DEF Crash, Inv, DatasetTypeOK
<1> QED
  BY <1>1, EndedPass DEF Crash

LEMMA UnchangedKeeps == ASSUME Inv, NEW p \in Collectors, Unchanged(p) PROVE Inv'
<1>1. PICK q : q = [pass[p] EXCEPT !.step = "view", !.frame = Off.frame]
  OBVIOUS
<1>2. pass[p] \in Pass /\ pass[p].step = "merge" /\ pass \in [Collectors -> Pass]
      /\ FrameOK(pass[p].frame) /\ Kept(pass[p])
  BY DEF Unchanged, Inv, DatasetTypeOK, Frames, Promised
<1>3. pass' = [pass EXCEPT ![p] = q]
  BY <1>1, <1>2 DEF Unchanged, Pass
<1>4. q \in Pass /\ FrameOK(q.frame) /\ q.step = "view" /\ q.harvested = pass[p].harvested
      /\ q.parts = pass[p].parts /\ q.nodata = pass[p].nodata
  BY <1>1, <1>2, OffTyped DEF Pass, FrameOK
<1>5. PICK F : F = pass[p].frame
  OBVIOUS
<1>6. /\ \A i \in Ids : F[i].form # "none" => master[i] # "none"
      /\ \A i \in Locals : F[i].form = "part" => master[i] = "part"
  <2>1. CASE Empty(F)
    BY <2>1 DEF Empty, NoRow, Ids
  <2>2. CASE Replayed(F) /\ Accepted(F) = {}
    <3>1. Merged(F) = master
      BY <2>2 DEF Merged, Inv, DatasetTypeOK
    <3>2. DatasetTypeOK /\ RanksBacked /\ Locally /\ FrameOK(F) /\ Replayed(F)
      BY <1>2, <1>5, <2>2 DEF Inv
    <3>3. ASSUME NEW i \in Ids
          PROVE  /\ F[i].form # "none" => master[i] # "none"
                 /\ i \in Locals /\ F[i].form = "part" => master[i] = "part"
      BY <3>1, <3>2, MergedSample
    <3>4. \A i \in Ids : F[i].form # "none" => master[i] # "none"
      BY <3>3
    <3>5. \A i \in Locals : F[i].form = "part" => master[i] = "part"
      BY <3>3 DEF Ids
    <3> QED
      BY <3>4, <3>5
  <2> QED
    BY <1>5, <2>1, <2>2 DEF Unchanged
<1>7. Kept(q)
  BY <1>2, <1>4, <1>5, <1>6 DEF Kept, Pass, Ids
<1>8. view' \in [Ids -> Forms \cup {"none"}] /\ Cached' /\ crashes' \in 0 .. MaxCrashes
      /\ cache' \in [harvested : SUBSET Tasks, nodata : SUBSET Tasks, parts : SUBSET Locals]
  BY DEF Unchanged, Inv, DatasetTypeOK, Cached, outside
<1> QED
  BY <1>3, <1>4, <1>7, <1>8, PassStep DEF Unchanged

LEMMA InstallViewKeeps == ASSUME Inv, NEW p \in Collectors, InstallView(p) PROVE Inv'
<1>1. PICK q : q = [pass[p] EXCEPT !.step = "cache"]
  OBVIOUS
<1>2. pass[p] \in Pass /\ pass[p].step = "view" /\ pass \in [Collectors -> Pass]
      /\ FrameOK(pass[p].frame) /\ Kept(pass[p]) /\ lock = p
  BY DEF InstallView, Inv, DatasetTypeOK, Frames, Promised, Exclusive
<1>3. pass' = [pass EXCEPT ![p] = q]
  BY <1>1, <1>2 DEF InstallView, Pass
<1>4. q \in Pass /\ FrameOK(q.frame) /\ q.step = "cache" /\ Kept(q)
  BY <1>1, <1>2 DEF Pass, Kept
<1>5. view' \in [Ids -> Forms \cup {"none"}] /\ Cached' /\ crashes' \in 0 .. MaxCrashes
      /\ cache' \in [harvested : SUBSET Tasks, nodata : SUBSET Tasks, parts : SUBSET Locals]
  BY DEF InstallView, Inv, DatasetTypeOK, Cached, outside
<1> QED
  BY <1>2, <1>3, <1>4, <1>5, PassStep DEF InstallView

LEMMA CommitKeeps == ASSUME Inv, NEW p \in Collectors, Commit(p) PROVE Inv'
<1>1. pass[p] \in Pass /\ pass[p].step = "cache" /\ Kept(pass[p]) /\ lock = p
  BY DEF Commit, Inv, DatasetTypeOK, Promised, Exclusive
<1>2. cache' \in [harvested : SUBSET Tasks, nodata : SUBSET Tasks, parts : SUBSET Locals]
  BY <1>1 DEF Commit, Inv, DatasetTypeOK, Pass
<1>3. Cached'
  BY <1>1 DEF Commit, Inv, Cached, Kept, outside
<1>4. view' \in [Ids -> Forms \cup {"none"}] /\ crashes' \in 0 .. MaxCrashes
  BY DEF Commit, Inv, DatasetTypeOK
<1>5. Off \in Pass /\ FrameOK(Off.frame) /\ Kept(Off) /\ Off.step = "off"
  BY OffTyped, OffKept
<1> QED
  BY <1>1, <1>2, <1>3, <1>4, <1>5, PassStep DEF Commit

\* The pass has the lock, and nobody else writes.
LEMMA AloneWriting ==
    ASSUME Inv, NEW p \in Collectors, lock \in {p, Nobody}
    PROVE  /\ \A r \in Collectors \ {p} : pass[r].step \notin {"ranks", "view", "cache"}
           /\ driver.step # "ranks"
  BY ActorsAssumption DEF Inv, Exclusive

LEMMA MergeKeeps == ASSUME Inv, NEW p \in Collectors, Merge(p) PROVE Inv'
<1> USE DEF outside
<1>1. PICK F, plan : F = pass[p].frame /\ plan = RanksOf(F)
  OBVIOUS
<1>2. pass[p] \in Pass /\ pass[p].step = "merge" /\ pass \in [Collectors -> Pass]
      /\ FrameOK(F) /\ Kept(pass[p]) /\ lock = Nobody /\ lock' = p
  BY <1>1 DEF Merge, Inv, DatasetTypeOK, Frames, Promised
<1>3. PICK q : q = [pass[p] EXCEPT !.step = "ranks", !.frame = Off.frame, !.plan = plan]
  OBVIOUS
<1>4. pass' = [pass EXCEPT ![p] = q]
  BY <1>1, <1>2, <1>3 DEF Merge, Pass
<1>5. DatasetTypeOK /\ RanksBacked /\ Locally /\ Replayed(F) /\ master' = Merged(F)
      /\ ranks' = ranks
  BY <1>1 DEF Merge, Inv
<1>6. /\ master' \in [Ids -> Forms \cup {"none"}] /\ plan \in [Ids -> 0 .. 50]
      /\ RanksBacked' /\ Locally' /\ PlanOK(plan)'
      /\ \A i \in Ids : F[i].form # "none" \/ master[i] # "none" => master'[i] # "none"
      /\ \A i \in Locals : "part" \in {F[i].form, master[i]} => master'[i] = "part"
      /\ \A i \in Ids :
             F[i].form = "candidate" \/ (ranks[i] = 50 /\ master[i] = "candidate")
                 => master'[i] = "candidate" /\ plan[i] = 50
  BY <1>1, <1>2, <1>5, MergedFiles
<1>7. q \in Pass /\ FrameOK(q.frame) /\ q.step = "ranks" /\ q.harvested = pass[p].harvested
      /\ q.parts = pass[p].parts /\ q.nodata = pass[p].nodata /\ q.plan = plan
  BY <1>2, <1>3, <1>6, OffTyped DEF Pass, FrameOK
<1>8. pass'[p] = q /\ \A r \in Collectors \ {p} : pass'[r] = pass[r]
  BY <1>2, <1>4
<1>9. /\ \A r \in Collectors \ {p} : pass[r].step \notin {"ranks", "view", "cache"}
      /\ driver.step # "ranks"
  BY <1>2, AloneWriting
<1>10. UNCHANGED <<status, output, saved, ranks, view, cache, driver, crashes>>
  BY DEF Merge
<1>11. DatasetTypeOK'
  BY <1>2, <1>4, <1>6, <1>7, <1>10 DEF Inv, DatasetTypeOK
<1>12. Exclusive'
  BY <1>2, <1>8, <1>9, <1>10 DEF Exclusive
<1>13. Frames'
  BY <1>7, <1>8 DEF Inv, Frames, FrameOK, RowOK, Row
<1>14. Plans'
  BY <1>6, <1>7, <1>8, <1>9, <1>10 DEF Plans
<1>15. Listings'
  BY <1>7, <1>8, <1>10 DEF Inv, Listings
<1>16. Promised'
  <2>1. Kept(q)'
    <3>1. /\ \A t \in q.harvested : F[t].form # "none" /\ t \in Tasks
          /\ \A i \in q.parts : F[i].form = "part" /\ i \in Locals
          /\ \A t \in q.nodata : output[t] = {} /\ status[t] \in Ended
      BY <1>1, <1>2, <1>7 DEF Kept, Pass
    <3>2. \A t \in q.harvested : master'[t] # "none"
      BY <1>6, <3>1 DEF Ids
    <3>3. \A i \in q.parts : master'[i] = "part"
      BY <1>6, <3>1
    <3>4. \A t \in q.nodata : output'[t] = {} /\ status'[t] \in Ended
      BY <1>10, <3>1
    <3> QED
      BY <1>7, <3>2, <3>3, <3>4 DEF Kept
  <2>2. \A r \in Collectors \ {p} : Kept(pass[r])'
    <3> SUFFICES ASSUME NEW r \in Collectors \ {p} PROVE Kept(pass[r])'
      OBVIOUS
    <3>1. pass'[r] = pass[r] /\ pass[r] \in Pass /\ Kept(pass[r])
      BY <1>2, <1>8 DEF Inv, Promised
    <3> QED
      BY <1>6, <1>10, <3>1 DEF Kept, Pass, Ids
  <2> QED
    BY <1>8, <2>1, <2>2 DEF Promised
<1>17. Cached'
  BY <1>6, <1>10 DEF Inv, Cached, DatasetTypeOK, Ids
<1>18. Round'
  <2>1. Verified' = Verified /\ Verified \subseteq Ids
    BY <1>10, ActorsAssumption DEF Verified, Ids
  <2>2. ASSUME driver.step \in {"save", "check"}
        PROVE  \A c \in Verified : /\ master'[c] = "candidate" /\ ranks[c] = 50
                                  /\ plan[c] = 50
    BY <1>6, <2>1, <2>2 DEF Inv, Round
  <2> QED
    BY <1>7, <1>8, <1>9, <1>10, <2>1, <2>2 DEF Inv, Round
<1> QED
  BY <1>6, <1>11, <1>12, <1>13, <1>14, <1>15, <1>16, <1>17, <1>18 DEF Inv

LEMMA InstallRanksKeeps == ASSUME Inv, NEW p \in Collectors, InstallRanks(p) PROVE Inv'
<1> USE DEF outside
<1>1. PICK q : q = [pass[p] EXCEPT !.step = "view", !.plan = Off.plan]
  OBVIOUS
<1>2. pass[p] \in Pass /\ pass[p].step = "ranks" /\ pass \in [Collectors -> Pass]
      /\ FrameOK(pass[p].frame) /\ Kept(pass[p]) /\ lock = p /\ PlanOK(pass[p].plan)
  BY DEF InstallRanks, Inv, DatasetTypeOK, Frames, Promised, Exclusive, Plans
<1>3. pass' = [pass EXCEPT ![p] = q]
  BY <1>1, <1>2 DEF InstallRanks, Pass
<1>4. q \in Pass /\ FrameOK(q.frame) /\ q.step = "view" /\ Kept(q)
  BY <1>1, <1>2, OffTyped DEF Pass, Kept
<1>5. pass'[p] = q /\ \A r \in Collectors \ {p} : pass'[r] = pass[r]
  BY <1>2, <1>3
<1>6. /\ \A r \in Collectors \ {p} : pass[r].step \notin {"ranks", "view", "cache"}
      /\ driver.step # "ranks"
  BY <1>2, AloneWriting
<1>7. UNCHANGED <<status, output, saved, master, view, cache, lock, driver, crashes>>
      /\ ranks' = pass[p].plan /\ ranks' \in [Ids -> 0 .. 50]
  BY <1>2 DEF InstallRanks, Pass
<1>8. DatasetTypeOK'
  BY <1>2, <1>3, <1>4, <1>7 DEF Inv, DatasetTypeOK
<1>9. Exclusive'
  BY <1>2, <1>5, <1>6, <1>7 DEF Exclusive
<1>10. Frames'
  BY <1>4, <1>5 DEF Inv, Frames, FrameOK, RowOK, Row
<1>11. RanksBacked' /\ Locally'
  BY <1>2, <1>7 DEF Inv, RanksBacked, Locally, LocalRow, PlanOK
<1>12. Plans'
  BY <1>4, <1>5, <1>6, <1>7 DEF Plans
<1>13. Listings'
  BY <1>4, <1>5, <1>7 DEF Inv, Listings
<1>14. Promised' /\ Cached'
  BY <1>4, <1>5, <1>7 DEF Inv, Promised, Cached, Kept
<1>15. Round'
  BY <1>2, <1>4, <1>5, <1>6, <1>7 DEF Inv, Round, Verified
<1> QED
  BY <1>8, <1>9, <1>10, <1>11, <1>12, <1>13, <1>14, <1>15 DEF Inv

-----------------------------------------------------------------------------
(* Steps of the tasks, the local runs and the driver                        *)

\* What has ended stays as it is, and nothing is withdrawn late.
LEMMA OutsideStep ==
    ASSUME Inv, status' \in [Tasks -> {"running"} \cup Ended],
           output' \in [Tasks -> SUBSET {"json", "csv"}],
           saved' \in [Locals -> SUBSET {"local", "part"}],
           \A t \in Tasks : status[t] \in Ended => status'[t] = status[t] /\ output'[t] = output[t],
           \A t \in Tasks : status'[t] = "withdrawn" => status[t] = "withdrawn",
           UNCHANGED <<master, ranks, view, cache, lock, pass, driver, crashes>>
    PROVE  Inv'
<1>1. DatasetTypeOK' /\ Exclusive' /\ RanksBacked' /\ Locally' /\ Plans'
  BY DEF Inv, DatasetTypeOK, Exclusive, RanksBacked, Locally, Plans, PlanOK
<1>2. Frames'
  BY DEF Inv, Frames, FrameOK, RowOK, Row
<1>3. Listings'
  BY DEF Inv, Listings, Ended
<1>4. Promised'
  <2> SUFFICES ASSUME NEW p \in Collectors PROVE Kept(pass[p])'
    BY DEF Promised
  <2>1. Kept(pass[p]) /\ pass[p].nodata \subseteq Tasks
    BY DEF Inv, Promised, DatasetTypeOK, Pass
  <2> QED
    BY <2>1 DEF Kept
<1>5. Cached'
  BY DEF Inv, Cached, DatasetTypeOK
<1>6. Round'
  <2>1. CASE driver.step = "wait"
    BY <2>1 DEF Round
  <2>2. CASE driver.step # "wait"
    <3>1. \A c \in Candidates : /\ c \in Tasks /\ status[c] \in Ended
                               /\ status'[c] = status[c] /\ output'[c] = output[c]
      BY <2>2, ActorsAssumption DEF Inv, Round
    <3>2. Verified' = Verified
      BY <3>1 DEF Verified
    <3> QED
      BY <3>1, <3>2 DEF Inv, Round
  <2> QED
    BY <2>1, <2>2
<1> QED
  BY <1>1, <1>2, <1>3, <1>4, <1>5, <1>6 DEF Inv

LEMMA EmitKeeps == ASSUME Inv, NEW t \in Tasks, Emit(t) PROVE Inv'
  BY OutsideStep DEF Emit, Inv, DatasetTypeOK, Ended

LEMMA EndKeeps == ASSUME Inv, NEW t \in Tasks, End(t) PROVE Inv'
<1>1. PICK end \in {"completed", "failed"} : status' = [status EXCEPT ![t] = end]
  BY DEF End
<1>2. output' \in [Tasks -> SUBSET {"json", "csv"}]
      /\ \A u \in Tasks \ {t} : output'[u] = output[u]
  BY DEF End, Inv, DatasetTypeOK
<1>3. status[t] = "running" /\ UNCHANGED <<saved, master, ranks, view, cache, lock, pass, driver, crashes>>
  BY DEF End
<1>4. status' \in [Tasks -> {"running"} \cup Ended] /\ saved' \in [Locals -> SUBSET {"local", "part"}]
  BY <1>1, <1>3 DEF Inv, DatasetTypeOK, Ended
<1>5. \A u \in Tasks : status[u] \in Ended => status'[u] = status[u] /\ output'[u] = output[u]
  BY <1>1, <1>2, <1>3 DEF Ended
<1>6. \A u \in Tasks : status'[u] = "withdrawn" => status[u] = "withdrawn"
  BY <1>1 DEF Inv, DatasetTypeOK
<1> QED
  BY <1>2, <1>3, <1>4, <1>5, <1>6, OutsideStep

LEMMA SaveKeeps == ASSUME Inv, NEW i \in Locals, Save(i) PROVE Inv'
<1>1. saved' \in [Locals -> SUBSET {"local", "part"}]
  BY DEF Save, Inv, DatasetTypeOK
<1>2. UNCHANGED <<status, output, master, ranks, view, cache, lock, pass, driver, crashes>>
  BY DEF Save
<1> QED
  BY <1>1, <1>2, OutsideStep DEF Inv, DatasetTypeOK

\* Steps of the driver that leave the files alone.
LEMMA DriverStep ==
    ASSUME Inv, UNCHANGED <<outside, master, ranks, view, cache, pass>>,
           driver'.step # "ranks", crashes' \in 0 .. MaxCrashes,
           driver' \in [step : {"wait", "ingest", "ranks", "save", "check"}, plan : [Ids -> 0 .. 50]],
           lock' = lock \/ (lock = Driver /\ lock' = Nobody), Round'
    PROVE  Inv'
<1> USE DEF outside
<1>1. DatasetTypeOK'
  BY DEF Inv, DatasetTypeOK
<1>2. Exclusive'
  BY ActorsAssumption DEF Inv, Exclusive
<1>3. Frames'
  BY DEF Inv, Frames, FrameOK, RowOK, Row
<1>4. RanksBacked' /\ Locally' /\ Plans' /\ Listings' /\ Cached'
  BY DEF Inv, RanksBacked, Locally, Plans, PlanOK, Listings, Cached
<1>5. Promised'
  BY DEF Inv, Promised, Kept
<1> QED
  BY <1>1, <1>2, <1>3, <1>4, <1>5 DEF Inv

LEMMA WaitKeeps == ASSUME Inv, Wait PROVE Inv'
<1>1. driver' \in [step : {"wait", "ingest", "ranks", "save", "check"}, plan : [Ids -> 0 .. 50]]
      /\ driver'.step = "ingest" /\ crashes' \in 0 .. MaxCrashes
  BY DEF Wait, Inv, DatasetTypeOK
<1>2. Round'
  BY <1>1 DEF Wait, Round, outside
<1> QED
  BY <1>1, <1>2, DriverStep DEF Wait

LEMMA CheckKeeps == ASSUME Inv, Check PROVE Inv'
<1>1. driver' \in [step : {"wait", "ingest", "ranks", "save", "check"}, plan : [Ids -> 0 .. 50]]
      /\ driver'.step = "check" /\ crashes' \in 0 .. MaxCrashes
  BY DEF Check, Inv, DatasetTypeOK
<1>2. Verified' = Verified
  BY DEF Check, Verified, outside
<1>3. Round'
  BY <1>1, <1>2 DEF Check, Inv, Round, outside
<1> QED
  BY <1>1, <1>3, DriverStep DEF Check

LEMMA DriverCrashKeeps == ASSUME Inv, DriverCrash PROVE Inv'
<1>1. driver' \in [step : {"wait", "ingest", "ranks", "save", "check"}, plan : [Ids -> 0 .. 50]]
      /\ driver'.step = "ingest" /\ crashes' \in 0 .. MaxCrashes
  BY ActorsAssumption, OffTyped DEF DriverCrash, Inv, DatasetTypeOK, Pass
<1>2. Round'
  BY <1>1 DEF DriverCrash, Inv, Round, outside
<1> QED
  BY <1>1, <1>2, DriverStep DEF DriverCrash

LEMMA IngestKeeps == ASSUME Inv, Ingest PROVE Inv'
<1> USE DEF outside
<1>1. PICK F, plan : F = CandidateFrame /\ plan = RanksOf(F)
  OBVIOUS
<1>2. /\ \A i \in Ids : F[i] = IF i \in Verified THEN [form |-> "candidate", rank |-> 50]
                                                ELSE NoRow
      /\ F = [i \in Ids |-> F[i]]
  BY <1>1 DEF CandidateFrame, Rank
<1>3. \A i \in Ids : RowOK(i, F[i])
  <2> SUFFICES ASSUME NEW i \in Ids PROVE RowOK(i, F[i])
    OBVIOUS
  <2>1. CASE i \in Verified
    <3>1. i \notin Locals
      BY <2>1, ActorsAssumption DEF Verified
    <3> QED
      BY <1>2, <2>1, <3>1 DEF RowOK, Row, Authority, Rank, Forms
  <2>2. CASE i \notin Verified
    BY <1>2, <2>2, NoRowOK
  <2> QED
    BY <2>1, <2>2
<1>4. FrameOK(F)
  BY <1>2, <1>3 DEF FrameOK, RowOK
<1>5. DatasetTypeOK /\ RanksBacked /\ Locally /\ Replayed(F) /\ master' = Merged(F)
      /\ ranks' = ranks /\ lock = Nobody /\ lock' = Driver
      /\ driver' = [step |-> "ranks", plan |-> plan] /\ driver.step = "ingest"
  BY <1>1 DEF Ingest, Inv
<1>6. /\ master' \in [Ids -> Forms \cup {"none"}] /\ plan \in [Ids -> 0 .. 50]
      /\ RanksBacked' /\ Locally' /\ PlanOK(plan)'
      /\ \A i \in Ids : F[i].form # "none" \/ master[i] # "none" => master'[i] # "none"
      /\ \A i \in Locals : "part" \in {F[i].form, master[i]} => master'[i] = "part"
      /\ \A i \in Ids :
             F[i].form = "candidate" \/ (ranks[i] = 50 /\ master[i] = "candidate")
                 => master'[i] = "candidate" /\ plan[i] = 50
  BY <1>1, <1>4, <1>5, MergedFiles
<1>7. UNCHANGED <<status, output, saved, view, cache, pass, crashes>>
  BY DEF Ingest
<1>8. \A r \in Collectors : pass[r].step \notin {"ranks", "view", "cache"}
  BY <1>5, ActorsAssumption DEF Inv, Exclusive
<1>9. DatasetTypeOK'
  BY <1>5, <1>6, <1>7 DEF DatasetTypeOK
<1>10. Exclusive'
  BY <1>5, <1>7, <1>8 DEF Exclusive
<1>11. Frames'
  BY <1>7 DEF Inv, Frames, FrameOK, RowOK, Row
<1>12. Plans'
  BY <1>5, <1>6, <1>7, <1>8 DEF Plans
<1>13. Listings'
  BY <1>7 DEF Inv, Listings
<1>14. Promised'
  <2> SUFFICES ASSUME NEW r \in Collectors PROVE Kept(pass[r])'
    BY DEF Promised
  <2>1. pass'[r] = pass[r] /\ pass[r] \in Pass /\ Kept(pass[r])
    BY <1>7 DEF Inv, Promised, DatasetTypeOK
  <2> QED
    BY <1>6, <1>7, <2>1 DEF Kept, Pass, Ids
<1>15. Cached'
  BY <1>6, <1>7 DEF Inv, Cached, DatasetTypeOK, Ids
<1>16. Round'
  <2>1. Verified' = Verified /\ Verified \subseteq Ids
    BY <1>7, ActorsAssumption DEF Verified, Ids
  <2>2. \A c \in Verified : F[c].form = "candidate"
    BY <1>2, <2>1
  <2>3. \A c \in Verified : master'[c] = "candidate" /\ plan[c] = 50
    BY <1>6, <2>1, <2>2
  <2> QED
    BY <1>5, <1>7, <2>1, <2>3 DEF Inv, Round
<1> QED
  BY <1>6, <1>9, <1>10, <1>11, <1>12, <1>13, <1>14, <1>15, <1>16 DEF Inv

LEMMA IngestRanksKeeps == ASSUME Inv, IngestRanks PROVE Inv'
<1> USE DEF outside
<1>1. /\ driver.step = "ranks" /\ lock = Driver /\ PlanOK(driver.plan)
      /\ ranks' = driver.plan /\ ranks' \in [Ids -> 0 .. 50] /\ lock' = Nobody
      /\ driver' = [step |-> "save", plan |-> Off.plan]
      /\ UNCHANGED <<status, output, saved, master, view, cache, pass, crashes>>
  BY DEF IngestRanks, Inv, DatasetTypeOK, Exclusive, Plans
<1>2. \A r \in Collectors : pass[r].step \notin {"ranks", "view", "cache"}
  BY <1>1, ActorsAssumption DEF Inv, Exclusive
<1>3. DatasetTypeOK'
  BY <1>1, OffTyped DEF Inv, DatasetTypeOK, Pass
<1>4. Exclusive' /\ Plans'
  BY <1>1, <1>2 DEF Exclusive, Plans
<1>5. Frames'
  BY <1>1 DEF Inv, Frames, FrameOK, RowOK, Row
<1>6. RanksBacked' /\ Locally'
  BY <1>1 DEF Inv, RanksBacked, Locally, LocalRow, PlanOK
<1>7. Listings' /\ Promised' /\ Cached'
  BY <1>1 DEF Inv, Listings, Promised, Kept, Cached
<1>8. Round'
  BY <1>1, <1>2 DEF Inv, Round, Verified
<1> QED
  BY <1>3, <1>4, <1>5, <1>6, <1>7, <1>8 DEF Inv

-----------------------------------------------------------------------------
(* The theorems                                                             *)

LEMMA InitInv == Init => Inv
<1> SUFFICES ASSUME Init PROVE Inv
  OBVIOUS
<1>1. Off \in Pass /\ FrameOK(Off.frame) /\ Kept(Off) /\ Off.step = "off"
  BY OffTyped, OffKept
<1>2. \A p \in Collectors : pass[p] = Off
  BY DEF Init
<1>3. DatasetTypeOK
  BY <1>1, ActorsAssumption DEF Init, DatasetTypeOK, Pass, Ended, Forms
<1>4. Exclusive /\ Plans /\ Round
  BY <1>1, <1>2 DEF Init, Exclusive, Plans, Round
<1>5. Frames /\ Promised /\ Listings
  BY <1>1, <1>2 DEF Init, Frames, Promised, Listings
<1>6. RanksBacked /\ Locally /\ Cached
  BY DEF Init, RanksBacked, Authority, Locally, LocalRow, Cached, Ids
<1> QED
  BY <1>3, <1>4, <1>5, <1>6 DEF Inv

LEMMA NextKeeps == Inv /\ [Next]_vars => Inv'
<1> SUFFICES ASSUME Inv, [Next]_vars PROVE Inv'
  OBVIOUS
<1>1. ASSUME NEW t \in Tasks, Emit(t) \/ End(t) PROVE Inv'
  BY <1>1, EmitKeeps, EndKeeps
<1>2. ASSUME NEW i \in Locals, Save(i) PROVE Inv'
  BY <1>2, SaveKeeps
<1>3. ASSUME NEW p \in Collectors, Reads(p) PROVE Inv'
  BY <1>3, ListKeeps, FetchKeeps DEF Reads
<1>4. ASSUME NEW p \in Collectors, Writes(p) PROVE Inv'
  BY <1>4, RefuseKeeps, UnchangedKeeps, MergeKeeps, InstallRanksKeeps, InstallViewKeeps,
     CommitKeeps DEF Writes
<1>5. ASSUME NEW p \in Collectors, Crash(p) PROVE Inv'
  BY <1>5, CrashKeeps
<1>6. CASE Ingests \/ DriverCrash
  BY <1>6, WaitKeeps, IngestKeeps, IngestRanksKeeps, CheckKeeps, DriverCrashKeeps DEF Ingests
<1>7. CASE UNCHANGED vars
  <2>1. /\ status' \in [Tasks -> {"running"} \cup Ended]
        /\ output' \in [Tasks -> SUBSET {"json", "csv"}]
        /\ saved' \in [Locals -> SUBSET {"local", "part"}]
        /\ status' = status /\ output' = output
        /\ UNCHANGED <<master, ranks, view, cache, lock, pass, driver, crashes>>
    BY <1>7 DEF vars, outside, Inv, DatasetTypeOK
  <2> QED
    BY <2>1, OutsideStep
<1> QED
  BY <1>1, <1>2, <1>3, <1>4, <1>5, <1>6, <1>7 DEF Next

LEMMA Invariance == Spec => []Inv
  BY InitInv, NextKeeps, PTL DEF Spec

\* The files, the passes and the driver have the states that the module lists.
THEOREM DatasetTyping == Spec => []DatasetTypeOK
<1>1. Inv => DatasetTypeOK
  BY DEF Inv
<1> QED
  BY <1>1, Invariance, PTL

\* source_ranks.parquet never claims for a row an authority that the row lacks: between
\* the two replacements it claims too little, and a writer that overlaps cannot change that.
THEOREM Backed == Spec => []RanksBacked
<1>1. Inv => RanksBacked
  BY DEF Inv
<1> QED
  BY <1>1, Invariance, PTL

\* collect_cache.json never names a task or a part whose row is not in train.parquet, and
\* the rows of a finished round stay as the driver ingested them.
THEOREM NothingIsLost == Spec => []CollectedIsKept
<1>1. Inv => CollectedIsKept
  BY DEF Inv, Cached, Round, CollectedIsKept, Rank
<1> QED
  BY <1>1, Invariance, PTL
=============================================================================
