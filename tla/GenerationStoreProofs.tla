----------------------- MODULE GenerationStoreProofs -----------------------
(* Theorems about GenerationStore, for any number of publishers, files and *)
(* versions, and any power losses.                                         *)
EXTENDS GenerationStore, TLAPS

\* The sources there ever were form a chain that ends in the present one.
Chain ==
    /\ source \in past /\ Oldest \in past
    /\ \A s \in past : Before(s, source)
    /\ \A s, t \in past : Before(s, t) \/ Before(t, s)

\* What a publication has hashed was in the source after it was called.
Hashed(c) ==
    /\ c.from \in past
    /\ c.step \in {"copy", "install", "load"} => Names(c.inventory) = c.listed
    /\ \A f \in Files : c.inventory[f] # Lost => /\ f \in c.listed
                                                /\ c.from[f] <= c.inventory[f]
                                                /\ c.inventory[f] <= source[f]

\* The moment between the two passes: s is not older than what was hashed, and
\* whatever has been copied is of that moment.
Between(c, s) ==
    /\ Before(c.from, s)
    /\ \A f \in Files : /\ c.inventory[f] <= s[f]
                        /\ c.staged[f] # Lost => /\ c.staged[f] = c.inventory[f]
                                                 /\ c.staged[f] = s[f]

Copied(c) ==
    /\ c.step = "idle" => c.inventory = Nothing
    /\ c.step = "hash" => c.staged = Nothing
    /\ c.step \in {"copy", "install"} => \E s \in past : Between(c, s)
    /\ c.step = "install" => Names(c.staged) = c.listed

Calls == \A p \in Publishers : Hashed(call[p]) /\ Copied(call[p])

\* Every identity in the store is that of a source there once was.
Identities ==
    \A g \in store : \E s \in past : g.inventory = Snapshot(s, Names(g.inventory))

\* The inductive invariant.
Inv == StoreTypeOK /\ Chain /\ Calls /\ Identities /\ AnswerIsSnapshot

-----------------------------------------------------------------------------

LEMMA InitInv == Init => Inv
<1> SUFFICES ASSUME Init PROVE Inv
  OBVIOUS
<1> USE BoundAssumption
<1>1. PICK m \in Metas :
        call = [p \in Publishers |->
                  [step |-> "idle", meta |-> m, listed |-> {}, inventory |-> Nothing,
                   staged |-> Nothing, outcome |-> "none", answer |-> {}, from |-> Oldest]]
  BY DEF Init
<1>2. Oldest \in [Files -> Versions] /\ Nothing \in [Files -> Some]
  BY DEF Oldest, Nothing, Versions, Some, Lost
<1>3. StoreTypeOK
  BY <1>1, <1>2 DEF Init, StoreTypeOK, Call, Outcomes
<1>4. Before(Oldest, Oldest)
  BY DEF Before, Oldest
<1>5. Chain
  BY <1>4 DEF Init, Chain
<1>6. Calls
  BY <1>1 DEF Init, Calls, Hashed, Copied, Nothing, Lost, Names
<1>7. Identities /\ AnswerIsSnapshot
  BY <1>1 DEF Init, Identities, AnswerIsSnapshot
<1> QED
  BY <1>3, <1>5, <1>6, <1>7 DEF Inv

\* What the record of a call must satisfy, when s is the present source.
Good(c) ==
    /\ c.answer # {} <=> c.outcome = "returned"
    /\ Hashed(c) /\ Copied(c)
    /\ \A g \in c.answer : \E s \in past : Before(c.from, s) /\ g.files = Snapshot(s, c.listed)

LEMMA CallsAreGood == Inv => \A p \in Publishers : call[p] \in Call /\ Good(call[p])
  BY DEF Inv, StoreTypeOK, Calls, AnswerIsSnapshot, Good

\* A step that only changes one call keeps the invariant if the new record is good.
LEMMA OneCall ==
  ASSUME Inv, NEW p \in Publishers, NEW c \in Call, Good(c),
         call' = [call EXCEPT ![p] = c], UNCHANGED <<source, past, store>>
  PROVE  Inv'
<1>1. \A q \in Publishers : call'[q] = IF q = p THEN c ELSE call[q]
  BY DEF Inv, StoreTypeOK
<1>2. \A q \in Publishers : call'[q] \in Call /\ Good(call'[q])
  BY <1>1, CallsAreGood
<1>3. StoreTypeOK'
  BY <1>2 DEF Inv, StoreTypeOK, Good
<1>4. Chain' /\ Identities'
  BY DEF Inv, Chain, Identities
<1>5. Calls'
  BY <1>2 DEF Calls, Good, Hashed, Copied
<1>6. AnswerIsSnapshot'
  BY <1>2 DEF Good, AnswerIsSnapshot
<1> QED
  BY <1>3, <1>4, <1>5, <1>6 DEF Inv

\* A call that has ended without an answer is good.
LEMMA Ended ==
  ASSUME Inv, NEW p \in Publishers, NEW outcome \in Outcomes, NEW answer \in SUBSET Generation,
         answer # {} <=> outcome = "returned",
         \A g \in answer : \E s \in past : /\ Before(call[p].from, s)
                                           /\ g.files = Snapshot(s, call[p].listed),
         Ends(p, outcome, answer), UNCHANGED <<source, past, store>>
  PROVE  Inv'
<1> DEFINE c == [call[p] EXCEPT !.step = "idle", !.outcome = outcome, !.answer = answer,
                                !.inventory = Nothing, !.staged = Nothing]
<1>1. call[p] \in Call /\ Good(call[p])
  BY CallsAreGood
<1>2. Nothing \in [Files -> Some]
  BY DEF Nothing, Some
<1>3. c \in Call
  BY <1>1, <1>2 DEF Call
<1>4. /\ c.step = "idle" /\ c.outcome = outcome /\ c.answer = answer /\ c.inventory = Nothing
      /\ c.from = call[p].from /\ c.listed = call[p].listed
  BY <1>1 DEF Call
<1>5. Good(c)
  BY <1>1, <1>4 DEF Good, Hashed, Copied, Nothing
<1>6. call' = [call EXCEPT ![p] = c]
  BY DEF Ends
<1> QED
  BY <1>3, <1>5, <1>6, OneCall

LEMMA BeforeIsReflexive == ASSUME NEW s \in [Files -> Versions] PROVE Before(s, s)
  BY BoundAssumption DEF Before, Versions

LEMMA BeginStep ==
  ASSUME Inv, NEW p \in Publishers, NEW m \in Metas, NEW L \in SUBSET Files, Begin(p, m, L)
  PROVE  Inv'
<1> DEFINE c == [step |-> "hash", meta |-> m, listed |-> L, inventory |-> Nothing,
                 staged |-> Nothing, outcome |-> "none", answer |-> {}, from |-> source]
<1>1. c \in Call
  BY DEF Inv, StoreTypeOK, Call, Outcomes, Nothing, Some
<1>2. Good(c)
  BY DEF Inv, Chain, Good, Hashed, Copied, Nothing
<1>3. call' = [call EXCEPT ![p] = c] /\ UNCHANGED <<source, past, store>>
  BY DEF Begin
<1> QED
  BY <1>1, <1>2, <1>3, OneCall

LEMMA HashStep ==
  ASSUME Inv, NEW p \in Publishers, NEW f \in Files, Hash(p, f)
  PROVE  Inv'
<1> DEFINE c == [call[p] EXCEPT !.inventory[f] = source[f]]
<1>1. call[p] \in Call /\ Good(call[p]) /\ call[p].step = "hash"
  BY CallsAreGood DEF Hash
<1>2. source \in [Files -> Versions] /\ source[f] # Lost /\ call[p].from[f] <= source[f]
  BY <1>1, BoundAssumption DEF Inv, StoreTypeOK, Versions, Lost, Chain, Good, Hashed, Before
<1>3. c \in Call
  BY <1>1, <1>2 DEF Call, Some
<1>4. /\ c.step = "hash" /\ c.from = call[p].from /\ c.listed = call[p].listed
      /\ c.outcome = call[p].outcome /\ c.answer = call[p].answer
      /\ \A e \in Files : c.inventory[e] = IF e = f THEN source[f] ELSE call[p].inventory[e]
  BY <1>1 DEF Call
<1>5. Hashed(c)
  BY <1>1, <1>2, <1>4, BoundAssumption DEF Good, Hashed, Hash, Versions
<1>6. Good(c)
  BY <1>1, <1>4, <1>5 DEF Good, Copied
<1>7. call' = [call EXCEPT ![p] = c] /\ UNCHANGED <<source, past, store>>
  BY DEF Hash
<1> QED
  BY <1>3, <1>6, <1>7, OneCall

\* The source of the moment at which the last file was hashed lies between.
LEMMA LookupStep ==
  ASSUME Inv, NEW p \in Publishers, Lookup(p)
  PROVE  Inv'
<1> DEFINE step == IF Target(Mine(p)) = {} THEN "copy" ELSE "load"
           c == [call[p] EXCEPT !.step = step]
<1>1. call[p] \in Call /\ Good(call[p]) /\ call[p].step = "hash"
  BY CallsAreGood DEF Lookup
<1>2. c \in Call
  BY <1>1 DEF Call
<1>3. /\ c.step \in {"copy", "load"} /\ c.from = call[p].from /\ c.listed = call[p].listed
      /\ c.outcome = call[p].outcome /\ c.answer = call[p].answer
      /\ c.inventory = call[p].inventory /\ c.staged = Nothing
  BY <1>1 DEF Call, Good, Copied
<1>4. Hashed(c)
  BY <1>1, <1>3 DEF Lookup, Good, Hashed
<1>5. \A f \in Files : c.inventory[f] <= source[f]
  BY <1>3, <1>4, <1>1, BoundAssumption
     DEF Hashed, Inv, StoreTypeOK, Versions, Call, Some, Lost
<1>6. Between(c, source)
  BY <1>4, <1>5, <1>3 DEF Hashed, Inv, Chain, Between, Nothing
<1>7. Copied(c)
  BY <1>3, <1>6 DEF Inv, Chain, Copied
<1>8. Good(c)
  BY <1>1, <1>3, <1>4, <1>7 DEF Good
<1>9. call' = [call EXCEPT ![p] = c] /\ UNCHANGED <<source, past, store>>
  BY DEF Lookup
<1> QED
  BY <1>2, <1>8, <1>9, OneCall

\* A copy that equals what was hashed is of every moment in between.
LEMMA CopyStep ==
  ASSUME Inv, NEW p \in Publishers, NEW f \in Files, Copy(p, f)
  PROVE  Inv'
<1> DEFINE c == [call[p] EXCEPT !.staged[f] = source[f]]
<1>1. call[p] \in Call /\ Good(call[p]) /\ call[p].step = "copy"
  BY CallsAreGood DEF Copy
<1>2. UNCHANGED <<source, past, store>>
  BY DEF Copy
<1>3. CASE source[f] # call[p].inventory[f]
  BY <1>2, <1>3, Ended DEF Copy, Outcomes
<1>4. CASE source[f] = call[p].inventory[f]
  <2>1. source \in [Files -> Versions] /\ past \subseteq [Files -> Versions]
    BY DEF Inv, StoreTypeOK
  <2>2. c \in Call
    BY <1>1, <2>1 DEF Call, Some
  <2>3. /\ c.step = "copy" /\ c.from = call[p].from /\ c.listed = call[p].listed
        /\ c.outcome = call[p].outcome /\ c.answer = call[p].answer
        /\ c.inventory = call[p].inventory
        /\ \A e \in Files : c.staged[e] = IF e = f THEN source[f] ELSE call[p].staged[e]
    BY <1>1 DEF Call
  <2>4. PICK s \in past : Between(call[p], s)
    BY <1>1 DEF Good, Copied
  <2>5. source[f] = s[f]
    <3>1. s[f] <= source[f] /\ call[p].inventory[f] <= s[f]
      BY <2>4 DEF Between, Inv, Chain, Before
    <3>2. s[f] \in Int /\ source[f] \in Int
      BY <2>1, BoundAssumption DEF Versions
    <3> QED
      BY <3>1, <3>2, <1>4
  <2>6. Between(c, s)
    BY <2>3, <2>4, <2>5, <1>4 DEF Between
  <2>7. Good(c)
    BY <1>1, <2>3, <2>6 DEF Good, Copied, Hashed
  <2>8. call' = [call EXCEPT ![p] = c]
    BY <1>4 DEF Copy
  <2> QED
    BY <2>2, <2>7, <2>8, <1>2, OneCall
<1> QED
  BY <1>3, <1>4

LEMMA SealStep ==
  ASSUME Inv, NEW p \in Publishers, Seal(p)
  PROVE  Inv'
<1> DEFINE c == [call[p] EXCEPT !.step = "install"]
<1>1. call[p] \in Call /\ Good(call[p]) /\ call[p].step = "copy"
  BY CallsAreGood DEF Seal
<1>2. c \in Call
  BY <1>1 DEF Call
<1>3. /\ c.step = "install" /\ c.from = call[p].from /\ c.listed = call[p].listed
      /\ c.outcome = call[p].outcome /\ c.answer = call[p].answer
      /\ c.inventory = call[p].inventory /\ c.staged = call[p].staged
  BY <1>1 DEF Call
<1>4. Hashed(c)
  BY <1>1, <1>3 DEF Good, Hashed
<1>5. Copied(c)
  BY <1>1, <1>3 DEF Good, Copied, Between, Seal
<1>6. Good(c)
  BY <1>1, <1>3, <1>4, <1>5 DEF Good
<1>7. call' = [call EXCEPT ![p] = c] /\ UNCHANGED <<source, past, store>>
  BY DEF Seal
<1> QED
  BY <1>2, <1>6, <1>7, OneCall

\* A publication that gets this far has a source that lies between its passes,
\* and installs that source.
LEMMA InstallStep ==
  ASSUME Inv, NEW p \in Publishers, Install(p)
  PROVE  Inv'
<1> DEFINE c == [call[p] EXCEPT !.step = "load"]
           g == [meta |-> call[p].meta, inventory |-> call[p].inventory,
                 files |-> call[p].staged, sealed |-> TRUE]
<1>1. call[p] \in Call /\ Good(call[p]) /\ call[p].step = "install"
  BY CallsAreGood DEF Install
<1>2. c \in Call
  BY <1>1 DEF Call
<1>3. /\ c.step = "load" /\ c.from = call[p].from /\ c.listed = call[p].listed
      /\ c.outcome = call[p].outcome /\ c.answer = call[p].answer
      /\ c.inventory = call[p].inventory
  BY <1>1 DEF Call
<1>4. Good(c)
  BY <1>1, <1>3 DEF Good, Hashed, Copied
<1>5. call' = [call EXCEPT ![p] = c] /\ UNCHANGED <<source, past>>
      /\ store' \in {store, store \cup {g}}
  BY DEF Install
<1>6. \A q \in Publishers : call'[q] = IF q = p THEN c ELSE call[q]
  BY <1>5 DEF Inv, StoreTypeOK
<1>7. \A q \in Publishers : call'[q] \in Call /\ Good(call'[q])
  BY <1>2, <1>4, <1>6, CallsAreGood
<1>8. g \in Generation
  BY <1>1 DEF Call, Generation
<1>9. \E s \in past : g.inventory = Snapshot(s, Names(g.inventory))
  <2>1. PICK s \in past : Between(call[p], s)
    BY <1>1 DEF Good, Copied
  <2>2. /\ Names(call[p].staged) = call[p].listed
        /\ Names(call[p].inventory) = call[p].listed
    BY <1>1 DEF Good, Copied, Hashed
  <2>3. call[p].inventory \in [Files -> Some]
    BY <1>1 DEF Call
  <2>4. \A f \in Files : call[p].inventory[f]
                          = IF f \in Names(call[p].inventory) THEN s[f] ELSE Lost
    BY <2>1, <2>2 DEF Between, Names
  <2>5. call[p].inventory = Snapshot(s, Names(call[p].inventory))
    BY <2>3, <2>4 DEF Snapshot
  <2> QED
    BY <2>5
<1>10. StoreTypeOK'
  BY <1>5, <1>7, <1>8 DEF Inv, StoreTypeOK, Good
<1>11. Identities'
  BY <1>5, <1>9 DEF Inv, Identities
<1>12. Chain' /\ Calls' /\ AnswerIsSnapshot'
  BY <1>5, <1>7 DEF Inv, Chain, Calls, AnswerIsSnapshot, Good, Hashed, Copied
<1> QED
  BY <1>10, <1>11, <1>12 DEF Inv

\* The double collect.  The identity that was hashed is that of a source s in
\* the past.  If s is older than the call, every file still was as in s when the
\* call began; otherwise s itself is a moment after the call.
LEMMA LoadedIsSnapshot ==
  ASSUME Inv, NEW p \in Publishers, NEW g \in Target(Mine(p)), Whole(g),
         call[p].step = "load"
  PROVE  \E s \in past : Before(call[p].from, s) /\ g.files = Snapshot(s, call[p].listed)
<1>1. call[p] \in Call /\ Good(call[p])
  BY CallsAreGood
<1>2. g \in store /\ g.inventory = call[p].inventory /\ g.files = call[p].inventory
  BY DEF Target, Mine, Identity, Whole
<1>3. Names(g.inventory) = call[p].listed
  BY <1>1, <1>2 DEF Good, Hashed
<1>4. PICK s \in past : g.inventory = Snapshot(s, call[p].listed)
  BY <1>2, <1>3 DEF Inv, Identities
<1>5. call[p].from \in past
  BY <1>1 DEF Good, Hashed
<1>6. CASE Before(call[p].from, s)
  BY <1>2, <1>4, <1>6
<1>7. CASE Before(s, call[p].from)
  <2>1. s \in [Files -> Versions] /\ call[p].from \in [Files -> Versions]
    BY <1>5 DEF Inv, StoreTypeOK
  <2>2. ASSUME NEW f \in call[p].listed PROVE s[f] = call[p].from[f]
    <3>1. f \in Files
      BY <1>1 DEF Call
    <3>2. call[p].inventory[f] = s[f] /\ call[p].inventory[f] # Lost
      BY <1>2, <1>3, <1>4, <3>1 DEF Snapshot, Names
    <3>3. call[p].from[f] <= s[f] /\ s[f] <= call[p].from[f]
      BY <1>1, <1>7, <3>1, <3>2 DEF Good, Hashed, Before
    <3>4. s[f] \in Int /\ call[p].from[f] \in Int
      BY <2>1, <3>1, BoundAssumption DEF Versions
    <3> QED
      BY <3>3, <3>4
  <2>3. Snapshot(s, call[p].listed) = Snapshot(call[p].from, call[p].listed)
    BY <2>2 DEF Snapshot
  <2>4. Before(call[p].from, call[p].from)
    BY <2>1, BeforeIsReflexive
  <2> QED
    BY <1>2, <1>4, <1>5, <2>3, <2>4
<1> QED
  BY <1>4, <1>5, <1>6, <1>7 DEF Inv, Chain

LEMMA LoadStep ==
  ASSUME Inv, NEW p \in Publishers, Load(p)
  PROVE  Inv'
<1>1. PICK g \in Target(Mine(p)) :
          IF Whole(g) THEN Ends(p, "returned", {g}) ELSE Ends(p, "refused", {})
  BY DEF Load
<1>2. UNCHANGED <<source, past, store>> /\ call[p].step = "load"
  BY DEF Load
<1>3. CASE Whole(g)
  <2>1. g \in Generation
    BY DEF Target, Inv, StoreTypeOK
  <2>2. \A h \in {g} : \E s \in past : /\ Before(call[p].from, s)
                                       /\ h.files = Snapshot(s, call[p].listed)
    BY <1>2, <1>3, LoadedIsSnapshot
  <2> QED
    BY <1>1, <1>2, <1>3, <2>1, <2>2, Ended DEF Outcomes
<1>4. CASE ~ Whole(g)
  BY <1>1, <1>2, <1>4, Ended DEF Outcomes
<1> QED
  BY <1>3, <1>4

LEMMA RaiseStep ==
  ASSUME Inv, NEW p \in Publishers, Raise(p)
  PROVE  Inv'
  BY Ended DEF Raise, Outcomes

LEMMA FetchStep ==
  ASSUME Inv, NEW p \in Publishers, NEW g \in store, Fetch(p, g)
  PROVE  Inv'
<1> DEFINE c == [call[p] EXCEPT !.listed = Names(g.inventory), !.from = Oldest,
                                !.outcome = IF Whole(g) THEN "returned" ELSE "refused",
                                !.answer = IF Whole(g) THEN {g} ELSE {}]
<1>1. call[p] \in Call /\ Good(call[p]) /\ call[p].step = "idle"
  BY CallsAreGood DEF Fetch
<1>2. g \in Generation /\ past \subseteq [Files -> Versions] /\ Oldest \in past
  BY DEF Inv, StoreTypeOK, Chain
<1>3. Oldest \in [Files -> Versions] /\ Names(g.inventory) \in SUBSET Files
  BY <1>2 DEF Names
<1>4. c \in Call
  BY <1>1, <1>2, <1>3 DEF Call, Outcomes
<1>5. /\ c.step = "idle" /\ c.from = Oldest /\ c.listed = Names(g.inventory)
      /\ c.inventory = Nothing
      /\ c.outcome = IF Whole(g) THEN "returned" ELSE "refused"
      /\ c.answer = IF Whole(g) THEN {g} ELSE {}
  BY <1>1 DEF Call, Good, Copied
<1>6. Hashed(c) /\ Copied(c)
  BY <1>2, <1>5 DEF Hashed, Copied, Nothing
<1>7. PICK s \in past : g.inventory = Snapshot(s, Names(g.inventory))
  BY DEF Inv, Identities
<1>8. Before(Oldest, s)
  BY <1>2, BoundAssumption DEF Before, Oldest, Versions
<1>9. Good(c)
  BY <1>5, <1>6, <1>7, <1>8 DEF Good, Whole
<1>10. call' = [call EXCEPT ![p] = c] /\ UNCHANGED <<source, past, store>>
  BY DEF Fetch
<1> QED
  BY <1>4, <1>9, <1>10, OneCall

\* A write makes the present source later than all that went before.
LEMMA WriteStep ==
  ASSUME Inv, NEW f \in Files, Write(f)
  PROVE  Inv'
<1>1. /\ source' = [source EXCEPT ![f] = @ + 1] /\ past' = past \cup {source'}
      /\ UNCHANGED <<store, call>> /\ source[f] < MaxVersion
  BY DEF Write
<1>2. source \in [Files -> Versions] /\ past \subseteq [Files -> Versions]
  BY DEF Inv, StoreTypeOK
<1>3. source' \in [Files -> Versions]
  BY <1>1, <1>2, BoundAssumption DEF Versions
<1>4. \A e \in Files : source[e] <= source'[e]
  BY <1>1, <1>2, BoundAssumption DEF Versions
<1>5. StoreTypeOK'
  BY <1>1, <1>2, <1>3 DEF Inv, StoreTypeOK
<1>6. \A s \in past' : Before(s, source')
  <2>1. Before(source', source')
    BY <1>3, BeforeIsReflexive
  <2>2. ASSUME NEW s \in past PROVE Before(s, source')
    <3>1. ASSUME NEW e \in Files PROVE s[e] <= source'[e]
      <4>1. s[e] <= source[e]
        BY DEF Inv, Chain, Before
      <4>2. s[e] \in Int /\ source[e] \in Int /\ source'[e] \in Int
        BY <1>2, <1>3, BoundAssumption DEF Versions
      <4> QED
        BY <1>4, <4>1, <4>2
    <3> QED
      BY <3>1 DEF Before
  <2> QED
    BY <1>1, <2>1, <2>2
<1>7. Chain'
  BY <1>1, <1>6 DEF Inv, Chain
<1>8. ASSUME NEW p \in Publishers PROVE Hashed(call[p])'
  <2>1. call[p] \in Call /\ Hashed(call[p])
    BY CallsAreGood DEF Good
  <2>2. ASSUME NEW e \in Files, call[p].inventory[e] # Lost
        PROVE  call[p].inventory[e] <= source'[e]
    <3>1. call[p].inventory[e] \in Int /\ source[e] \in Int /\ source'[e] \in Int
      BY <1>2, <1>3, <2>1, BoundAssumption DEF Call, Some, Lost, Versions
    <3> QED
      BY <1>4, <2>1, <2>2, <3>1 DEF Hashed
  <2> QED
    BY <1>1, <2>1, <2>2 DEF Hashed
<1>9. Calls'
  BY <1>1, <1>8 DEF Inv, Calls, Copied
<1>10. Identities' /\ AnswerIsSnapshot'
  BY <1>1 DEF Inv, Identities, AnswerIsSnapshot
<1> QED
  BY <1>5, <1>7, <1>9, <1>10 DEF Inv

\* A power loss leaves the identity of what it damages.
LEMMA PowerLossStep ==
  ASSUME Inv, NEW g \in store, NEW F \in SUBSET Files, PowerLoss(g, F)
  PROVE  Inv'
<1> DEFINE h == [g EXCEPT !.files = [f \in Files |-> IF f \in F THEN Lost ELSE @[f]],
                          !.sealed = F # {}]
           c(p) == [call[p] EXCEPT !.step = "idle", !.outcome = "raised", !.answer = {},
                                   !.inventory = Nothing, !.staged = Nothing]
<1>1. /\ store' = (store \ {g}) \cup {h} /\ UNCHANGED <<source, past>>
      /\ call' = [p \in Publishers |-> c(p)]
  BY DEF PowerLoss
<1>2. g \in Generation
  BY DEF Inv, StoreTypeOK
<1>3. h \in Generation /\ h.inventory = g.inventory
  BY <1>2 DEF Generation, Some
<1>4. ASSUME NEW p \in Publishers PROVE c(p) \in Call /\ Good(c(p))
  <2>1. call[p] \in Call /\ Good(call[p])
    BY CallsAreGood
  <2>2. c(p) \in Call
    BY <2>1 DEF Call, Outcomes, Nothing, Some
  <2>3. /\ c(p).step = "idle" /\ c(p).outcome = "raised" /\ c(p).answer = {}
        /\ c(p).inventory = Nothing /\ c(p).from = call[p].from
    BY <2>1 DEF Call
  <2> QED
    BY <2>1, <2>2, <2>3 DEF Good, Hashed, Copied, Nothing
<1>5. \A p \in Publishers : call'[p] \in Call /\ Good(call'[p])
  BY <1>1, <1>4
<1>6. StoreTypeOK'
  BY <1>1, <1>3, <1>4, <1>5 DEF Inv, StoreTypeOK, Good
<1>7. Identities'
  BY <1>1, <1>3 DEF Inv, Identities
<1>8. Chain' /\ Calls' /\ AnswerIsSnapshot'
  BY <1>1, <1>5 DEF Inv, Chain, Calls, AnswerIsSnapshot, Good, Hashed, Copied
<1> QED
  BY <1>6, <1>7, <1>8 DEF Inv

\* Every step of every publisher, writer and power loss keeps the invariant.
LEMMA StepInv == Inv /\ [Next]_vars => Inv'
<1> SUFFICES ASSUME Inv, [Next]_vars PROVE Inv'
  OBVIOUS
<1>1. ASSUME NEW p \in Publishers, NEW f \in Files, Hash(p, f) \/ Copy(p, f) PROVE Inv'
  BY <1>1, HashStep, CopyStep
<1>2. ASSUME NEW p \in Publishers, Lookup(p) \/ Seal(p) PROVE Inv'
  BY <1>2, LookupStep, SealStep
<1>3. ASSUME NEW p \in Publishers, Install(p) \/ Load(p) \/ Raise(p) PROVE Inv'
  BY <1>3, InstallStep, LoadStep, RaiseStep
<1>4. ASSUME NEW p \in Publishers, NEW m \in Metas, NEW L \in SUBSET Files, Begin(p, m, L)
      PROVE  Inv'
  BY <1>4, BeginStep
<1>5. ASSUME NEW p \in Publishers, NEW g \in store, Fetch(p, g) PROVE Inv'
  BY <1>5, FetchStep
<1>6. ASSUME NEW f \in Files, Write(f) PROVE Inv'
  BY <1>6, WriteStep
<1>7. ASSUME NEW g \in store, NEW F \in SUBSET Files, PowerLoss(g, F) PROVE Inv'
  BY <1>7, PowerLossStep
<1>8. CASE UNCHANGED vars
  BY <1>8 DEF vars, Inv, StoreTypeOK, Chain, Calls, Identities, AnswerIsSnapshot, Hashed,
              Copied
<1> QED
  BY <1>1, <1>2, <1>3, <1>4, <1>5, <1>6, <1>7, <1>8 DEF Next, PublisherStep

\* The invariant holds in every reachable state.
THEOREM Invariance == Spec => []Inv
  BY InitInv, StepInv, PTL DEF Spec

\* Publications, generations and sources are well formed, and a call has an
\* answer exactly when it returned (publish_files, load).
THEOREM TypeCorrect == Spec => []StoreTypeOK
<1>1. Inv => StoreTypeOK
  BY DEF Inv
<1> QED
  BY <1>1, Invariance, PTL

\* What publish_files or load returns is the published directory at one moment,
\* for a publication a moment after its call: hashing every file before copying
\* any is a double collect, also when an existing generation is returned.
THEOREM Snapshots == Spec => []AnswerIsSnapshot
<1>1. Inv => AnswerIsSnapshot
  BY DEF Inv
<1> QED
  BY <1>1, Invariance, PTL

\* What one step may do to the store and to the refusals.
WholeStep ==
    /\ \/ store' = store
       \/ \E g \in store' : Whole(g) /\ store' = store \cup {g}
       \/ \E g \in store, F \in SUBSET Files : PowerLoss(g, F)
    /\ \A p \in Publishers :
          call'[p].outcome = "refused" => call[p].outcome = "refused" \/ Damaged # {}

\* A call that ends otherwise than refused adds no refusal.
LEMMA EndsOtherwise ==
  ASSUME Inv, NEW p \in Publishers, NEW outcome \in Outcomes \ {"refused"}, NEW answer,
         Ends(p, outcome, answer), UNCHANGED store
  PROVE  WholeStep
<1>1. \A q \in Publishers : call[q] \in Call
  BY CallsAreGood
<1>2. \A q \in Publishers : call'[q].outcome = IF q = p THEN outcome ELSE call[q].outcome
  BY <1>1 DEF Ends, Call, Inv, StoreTypeOK
<1> QED
  BY <1>2 DEF WholeStep

\* Copy compares every file with the inventory, so what Install makes visible is whole.
LEMMA InstallIsWhole ==
  ASSUME Inv, NEW p \in Publishers, Install(p)
  PROVE  WholeStep
<1> DEFINE g == [meta |-> call[p].meta, inventory |-> call[p].inventory,
                 files |-> call[p].staged, sealed |-> TRUE]
<1>1. call[p] \in Call /\ Hashed(call[p]) /\ Copied(call[p]) /\ call[p].step = "install"
  BY CallsAreGood DEF Install, Good
<1>2. PICK s \in past : Between(call[p], s)
  BY <1>1 DEF Copied
<1>3. \A f \in Files : call[p].staged[f] = call[p].inventory[f]
  BY <1>1, <1>2 DEF Hashed, Copied, Between, Names
<1>4. call[p].staged = call[p].inventory
  BY <1>1, <1>3 DEF Call
<1>5. Whole(g)
  BY <1>4 DEF Whole
<1>6. store' = store \/ store' = store \cup {g}
  BY DEF Install
<1>7. \A q \in Publishers : call[q] \in Call
  BY CallsAreGood
<1>8. \A q \in Publishers : call'[q].outcome = call[q].outcome
  BY <1>7 DEF Install, Call, Inv, StoreTypeOK
<1> QED
  BY <1>5, <1>6, <1>8 DEF WholeStep

\* Load and Fetch refuse only what is damaged.
LEMMA RefusedIsDamaged ==
  ASSUME Inv, NEW p \in Publishers,
         Load(p) \/ \E g \in store : Fetch(p, g)
  PROVE  WholeStep
<1>a. \A q \in Publishers : call[q] \in Call
  BY CallsAreGood
<1>b. DOMAIN call = Publishers
  BY DEF Inv, StoreTypeOK
<1>1. CASE Load(p)
  <2>1. PICK g \in Target(Mine(p)) :
            IF Whole(g) THEN Ends(p, "returned", {g}) ELSE Ends(p, "refused", {})
    BY <1>1 DEF Load
  <2>2. UNCHANGED store /\ g \in store
    BY <1>1, <2>1 DEF Load, Target
  <2>3. CASE Whole(g)
    BY <2>1, <2>2, <2>3, EndsOtherwise DEF Outcomes
  <2>4. CASE ~ Whole(g)
    BY <2>2, <2>4 DEF WholeStep, Damaged
  <2> QED
    BY <2>3, <2>4
<1>2. ASSUME NEW g \in store, Fetch(p, g) PROVE WholeStep
  <2>1. UNCHANGED store
    BY <1>2 DEF Fetch
  <2>2. CASE Whole(g)
    <3> DEFINE c == [call[p] EXCEPT !.listed = Names(g.inventory), !.from = Oldest,
                                    !.outcome = "returned", !.answer = {g}]
    <3>1. call' = [call EXCEPT ![p] = c]
      BY <1>2, <2>2 DEF Fetch
    <3>2. c.outcome = "returned"
      BY <1>a DEF Call
    <3> HIDE DEF c
    <3>3. \A q \in Publishers : call'[q].outcome = IF q = p THEN "returned" ELSE call[q].outcome
      BY <3>1, <3>2, <1>b
    <3> QED
      BY <2>1, <3>3 DEF WholeStep
  <2>3. CASE ~ Whole(g)
    BY <2>1, <2>3 DEF WholeStep, Damaged
  <2> QED
    BY <2>2, <2>3
<1> QED
  BY <1>1, <1>2

LEMMA StepIsWhole == Inv /\ [Next]_vars => [WholeStep]_vars
<1> SUFFICES ASSUME Inv, Next PROVE WholeStep
  OBVIOUS
<1>a. \A p \in Publishers : call[p] \in Call
  BY CallsAreGood
<1>b. DOMAIN call = Publishers
  BY DEF Inv, StoreTypeOK
<1>1. ASSUME NEW p \in Publishers, NEW f \in Files, Hash(p, f) PROVE WholeStep
  <2>1. UNCHANGED store /\ \A q \in Publishers : call'[q].outcome = call[q].outcome
    BY <1>1, <1>a, <1>b DEF Hash, Call
  <2> QED
    BY <2>1 DEF WholeStep
<1>2. ASSUME NEW p \in Publishers, NEW f \in Files, Copy(p, f) PROVE WholeStep
  <2>1. CASE source[f] = call[p].inventory[f]
    <3>1. UNCHANGED store /\ \A q \in Publishers : call'[q].outcome = call[q].outcome
      BY <1>2, <2>1, <1>a, <1>b DEF Copy, Call
    <3> QED
      BY <3>1 DEF WholeStep
  <2>2. CASE source[f] # call[p].inventory[f]
    BY <1>2, <2>2, EndsOtherwise DEF Copy, Outcomes
  <2> QED
    BY <2>1, <2>2
<1>3. ASSUME NEW p \in Publishers, Lookup(p) PROVE WholeStep
  <2> DEFINE step == IF Target(Mine(p)) = {} THEN "copy" ELSE "load"
  <2>1. call' = [call EXCEPT ![p].step = step] /\ UNCHANGED store
    BY <1>3 DEF Lookup
  <2> HIDE DEF step
  <2>2. \A q \in Publishers : call'[q].outcome = call[q].outcome
    BY <2>1, <1>a, <1>b DEF Call
  <2> QED
    BY <2>1, <2>2 DEF WholeStep
<1>4. ASSUME NEW p \in Publishers, Seal(p) PROVE WholeStep
  <2>1. UNCHANGED store /\ \A q \in Publishers : call'[q].outcome = call[q].outcome
    BY <1>4, <1>a, <1>b DEF Seal, Call
  <2> QED
    BY <2>1 DEF WholeStep
<1>5. ASSUME NEW p \in Publishers, Install(p) PROVE WholeStep
  BY <1>5, InstallIsWhole
<1>6. ASSUME NEW p \in Publishers, Load(p) \/ \E g \in store : Fetch(p, g) PROVE WholeStep
  BY <1>6, RefusedIsDamaged
<1>7. ASSUME NEW p \in Publishers, Raise(p) PROVE WholeStep
  BY <1>7, EndsOtherwise DEF Raise, Outcomes
<1>8. ASSUME NEW p \in Publishers, NEW m \in Metas, NEW L \in SUBSET Files, Begin(p, m, L)
      PROVE  WholeStep
  <2>1. UNCHANGED store
        /\ \A q \in Publishers : call'[q].outcome = IF q = p THEN "none" ELSE call[q].outcome
    BY <1>8, <1>a, <1>b DEF Begin, Call
  <2> QED
    BY <2>1 DEF WholeStep
<1>9. ASSUME NEW f \in Files, Write(f) PROVE WholeStep
  BY <1>9 DEF Write, WholeStep
<1>10. ASSUME NEW g \in store, NEW F \in SUBSET Files, PowerLoss(g, F) PROVE WholeStep
  <2>1. \A q \in Publishers : call'[q].outcome = "raised"
    BY <1>10, <1>a DEF PowerLoss, Call
  <2> QED
    BY <1>10, <2>1 DEF WholeStep
<1> QED
  BY <1>1, <1>2, <1>3, <1>4, <1>5, <1>6, <1>7, <1>8, <1>9, <1>10 DEF Next, PublisherStep

\* Only power loss makes a visible generation incomplete: neither publish_files
\* nor a race between identical publishers does, and while nothing is damaged
\* neither the loser of such a race nor a reader (load) is refused.
THEOREM Completeness == Spec => VisibleIsWhole
<1>1. Inv /\ [Next]_vars => [WholeStep]_vars
  BY StepIsWhole
<1> QED
  BY <1>1, Invariance, PTL DEF Spec, VisibleIsWhole, WholeStep
=============================================================================
