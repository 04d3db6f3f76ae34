-------------------------- MODULE GenerationStore --------------------------
(***************************************************************************)
(* The content-addressed store of artifact generations                     *)
(* (regression_260707/pipeline/artifacts.py): publishers that copy a       *)
(* directory while others may still be writing to it, concurrent           *)
(* publications of the same content, readers, and power loss.              *)
(*                                                                         *)
(* Contents are version numbers: a write to a source file gives it         *)
(* contents it never had before.  Hashes do not collide, so a generation   *)
(* id is the pair of metadata and inventory it is the hash of, and a file  *)
(* is whole when its contents are those the inventory names.  Metadata     *)
(* stands for kind, parents and metadata together; created_at is left out, *)
(* the id does not depend on it.                                           *)
(*                                                                         *)
(* Staging directories have a dot name, which no reader looks at, and are  *)
(* private to one call: they are part of that call's record, and one that  *)
(* a crash leaves behind is forgotten.                                     *)
(***************************************************************************)
EXTENDS Integers, FiniteSets

CONSTANTS Publishers,   \* processes that publish or load, one call each at a time
          Files,        \* relative paths in the source directory
          Metas,        \* kind, parents and metadata of a publication
          MaxVersion    \* bound: versions of each source file

ASSUME BoundAssumption == MaxVersion \in Nat \ {0}

VARIABLES source,   \* [Files -> 1 .. MaxVersion], the directory being published
          past,     \* every source there ever was (history)
          store,    \* visible generations
          call      \* [Publishers -> Call]

vars == <<source, past, store, call>>

Versions == 1 .. MaxVersion
Lost     == 0           \* no contents: not hashed, not copied, or not intact
Some     == Versions \cup {Lost}

\* sealed: manifest and COMPLETED marker are there and agree.
Generation == [meta : Metas, inventory : [Files -> Some], files : [Files -> Some],
               sealed : BOOLEAN]

Outcomes == {"none",      \* the call has not returned
             "returned",  \* it returned the generation in `answer`
             "refused",   \* load rejected the directory
             "raised"}    \* any other exception, or the process died

Call == [step      : {"idle", "hash", "copy", "install", "load"},
         meta      : Metas,
         listed    : SUBSET Files,
         inventory : [Files -> Some],
         staged    : [Files -> Some],
         outcome   : Outcomes,
         answer    : SUBSET Generation,    \* one element when returned
         from      : [Files -> Versions]]  \* the source when it was called (history)

Before(s, t) == \A f \in Files : s[f] <= t[f]
Nothing      == [f \in Files |-> Lost]
Oldest       == [f \in Files |-> 1]
Names(inventory) == {f \in Files : inventory[f] # Lost}
Whole(g) == g.sealed /\ g.files = g.inventory
Identity(g) == <<g.meta, g.inventory>>
Mine(p) == <<call[p].meta, call[p].inventory>>
Target(id) == {g \in store : Identity(g) = id}
Snapshot(s, L) == [f \in Files |-> IF f \in L THEN s[f] ELSE Lost]

StoreTypeOK ==
    /\ source \in [Files -> Versions]
    /\ past \subseteq [Files -> Versions]
    /\ store \subseteq Generation
    /\ call \in [Publishers -> Call]
    /\ \A p \in Publishers : call[p].answer # {} <=> call[p].outcome = "returned"

Init ==
    /\ source = Oldest /\ past = {Oldest} /\ store = {}
    /\ \E m \in Metas :
          call = [p \in Publishers |->
                     [step |-> "idle", meta |-> m, listed |-> {}, inventory |-> Nothing,
                      staged |-> Nothing, outcome |-> "none", answer |-> {}, from |-> Oldest]]

----------------------------------------------------------------------------
(* Publication                                                             *)

\* The call ends; its staging directory is removed.
Ends(p, outcome, answer) ==
    call' = [call EXCEPT ![p].step = "idle", ![p].outcome = outcome, ![p].answer = answer,
                         ![p].inventory = Nothing, ![p].staged = Nothing]

\* publish_tree: list the source; publish_files refuses an empty list.
Begin(p, m, L) ==
    /\ call[p].step = "idle" /\ L # {}
    /\ call' = [call EXCEPT ![p] = [step |-> "hash", meta |-> m, listed |-> L,
                                    inventory |-> Nothing, staged |-> Nothing,
                                    outcome |-> "none", answer |-> {}, from |-> source]]
    /\ UNCHANGED <<source, past, store>>

\* One file of the inventory pass.
Hash(p, f) ==
    /\ call[p].step = "hash" /\ f \in call[p].listed /\ call[p].inventory[f] = Lost
    /\ call' = [call EXCEPT ![p].inventory[f] = source[f]]
    /\ UNCHANGED <<source, past, store>>

\* The identity is known: a target that exists is loaded, not written.
Lookup(p) ==
    /\ call[p].step = "hash" /\ Names(call[p].inventory) = call[p].listed
    /\ call' = [call EXCEPT ![p].step = IF Target(Mine(p)) = {} THEN "copy" ELSE "load"]
    /\ UNCHANGED <<source, past, store>>

\* Mutant of Copy: a copy that differs is hashed again instead of rejected.
CopyRehashed(p, f) ==
    /\ call[p].step = "copy" /\ f \in call[p].listed /\ call[p].staged[f] = Lost
    /\ call' = [call EXCEPT ![p].staged[f] = source[f], ![p].inventory[f] = source[f]]
    /\ UNCHANGED <<source, past, store>>

\* Mutant of Copy: the copy is not compared with the inventory.
CopyUnverified(p, f) ==
    /\ call[p].step = "copy" /\ f \in call[p].listed /\ call[p].staged[f] = Lost
    /\ call' = [call EXCEPT ![p].staged[f] = source[f]]
    /\ UNCHANGED <<source, past, store>>

\* One file of the copy pass, compared with what was hashed.
Copy(p, f) ==
    /\ call[p].step = "copy" /\ f \in call[p].listed /\ call[p].staged[f] = Lost
    /\ IF source[f] = call[p].inventory[f]
       THEN call' = [call EXCEPT ![p].staged[f] = source[f]]
       ELSE Ends(p, "raised", {})
    /\ UNCHANGED <<source, past, store>>

\* Every file is there: the manifest, and the COMPLETED marker last.
Seal(p) ==
    /\ call[p].step = "copy" /\ Names(call[p].staged) = call[p].listed
    /\ call' = [call EXCEPT ![p].step = "install"]
    /\ UNCHANGED <<source, past, store>>

\* os.replace, which fails on a target that exists: then the winner is loaded.
Install(p) ==
    /\ call[p].step = "install"
    /\ store' = IF Target(Mine(p)) # {} THEN store
                ELSE store \cup {[meta |-> call[p].meta, inventory |-> call[p].inventory,
                                  files |-> call[p].staged, sealed |-> TRUE]}
    /\ call' = [call EXCEPT ![p].step = "load"]
    /\ UNCHANGED <<source, past>>

\* Every byte is authenticated again before the generation is returned.
Load(p) ==
    /\ call[p].step = "load"
    /\ \E g \in Target(Mine(p)) :
          IF Whole(g) THEN Ends(p, "returned", {g}) ELSE Ends(p, "refused", {})
    /\ UNCHANGED <<source, past, store>>

\* Any other error, or the death of the process.
Raise(p) ==
    /\ call[p].step # "idle"
    /\ Ends(p, "raised", {})
    /\ UNCHANGED <<source, past, store>>

\* load called by a consumer on the path of a visible generation.
Fetch(p, g) ==
    /\ call[p].step = "idle" /\ g \in store
    /\ call' = [call EXCEPT ![p].listed = Names(g.inventory), ![p].from = Oldest,
                            ![p].outcome = IF Whole(g) THEN "returned" ELSE "refused",
                            ![p].answer = IF Whole(g) THEN {g} ELSE {}]
    /\ UNCHANGED <<source, past, store>>

----------------------------------------------------------------------------
(* The environment                                                         *)

\* Whoever writes to the source goes on writing.
Write(f) ==
    /\ source[f] < MaxVersion
    /\ source' = [source EXCEPT ![f] = @ + 1]
    /\ past' = past \cup {source'}
    /\ UNCHANGED <<store, call>>

\* Nothing is synced: a power loss may leave a generation visible of which some
\* files, or else the manifest or marker, never reached the disk.  All processes die.
PowerLoss(g, F) ==
    /\ g \in store /\ Whole(g) /\ F \subseteq Names(g.inventory)
    /\ store' = (store \ {g}) \cup
                    {[g EXCEPT !.files = [f \in Files |-> IF f \in F THEN Lost ELSE @[f]],
                               !.sealed = F # {}]}
    /\ call' = [p \in Publishers |->
                   [call[p] EXCEPT !.step = "idle", !.outcome = "raised", !.answer = {},
                                   !.inventory = Nothing, !.staged = Nothing]]
    /\ UNCHANGED <<source, past>>

PublisherStep(p) ==
    \/ \E f \in Files : Hash(p, f) \/ Copy(p, f)
    \/ Lookup(p) \/ Seal(p) \/ Install(p) \/ Load(p)

Next ==
    \/ \E p \in Publishers :
          \/ PublisherStep(p) \/ Raise(p)
          \/ \E m \in Metas, L \in SUBSET Files : Begin(p, m, L)
          \/ \E g \in store : Fetch(p, g)
    \/ \E f \in Files : Write(f)
    \/ \E g \in store, F \in SUBSET Files : PowerLoss(g, F)

Spec == Init /\ [][Next]_vars

----------------------------------------------------------------------------
(* Properties                                                              *)

\* What a call returns is the source as it was at one moment, never a mixture of
\* two: for a publication a moment after the call, also when an older generation
\* or the winner of a race is returned in place of what it staged.
AnswerIsSnapshot ==
    \A p \in Publishers : \A g \in call[p].answer :
        \E s \in past : /\ Before(call[p].from, s)
                        /\ g.files = Snapshot(s, call[p].listed)

Damaged == {g \in store : ~ Whole(g)}

\* Only power loss makes a visible generation incomplete: what publishers install
\* is complete, and as long as nothing is damaged, no publisher, loser of a race
\* or reader is refused.
VisibleIsWhole ==
    [][/\ \/ store' = store
          \/ \E g \in store' : Whole(g) /\ store' = store \cup {g}
          \/ \E g \in store, F \in SUBSET Files : PowerLoss(g, F)
       /\ \A p \in Publishers :
             call'[p].outcome = "refused" => call[p].outcome = "refused" \/ Damaged # {}]_vars
=============================================================================
