----------------------------- MODULE MemoryStore -----------------------------
(* Trajectory records that lose fidelity step by step, prototypes folded     *)
(* from them, and rules promoted from those; in the in-memory backend and in *)
(* the RuVector one, whose calls may fail.  A latent is only the number of   *)
(* lossy steps behind it; so is the reconstruction error.                    *)
EXTENDS Integers, FiniteSets

CONSTANTS Ids,
          CausalValues, CausalNaN,   \* causal values: numbers, and the one that is none
          RawFloor,                  \* raw_tier_causal_floor
          Offers,                    \* what callers store: [fidelity, error, parents]
          PromotionUses,             \* rule_promotion_uses
          MaxFailures                \* bound of the model: failures of the backend

ASSUME MemoryAssumption ==
    /\ CausalValues \subseteq Int /\ RawFloor \in Int /\ CausalNaN \notin Int
    /\ \A o \in Offers : o \in [fidelity : 0 .. 3, error : Nat, parents : {o.parents}]

\* Fidelity, dearest first.
Raw == 0
Compressed == 1
Prototype == 2
Rule == 3

VARIABLES backend,    \* "memory" or "ruvector"
          records,    \* by id: [fidelity, error, causal, parents, folded, born];
                      \* history: folded by promote_to_prototype(), and born when
          rules,      \* ids the symbolic rules were promoted from
          replacing,  \* a set: the record whose old version RuVector has deleted
          born, failures,
          lost        \* history: ids whose record a failed replace took away

memoryVars == <<backend, records, rules, replacing, born, failures, lost>>

MemoryInit == /\ backend \in {"memory", "ruvector"}
              /\ records = [id \in {} |-> 0]
              /\ rules = {} /\ replacing = {}
              /\ born = 0 /\ failures = 0 /\ lost = {}

Stored == DOMAIN records
With(id, record) == [i \in Stored \union {id} |-> IF i = id THEN record ELSE records[i]]
Without(id) == [i \in Stored \ {id} |-> records[i]]

Causals == CausalValues \union {CausalNaN}

\* admit_fidelity() refuses what is less than the floor; NaN is not.
BelowFloor(causal) == causal # CausalNaN /\ causal < RawFloor
Admits(record) == ~(record.fidelity = Raw /\ BelowFloor(record.causal))

\* RuVector keeps records as JSON, which has no NaN: get_record() fails on one.
Readable(id) == backend = "memory" \/ records[id].causal # CausalNaN

\* store(): refused when the id is taken; no other call runs during a replace.
StoreRecord(id, record) == /\ replacing = {}
                           /\ id \notin Stored
                           /\ Admits(record)
                           /\ records' = With(id, record)
                           /\ born' = born + 1
                           /\ lost' = lost \ {id}
                           /\ UNCHANGED <<backend, rules, replacing, failures>>

New(fidelity, error, causal, parents, folded) ==
    [fidelity |-> fidelity, error |-> error, causal |-> causal, parents |-> parents,
     folded |-> folded, born |-> born]

\* A caller stores whatever record it filled in; store_compressed() after one
\* lossy step more.
Store(id, offer, causal) ==
    StoreRecord(id, New(offer.fidelity, offer.error, causal, offer.parents, FALSE))
StoreCompressed(id, offer, causal) ==
    StoreRecord(id, New(Compressed, offer.error + 1, causal, offer.parents, FALSE))

\* The causal value of a prototype is the mean of its members'; member_ids may
\* name one record twice, so one member is enough.
MeanOf(members, causal) ==
    IF \E m \in members : records[m].causal = CausalNaN
      THEN causal = CausalNaN
      ELSE /\ causal # CausalNaN
           /\ \E m \in members : records[m].causal <= causal
           /\ \E m \in members : records[m].causal >= causal

\* promote_to_prototype(): every member must be there.  Mutant: any of them.
MembersKnownSome(members) == members \intersect Stored # {}
MembersKnown(members) == members # {} /\ members \subseteq Stored

PromoteToPrototype(id, members, causal) ==
    /\ MembersKnown(members)
    /\ \A m \in members \intersect Stored : Readable(m)
    /\ MeanOf(members \intersect Stored, causal)
    /\ StoreRecord(id, New(Prototype, 0, causal, members, TRUE))

Coarser(record, target) == [record EXCEPT !.fidelity = target, !.error = @ + 1]

\* compress_to() refuses unless the target is further down.  Mutant: not further up.
FallsOrStays(record, target) == target # record.fidelity
Falls(record, target) == target > record.fidelity

CompressTo(id, target) ==
    /\ replacing = {}
    /\ id \in Stored /\ Readable(id) /\ Falls(records[id], target)
    /\ IF backend = "memory"
         THEN records' = With(id, Coarser(records[id], target)) /\ UNCHANGED replacing
         ELSE \* replace(): the delete
              /\ replacing' = {[id |-> id, record |-> Coarser(records[id], target)]}
              /\ records' = Without(id)
    /\ UNCHANGED <<backend, rules, born, failures, lost>>

\* replace(): the insert, or its failure.
Insert == \E r \in replacing : /\ records' = With(r.id, r.record)
                               /\ replacing' = {}
                               /\ UNCHANGED <<backend, rules, born, failures, lost>>

InsertFails == \E r \in replacing : /\ failures < MaxFailures
                                    /\ failures' = failures + 1
                                    /\ replacing' = {}
                                    /\ lost' = lost \union {r.id}
                                    /\ UNCHANGED <<backend, records, rules, born>>

\* promote_to_rule() of the in-memory store, of any record.
AsRule(record) == [record EXCEPT !.fidelity = Rule]

PromoteToRule(id, uses) == /\ backend = "memory"
                           /\ id \in Stored /\ uses >= PromotionUses
                           /\ records' = With(id, AsRule(records[id]))
                           /\ rules' = rules \union {id}
                           /\ UNCHANGED <<backend, replacing, born, failures, lost>>

MemoryNext == \/ \E id \in Ids, c \in Causals :
                     \/ \E offer \in Offers : Store(id, offer, c) \/ StoreCompressed(id, offer, c)
                     \/ \E members \in SUBSET Ids : PromoteToPrototype(id, members, c)
              \/ \E id \in Ids, target \in {Compressed, Prototype, Rule} : CompressTo(id, target)
              \/ Insert \/ InsertFails
              \/ \E id \in Ids, uses \in {PromotionUses - 1, PromotionUses} : PromoteToRule(id, uses)

MemorySpec == MemoryInit /\ [][MemoryNext]_memoryVars

-----------------------------------------------------------------------------
(* Callers may store records with any parents, but what promote_to_prototype *)
(* folded a record from is there, or was lost to a failed replace, or is just *)
(* being replaced; as long as nothing was lost it is older, so folding makes  *)
(* no circle.  No record below the floor is in the Raw tier, and every        *)
(* symbolic rule names a record that is a rule.                               *)
LineageHeld ==
    /\ \A id \in Stored : records[id].folded =>
           \A p \in records[id].parents :
              \/ p \in Stored /\ (failures = 0 => records[p].born < records[id].born)
              \/ p \in lost
              \/ \E r \in replacing : r.id = p
    /\ \A id \in Stored : records[id].fidelity = Raw => ~BelowFloor(records[id].causal)
    /\ \A id \in rules : id \in Stored /\ records[id].fidelity = Rule

(* Memory only fades: as long as a record is the same one, no call makes it  *)
(* finer, takes error off it or changes where it came from, and none makes   *)
(* it vanish but a replace of the RuVector store.                            *)
OnlyFades ==
    [][\A id \in Stored :
           IF id \in DOMAIN records'
           THEN /\ records'[id].fidelity >= records[id].fidelity
                /\ records'[id].error >= records[id].error
                /\ records'[id].parents = records[id].parents
                /\ records'[id].causal = records[id].causal
           ELSE backend = "ruvector" /\ \E r \in replacing' : r.id = id /\ r.record.fidelity > records[id].fidelity]_memoryVars
=============================================================================
