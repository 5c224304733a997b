--------------------------- MODULE CollectionConsole ---------------------------
(***************************************************************************)
(* Tours and performance groups: collections of Lives that the editors     *)
(* replace as a whole (console_tours.py, console_performance_groups.py,    *)
(* migrations V13 and V14).  A Live is in one tour and one group at most,  *)
(* which a unique index on the Live of the relation enforces.              *)
(***************************************************************************)
EXTENDS LiveConsole

CONSTANT CollectionIds  \* ids of tours and of groups, numbers from 1

ASSUME CollectionConstants ==
    /\ Lives \subseteq Nat /\ CollectionIds \subseteq Nat \ {0}
    /\ IsFiniteSet(Lives) /\ IsFiniteSet(CollectionIds)

VARIABLE collection  \* collection[f][k]: the Lives and bands of a tour or group

Families == {"tour", "group"}
NoCollection == [lives |-> {}, bands |-> {}]
CollectionRow == [lives : SUBSET Lives, bands : SUBSET Bands]

\* What the schemas of the endpoints accept; id 0 is a collection being created.
CollectionKinds == {"create_tour", "update_tour", "create_performance_group", "update_performance_group"}
CollectionRequest(r) ==
    r.kind \in CollectionKinds =>
        /\ r.lives \subseteq Lives /\ r.lives # {} /\ r.bands \subseteq Bands /\ IsFiniteSet(r.bands)
        /\ r.id \in CollectionIds \union {0}
        /\ r.kind \in {"create_tour", "create_performance_group"} => r.id = 0

CollectionInit(s) == collection = s.collections

Family(req) == IF req.kind \in {"create_tour", "update_tour"} THEN "tour" ELSE "group"

\* The other collections that hold the Live.
Owners(f, id, l) == {k \in CollectionIds \ {id} : l \in collection[f][k].lives}

\* The index entry for a Live: an insert waits for the transaction that is
\* adding or removing one.
Slot(f, l) == Lock("update", <<"slot", f, l>>)
RelationLocks(f, l) == <<Slot(f, l), LiveKey(l)>>

\* ORDER BY live_date, start_time, id
CanonicalOrder(lives) ==
    Sorted(lives, {p \in lives \X lives :
        live[p[1]].day < live[p[2]].day \/ (live[p[1]].day = live[p[2]].day /\ p[1] < p[2])})

----------------------------------------------------------------------------
StartCreateCollection(c, req) ==
    /\ req.kind \in {"create_tour", "create_performance_group"}
    /\ Begin(c, req, "validate", <<>>)
    /\ UNCHANGED collection

StartUpdateCollection(c, req) ==
    /\ req.kind \in {"update_tour", "update_performance_group"}
    /\ Begin(c, req, "validate", <<Lock("update", <<Family(req), req.id>>)>>)
    /\ UNCHANGED collection

\* The old relations are deleted before the first insert.
DroppedSlots(f, id) ==
    IF id = 0 THEN <<>>
    ELSE LET old == InOrder(collection[f][id].lives) IN [i \in DOMAIN old |-> Slot(f, old[i])]

BeginInserts(c, order, bandKeys) ==
    LET req == txn[c].req
        f == Family(req)
    IN Continue(c, "insert", [order |-> order, next |-> 1],
                DroppedSlots(f, req.id) \o bandKeys \o RelationLocks(f, order[1]))

\* The Lives are there and in no other collection; an update finds its own row.
RelationsAllowed(req) ==
    LET f == Family(req)
    IN /\ req.id # 0 => collection[f][req.id] # NoCollection
       /\ \A l \in req.lives : Exists(l) /\ Owners(f, req.id, l) = {}

ValidateTour(c) ==
    LET req == txn[c].req
    IN /\ Ready(c, {"create_tour", "update_tour"}, "validate")
       /\ RelationsAllowed(req)
       /\ \A b \in req.bands : Created(b) /\ \E l \in req.lives : b \in EffectiveBands(l)
       /\ BeginInserts(c, CanonicalOrder(req.lives), BandKeys(req.bands))
       /\ UNCHANGED collection

ValidateGroup(c) ==
    LET req == txn[c].req
    IN /\ Ready(c, {"create_performance_group", "update_performance_group"}, "validate")
       /\ RelationsAllowed(req)
       /\ BeginInserts(c, CanonicalOrder(req.lives), <<>>)
       /\ UNCHANGED collection

\* The unique index refuses a Live that another collection has meanwhile.
\* A mutant: the relation has no unique index on the Live.
SlotFreeAlways(c) == txn[c].req.kind \in CollectionKinds

SlotFree(c) ==
    LET req == txn[c].req
    IN Owners(Family(req), req.id, txn[c].seen.order[txn[c].seen.next]) = {}

InsertRelation(c) ==
    LET seen == txn[c].seen
    IN /\ Ready(c, CollectionKinds, "insert")
       /\ seen.next < Len(seen.order)
       /\ SlotFree(c)
       /\ Continue(c, "insert", [seen EXCEPT !.next = @ + 1],
                   RelationLocks(Family(txn[c].req), seen.order[seen.next + 1]))
       /\ UNCHANGED collection

\* The last insert and the commit.
StoreCollection(c) ==
    LET req == txn[c].req
        f == Family(req)
        new == [lives |-> req.lives, bands |-> req.bands]
        free == {k \in CollectionIds : collection[f][k] = NoCollection}
    IN /\ Ready(c, CollectionKinds, "insert")
       /\ txn[c].seen.next = Len(txn[c].seen.order)
       /\ SlotFree(c)
       /\ req.id = 0 => free # {}
       /\ collection' = [collection EXCEPT ![f][IF req.id = 0 THEN InOrder(free)[1] ELSE req.id] = new]
       /\ Finish(c)

CollectionStart(c, req) == StartCreateCollection(c, req) \/ StartUpdateCollection(c, req)

CollectionStep(c) ==
    ValidateTour(c) \/ ValidateGroup(c) \/ InsertRelation(c) \/ StoreCollection(c)
===============================================================================
