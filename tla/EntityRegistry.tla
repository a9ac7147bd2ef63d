--------------------------- MODULE EntityRegistry ---------------------------
(***************************************************************************)
(* The table of rpc_entity objects (src/tinyrpc.cpp): the global vector    *)
(* `entitys', through which process() of both sides finds the object a     *)
(* command is for, and the id each object keeps of its own place in it.    *)
(*                                                                         *)
(* clear_entities shrinks the vector and leaves its storage: a write of    *)
(* null through an id from before, at a place beyond the end, is lost,     *)
(* because the places are made anew when the vector grows again.           *)
(***************************************************************************)
EXTENDS Naturals

CONSTANTS Entities,    \* rpc_entity objects
          MaxId,       \* bound on the ids
          Null,        \* nullptr
          Reserved,    \* the pointer -1: a place taken by no object yet
          NoId         \* the id -1 of an object without a place

ASSUME MaxIdAssumption == MaxId \in Nat

ASSUME PlaceholderAssumption ==
  /\ Null \notin Entities
  /\ Reserved \notin Entities
  /\ Null # Reserved
  /\ NoId \notin Nat

VARIABLES
  size,       \* entitys.size()
  entitys,    \* the places 0 .. MaxId; those from `size' on do not exist
  thisId,     \* _thisId of each object
  alive,      \* objects that have been constructed and not destroyed
  conduct     \* history: how the program has used ids so far (see Next)

vars == <<size, entitys, thisId, alive, conduct>>

Ids == 0 .. MaxId
Places == 0 .. size - 1

\* Defect for mutation testing: the vector starts empty.
InitEmpty == /\ size = 0
             /\ entitys = [i \in Ids |-> Null]
             /\ thisId = [e \in Entities |-> NoId]
             /\ alive = {}
             /\ conduct = "careful"

\* One place, that of id 0, is reserved for good.
Init == /\ size = 1
        /\ entitys = [i \in Ids |-> IF i = 0 THEN Reserved ELSE Null]
        /\ thisId = [e \in Entities |-> NoId]
        /\ alive = {}
        /\ conduct = "careful"

\* Defect for mutation testing: the place after the object's is cleared.
ClearedNext(e) ==
  [i \in Ids |-> IF thisId[e] \in Ids /\ i = thisId[e] + 1 THEN Null ELSE entitys[i]]

\* entitys[_thisId] = nullptr, the first thing set_id, allocate_id_and_set
\* and the destructor do; nothing looks at what the place holds.
Cleared(e) == [i \in Ids |-> IF i = thisId[e] THEN Null ELSE entitys[i]]

Construct(e) ==
  /\ e \notin alive
  /\ alive' = alive \cup {e}
  /\ thisId' = [thisId EXCEPT ![e] = NoId]
  /\ UNCHANGED <<size, entitys>>

\* set_id(id) up to its test: the old place is given up, the vector grows.
SetIdPrefix(e, id) ==
  /\ e \in alive
  /\ thisId' = [thisId EXCEPT ![e] = id]
  /\ size' = IF size <= id THEN id + 1 ELSE size
  /\ UNCHANGED alive

Collides(e, id) == Cleared(e)[id] \notin {Null, Reserved}

SetId(e, id) ==
  /\ SetIdPrefix(e, id)
  /\ ~Collides(e, id)
  /\ entitys' = [Cleared(e) EXCEPT ![id] = e]

\* "entity collision detetcion": set_id throws, with the new id kept.
SetIdThrows(e, id) ==
  /\ SetIdPrefix(e, id)
  /\ Collides(e, id)
  /\ entitys' = Cleared(e)

\* find_empty_entity on a table: the first null place, or a new one.
IsEmptyPlace(table, id) ==
  \/ /\ id \in Places
     /\ table[id] = Null
     /\ \A i \in Places : table[i] = Null => id <= i
  \/ /\ id = size
     /\ \A i \in Places : table[i] # Null

\* Defect for mutation testing: the place found is not marked as taken.
FindEmptyEntityUnmarked(table, id) ==
  /\ IsEmptyPlace(table, id)
  /\ entitys' = table
  /\ size' = IF id = size THEN size + 1 ELSE size

FindEmptyEntity(table, id) ==
  /\ IsEmptyPlace(table, id)
  /\ entitys' = [table EXCEPT ![id] = Reserved]
  /\ size' = IF id = size THEN size + 1 ELSE size

\* allocate_id(): the id goes to the program, the place stays reserved.
AllocateId ==
  /\ \E id \in Ids : FindEmptyEntity(entitys, id)
  /\ UNCHANGED <<thisId, alive>>

\* allocate_id_and_set(): the object takes the id; the place stays reserved
\* and never points at the object.
AllocateIdAndSet(e) ==
  /\ e \in alive
  /\ \E id \in Ids : /\ FindEmptyEntity(Cleared(e), id)
                     /\ thisId' = [thisId EXCEPT ![e] = id]
  /\ UNCHANGED alive

\* Defect for mutation testing: the destructor leaves the place as it is.
ClearedByNone(D) == entitys

\* The places after the objects of D are destroyed, each clearing its own.
ClearedBy(D) ==
  [i \in Ids |-> IF i \in {thisId[e] : e \in D} THEN Null ELSE entitys[i]]

Destroy(e) ==
  /\ e \in alive
  /\ entitys' = ClearedBy({e})
  /\ alive' = alive \ {e}
  /\ UNCHANGED <<size, thisId>>

Registered == {e \in Entities : \E i \in Places \ {0} : entitys[i] = e}

\* clear_entities(): on_deleted of every registered object, of which those
\* of D delete themselves; then only place 0 is left.  A reserved place
\* makes the loop call through the pointer -1: such a call has no defined
\* outcome and is not a step.
ClearEntities(D) ==
  /\ D \subseteq Registered
  /\ \A i \in Places \ {0} : entitys[i] # Reserved
  /\ alive' = alive \ D
  /\ size' = 1
  /\ entitys' = [i \in Ids |-> IF i = 0 THEN ClearedBy(D)[0] ELSE Null]
  /\ UNCHANGED thisId

Common(e) == Construct(e) \/ AllocateIdAndSet(e) \/ Destroy(e)

\* What a careful program does: it asks for no id that another object has nor
\* for id 0, and its objects delete themselves in on_deleted (those not in
\* the table lose their id before).
CarefulNext ==
  \/ \E e \in Entities : Common(e)
  \/ \E e \in Entities, id \in Ids \ {0} :
       /\ \A f \in alive \ {e} : thisId[f] # id
       /\ SetId(e, id)
  \/ AllocateId
  \/ /\ \A e \in alive \ Registered : thisId[e] = NoId
     /\ ClearEntities(Registered)

\* The program is careful, or has so far done nothing worse than ask for a
\* place in use and catch the exception, or does anything it likes.
Next ==
  \/ CarefulNext /\ UNCHANGED conduct
  \/ /\ \E e \in Entities, id \in Ids : SetIdThrows(e, id)
     /\ conduct' = IF conduct = "careful" THEN "catching" ELSE conduct
  \/ /\ \/ \E e \in Entities, id \in Ids : SetId(e, id)
        \/ \E D \in SUBSET Registered : ClearEntities(D)
     /\ conduct' = "any"

Spec == Init /\ [][Next]_vars

-----------------------------------------------------------------------------
TypeOK ==
  /\ size \in 1 .. MaxId + 1
  /\ entitys \in [Ids -> Entities \cup {Null, Reserved}]
  /\ thisId \in [Entities -> Ids \cup {NoId}]
  /\ alive \subseteq Entities
  /\ conduct \in {"careful", "catching", "any"}

\* Whatever the program does with ids, process() never finds a destroyed
\* object, nor one object in two places: a place that points at an object
\* points at a living one that knows the place as its own (set_id and the
\* destructor clear the place they leave).
NoDangling ==
  \A i \in Ids : entitys[i] \in Entities =>
    entitys[i] \in alive /\ thisId[entitys[i]] = i

\* A careful program's objects keep their ids for themselves: no two have the
\* same, and each has its place, pointing at it or reserved, so that
\* find_empty_entity cannot hand it out again (id 0 neither, which stands for
\* "no object" in a command).
PlaceKept ==
  conduct = "careful" =>
    /\ entitys[0] = Reserved
    /\ \A e \in alive : thisId[e] # NoId =>
         /\ thisId[e] \in Places \ {0}
         /\ entitys[thisId[e]] \in {e, Reserved}
         /\ \A f \in alive \ {e} : thisId[f] # thisId[e]

\* No object that does something for itself takes another from its place.
OthersKept ==
  \A e \in Registered : \A f \in Entities \ {e} :
    (Common(f) \/ \E id \in Ids : SetId(f, id) \/ SetIdThrows(f, id))
      => e \in Registered'

\* In a careful program the object at a place keeps it whatever the other
\* objects do: every write of null goes through some object's _thisId, which
\* is not checked against the place.
Undisturbed == [][conduct' = "careful" => OthersKept]_vars

\* set_id throws "entity collision detetcion" to protect the object at the
\* place: so it should be in a program that lets itself be told by it.
CollisionProtects == [][conduct' # "any" => OthersKept]_vars
=============================================================================
