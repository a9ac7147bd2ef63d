------------------------ MODULE EntityRegistryProofs ------------------------
(***************************************************************************)
(* Proofs about EntityRegistry, for every set of objects and every number  *)
(* of ids.                                                                 *)
(***************************************************************************)
EXTENDS EntityRegistry, TLAPS

\* The types of all but the history variable.
TableOK ==
  /\ size \in 1 .. MaxId + 1
  /\ entitys \in [Ids -> Entities \cup {Null, Reserved}]
  /\ thisId \in [Entities -> Ids \cup {NoId}]
  /\ alive \subseteq Entities

ConductOK == conduct \in {"careful", "catching", "any"}

\* Nothing survives beyond the end of the vector.
FreshBeyondEnd == \A i \in Ids : i >= size => entitys[i] = Null

\* The inductive invariant, whatever the program does.
IInv == TableOK /\ NoDangling /\ FreshBeyondEnd

LEMMA InitIInv == Init => IInv
BY PlaceholderAssumption, MaxIdAssumption
   DEF Init, IInv, TableOK, NoDangling, FreshBeyondEnd, Ids

\* An object other than e is not at the place e gives up.
LEMMA ClearedKeeps ==
  ASSUME IInv, NEW e \in Entities
  PROVE  /\ Cleared(e) \in [Ids -> Entities \cup {Null, Reserved}]
         /\ \A i \in Ids : Cleared(e)[i] \in Entities =>
              /\ Cleared(e)[i] = entitys[i]
              /\ Cleared(e)[i] # e
              /\ Cleared(e)[i] \in alive
              /\ thisId[Cleared(e)[i]] = i
         /\ \A i \in Ids : i >= size => Cleared(e)[i] = Null
BY PlaceholderAssumption
   DEF IInv, TableOK, NoDangling, FreshBeyondEnd, Cleared

LEMMA SetIdKeepsIInv ==
  ASSUME IInv, NEW e \in Entities, NEW id \in Ids,
         SetId(e, id) \/ SetIdThrows(e, id)
  PROVE  IInv'
<1>1. /\ thisId' = [thisId EXCEPT ![e] = id]
      /\ size' = IF size <= id THEN id + 1 ELSE size
      /\ alive' = alive
      /\ e \in alive
      /\ \/ entitys' = [Cleared(e) EXCEPT ![id] = e]
         \/ entitys' = Cleared(e)
  BY DEF SetId, SetIdThrows, SetIdPrefix
<1>2. TableOK'
  BY <1>1, ClearedKeeps, MaxIdAssumption DEF IInv, TableOK, Ids
<1>3. NoDangling'
  BY <1>1, ClearedKeeps DEF IInv, TableOK, NoDangling
<1>4. FreshBeyondEnd'
  <2>1. id < size' /\ size <= size'
    BY <1>1, MaxIdAssumption DEF IInv, TableOK, Ids
  <2>2. ASSUME NEW i \in Ids, i >= size'
        PROVE  i >= size /\ i # id
    BY <1>2, <2>1, <2>2, MaxIdAssumption DEF IInv, TableOK, Ids
  <2>3. \A i \in Ids : i >= size /\ i # id => entitys'[i] = Null
    BY <1>1, ClearedKeeps DEF IInv
  <2> QED
    BY <2>2, <2>3 DEF FreshBeyondEnd
<1> QED
  BY <1>2, <1>3, <1>4 DEF IInv

\* What the table is after find_empty_entity has taken a place.
LEMMA FindEmptyEntityTaken ==
  ASSUME TableOK, NEW id \in Ids,
         NEW table \in [Ids -> Entities \cup {Null, Reserved}],
         \A i \in Ids : i >= size => table[i] = Null,
         FindEmptyEntity(table, id)
  PROVE  /\ entitys' = [table EXCEPT ![id] = Reserved]
         /\ entitys' \in [Ids -> Entities \cup {Null, Reserved}]
         /\ size' \in 1 .. MaxId + 1
         /\ size <= size'
         /\ id < size'
         /\ table[id] = Null
         /\ FreshBeyondEnd'
BY MaxIdAssumption
   DEF FindEmptyEntity, IsEmptyPlace, TableOK, Places, Ids, FreshBeyondEnd

LEMMA AllocateIdKeepsIInv ==
  ASSUME IInv, AllocateId
  PROVE  IInv'
<1>1. PICK id \in Ids : FindEmptyEntity(entitys, id)
  BY DEF AllocateId
<1>2. /\ entitys' = [entitys EXCEPT ![id] = Reserved]
      /\ entitys' \in [Ids -> Entities \cup {Null, Reserved}]
      /\ size' \in 1 .. MaxId + 1
      /\ FreshBeyondEnd'
  BY <1>1, FindEmptyEntityTaken DEF IInv, TableOK, FreshBeyondEnd
<1>3. TableOK'
  BY <1>2 DEF IInv, TableOK, AllocateId
<1>4. NoDangling'
  BY <1>2, PlaceholderAssumption DEF IInv, TableOK, NoDangling, AllocateId
<1> QED
  BY <1>2, <1>3, <1>4 DEF IInv

LEMMA AllocateIdAndSetKeepsIInv ==
  ASSUME IInv, NEW e \in Entities, AllocateIdAndSet(e)
  PROVE  IInv'
<1>1. PICK id \in Ids : /\ FindEmptyEntity(Cleared(e), id)
                        /\ thisId' = [thisId EXCEPT ![e] = id]
  BY DEF AllocateIdAndSet
<1>2. /\ entitys' = [Cleared(e) EXCEPT ![id] = Reserved]
      /\ entitys' \in [Ids -> Entities \cup {Null, Reserved}]
      /\ size' \in 1 .. MaxId + 1
      /\ FreshBeyondEnd'
  BY <1>1, FindEmptyEntityTaken, ClearedKeeps DEF IInv
<1>3. TableOK'
  BY <1>1, <1>2 DEF IInv, TableOK, AllocateIdAndSet
<1>4. NoDangling'
  BY <1>1, <1>2, ClearedKeeps, PlaceholderAssumption
     DEF IInv, TableOK, NoDangling, AllocateIdAndSet
<1> QED
  BY <1>2, <1>3, <1>4 DEF IInv

\* What any program may do to the table.
AnyStep ==
  \/ \E e \in Entities : Common(e)
  \/ \E e \in Entities, id \in Ids : SetId(e, id) \/ SetIdThrows(e, id)
  \/ AllocateId
  \/ \E D \in SUBSET Registered : ClearEntities(D)

LEMMA NextIsAnyStep == Next => AnyStep
BY DEF Next, CarefulNext, AnyStep, ClearEntities

LEMMA ConductOKInvariant == Spec => []ConductOK
<1>1. Init => ConductOK
  BY DEF Init, ConductOK
<1>2. ConductOK /\ [Next]_vars => ConductOK'
  BY DEF ConductOK, Next, vars
<1> QED
  BY <1>1, <1>2, PTL DEF Spec

\* Every step of any program keeps the invariant.
LEMMA AnyStepKeepsIInv ==
  ASSUME IInv, AnyStep
  PROVE  IInv'
<1>1. CASE \E e \in Entities, id \in Ids : SetId(e, id) \/ SetIdThrows(e, id)
  BY <1>1, SetIdKeepsIInv
<1>2. CASE AllocateId
  BY <1>2, AllocateIdKeepsIInv
<1>3. CASE \E e \in Entities : AllocateIdAndSet(e)
  BY <1>3, AllocateIdAndSetKeepsIInv
<1>4. ASSUME NEW e \in Entities, Construct(e) PROVE IInv'
  BY <1>4 DEF Construct, IInv, TableOK, NoDangling, FreshBeyondEnd
<1>5. ASSUME NEW e \in Entities, Destroy(e) PROVE IInv'
  BY <1>5, PlaceholderAssumption
     DEF Destroy, ClearedBy, IInv, TableOK, NoDangling, FreshBeyondEnd
<1>6. ASSUME NEW D \in SUBSET Registered, ClearEntities(D) PROVE IInv'
  BY <1>6, PlaceholderAssumption, MaxIdAssumption
     DEF ClearEntities, ClearedBy, Registered, IInv, TableOK, NoDangling,
         FreshBeyondEnd, Ids
<1> QED
  BY <1>1, <1>2, <1>3, <1>4, <1>5, <1>6 DEF AnyStep, Common

LEMMA NextKeepsIInv == IInv /\ [Next]_vars => IInv'
<1>1. IInv /\ UNCHANGED vars => IInv'
  BY DEF vars, IInv, TableOK, NoDangling, FreshBeyondEnd
<1> QED
  BY <1>1, AnyStepKeepsIInv, NextIsAnyStep

\* The invariant holds of every program.
THEOREM Invariance == Spec => []IInv
BY InitIInv, NextKeepsIInv, PTL DEF Spec

\* The table, the ids and the set of living objects keep their types.
THEOREM TypeCorrect == Spec => []TypeOK
<1>1. IInv /\ ConductOK => TypeOK
  BY DEF IInv, TableOK, ConductOK, TypeOK
<1> QED
  BY <1>1, Invariance, ConductOKInvariant, PTL

\* No place of the table ever points at a destroyed object, and no object has
\* two places (set_id, allocate_id_and_set and ~rpc_entity).
THEOREM NeverDangling == Spec => []NoDangling
BY Invariance, PTL DEF IInv

-----------------------------------------------------------------------------
(* The careful program.                                                    *)

\* An object with an id has its place: reserved, or pointing at it.
HasPlace ==
  \A f \in alive : thisId[f] \in Ids =>
    thisId[f] < size /\ entitys[thisId[f]] \in {f, Reserved}

\* The place of id 0 belongs to no object.
NoObject0 == entitys[0] = Reserved /\ \A f \in alive : thisId[f] # 0

\* No two living objects have the same id.
OwnIds ==
  \A e, f \in alive : thisId[e] \in Ids /\ thisId[e] = thisId[f] => e = f

CInv == IInv /\ HasPlace /\ OwnIds /\ NoObject0

\* An object asks for an id that no other object has.
CarefulSetId(e, id) ==
  /\ id # 0
  /\ \A f \in alive \ {e} : thisId[f] # id
  /\ SetId(e, id)

\* The place of id 0 is not an empty one, so that it is not handed out.
LEMMA Cleared0 ==
  ASSUME CInv, NEW e \in alive
  PROVE  Cleared(e)[0] = Reserved
BY MaxIdAssumption DEF CInv, NoObject0, Cleared, IInv, TableOK, Ids

LEMMA CarefulSetIdKeepsCInv ==
  ASSUME CInv, NEW e \in Entities, NEW id \in Ids, CarefulSetId(e, id)
  PROVE  CInv'
<1>1. IInv'
  BY SetIdKeepsIInv DEF CInv, CarefulSetId
<1>2. /\ thisId' = [thisId EXCEPT ![e] = id]
      /\ id < size' /\ size <= size'
      /\ alive' = alive
      /\ e \in alive
      /\ entitys' = [Cleared(e) EXCEPT ![id] = e]
      /\ \A f \in alive \ {e} : thisId[f] # id
      /\ id # 0
  BY MaxIdAssumption
     DEF CarefulSetId, SetId, SetIdPrefix, CInv, IInv, TableOK, Ids
<1>3. \A f \in alive \ {e} : thisId[f] \in Ids =>
        Cleared(e)[thisId[f]] = entitys[thisId[f]]
  BY <1>2 DEF CInv, OwnIds, Cleared, IInv, TableOK
<1>4. entitys'[id] = e
  BY <1>2, ClearedKeeps DEF CInv
<1>5. ASSUME NEW f \in alive, thisId'[f] \in Ids
      PROVE  thisId'[f] < size' /\ entitys'[thisId'[f]] \in {f, Reserved}
  <2>1. CASE f = e
    BY <1>2, <1>4, <2>1 DEF CInv, IInv, TableOK
  <2>2. CASE f # e
    <3>1. thisId'[f] = thisId[f] /\ thisId[f] # id
      BY <1>2, <2>2 DEF CInv, IInv, TableOK
    <3>2. thisId[f] < size /\ entitys[thisId[f]] \in {f, Reserved}
      BY <1>5, <3>1 DEF CInv, HasPlace
    <3>3. entitys'[thisId[f]] = entitys[thisId[f]]
      BY <1>2, <1>3, <1>5, <2>2, <3>1, ClearedKeeps DEF CInv
    <3>4. thisId[f] < size'
      BY <1>2, <1>5, <3>1, <3>2, <1>1, MaxIdAssumption DEF CInv, IInv, TableOK, Ids
    <3> QED
      BY <3>1, <3>2, <3>3, <3>4
  <2> QED
    BY <2>1, <2>2
<1>6. HasPlace'
  BY <1>2, <1>5 DEF HasPlace
<1>7. OwnIds'
  BY <1>2 DEF OwnIds, CInv, IInv, TableOK
<1>8. NoObject0'
  BY <1>2, Cleared0, ClearedKeeps, MaxIdAssumption
     DEF NoObject0, CInv, IInv, TableOK, Ids
<1> QED
  BY <1>1, <1>6, <1>7, <1>8 DEF CInv

LEMMA AllocateIdKeepsCInv ==
  ASSUME CInv, AllocateId
  PROVE  CInv'
<1>1. IInv'
  BY AllocateIdKeepsIInv DEF CInv
<1>2. PICK id \in Ids : FindEmptyEntity(entitys, id)
  BY DEF AllocateId
<1>3. /\ entitys' = [entitys EXCEPT ![id] = Reserved]
      /\ size <= size'
      /\ UNCHANGED <<thisId, alive>>
  BY <1>2, FindEmptyEntityTaken DEF CInv, IInv, TableOK, FreshBeyondEnd, AllocateId
<1>4. HasPlace'
  <2>1. ASSUME NEW f \in alive, thisId[f] \in Ids
        PROVE  thisId[f] < size' /\ entitys'[thisId[f]] \in {f, Reserved}
    <3>1. thisId[f] < size /\ entitys[thisId[f]] \in {f, Reserved}
      BY <2>1 DEF CInv, HasPlace
    <3>2. thisId[f] < size'
      BY <1>1, <1>3, <2>1, <3>1, MaxIdAssumption DEF CInv, IInv, TableOK, Ids
    <3> QED
      BY <1>3, <2>1, <3>1, <3>2 DEF CInv, IInv, TableOK
  <2> QED
    BY <1>3, <2>1 DEF HasPlace
<1>5. OwnIds'
  BY <1>3 DEF OwnIds, CInv
<1>6. NoObject0'
  BY <1>3, MaxIdAssumption DEF NoObject0, CInv, IInv, TableOK, Ids
<1> QED
  BY <1>1, <1>4, <1>5, <1>6 DEF CInv

LEMMA AllocateIdAndSetKeepsCInv ==
  ASSUME CInv, NEW e \in Entities, AllocateIdAndSet(e)
  PROVE  CInv'
<1>1. IInv'
  BY AllocateIdAndSetKeepsIInv DEF CInv
<1>2. PICK id \in Ids : /\ FindEmptyEntity(Cleared(e), id)
                        /\ thisId' = [thisId EXCEPT ![e] = id]
  BY DEF AllocateIdAndSet
<1>3. /\ entitys' = [Cleared(e) EXCEPT ![id] = Reserved]
      /\ size <= size'
      /\ id < size'
      /\ Cleared(e)[id] = Null
      /\ alive' = alive
      /\ e \in alive
  BY <1>2, FindEmptyEntityTaken, ClearedKeeps DEF CInv, IInv, AllocateIdAndSet
<1>4. ASSUME NEW f \in alive \ {e}, thisId[f] \in Ids
      PROVE  /\ thisId[f] # id
             /\ thisId'[f] = thisId[f]
             /\ entitys'[thisId[f]] = entitys[thisId[f]]
             /\ thisId[f] < size'
             /\ entitys[thisId[f]] \in {f, Reserved}
  <2>1. thisId[f] < size /\ entitys[thisId[f]] \in {f, Reserved}
    BY <1>4 DEF CInv, HasPlace
  <2>2. Cleared(e)[thisId[f]] = entitys[thisId[f]]
    BY <1>3, <1>4 DEF CInv, OwnIds, Cleared, IInv, TableOK
  <2>3. entitys[thisId[f]] # Null
    BY <1>4, <2>1, PlaceholderAssumption DEF CInv, IInv, TableOK
  <2>4. thisId[f] # id
    BY <1>3, <2>2, <2>3
  <2>5. thisId[f] < size'
    BY <1>1, <1>3, <1>4, <2>1, MaxIdAssumption DEF CInv, IInv, TableOK, Ids
  <2> QED
    BY <1>2, <1>3, <1>4, <2>1, <2>2, <2>4, <2>5, ClearedKeeps DEF CInv, IInv, TableOK
<1>5. thisId'[e] = id /\ entitys'[id] = Reserved
  BY <1>2, <1>3, ClearedKeeps DEF CInv, IInv, TableOK
<1>6. \A f \in alive \ {e} : thisId'[f] = thisId[f]
  BY <1>2 DEF CInv, IInv, TableOK
<1>7. HasPlace'
  BY <1>3, <1>4, <1>5, <1>6 DEF HasPlace
<1>8. OwnIds'
  BY <1>3, <1>4, <1>5, <1>6 DEF OwnIds, CInv
<1>9. NoObject0'
  <2>1. Cleared(e)[0] = Reserved
    BY <1>3, Cleared0
  <2>2. id # 0
    BY <1>3, <2>1, PlaceholderAssumption
  <2>3. entitys'[0] = Reserved
    BY <1>3, <2>1, <2>2, ClearedKeeps, MaxIdAssumption DEF CInv, Ids
  <2> QED
    BY <1>3, <1>5, <1>6, <2>2, <2>3 DEF NoObject0, CInv
<1> QED
  BY <1>1, <1>7, <1>8, <1>9 DEF CInv

\* Every step of a careful program keeps the invariant.
LEMMA CarefulNextKeepsCInv ==
  ASSUME CInv, CarefulNext
  PROVE  CInv'
<1>1. IInv'
  BY AnyStepKeepsIInv DEF CInv, CarefulNext, AnyStep
<1>2. CASE \E e \in Entities, id \in Ids : CarefulSetId(e, id)
  BY <1>2, CarefulSetIdKeepsCInv
<1>3. CASE AllocateId
  BY <1>3, AllocateIdKeepsCInv
<1>4. CASE \E e \in Entities : AllocateIdAndSet(e)
  BY <1>4, AllocateIdAndSetKeepsCInv
<1>5. ASSUME NEW e \in Entities, Construct(e)
      PROVE  HasPlace' /\ OwnIds' /\ NoObject0'
  BY <1>5, PlaceholderAssumption, MaxIdAssumption
     DEF Construct, CInv, IInv, TableOK, HasPlace, OwnIds, NoObject0, Ids
<1>6. ASSUME NEW e \in Entities, Destroy(e)
      PROVE  HasPlace' /\ OwnIds' /\ NoObject0'
  BY <1>6, MaxIdAssumption
     DEF Destroy, ClearedBy, CInv, IInv, TableOK, HasPlace, OwnIds, NoObject0, Ids
<1>7. ASSUME \A e \in alive \ Registered : thisId[e] = NoId,
             ClearEntities(Registered)
      PROVE  HasPlace' /\ OwnIds' /\ NoObject0'
  <2>1. \A e \in alive' : thisId'[e] = NoId
    BY <1>7 DEF ClearEntities
  <2>2. NoId \notin Ids /\ NoId # 0
    BY PlaceholderAssumption, MaxIdAssumption DEF Ids
  <2>3. \A e \in Registered : e \in alive /\ thisId[e] # 0
    BY MaxIdAssumption
       DEF Registered, CInv, IInv, TableOK, NoDangling, NoObject0, Places, Ids
  <2>4. entitys'[0] = Reserved
    BY <1>7, <2>3, MaxIdAssumption
       DEF ClearEntities, ClearedBy, CInv, NoObject0, Ids
  <2> QED
    BY <2>1, <2>2, <2>4 DEF HasPlace, OwnIds, NoObject0
<1> QED
  BY <1>1, <1>2, <1>3, <1>4, <1>5, <1>6, <1>7
     DEF CarefulNext, CarefulSetId, Common, CInv

\* What one object does leaves the others in their places.
LEMMA OthersStay ==
  ASSUME CInv, NEW e \in Registered, NEW f \in Entities \ {e},
         Common(f) \/ \E id \in Ids : SetId(f, id) \/ SetIdThrows(f, id)
  PROVE  e \in Registered'
<1>1. PICK i \in Places \ {0} : entitys[i] = e
  BY DEF Registered
<1>2. /\ i \in Ids /\ i < size /\ i # 0
      /\ e \in Entities /\ e \in alive /\ thisId[e] = i
      /\ size \in Nat
  BY <1>1, MaxIdAssumption
     DEF CInv, IInv, TableOK, NoDangling, Places, Ids, Registered
<1>3. ASSUME NEW s \in Nat, size <= s PROVE i \in 0 .. s - 1
  <2>1. i \in Nat /\ size \in Nat /\ i < size
    BY <1>2, MaxIdAssumption DEF Ids
  <2> QED
    BY <2>1, <1>3
<1>4. f \in alive => Cleared(f)[i] = e
  BY <1>1, <1>2 DEF Cleared, CInv, OwnIds
<1>5. CASE Construct(f)
  BY <1>1, <1>5 DEF Construct, Registered, Places
<1>6. CASE Destroy(f)
  <2>1. entitys'[i] = e /\ size' = size
    BY <1>1, <1>2, <1>6 DEF Destroy, ClearedBy, CInv, OwnIds
  <2> QED
    BY <1>1, <1>2, <2>1 DEF Registered, Places
<1>7. CASE AllocateIdAndSet(f)
  <2>1. PICK id \in Ids : FindEmptyEntity(Cleared(f), id)
    BY <1>7 DEF AllocateIdAndSet
  <2>2. /\ entitys' = [Cleared(f) EXCEPT ![id] = Reserved]
        /\ size <= size' /\ size' \in 1 .. MaxId + 1
        /\ Cleared(f)[id] = Null
    BY <2>1, FindEmptyEntityTaken, ClearedKeeps DEF CInv, IInv
  <2>3. Cleared(f)[i] = e /\ e # Null
    BY <1>2, <1>4, <1>7, PlaceholderAssumption DEF AllocateIdAndSet
  <2>4. entitys'[i] = e
    BY <1>2, <2>2, <2>3, ClearedKeeps DEF CInv
  <2>5. i \in 0 .. size' - 1
    BY <1>3, <2>2, MaxIdAssumption
  <2> QED
    BY <1>2, <2>4, <2>5 DEF Registered, Places
<1>8. ASSUME NEW id \in Ids, SetId(f, id) \/ SetIdThrows(f, id)
      PROVE  e \in Registered'
  <2>1. /\ size' = IF size <= id THEN id + 1 ELSE size
        /\ f \in alive
    BY <1>8 DEF SetId, SetIdThrows, SetIdPrefix
  <2>2. entitys'[i] = e
    BY <1>2, <1>4, <1>8, <2>1, ClearedKeeps, PlaceholderAssumption
       DEF SetId, SetIdThrows, Collides, CInv
  <2>3. size' \in Nat /\ size <= size'
    BY <1>2, <2>1, MaxIdAssumption DEF Ids
  <2>4. i \in 0 .. size' - 1
    BY <1>3, <2>3
  <2> QED
    BY <1>2, <2>2, <2>4 DEF Registered, Places
<1> QED
  BY <1>5, <1>6, <1>7, <1>8 DEF Common

\* As long as the program is careful the invariant holds.
CarefulInv == conduct = "careful" => CInv

LEMMA CarefulInvariance == Spec => []CarefulInv
<1>1. Init => CarefulInv
  BY InitIInv, PlaceholderAssumption, MaxIdAssumption
     DEF Init, CarefulInv, CInv, HasPlace, OwnIds, NoObject0, Ids
<1>2. CarefulInv /\ [Next]_vars => CarefulInv'
  <2> SUFFICES ASSUME CarefulInv, [Next]_vars, conduct' = "careful"
               PROVE  CInv'
    BY DEF CarefulInv
  <2>1. CASE UNCHANGED vars
    BY <2>1
       DEF vars, CarefulInv, CInv, IInv, TableOK, NoDangling, FreshBeyondEnd,
           HasPlace, OwnIds, NoObject0
  <2>2. CASE CarefulNext /\ UNCHANGED conduct
    BY <2>2, CarefulNextKeepsCInv DEF CarefulInv
  <2> QED
    BY <2>1, <2>2 DEF Next
<1> QED
  BY <1>1, <1>2, PTL DEF Spec

\* A careful program's objects keep their ids and their places, and id 0 is
\* never handed out (find_empty_entity, set_id, clear_entities).
THEOREM CarefulPlaceKept == Spec => []PlaceKept
<1>1. CInv => PlaceKept
  BY MaxIdAssumption, PlaceholderAssumption
     DEF CInv, IInv, TableOK, HasPlace, OwnIds, NoObject0, PlaceKept, Places, Ids
<1>2. CarefulInv => PlaceKept
  BY <1>1 DEF PlaceKept, CarefulInv
<1> QED
  BY <1>2, CarefulInvariance, PTL

\* In a careful program no object loses its place through another (every
\* write of null in set_id, allocate_id_and_set and ~rpc_entity hits the
\* writer's own place).
THEOREM CarefulUndisturbed == Spec => Undisturbed
<1>1. CarefulInv /\ [Next]_vars =>
        [conduct' = "careful" => OthersKept]_vars
  <2>1. Next /\ conduct' = "careful" => conduct = "careful"
    BY DEF Next
  <2>2. CInv => OthersKept
    BY OthersStay DEF OthersKept
  <2> QED
    BY <2>1, <2>2 DEF CarefulInv
<1> QED
  BY <1>1, CarefulInvariance, PTL DEF Spec, Undisturbed
=============================================================================
