---------------------- MODULE ClusterPlacementProofs ----------------------
(***************************************************************************)
(* Proofs about ClusterPlacement, for every complex block type and every   *)
(* set of molecules: the queues lose no node, no assertion fails, only     *)
(* free primitives are handed out, and the queues implement PrimitivePool. *)
(***************************************************************************)
EXTENDS ClusterPlacement, FiniteSetTheorems, WellFoundedInduction, TLAPS

-----------------------------------------------------------------------------
(* Counting pb_types and lists.                                            *)

(* There are finitely many pb_types, so Slots is an interval.              *)
LEMMA PbTypesFinite == IsFiniteSet(PbTypes) /\ Cardinality(PbTypes) \in Nat
<1> DEFINE f == [p \in Primitives |-> PbTypeOf[p]]
<1>1. f \in Surjection(Primitives, PbTypes)
  BY DEF Surjection, PbTypes
<1>2. IsFiniteSet(PbTypes)
  BY <1>1, FS_Surjection, PrimitivesAssumption
<1> QED BY <1>2, FS_CardinalityType

(* A non-empty set of lists has a last one (null_index is well defined).   *)
LEMMA LastSlot ==
    ASSUME NEW S \in SUBSET Slots, S # {}
    PROVE  \E i \in S : \A j \in S : j <= i
<1> DEFINE n == Cardinality(PbTypes)
           T == {n - j : j \in S}
<1>1. n \in Nat BY PbTypesFinite
<1> HIDE DEF n
<1>2. \A j \in S : j \in Nat /\ j <= n BY <1>1 DEF Slots, n
<1>3. T \subseteq Nat /\ T # {} BY <1>1, <1>2
<1>4. PICK x \in T : \A y \in T : ~ (<<y, x>> \in OpToRel(<, Nat))
  <2> HIDE DEF T
  <2> QED BY <1>3, NatLessThanWellFounded, WFMin
<1>5. \A y \in T : ~ (y < x)
  BY <1>3, <1>4 DEF OpToRel
<1>6. PICK i \in S : x = n - i OBVIOUS
<1>7. \A j \in S : j <= i
  <2> TAKE j \in S
  <2>1. ~ (n - j < n - i) BY <1>5, <1>6
  <2> QED BY <2>1, <1>1, <1>2
<1> QED BY <1>7

(* A node that is on no list finds one: its pb_type's or an empty one.     *)
(* Otherwise the lists would hold more pb_types than there are.            *)
LEMMA RequeueFindsList ==
    ASSUME TypeOK, OneListPerType, NEW p \in Primitives
    PROVE  CanRequeue(p)
<1> SUFFICES ASSUME MatchingSlots(p) = {}, EmptySlots = {} PROVE FALSE
  <2>1. EmptySlots # {} => \E i \in EmptySlots : \A j \in EmptySlots : j <= i
    BY LastSlot DEF EmptySlots
  <2> QED BY <2>1 DEF CanRequeue, RequeuedIn
<1> DEFINE others == PbTypes \ {PbTypeOf[p]}
           f == [i \in Slots |-> PbTypeOf[CHOOSE q \in valid_primitives[i] : TRUE]]
<1>1. \A i \in Slots : \E q \in valid_primitives[i] : f[i] = PbTypeOf[q] /\ q \in Primitives
  <2> TAKE i \in Slots
  <2>1. (CHOOSE q \in valid_primitives[i] : TRUE) \in valid_primitives[i]
    BY DEF EmptySlots
  <2>2. valid_primitives[i] \subseteq Primitives
    BY DEF TypeOK
  <2> QED BY <2>1, <2>2
<1>2. \A i \in Slots : f[i] \in others
  BY <1>1 DEF MatchingSlots, PbTypes
<1>3. \A i, j \in Slots : f[i] = f[j] => i = j
  <2> HIDE DEF f
  <2> QED BY <1>1 DEF OneListPerType
<1>4. f \in Injection(Slots, others)
  <2>1. f \in [Slots -> others] BY <1>2
  <2>2. DOMAIN f = Slots OBVIOUS
  <2> HIDE DEF f, others
  <2> QED BY <2>1, <2>2, <1>3 DEF Injection, IsInjective
<1>5. IsFiniteSet(others) /\ Cardinality(others) = Cardinality(PbTypes) - 1
  <2>1. PbTypeOf[p] \in PbTypes BY DEF PbTypes
  <2> QED BY <2>1, PbTypesFinite, FS_RemoveElement
<1>6. Cardinality(Slots) <= Cardinality(others)
  BY <1>4, <1>5, FS_Injection
<1>7. Cardinality(Slots) = Cardinality(PbTypes)
  BY FS_Interval, PbTypesFinite, 1 \in Int DEF Slots
<1> QED BY <1>5, <1>6, <1>7, PbTypesFinite

(* When every node is on a list, no list is empty: reset's assertion.      *)
LEMMA NoEmptyList ==
    ASSUME TypeOK, OneListPerType, Listed = Primitives
    PROVE  EmptySlots = {}
<1> SUFFICES ASSUME NEW e \in EmptySlots PROVE FALSE OBVIOUS
<1> DEFINE full == Slots \ {e}
           On(t, i) == \E q \in valid_primitives[i] : PbTypeOf[q] = t
           g == [t \in PbTypes |-> CHOOSE i \in full : On(t, i)]
<1>1. \A t \in PbTypes : \E i \in full : On(t, i)
  BY DEF PbTypes, Listed, EmptySlots
<1>2. \A t \in PbTypes : g[t] \in full /\ On(t, g[t])
  BY <1>1
<1>3. \A t, u \in PbTypes : g[t] = g[u] => t = u
  <2> TAKE t, u \in PbTypes
  <2> HAVE g[t] = g[u]
  <2>1. PICK q \in valid_primitives[g[t]] : PbTypeOf[q] = t BY <1>2
  <2>2. PICK r \in valid_primitives[g[t]] : PbTypeOf[r] = u BY <1>2
  <2> QED BY <2>1, <2>2, <1>2 DEF OneListPerType
<1>4. g \in Injection(PbTypes, full)
  <2>1. g \in [PbTypes -> full] BY <1>2
  <2>2. DOMAIN g = PbTypes OBVIOUS
  <2> HIDE DEF g, full
  <2> QED BY <2>1, <2>2, <1>3 DEF Injection, IsInjective
<1>5. IsFiniteSet(Slots) /\ Cardinality(Slots) = Cardinality(PbTypes)
  BY FS_Interval, PbTypesFinite, 1 \in Int DEF Slots
<1>6. IsFiniteSet(full) /\ Cardinality(full) = Cardinality(Slots) - 1
  BY <1>5, FS_RemoveElement DEF EmptySlots
<1>7. Cardinality(PbTypes) <= Cardinality(full)
  BY <1>4, <1>6, FS_Injection
<1> QED BY <1>5, <1>6, <1>7, PbTypesFinite

(* requeue_primitive links a node that is on no list into exactly one.     *)
LEMMA RequeueAddsOnce ==
    ASSUME TypeOK, OneListPerType, NEW p \in Primitives, p \notin Listed, Requeue(p)
    PROVE  /\ valid_primitives' \in [Slots -> SUBSET Primitives]
           /\ Listed' = Listed \cup {p}
           /\ OneListPerType'
           /\ (\A i, j \in Slots : i # j => valid_primitives[i] \cap valid_primitives[j] = {})
                => \A i, j \in Slots : i # j => valid_primitives'[i] \cap valid_primitives'[j] = {}
<1>1. PICK s \in RequeuedIn(p) : TRUE
  BY RequeueFindsList DEF CanRequeue
<1>2. RequeuedIn(p) = {s} /\ s \in Slots
  <2>1. CASE MatchingSlots(p) # {}
    <3>1. \A i \in MatchingSlots(p) : i = s /\ s \in Slots
      BY <1>1, <2>1 DEF RequeuedIn, MatchingSlots, OneListPerType
    <3> QED BY <3>1, <1>1, <2>1 DEF RequeuedIn
  <2>2. CASE MatchingSlots(p) = {}
    BY <1>1, <2>2, PbTypesFinite DEF RequeuedIn, EmptySlots, Slots
  <2> QED BY <2>1, <2>2
<1>3. \A i \in Slots : valid_primitives'[i] =
          IF i = s THEN valid_primitives[i] \cup {p} ELSE valid_primitives[i]
  BY <1>2 DEF Requeue
<1>4. \A i \in Slots : \A q \in valid_primitives[i] :
          PbTypeOf[q] = PbTypeOf[p] <=> i = s
  <2>1. CASE MatchingSlots(p) # {}
    BY <1>1, <1>2, <2>1 DEF RequeuedIn, MatchingSlots, OneListPerType
  <2>2. CASE MatchingSlots(p) = {}
    BY <1>1, <2>2 DEF RequeuedIn, EmptySlots, MatchingSlots
  <2> QED BY <2>1, <2>2
<1>5. valid_primitives' \in [Slots -> SUBSET Primitives]
  BY DEF Requeue, TypeOK
<1>6. Listed' = Listed \cup {p}
  BY <1>2, <1>3 DEF Listed
<1>7. OneListPerType'
  <2> SUFFICES ASSUME NEW i \in Slots, NEW j \in Slots,
                      NEW x \in valid_primitives'[i], NEW y \in valid_primitives'[j]
               PROVE  i = j <=> PbTypeOf[x] = PbTypeOf[y]
    BY DEF OneListPerType
  <2>1. x \in valid_primitives[i] \/ (x = p /\ i = s) BY <1>3
  <2>2. y \in valid_primitives[j] \/ (y = p /\ j = s) BY <1>3
  <2>3. CASE x = p /\ y = p BY <2>1, <2>2, <2>3, <1>4 
  <2> QED BY <2>1, <2>2, <2>3, <1>4 DEF OneListPerType
<1>8. ASSUME \A i, j \in Slots : i # j => valid_primitives[i] \cap valid_primitives[j] = {}
      PROVE  \A i, j \in Slots : i # j => valid_primitives'[i] \cap valid_primitives'[j] = {}
  <2> TAKE i, j \in Slots
  <2> HAVE i # j
  <2>1. p \notin valid_primitives[i] /\ p \notin valid_primitives[j] BY DEF Listed
  <2>2. valid_primitives[i] \cap valid_primitives[j] = {} BY <1>8
  <2>3. /\ valid_primitives'[i] = IF i = s THEN valid_primitives[i] \cup {p} ELSE valid_primitives[i]
        /\ valid_primitives'[j] = IF j = s THEN valid_primitives[j] \cup {p} ELSE valid_primitives[j]
    BY <1>3
  <2> QED BY <2>1, <2>2, <2>3
<1> QED BY <1>5, <1>6, <1>7, <1>8

-----------------------------------------------------------------------------
(* The parts of IInv that only queue moves can disturb.                    *)
QueueInv == TypeOK /\ NodeConservation /\ OneListPerType

(* The nodes that leave one queue for a list: conservation after Requeue.  *)
LEMMA RequeueConserves ==
    ASSUME TypeOK, NodeConservation, OneListPerType,
           NEW p \in Primitives, p \notin Listed, Requeue(p),
           tried' \in SUBSET Primitives, invalid' \in SUBSET Primitives,
           in_flight' \in Nodes,
           tried' \subseteq tried, invalid' \subseteq invalid,
           in_flight' \in {in_flight, NoPrimitive},
           tried \cup invalid \cup ({in_flight} \ {NoPrimitive})
               = {p} \cup tried' \cup invalid' \cup ({in_flight'} \ {NoPrimitive}),
           p \notin tried' \cup invalid', p # in_flight'
    PROVE  NodeConservation' /\ OneListPerType'
<1>1. /\ Listed' = Listed \cup {p}
      /\ OneListPerType'
      /\ \A i, j \in Slots : i # j => valid_primitives'[i] \cap valid_primitives'[j] = {}
  BY RequeueAddsOnce DEF NodeConservation
<1>2. Primitives = Listed' \cup tried' \cup invalid' \cup ({in_flight'} \ {NoPrimitive})
  BY <1>1 DEF NodeConservation
<1>3. Listed' \cap (tried' \cup invalid') = {} /\ tried' \cap invalid' = {}
  BY <1>1 DEF NodeConservation
<1>4. NoPrimitive \notin Listed' \cup tried' \cup invalid'
  BY <1>2, PrimitivesAssumption
<1>5. in_flight' \notin Listed' \cup tried' \cup invalid'
  BY <1>1, <1>4 DEF NodeConservation
<1> QED BY <1>1, <1>2, <1>3, <1>5 DEF NodeConservation

(* Initially every node is on the list of its pb_type and is valid.        *)
LEMMA InitIInv == Init => IInv
<1> SUFFICES ASSUME Init PROVE IInv OBVIOUS
<1>1. PICK type_of \in Bijection(Slots, PbTypes) :
          valid_primitives = [i \in Slots |-> {p \in Primitives : PbTypeOf[p] = type_of[i]}]
  BY DEF Init
<1>2. /\ type_of \in [Slots -> PbTypes]
      /\ \A i, j \in Slots : type_of[i] = type_of[j] => i = j
      /\ \A t \in PbTypes : \E i \in Slots : type_of[i] = t
  BY DEF Bijection, Injection, Surjection, IsInjective
<1>3. Listed = Primitives
  BY <1>1, <1>2 DEF Listed, PbTypes
<1>4. TypeOK
  BY <1>1 DEF Init, TypeOK, Nodes, NoQuery
<1>5. OneListPerType
  BY <1>1, <1>2 DEF OneListPerType
<1>6. \A i, j \in Slots : i # j => valid_primitives[i] \cap valid_primitives[j] = {}
  BY <1>1, <1>2
<1>7. NodeConservation
  BY <1>3, <1>6, PrimitivesAssumption DEF Init, NodeConservation
<1>8. AssertionsHold /\ ControlInv /\ OfferInv /\ CommittedInv /\ ModeInv /\ CollectedInv
  BY DEF Init, AssertionsHold, ControlInv, OfferInv, CommittedInv, ModeInv, CollectedInv
<1> QED BY <1>4, <1>5, <1>7, <1>8 DEF IInv

USE DEF Nodes

(* Each step of the queue loops moves one node and never aborts.           *)
LEMMA FlushTriedIInv == ASSUME IInv, FlushTried PROVE IInv'
<1> USE DEF IInv
<1>1. PICK p \in tried :
          IF CanRequeue(p)
          THEN /\ Requeue(p)
               /\ tried' = tried \ {p}
               /\ UNCHANGED <<invalid, in_flight, flags, curr_molecule, pc, op, client, query>>
          ELSE Abort
  BY DEF FlushTried
<1>2. p \in Primitives /\ p \notin Listed
  BY DEF TypeOK, NodeConservation
<1>3. /\ Requeue(p) /\ tried' = tried \ {p}
      /\ UNCHANGED <<invalid, in_flight, flags, curr_molecule, pc, op, client, query>>
  BY <1>1, <1>2, RequeueFindsList
<1>4. TypeOK'
  <2>1. valid_primitives' \in [Slots -> SUBSET Primitives]
    BY <1>2, <1>3, RequeueAddsOnce
  <2> QED BY <2>1, <1>3 DEF TypeOK, flags, client
<1>5. NodeConservation' /\ OneListPerType'
  <2>1. p \notin invalid /\ p # in_flight BY DEF NodeConservation
  <2> QED BY <1>2, <1>3, <1>4, <2>1, RequeueConserves DEF TypeOK
<1>6. pc = "flush" BY DEF FlushTried
<1>7. AssertionsHold' /\ ControlInv' /\ OfferInv' /\ CommittedInv' /\ ModeInv' /\ CollectedInv'
  BY <1>3, <1>6 DEF AssertionsHold, ControlInv, OfferInv, CommittedInv, ModeInv, CollectedInv,
                    flags, client
<1> QED BY <1>4, <1>5, <1>7

LEMMA FlushInFlightIInv == ASSUME IInv, FlushInFlight PROVE IInv'
<1> USE DEF IInv
<1>1. /\ pc = "flush" /\ in_flight # NoPrimitive
      /\ in_flight \in Primitives /\ in_flight \notin Listed
  BY DEF FlushInFlight, TypeOK, NodeConservation
<1>2. /\ Requeue(in_flight) /\ in_flight' = NoPrimitive
      /\ UNCHANGED <<tried, invalid, flags, curr_molecule, pc, op, client, query>>
  BY <1>1, RequeueFindsList DEF FlushInFlight
<1>3. TypeOK'
  <2>1. valid_primitives' \in [Slots -> SUBSET Primitives]
    BY <1>1, <1>2, RequeueAddsOnce
  <2> QED BY <2>1, <1>2 DEF TypeOK, flags, client
<1>4. NodeConservation' /\ OneListPerType'
  <2>1. in_flight \notin tried \cup invalid BY DEF NodeConservation
  <2> QED BY <1>1, <1>2, <1>3, <2>1, RequeueConserves DEF TypeOK
<1>5. AssertionsHold' /\ ControlInv' /\ OfferInv' /\ CommittedInv' /\ ModeInv' /\ CollectedInv'
  BY <1>1, <1>2 DEF AssertionsHold, ControlInv, OfferInv, CommittedInv, ModeInv, CollectedInv,
                    flags, client
<1> QED BY <1>3, <1>4, <1>5

LEMMA RequeueInvalidIInv == ASSUME IInv, RequeueInvalid PROVE IInv'
<1> USE DEF IInv
<1>1. PICK p \in invalid :
          IF CanRequeue(p)
          THEN /\ Requeue(p)
               /\ invalid' = invalid \ {p}
               /\ UNCHANGED <<tried, in_flight, flags, curr_molecule, pc, op, client, query>>
          ELSE Abort
  BY DEF RequeueInvalid
<1>2. p \in Primitives /\ p \notin Listed
  BY DEF TypeOK, NodeConservation
<1>3. /\ Requeue(p) /\ invalid' = invalid \ {p}
      /\ UNCHANGED <<tried, in_flight, flags, curr_molecule, pc, op, client, query>>
  BY <1>1, <1>2, RequeueFindsList
<1>4. TypeOK'
  <2>1. valid_primitives' \in [Slots -> SUBSET Primitives]
    BY <1>2, <1>3, RequeueAddsOnce
  <2> QED BY <2>1, <1>3 DEF TypeOK, flags, client
<1>5. NodeConservation' /\ OneListPerType'
  <2>1. p \notin tried /\ p # in_flight BY DEF NodeConservation
  <2> QED BY <1>2, <1>3, <1>4, <2>1, RequeueConserves DEF TypeOK
<1>6. pc = "requeue_invalid" BY DEF RequeueInvalid
<1>7. AssertionsHold' /\ ControlInv' /\ OfferInv' /\ CommittedInv' /\ ModeInv' /\ CollectedInv'
  BY <1>3, <1>6 DEF AssertionsHold, ControlInv, OfferInv, CommittedInv, ModeInv, CollectedInv,
                    flags, client
<1> QED BY <1>4, <1>5, <1>7

(* Steps that leave every queue alone keep the queue invariants.           *)
LEMMA QueuesUnchanged ==
    ASSUME NodeConservation, OneListPerType, UNCHANGED queues
    PROVE  NodeConservation' /\ OneListPerType'
BY DEF NodeConservation, OneListPerType, queues, Listed

LEMMA FlushDoneIInv == ASSUME IInv, FlushDone PROVE IInv'
<1> USE DEF IInv
<1>1. NodeConservation' /\ OneListPerType'
  BY QueuesUnchanged DEF FlushDone
<1>2. TypeOK'
  BY DEF FlushDone, TypeOK, queues, flags
<1>3. AssertionsHold' /\ ControlInv' /\ OfferInv' /\ CommittedInv'
  BY DEF FlushDone, TypeOK, AssertionsHold, ControlInv, OfferInv, CommittedInv, queues, flags
<1>4. ModeInv' /\ CollectedInv'
  BY DEF FlushDone, TypeOK, ModeInv, CollectedInv, queues, flags
<1> QED BY <1>1, <1>2, <1>3, <1>4

LEMMA StartClusterIInv ==
    ASSUME IInv, NEW m \in Molecules, NEW k \in Modes, StartCluster(m, k) PROVE IInv'
<1> USE DEF IInv
<1>1. NodeConservation' /\ OneListPerType'
  BY QueuesUnchanged DEF StartCluster
<1>2. TypeOK'
  BY DEF StartCluster, TypeOK, queues, flags, NoQuery
<1>3. AssertionsHold' /\ ControlInv' /\ OfferInv' /\ CommittedInv' /\ ModeInv' /\ CollectedInv'
  BY DEF StartCluster, AssertionsHold, ControlInv, OfferInv, CommittedInv, ModeInv, CollectedInv,
         queues, flags
<1> QED BY <1>1, <1>2, <1>3

(* At the end of reset all nodes are on lists, so all become valid.        *)
LEMMA ResetFlagsEffect ==
    ASSUME IInv, ResetFlags
    PROVE  /\ valid' = [p \in Primitives |-> TRUE]
           /\ incremental_cost' = [p \in Primitives |-> 0]
           /\ curr_molecule' = NoMolecule /\ committed' = {} /\ pc' = "set_mode"
           /\ UNCHANGED <<queues, op, molecule, cluster_mode, primitives_list,
                          packed, offered, query>>
<1> USE DEF IInv
<1>1. Listed = Primitives
  BY PrimitivesAssumption DEF ResetFlags, ControlInv, NodeConservation
<1>2. EmptySlots = {}
  BY <1>1, NoEmptyList
<1> QED BY <1>1, <1>2 DEF ResetFlags

LEMMA ResetFlagsIInv == ASSUME IInv, ResetFlags PROVE IInv'
<1> USE DEF IInv
<1>1. NodeConservation' /\ OneListPerType'
  BY ResetFlagsEffect, QueuesUnchanged
<1>2. pc = "requeue_invalid" /\ invalid = {} BY DEF ResetFlags
<1>3. TypeOK'
  <2>1. [p \in Primitives |-> TRUE] \in [Primitives -> BOOLEAN] OBVIOUS
  <2>2. [p \in Primitives |-> 0] \in [Primitives -> Int] OBVIOUS
  <2>3. valid' \in [Primitives -> BOOLEAN] BY <2>1, ResetFlagsEffect, Zenon
  <2>4. incremental_cost' \in [Primitives -> Int] BY <2>2, ResetFlagsEffect, Zenon
  <2> QED BY <2>3, <2>4, ResetFlagsEffect DEF TypeOK, queues
<1>4. AssertionsHold' /\ ControlInv' /\ OfferInv' /\ CommittedInv' /\ ModeInv' /\ CollectedInv'
  BY <1>2, ResetFlagsEffect
     DEF AssertionsHold, ControlInv, OfferInv, CommittedInv, ModeInv, CollectedInv, queues
<1> QED BY <1>1, <1>3, <1>4

LEMMA SetModeIInv == ASSUME IInv, SetMode PROVE IInv'
<1> USE DEF IInv
<1>1. NodeConservation' /\ OneListPerType'
  BY QueuesUnchanged DEF SetMode
<1>2. TypeOK'
  <2>1. valid' \in [Primitives -> BOOLEAN]
    <3>1. \A p \in Primitives : (valid[p] /\ InMode(p, cluster_mode)) \in BOOLEAN
      OBVIOUS
    <3> QED BY <3>1 DEF SetMode
  <2> QED BY <2>1 DEF SetMode, TypeOK, queues, client
<1>3. AssertionsHold' /\ ControlInv' /\ CollectedInv'
  BY DEF SetMode, TypeOK, AssertionsHold, ControlInv, CollectedInv, queues, client
<1>4. OfferInv' /\ CommittedInv'
  BY DEF SetMode, ControlInv, OfferInv, CommittedInv, client
<1>5. ModeInv'
  BY DEF SetMode, ModeInv, client
<1> QED BY <1>1, <1>2, <1>3, <1>4, <1>5

LEMMA TryPackIInv == ASSUME IInv, NEW m \in Molecules, TryPack(m) PROVE IInv'
<1> USE DEF IInv
<1>1. NodeConservation' /\ OneListPerType'
  BY QueuesUnchanged DEF TryPack
<1>2. TypeOK'
  BY DEF TryPack, TypeOK, queues, flags, NoQuery
<1>3. AssertionsHold' /\ ControlInv' /\ OfferInv' /\ CommittedInv' /\ ModeInv' /\ CollectedInv'
  BY DEF TryPack, AssertionsHold, ControlInv, OfferInv, CommittedInv, ModeInv, CollectedInv,
         queues, flags
<1> QED BY <1>1, <1>2, <1>3

LEMMA CallNextIInv == ASSUME IInv, CallNext PROVE IInv'
<1> USE DEF IInv
<1>1. pc = "call" /\ UNCHANGED <<valid_primitives, invalid, flags, curr_molecule, client, query>>
  BY DEF CallNext
<1>2. CASE curr_molecule # molecule
  <2>1. pc' = "flush" /\ op' = "next" /\ UNCHANGED <<tried, in_flight>>
    BY <1>2 DEF CallNext
  <2>2. NodeConservation' /\ OneListPerType'
    BY <1>1, <2>1, QueuesUnchanged DEF queues
  <2>3. TypeOK'
    BY <1>1, <2>1 DEF TypeOK, flags, client
  <2>4. AssertionsHold' /\ ControlInv' /\ OfferInv' /\ CommittedInv' /\ ModeInv' /\ CollectedInv'
    BY <1>1, <2>1 DEF AssertionsHold, ControlInv, OfferInv, CommittedInv, ModeInv, CollectedInv,
                      flags, client
  <2> QED BY <2>2, <2>3, <2>4
<1>3. CASE curr_molecule = molecule
  <2>1. /\ tried' = tried \cup ({in_flight} \ {NoPrimitive})
        /\ in_flight' = NoPrimitive /\ pc' = "search" /\ op' = op
    BY <1>3 DEF CallNext
  <2>2. OneListPerType'
    BY <1>1 DEF OneListPerType
  <2>3. NodeConservation'
    BY <1>1, <2>1, PrimitivesAssumption DEF NodeConservation, Listed, TypeOK
  <2>4. TypeOK'
    BY <1>1, <2>1 DEF TypeOK, flags, client
  <2>5. AssertionsHold' /\ ControlInv' /\ OfferInv' /\ CommittedInv' /\ ModeInv' /\ CollectedInv'
    BY <1>1, <2>1 DEF AssertionsHold, ControlInv, OfferInv, CommittedInv, ModeInv, CollectedInv,
                      flags, client
  <2> QED BY <2>2, <2>3, <2>4, <2>5
<1> QED BY <1>2, <1>3

(* What a scan of the lists does to them, whether or not it finds a root.  *)
LEMMA ScanConserves ==
    ASSUME TypeOK, NodeConservation, OneListPerType, NEW met \in SUBSET Listed,
           NEW best \in Nodes, best \in (Listed \ met) \cup {NoPrimitive},
           in_flight = NoPrimitive \/ best = NoPrimitive,
           in_flight' = IF best = NoPrimitive THEN in_flight ELSE best,
           valid_primitives' = [i \in Slots |-> valid_primitives[i] \ (met \cup {best})],
           invalid' = invalid \cup met, tried' = tried
    PROVE  /\ NodeConservation' /\ OneListPerType'
           /\ valid_primitives' \in [Slots -> SUBSET Primitives]
           /\ invalid' \in SUBSET Primitives /\ in_flight' \in Nodes
<1>1. valid_primitives' \in [Slots -> SUBSET Primitives]
  BY DEF TypeOK
<1>2. Listed \subseteq Primitives /\ NoPrimitive \notin Listed
  BY PrimitivesAssumption DEF TypeOK, Listed
<1>3. Listed' = Listed \ (met \cup {best})
  BY DEF Listed
<1>4. OneListPerType'
  BY DEF OneListPerType
<1>5. \A i, j \in Slots : i # j => valid_primitives'[i] \cap valid_primitives'[j] = {}
  BY DEF NodeConservation
<1>6. Primitives = Listed' \cup tried' \cup invalid' \cup ({in_flight'} \ {NoPrimitive})
  BY <1>2, <1>3 DEF NodeConservation
<1>7. Listed' \cap (tried' \cup invalid') = {} /\ tried' \cap invalid' = {}
  BY <1>3 DEF NodeConservation
<1>8. in_flight' \notin Listed' \cup tried' \cup invalid'
  <2>1. CASE best = NoPrimitive BY <2>1, <1>2, <1>3 DEF NodeConservation
  <2>2. CASE best # NoPrimitive BY <2>2, <1>2, <1>3 DEF NodeConservation
  <2> QED BY <2>1, <2>2
<1>9. invalid' \in SUBSET Primitives /\ in_flight' \in Nodes
  BY <1>2 DEF TypeOK
<1> QED BY <1>1, <1>4, <1>5, <1>6, <1>7, <1>8, <1>9 DEF NodeConservation

(* The scan seen as one move: the invalid nodes of the feasible lists are  *)
(* collected, and either the molecule fails or a placeable root is taken.  *)
LEMMA SearchEffect ==
    ASSUME IInv, Search
    PROVE  \E refused \in SUBSET Forced[molecule], met \in SUBSET Listed, best \in Nodes :
             /\ \A p \in met : ~valid[p]
             /\ valid_primitives' = [i \in Slots |-> valid_primitives[i] \ (met \cup {best})]
             /\ invalid' = invalid \cup met
             /\ UNCHANGED <<tried, flags, curr_molecule, op, molecule, cluster_mode,
                            committed, packed, query>>
             /\ \/ /\ best = NoPrimitive /\ Placeable(molecule, refused) = {}
                   /\ primitives_list' = {} /\ pc' = "ready"
                   /\ UNCHANGED <<in_flight, offered>>
                \/ /\ best \in Placeable(molecule, refused) /\ best \in Listed \ met
                   /\ best \in Primitives
                   /\ primitives_list' = PlacementAt[molecule][best]
                   /\ in_flight' = best /\ pc' = "attempt"
                   /\ offered' = offered \cup {best}
<1> USE DEF IInv
<1> DEFINE feasible == UNION {valid_primitives[i] : i \in FeasibleSlots(molecule)}
           met == Invalids(feasible)
           scanned == [i \in Slots |->
                 IF i \in FeasibleSlots(molecule)
                 THEN valid_primitives[i] \ Invalids(valid_primitives[i])
                 ELSE valid_primitives[i]]
<1>1. met \in SUBSET Listed /\ \A p \in met : ~valid[p]
  BY DEF Invalids, FeasibleSlots, SlotsOf, Listed
<1>2. \A i \in Slots : scanned[i] = valid_primitives[i] \ met
  <2> TAKE i \in Slots
  <2>1. CASE i \in FeasibleSlots(molecule)
    <3>1. valid_primitives[i] \cap met = Invalids(valid_primitives[i])
      BY <2>1 DEF Invalids
    <3> QED BY <2>1, <3>1
  <2>2. CASE i \notin FeasibleSlots(molecule)
    <3>1. valid_primitives[i] \cap met = {}
      BY <2>2 DEF NodeConservation, FeasibleSlots, SlotsOf, Invalids
    <3> QED BY <2>2, <3>1
  <2> QED BY <2>1, <2>2
<1>3. NoPrimitive \notin Listed /\ Listed \subseteq Primitives
  BY PrimitivesAssumption DEF TypeOK, Listed
<1>4. PICK refused \in SUBSET Forced[molecule] :
         /\ invalid' = invalid \cup met
         /\ \/ /\ Placeable(molecule, refused) = {}
               /\ valid_primitives' = scanned
               /\ primitives_list' = {}
               /\ pc' = "ready"
               /\ UNCHANGED <<in_flight, offered>>
            \/ \E best \in Placeable(molecule, refused) :
               /\ in_flight' = best
               /\ valid_primitives' = [i \in Slots |-> scanned[i] \ {best}]
               /\ primitives_list' = PlacementAt[molecule][best]
               /\ offered' = offered \cup {best}
               /\ pc' = "attempt"
  BY DEF Search
<1>5. UNCHANGED <<tried, flags, curr_molecule, op, molecule, cluster_mode,
                  committed, packed, query>>
  BY DEF Search
<1>6. CASE /\ Placeable(molecule, refused) = {}
           /\ valid_primitives' = scanned
           /\ primitives_list' = {}
           /\ pc' = "ready"
           /\ UNCHANGED <<in_flight, offered>>
  <2>1. \A i \in Slots : scanned[i] = valid_primitives[i] \ (met \cup {NoPrimitive})
    BY <1>2, <1>3 DEF Listed
  <2>2. scanned = [i \in Slots |-> valid_primitives[i] \ (met \cup {NoPrimitive})]
    BY <2>1
  <2>3. NoPrimitive \in Nodes OBVIOUS
  <2> HIDE DEF met, scanned
  <2> QED BY <1>1, <1>4, <1>5, <1>6, <2>2, <2>3
<1>7. CASE \E best \in Placeable(molecule, refused) :
               /\ in_flight' = best
               /\ valid_primitives' = [i \in Slots |-> scanned[i] \ {best}]
               /\ primitives_list' = PlacementAt[molecule][best]
               /\ offered' = offered \cup {best}
               /\ pc' = "attempt"
  <2>1. PICK best \in Placeable(molecule, refused) :
               /\ in_flight' = best
               /\ valid_primitives' = [i \in Slots |-> scanned[i] \ {best}]
               /\ primitives_list' = PlacementAt[molecule][best]
               /\ offered' = offered \cup {best}
               /\ pc' = "attempt"
    BY <1>7
  <2>2. best \in Listed \ met
    BY DEF Placeable, Invalids, FeasibleSlots, SlotsOf, Listed
  <2>3. best \in Primitives
    BY <1>3, <2>2
  <2>4. [i \in Slots |-> scanned[i] \ {best}]
           = [i \in Slots |-> valid_primitives[i] \ (met \cup {best})]
    BY <1>2
  <2> HIDE DEF met, scanned
  <2> QED BY <1>1, <1>4, <1>5, <2>1, <2>2, <2>3, <2>4
<1> QED BY <1>4, <1>6, <1>7

LEMMA SearchIInv == ASSUME IInv, Search PROVE IInv'
<1> USE DEF IInv
<1>1. PICK refused \in SUBSET Forced[molecule], met \in SUBSET Listed, best \in Nodes :
             /\ \A p \in met : ~valid[p]
             /\ valid_primitives' = [i \in Slots |-> valid_primitives[i] \ (met \cup {best})]
             /\ invalid' = invalid \cup met
             /\ UNCHANGED <<tried, flags, curr_molecule, op, molecule, cluster_mode,
                            committed, packed, query>>
             /\ \/ /\ best = NoPrimitive /\ Placeable(molecule, refused) = {}
                   /\ primitives_list' = {} /\ pc' = "ready"
                   /\ UNCHANGED <<in_flight, offered>>
                \/ /\ best \in Placeable(molecule, refused) /\ best \in Listed \ met
                   /\ best \in Primitives
                   /\ primitives_list' = PlacementAt[molecule][best]
                   /\ in_flight' = best /\ pc' = "attempt"
                   /\ offered' = offered \cup {best}
  BY SearchEffect
<1>2. /\ pc = "search" /\ in_flight = NoPrimitive /\ primitives_list = {}
      /\ molecule \in Molecules
  BY DEF Search, ControlInv
<1>3. best # NoPrimitive <=> best \in Primitives
  BY <1>1, PrimitivesAssumption
<1>4. /\ NodeConservation' /\ OneListPerType'
      /\ valid_primitives' \in [Slots -> SUBSET Primitives]
      /\ invalid' \in SUBSET Primitives /\ in_flight' \in Nodes
  <2>1. best \in (Listed \ met) \cup {NoPrimitive} BY <1>1
  <2>2. in_flight' = IF best = NoPrimitive THEN in_flight ELSE best
    BY <1>1, <1>2, <1>3
  <2>3. in_flight = NoPrimitive \/ best = NoPrimitive BY <1>2
  <2> QED BY <1>1, <2>1, <2>2, <2>3, ScanConserves
<1>5. best # NoPrimitive =>
        /\ primitives_list' \subseteq Primitives /\ best \in primitives_list'
        /\ \A p \in primitives_list' : valid[p] /\ primitives_list' \cap Blocked(p) = {}
  BY <1>1, <1>2, PlacementAssumption DEF Placeable
<1>6. TypeOK'
  <2>1. primitives_list' \in SUBSET Primitives BY <1>1, <1>3, <1>5
  <2>2. offered' \in SUBSET Primitives BY <1>1 DEF TypeOK
  <2>3. pc' \in {"ready", "attempt"} BY <1>1
  <2> QED BY <1>1, <1>4, <2>1, <2>2, <2>3 DEF TypeOK, flags
<1>7. AssertionsHold' /\ ControlInv' /\ CommittedInv' /\ ModeInv'
  BY <1>1, <1>2, <1>3, <1>5 DEF AssertionsHold, ControlInv, CommittedInv, ModeInv, flags
<1>8. OfferInv'
  BY <1>1, <1>3, <1>5 DEF OfferInv, flags
<1>9. CollectedInv'
  BY <1>1, <1>2, <1>3 DEF CollectedInv, flags
<1> QED BY <1>4, <1>6, <1>7, <1>8, <1>9

LEMMA AttemptIInv == ASSUME IInv, AttemptFails \/ AttemptPasses PROVE IInv'
<1> USE DEF IInv
<1>1. NodeConservation' /\ OneListPerType'
  BY QueuesUnchanged DEF AttemptFails, AttemptPasses
<1>2. TypeOK'
  BY DEF AttemptFails, AttemptPasses, TypeOK, queues, flags, client
<1>3. AssertionsHold' /\ ControlInv' /\ OfferInv' /\ CommittedInv' /\ ModeInv' /\ CollectedInv'
  BY DEF AttemptFails, AttemptPasses, AssertionsHold, ControlInv, OfferInv, CommittedInv,
         ModeInv, CollectedInv, queues, flags, client
<1> QED BY <1>1, <1>2, <1>3

(* A primitive handed out is still valid when its turn comes: committing   *)
(* the others of the same molecule never excludes it.                      *)
LEMMA CommitEffect ==
    ASSUME IInv, CommitPrimitive
    PROVE  \E p \in primitives_list :
             /\ valid[p]
             /\ valid' = [q \in Primitives |-> valid[q] /\ q # p /\ q \notin Blocked(p)]
             /\ incremental_cost' =
                    [q \in Primitives |->
                        IF q = p \/ q \in Blocked(p) THEN incremental_cost[q]
                                                     ELSE incremental_cost[q] - Nearness[p][q]]
             /\ primitives_list' = primitives_list \ {p}
             /\ committed' = committed \cup {p}
             /\ packed' = IF primitives_list = {p} THEN packed \cup {molecule} ELSE packed
             /\ pc' = IF primitives_list = {p} THEN "ready" ELSE "flush"
             /\ UNCHANGED <<queues, curr_molecule, op, molecule, cluster_mode, offered, query>>
BY DEF CommitPrimitive, IInv, OfferInv

LEMMA CommitIInv == ASSUME IInv, CommitPrimitive PROVE IInv'
<1> USE DEF IInv
<1>1. PICK p \in primitives_list :
             /\ valid[p]
             /\ valid' = [q \in Primitives |-> valid[q] /\ q # p /\ q \notin Blocked(p)]
             /\ incremental_cost' =
                    [q \in Primitives |->
                        IF q = p \/ q \in Blocked(p) THEN incremental_cost[q]
                                                     ELSE incremental_cost[q] - Nearness[p][q]]
             /\ primitives_list' = primitives_list \ {p}
             /\ committed' = committed \cup {p}
             /\ packed' = IF primitives_list = {p} THEN packed \cup {molecule} ELSE packed
             /\ pc' = IF primitives_list = {p} THEN "ready" ELSE "flush"
             /\ UNCHANGED <<queues, curr_molecule, op, molecule, cluster_mode, offered, query>>
  BY CommitEffect
<1>2. pc = "take" /\ molecule \in Molecules /\ p \in Primitives
  BY DEF CommitPrimitive, ControlInv, TypeOK
<1>3. NodeConservation' /\ OneListPerType'
  BY <1>1, QueuesUnchanged
<1>4. TypeOK'
  <2>1. valid' \in [Primitives -> BOOLEAN]
    <3>1. \A q \in Primitives : (valid[q] /\ q # p /\ q \notin Blocked(p)) \in BOOLEAN OBVIOUS
    <3> QED BY <1>1, <3>1, Zenon
  <2>2. incremental_cost' \in [Primitives -> Int]
    BY <1>1, <1>2, PrimitivesAssumption DEF TypeOK
  <2>3. /\ primitives_list' \in SUBSET Primitives /\ committed' \in SUBSET Primitives
        /\ packed' \in SUBSET Molecules
    BY <1>1, <1>2 DEF TypeOK
  <2> QED BY <1>1, <2>1, <2>2, <2>3 DEF TypeOK, queues
<1>5. \A q \in Primitives : valid'[q] <=> valid[q] /\ q # p /\ q \notin Blocked(p)
  BY <1>1
<1>6. OfferInv'
  BY <1>1, <1>2, <1>5 DEF OfferInv, TypeOK
<1>7. CommittedInv'
  <2>1. Blocked(p) \subseteq Primitives /\ \A q \in committed : Blocked(q) \subseteq Primitives
    BY DEF Blocked
  <2> QED BY <1>1, <1>2, <1>5, <2>1 DEF CommittedInv, TypeOK
<1>8. ModeInv'
  BY <1>1, <1>2, <1>5 DEF ModeInv
<1>9. CollectedInv'
  BY <1>1, <1>2, <1>5 DEF CollectedInv, TypeOK, queues
<1>10. AssertionsHold' /\ ControlInv'
  <2>1. primitives_list = {p} => primitives_list' = {} BY <1>1
  <2>2. primitives_list # {p} => op' = "commit"
    BY <1>1 DEF CommitPrimitive, ControlInv
  <2> QED BY <1>1, <1>2, <2>1, <2>2 DEF AssertionsHold, ControlInv
<1> QED BY <1>3, <1>4, <1>6, <1>7, <1>8, <1>9, <1>10

(* The query collects invalid nodes only: a list it empties holds no other *)
(* node.                                                                   *)
LEMMA ExistsFreeIInv ==
    ASSUME IInv, NEW m \in Molecules, NEW T \in BlockTypes[m], ExistsFree(m, T)
    PROVE  IInv'
<1> USE DEF IInv
<1>1. /\ pc = "ready" /\ UNCHANGED <<tried, in_flight, flags, curr_molecule, pc, op, client>>
      /\ \E b \in BOOLEAN : query' = [asked |-> m, answer |-> b]
  BY DEF ExistsFree
<1>2. \E met \in SUBSET Listed :
         /\ \A p \in met : ~valid[p]
         /\ valid_primitives' = [i \in Slots |-> valid_primitives[i] \ (met \cup {NoPrimitive})]
         /\ invalid' = invalid \cup met
  <2>1. NoPrimitive \notin Listed
    BY PrimitivesAssumption DEF TypeOK, Listed
  <2>2. CASE UNCHANGED <<valid_primitives, invalid>>
    <3>1. \A i \in Slots : valid_primitives[i] = valid_primitives[i] \ ({} \cup {NoPrimitive})
      BY <2>1 DEF Listed
    <3>2. valid_primitives' = [i \in Slots |-> valid_primitives[i] \ ({} \cup {NoPrimitive})]
      BY <2>2, <3>1 DEF TypeOK
    <3>3. {} \in SUBSET Listed /\ (\A p \in {} : ~valid[p]) /\ invalid' = invalid \cup {}
      BY <2>2
    <3> QED BY <3>2, <3>3, Zenon
  <2>3. CASE ~ UNCHANGED <<valid_primitives, invalid>>
    <3> DEFINE hit    == {i \in SlotsOf(T) : HasValid(i)}
               passed == {i \in SlotsOf(T) : \A j \in hit : i < j}
               In(S)  == UNION {valid_primitives[i] : i \in S}
               first  == {i \in hit : \A j \in hit : i <= j}
    <3>1. PICK met \in SUBSET Invalids(In(first)) :
             /\ invalid' = invalid \cup In(passed) \cup met
             /\ valid_primitives' =
                    [i \in Slots |-> IF i \in passed THEN {} ELSE valid_primitives[i] \ met]
      BY <2>3 DEF ExistsFree
    <3> DEFINE gone == In(passed) \cup met
    <3>2. passed \subseteq Slots /\ first \subseteq Slots
      BY DEF SlotsOf
    <3>3. \A p \in met : ~valid[p] /\ p \in Listed
      BY <3>2 DEF Invalids, Listed
    <3>4. \A i \in passed : i \notin hit
      BY <3>2, PbTypesFinite DEF Slots
    <3>5. \A i \in passed : \A p \in valid_primitives[i] : ~valid[p]
      BY <3>4 DEF HasValid
    <3>6. gone \subseteq Listed /\ \A p \in gone : ~valid[p]
      BY <3>2, <3>3, <3>5 DEF Listed
    <3>7. \A i \in Slots : (IF i \in passed THEN {} ELSE valid_primitives[i] \ met)
                              = valid_primitives[i] \ (gone \cup {NoPrimitive})
      <4> TAKE i \in Slots
      <4>1. NoPrimitive \notin valid_primitives[i] BY <2>1 DEF Listed
      <4>2. i \in passed => valid_primitives[i] \subseteq gone OBVIOUS
      <4>3. i \notin passed => valid_primitives[i] \cap In(passed) = {}
        BY <3>2 DEF NodeConservation
      <4> QED BY <4>1, <4>2, <4>3
    <3> HIDE DEF gone, passed, first, hit
    <3>8. invalid' = invalid \cup gone
      BY <3>1 DEF gone
    <3> QED BY <3>1, <3>6, <3>7, <3>8
  <2> QED BY <2>2, <2>3
<1>3. PICK met \in SUBSET Listed :
         /\ \A p \in met : ~valid[p]
         /\ valid_primitives' = [i \in Slots |-> valid_primitives[i] \ (met \cup {NoPrimitive})]
         /\ invalid' = invalid \cup met
  BY <1>2
<1>4. /\ NodeConservation' /\ OneListPerType'
      /\ valid_primitives' \in [Slots -> SUBSET Primitives]
      /\ invalid' \in SUBSET Primitives /\ in_flight' \in Nodes
  <2>1. NoPrimitive \in Nodes /\ NoPrimitive \in (Listed \ met) \cup {NoPrimitive} OBVIOUS
  <2>2. in_flight' = IF NoPrimitive = NoPrimitive THEN in_flight ELSE NoPrimitive BY <1>1
  <2> QED BY <1>1, <1>3, <2>1, <2>2, ScanConserves
<1>5. TypeOK'
  BY <1>1, <1>4 DEF TypeOK, flags, client
<1>6. AssertionsHold' /\ ControlInv' /\ OfferInv' /\ CommittedInv' /\ ModeInv' /\ CollectedInv'
  BY <1>1, <1>3 DEF AssertionsHold, ControlInv, OfferInv, CommittedInv, ModeInv, CollectedInv,
                    flags, client
<1> QED BY <1>4, <1>5, <1>6

LEMMA ResetTriedIInv == ASSUME IInv, ResetTried PROVE IInv'
<1> USE DEF IInv
<1>1. NodeConservation' /\ OneListPerType'
  BY QueuesUnchanged DEF ResetTried
<1>2. TypeOK'
  BY DEF ResetTried, TypeOK, queues, flags, client, NoQuery
<1>3. AssertionsHold' /\ ControlInv' /\ OfferInv' /\ CommittedInv' /\ ModeInv' /\ CollectedInv'
  BY DEF ResetTried, AssertionsHold, ControlInv, OfferInv, CommittedInv, ModeInv, CollectedInv,
         queues, flags, client
<1> QED BY <1>1, <1>2, <1>3

LEMMA StutterIInv == ASSUME IInv, UNCHANGED vars PROVE IInv'
<1> USE DEF IInv
<1>1. NodeConservation' /\ OneListPerType'
  BY QueuesUnchanged DEF vars
<1>2. TypeOK'
  BY DEF TypeOK, vars, queues, flags, client
<1>3. AssertionsHold' /\ ControlInv' /\ OfferInv' /\ CommittedInv' /\ ModeInv' /\ CollectedInv'
  BY DEF AssertionsHold, ControlInv, OfferInv, CommittedInv, ModeInv, CollectedInv,
         vars, queues, flags, client
<1> QED BY <1>1, <1>2, <1>3

(* The inductive invariant is one.                                         *)
LEMMA NextIInv == ASSUME IInv, [Next]_vars PROVE IInv'
<1>1. CASE UNCHANGED vars BY <1>1, StutterIInv
<1>2. ASSUME NEW m \in Molecules, NEW k \in Modes, StartCluster(m, k) PROVE IInv'
  BY <1>2, StartClusterIInv
<1>3. ASSUME NEW m \in Molecules, TryPack(m) PROVE IInv'
  BY <1>3, TryPackIInv
<1>4. ASSUME NEW m \in Molecules, NEW T \in BlockTypes[m], ExistsFree(m, T) PROVE IInv'
  BY <1>4, ExistsFreeIInv
<1>5. CASE ResetTried BY <1>5, ResetTriedIInv
<1>6. CASE Flush BY <1>6, FlushTriedIInv, FlushInFlightIInv, FlushDoneIInv DEF Flush
<1>7. CASE RequeueInvalid BY <1>7, RequeueInvalidIInv
<1>8. CASE ResetFlags BY <1>8, ResetFlagsIInv
<1>9. CASE SetMode BY <1>9, SetModeIInv
<1>10. CASE CallNext BY <1>10, CallNextIInv
<1>11. CASE Search BY <1>11, SearchIInv
<1>12. CASE AttemptFails \/ AttemptPasses BY <1>12, AttemptIInv
<1>13. CASE CommitPrimitive BY <1>13, CommitIInv
<1> QED BY <1>1, <1>2, <1>3, <1>4, <1>5, <1>6, <1>7, <1>8, <1>9, <1>10, <1>11, <1>12, <1>13
        DEF Next, Return

THEOREM Invariance == Spec => []IInv
<1> QED BY InitIInv, NextIInv, PTL DEF Spec

(* Every variable keeps its type, at every step of every queue loop.       *)
THEOREM TypeCorrect == Spec => []TypeOK
<1>1. IInv => TypeOK BY DEF IInv
<1> QED BY <1>1, Invariance, PTL

(* cluster_placement.c never loses or duplicates the node of a primitive,  *)
(* whatever sequence of packs, failures, queries and resets the packer     *)
(* makes.                                                                  *)
THEOREM NodesConserved == Spec => [](NodeConservation /\ OneListPerType)
<1>1. IInv => NodeConservation /\ OneListPerType BY DEF IInv
<1> QED BY <1>1, Invariance, PTL

(* The assertions of requeue_primitive, reset_cluster_placement_stats and  *)
(* commit_primitive hold.                                                  *)
THEOREM NoAssertionFails == Spec => []AssertionsHold
<1>1. IInv => AssertionsHold BY DEF IInv
<1> QED BY <1>1, Invariance, PTL

(* get_next_primitive_list hands out free primitives of the right mode.    *)
THEOREM OffersAreFree == Spec => []OfferIsFree
<1>1. IInv => OfferIsFree
  BY DEF IInv, OfferIsFree, ControlInv, OfferInv, CommittedInv, ModeInv, TypeOK
<1> QED BY <1>1, Invariance, PTL

(* The loop of try_pack_molecule never gets a root it already tried.       *)
THEOREM RootsAreFresh == Spec => NeverOfferedTwice
<1>1. ASSUME IInv, [Next]_vars
      PROVE  pc = "search" /\ pc' = "attempt" => in_flight' \notin offered
  <2> SUFFICES ASSUME pc = "search", pc' = "attempt" PROVE in_flight' \notin offered
    OBVIOUS
  <2>1. Search
    BY <1>1 DEF Next, Return, Flush, StartCluster, TryPack, ExistsFree, ResetTried, FlushTried,
         FlushInFlight, FlushDone, RequeueInvalid, ResetFlags, SetMode, CallNext, AttemptFails,
         AttemptPasses, CommitPrimitive, vars
  <2>2. in_flight' \in Listed
    BY <1>1, <2>1, SearchEffect
  <2>3. offered = tried \cup ({in_flight} \ {NoPrimitive})
    BY <1>1 DEF IInv, CollectedInv
  <2> QED BY <1>1, <2>2, <2>3 DEF IInv, NodeConservation
<1>2. ASSUME IInv, [Next]_vars
      PROVE  [pc = "search" /\ pc' = "attempt" => in_flight' \notin offered]_vars
  BY <1>1, <1>2
<1> QED BY <1>2, Invariance, PTL DEF Spec, NeverOfferedTwice

(* get_next_primitive_list returns FALSE only when every root that could   *)
(* hold the molecule was handed out or refused by the early filter.        *)
THEOREM FailuresAreExhaustive == Spec => FailureIsExhaustive
<1> DEFINE Exhausted ==
      \A r \in Primitives :
          \/ r \in offered \/ r \in Forced[molecule]
          \/ PbTypeOf[r] \notin RootTypes[molecule]
          \/ PlacementAt[molecule][r] = {}
          \/ \E p \in PlacementAt[molecule][r] : ~valid[p]
<1>1. ASSUME IInv, [Next]_vars
      PROVE  pc = "search" /\ pc' = "ready" => Exhausted
  <2> SUFFICES ASSUME pc = "search", pc' = "ready", NEW r \in Primitives,
                      r \notin offered, r \notin Forced[molecule],
                      PbTypeOf[r] \in RootTypes[molecule], PlacementAt[molecule][r] # {},
                      \A p \in PlacementAt[molecule][r] : valid[p]
               PROVE  FALSE
    OBVIOUS
  <2>1. Search
    BY <1>1 DEF Next, Return, Flush, StartCluster, TryPack, ExistsFree, ResetTried, FlushTried,
         FlushInFlight, FlushDone, RequeueInvalid, ResetFlags, SetMode, CallNext, AttemptFails,
         AttemptPasses, CommitPrimitive, vars, IInv, TypeOK
  <2>2. PICK refused \in SUBSET Forced[molecule] : Placeable(molecule, refused) = {}
    BY <1>1, <2>1, SearchEffect
  <2>3. molecule \in Molecules /\ in_flight = NoPrimitive
    BY <1>1 DEF IInv, ControlInv
  <2>4. valid[r]
    BY <2>3, PlacementAssumption
  <2>5. r \in Listed
    BY <1>1, <2>3, <2>4, PrimitivesAssumption DEF IInv, NodeConservation, CollectedInv
  <2>6. PICK i \in Slots : r \in valid_primitives[i]
    BY <2>5 DEF Listed
  <2>7. i \in FeasibleSlots(molecule)
    BY <2>6 DEF FeasibleSlots, SlotsOf
  <2>8. r \in Placeable(molecule, refused)
    BY <2>2, <2>4, <2>6, <2>7 DEF Placeable
  <2> QED BY <2>2, <2>8
<1>2. ASSUME IInv, [Next]_vars
      PROVE  [pc = "search" /\ pc' = "ready" => Exhausted]_vars
  BY <1>1, <1>2
<1> QED BY <1>2, Invariance, PTL DEF Spec, FailureIsExhaustive

-----------------------------------------------------------------------------
(* The queues implement the pool of free primitives.                       *)
Free == {p \in Primitives : valid[p]}

LEMMA PoolStep == ASSUME IInv, [Next]_vars PROVE [Pool!PoolNext]_Pool!poolVars
<1> USE DEF IInv
<1> SUFFICES Pool!PoolNext \/ (Free' = Free /\ UNCHANGED <<primitives_list, committed>>)
  BY DEF Pool!poolVars, Free
<1>1. CASE UNCHANGED <<valid, primitives_list, committed>>
  BY <1>1 DEF Free
<1>2. ASSUME NEW m \in Molecules, NEW k \in Modes, StartCluster(m, k)
      PROVE  UNCHANGED <<valid, primitives_list, committed>>
  BY <1>2 DEF StartCluster, flags, ControlInv
<1>3. CASE ResetFlags
  <2>1. Free' = Primitives /\ committed' = {} /\ primitives_list' = {}
    BY <1>3, ResetFlagsEffect DEF Free, ResetFlags, ControlInv
  <2>2. Pool!Reset BY <2>1 DEF Pool!Reset, Free
  <2> QED BY <2>2 DEF Pool!PoolNext
<1>4. CASE SetMode
  <2>1. Free' = {p \in Free : InMode(p, cluster_mode)}
    BY <1>4 DEF SetMode, Free
  <2>2. committed = {} /\ UNCHANGED <<primitives_list, committed>> /\ cluster_mode \in Modes
    BY <1>4 DEF SetMode, ControlInv, client, TypeOK
  <2>3. PICK k \in Modes : cluster_mode = k BY <2>2
  <2>4. Pool!SetMode(k) BY <2>1, <2>2, <2>3 DEF Pool!SetMode, Free
  <2> QED BY <2>4 DEF Pool!PoolNext
<1>5. CASE Search
  <2>1. UNCHANGED <<valid, committed>> BY <1>5 DEF Search, flags
  <2>2. primitives_list = {} BY <1>5 DEF Search, ControlInv
  <2>3. \/ primitives_list' = {}
        \/ \E r \in Primitives : /\ PlacementAt[molecule][r] # {}
                                /\ \A p \in PlacementAt[molecule][r] : valid[p]
                                /\ primitives_list' = PlacementAt[molecule][r]
    BY <1>5, SearchEffect DEF Placeable
  <2>4. primitives_list' \in SUBSET Primitives
    BY SearchIInv, <1>5 DEF TypeOK
  <2>5. CASE primitives_list' = {} BY <2>1, <2>2, <2>5 DEF Free
  <2>6. CASE primitives_list' # {}
    <3>1. primitives_list' \in (SUBSET Free) \ {{}} BY <2>3, <2>4, <2>6 DEF Free
    <3>2. Free' = Free BY <2>1 DEF Free
    <3>3. Pool!Offer BY <2>1, <2>2, <3>1, <3>2 DEF Pool!Offer, Free
    <3> QED BY <3>3 DEF Pool!PoolNext
  <2> QED BY <2>5, <2>6
<1>6. CASE AttemptFails
  <2>1. Free' = Free /\ primitives_list' = {} /\ committed' = committed
    BY <1>6 DEF AttemptFails, flags, Free
  <2>2. Pool!Withdraw BY <2>1 DEF Pool!Withdraw, Free
  <2> QED BY <2>2 DEF Pool!PoolNext
<1>7. CASE CommitPrimitive
  <2>1. PICK p \in primitives_list :
             /\ valid[p]
             /\ valid' = [q \in Primitives |-> valid[q] /\ q # p /\ q \notin Blocked(p)]
             /\ primitives_list' = primitives_list \ {p}
             /\ committed' = committed \cup {p}
    BY <1>7, CommitEffect
  <2>2. p \in Primitives BY DEF TypeOK
  <2>3. Free' = Free \ ({p} \cup Blocked(p)) /\ p \in Free
    BY <2>1, <2>2 DEF Free
  <2>4. Pool!Take(p) BY <2>1, <2>3 DEF Pool!Take, Free
  <2> QED BY <2>2, <2>4 DEF Pool!PoolNext
<1>8. CASE FlushTried \/ FlushInFlight \/ FlushDone \/ RequeueInvalid \/ CallNext
           \/ AttemptPasses \/ ResetTried \/ UNCHANGED vars
  BY <1>1, <1>8 DEF FlushTried, FlushInFlight, FlushDone, RequeueInvalid, CallNext,
       AttemptPasses, ResetTried, Abort, vars, flags, client
<1>9. ASSUME NEW m \in Molecules, TryPack(m)
      PROVE  UNCHANGED <<valid, primitives_list, committed>>
  BY <1>9 DEF TryPack, ControlInv, flags, client
<1>10. ASSUME NEW m \in Molecules, NEW T \in BlockTypes[m], ExistsFree(m, T)
       PROVE  UNCHANGED <<valid, primitives_list, committed>>
  BY <1>10 DEF ExistsFree, flags, client
<1> QED BY <1>1, <1>2, <1>3, <1>4, <1>5, <1>6, <1>7, <1>8, <1>9, <1>10 DEF Next, Return, Flush

(* cluster_placement.c implements PrimitivePool: a primitive is handed out *)
(* only while it is free, and it is free again only after the next reset.  *)
THEOREM ImplementsPrimitivePool == Spec => ImplementsPool
<1>1. Init => Pool!PoolInit
  BY DEF Init, Pool!PoolInit
<1> QED BY <1>1, PoolStep, Invariance, PTL DEF Spec, ImplementsPool, Pool!PoolSpec
=============================================================================
