------------------------- MODULE SlotService_proofs -------------------------
(***************************************************************************)
(* The slot service keeps its promise for any number of clients, models    *)
(* and slots.                                                              *)
(***************************************************************************)
EXTENDS SlotService, TLAPS

ServiceInv == ServiceTypeOK /\ Exclusive

LEMMA ServiceInitially == ServiceInit => ServiceInv
  <1> SUFFICES ASSUME ServiceInit PROVE ServiceInv
    OBVIOUS
  <1>1. ServiceTypeOK
    BY DEF ServiceInit, ServiceTypeOK
  <1>2. Exclusive
    BY DEF ServiceInit, Exclusive, Taken
  <1> QED BY <1>1, <1>2 DEF ServiceInv

LEMMA ServiceStep == ServiceInv /\ [ServiceNext]_serviceVars => ServiceInv'
  <1> SUFFICES ASSUME ServiceInv, [ServiceNext]_serviceVars PROVE ServiceInv'
    OBVIOUS
  <1> USE DEF ServiceInv
  <1>1. ASSUME NEW c \in Clients, NEW p \in Pairs, Acquire(c, p) PROVE ServiceInv'
    <2>1. ServiceTypeOK'
      BY <1>1 DEF Acquire, ServiceTypeOK
    <2>2. grant'[c] = {p} /\ \A d \in Clients \ {c} : grant'[d] = grant[d]
      BY <1>1 DEF Acquire, ServiceTypeOK
    <2>3. \A d \in Clients : p \notin grant[d]
      BY <1>1 DEF Acquire, Taken
    <2>4. Taken' = Taken \cup {p}
      BY <1>1, <2>2 DEF Acquire, Taken
    <2>5. Exclusive'
      <3>1. \A d, e \in Clients : d # e => grant'[d] \cap grant'[e] = {}
        BY <2>2, <2>3 DEF Exclusive
      <3>2. \A q \in Taken' : q[2] < size'[q[1]]
        BY <1>1, <2>4 DEF Acquire, Exclusive
      <3> QED BY <3>1, <3>2 DEF Exclusive
    <2> QED BY <2>1, <2>5
  <1>2. ASSUME NEW c \in Clients, GiveBack(c) PROVE ServiceInv'
    <2>1. ServiceTypeOK'
      BY <1>2 DEF GiveBack, ServiceTypeOK
    <2>2. grant'[c] = {} /\ \A d \in Clients \ {c} : grant'[d] = grant[d]
      BY <1>2 DEF GiveBack, ServiceTypeOK
    <2>3. Taken' \subseteq Taken
      BY <2>2 DEF Taken
    <2>4. Exclusive'
      BY <1>2, <2>2, <2>3 DEF GiveBack, Exclusive
    <2> QED BY <2>1, <2>4
  <1>3. ASSUME NEW m \in Services, NEW n \in 0 .. MaxSize, Change(m, n) PROVE ServiceInv'
    <2>1. ServiceTypeOK'
      BY <1>3 DEF Change, ServiceTypeOK
    <2>2. Taken' = Taken
      BY <1>3 DEF Change, Taken
    <2>3. ASSUME NEW q \in Taken PROVE size'[q[1]] = size[q[1]]
      <3>1. q[1] \in Services /\ q[1] # m
        BY <1>3, <2>3 DEF Change, Idle, Taken, Pairs
      <3> QED BY <1>3, <3>1 DEF Change, ServiceTypeOK
    <2>4. Exclusive'
      BY <1>3, <2>2, <2>3 DEF Change, Exclusive
    <2> QED BY <2>1, <2>4
  <1>4. CASE UNCHANGED serviceVars
    <2>1. grant' = grant /\ size' = size
      BY <1>4 DEF serviceVars
    <2>2. Taken' = Taken
      BY <2>1 DEF Taken
    <2> QED BY <2>1, <2>2 DEF ServiceTypeOK, Exclusive
  <1> QED BY <1>1, <1>2, <1>3, <1>4 DEF ServiceNext

\* The tables of the service hold values of their types, in every behaviour.
THEOREM ServiceTypeCorrect == ServiceSpec => []ServiceTypeOK
  <1>1. ServiceInv => ServiceTypeOK
    BY DEF ServiceInv
  <1> QED BY <1>1, ServiceInitially, ServiceStep, PTL DEF ServiceSpec

\* acquire_slot hands a slot to one client at a time, and a model is never
\* unloaded or resized under a client: Exclusive holds in every behaviour, for
\* any clients, models and slot counts.
THEOREM ServiceExclusive == ServiceSpec => []Exclusive
  <1>1. ServiceInv => Exclusive
    BY DEF ServiceInv
  <1> QED BY <1>1, ServiceInitially, ServiceStep, PTL DEF ServiceSpec
=============================================================================
