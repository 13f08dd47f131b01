--------------------- MODULE BackendCoordinator_proofs ---------------------
(***************************************************************************)
(* What holds of the voice sessions, and of the whole coordinator.         *)
(*                                                                         *)
(* The coordinator takes the steps of PrioritySessions one at a time and   *)
(* touches a session nowhere else, so it implements that specification and *)
(* inherits its theorems.  From CoordinatorLeases_proofs follow the        *)
(* types; from what a grant finds under mutex_ follow the precedence       *)
(* of voice, the counters and the limits of the admission pools; and all   *)
(* together make it an implementation of the slot service.                 *)
(***************************************************************************)
EXTENDS CoordinatorLeases_proofs

----------------------------------------------------------------------------
(* Voice sessions, for any number of clients, guards, chats and            *)
(* reservations.  HoldsMatchHolders is not inductive by itself: a replaced *)
(* entry starts with no holds, and no running chat may already carry its   *)
(* token, which is what TokensName says; TokensName needs the types.       *)

SessionInv == SessionTypeOK /\ TokensName /\ HoldsMatchHolders

----------------------------------------------------------------------------
(* Types. *)

LEMMA UnclaimedType == Guards \cup Chats # {} => Unclaimed \in ClaimType
  <1> SUFFICES ASSUME Guards \cup Chats # {} PROVE Unclaimed \in ClaimType
    OBVIOUS
  <1>1. SessionKeys # {}
    BY SessionAssumption
  <1>2. (CHOOSE k \in SessionKeys : TRUE) \in SessionKeys
    BY <1>1
  <1>3. 0 \in 0 .. MaxToken
    BY SessionAssumption
  <1> QED BY <1>2, <1>3 DEF Unclaimed, ClaimType

\* Completing a hold changes neither the model nor the token of an entry.
LEMMA CompletedSession ==
  ASSUME NEW s \in SessionType
  PROVE /\ Completed(s) \in SessionType
        /\ Completed(s).token = s.token
        /\ Completed(s).holds = IF s.holds > 0 THEN s.holds - 1 ELSE 0
  <1> DEFINE n == IF s.holds > 0 THEN s.holds - 1 ELSE 0
  <1>1. n \in Nat
    BY DEF SessionType
  <1>2. Completed(s) = [s EXCEPT !.holds = n, !.live = TRUE]
    BY DEF Completed
  <1> HIDE DEF n
  <1>3. /\ Completed(s) \in SessionType
        /\ Completed(s).token = s.token
        /\ Completed(s).holds = n
    BY <1>1, <1>2 DEF SessionType
  <1> QED BY <1>3 DEF n

LEMMA NoSessionType == NoSession \in SessionType
  BY SessionAssumption DEF NoSession, SessionType

LEMMA SessionInitially == SessionInit => SessionInv
  <1> SUFFICES ASSUME SessionInit PROVE SessionInv
    OBVIOUS
  <1>1. SessionTypeOK
    BY UnclaimedType, NoSessionType, SessionAssumption DEF SessionInit, SessionTypeOK
  <1>2. TokensName
    BY DEF SessionInit, TokensName, NoSession, Unclaimed
  <1>3. ASSUME NEW k \in SessionKeys PROVE session[k].holds = Cardinality(Holders(k))
    <2>1. Holders(k) = {}
      BY <1>3 DEF SessionInit, Holders, Current, Unclaimed
    <2>2. session[k].holds = 0
      BY <1>3 DEF SessionInit, NoSession
    <2> QED BY <2>1, <2>2, FS_EmptySet
  <1> QED BY <1>1, <1>2, <1>3 DEF SessionInv, HoldsMatchHolders

LEMMA SessionTypeStep == SessionTypeOK /\ [SessionNext]_sessionVars => SessionTypeOK'
  <1> SUFFICES ASSUME SessionTypeOK, [SessionNext]_sessionVars PROVE SessionTypeOK'
    OBVIOUS
  <1> USE DEF SessionTypeOK
  <1>1. ASSUME NEW g \in Guards, NEW k \in SessionKeys, NEW m \in SessionModels,
               Reserve(g, k, m)
        PROVE SessionTypeOK'
    <2>1. Entry(k, m) \in SessionType
      BY <1>1, SessionAssumption DEF Reserve, Entry, SessionType
    <2>2. session' \in [SessionKeys -> SessionType]
      BY <1>1, <2>1, NoSessionType DEF Reserve
    <2>3. [key |-> k, token |-> nextToken] \in ClaimType
      BY <1>1, SessionAssumption DEF Reserve, ClaimType
    <2>4. nextToken' \in 1 .. MaxToken + 1
      BY <1>1, SessionAssumption DEF Reserve, FollowingToken
    <2> QED BY <1>1, <2>2, <2>3, <2>4 DEF Reserve
  <1>2. ASSUME NEW g \in Guards, RefreshAndKeep(g) PROVE SessionTypeOK'
    <2>1. session' \in [SessionKeys -> SessionType]
      BY <1>2 DEF RefreshAndKeep, SessionType
    <2> QED BY <1>2, <2>1, UnclaimedType DEF RefreshAndKeep
  <1>3. ASSUME NEW g \in Guards, ReleaseSession(g) PROVE SessionTypeOK'
    BY <1>3, UnclaimedType, NoSessionType DEF ReleaseSession
  <1>4. ASSUME NEW c \in Chats, NEW k \in SessionKeys, NEW m \in SessionModels, Hold(c, k, m)
        PROVE SessionTypeOK'
    <2>1. session' \in [SessionKeys -> SessionType]
      BY <1>4 DEF Hold, SessionType
    <2>2. [key |-> k, token |-> session[k].token] \in ClaimType
      BY <1>4 DEF SessionType, ClaimType
    <2> QED BY <1>4, <2>1, <2>2 DEF Hold
  <1>5. ASSUME NEW c \in Chats, CompleteHold(c) PROVE SessionTypeOK'
    <2>1. session' \in [SessionKeys -> SessionType]
      BY <1>5, CompletedSession DEF CompleteHold
    <2> QED BY <1>5, <2>1, UnclaimedType DEF CompleteHold
  <1>6. ASSUME NEW k \in SessionKeys, Expire(k) PROVE SessionTypeOK'
    BY <1>6 DEF Expire, SessionType
  <1>7. CASE UNCHANGED sessionVars
    BY <1>7 DEF sessionVars
  <1> QED BY <1>1, <1>2, <1>3, <1>4, <1>5, <1>6, <1>7 DEF SessionNext

----------------------------------------------------------------------------
(* Tokens. *)

LEMMA TokensStep == SessionTypeOK /\ TokensName /\ [SessionNext]_sessionVars => TokensName'
  <1> SUFFICES ASSUME SessionTypeOK, TokensName, [SessionNext]_sessionVars PROVE TokensName'
    OBVIOUS
  <1> USE DEF TokensName, SessionTypeOK, SessionType, ClaimType
  <1>1. ASSUME NEW g \in Guards, NEW k \in SessionKeys, NEW m \in SessionModels,
               Reserve(g, k, m)
        PROVE TokensName'
    <2>1. /\ session'[k].token = nextToken
          /\ \A j \in SessionKeys \ {k} : session'[j].token \in {session[j].token, 0}
      BY <1>1 DEF Reserve, Entry, NoSession
    <2>2. nextToken' = nextToken + 1 /\ nextToken \in Nat /\ nextToken > 0
      BY <1>1 DEF Reserve, FollowingToken
    <2>3. \A j \in SessionKeys : session'[j].token < nextToken'
      BY <2>1, <2>2
    <2>4. \A i, j \in SessionKeys :
             session'[i].token # 0 /\ session'[i].token = session'[j].token => i = j
      BY <2>1, <2>2
    <2>5. \A h \in Guards : guard'[h].token < nextToken'
      BY <1>1, <2>2 DEF Reserve
    <2>6. \A c \in Chats : holding'[c].token < nextToken'
      BY <1>1, <2>2 DEF Reserve
    <2> QED BY <2>3, <2>4, <2>5, <2>6
  <1>2. ASSUME NEW g \in Guards, RefreshAndKeep(g) PROVE TokensName'
    <2>1. \A j \in SessionKeys : session'[j].token = session[j].token
      BY <1>2 DEF RefreshAndKeep
    <2> QED BY <1>2, <2>1 DEF RefreshAndKeep, Unclaimed
  <1>3. ASSUME NEW g \in Guards, ReleaseSession(g) PROVE TokensName'
    <2>1. \A j \in SessionKeys : session'[j].token \in {session[j].token, 0}
      BY <1>3 DEF ReleaseSession, NoSession
    <2> QED BY <1>3, <2>1 DEF ReleaseSession, Unclaimed
  <1>4. ASSUME NEW c \in Chats, NEW k \in SessionKeys, NEW m \in SessionModels, Hold(c, k, m)
        PROVE TokensName'
    <2>1. \A j \in SessionKeys : session'[j].token = session[j].token
      BY <1>4 DEF Hold
    <2> QED BY <1>4, <2>1 DEF Hold
  <1>5. ASSUME NEW c \in Chats, CompleteHold(c) PROVE TokensName'
    <2>1. \A j \in SessionKeys : session'[j].token = session[j].token
      BY <1>5, CompletedSession DEF CompleteHold
    <2> QED BY <1>5, <2>1 DEF CompleteHold, Unclaimed
  <1>6. ASSUME NEW k \in SessionKeys, Expire(k) PROVE TokensName'
    <2>1. \A j \in SessionKeys : session'[j].token = session[j].token
      BY <1>6 DEF Expire
    <2> QED BY <1>6, <2>1 DEF Expire
  <1>7. CASE UNCHANGED sessionVars
    BY <1>7 DEF sessionVars
  <1> QED BY <1>1, <1>2, <1>3, <1>4, <1>5, <1>6, <1>7 DEF SessionNext

----------------------------------------------------------------------------
(* Holds. *)

LEMMA HoldersFinite == ASSUME NEW k PROVE IsFiniteSet(Holders(k)) /\ Cardinality(Holders(k)) \in Nat
  BY SessionAssumption, FS_Subset, FS_CardinalityType DEF Holders

\* An entry nobody holds has no hold count, and the other way round.
LEMMA HoldersEmpty ==
  ASSUME HoldsMatchHolders, NEW k \in SessionKeys
  PROVE session[k].holds = 0 <=> Holders(k) = {}
  BY HoldersFinite, FS_EmptySet DEF HoldsMatchHolders

LEMMA HoldsStep == SessionInv /\ [SessionNext]_sessionVars => HoldsMatchHolders'
  <1> SUFFICES ASSUME SessionInv, [SessionNext]_sessionVars, NEW j \in SessionKeys
               PROVE session'[j].holds = Cardinality(Holders(j)')
    BY DEF HoldsMatchHolders
  <1> USE DEF SessionInv
  <1>0. session[j].holds = Cardinality(Holders(j))
    BY DEF HoldsMatchHolders
  <1>a. ASSUME session'[j].holds = 0, Holders(j)' = {}
        PROVE session'[j].holds = Cardinality(Holders(j)')
    BY <1>a, FS_EmptySet
  <1>b. ASSUME session'[j].holds = session[j].holds, Holders(j)' = Holders(j)
        PROVE session'[j].holds = Cardinality(Holders(j)')
    BY <1>0, <1>b
  <1>1. ASSUME NEW g \in Guards, NEW k \in SessionKeys, NEW m \in SessionModels,
               Reserve(g, k, m)
        PROVE session'[j].holds = Cardinality(Holders(j)')
    <2>1. CASE j = k
      <3>1. session'[j].token = nextToken /\ session'[j].holds = 0
        BY <1>1, <2>1 DEF Reserve, Entry
      <3>2. Holders(j)' = {}
        BY <1>1, <3>1 DEF Reserve, Holders, Current, TokensName, SessionTypeOK, ClaimType
      <3> QED BY <1>a, <3>1, <3>2
    <2>2. CASE j # k /\ Engaged(j)
      <3>1. session'[j] = session[j] /\ holding' = holding
        BY <1>1, <2>2 DEF Reserve
      <3>2. Holders(j)' = Holders(j)
        BY <3>1 DEF Holders, Current
      <3> QED BY <1>b, <3>1, <3>2
    <2>3. CASE j # k /\ ~Engaged(j)
      <3>1. session'[j] = NoSession
        BY <1>1, <2>3 DEF Reserve
      <3>2. session'[j].token = 0 /\ session'[j].holds = 0
        BY <3>1 DEF NoSession
      <3>3. Holders(j)' = {}
        BY <3>2 DEF Holders, Current
      <3> QED BY <1>a, <3>2, <3>3
    <2> QED BY <2>1, <2>2, <2>3
  <1>2. ASSUME NEW g \in Guards, RefreshAndKeep(g)
        PROVE session'[j].holds = Cardinality(Holders(j)')
    <2>1. /\ session'[j].holds = session[j].holds /\ session'[j].token = session[j].token
          /\ holding' = holding
      BY <1>2 DEF RefreshAndKeep, SessionTypeOK, SessionType
    <2>2. Holders(j)' = Holders(j)
      BY <2>1 DEF Holders, Current
    <2> QED BY <1>b, <2>1, <2>2
  <1>3. ASSUME NEW g \in Guards, ReleaseSession(g)
        PROVE session'[j].holds = Cardinality(Holders(j)')
    <2>1. holding' = holding /\ session'[j] \in {session[j], NoSession}
      BY <1>3 DEF ReleaseSession, SessionTypeOK
    <2>2. CASE session'[j] = session[j]
      <3>1. Holders(j)' = Holders(j)
        BY <2>1, <2>2 DEF Holders, Current
      <3> QED BY <1>b, <2>2, <3>1
    <2>3. CASE session'[j] = NoSession
      <3>1. session'[j].token = 0 /\ session'[j].holds = 0
        BY <2>3 DEF NoSession
      <3>2. Holders(j)' = {}
        BY <3>1 DEF Holders, Current
      <3> QED BY <1>a, <3>1, <3>2
    <2> QED BY <2>1, <2>2, <2>3
  <1>4. ASSUME NEW c \in Chats, NEW k \in SessionKeys, NEW m \in SessionModels, Hold(c, k, m)
        PROVE session'[j].holds = Cardinality(Holders(j)')
    <2>1. /\ session'[j].token = session[j].token
          /\ session'[j].holds = IF j = k THEN session[j].holds + 1 ELSE session[j].holds
          /\ holding'[c].key = k /\ holding'[c].token = session[k].token
          /\ \A d \in Chats \ {c} : holding'[d] = holding[d]
          /\ holding[c].token = 0 /\ session[k].token # 0
      BY <1>4 DEF Hold, Engaged, SessionTypeOK, SessionType
    <2>2. c \notin Holders(j)
      BY <2>1 DEF Holders, Current
    <2>3. CASE j = k
      <3>1. Holders(j)' = Holders(j) \cup {c}
        BY <2>1, <2>3 DEF Holders, Current
      <3>2. Cardinality(Holders(j)') = Cardinality(Holders(j)) + 1
        BY <2>2, <3>1, HoldersFinite, FS_AddElement
      <3> QED BY <1>0, <2>1, <2>3, <3>2
    <2>4. CASE j # k
      <3>1. Holders(j)' = Holders(j)
        BY <2>1, <2>2, <2>4 DEF Holders, Current
      <3> QED BY <1>b, <2>1, <2>4, <3>1
    <2> QED BY <2>3, <2>4
  <1>5. ASSUME NEW c \in Chats, CompleteHold(c)
        PROVE session'[j].holds = Cardinality(Holders(j)')
    <2>1. /\ session'[j].token = session[j].token
          /\ holding'[c].token = 0
          /\ \A d \in Chats \ {c} : holding'[d] = holding[d]
      BY <1>5 DEF CompleteHold, Completed, Unclaimed, SessionTypeOK, SessionType
    <2>2. Holders(j)' = Holders(j) \ {c}
      BY <2>1 DEF Holders, Current
    <2>3. CASE c \in Holders(j)
      <3>1. Cardinality(Holders(j)') = Cardinality(Holders(j)) - 1
        BY <2>2, <2>3, HoldersFinite, FS_RemoveElement
      <3>2. session[j].holds # 0
        BY <2>3, HoldersEmpty
      <3>3. session'[j].holds = session[j].holds - 1
        BY <1>5, <2>3, <3>2 DEF CompleteHold, Completed, Holders, SessionTypeOK, SessionType
      <3> QED BY <1>0, <3>1, <3>3
    <2>4. CASE c \notin Holders(j)
      <3>1. session'[j].holds = session[j].holds
        BY <1>5, <2>4 DEF CompleteHold, Holders, SessionTypeOK
      <3> QED BY <1>b, <2>2, <2>4, <3>1
    <2> QED BY <2>3, <2>4
  <1>6. ASSUME NEW k \in SessionKeys, Expire(k)
        PROVE session'[j].holds = Cardinality(Holders(j)')
    <2>1. /\ session'[j].holds = session[j].holds /\ session'[j].token = session[j].token
          /\ holding' = holding
      BY <1>6 DEF Expire, SessionTypeOK, SessionType
    <2>2. Holders(j)' = Holders(j)
      BY <2>1 DEF Holders, Current
    <2> QED BY <1>b, <2>1, <2>2
  <1>7. CASE UNCHANGED sessionVars
    <2>1. session' = session /\ holding' = holding
      BY <1>7 DEF sessionVars
    <2>2. Holders(j)' = Holders(j)
      BY <2>1 DEF Holders, Current
    <2> QED BY <1>b, <2>1, <2>2
  <1> QED BY <1>1, <1>2, <1>3, <1>4, <1>5, <1>6, <1>7 DEF SessionNext

----------------------------------------------------------------------------
(* The theorems. *)

LEMMA SessionInvariant == SessionSpec => []SessionInv
  <1>1. SessionInv /\ [SessionNext]_sessionVars => SessionInv'
    BY SessionTypeStep, TokensStep, HoldsStep DEF SessionInv
  <1> QED BY <1>1, SessionInitially, PTL DEF SessionSpec

\* Every table of the session bookkeeping keeps its type; in particular the
\* counter of holds never leaves the naturals.
THEOREM SessionTypeCorrect == SessionSpec => []SessionTypeOK
  <1>1. SessionInv => SessionTypeOK
    BY DEF SessionInv
  <1> QED BY <1>1, SessionInvariant, PTL

\* A token names one reservation for ever, so a call that carries a stale token
\* cannot be taken for a call about the entry that replaced it.
THEOREM TokensNameReservations == SessionSpec => []TokensName
  <1>1. SessionInv => TokensName
    BY DEF SessionInv
  <1> QED BY <1>1, SessionInvariant, PTL

\* active_holds counts exactly the running chats that hold the entry, however
\* reservations, refreshes, releases, completions and expiry interleave.
THEOREM HoldsAreCounted == SessionSpec => []HoldsMatchHolders
  <1>1. SessionInv => HoldsMatchHolders
    BY DEF SessionInv
  <1> QED BY <1>1, SessionInvariant, PTL

\* The entry of a session with a running chat goes only when its own guard
\* releases it or its own key reserves again: neither expiry nor the purge in
\* reserve_priority_session takes it.
THEOREM HeldSessionsSurvive == SessionSpec => HeldSessionSurvives
  <1> DEFINE Survives ==
        \A k \in SessionKeys :
           Holders(k) # {} /\ session'[k].token # session[k].token
             => \/ \E g \in Guards : guard[g] = [key |-> k, token |-> session[k].token]
                                     /\ guard'[g].token = 0
                \/ session'[k].token = nextToken
  <1>1. SessionInv /\ [SessionNext]_sessionVars => Survives
    <2> SUFFICES ASSUME SessionInv, [SessionNext]_sessionVars, NEW j \in SessionKeys,
                        Holders(j) # {}, session'[j].token # session[j].token
                 PROVE \/ \E g \in Guards : guard[g] = [key |-> j, token |-> session[j].token]
                                            /\ guard'[g].token = 0
                       \/ session'[j].token = nextToken
      OBVIOUS
    <2> USE DEF SessionInv
    <2>1. ASSUME NEW g \in Guards, NEW k \in SessionKeys, NEW m \in SessionModels,
                 Reserve(g, k, m)
          PROVE session'[j].token = nextToken
      <3>1. session[j].holds # 0 /\ session[j].holds \in Nat /\ session[j].token # 0
        BY HoldersEmpty DEF SessionTypeOK, SessionType, Holders, Current
      <3>2. Engaged(j)
        BY <3>1 DEF Engaged
      <3> QED BY <2>1, <3>2 DEF Reserve, Entry
    <2>2. ASSUME NEW g \in Guards, RefreshAndKeep(g) PROVE FALSE
      BY <2>2 DEF RefreshAndKeep, SessionTypeOK, SessionType
    <2>3. ASSUME NEW g \in Guards, ReleaseSession(g)
          PROVE guard[g] = [key |-> j, token |-> session[j].token] /\ guard'[g].token = 0
      <3>1. guard[g].key = j /\ guard[g].token = session[j].token
        BY <2>3 DEF ReleaseSession, Current, SessionTypeOK, ClaimType
      <3>2. guard[g] = [key |-> guard[g].key, token |-> guard[g].token]
        BY DEF SessionTypeOK, ClaimType
      <3>3. guard'[g].token = 0
        BY <2>3 DEF ReleaseSession, SessionTypeOK, Unclaimed
      <3> QED BY <3>1, <3>2, <3>3
    <2>4. ASSUME NEW c \in Chats, NEW k \in SessionKeys, NEW m \in SessionModels, Hold(c, k, m)
          PROVE FALSE
      BY <2>4 DEF Hold, SessionTypeOK, SessionType
    <2>5. ASSUME NEW c \in Chats, CompleteHold(c) PROVE FALSE
      BY <2>5 DEF CompleteHold, Completed, SessionTypeOK, SessionType
    <2>6. ASSUME NEW k \in SessionKeys, Expire(k) PROVE FALSE
      BY <2>6 DEF Expire, SessionTypeOK, SessionType
    <2>7. CASE UNCHANGED sessionVars
      BY <2>7 DEF sessionVars
    <2> QED BY <2>1, <2>2, <2>3, <2>4, <2>5, <2>6, <2>7 DEF SessionNext
  <1>2. SessionInv /\ [SessionNext]_sessionVars => [Survives]_sessionVars
    BY <1>1
  <1>3. HeldSessionSurvives <=> [][Survives]_sessionVars
    BY DEF HeldSessionSurvives
  <1> QED BY <1>2, <1>3, SessionInvariant, PTL DEF SessionSpec

----------------------------------------------------------------------------
(* The coordinator.                                                        *)


\* What every step other than a step of a voice session leaves alone.
Kept == <<setup, sessionVars>>

\* acquire_slot and release_slot only read voice sessions.
LEMMA AdmissionKeeps == AdmissionNext => UNCHANGED Kept
  <1>1. ASSUME NEW r \in Requests, NEW a \in Asks, TryAcquire(r, a) \/ Enqueue(r, a)
        PROVE  UNCHANGED Kept
    BY <1>1 DEF TryAcquire, Enqueue, otherVars, Kept
  <1>2. ASSUME NEW r \in Requests, GiveUp(r) PROVE UNCHANGED Kept
    BY <1>2 DEF GiveUp, otherVars, Kept
  <1>3. ASSUME NEW r \in Requests,
               Estimating(r) \/ EstimateLock(r) \/ EstimateNative(r) \/ EstimateReturn(r)
        PROVE  UNCHANGED Kept
    BY <1>3 DEF Estimating, EstimateLock, EstimateNative, EstimateReturn, TakeResult,
                otherVars, Kept
  <1>4. ASSUME NEW r \in Requests,
               PrepareCapacity(r) \/ CapacityLock(r) \/ CapacityNative(r) \/ CapacityReturn(r)
        PROVE  UNCHANGED Kept
    BY <1>4 DEF PrepareCapacity, CapacityLock, CapacityNative, CapacityReturn, TakeResult,
                otherVars, Kept
  <1>5. ASSUME NEW r \in Requests, PrepareLoad(r) \/ LoadReturn(r) \/ NotReady(r)
        PROVE  UNCHANGED Kept
    BY <1>5 DEF PrepareLoad, LoadReturn, NotReady, TakeResult, otherVars, Kept
  <1>6. ASSUME NEW r \in Requests, CapacityStale(r) \/ Grant(r) \/ Release(r)
        PROVE  UNCHANGED Kept
    BY <1>6 DEF CapacityStale, Grant, Release, otherVars, Kept
  <1> QED BY <1>1, <1>2, <1>3, <1>4, <1>5, <1>6 DEF AdmissionNext

\* Load, unload, swap and the VRAM planner only read voice sessions.
LEMMA LifecycleKeeps == LifecycleNext => UNCHANGED Kept
  <1> USE DEF LoadFails, PlanRefused, untouched, otherVars, Kept
  <1>1. ASSUME NEW t \in Operators, NEW j \in Jobs, Begin(t, j) PROVE UNCHANGED Kept
    BY <1>1 DEF Begin
  <1>2. ASSUME NEW t \in Threads,
               LoadStart(t) \/ LoadGiveUp(t) \/ LoadCreate(t) \/ LoadNative(t)
                 \/ LoadLate(t) \/ LoadEnd(t)
        PROVE  UNCHANGED Kept
    BY <1>2 DEF LoadStart, LoadGiveUp, LoadCreate, LoadNative, LoadLate, LoadEnd
  <1>3. ASSUME NEW t \in Threads,
               UnloadStart(t) \/ UnloadGiveUp(t) \/ Drained(t) \/ DrainGiveUp(t)
                 \/ UnloadNative(t)
        PROVE  UNCHANGED Kept
    BY <1>3 DEF UnloadStart, UnloadGiveUp, Drained, DrainGiveUp, UnloadNative
  <1>4. ASSUME NEW t \in Threads, PlanNext(t) \/ PlanGiveUp(t) PROVE UNCHANGED Kept
    <2>1. ASSUME Plan(t) \/ PlanFits(t) \/ PlanGiveUp(t) PROVE UNCHANGED Kept
      BY <2>1 DEF Plan, PlanFits, PlanGiveUp
    <2>2. ASSUME ReclaimPick(t) \/ ReclaimGuard(t) \/ ReclaimNative(t) \/ ReclaimWait(t)
                   \/ ReclaimAgain(t)
          PROVE  UNCHANGED Kept
      BY <2>2 DEF ReclaimPick, ReclaimGuard, ReclaimNative, ReclaimWait, ReclaimAgain
    <2>3. ASSUME ShrinkPick(t) \/ ShrinkGuard(t) \/ ShrinkNative(t) PROVE UNCHANGED Kept
      BY <2>3 DEF ShrinkPick, ShrinkGuard, ShrinkNative
    <2>4. ASSUME EvictPick(t) \/ EvictGuard(t) \/ Evicted(t) \/ Verdict(t)
          PROVE  UNCHANGED Kept
      BY <2>4 DEF EvictPick, EvictGuard, Evicted, Verdict
    <2> QED BY <1>4, <2>1, <2>2, <2>3, <2>4 DEF PlanNext
  <1>5. ASSUME NEW t \in Threads,
               SwapShort(t) \/ SwapGiveUp(t) \/ SwapStart(t) \/ Legacy(t) \/ SwapLoad(t)
                 \/ SwapLoaded(t)
        PROVE  UNCHANGED Kept
    BY <1>5 DEF SwapShort, SwapGiveUp, SwapStart, Legacy, SwapLoad, SwapLoaded
  <1>6. ASSUME NEW t \in Threads,
               SwapForce(t) \/ SwapRetry(t) \/ Restore(t) \/ RestoreLoad(t)
        PROVE  UNCHANGED Kept
    BY <1>6 DEF SwapForce, SwapRetry, Restore, RestoreLoad
  <1> QED BY <1>1, <1>2, <1>3, <1>4, <1>5, <1>6 DEF LifecycleNext

\* SwapTracker and ensure_model_loaded know nothing of voice sessions.
LEMMA TrackerSpares == TrackerNext => UNCHANGED Kept
  <1> USE DEF quiet, Ensured, Kept
  <1>1. ASSUME SwapEnds PROVE UNCHANGED Kept
    BY <1>1 DEF SwapEnds
  <1>2. ASSUME NEW r \in Requests,
               EnsureReady(r) \/ EnsureGiveUp(r) \/ EnsureRefused(r) \/ EnsureSidecar(r)
                 \/ EnsureStart(r) \/ EnsureAwait(r) \/ EnsureCheck(r)
        PROVE  UNCHANGED Kept
    BY <1>2 DEF EnsureReady, EnsureGiveUp, EnsureRefused, EnsureSidecar, EnsureStart,
                EnsureAwait, EnsureCheck, StartWorker, LaunchFails
  <1>3. ASSUME NEW t \in Operators, PostSwap(t) PROVE UNCHANGED Kept
    BY <1>3 DEF PostSwap, StartWorker, LaunchFails
  <1> QED BY <1>1, <1>2, <1>3 DEF TrackerNext

\* Every step of the coordinator is a step of the voice sessions or leaves them
\* alone, and keeps the configuration it started with.
LEMMA NextKeeps == [Next]_vars => setup' = setup /\ [SessionNext]_sessionVars
  <1> SUFFICES ASSUME [Next]_vars PROVE setup' = setup /\ [SessionNext]_sessionVars
    OBVIOUS
  <1>1. CASE AdmissionNext
    BY <1>1, AdmissionKeeps DEF Kept
  <1>2. CASE LifecycleNext
    BY <1>2, LifecycleKeeps DEF Kept
  <1>3. CASE TrackerNext
    BY <1>3, TrackerSpares DEF Kept
  <1>4. CASE \E m \in Models : Sicken(m) \/ HoldLapses(m)
    BY <1>4 DEF Sicken, HoldLapses, otherVars
  <1>5. CASE \E u \in Samples : Observe(u)
    BY <1>5 DEF Observe, otherVars
  <1>6. CASE Lapse \/ Tick
    BY <1>6 DEF Lapse, Tick, otherVars
  <1>7. CASE Sessions
    BY <1>7 DEF Sessions
  <1>8. CASE Finished \/ UNCHANGED vars
    BY <1>8 DEF Finished, vars, otherVars
  <1> QED BY <1>1, <1>2, <1>3, <1>4, <1>5, <1>6, <1>7, <1>8 DEF Next

\* The coordinator implements the voice sessions: admission, lifecycle, swaps and
\* telemetry change priority_sessions_ nowhere but through its own operations.
THEOREM SessionsImplemented == Spec => SessionSpec
  <1>1. Init => SessionInit
    BY DEF Init
  <1>2. [Next]_vars => [SessionNext]_sessionVars
    BY NextKeeps
  <1> QED BY <1>1, <1>2, PTL DEF Spec, SessionSpec

\* In the whole coordinator a voice session counts exactly the chats that hold it,
\* so a conversation is reserved for as long as one of them runs and no longer.
THEOREM CoordinatorHolds == Spec => [](SessionTypeOK /\ HoldsMatchHolders)
  BY SessionsImplemented, SessionTypeCorrect, HoldsAreCounted, PTL

----------------------------------------------------------------------------
(* Types. *)

\* With what the leases say of sizes, every value is in the type TypeOK states: no
\* instance has fewer than no slots, and only registered models are marked.
LEMMA TypesFollow == ThreadInv /\ LeaseInv /\ SessionTypeOK => TypeOK
  <1> SUFFICES ASSUME ThreadInv, LeaseInv, SessionTypeOK PROVE TypeOK
    OBVIOUS
  <1>0. Types /\ ThreadTypes /\ DataTypes
    BY DEF ThreadInv, Types
  <1>1. ASSUME NEW b \in Instance, b.slots >= 0 PROVE b \in BackendType
    BY <1>1 DEF Instance, BackendType
  <1>2. backend \in [Models -> BackendType]
    <2>1. \A m \in Models : backend[m] \in Instance /\ backend[m].slots >= 0
      BY <1>0, SizesFacts DEF DataTypes, LeaseInv, Settled
    <2> QED BY <1>0, <1>1, <2>1 DEF DataTypes
  <1>3. ASSUME NEW t \in Threads
        PROVE  /\ call[t].res \in Results /\ call[t].error \in Results
               /\ call[t].moved \in BackendType
               /\ call[t].lease \in 0 .. MaxLeaseId
    <2>1. call[t] \in CallType /\ MaxLeaseId \in Nat
      BY <1>0, SetupFields DEF ThreadTypes
    <2>2. call[t].moved.slots >= 0 /\ call[t].lease <= MaxLeaseId
      <3>1. call[t].moved.slots \in Sizes /\ call[t].lease <= MaxLeaseId
        BY DEF LeaseInv, Calm, ThreadInv, ThreadSafe, Safe, Sound
      <3> QED BY <1>0, <3>1, SizesFacts
    <2> QED BY <1>1, <2>1, <2>2, CallFields
  <1>4. ASSUME NEW t \in Threads PROVE DrainMark(t) \subseteq Models /\ ResizeMark(t) \subseteq Models
    <2>1. ThreadSafe(t)
      BY DEF ThreadInv
    <2>2. pc[t] \in OnModel => call[t].model \in Models
      BY <2>1 DEF ThreadSafe, Safe
    <2>3. pc[t] = "growing" => waiter[t].model \in Models
      <3>1. CASE pc[t] = "growing"
        <4>1. t \in Requests
          BY <2>1, <3>1 DEF ThreadSafe, Safe
        <4>2. Asked(waiter[t])
          BY <3>1, <4>1 DEF ThreadInv, WaiterSafe, Outside
        <4> QED BY <1>0, <4>2, AskedModel
      <3> QED BY <3>1
    <2> QED BY <2>2, <2>3 DEF DrainMark, ResizeMark, OnModel, UnloadLabels, Resizers
  <1>5. draining \subseteq Models /\ resizing \subseteq Models
    BY <1>4 DEF ThreadInv, Marks
  <1> QED BY <1>0, <1>2, <1>3, <1>5 DEF TypeOK, ThreadTypes, DataTypes, Names, Primaries

\* The coordinator's tables and every thread's locals hold values of their types, in
\* every interleaving; in particular no counter and no slot count falls below zero.
THEOREM CoordinatorTyped == Spec /\ LeaseHyp => []TypeOK
  <1>1. [](ThreadInv /\ LeaseHyp /\ LeaseInv) /\ []SessionTypeOK => []TypeOK
    BY TypesFollow, PTL
  <1>2. Spec => []SessionTypeOK
    BY CoordinatorHolds, PTL
  <1> QED BY <1>1, <1>2, LeasesAgree, PTL

----------------------------------------------------------------------------
(* Grants. *)

\* What a grant found: nobody else may have the model, and voice does not wait.
Granting(r, w) ==
    /\ w \in WaiterType /\ w.model \in Models
    /\ w.model \notin draining \cup resizing
    /\ Loaded(w.model) /\ Free(w.model) # {} /\ nextLease <= MaxLeaseId
    /\ PoolAllows(w.model) /\ ~WaitsForVoice(w.model, w.key)
    /\ IssueLease(r, w, Min(Free(w.model)))
    /\ UNCHANGED <<owner, current, sample, draining, resizing, otherVars>>

\* The waiter that is next may act.
LEMMA NextActs == ASSUME NEW r, IsNext(r) PROVE Actionable(r)
  <1>1. \A s \in Selected : Actionable(s)
    BY DEF Selected, Foremost
  <1> QED BY <1>1 DEF IsNext

\* acquire_slot grants a slot, or leaves the lease table alone.
LEMMA GrantOr ==
  ASSUME ThreadInv, NEW r \in Requests,
         Grant(r) \/ \E a \in Asks : TryAcquire(r, a)
  PROVE  \/ pc[r] # "leased" /\ \E w \in WaiterType : Granting(r, w)
         \/ UNCHANGED <<leaseVars, backend, call>> /\ Goto(r, "done")
  <1>0. /\ Types /\ ThreadTypes /\ WaiterSafe(r) /\ waiter[r] \in WaiterType
    BY DEF ThreadInv, Types, DataTypes
  <1>1. CASE Grant(r)
    <2>1. pc[r] = "queued" /\ waiter[r].model \in Models
      BY <1>0, <1>1, AskedModel DEF Grant, Proceeds, WaiterSafe, Outside
    <2>2. CASE nextLease <= MaxLeaseId
      <3>1. /\ waiter[r].model \notin draining \cup resizing /\ Free(waiter[r].model) # {}
            /\ PoolAllows(waiter[r].model) /\ IsNext(r)
            /\ IssueLease(r, waiter[r], Min(Free(waiter[r].model)))
            /\ UNCHANGED <<owner, current, sample, draining, resizing, otherVars>>
        BY <1>1, <2>2 DEF Grant, Proceeds
      <3>2. Loaded(waiter[r].model)
        BY <1>1 DEF Grant, WantsSlot, WantsLoad
      <3>3. ~WaitsForVoice(waiter[r].model, waiter[r].key)
        BY <3>1, NextActs DEF Actionable
      <3> QED BY <1>0, <2>1, <2>2, <3>1, <3>2, <3>3 DEF Granting
    <2>3. CASE ~(nextLease <= MaxLeaseId)
      BY <1>1, <2>3 DEF Grant
    <2> QED BY <2>2, <2>3
  <1>2. CASE \E a \in Asks : TryAcquire(r, a)
    <2>1. PICK a \in Asks : TryAcquire(r, a)
      BY <1>2
    <2>2. /\ NewWaiter(a) \in WaiterType /\ a.model \in Models
          /\ NewWaiter(a).model = a.model /\ NewWaiter(a).key = a.key
      <3>1. NewWaiter(a).key = a.key
        BY DEF NewWaiter, NoWaiter
      <3> QED BY <1>0, <2>1, <3>1, NewWaiterType, AskedModel
    <2>3. pc[r] = "start" /\ UNCHANGED <<owner, current, sample, draining, resizing, otherVars>>
      BY <2>1 DEF TryAcquire, Arrives
    <2>4. CASE UNCHANGED <<leaseVars, backend, call>> /\ Goto(r, "done")
      BY <2>4
    <2>5. CASE /\ a.model \notin draining \cup resizing /\ Loaded(a.model)
               /\ Free(a.model) # {} /\ nextLease <= MaxLeaseId
               /\ PoolAllows(a.model) /\ ~WaitsForVoice(a.model, a.key)
               /\ IssueLease(r, NewWaiter(a), Min(Free(a.model)))
      <3> HIDE DEF NewWaiter
      <3>1. Granting(r, NewWaiter(a))
        BY <2>2, <2>3, <2>5 DEF Granting
      <3> QED BY <2>2, <2>3, <3>1
    <2> QED BY <2>1, <2>4, <2>5 DEF TryAcquire
  <1> QED BY <1>1, <1>2

\* Every other step leaves the table and the reservations alone and grants nothing.
Unleased == UNCHANGED <<leases, reserved>> /\ \A r \in Requests : ~Granted(r)

\* A thread that gets to another label than "leased" was granted nothing.
LEMMA Ungranted ==
  ASSUME ThreadTypes, NEW t \in Threads, pc'[t] # "leased" \/ pc'[t] = pc[t],
         \A s \in Threads \ {t} : pc'[s] = pc[s]
  PROVE  \A r \in Requests : ~Granted(r)
  <1>1. \A r \in Requests : r \in Threads
    BY DEF Threads
  <1> QED BY <1>1 DEF Granted

\* A request is granted a slot, gives one back, or leaves the leases alone.
LEMMA RequestSteps ==
  ASSUME ThreadInv, NEW r \in Requests, RequestNext(r)
  PROVE  \/ Unleased
         \/ pc[r] # "leased" /\ \E w \in WaiterType : Granting(r, w)
         \/ Release(r)
  <1>0. /\ ThreadTypes /\ r \in Threads /\ \A s \in Threads \ {r} : pc'[s] = pc[s]
    BY AdmissionGood DEF ThreadInv, Types, Threads, Good, Others
  <1>1. ASSUME NEW p, Goto(r, p), p # "leased" PROVE pc'[r] # "leased"
    BY <1>0, <1>1, Lands
  <1>2. CASE Grant(r) \/ \E a \in Asks : TryAcquire(r, a)
    BY <1>0, <1>1, <1>2, GrantOr, Ungranted DEF Unleased, leaseVars
  <1>3. CASE \E a \in Asks : Enqueue(r, a)
    <2>1. UNCHANGED <<leases, reserved>> /\ (Goto(r, "done") \/ Goto(r, "queued"))
      BY <1>3 DEF Enqueue, leaseVars
    <2> QED BY <1>0, <1>1, <2>1, Ungranted DEF Unleased
  <1>4. CASE GiveUp(r) \/ Estimating(r) \/ EstimateLock(r) \/ EstimateNative(r) \/ EstimateReturn(r)
    <2>1. /\ UNCHANGED <<leases, reserved>>
          /\ \E p \in {"done", "estimate", "estimating", "estimated", "queued"} : Goto(r, p)
      BY <1>4 DEF GiveUp, Estimating, EstimateLock, EstimateNative, EstimateReturn, leaseVars
    <2> QED BY <1>0, <1>1, <2>1, Ungranted DEF Unleased
  <1>5. CASE PrepareCapacity(r) \/ CapacityLock(r) \/ CapacityNative(r) \/ CapacityReturn(r)
             \/ PrepareLoad(r) \/ LoadReturn(r) \/ NotReady(r)
    <2>1. /\ UNCHANGED <<leases, reserved>>
          /\ \E p \in {"capacity", "growing", "grown", "queued", "done", "swap", "ensure"} : Goto(r, p)
      BY <1>5 DEF PrepareCapacity, CapacityLock, CapacityNative, CapacityReturn, TakeResult,
                  PrepareLoad, LoadReturn, NotReady, leaseVars
    <2> QED BY <1>0, <1>1, <2>1, Ungranted DEF Unleased
  <1>6. CASE CapacityStale(r)
    <2>1. UNCHANGED <<leases, reserved>> /\ pc' = pc
      BY <1>6 DEF CapacityStale, leaseVars, threadVars
    <2> QED BY <1>0, <2>1, Ungranted DEF Unleased
  <1> QED BY <1>2, <1>3, <1>4, <1>5, <1>6 DEF RequestNext

\* Load, unload, swap and the planner grant nothing and take nothing back.
LEMMA LifeSteps ==
  ASSUME ThreadInv, NEW t \in Threads, LifeNext(t) \/ \E j \in Jobs : Begin(t, j)
  PROVE  Unleased
  <1>0. /\ ThreadTypes /\ Types /\ ThreadSafe(t) /\ \A s \in Threads \ {t} : pc'[s] = pc[s]
    BY LifeGood DEF ThreadInv, Types, Good, Others
  <1>1. CASE LifeNext(t)
    <2>1. pc'[t] # "leased"
      BY <1>0, <1>1, LifeLands DEF LifeLabels, LoadLabels, UnloadLabels, PlanLabels, SwapLabels, Top
    <2>2. UNCHANGED <<leases, reserved>>
      <3> USE DEF untouched, leaseVars
      <3>1. CASE LoadStart(t) \/ LoadGiveUp(t) \/ LoadCreate(t) \/ LoadNative(t) \/ LoadLate(t)
                 \/ LoadEnd(t)
        BY <3>1 DEF LoadStart, LoadGiveUp, LoadCreate, LoadNative, LoadLate, LoadEnd, LoadFails
      <3>2. CASE UnloadStart(t) \/ UnloadGiveUp(t) \/ Drained(t) \/ DrainGiveUp(t) \/ UnloadNative(t)
        BY <3>2 DEF UnloadStart, UnloadGiveUp, Drained, DrainGiveUp, UnloadNative
      <3>3. CASE PlanNext(t) \/ PlanGiveUp(t)
        BY <3>3 DEF PlanNext, Plan, PlanFits, PlanGiveUp, PlanRefused, ReclaimPick, ReclaimGuard,
           ReclaimNative, ReclaimWait, ReclaimAgain, ShrinkPick, ShrinkGuard, ShrinkNative,
           EvictPick, EvictGuard, Evicted, Verdict
      <3>4. CASE SwapShort(t) \/ SwapGiveUp(t) \/ SwapStart(t) \/ Legacy(t) \/ SwapLoad(t)
                 \/ SwapLoaded(t)
        BY <3>4 DEF SwapShort, SwapGiveUp, SwapStart, Legacy, SwapLoad, SwapLoaded
      <3>5. CASE SwapForce(t) \/ SwapRetry(t) \/ Restore(t) \/ RestoreLoad(t)
        BY <3>5 DEF SwapForce, SwapRetry, Restore, RestoreLoad
      <3> QED BY <1>1, <3>1, <3>2, <3>3, <3>4, <3>5 DEF LifeNext
    <2> QED BY <1>0, <2>1, <2>2, Ungranted DEF Unleased
  <1>2. CASE \E j \in Jobs : Begin(t, j)
    <2>1. PICK j \in Jobs : Begin(t, j)
      BY <1>2
    <2>2. j.op \in {"load", "unload", "post"}
      BY <1>0, SetupFields DEF JobType
    <2>3. pc'[t] = j.op /\ UNCHANGED <<leases, reserved>>
      BY <1>0, <2>1, Lands DEF Begin, untouched, leaseVars
    <2> QED BY <1>0, <2>2, <2>3, Ungranted DEF Unleased
  <1> QED BY <1>1, <1>2

\* Nor does SwapTracker.
LEMMA TrackerSteps == ASSUME ThreadInv, TrackerNext PROVE Unleased
  <1>0. ThreadTypes /\ TrackerGood
    BY TrackerThreads DEF ThreadInv, Types
  <1>1. UNCHANGED <<leases, reserved>>
    BY DEF TrackerNext, SwapEnds, EnsureReady, EnsureGiveUp, EnsureRefused, EnsureSidecar,
       EnsureStart, EnsureAwait, EnsureCheck, PostSwap, Ensured, StartWorker, quiet, leaseVars
  <1>2. ASSUME NEW r \in Requests PROVE pc'[r] = pc[r] \/ pc'[r] # "leased"
    <2>0. r \in Threads /\ Worker \in Threads /\ r # Worker
      BY CoordinatorAssumption DEF Threads
    <2>1. ASSUME NEW t \in Threads, NEW p, p # "leased", Goto(t, p)
          PROVE  pc'[r] = pc[r] \/ pc'[r] # "leased"
      BY <1>0, <2>0, <2>1 DEF Goto, ThreadTypes
    <2>2. ASSUME NEW t \in Threads, NEW m, NEW p, p # "leased", StartWorker(t, m, p)
          PROVE  pc'[r] = pc[r] \/ pc'[r] # "leased"
      BY <1>0, <2>0, <2>2 DEF StartWorker, ThreadTypes
    <2>3. CASE SwapEnds
      BY <2>0, <2>1, <2>3 DEF SwapEnds, GoWith
    <2>4. ASSUME NEW q \in Requests,
                 EnsureReady(q) \/ EnsureGiveUp(q) \/ EnsureRefused(q) \/ EnsureSidecar(q)
                 \/ EnsureStart(q) \/ EnsureAwait(q) \/ EnsureCheck(q)
          PROVE  pc'[r] = pc[r] \/ pc'[r] # "leased"
      <3>1. \/ \E p \in {"prepared", "load", "await", "ensure", "check"} : Goto(q, p)
            \/ \E m : StartWorker(q, m, "await")
        BY <2>4 DEF EnsureReady, EnsureGiveUp, EnsureRefused, EnsureSidecar, EnsureStart,
           EnsureAwait, EnsureCheck, Ensured, CallLoad, GoWith
      <3>2. q \in Threads
        BY DEF Threads
      <3> QED BY <2>1, <2>2, <3>1, <3>2
    <2>5. ASSUME NEW t \in Operators, PostSwap(t) PROVE pc'[r] = pc[r] \/ pc'[r] # "leased"
      <3>1. Goto(t, "finish") \/ \E m : StartWorker(t, m, "finish")
        BY <2>5 DEF PostSwap
      <3>2. t \in Threads
        BY DEF Threads
      <3> QED BY <2>1, <2>2, <3>1, <3>2
    <2> QED BY <2>3, <2>4, <2>5 DEF TrackerNext
  <1> QED BY <1>1, <1>2 DEF Unleased, Granted

\* What any step does to the leases.
LEMMA LeaseSteps ==
  ASSUME ThreadInv, [Next]_vars
  PROVE  \/ Unleased
         \/ \E r \in Requests : pc[r] # "leased" /\ \E w \in WaiterType : Granting(r, w)
         \/ \E r \in Requests : Release(r)
  <1>1. CASE AdmissionNext
    BY <1>1, RequestSteps DEF AdmissionNext, RequestNext
  <1>2. CASE LifecycleNext
    <2>1. PICK t \in Threads : LifeNext(t) \/ \E j \in Jobs : Begin(t, j)
      BY <1>2 DEF LifecycleNext, LifeNext, Threads
    <2> QED BY <2>1, LifeSteps
  <1>3. CASE TrackerNext
    BY <1>3, TrackerSteps
  <1>4. CASE \/ \E m \in Models : Sicken(m) \/ HoldLapses(m)
             \/ \E u \in Samples : Observe(u)
             \/ Lapse \/ Tick \/ Sessions \/ Finished \/ UNCHANGED vars
    <2>1. UNCHANGED <<leases, reserved>> /\ pc' = pc
      BY <1>4 DEF Sicken, HoldLapses, Observe, Lapse, Tick, Sessions, Finished, vars, threadVars,
                  leaseVars
    <2> QED BY <2>1 DEF Unleased, Granted
  <1> QED BY <1>1, <1>2, <1>3, <1>4 DEF Next

\* A grant issues the next id to the request that asked.
LEMMA GrantIssues ==
  ASSUME Types, NEW r \in Requests, NEW w \in WaiterType, Granting(r, w)
  PROVE  /\ nextLease \in LeaseIds /\ call'[r].lease = nextLease
         /\ leases'[nextLease].model = w.model /\ leases'[nextLease].key = w.key
         /\ leases'[nextLease].who = r /\ leases'[nextLease].slot = Min(Free(w.model))
         /\ \A n \in LeaseIds \ {nextLease} : leases'[n] = leases[n]
         /\ pc'[r] = "leased" /\ \A s \in Threads \ {r} : pc'[s] = pc[s] /\ call'[s] = call[s]
         /\ backend' = [backend EXCEPT ![w.model].busy = @ \cup {Min(Free(w.model))}]
  <1>0. /\ r \in Threads /\ ThreadTypes /\ call[r] \in CallType
        /\ leases \in [LeaseIds -> LeaseType] /\ nextLease \in 1 .. MaxLeaseId + 1
        /\ MaxLeaseId \in Nat /\ nextLease <= MaxLeaseId
    BY SetupFields DEF Types, ThreadTypes, DataTypes, Threads, Granting
  <1>1. nextLease \in LeaseIds
    BY <1>0 DEF LeaseIds
  <1>2. /\ call' = [call EXCEPT ![r].lease = nextLease] /\ Goto(r, "leased")
        /\ backend' = [backend EXCEPT ![w.model].busy = @ \cup {Min(Free(w.model))}]
    BY DEF Granting, IssueLease
  <1>3. call'[r].lease = nextLease
    <2>1. call'[r] = [call[r] EXCEPT !.lease = nextLease]
      BY <1>0, <1>2 DEF ThreadTypes
    <2> QED BY <1>0, <2>1 DEF CallType
  <1>4. pc'[r] = "leased" /\ \A s \in Threads \ {r} : pc'[s] = pc[s] /\ call'[s] = call[s]
    BY <1>0, <1>2 DEF Goto, ThreadTypes
  <1>5. /\ leases'[nextLease].model = w.model /\ leases'[nextLease].key = w.key
        /\ leases'[nextLease].who = r /\ leases'[nextLease].slot = Min(Free(w.model))
        /\ \A n \in LeaseIds \ {nextLease} : leases'[n] = leases[n]
    BY <1>0, <1>1 DEF Granting, IssueLease
  <1> QED BY <1>1, <1>2, <1>3, <1>4, <1>5

\* VoiceFirst, for one step.
LEMMA VoicePrecedes ==
  ASSUME ThreadInv, LeaseInv, [Next]_vars, NEW r \in Requests, Granted(r), Primary(GrantedModel(r))
  PROVE  /\ \A w \in Waiting : ~VoiceMedia(waiter[w].model)
         /\ \A n \in Held : ~VoiceMedia(leases[n].model)
         /\ \A k \in SessionKeys : Engaged(k) =>
              \E j \in SessionKeys : /\ Engaged(j)
                                     /\ leases'[call'[r].lease].key = j
                                     /\ session[j].model = GrantedModel(r)
  <1>0. Types /\ ThreadTypes /\ \A q \in Requests : q \in Threads
    BY DEF ThreadInv, Types, Threads
  <1>1. PICK w \in WaiterType : Granting(r, w)
    <2>1. CASE \E q \in Requests : pc[q] # "leased" /\ \E w \in WaiterType : Granting(q, w)
      <3>1. PICK q \in Requests, w \in WaiterType : Granting(q, w)
        BY <2>1
      <3>2. \A t \in Threads \ {q} : pc'[t] = pc[t]
        BY <1>0, <3>1, GrantIssues
      <3>3. pc[r] # "leased" /\ pc'[r] = "leased"
        BY DEF Granted
      <3>4. q = r
        BY <1>0, <3>2, <3>3
      <3> QED BY <3>1, <3>4
    <2>2. CASE \E q \in Requests : Release(q)
      <3>1. PICK q \in Requests : Release(q)
        BY <2>2
      <3>2. \E p \in {"released", "done"} : Goto(q, p)
        BY <3>1 DEF Release
      <3>3. pc'[r] = pc[r] \/ pc'[r] # "leased"
        BY <1>0, <3>2 DEF Goto, ThreadTypes
      <3> QED BY <3>3 DEF Granted
    <2> QED BY <2>1, <2>2, LeaseSteps DEF Unleased
  <1>2. /\ GrantedModel(r) = w.model /\ leases'[call'[r].lease].key = w.key
    BY <1>0, <1>1, GrantIssues DEF GrantedModel
  <1>3. Primary(w.model) /\ ~WaitsForVoice(w.model, w.key)
    BY <1>1, <1>2 DEF Granting
  <1>4. ASSUME NEW n \in Held PROVE ~VoiceMedia(leases[n].model)
    <2>1. leases[n].model \in Models /\ Settled(leases[n].model) /\ n \in HeldOn(leases[n].model)
      BY DEF LeaseInv, Placed, HeldOn
    <2>2. active[leases[n].model] > 0 /\ backend[leases[n].model].st = "loaded"
      BY <1>0, <2>1, HeldFinite DEF Settled, Loaded
    <2> QED BY <1>3, <2>1, <2>2 DEF WaitsForVoice, VoiceActive
  <1> QED BY <1>2, <1>3, <1>4 DEF WaitsForVoice

\* No conversation request is granted a slot while a speech or transcription request
\* waits or runs, or while another client's voice session reserves the conversation:
\* neither a retained continuation, nor a model prepared meanwhile, nor the path that
\* does not queue gets around it.
THEOREM VoiceComesFirst == Spec /\ LeaseHyp => VoiceFirst
  <1>1. ThreadInv /\ LeaseInv /\ [Next]_vars
        => [\A r \in Requests :
             (Granted(r) /\ Primary(GrantedModel(r)))
               => /\ \A w \in Waiting : ~VoiceMedia(waiter[w].model)
                  /\ \A n \in Held : ~VoiceMedia(leases[n].model)
                  /\ \A k \in SessionKeys : Engaged(k) =>
                       \E j \in SessionKeys : /\ Engaged(j)
                                              /\ leases'[call'[r].lease].key = j
                                              /\ session[j].model = GrantedModel(r)]_vars
    BY VoicePrecedes
  <1> QED BY <1>1, LeasesAgree, PTL DEF Spec, VoiceFirst

----------------------------------------------------------------------------
(* The lease table after a grant and after a release. *)

\* A grant puts the next id on the model that was asked for, and nothing else.
LEMMA GrantHolds ==
  ASSUME Types, LeaseInv, setup' = setup, NEW r \in Requests, NEW w \in WaiterType, Granting(r, w)
  PROVE  /\ nextLease \in LeaseIds /\ nextLease \notin Held /\ Held' = Held \cup {nextLease}
         /\ HeldOn(w.model)' = HeldOn(w.model) \cup {nextLease}
         /\ \A m : m # w.model => HeldOn(m)' = HeldOn(m)
         /\ \A n \in Held : leases'[n] = leases[n]
  <1>1. /\ nextLease \in LeaseIds /\ leases'[nextLease].model = w.model
        /\ leases'[nextLease].who = r
        /\ \A n \in LeaseIds \ {nextLease} : leases'[n] = leases[n]
    BY GrantIssues
  <1>2. nextLease \in Int
    BY <1>1 DEF LeaseIds
  <1>3. leases[nextLease] = NoLease
    BY <1>1, <1>2 DEF LeaseInv, Unissued
  <1>4. leases'[nextLease] # NoLease
    <2>1. Nobody # r
      BY CoordinatorAssumption DEF Threads
    <2> QED BY <1>1, <2>1 DEF NoLease
  <1>5. LeaseIds' = LeaseIds
    BY DEF LeaseIds, MaxLeaseId
  <1>6. nextLease \notin Held /\ Held' = Held \cup {nextLease}
    BY <1>1, <1>3, <1>4, <1>5 DEF Held, NoLease
  <1>7. \A n \in Held : leases'[n] = leases[n]
    BY <1>1, <1>3 DEF Held
  <1>8. \A m : HeldOn(m)' = HeldOn(m) \cup {n \in {nextLease} : w.model = m}
    BY <1>1, <1>6, <1>7 DEF HeldOn
  <1>9. HeldOn(w.model)' = HeldOn(w.model) \cup {nextLease}
    BY <1>8
  <1>10. \A m : m # w.model => HeldOn(m)' = HeldOn(m)
    BY <1>8
  <1> QED BY <1>1, <1>6, <1>7, <1>9, <1>10

\* A release takes one lease off the table, or none.
LEMMA ReleaseHolds ==
  ASSUME ThreadInv, LeaseInv, setup' = setup, NEW r \in Requests, Release(r)
  PROVE  \/ UNCHANGED <<leaseVars, backend>>
         \/ \E k \in Held :
              /\ Held' = Held \ {k}
              /\ \A m : HeldOn(m)' = HeldOn(m) \ {k}
              /\ \A n \in Held \ {k} : leases'[n] = leases[n]
              /\ leases[k].model \in Models
              /\ reserved' = [reserved EXCEPT ![leases[k].model] = Reduced(@, leases[k].context)]
              /\ backend' = [backend EXCEPT ![leases[k].model].busy = @ \ {leases[k].slot}]
  <1> DEFINE k == call[r].lease
  <1>1. CASE UNCHANGED <<leaseVars, backend>>
    BY <1>1
  <1>2. CASE /\ leases[k] # NoLease
             /\ leases' = [leases EXCEPT ![k] = NoLease]
             /\ reserved' = [reserved EXCEPT ![leases[k].model] = Reduced(@, leases[k].context)]
             /\ backend' = [backend EXCEPT ![leases[k].model].busy = @ \ {leases[k].slot}]
    <2>1. leases \in [LeaseIds -> LeaseType] /\ LeaseIds' = LeaseIds
      BY DEF ThreadInv, Types, DataTypes, LeaseIds, MaxLeaseId
    <2>2. k \in LeaseIds
      BY DEF Release, ThreadInv, ThreadSafe, Safe, Threads
    <2> HIDE DEF k
    <2>3. k \in Held /\ leases[k].model \in Models
      BY <1>2, <2>2 DEF Held, LeaseInv, Placed
    <2>4. \A n \in LeaseIds : leases'[n] = IF n = k THEN NoLease ELSE leases[n]
      BY <1>2, <2>1
    <2>5. Held' = Held \ {k} /\ \A n \in Held \ {k} : leases'[n] = leases[n]
      BY <2>1, <2>4 DEF Held, NoLease
    <2>6. \A m : HeldOn(m)' = HeldOn(m) \ {k}
      BY <2>5 DEF HeldOn
    <2> QED BY <1>2, <2>3, <2>5, <2>6
  <1> QED BY <1>1, <1>2 DEF Release, leaseVars

----------------------------------------------------------------------------
(* Counters. *)

\* What the leases on a model reserve in the context of its instance.
Contexts == [n \in LeaseIds |-> leases[n].context]
Reserves == \A m \in Models : reserved[m] = Total(Contexts, HeldOn(m))

\* The sum CountsMatch speaks of is one over a function.
LEMMA ContextSum ==
  ASSUME NEW m
  PROVE  MapThenSumSet(LAMBDA n : leases[n].context, HeldOn(m)) = Total(Contexts, HeldOn(m))
  <1> DEFINE S == HeldOn(m)
             Body(F, s) == IF s = {} THEN 0 ELSE leases[Pick(s)].context + F[s \ {Pick(s)}]
  <1>1. S \subseteq LeaseIds
    BY DEF HeldOn, Held
  <1>2. MapThenSumSet(LAMBDA n : leases[n].context, S)
          = (CHOOSE F : F = [s \in SUBSET S |-> Body(F, s)])[S]
    BY DEF MapThenSumSet, MapThenFoldSet, Pick
  <1> HIDE DEF S
  <1>3. ASSUME NEW F, NEW s \in SUBSET S PROVE Body(F, s) = Unroll(Contexts, F, s)
    BY <1>1 DEF Unroll, Contexts, Pick
  <1>4. ASSUME NEW F
        PROVE  [s \in SUBSET S |-> Body(F, s)] = [s \in SUBSET S |-> Unroll(Contexts, F, s)]
    BY <1>3
  <1>5. (CHOOSE F : F = [s \in SUBSET S |-> Body(F, s)]) = Sums(Contexts, S)
    BY <1>4, Zenon DEF Sums
  <1>6. MapThenSumSet(LAMBDA n : leases[n].context, S) = Total(Contexts, S)
    BY <1>2, <1>5, TotalDef, Zenon
  <1> QED BY <1>6 DEF S

\* The leases of a model, and what they reserve.
LEMMA ContextTypes ==
  ASSUME Types, NEW m
  PROVE  /\ IsFiniteSet(HeldOn(m)) /\ \A n \in HeldOn(m) : n \in LeaseIds /\ Contexts[n] \in Nat
         /\ Total(Contexts, HeldOn(m)) \in Nat
  <1>1. IsFiniteSet(HeldOn(m))
    BY HeldFinite DEF Types
  <1>2. \A n \in LeaseIds : leases[n] \in LeaseType /\ Contexts[n] = leases[n].context
    BY DEF Types, DataTypes, Contexts
  <1>3. \A n \in HeldOn(m) : n \in LeaseIds
    BY DEF HeldOn, Held
  <1>4. \A n \in HeldOn(m) : Contexts[n] \in Nat
    BY <1>2, <1>3 DEF LeaseType
  <1> QED BY <1>1, <1>3, <1>4, TotalNat

\* A reservation that is part of the total can be taken back whole.
LEMMA ReducedWhole == ASSUME NEW x \in Nat, NEW y \in Nat PROVE Reduced(x + y, x) = y
  <1>1. x + y - x = y /\ 0 \in Int /\ y \in Int
    OBVIOUS
  <1>2. Max({0, y}) = IF 0 >= y THEN 0 ELSE y
    BY <1>1, MaxOf
  <1>3. Max({0, y}) = y
    BY <1>2
  <1> QED BY <1>1, <1>3 DEF Reduced

\* Every step keeps the reservations equal to the sums over the lease table.
LEMMA ReservesKept ==
  ASSUME ThreadInv, LeaseInv, Reserves, [Next]_vars
  PROVE  Reserves'
  <1>0. /\ Types /\ Types' /\ setup' = setup /\ Models' = Models
        /\ reserved \in [Models -> Nat] /\ leases \in [LeaseIds -> LeaseType]
        /\ LeaseIds' = LeaseIds
    BY SetupFixed, ThreadInvStep DEF ThreadInv, Types, DataTypes, LeaseIds, MaxLeaseId
  <1>1. \A n \in LeaseIds : Contexts[n] = leases[n].context /\ Contexts'[n] = leases'[n].context
    BY <1>0 DEF Contexts
  <1>2. CASE Unleased
    <2>1. Contexts' = Contexts /\ \A m : HeldOn(m)' = HeldOn(m)
      BY <1>0, <1>2 DEF Unleased, Contexts, HeldOn, Held, NoLease
    <2> QED BY <1>2, <2>1 DEF Unleased, Reserves
  <1>3. CASE \E r \in Requests : \E w \in WaiterType : Granting(r, w)
    <2>1. PICK r \in Requests, w \in WaiterType : Granting(r, w)
      BY <1>3
    <2> DEFINE c == IF w.demandPrepared THEN w.demand ELSE 0
               k == nextLease
    <2>2. /\ k \in LeaseIds /\ k \notin Held
          /\ HeldOn(w.model)' = HeldOn(w.model) \cup {k}
          /\ \A m : m # w.model => HeldOn(m)' = HeldOn(m)
          /\ \A n \in Held : leases'[n] = leases[n]
      BY <1>0, <2>1, GrantHolds
    <2>3. /\ reserved' = [reserved EXCEPT ![w.model] = @ + c]
          /\ leases'[k].context = c /\ c \in Nat /\ w.model \in Models
      BY <1>0, <2>1, <2>2 DEF Granting, IssueLease, WaiterType
    <2> HIDE DEF c, k
    <2>4. ASSUME NEW m PROVE k \notin HeldOn(m) /\ \A n \in HeldOn(m) : n \in LeaseIds /\ Contexts'[n] = Contexts[n]
      BY <1>1, <2>2 DEF HeldOn, Held
    <2>5. ASSUME NEW m \in Models PROVE reserved'[m] = Total(Contexts', HeldOn(m)')
      <3>1. IsFiniteSet(HeldOn(m)) /\ \A n \in HeldOn(m) : Contexts[n] \in Nat
        BY <1>0, ContextTypes
      <3>2. reserved[m] = Total(Contexts, HeldOn(m)) /\ reserved[m] \in Nat
        BY <1>0 DEF Reserves
      <3>3. CASE m = w.model
        <4>1. Contexts'[k] = c /\ c \in Int /\ k \notin HeldOn(m)
          BY <1>1, <2>2, <2>3, <2>4
        <4>2. \A n \in HeldOn(m) : Contexts[n] \in Int /\ Contexts'[n] = Contexts[n]
          BY <2>4, <3>1
        <4>3. Total(Contexts', HeldOn(m) \cup {k}) = Total(Contexts, HeldOn(m)) + Contexts'[k]
          BY <3>1, <4>1, <4>2, TotalAdd
        <4>4. reserved'[m] = reserved[m] + c
          BY <1>0, <2>3, <3>3
        <4> QED BY <2>2, <3>2, <3>3, <4>1, <4>3, <4>4
      <3>4. CASE m # w.model
        <4>1. reserved'[m] = reserved[m] /\ HeldOn(m)' = HeldOn(m)
          BY <1>0, <2>2, <2>3, <3>4
        <4>2. \A n \in HeldOn(m) : Contexts'[n] = Contexts[n]
          BY <2>4
        <4>3. Total(Contexts', HeldOn(m)) = Total(Contexts, HeldOn(m))
          BY <3>1, <4>2, TotalSame
        <4> QED BY <3>2, <4>1, <4>3
      <3> QED BY <3>3, <3>4
    <2> QED BY <1>0, <2>5 DEF Reserves
  <1>4. CASE \E r \in Requests : Release(r)
    <2>1. PICK r \in Requests : Release(r)
      BY <1>4
    <2>2. CASE UNCHANGED <<leaseVars, backend>>
      <3>1. Contexts' = Contexts /\ \A m : HeldOn(m)' = HeldOn(m)
        BY <1>0, <2>2 DEF leaseVars, Contexts, HeldOn, Held, NoLease
      <3> QED BY <2>2, <3>1 DEF leaseVars, Reserves
    <2>3. ASSUME NEW k \in Held,
                 \A m : HeldOn(m)' = HeldOn(m) \ {k},
                 \A n \in Held \ {k} : leases'[n] = leases[n],
                 leases[k].model \in Models,
                 reserved' = [reserved EXCEPT ![leases[k].model] = Reduced(@, leases[k].context)]
          PROVE  Reserves'
      <3>1. k \in LeaseIds /\ Contexts[k] = leases[k].context /\ k \in HeldOn(leases[k].model)
        BY <1>1 DEF Held, HeldOn
      <3>2. ASSUME NEW m \in Models PROVE reserved'[m] = Total(Contexts', HeldOn(m)')
        <4> DEFINE R == HeldOn(m) \ {k}
        <4>1. IsFiniteSet(HeldOn(m)) /\ \A n \in HeldOn(m) : Contexts[n] \in Nat
          BY <1>0, ContextTypes
        <4>2. reserved[m] = Total(Contexts, HeldOn(m)) /\ reserved[m] \in Nat
          BY <1>0 DEF Reserves
        <4>3. IsFiniteSet(R) /\ \A n \in R : Contexts'[n] = Contexts[n]
          BY <1>1, <2>3, <4>1, FS_Subset DEF HeldOn, Held
        <4>4. Total(Contexts', R) = Total(Contexts, R)
          <5> HIDE DEF R
          <5> QED BY <4>3, TotalSame
        <4>5. CASE m = leases[k].model
          <5>1. \A n \in HeldOn(m) : Contexts[n] \in Int
            BY <4>1
          <5>2. Total(Contexts, HeldOn(m)) = Contexts[k] + Total(Contexts, R)
            BY <3>1, <4>1, <4>5, <5>1, TotalRemove
          <5>3. Contexts[k] \in Nat /\ Total(Contexts, R) \in Nat
            <6>1. \A n \in R : Contexts[n] \in Nat
              BY <4>1
            <6>2. Total(Contexts, R) \in Nat
              <7> HIDE DEF R
              <7> QED BY <4>3, <6>1, TotalNat
            <6> QED BY <3>1, <4>1, <4>5, <6>2
          <5> HIDE DEF R
          <5>4. Reduced(reserved[m], Contexts[k]) = Total(Contexts, R)
            BY <4>2, <5>2, <5>3, ReducedWhole
          <5>5. reserved'[m] = Reduced(reserved[m], Contexts[k])
            BY <1>0, <2>3, <3>1, <4>5
          <5>6. HeldOn(m)' = R
            BY <2>3 DEF R
          <5> QED BY <4>4, <5>4, <5>5, <5>6
        <4>6. CASE m # leases[k].model
          <5>1. reserved'[m] = reserved[m]
            BY <1>0, <2>3, <4>6
          <5>2. R = HeldOn(m) /\ HeldOn(m)' = R
            BY <2>3, <4>6 DEF HeldOn
          <5> HIDE DEF R
          <5> QED BY <4>2, <4>4, <5>1, <5>2
        <4> QED BY <4>5, <4>6
      <3> QED BY <1>0, <3>2 DEF Reserves
    <2> QED BY <1>0, <2>1, <2>2, <2>3, ReleaseHolds
  <1> QED BY <1>2, <1>3, <1>4, LeaseSteps

\* Nothing is reserved when the process starts.
LEMMA ReservesInit == Init => Reserves
  <1> SUFFICES ASSUME Init, NEW m \in Models PROVE reserved[m] = Total(Contexts, HeldOn(m))
    BY DEF Reserves
  <1>1. HeldOn(m) = {} /\ reserved[m] = 0
    BY DEF Init, HeldOn, Held
  <1> QED BY <1>1, TotalEmpty

\* CountsMatch, in one state.
LEMMA CountsFollow == ThreadInv /\ LeaseInv /\ Reserves => CountsMatch
  <1> SUFFICES ASSUME ThreadInv, LeaseInv, Reserves, NEW m \in Models
               PROVE  /\ active[m] = Cardinality(HeldOn(m))
                      /\ reserved[m] = MapThenSumSet(LAMBDA n : leases[n].context, HeldOn(m))
                      /\ Loaded(m) => Cardinality(backend[m].busy) = Cardinality(HeldOn(m))
    BY DEF CountsMatch
  <1>1. Settled(m) /\ IsFiniteSet(HeldOn(m))
    BY HeldFinite DEF LeaseInv, ThreadInv, Types
  <1>2. reserved[m] = MapThenSumSet(LAMBDA n : leases[n].context, HeldOn(m))
    BY ContextSum DEF Reserves
  <1>3. Cardinality(backend[m].busy) = Cardinality(HeldOn(m))
    <2> DEFINE f == [n \in HeldOn(m) |-> leases[n].slot]
    <2>1. f \in Bijection(HeldOn(m), SlotsOf(m))
      <3>1. f \in [HeldOn(m) -> SlotsOf(m)]
        BY DEF SlotsOf
      <3>2. \A i, o \in HeldOn(m) : f[i] = f[o] => i = o
        BY <1>1 DEF Settled
      <3>3. \A s \in SlotsOf(m) : \E n \in HeldOn(m) : f[n] = s
        BY DEF SlotsOf
      <3> HIDE DEF f
      <3> QED BY <3>1, <3>2, <3>3 DEF Bijection, Injection, Surjection, IsInjective
    <2>2. ExistsBijection(HeldOn(m), SlotsOf(m))
      BY <2>1, Zenon DEF ExistsBijection
    <2>3. Cardinality(SlotsOf(m)) = Cardinality(HeldOn(m))
      BY <1>1, <2>2, FS_Bijection
    <2> QED BY <1>1, <2>3 DEF Settled
  <1> QED BY <1>1, <1>2, <1>3 DEF Settled

\* The counters admission and draining read are what the lease table says, in every
\* interleaving: none is lost when a release races an unload, none is counted twice.
THEOREM CountsAlwaysMatch == Spec /\ LeaseHyp => []CountsMatch
  <1>1. Init => Reserves
    BY ReservesInit
  <1>2. ThreadInv /\ LeaseInv /\ Reserves /\ [Next]_vars => Reserves'
    BY ReservesKept
  <1>3. Spec /\ LeaseHyp => []Reserves
    BY <1>1, <1>2, LeasesAgree, PTL DEF Spec
  <1> QED BY <1>3, CountsFollow, LeasesAgree, PTL

----------------------------------------------------------------------------
(* Admission pools. *)

\* The leases on fixed-capacity models of m's pool, and the limits of those models.
PoolModels(m) == {n \in Models : ~Info[n].auto /\ Info[n].pool = Info[m].pool}
PoolLeases(m) == {n \in Held : leases[n].model \in PoolModels(m)}
PoolLimits(m) == {Info[n].limit : n \in PoolModels(m)}

\* The largest limit of a pool is the limit of one of its models.
LEMMA LimitFound ==
  ASSUME ThreadTypes, NEW m \in Models, NEW w \in PoolModels(m)
  PROVE  Max(PoolLimits(m)) \in Nat /\ Info[w].limit \in Nat /\ Info[w].limit <= Max(PoolLimits(m))
  <1>1. \A n \in Models : Info[n].limit \in Nat
    BY SetupFields DEF InfoType
  <1>2. IsFiniteSet(PoolLimits(m))
    <2> DEFINE f == [n \in PoolModels(m) |-> Info[n].limit]
    <2>1. IsFiniteSet(PoolModels(m))
      BY RegistryAssumption, FS_Subset DEF PoolModels
    <2>2. f \in Surjection(PoolModels(m), PoolLimits(m))
      BY DEF Surjection, PoolLimits
    <2> HIDE DEF f
    <2> QED BY <2>1, <2>2, FS_Surjection
  <1>3. PoolLimits(m) \in SUBSET Int /\ Info[w].limit \in PoolLimits(m)
    BY <1>1 DEF PoolLimits, PoolModels
  <1>4. Max(PoolLimits(m)) \in PoolLimits(m) /\ \A y \in PoolLimits(m) : Max(PoolLimits(m)) >= y
    BY <1>2, <1>3, Greatest
  <1>5. Max(PoolLimits(m)) \in Nat
    BY <1>1, <1>4 DEF PoolLimits, PoolModels
  <1> QED BY <1>1, <1>3, <1>4, <1>5 DEF PoolModels

\* The load admission compares with the limit counts every lease of the pool.
LEMMA LoadCounts ==
  ASSUME ThreadInv, LeaseInv, NEW m \in Models
  PROVE  /\ IsFiniteSet(PoolLeases(m)) /\ Cardinality(PoolLeases(m)) \in Nat
         /\ PoolLoad(m) \in Nat /\ Cardinality(PoolLeases(m)) <= PoolLoad(m)
  <1> DEFINE S == {n \in Models : active[n] > 0 /\ Info[n].pool = Info[m].pool}
             k == [n \in LeaseIds |-> leases[n].model]
             C == Counted(Held, k, S)
  <1>0. /\ ThreadTypes /\ \A n \in Models : active[n] \in Nat /\ Settled(n)
    BY DEF ThreadInv, Types, DataTypes, LeaseInv
  <1>1. IsFiniteSet(S)
    BY RegistryAssumption, FS_Subset
  <1>2. IsFiniteSet(Held)
    <2>1. IsFiniteSet(1 .. MaxLeaseId)
      BY <1>0, SetupFields, FS_Interval
    <2> QED BY <2>1, FS_Subset DEF Held, LeaseIds
  <1>3. \A x \in S : active[x] = Cardinality(Counted(Held, k, {x}))
    <2>1. ASSUME NEW x \in S PROVE Counted(Held, k, {x}) = HeldOn(x)
      BY DEF Counted, HeldOn, Held
    <2> QED BY <1>0, <2>1 DEF Settled
  <1>4. PoolLoad(m) = Total(active, S)
    BY DEF PoolLoad, Total
  <1> HIDE DEF S
  <1>5. Total(active, S) = Cardinality(C)
    <2> HIDE DEF k
    <2> QED BY <1>1, <1>2, <1>3, TotalCounts
  <1>6. C \subseteq Held /\ PoolLeases(m) \subseteq C
    <2>1. ASSUME NEW n \in PoolLeases(m) PROVE n \in C
      <3>1. n \in HeldOn(leases[n].model) /\ leases[n].model \in PoolModels(m) /\ n \in LeaseIds
        BY DEF PoolLeases, HeldOn, Held
      <3>2. active[leases[n].model] > 0
        BY <1>0, <3>1, SettledIdle DEF PoolModels
      <3>3. leases[n].model \in S
        BY <3>1, <3>2 DEF S, PoolModels
      <3> QED BY <3>1, <3>3 DEF Counted, PoolLeases
    <2> QED BY <2>1 DEF Counted
  <1> HIDE DEF C
  <1>7. IsFiniteSet(C) /\ Cardinality(C) \in Nat
    BY <1>2, <1>6, FS_Subset, FS_CardinalityType
  <1>8. IsFiniteSet(PoolLeases(m)) /\ Cardinality(PoolLeases(m)) <= Cardinality(C)
    BY <1>6, <1>7, FS_Subset
  <1>9. Cardinality(PoolLeases(m)) \in Nat
    BY <1>8, FS_CardinalityType
  <1> QED BY <1>4, <1>5, <1>7, <1>8, <1>9

Pooled == \A m \in Models : ~Info[m].auto => Cardinality(PoolLeases(m)) <= Max(PoolLimits(m))

\* Every step keeps the pools within their limits.
LEMMA PoolsKept == ASSUME ThreadInv, LeaseInv, Pooled, [Next]_vars PROVE Pooled'
  <1>0. /\ Types /\ ThreadTypes /\ setup' = setup /\ Models' = Models /\ LeaseIds' = LeaseIds
        /\ leases \in [LeaseIds -> LeaseType]
    BY SetupFixed DEF ThreadInv, Types, DataTypes, LeaseIds, MaxLeaseId
  <1>1. \A m : PoolModels(m)' = PoolModels(m) /\ PoolLimits(m)' = PoolLimits(m)
    BY <1>0 DEF PoolModels, PoolLimits, Info
  <1> SUFFICES ASSUME NEW m \in Models, ~Info[m].auto
               PROVE  Cardinality(PoolLeases(m)') <= Max(PoolLimits(m))
    BY <1>0, <1>1 DEF Pooled, Info
  <1>2. m \in PoolModels(m)
    BY DEF PoolModels
  <1>3. /\ IsFiniteSet(PoolLeases(m)) /\ Cardinality(PoolLeases(m)) \in Nat
        /\ Max(PoolLimits(m)) \in Nat /\ Cardinality(PoolLeases(m)) <= Max(PoolLimits(m))
    BY <1>0, <1>2, LoadCounts, LimitFound DEF Pooled
  <1>4. CASE PoolLeases(m)' \subseteq PoolLeases(m)
    <2>1. /\ IsFiniteSet(PoolLeases(m)')
          /\ Cardinality(PoolLeases(m)') <= Cardinality(PoolLeases(m))
      BY <1>3, <1>4, FS_Subset
    <2>2. Cardinality(PoolLeases(m)') \in Nat
      BY <2>1, FS_CardinalityType
    <2> QED BY <1>3, <2>1, <2>2
  <1>5. CASE Unleased
    <2>1. PoolLeases(m)' = PoolLeases(m)
      BY <1>0, <1>1, <1>5 DEF Unleased, PoolLeases, Held, NoLease
    <2> QED BY <1>4, <2>1
  <1>6. CASE \E r \in Requests : Release(r)
    <2>1. Held' \subseteq Held /\ \A n \in Held' : leases'[n] = leases[n]
      <3>1. PICK r \in Requests : Release(r)
        BY <1>6
      <3>2. CASE UNCHANGED <<leaseVars, backend>>
        BY <1>0, <3>2 DEF leaseVars, Held, NoLease
      <3> QED BY <1>0, <3>1, <3>2, ReleaseHolds
    <2>2. PoolLeases(m)' \subseteq PoolLeases(m)
      BY <1>1, <2>1 DEF PoolLeases
    <2> QED BY <1>4, <2>2
  <1>7. CASE \E r \in Requests : \E w \in WaiterType : Granting(r, w)
    <2>1. PICK r \in Requests, w \in WaiterType : Granting(r, w)
      BY <1>7
    <2> DEFINE k == nextLease
    <2>2. /\ k \notin Held /\ Held' = Held \cup {k} /\ leases'[k].model = w.model
          /\ \A n \in Held : leases'[n] = leases[n]
      BY <1>0, <2>1, GrantHolds, GrantIssues
    <2> HIDE DEF k
    <2>3. w.model \in Models /\ PoolAllows(w.model)
      BY <2>1 DEF Granting
    <2>4. CASE w.model \notin PoolModels(m)
      <3>1. PoolLeases(m)' \subseteq PoolLeases(m)
        BY <1>1, <2>2, <2>4 DEF PoolLeases
      <3> QED BY <1>4, <3>1
    <2>5. CASE w.model \in PoolModels(m)
      <3>1. PoolLeases(m)' = PoolLeases(m) \cup {k} /\ k \notin PoolLeases(m)
        BY <1>1, <2>2, <2>5 DEF PoolLeases
      <3>2. Cardinality(PoolLeases(m) \cup {k}) = Cardinality(PoolLeases(m)) + 1
        BY <1>3, <3>1, FS_AddElement
      <3>3. PoolLoad(w.model) < Info[w.model].limit
        BY <2>3, <2>5 DEF PoolAllows, PoolModels
      <3>4. PoolLoad(w.model) \in Nat /\ Cardinality(PoolLeases(w.model)) <= PoolLoad(w.model)
        BY <2>3, LoadCounts
      <3>5. PoolLeases(w.model) = PoolLeases(m)
        BY <2>5 DEF PoolLeases, PoolModels
      <3>6. Info[w.model].limit \in Nat /\ Info[w.model].limit <= Max(PoolLimits(m))
        BY <1>0, <2>5, LimitFound
      <3> QED BY <1>3, <3>1, <3>2, <3>3, <3>4, <3>5, <3>6
    <2> QED BY <2>4, <2>5
  <1> QED BY <1>5, <1>6, <1>7, LeaseSteps

\* No lease, no load.
LEMMA PoolsInit == Init => Pooled
  <1> SUFFICES ASSUME Init, NEW m \in Models, ~Info[m].auto
               PROVE  Cardinality(PoolLeases(m)) <= Max(PoolLimits(m))
    BY DEF Pooled
  <1>1. PoolLeases(m) = {} /\ Cardinality(PoolLeases(m)) = 0
    BY FS_EmptySet DEF Init, PoolLeases, Held
  <1>2. ThreadTypes /\ m \in PoolModels(m)
    BY ThreadInvInit DEF ThreadInv, Types, PoolModels
  <1>3. Max(PoolLimits(m)) \in Nat
    BY <1>2, LimitFound
  <1> QED BY <1>1, <1>3

\* However requests, loads and releases interleave, the fixed-capacity models of a
\* pool never serve more requests together than the pool admits.
THEOREM PoolsStayWithinLimit == Spec /\ LeaseHyp => []PoolWithinLimit
  <1>1. Init => Pooled
    BY PoolsInit
  <1>2. ThreadInv /\ LeaseInv /\ Pooled /\ [Next]_vars => Pooled'
    BY PoolsKept
  <1>3. Spec /\ LeaseHyp => []Pooled
    BY <1>1, <1>2, LeasesAgree, PTL DEF Spec
  <1>4. Pooled => PoolWithinLimit
    BY DEF Pooled, PoolLeases, PoolLimits, PoolModels, PoolWithinLimit
  <1> QED BY <1>3, <1>4, PTL

----------------------------------------------------------------------------
(* The slot service. *)

\* Some number bounds the slots that are configured, so that the largest exists.
SlotsBounded == \E k \in Nat : \A s \in Setups, m \in Models : s.info[m].slots <= k

\* Every size the coordinator may give an instance is within that largest number.
LEMMA MostFound ==
  ASSUME SlotsBounded
  PROVE  MostSlots \in Nat /\ \A n \in Sizes : n <= MostSlots
  <1> DEFINE S == {0} \cup {s.info[m].slots : s \in Setups, m \in Models}
  <1>1. \A s \in Setups, m \in Models : s.info[m].slots \in Nat
    BY CoordinatorAssumption DEF SetupType, InfoType
  <1>2. PICK k \in Nat : \A s \in Setups, m \in Models : s.info[m].slots <= k
    BY DEF SlotsBounded
  <1>3. IsFiniteSet(0 .. k)
    BY FS_Interval
  <1>4. S \subseteq 0 .. k
    BY <1>1, <1>2
  <1>5. IsFiniteSet(S) /\ S \in SUBSET Int /\ 0 \in S
    BY <1>3, <1>4, FS_Subset
  <1>6. Max(S) \in S /\ \A y \in S : Max(S) >= y
    <2> HIDE DEF S
    <2> QED BY <1>5, Greatest
  <1>7. Max(S) \in Nat /\ Max(S) >= 0
    BY <1>4, <1>5, <1>6
  <1>8. ASSUME NEW n \in Sizes PROVE n <= Max(S)
    <2>1. CASE n = 0
      BY <1>7, <2>1
    <2>2. CASE n # 0
      <3>1. PICK s \in Setups, m \in Models : n \in Nat /\ n <= s.info[m].slots
        BY <2>2 DEF Sizes
      <3>2. s.info[m].slots \in S
        OBVIOUS
      <3>3. s.info[m].slots \in Nat /\ Max(S) >= s.info[m].slots
        BY <1>1, <1>6, <3>2
      <3> HIDE DEF S
      <3> QED BY <1>7, <3>1, <3>3
    <2> QED BY <2>1, <2>2
  <1> QED BY <1>7, <1>8 DEF MostSlots

\* A request that has a slot does nothing but give it back.
LEMMA LeasedStays ==
  ASSUME ThreadInv, [Next]_vars, NEW r \in Requests, pc[r] = "leased", ~Release(r)
  PROVE  pc'[r] = "leased" /\ call'[r] = call[r]
  <1>0. /\ ThreadTypes /\ Types /\ r \in Threads /\ r \notin Operators /\ r # Worker
        /\ \A t \in Threads : ThreadSafe(t)
    BY CoordinatorAssumption DEF ThreadInv, Types, Threads
  <1>1. ASSUME NEW t \in Threads, t # r, Good(t) PROVE pc'[r] = "leased" /\ call'[r] = call[r]
    BY <1>0, <1>1 DEF Good, Others
  <1>2. CASE AdmissionNext
    <2>1. PICK q \in Requests : RequestNext(q)
      BY <1>2 DEF AdmissionNext, RequestNext
    <2>2. q # r
      BY <2>1 DEF RequestNext, TryAcquire, Enqueue, Arrives, GiveUp, Estimating, EstimateLock,
         EstimateNative, EstimateReturn, PrepareCapacity, CapacityLock, CapacityNative,
         CapacityReturn, PrepareLoad, LoadReturn, NotReady, CapacityStale, Grant, Proceeds
    <2>3. q \in Threads /\ Good(q)
      BY <2>1, AdmissionGood DEF Threads
    <2> QED BY <1>1, <2>2, <2>3
  <1>3. CASE LifecycleNext
    <2>1. PICK t \in Threads : LifeNext(t) \/ \E j \in Jobs : Begin(t, j)
      BY <1>3 DEF LifecycleNext, LifeNext, Threads
    <2>2. t # r
      <3>1. CASE LifeNext(t)
        <4>1. pc[t] # "leased"
          BY <1>0, <3>1, LifeLands DEF LifeLabels, LoadLabels, UnloadLabels, PlanLabels, SwapLabels
        <4> QED BY <4>1
      <3>2. CASE \E j \in Jobs : Begin(t, j)
        BY <3>2 DEF Begin
      <3> QED BY <2>1, <3>1, <3>2
    <2> QED BY <1>1, <2>1, <2>2, LifeGood
  <1>4. CASE TrackerNext
    <2>1. ASSUME NEW t \in Threads, t # r, NEW p, (Goto(t, p) /\ call' = call) \/ \E c : GoWith(t, p, c)
          PROVE  pc'[r] = "leased" /\ call'[r] = call[r]
      BY <1>0, <2>1 DEF GoWith, Goto, With, ThreadTypes
    <2>2. ASSUME NEW t \in Threads, t # r, NEW m, NEW p, StartWorker(t, m, p)
          PROVE  pc'[r] = "leased" /\ call'[r] = call[r]
      BY <1>0, <2>2 DEF StartWorker, ThreadTypes
    <2>3. CASE SwapEnds
      <3>1. Worker \in Threads
        BY DEF Threads
      <3> QED BY <1>0, <2>1, <2>3, <3>1 DEF SwapEnds
    <2>4. ASSUME NEW q \in Requests,
                 EnsureReady(q) \/ EnsureGiveUp(q) \/ EnsureRefused(q) \/ EnsureSidecar(q)
                 \/ EnsureStart(q) \/ EnsureAwait(q) \/ EnsureCheck(q)
          PROVE  pc'[r] = "leased" /\ call'[r] = call[r]
      <3>1. q \in Threads /\ q # r
        BY <2>4 DEF Threads, EnsureReady, EnsureGiveUp, EnsureRefused, EnsureSidecar, EnsureStart,
           EnsureAwait, EnsureCheck
      <3>2. \/ \E p : Goto(q, p) /\ call' = call
            \/ \E p, c : GoWith(q, p, c)
            \/ \E m, p : StartWorker(q, m, p)
        BY <2>4, Zenon DEF EnsureReady, EnsureGiveUp, EnsureRefused, EnsureSidecar, EnsureStart,
           EnsureAwait, EnsureCheck, Ensured, CallLoad
      <3> QED BY <2>1, <2>2, <3>1, <3>2
    <2>5. ASSUME NEW t \in Operators, PostSwap(t) PROVE pc'[r] = "leased" /\ call'[r] = call[r]
      <3>1. t \in Threads /\ t # r
        BY <1>0 DEF Threads
      <3>2. (\E p : Goto(t, p) /\ call' = call) \/ \E m, p : StartWorker(t, m, p)
        BY <2>5 DEF PostSwap
      <3> QED BY <2>1, <2>2, <3>1, <3>2
    <2> QED BY <1>4, <2>3, <2>4, <2>5 DEF TrackerNext
  <1>5. CASE \/ \E m \in Models : Sicken(m) \/ HoldLapses(m)
             \/ \E u \in Samples : Observe(u)
             \/ Lapse \/ Tick \/ Sessions \/ Finished \/ UNCHANGED vars
    <2>1. UNCHANGED threadVars
      BY <1>5 DEF Sicken, HoldLapses, Observe, Lapse, Tick, Sessions, Finished, vars
    <2> QED BY <2>1 DEF threadVars
  <1> QED BY <1>2, <1>3, <1>4, <1>5 DEF Next

\* Who has a lease waits for nothing but its own release, and has no other.
Owned == \A n \in Held : /\ leases[n].who \in Requests /\ pc[leases[n].who] = "leased"
                         /\ call[leases[n].who].lease = n

\* A lease that is out can always be given back.
LEMMA ReleaseWorks ==
  ASSUME ThreadInv, LeaseInv, setup' = setup, NEW r \in Requests, Release(r), call[r].lease \in Held
  PROVE  /\ Held' = Held \ {call[r].lease}
         /\ \A n \in Held \ {call[r].lease} : leases'[n] = leases[n]
  <1> DEFINE k == call[r].lease
             m == leases[k].model
  <1>1. m \in Models /\ Settled(m) /\ k \in HeldOn(m) /\ k \in LeaseIds
    BY DEF LeaseInv, Placed, Held, HeldOn
  <1>2. /\ leases \in [LeaseIds -> LeaseType] /\ LeaseIds' = LeaseIds
        /\ backend[m] \in Instance
    BY <1>1 DEF ThreadInv, Types, DataTypes, LeaseIds, MaxLeaseId
  <1>3. leases[k].slot \in backend[m].busy /\ Loaded(m)
    BY <1>1 DEF Settled, SlotsOf
  <1>4. leases[k].slot \in 0 .. backend[m].slots - 1
    BY <1>1, <1>3 DEF Settled
  <1>5. Releases(m, leases[k].slot)
    BY <1>2, <1>3, <1>4 DEF Releases, Instance, Loaded
  <1>6. leases[k] # NoLease
    BY DEF Held
  <1>7. leases' = [leases EXCEPT ![k] = NoLease]
    BY <1>5, <1>6 DEF Release
  <1> HIDE DEF k, m
  <1>8. \A n \in LeaseIds : leases'[n] = IF n = k THEN NoLease ELSE leases[n]
    BY <1>2, <1>7
  <1>9. Held' = Held \ {k} /\ \A n \in Held \ {k} : leases'[n] = leases[n]
    BY <1>2, <1>8 DEF Held, NoLease
  <1> QED BY <1>9 DEF k

\* Every step keeps leases with those who wait for nothing else.
LEMMA OwnedKept == ASSUME ThreadInv, LeaseInv, Owned, [Next]_vars PROVE Owned'
  <1>0. /\ Types /\ ThreadTypes /\ setup' = setup /\ LeaseIds' = LeaseIds
        /\ leases \in [LeaseIds -> LeaseType] /\ \A r \in Requests : r \in Threads
    BY SetupFixed DEF ThreadInv, Types, DataTypes, LeaseIds, MaxLeaseId, Threads
  <1>1. CASE \E r \in Requests : Release(r)
    <2>1. PICK r \in Requests : Release(r)
      BY <1>1
    <2>2. call' = call /\ \A s \in Requests \ {r} : pc'[s] = pc[s]
      BY <1>0, <2>1 DEF Release, Goto, ThreadTypes
    <2>3. Held' \subseteq Held /\ \A n \in Held' : leases'[n] = leases[n]
      <3>1. CASE UNCHANGED <<leaseVars, backend>>
        BY <1>0, <3>1 DEF leaseVars, Held, NoLease
      <3> QED BY <1>0, <2>1, <3>1, ReleaseHolds
    <2>4. ASSUME NEW n \in Held' PROVE leases[n].who # r
      <3>1. SUFFICES ASSUME leases[n].who = r PROVE FALSE
        OBVIOUS
      <3>2. n \in Held /\ call[r].lease = n
        BY <2>3, <3>1 DEF Owned
      <3> QED BY <1>0, <2>1, <3>2, ReleaseWorks
    <2> QED BY <2>2, <2>3, <2>4 DEF Owned
  <1>2. CASE ~\E r \in Requests : Release(r)
    <2>1. \A n \in Held : /\ leases[n].who \in Requests /\ pc'[leases[n].who] = "leased"
                          /\ call'[leases[n].who].lease = n
      <3>1. ASSUME NEW n \in Held
            PROVE  /\ leases[n].who \in Requests /\ pc'[leases[n].who] = "leased"
                   /\ call'[leases[n].who].lease = n
        <4>1. /\ leases[n].who \in Requests /\ pc[leases[n].who] = "leased"
              /\ call[leases[n].who].lease = n
          BY DEF Owned
        <4> QED BY <1>2, <4>1, LeasedStays
      <3> QED BY <3>1
    <2>2. CASE Unleased
      BY <1>0, <2>1, <2>2 DEF Unleased, Owned, Held, NoLease
    <2>3. CASE \E r \in Requests : \E w \in WaiterType : Granting(r, w)
      <3>1. PICK r \in Requests, w \in WaiterType : Granting(r, w)
        BY <2>3
      <3>2. /\ Held' = Held \cup {nextLease} /\ \A n \in Held : leases'[n] = leases[n]
        BY <1>0, <3>1, GrantHolds
      <3>3. leases'[nextLease].who = r /\ pc'[r] = "leased" /\ call'[r].lease = nextLease
        BY <1>0, <3>1, GrantIssues
      <3> QED BY <2>1, <3>2, <3>3 DEF Owned
    <2> QED BY <1>2, <2>2, <2>3, LeaseSteps
  <1> QED BY <1>1, <1>2

----------------------------------------------------------------------------
(* Sizes. *)

\* The instances of the other models stay as they are.
Elsewhere(m) == \A o \in Models \ {m} : backend'[o] = backend[o]

\* Admission changes the instance that it leases, releases or grows.
LEMMA AdmissionChanges ==
  ASSUME ThreadInv, LeaseInv, NEW r \in Requests, RequestNext(r)
  PROVE  \E m : Elsewhere(m)
  <1>0. Types /\ backend \in [Models -> Instance]
    BY DEF ThreadInv, Types, DataTypes
  <1>1. CASE Grant(r) \/ \E a \in Asks : TryAcquire(r, a)
    <2>1. ASSUME NEW w \in WaiterType, Granting(r, w) PROVE Elsewhere(w.model)
      BY <1>0, <2>1, GrantIssues DEF Elsewhere
    <2>2. backend' = backend => \E m : Elsewhere(m)
      BY DEF Elsewhere
    <2> QED BY <1>1, <2>1, <2>2, GrantOr
  <1>2. CASE Release(r)
    <2>1. Elsewhere(leases[call[r].lease].model)
      BY <1>0, <1>2 DEF Release, Elsewhere
    <2> QED BY <2>1
  <1>3. CASE CapacityNative(r)
    <2>1. Elsewhere(waiter[r].model)
      BY <1>0, <1>3 DEF CapacityNative, Elsewhere
    <2> QED BY <2>1
  <1>4. CASE \/ \E a \in Asks : Enqueue(r, a)
             \/ GiveUp(r) \/ Estimating(r) \/ EstimateLock(r) \/ EstimateNative(r)
             \/ EstimateReturn(r) \/ PrepareCapacity(r) \/ CapacityLock(r) \/ CapacityReturn(r)
             \/ PrepareLoad(r) \/ LoadReturn(r) \/ NotReady(r) \/ CapacityStale(r)
    BY <1>4 DEF Enqueue, GiveUp, Estimating, EstimateLock, EstimateNative, EstimateReturn,
       PrepareCapacity, CapacityLock, CapacityReturn, TakeResult, PrepareLoad, LoadReturn,
       NotReady, CapacityStale, residencyVars, Elsewhere
  <1> QED BY <1>1, <1>2, <1>3, <1>4 DEF RequestNext

\* A lifecycle step changes the instance of the model it works on.
LEMMA LifeChanges ==
  ASSUME ThreadInv, NEW t \in Threads, LifeNext(t) \/ \E j \in Jobs : Begin(t, j)
  PROVE  \E m : Elsewhere(m)
  <1>0. backend \in [Models -> Instance]
    BY DEF ThreadInv, Types, DataTypes
  <1> SUFFICES Elsewhere(call[t].model)
    OBVIOUS
  <1> USE DEF residencyVars, Elsewhere
  <1>2. CASE LoadStart(t) \/ LoadGiveUp(t) \/ LoadCreate(t) \/ LoadNative(t) \/ LoadLate(t)
             \/ LoadEnd(t)
    BY <1>0, <1>2 DEF LoadStart, LoadGiveUp, LoadCreate, LoadNative, LoadLate, LoadEnd, LoadFails
  <1>3. CASE UnloadStart(t) \/ UnloadGiveUp(t) \/ Drained(t) \/ DrainGiveUp(t) \/ UnloadNative(t)
    BY <1>0, <1>3 DEF UnloadStart, UnloadGiveUp, Drained, DrainGiveUp, UnloadNative
  <1>4. CASE PlanNext(t) \/ PlanGiveUp(t)
    BY <1>0, <1>4 DEF PlanNext, Plan, PlanFits, PlanGiveUp, PlanRefused, ReclaimPick, ReclaimGuard,
       ReclaimNative, ReclaimWait, ReclaimAgain, ShrinkPick, ShrinkGuard, ShrinkNative,
       EvictPick, EvictGuard, Evicted, Verdict
  <1>5. CASE SwapShort(t) \/ SwapGiveUp(t) \/ SwapStart(t) \/ Legacy(t) \/ SwapLoad(t)
             \/ SwapLoaded(t)
    BY <1>5 DEF SwapShort, SwapGiveUp, SwapStart, Legacy, SwapLoad, SwapLoaded
  <1>6. CASE SwapForce(t) \/ SwapRetry(t) \/ Restore(t) \/ RestoreLoad(t)
    BY <1>6 DEF SwapForce, SwapRetry, Restore, RestoreLoad
  <1>7. CASE \E j \in Jobs : Begin(t, j)
    BY <1>7 DEF Begin
  <1> QED BY <1>2, <1>3, <1>4, <1>5, <1>6, <1>7 DEF LifeNext

Unmoved(m) == HeldOn(m) # {} => backend'[m].st = backend[m].st /\ backend'[m].slots = backend[m].slots

\* Every step changes one instance at most, and loads, unloads and resizes none that
\* a request uses.
LEMMA NextSpares ==
  ASSUME ThreadInv, LeaseHyp, LeaseInv, [Next]_vars
  PROVE  (\E m : Elsewhere(m)) /\ \A m \in Models : Unmoved(m)
  <1>0. setup' = setup /\ \A t \in Threads : Base(t)
    BY SetupFixed DEF Base, LeaseInv, Tables
  <1>1. ASSUME NEW t \in Threads, LeaseGood(t) PROVE \A m \in Models : Unmoved(m)
    BY <1>1 DEF LeaseGood, Spares, Unmoved
  <1>2. CASE AdmissionNext
    <2>1. PICK r \in Requests : RequestNext(r)
      BY <1>2 DEF AdmissionNext, RequestNext
    <2>2. r \in Threads /\ WaiterSafe(r)
      BY DEF Threads, ThreadInv
    <2> QED BY <1>0, <1>1, <2>1, <2>2, AdmissionLeases, AdmissionChanges
  <1>3. CASE LifecycleNext
    <2>1. PICK t \in Threads : LifeNext(t) \/ \E j \in Jobs : Begin(t, j)
      BY <1>3 DEF LifecycleNext, LifeNext, Threads
    <2>2. LeaseGood(t)
      BY <1>0, <2>1, LoadLeases, UnloadLeases, PlanLeases, SwapLeases DEF LifeNext
    <2> QED BY <1>1, <2>1, <2>2, LifeChanges
  <1>4. CASE TrackerNext
    <2>1. backend' = backend
      BY <1>4 DEF TrackerNext, SwapEnds, EnsureReady, EnsureGiveUp, EnsureRefused, EnsureSidecar,
         EnsureStart, EnsureAwait, EnsureCheck, PostSwap, Ensured, StartWorker, quiet, residencyVars
    <2> QED BY <2>1 DEF Elsewhere, Unmoved
  <1>5. CASE \E m \in Models : Sicken(m)
    <2>1. PICK m \in Models : backend' = [backend EXCEPT ![m].healthy = FALSE]
      BY <1>5 DEF Sicken
    <2>2. backend \in [Models -> Instance]
      BY DEF ThreadInv, Types, DataTypes
    <2>3. ASSUME NEW o \in Models
          PROVE  backend'[o].st = backend[o].st /\ backend'[o].slots = backend[o].slots
      <3>1. backend'[o] = IF o = m THEN [backend[o] EXCEPT !.healthy = FALSE] ELSE backend[o]
        BY <2>1, <2>2
      <3>2. backend[o] \in Instance
        BY <2>2
      <3> QED BY <3>1, <3>2 DEF Instance
    <2>4. Elsewhere(m)
      BY <2>1, <2>2 DEF Elsewhere
    <2> QED BY <2>3, <2>4 DEF Unmoved
  <1>6. CASE \/ \E m \in Models : HoldLapses(m)
             \/ \E u \in Samples : Observe(u)
             \/ Lapse \/ Tick \/ Sessions \/ Finished \/ UNCHANGED vars
    <2>1. backend' = backend
      BY <1>6 DEF HoldLapses, Observe, Lapse, Tick, Sessions, Finished, vars, residencyVars
    <2> QED BY <2>1 DEF Elsewhere, Unmoved
  <1> QED BY <1>2, <1>3, <1>4, <1>5, <1>6 DEF Next

----------------------------------------------------------------------------
(* The refinement. *)

\* A lease is on a configured slot of a loaded instance, and sizes stay within the bound.
LEMMA SlotsInRange ==
  ASSUME ThreadInv, LeaseInv, SlotsBounded
  PROVE  /\ \A m \in Models : ServedSlots(m) \in 0 .. MostSlots
         /\ \A m \in Models : backend[m].slots \in Nat /\ backend[m].slots <= MostSlots
  <1>1. ThreadTypes /\ \A m \in Models : backend[m].slots \in Sizes
    BY DEF ThreadInv, Types, LeaseInv, Settled
  <1>2. MostSlots \in Nat /\ \A n \in Sizes : n \in Nat /\ n <= MostSlots
    BY <1>1, MostFound, SizesFacts
  <1> QED BY <1>1, <1>2 DEF ServedSlots

\* The process starts without a grant, with sizes that are configured.
LEMMA ServiceStarts == Init /\ SlotsBounded => Service!ServiceInit
  <1> SUFFICES ASSUME Init, SlotsBounded PROVE Service!ServiceInit
    OBVIOUS
  <1>1. ThreadInv /\ LeaseInv
    BY ThreadInvInit, LeaseInvInit
  <1>2. [r \in Requests |-> LeasedSlots(r)] = [r \in Requests |-> {}]
    BY DEF Init, LeasedSlots, Held
  <1>3. [m \in Models |-> ServedSlots(m)] \in [Models -> 0 .. MostSlots]
    BY <1>1, SlotsInRange
  <1> QED BY <1>2, <1>3, Zenon DEF Service!ServiceInit

\* Without a grant or a release the clients keep what they have.
LEMMA SameGrants ==
  ASSUME ThreadInv, setup' = setup, leases' = leases
  PROVE  \A r \in Requests : LeasedSlots(r)' = LeasedSlots(r)
  <1>1. Held' = Held
    BY DEF Held, NoLease, LeaseIds, MaxLeaseId
  <1> QED BY <1>1 DEF LeasedSlots

\* What a client has, it has under the one lease that is its own.
LEMMA OneGrant ==
  ASSUME ThreadInv, Owned, NEW n \in Held
  PROVE  /\ LeasedSlots(leases[n].who) = {<<leases[n].model, leases[n].slot>>}
         /\ leases[n].who \in Requests
  <1>1. \A k \in Held : leases[k].who = leases[n].who => k = n
    BY DEF Owned
  <1> QED BY <1>1 DEF LeasedSlots, Owned

\* The pairs that are taken are those of the lease table.
LEMMA TakenHeld ==
  ASSUME Owned, NEW p, p \in Service!Taken
  PROVE  \E n \in Held : p = <<leases[n].model, leases[n].slot>>
  <1>1. PICK c \in Requests : p \in LeasedSlots(c)
    BY DEF Service!Taken
  <1> QED BY <1>1 DEF LeasedSlots

\* A grant is an acquisition of a free slot.
LEMMA GrantAcquires ==
  ASSUME ThreadInv, LeaseInv, Owned, SlotsBounded, setup' = setup,
         NEW r \in Requests, NEW w \in WaiterType, Granting(r, w), pc[r] # "leased"
  PROVE  Service!ServiceNext
  <1> DEFINE m == w.model
             s == Min(Free(m))
             p == <<m, s>>
  <1>0. /\ Types /\ m \in Models /\ Free(m) # {} /\ Loaded(m) /\ Settled(m)
        /\ backend \in [Models -> Instance] /\ Nobody \notin Requests
    BY CoordinatorAssumption DEF ThreadInv, Types, DataTypes, Granting, LeaseInv, Threads
  <1>1. s \in Nat /\ s \notin backend[m].busy /\ s < backend[m].slots
    BY <1>0, FreeSlot
  <1>2. /\ nextLease \notin Held /\ Held' = Held \cup {nextLease}
        /\ \A n \in Held : leases'[n] = leases[n]
        /\ leases'[nextLease].who = r /\ leases'[nextLease].model = m /\ leases'[nextLease].slot = s
        /\ backend' = [backend EXCEPT ![m].busy = @ \cup {s}]
    BY <1>0, GrantHolds, GrantIssues
  <1>3. \A n \in Held : leases[n].who # r
    BY DEF Owned
  <1> HIDE DEF m, s
  <1>4. LeasedSlots(r) = {} /\ LeasedSlots(r)' = {p}
    BY <1>2, <1>3 DEF LeasedSlots
  <1>5. ASSUME NEW q \in Requests, q # r PROVE LeasedSlots(q)' = LeasedSlots(q)
    BY <1>2, <1>5 DEF LeasedSlots
  <1>6. ASSUME NEW o \in Models PROVE ServedSlots(o)' = ServedSlots(o)
    <2>1. backend'[o] = IF o = m THEN [backend[o] EXCEPT !.busy = @ \cup {s}] ELSE backend[o]
      BY <1>0, <1>2
    <2>2. backend[o] \in Instance
      BY <1>0
    <2>3. backend'[o].st = backend[o].st /\ backend'[o].slots = backend[o].slots
      BY <2>1, <2>2 DEF Instance
    <2> QED BY <2>3 DEF ServedSlots, Loaded
  <1>7. s < ServedSlots(m) /\ s \in 0 .. MostSlots - 1
    <2>1. backend[m].slots \in Nat /\ backend[m].slots <= MostSlots /\ MostSlots \in Nat
      BY <1>0, SlotsInRange, MostFound
    <2> QED BY <1>0, <1>1, <2>1 DEF ServedSlots
  <1>8. p \notin Service!Taken
    <2>1. ASSUME NEW n \in Held, p = <<leases[n].model, leases[n].slot>> PROVE FALSE
      <3>1. leases[n].model = m /\ leases[n].slot = s
        BY <2>1
      <3>2. s \in SlotsOf(m)
        BY <3>1 DEF SlotsOf, HeldOn
      <3> QED BY <1>0, <1>1, <3>2 DEF Settled
    <2> QED BY <2>1, TakenHeld
  <1>9. p \in Models \X (0 .. MostSlots - 1)
    BY <1>0, <1>7
  <1>10. p[1] = m /\ p[2] = s
    OBVIOUS
  <1> HIDE DEF p
  <1>11. Service!Acquire(r, p)
    <2>1. [c \in Requests |-> LeasedSlots(c)][r] = {}
      BY <1>4
    <2>2. p[2] < [o \in Models |-> ServedSlots(o)][p[1]]
      BY <1>0, <1>7, <1>10
    <2>3. [c \in Requests |-> LeasedSlots(c)]'
            = [[c \in Requests |-> LeasedSlots(c)] EXCEPT ![r] = {p}]
      BY <1>4, <1>5
    <2>4. [o \in Models |-> ServedSlots(o)]' = [o \in Models |-> ServedSlots(o)]
      BY <1>6
    <2> QED BY <1>8, <2>1, <2>2, <2>3, <2>4 DEF Service!Acquire
  <1>12. p \in Service!Pairs
    BY <1>9, Zenon DEF Service!Pairs
  <1> QED BY <1>11, <1>12 DEF Service!ServiceNext

\* A release gives back what its client has, or changes nothing.
LEMMA ReleaseGives ==
  ASSUME ThreadInv, LeaseInv, Owned, setup' = setup, NEW q \in Requests, Release(q)
  PROVE  Service!ServiceNext \/ UNCHANGED Service!serviceVars
  <1>0. backend \in [Models -> Instance]
    BY DEF ThreadInv, Types, DataTypes
  <1>1. CASE UNCHANGED <<leaseVars, backend>>
    <2>1. leases' = leases /\ backend' = backend
      BY <1>1 DEF leaseVars
    <2>2. \A r \in Requests : LeasedSlots(r)' = LeasedSlots(r)
      BY <2>1, SameGrants
    <2>3. \A m \in Models : ServedSlots(m)' = ServedSlots(m)
      BY <2>1 DEF ServedSlots, Loaded
    <2> QED BY <2>2, <2>3 DEF Service!serviceVars
  <1>2. ASSUME NEW k \in Held,
               Held' = Held \ {k},
               \A n \in Held \ {k} : leases'[n] = leases[n],
               backend' = [backend EXCEPT ![leases[k].model].busy = @ \ {leases[k].slot}]
        PROVE  Service!ServiceNext
    <2>0. PICK c : c = leases[k].who
      OBVIOUS
    <2>1. c \in Requests /\ LeasedSlots(c) # {} /\ \A n \in Held : leases[n].who = c => n = k
      <3>1. \A n \in Held : leases[n].who = c => n = k
        BY <2>0 DEF Owned
      <3> QED BY <2>0, <3>1, OneGrant
    <2>2. LeasedSlots(c)' = {}
      BY <1>2, <2>1 DEF LeasedSlots
    <2>3. ASSUME NEW r \in Requests, r # c PROVE LeasedSlots(r)' = LeasedSlots(r)
      BY <1>2, <2>0, <2>3 DEF LeasedSlots
    <2>4. ASSUME NEW o \in Models PROVE ServedSlots(o)' = ServedSlots(o)
      <3>1. backend'[o] = IF o = leases[k].model THEN [backend[o] EXCEPT !.busy = @ \ {leases[k].slot}]
                          ELSE backend[o]
        BY <1>0, <1>2
      <3>2. backend[o] \in Instance
        BY <1>0
      <3>3. backend'[o].st = backend[o].st /\ backend'[o].slots = backend[o].slots
        BY <3>1, <3>2 DEF Instance
      <3> QED BY <3>3 DEF ServedSlots, Loaded
    <2>5. [r \in Requests |-> LeasedSlots(r)]'
            = [[r \in Requests |-> LeasedSlots(r)] EXCEPT ![c] = {}]
      BY <2>1, <2>2, <2>3
    <2>6. [o \in Models |-> ServedSlots(o)]' = [o \in Models |-> ServedSlots(o)]
      BY <2>4
    <2>7. [r \in Requests |-> LeasedSlots(r)][c] # {}
      BY <2>1
    <2>8. Service!GiveBack(c)
      BY <2>5, <2>6, <2>7 DEF Service!GiveBack
    <2> QED BY <2>1, <2>8 DEF Service!ServiceNext
  <1> QED BY <1>1, <1>2, ReleaseHolds

\* Any other step changes the size of one model that nobody uses, or nothing.
LEMMA OthersChange ==
  ASSUME ThreadInv, LeaseHyp, LeaseInv, Owned, SlotsBounded, [Next]_vars, leases' = leases
  PROVE  Service!ServiceNext \/ UNCHANGED Service!serviceVars
  <1>0. setup' = setup
    BY SetupFixed
  <1>1. \A r \in Requests : LeasedSlots(r)' = LeasedSlots(r)
    BY <1>0, SameGrants
  <1>2. [r \in Requests |-> LeasedSlots(r)]' = [r \in Requests |-> LeasedSlots(r)]
    BY <1>1
  <1>3. CASE \A m \in Models : ServedSlots(m)' = ServedSlots(m)
    <2>1. [o \in Models |-> ServedSlots(o)]' = [o \in Models |-> ServedSlots(o)]
      BY <1>3
    <2> QED BY <1>2, <2>1 DEF Service!serviceVars
  <1>4. CASE \E m \in Models : ServedSlots(m)' # ServedSlots(m)
    <2>1. PICK m \in Models : ServedSlots(m)' # ServedSlots(m)
      BY <1>4
    <2> DEFINE k == ServedSlots(m)'
    <2>2. HeldOn(m) = {}
      BY <2>1, NextSpares DEF Unmoved, ServedSlots, Loaded
    <2>3. ASSUME NEW o \in Models, o # m PROVE ServedSlots(o)' = ServedSlots(o)
      <3>1. PICK e : Elsewhere(e)
        BY NextSpares
      <3>2. e = m
        BY <2>1, <3>1 DEF Elsewhere, ServedSlots, Loaded
      <3> QED BY <2>3, <3>1, <3>2 DEF Elsewhere, ServedSlots, Loaded
    <2>4. k \in 0 .. MostSlots
      <3>1. ThreadTypes /\ LeaseInv'
        BY LeaseInvStep DEF ThreadInv, Types
      <3>2. backend'[m].slots \in Sizes
        BY <1>0, <3>1 DEF LeaseInv, Settled
      <3>3. backend'[m].slots \in Nat /\ MostSlots \in Nat /\ backend'[m].slots <= MostSlots
        BY <3>1, <3>2, SizesFacts, MostFound
      <3> QED BY <3>3 DEF ServedSlots
    <2> HIDE DEF k
    <2>5. [o \in Models |-> ServedSlots(o)]' = [[o \in Models |-> ServedSlots(o)] EXCEPT ![m] = k]
      BY <2>3 DEF k
    <2>6. k # [o \in Models |-> ServedSlots(o)][m]
      BY <2>1 DEF k
    <2>7. Service!Idle(m)
      <3>1. ASSUME NEW p \in Service!Taken PROVE p[1] # m
        <4>1. PICK n \in Held : p = <<leases[n].model, leases[n].slot>>
          BY TakenHeld
        <4>2. leases[n].model # m
          BY <2>2 DEF HeldOn
        <4> QED BY <4>1, <4>2
      <3> QED BY <3>1 DEF Service!Idle
    <2>8. Service!Change(m, k)
      BY <1>2, <2>5, <2>6, <2>7 DEF Service!Change
    <2> QED BY <2>4, <2>8 DEF Service!ServiceNext
  <1> QED BY <1>3, <1>4

\* Every step of the coordinator is a step of the slot service, or none.
LEMMA StepServes ==
  ASSUME ThreadInv, LeaseHyp, LeaseInv, Owned, SlotsBounded, [Next]_vars
  PROVE  [Service!ServiceNext]_(Service!serviceVars)
  <1>1. setup' = setup
    BY SetupFixed
  <1> QED BY <1>1, LeaseSteps, GrantAcquires, ReleaseGives, OthersChange DEF Unleased

\* The coordinator implements the slot service: seen from the routes, whatever is
\* loaded, unloaded, resized, rolled back or recovered, a client gets a free slot of a
\* loaded model, keeps it, and the model keeps its slots until the client is done.
THEOREM ServiceAlwaysImplemented == Spec /\ LeaseHyp /\ SlotsBounded => ServiceImplemented
  <1>1. Init => Owned
    BY DEF Init, Owned, Held
  <1>2. ThreadInv /\ LeaseInv /\ Owned /\ [Next]_vars => Owned'
    BY OwnedKept
  <1>3. Spec /\ LeaseHyp => []Owned
    BY <1>1, <1>2, LeasesAgree, PTL DEF Spec
  <1>4. Init /\ SlotsBounded => Service!ServiceInit
    BY ServiceStarts
  <1>5. SlotsBounded => [](SlotsBounded)
    <2>1. SlotsBounded => SlotsBounded'
      BY DEF SlotsBounded
    <2> QED BY <2>1, PTL
  <1>6. ThreadInv /\ LeaseHyp /\ LeaseInv /\ Owned /\ SlotsBounded /\ [Next]_vars
        => [Service!ServiceNext]_(Service!serviceVars)
    BY StepServes
  <1> QED BY <1>3, <1>4, <1>5, <1>6, LeasesAgree, PTL DEF Spec, ServiceImplemented, Service!ServiceSpec
=============================================================================
