-------------------------- MODULE PrioritySessions --------------------------
(***************************************************************************)
(* Voice-priority sessions of BackendCoordinator: a media request reserves *)
(* the conversation model for its client key, the follow-up chat holds the *)
(* reservation while it runs.  A session is overwritten by the next        *)
(* reservation of its key, so every later call carries the token it was    *)
(* given and must find that same token.                                    *)
(*                                                                         *)
(* Deadlines are abstracted to one bit per session, "live" (deadline not   *)
(* yet reached); Expire clears it, refresh/complete set it again.          *)
(***************************************************************************)
EXTENDS Naturals, FiniteSets

CONSTANTS
    SessionKeys,     \* client keys (authenticated principal + voice session id)
    SessionModels,   \* models a session may reserve
    NoModel,         \* no model
    Guards,          \* VoiceSessionGuard objects of STT/TTS requests
    Chats,           \* chat requests that may hold a session
    MaxToken         \* bound: sessions reserved in one behaviour

ASSUME SessionAssumption ==
    /\ NoModel \notin SessionModels
    /\ MaxToken \in Nat
    /\ IsFiniteSet(Chats)
    /\ SessionKeys = {} => Guards = {} /\ Chats = {}

VARIABLES
    session,     \* priority_sessions_: per key; token 0 = no entry
    nextToken,   \* next_priority_session_token_
    guard,       \* per guard: the key and token it must release (token 0 = disarmed)
    holding      \* per chat: the key and token of its hold (token 0 = none)

sessionVars == <<session, nextToken, guard, holding>>

Tokens == 1 .. MaxToken
NoSession == [model |-> NoModel, live |-> FALSE, token |-> 0, holds |-> 0]
SessionType == [model : SessionModels \cup {NoModel}, live : BOOLEAN,
                token : 0 .. MaxToken, holds : Nat]
ClaimType == [key : SessionKeys, token : 0 .. MaxToken]
Unclaimed == [key |-> CHOOSE k \in SessionKeys : TRUE, token |-> 0]

\* The session table and every claim on it hold values of their types; a hold
\* count is never negative.
SessionTypeOK ==
    /\ session \in [SessionKeys -> SessionType]
    /\ nextToken \in 1 .. MaxToken + 1
    /\ guard \in [Guards -> ClaimType]
    /\ holding \in [Chats -> ClaimType]

----------------------------------------------------------------------------
\* Mutant: a hold does not keep an expired entry.
EngagedWhileLive(k) == session[k].token # 0 /\ session[k].live

\* The entry exists and is either held or not past its deadline.
Engaged(k) ==
    /\ session[k].token # 0
    /\ session[k].holds > 0 \/ session[k].live

\* The call carries the token of the entry that is in the table now.
Current(claim) ==
    /\ claim.token # 0
    /\ session[claim.key].token = claim.token

SessionInit ==
    /\ session = [k \in SessionKeys |-> NoSession]
    /\ nextToken = 1
    /\ guard = [g \in Guards |-> Unclaimed]
    /\ holding = [c \in Chats |-> Unclaimed]

\* Mutant: the new entry inherits the holds of the one it replaces.
EntryWithOldHolds(k, m) ==
    [model |-> m, live |-> TRUE, token |-> nextToken, holds |-> session[k].holds]

Entry(k, m) == [model |-> m, live |-> TRUE, token |-> nextToken, holds |-> 0]

\* Mutant: the token counter stands still.
SameToken == nextToken

FollowingToken == nextToken + 1

\* reserve_priority_session: drops every expired entry without holds, then
\* overwrites the entry of k, whatever holds it had.
Reserve(g, k, m) ==
    /\ guard[g].token = 0
    /\ nextToken <= MaxToken
    /\ session' = [j \in SessionKeys |->
                     IF j = k THEN Entry(k, m)
                     ELSE IF Engaged(j) THEN session[j] ELSE NoSession]
    /\ nextToken' = FollowingToken
    /\ guard' = [guard EXCEPT ![g] = [key |-> k, token |-> nextToken]]
    /\ UNCHANGED holding

\* refresh_priority_session, then the guard is disarmed (refresh_and_keep).
RefreshAndKeep(g) ==
    /\ guard[g].token # 0
    /\ session' = IF Current(guard[g])
                  THEN [session EXCEPT ![guard[g].key].live = TRUE]
                  ELSE session
    /\ guard' = [guard EXCEPT ![g] = Unclaimed]
    /\ UNCHANGED <<nextToken, holding>>

\* release_priority_session, from the guard's destructor or the speech stream.
ReleaseSession(g) ==
    /\ guard[g].token # 0
    /\ session' = IF Current(guard[g])
                  THEN [session EXCEPT ![guard[g].key] = NoSession]
                  ELSE session
    /\ guard' = [guard EXCEPT ![g] = Unclaimed]
    /\ UNCHANGED <<nextToken, holding>>

\* hold_priority_session: only an engaged session for the same model.
Hold(c, k, m) ==
    /\ holding[c].token = 0
    /\ session[k].model = m
    /\ Engaged(k)
    /\ session' = [session EXCEPT ![k].holds = @ + 1]
    /\ holding' = [holding EXCEPT ![c] = [key |-> k, token |-> session[k].token]]
    /\ UNCHANGED <<nextToken, guard>>

\* Mutant: the token is not compared, and the counter not guarded.
CompleteHoldUnchecked(c) ==
    /\ holding[c].token # 0
    /\ LET k == holding[c].key
       IN  session' = [session EXCEPT ![k].holds = session[k].holds - 1, ![k].live = TRUE]
    /\ holding' = [holding EXCEPT ![c] = Unclaimed]
    /\ UNCHANGED <<nextToken, guard>>

\* One hold less, and a new deadline.
Completed(s) == [s EXCEPT !.holds = IF s.holds > 0 THEN s.holds - 1 ELSE 0, !.live = TRUE]

\* complete_priority_session_hold, once per hold, when the chat ends.
CompleteHold(c) ==
    /\ holding[c].token # 0
    /\ session' = IF Current(holding[c])
                  THEN [session EXCEPT ![holding[c].key] = Completed(@)]
                  ELSE session
    /\ holding' = [holding EXCEPT ![c] = Unclaimed]
    /\ UNCHANGED <<nextToken, guard>>

\* The deadline of k passes; nobody notices until the next lookup.
Expire(k) ==
    /\ session[k].live
    /\ session' = [session EXCEPT ![k].live = FALSE]
    /\ UNCHANGED <<nextToken, guard, holding>>

SessionNext ==
    \/ \E g \in Guards : \E k \in SessionKeys : \E m \in SessionModels : Reserve(g, k, m)
    \/ \E g \in Guards : RefreshAndKeep(g)
    \/ \E g \in Guards : ReleaseSession(g)
    \/ \E c \in Chats : \E k \in SessionKeys : \E m \in SessionModels : Hold(c, k, m)
    \/ \E c \in Chats : CompleteHold(c)
    \/ \E k \in SessionKeys : Expire(k)

SessionSpec == SessionInit /\ [][SessionNext]_sessionVars

----------------------------------------------------------------------------
\* The chats whose hold is on the entry that k has now.
Holders(k) == {c \in Chats : holding[c].key = k /\ Current(holding[c])}

\* active_holds of an entry is exactly the number of running chats that took a
\* hold on it and have not completed it: a chat that outlived a replaced
\* session must not give back a hold of the new one, and none may leak.
HoldsMatchHolders ==
    \A k \in SessionKeys : session[k].holds = Cardinality(Holders(k))

\* Tokens name one reservation for ever: entries of different keys differ in
\* token, and every token in use was issued.
TokensName ==
    /\ \A j, k \in SessionKeys :
          session[j].token # 0 /\ session[j].token = session[k].token => j = k
    /\ \A k \in SessionKeys : session[k].token < nextToken
    /\ \A g \in Guards : guard[g].token < nextToken
    /\ \A c \in Chats : holding[c].token < nextToken

\* A session with a running chat is never lost to expiry, to the purge in
\* another key's reservation, or to a stale guard: its entry goes only when the
\* guard that made it releases it or when its own key reserves again.
HeldSessionSurvives ==
    [][\A k \in SessionKeys :
         Holders(k) # {} /\ session'[k].token # session[k].token
           => \/ \E g \in Guards : guard[g] = [key |-> k, token |-> session[k].token]
                                   /\ guard'[g].token = 0
              \/ session'[k].token = nextToken]_sessionVars
=============================================================================
