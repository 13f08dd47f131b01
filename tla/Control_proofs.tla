--------------------------- MODULE Control_proofs ---------------------------
(***************************************************************************)
(* The control plane, for any offices, whatever is revoked, created,       *)
(* edited, cancelled, reloaded or lost meanwhile: a program whose grant is *)
(* good holds the lease row, a stored secret was configured, and the       *)
(* maintenance resource has one owner, which restores what it took and     *)
(* recommends what it measured.                                            *)
(*                                                                         *)
(* Each part has an invariant of its own over the same steps.  A program   *)
(* reads the clock when it is authorized and uses that time in the later   *)
(* transaction, so KeyInv bounds the time read by the clock and what the   *)
(* lease row promises by the time read.  A client edits the masked copy it *)
(* fetched, so SecretInv ties the copy to the revision it names.  A        *)
(* benchmark's worker goes through nine points, so BenchInv says what each *)
(* has restored and measured.                                              *)
(***************************************************************************)
EXTENDS Control, SumLemmas

----------------------------------------------------------------------------
(* The invariant. *)

Key == [priority : Int, revoked : BOOLEAN]
Program(c) == Ask(c).do \in {"lease", "probe"}
Creator(c) == Ask(c).do = "create"

Types ==
    /\ office \in Offices
    /\ DOMAIN pc = Callers /\ DOMAIN grant = Callers /\ DOMAIN at = Callers
    /\ keys \in [DOMAIN keys -> Key] /\ DOMAIN keys \subseteq Identifiers
    /\ clock \in Int /\ issued \in Nat
    /\ lease # None => lease \in [id : Nat, owner : Identifiers, expires : Int]
    /\ healthy => known = Live

\* A program that has read the clock, and one that wants to be rid of its lease.
Reading == {"asking", "free", "clear", "renewing"}
Timely(c) ==
    /\ pc[c] \in Reading => Program(c) /\ at[c] \in Int /\ at[c] <= clock
    /\ pc[c] \in {"clear", "renewing"} => Ask(c).do = "lease"
    /\ pc[c] = "renewing" => grant[c] # None
    /\ pc[c] = "releasing" => Program(c) /\ grant[c] = None

\* The lease promises no more than its owner asked for when it read the clock.
Promised(c) ==
    Ask(c).do = "lease" /\ lease # None /\ lease.owner = Credential(c) =>
        /\ lease.expires <= clock + Ask(c).duration
        /\ pc[c] = "renewing" => lease.expires <= at[c] + Ask(c).duration

\* What a program believes was true of a key that existed.
Believed(c) ==
    grant[c] # None => Program(c) /\ Credential(c) \in DOMAIN keys /\ grant[c].expires \in Int
Good(c) == grant[c] # None /\ Credential(c) \in DOMAIN Live /\ grant[c].expires > clock
Held(c) ==
    /\ lease # None /\ lease.owner = Credential(c)
    /\ lease.id = grant[c].id /\ lease.expires >= grant[c].expires

\* The identifier of a key that is still to be created is free.
Unborn(c) == Creator(c) /\ pc[c] = "idle" => Ask(c).id \notin DOMAIN keys

KeyInv ==
    /\ Types
    /\ lease # None => lease.owner \in DOMAIN Live
    /\ \A c \in Callers : /\ Timely(c) /\ Promised(c) /\ Believed(c) /\ Unborn(c)
                          /\ Good(c) => Held(c)

----------------------------------------------------------------------------
(* Facts about an office. *)

\* Two programs never share a key, and leases last for a number of hours.
LEMMA OwnKeys ==
  ASSUME office \in Offices
  PROVE  /\ \A c, d \in Callers : Program(c) /\ Program(d) /\ Credential(c) = Credential(d) => c = d
         /\ \A c \in Callers : Ask(c).do = "lease" => Ask(c).duration \in Nat
  <1>1. \A c \in Callers : Program(c) => c \in Programs(office) /\ Credential(c) = office.asks[c].credential
    BY OfficeAssumption DEF Program, Programs, Callers, Ask, Credential, Val, Has
  <1>2. \A c, d \in Programs(office) : office.asks[c].credential = office.asks[d].credential => c = d
    BY OfficeAssumption
  <1>3. \A c \in Programs(office) : office.asks[c].do = "lease" => office.asks[c].duration \in Nat
    BY OfficeAssumption
  <1> QED BY <1>1, <1>2, <1>3 DEF Program, Ask

\* Identifiers to be created are identifiers, free at first, and differ.
LEMMA NewKeys ==
  ASSUME office \in Offices
  PROVE  /\ \A c \in Callers : Creator(c) => Ask(c).id \in Identifiers /\ Ask(c).id \notin DOMAIN office.keys
         /\ \A c, d \in Callers : Creator(c) /\ Creator(d) /\ Ask(c).id = Ask(d).id => c = d
         /\ office.keys \in [DOMAIN office.keys -> Key] /\ DOMAIN office.keys \subseteq Identifiers
  <1>1. \A c \in Callers : Creator(c) => c \in Creators(office)
    BY DEF Creator, Creators, Callers, Ask
  <1>2. /\ \A c \in Creators(office) : office.asks[c].id \notin DOMAIN office.keys
        /\ \A c, d \in Creators(office) : office.asks[c].id = office.asks[d].id => c = d
        /\ office.keys \in [DOMAIN office.keys -> Key]
    BY OfficeAssumption DEF Key
  <1>3. DOMAIN office.keys \cup {office.asks[c].id : c \in Creators(office)} \subseteq Identifiers
    BY DEF Identifiers
  <1> QED BY <1>1, <1>2, <1>3 DEF Ask

\* What the live keys are.
LEMMA LiveKeys ==
  /\ DOMAIN Live = {k \in DOMAIN keys : ~keys[k].revoked}
  /\ \A k \in DOMAIN Live : Live[k] = keys[k].priority
  /\ DOMAIN Live \subseteq DOMAIN keys
  BY DEF Live

----------------------------------------------------------------------------
(* What one step does to the callers that do not take it. *)

CallerInv(c) == Timely(c) /\ Promised(c) /\ Believed(c) /\ Unborn(c) /\ (Good(c) => Held(c))
Spared(c) == pc'[c] = pc[c] /\ grant'[c] = grant[c] /\ at'[c] = at[c]
\* The row stays as it is for the program c unless it has expired.
Untouched(c) ==
    /\ lease # None /\ lease.owner = Credential(c) /\ lease.expires > clock => lease' = lease
    /\ lease' # None /\ lease'.owner = Credential(c) => lease' = lease

\* A grant that is good stays good for as long as nobody touches its row.
LEMMA StillHeld ==
  ASSUME KeyInv, office' = office, clock' = clock, keys' = keys,
         NEW c \in Callers, grant'[c] = grant[c], Program(c) => Untouched(c)
  PROVE  Good(c)' => Held(c)'
  <1> USE DEF Ask, Program, Creator, Credential, Val, Has
  <1>0. CallerInv(c) /\ Types
    BY DEF KeyInv, CallerInv
  <1>4. ASSUME Good(c)' PROVE Held(c)'
    <2>1. Good(c) /\ Program(c)
      BY <1>0, <1>4 DEF Good, Live, CallerInv, Believed
    <2>2. Held(c) /\ grant[c].expires \in Int /\ grant[c].expires > clock
      BY <1>0, <2>1 DEF CallerInv, Believed, Good
    <2>3. lease.expires > clock
      <3>1. lease \in [id : Nat, owner : Identifiers, expires : Int] /\ clock \in Int
        BY <1>0, <2>2 DEF Held, Types
      <3>2. lease.expires \in Int /\ lease.expires >= grant[c].expires
        BY <2>2, <3>1 DEF Held
      <3> QED BY <2>2, <3>1, <3>2
    <2>4. lease' = lease
      BY <2>1, <2>2, <2>3 DEF Untouched, Held
    <2> QED BY <2>2, <2>4 DEF Held
  <1> QED BY <1>4

\* A caller that does not take the step keeps its part of the invariant.
LEMMA Bystander ==
  ASSUME KeyInv, office' = office, clock' = clock, keys' = keys,
         NEW c \in Callers, Spared(c), Program(c) => Untouched(c)
  PROVE  CallerInv(c)'
  <1> USE DEF Ask, Program, Creator, Credential, Val, Has
  <1>0. CallerInv(c) /\ Types
    BY DEF KeyInv, CallerInv
  <1>1. Timely(c)'
    BY <1>0 DEF CallerInv, Timely, Spared
  <1>2. Promised(c)'
    <2>1. SUFFICES ASSUME Ask(c).do = "lease", lease' # None, lease'.owner = Credential(c)
                   PROVE  /\ lease'.expires <= clock + Ask(c).duration
                          /\ pc[c] = "renewing" => lease'.expires <= at[c] + Ask(c).duration
      BY DEF Promised, Spared
    <2>2. lease' = lease
      BY <2>1 DEF Untouched
    <2> QED BY <1>0, <2>1, <2>2 DEF CallerInv, Promised
  <1>3. Believed(c)' /\ Unborn(c)'
    BY <1>0 DEF CallerInv, Believed, Unborn, Spared
  <1>4. Good(c)' => Held(c)'
    BY StillHeld DEF Spared
  <1> QED BY <1>1, <1>2, <1>3, <1>4 DEF CallerInv

\* It remains to look at the caller that takes the step, the types and the row.
LEMMA OneCaller ==
  ASSUME KeyInv, office' = office, clock' = clock, keys' = keys, NEW c \in Callers,
         \A d \in Callers \ {c} : Spared(d),
         \A d \in Callers \ {c} : Program(d) => Untouched(d),
         CallerInv(c)', Types', lease' # None => lease'.owner \in DOMAIN Live
  PROVE  KeyInv'
  <1>1. \A d \in Callers \ {c} : CallerInv(d)'
    BY Bystander
  <1>2. Callers' = Callers /\ Live' = Live
    BY DEF Callers, Live
  <1>3. \A d \in Callers : CallerInv(d)'
    BY <1>1
  <1> QED BY <1>2, <1>3 DEF KeyInv, CallerInv

\* Where a caller is that has nothing to do with the lease.
Apart(c, x) ==
    /\ pc' = [pc EXCEPT ![c] = x]
    /\ x \notin Reading \cup {"releasing"} /\ (x = "idle" => ~Creator(c))

\* A step of the configuration, of a request or of a benchmark.
LEMMA StepApart ==
  ASSUME KeyInv, office' = office, NEW c \in Callers, \E x : Apart(c, x),
         UNCHANGED <<keys, lease, known, healthy, issued, clock, grant, at>>
  PROVE  KeyInv'
  <1>1. PICK x : Apart(c, x)
    OBVIOUS
  <1>2. /\ pc'[c] = x /\ DOMAIN pc' = Callers
        /\ \A d \in Callers \ {c} : Spared(d)
    BY <1>1 DEF Apart, KeyInv, Types, Spared
  <1>3. CallerInv(c)'
    <2>1. Timely(c)' /\ Unborn(c)'
      BY <1>1, <1>2 DEF Apart, Timely, Unborn, Reading, Creator, Ask
    <2>2. Promised(c)'
      BY <1>1, <1>2 DEF Apart, Reading, KeyInv, Promised, Ask, Credential, Val, Has
    <2>3. Believed(c)' /\ (Good(c)' => Held(c)')
      BY DEF KeyInv, Believed, Good, Held, Live, Program, Ask, Credential, Val, Has
    <2> QED BY <2>1, <2>2, <2>3 DEF CallerInv
  <1>4. Types'
    BY <1>2 DEF KeyInv, Types, Callers, Live
  <1>5. \A d \in Callers : Untouched(d)
    BY DEF Untouched
  <1> QED BY <1>2, <1>3, <1>4, <1>5, OneCaller DEF KeyInv

\* Editing configuration, serving a request and starting a benchmark leave the
\* keys and the lease alone, and move their caller to a point of their own.
LEMMA ConfigApart ==
  ASSUME NEW c \in Callers, ConfigStep(c)
  PROVE  office' = office /\ (\E x : Apart(c, x)) /\ UNCHANGED leasing
  <1>1. office' = office /\ UNCHANGED leasing
    BY DEF ConfigStep, fixed
  <1>2. \E x \in {"holding", "entered", "done"} : pc' = [pc EXCEPT ![c] = x]
    <2>1. CASE Fetch(c)
      BY <2>1 DEF Fetch, Goes
    <2>2. CASE Enter(c)
      BY <2>2 DEF Enter, Goes
    <2>3. CASE SaveBase(c) \/ SaveActive(c) \/ SaveSettings(c) \/ ResetActive(c)
      BY <2>3 DEF SaveBase, SaveActive, SaveSettings, ResetActive, Inside, Goes
    <2>4. CASE PutAlias(c) \/ RemoveAlias(c) \/ Unregister(c)
      BY <2>4 DEF PutAlias, RemoveAlias, Unregister, Inside, Goes
    <2> QED BY <2>1, <2>2, <2>3, <2>4 DEF ConfigStep
  <1> QED BY <1>1, <1>2 DEF Apart, Reading

\* Serving a request leaves the keys and the lease alone too.
LEMMA RequestApart ==
  ASSUME NEW c \in Callers, RequestStepOf(c)
  PROVE  /\ office' = office /\ \E x : Apart(c, x)
         /\ UNCHANGED <<keys, lease, known, healthy, issued, clock, grant, at>>
  <1>1. office' = office /\ UNCHANGED <<keys, lease, known, healthy, issued, clock, grant, at>>
    BY DEF RequestStepOf, fixed, database
  <1>2. \E x \in {"done", "admitted", "working"} : pc' = [pc EXCEPT ![c] = x]
    BY DEF RequestStepOf, RequestStep, Arrive, Work, Complete, Goes
  <1> QED BY <1>1, <1>2 DEF Apart, Reading

\* So does starting, stopping or scheduling a benchmark.
LEMMA StartApart ==
  ASSUME NEW c \in Callers, StartStepOf(c)
  PROVE  office' = office /\ (\E x : Apart(c, x)) /\ UNCHANGED leasing
  <1>1. office' = office /\ UNCHANGED leasing
    BY DEF StartStepOf, fixed
  <1>2. \/ \E x \in {"done", "checked", "claimed", "vacant", "quantizing"} : pc' = [pc EXCEPT ![c] = x]
        \/ Ask(c).do = "schedule" /\ pc' = [pc EXCEPT ![c] = "idle"]
    <2>1. CASE Apply(c)
      BY <2>1 DEF Apply, Declined, Goes
    <2>2. CASE Claim(c) \/ Vacant(c)
      BY <2>2 DEF Claim, Vacant, Declined, Goes
    <2>3. CASE Launch(c)
      BY <2>3 DEF Launch, Declined, Goes
    <2>4. CASE Cancel(c) \/ Quantize(c)
      BY <2>4 DEF Cancel, Quantize, Goes
    <2> QED BY <2>1, <2>2, <2>3, <2>4 DEF StartStepOf, StartStep
  <1> QED BY <1>1, <1>2 DEF Apart, Reading, Creator

----------------------------------------------------------------------------
(* Time, and refusals. *)

\* Nothing but time passes.
LEMMA TimePasses ==
  ASSUME KeyInv, clock' \in Int, clock' >= clock,
         UNCHANGED <<office, pc, keys, lease, known, healthy, issued, grant, at>>
  PROVE  KeyInv'
  <1> USE DEF Ask, Program, Creator, Credential, Val, Has
  <1>0. Callers' = Callers /\ Live' = Live /\ Types
    BY DEF Callers, Live, KeyInv
  <1>1. Types'
    BY <1>0 DEF Types
  <1>2. ASSUME NEW c \in Callers PROVE CallerInv(c)'
    <2>0. CallerInv(c) /\ clock \in Int
      BY <1>0 DEF KeyInv, CallerInv, Types
    <2>1. Timely(c)'
      BY <2>0 DEF CallerInv, Timely
    <2>2. Promised(c)'
      <3>1. SUFFICES ASSUME Ask(c).do = "lease", lease # None, lease.owner = Credential(c)
                     PROVE  lease.expires <= clock' + Ask(c).duration
        BY <2>0 DEF CallerInv, Promised
      <3>2. lease.expires <= clock + Ask(c).duration
        BY <2>0, <3>1 DEF CallerInv, Promised
      <3>3. Ask(c).duration \in Nat /\ lease \in [id : Nat, owner : Identifiers, expires : Int]
        BY <1>0, <3>1, OwnKeys DEF Types
      <3>4. Ask(c).duration \in Int /\ lease.expires \in Int
        BY <3>3
      <3> QED BY <2>0, <3>2, <3>4
    <2>3. Believed(c)' /\ Unborn(c)'
      BY <2>0 DEF CallerInv, Believed, Unborn
    <2>4. ASSUME Good(c)' PROVE Held(c)'
      <3>1. grant[c] # None /\ Credential(c) \in DOMAIN Live /\ grant[c].expires > clock'
        BY <2>4, <1>0 DEF Good
      <3>2. grant[c].expires \in Int
        BY <2>0, <3>1 DEF CallerInv, Believed
      <3>3. \A e \in Int : e > clock' => e > clock
        BY <2>0
      <3>4. grant[c].expires > clock
        BY <3>1, <3>2, <3>3
      <3> QED BY <2>0, <3>1, <3>4 DEF CallerInv, Good, Held
    <2> QED BY <2>1, <2>2, <2>3, <2>4 DEF CallerInv
  <1> QED BY <1>0, <1>1, <1>2 DEF KeyInv, CallerInv

\* A call that is refused has no grant to lose.
LEMMA DenyStep ==
  ASSUME KeyInv, NEW c \in Callers, Deny(c), office' = office
  PROVE  KeyInv'
  <1>1. UNCHANGED <<keys, lease, known, healthy, issued, clock, grant, at>>
    BY DEF Deny, database
  <1>2. CASE UNCHANGED pc
    BY <1>1, <1>2, TimePasses DEF KeyInv, Types
  <1>3. CASE Goes(c, "done")
    <2>1. Apart(c, "done")
      BY <1>3 DEF Goes, Apart, Reading
    <2> QED BY <1>1, <2>1, StepApart
  <1> QED BY <1>2, <1>3 DEF Deny

----------------------------------------------------------------------------
(* Keys. *)

\* Keys come, go and change their priority: what that may do to a caller.
LEMMA KeysChange ==
  ASSUME KeyInv, office' = office, clock' = clock, issued' = issued,
         UNCHANGED <<grant, at>>, NEW c \in Callers, pc' = [pc EXCEPT ![c] = "done"],
         keys' \in [DOMAIN keys' -> Key], DOMAIN keys \subseteq DOMAIN keys',
         DOMAIN keys' \subseteq DOMAIN keys \cup {Ask(c).id},
         Creator(c) \/ DOMAIN keys' = DOMAIN keys,
         healthy' => known' = Live',
         lease' \in {lease, None}, lease' # None => lease'.owner \in DOMAIN Live',
         \A k \in DOMAIN keys \cap DOMAIN Live' : k \in DOMAIN Live,
         lease # None /\ lease.owner \in DOMAIN Live' => lease' = lease
  PROVE  KeyInv'
  <1> USE DEF Ask, Program, Creator, Credential, Val, Has
  <1>0. Callers' = Callers /\ Types
    BY DEF Callers, KeyInv
  <1>1. Types'
    <2>1. DOMAIN keys' \subseteq Identifiers
      <3>1. CASE DOMAIN keys' = DOMAIN keys
        BY <1>0, <3>1 DEF Types
      <3>2. CASE Creator(c)
        <4>1. Ask(c).id \in Identifiers
          BY <1>0, <3>2, NewKeys DEF Types
        <4> QED BY <1>0, <4>1 DEF Types
      <3> QED BY <3>1, <3>2
    <2> QED BY <1>0, <2>1 DEF Types
  <1>2. ASSUME NEW d \in Callers PROVE CallerInv(d)'
    <2>0. CallerInv(d)
      BY DEF KeyInv, CallerInv
    <2>1. pc'[d] = IF d = c THEN "done" ELSE pc[d]
      BY <1>0 DEF Types
    <2>2. Timely(d)'
      BY <2>0, <2>1 DEF CallerInv, Timely, Reading
    <2>3. Promised(d)'
      <3>1. SUFFICES ASSUME Ask(d).do = "lease", lease' # None, lease'.owner = Credential(d)
                     PROVE  /\ lease'.expires <= clock + Ask(d).duration
                            /\ pc'[d] = "renewing" => lease'.expires <= at[d] + Ask(d).duration
        BY DEF Promised
      <3>2. lease' = lease
        BY <3>1
      <3>3. /\ lease.expires <= clock + Ask(d).duration
            /\ pc[d] = "renewing" => lease.expires <= at[d] + Ask(d).duration
        BY <2>0, <3>1, <3>2 DEF CallerInv, Promised
      <3>4. pc'[d] = "renewing" => pc[d] = "renewing"
        BY <2>1
      <3> QED BY <3>2, <3>3, <3>4
    <2>4. Believed(d)'
      BY <2>0 DEF CallerInv, Believed
    <2>5. Unborn(d)'
      <3>1. SUFFICES ASSUME Creator(d), pc'[d] = "idle" PROVE Ask(d).id \notin DOMAIN keys'
        BY DEF Unborn
      <3>2. d # c /\ Ask(d).id \notin DOMAIN keys
        BY <2>0, <2>1, <3>1 DEF CallerInv, Unborn
      <3>3. Creator(c) => Ask(d).id # Ask(c).id
        BY <1>0, <3>1, <3>2, NewKeys DEF Types
      <3> QED BY <3>2, <3>3
    <2>6. ASSUME Good(d)' PROVE Held(d)'
      <3>1. grant[d] # None /\ Credential(d) \in DOMAIN Live' /\ grant[d].expires > clock
        BY <2>6 DEF Good
      <3>2. Credential(d) \in DOMAIN keys
        BY <2>0, <3>1 DEF CallerInv, Believed
      <3>3. Good(d)
        BY <3>1, <3>2 DEF Good
      <3>4. Held(d)
        BY <2>0, <3>3 DEF CallerInv
      <3>5. lease' = lease
        BY <3>1, <3>4 DEF Held
      <3> QED BY <3>4, <3>5 DEF Held
    <2> QED BY <2>2, <2>3, <2>4, <2>5, <2>6 DEF CallerInv
  <1> QED BY <1>0, <1>1, <1>2 DEF KeyInv, CallerInv

\* A key is created under an identifier that was free: no lease names it.
LEMMA CreateStep ==
  ASSUME KeyInv, NEW c \in Callers, Create(c), office' = office
  PROVE  KeyInv'
  <1>0. /\ UNCHANGED <<clock, issued, grant, at, healthy, lease>>
        /\ pc' = [pc EXCEPT ![c] = "done"] /\ pc[c] = "idle" /\ Ask(c).do = "create"
    BY DEF Create, Administers, Goes
  <1>1. Types /\ (lease # None => lease.owner \in DOMAIN Live)
    BY DEF KeyInv
  <1>2. CASE UNCHANGED <<keys, known>>
    <2>1. Live' = Live
      BY <1>2 DEF Live
    <2> QED BY <1>0, <1>1, <1>2, <2>1, KeysChange DEF Types, Creator
  <1>3. CASE /\ healthy /\ ValidPriority(Ask(c).priority)
             /\ keys' = Added(keys, Ask(c).id, [priority |-> Ask(c).priority, revoked |-> FALSE])
             /\ known' = Added(known, Ask(c).id, Ask(c).priority)
    <2>1. /\ DOMAIN keys' = DOMAIN keys \cup {Ask(c).id}
          /\ \A k \in DOMAIN keys' : keys'[k] = IF k = Ask(c).id THEN [priority |-> Ask(c).priority, revoked |-> FALSE]
                                                ELSE keys[k]
      BY <1>3 DEF Added
    <2>2. Ask(c).id \notin DOMAIN keys
      BY <1>0 DEF KeyInv, Unborn, Creator
    <2>3. keys' \in [DOMAIN keys' -> Key]
      <3>1. [priority |-> Ask(c).priority, revoked |-> FALSE] \in Key
        BY <1>3 DEF Key, ValidPriority
      <3>2. \A k \in DOMAIN keys : keys[k] \in Key
        BY <1>1 DEF Types
      <3>3. \A k \in DOMAIN keys' : keys'[k] \in Key
        BY <2>1, <3>1, <3>2
      <3>4. keys' = [k \in DOMAIN keys' |-> keys'[k]]
        BY <1>3 DEF Added
      <3> QED BY <3>3, <3>4
    <2>4. DOMAIN Live' = DOMAIN Live \cup {Ask(c).id}
      BY <2>1, <2>2 DEF Live
    <2>5. known = Live
      BY <1>1, <1>3 DEF Types
    <2>6. known' = Live'
      <3>1. Live' = [k \in DOMAIN Live' |-> keys'[k].priority]
        BY DEF Live
      <3>2. known' = [k \in DOMAIN Live \cup {Ask(c).id} |-> IF k = Ask(c).id THEN Ask(c).priority ELSE Live[k]]
        BY <1>3, <2>5 DEF Added
      <3>3. \A k \in DOMAIN Live : k \in DOMAIN keys /\ Live[k] = keys[k].priority
        BY DEF Live
      <3>4. \A k \in DOMAIN Live' : keys'[k].priority = IF k = Ask(c).id THEN Ask(c).priority ELSE Live[k]
        BY <2>1, <2>4, <3>3
      <3> QED BY <2>4, <3>1, <3>2, <3>4
    <2>7. Creator(c) /\ lease' = lease /\ DOMAIN keys \subseteq DOMAIN keys'
      BY <1>0, <2>1 DEF Creator
    <2>8. \A k \in DOMAIN keys \cap DOMAIN Live' : k \in DOMAIN Live
      BY <2>2, <2>4
    <2>9. lease' # None => lease'.owner \in DOMAIN Live'
      BY <1>1, <2>4, <2>7
    <2> QED BY <1>0, <2>1, <2>3, <2>6, <2>7, <2>8, <2>9, KeysChange
  <1> QED BY <1>2, <1>3 DEF Create

\* A new priority reaches the row of the key and what requests are checked
\* against together.
LEMMA UpdateStep ==
  ASSUME KeyInv, NEW c \in Callers, Update(c), office' = office
  PROVE  KeyInv'
  <1>0. /\ UNCHANGED <<clock, issued, grant, at, healthy, lease>>
        /\ pc' = [pc EXCEPT ![c] = "done"]
    BY DEF Update, Administers, Goes
  <1>1. Types /\ (lease # None => lease.owner \in DOMAIN Live)
    BY DEF KeyInv
  <1>2. CASE UNCHANGED <<keys, known>>
    <2>1. Live' = Live
      BY <1>2 DEF Live
    <2> QED BY <1>0, <1>1, <1>2, <2>1, KeysChange DEF Types
  <1>3. CASE /\ healthy /\ Ask(c).id \in DOMAIN known /\ ValidPriority(Ask(c).priority)
             /\ keys' = [keys EXCEPT ![Ask(c).id].priority = Ask(c).priority]
             /\ known' = [known EXCEPT ![Ask(c).id] = Ask(c).priority]
    <2> DEFINE id == Ask(c).id
               p == Ask(c).priority
    <2>1. known = Live /\ id \in DOMAIN Live /\ id \in DOMAIN keys /\ p \in Int
      BY <1>1, <1>3, LiveKeys DEF Types, ValidPriority
    <2>2. keys[id] \in Key /\ keys \in [DOMAIN keys -> Key]
      BY <1>1, <2>1 DEF Types
    <2>3. keys'[id] = [keys[id] EXCEPT !.priority = p]
      BY <1>3, <2>1
    <2>4. keys'[id] \in Key /\ keys'[id].priority = p /\ keys'[id].revoked = keys[id].revoked
      BY <2>1, <2>2, <2>3 DEF Key
    <2>5. /\ DOMAIN keys' = DOMAIN keys /\ keys' \in [DOMAIN keys' -> Key]
          /\ \A k \in DOMAIN keys \ {id} : keys'[k] = keys[k]
      BY <1>3, <2>2, <2>3, <2>4
    <2>6. DOMAIN Live' = DOMAIN Live
      BY <2>4, <2>5 DEF Live
    <2>7. known' = Live'
      <3>1. Live' = [k \in DOMAIN Live |-> keys'[k].priority]
        BY <2>6 DEF Live
      <3>2. \A k \in DOMAIN Live : keys'[k].priority = IF k = id THEN p ELSE Live[k]
        BY <2>4, <2>5, LiveKeys
      <3>3. known' = [k \in DOMAIN Live |-> IF k = id THEN p ELSE Live[k]]
        BY <1>3, <2>1 DEF Live
      <3> QED BY <3>1, <3>2, <3>3
    <2> QED BY <1>0, <1>1, <2>5, <2>6, <2>7, KeysChange
  <1> QED BY <1>2, <1>3 DEF Update

\* Revoking a key takes its lease, and nobody else's.
LEMMA RevokeStep ==
  ASSUME KeyInv, NEW c \in Callers, Revoke(c), office' = office
  PROVE  KeyInv'
  <1>0. /\ UNCHANGED <<clock, issued, grant, at, healthy>>
        /\ pc' = [pc EXCEPT ![c] = "done"]
    BY DEF Revoke, Administers, Goes
  <1>1. Types /\ (lease # None => lease.owner \in DOMAIN Live)
    BY DEF KeyInv
  <1>2. CASE UNCHANGED <<keys, lease, known>>
    <2>1. Live' = Live
      BY <1>2 DEF Live
    <2> QED BY <1>0, <1>1, <1>2, <2>1, KeysChange DEF Types
  <1>3. CASE /\ healthy /\ Ask(c).id \in DOMAIN Live
             /\ keys' = [keys EXCEPT ![Ask(c).id].revoked = TRUE] /\ lease' = Freed(Ask(c).id)
             /\ known' = [k \in DOMAIN known \ {Ask(c).id} |-> known[k]]
    <2> DEFINE id == Ask(c).id
    <2>1. known = Live /\ id \in DOMAIN keys
      BY <1>1, <1>3, LiveKeys DEF Types
    <2>2. keys[id] \in Key /\ keys \in [DOMAIN keys -> Key]
      BY <1>1, <2>1 DEF Types
    <2>3. keys'[id] = [keys[id] EXCEPT !.revoked = TRUE]
      BY <1>3, <2>1
    <2>4. keys'[id] \in Key /\ keys'[id].revoked
      BY <2>2, <2>3 DEF Key
    <2>5. /\ DOMAIN keys' = DOMAIN keys /\ keys' \in [DOMAIN keys' -> Key]
          /\ \A k \in DOMAIN keys \ {id} : keys'[k] = keys[k]
      BY <1>3, <2>2, <2>3, <2>4
    <2>6. DOMAIN Live' = DOMAIN Live \ {id}
      BY <2>4, <2>5 DEF Live
    <2>7. known' = Live'
      <3>1. Live' = [k \in DOMAIN Live \ {id} |-> keys'[k].priority]
        BY <2>6 DEF Live
      <3>2. \A k \in DOMAIN Live \ {id} : keys'[k].priority = Live[k]
        BY <2>5, LiveKeys
      <3>3. known' = [k \in DOMAIN Live \ {id} |-> Live[k]]
        BY <1>3, <2>1
      <3> QED BY <3>1, <3>2, <3>3
    <2>8. /\ lease' \in {lease, None} /\ (lease' # None => lease'.owner \in DOMAIN Live')
          /\ lease # None /\ lease.owner \in DOMAIN Live' => lease' = lease
      BY <1>1, <1>3, <2>6 DEF Freed
    <2> QED BY <1>0, <1>1, <2>5, <2>6, <2>7, <2>8, KeysChange
  <1> QED BY <1>2, <1>3 DEF Revoke

----------------------------------------------------------------------------
(* The lease. *)

\* Deleting what had expired when the clock was read takes nothing from anybody.
LEMMA FreshKeeps ==
  ASSUME KeyInv, NEW c \in Callers, pc[c] \in Reading
  PROVE  /\ Fresh(at[c]) # None => Fresh(at[c]) = lease
         /\ lease # None /\ lease.expires > clock => Fresh(at[c]) = lease
  <1>1. at[c] \in Int /\ at[c] <= clock /\ clock \in Int
    BY DEF KeyInv, Timely, Types
  <1>2. lease # None => lease.expires \in Int
    <2>1. lease # None => lease \in [id : Nat, owner : Identifiers, expires : Int]
      BY DEF KeyInv, Types
    <2> QED BY <2>1
  <1>3. \A e \in Int : e > clock => ~(e <= at[c])
    BY <1>1
  <1> QED BY <1>2, <1>3 DEF Fresh

\* An answer ends the call; it is believed or lost.
LEMMA AnswerTells ==
  ASSUME Types, NEW c \in Callers, NEW g, Answer(c, g)
  PROVE  /\ pc'[c] = "idle" /\ grant'[c] \in {g, grant[c]}
         /\ DOMAIN pc' = Callers /\ DOMAIN grant' = Callers
         /\ \A d \in Callers \ {c} : pc'[d] = pc[d] /\ grant'[d] = grant[d]
  BY DEF Types, Answer, Goes

\* A program that has its answer.
LEMMA AnswerKeeps ==
  ASSUME KeyInv, office' = office, clock' = clock, keys' = keys, NEW c \in Callers, Program(c),
         pc'[c] = "idle",
         lease' # None /\ lease'.owner = Credential(c) /\ Ask(c).do = "lease" =>
             lease'.expires <= clock + Ask(c).duration,
         grant'[c] # None => Credential(c) \in DOMAIN keys /\ grant'[c].expires \in Int,
         Good(c)' => Held(c)'
  PROVE  CallerInv(c)'
  <1> USE DEF Ask, Program, Creator, Credential, Val, Has
  <1>1. Timely(c)' /\ Unborn(c)'
    BY DEF Timely, Unborn, Reading
  <1>2. Promised(c)'
    BY DEF Promised
  <1>3. Believed(c)'
    BY DEF Believed
  <1> QED BY <1>1, <1>2, <1>3 DEF CallerInv

\* What is known of the row and of a program that owns it.
LEMMA OwnRow ==
  ASSUME KeyInv, NEW c \in Callers, Program(c), lease # None, lease.owner = Credential(c)
  PROVE  /\ lease.expires \in Int /\ Credential(c) \in DOMAIN keys
         /\ Ask(c).do = "lease" => lease.expires <= clock + Ask(c).duration
  <1>1. lease \in [id : Nat, owner : Identifiers, expires : Int]
    BY DEF KeyInv, Types
  <1>2. Credential(c) \in DOMAIN keys
    BY LiveKeys DEF KeyInv
  <1> QED BY <1>1, <1>2 DEF KeyInv, Promised

\* A program that is told of its row holds it.
LEMMA ToldHolds ==
  ASSUME office' = office, NEW c \in Callers, lease' # None, lease'.owner = Credential(c),
         lease'.expires \in Int, grant'[c] = Told(lease')
  PROVE  Held(c)' /\ grant'[c].expires = lease'.expires
  <1>1. Credential(c)' = Credential(c)
    BY DEF Credential, Ask, Val, Has
  <1>2. grant'[c].expires = lease'.expires /\ grant'[c].id = lease'.id
    BY DEF Told
  <1> QED BY <1>1, <1>2 DEF Held

\* The clock is read when a program is authorized; one that will release has
\* forgotten its grant by then.
LEMMA CallStep ==
  ASSUME KeyInv, NEW c \in Callers, Call(c), office' = office
  PROVE  KeyInv'
  <1> USE DEF Ask, Program, Creator, Credential, Val, Has
  <1>0. /\ UNCHANGED <<keys, lease, known, healthy, issued, clock>>
        /\ Program(c) /\ pc[c] = "idle" /\ ~Creator(c)
    BY DEF Call, database, Principal
  <1>1. Types /\ CallerInv(c)
    BY DEF KeyInv, CallerInv
  <1>2. PICK x \in {"asking", "renewing", "releasing"} : pc' = [pc EXCEPT ![c] = x]
    BY DEF Call, Goes
  <1>3. /\ DOMAIN at' = Callers /\ DOMAIN grant' = Callers /\ DOMAIN pc' = Callers /\ pc'[c] = x
        /\ \A d \in Callers \ {c} : Spared(d)
    BY <1>1, <1>2 DEF Call, Types, Spared
  <1>4. CallerInv(c)'
    <2>1. CASE Goes(c, "asking") /\ at' = [at EXCEPT ![c] = clock] /\ UNCHANGED grant
      <3>1. pc'[c] = "asking" /\ at'[c] = clock
        BY <1>1, <2>1 DEF Goes, Types
      <3>2. Timely(c)' /\ Unborn(c)'
        BY <1>0, <1>1, <3>1 DEF Timely, Unborn, Types
      <3>3. Promised(c)' /\ Believed(c)' /\ (Good(c)' => Held(c)')
        BY <1>0, <1>1, <2>1, <3>1 DEF CallerInv, Promised, Believed, Good, Held, Live
      <3> QED BY <3>2, <3>3 DEF CallerInv
    <2>2. CASE /\ Ask(c).do = "lease" /\ grant[c] # None /\ Goes(c, "renewing")
               /\ at' = [at EXCEPT ![c] = clock] /\ UNCHANGED grant
      <3>1. pc'[c] = "renewing" /\ at'[c] = clock
        BY <1>1, <2>2 DEF Goes, Types
      <3>2. Timely(c)' /\ Unborn(c)'
        BY <1>0, <1>1, <2>2, <3>1 DEF Timely, Unborn, Types
      <3>3. Promised(c)' /\ Believed(c)' /\ (Good(c)' => Held(c)')
        BY <1>0, <1>1, <2>2, <3>1 DEF CallerInv, Promised, Believed, Good, Held, Live
      <3> QED BY <3>2, <3>3 DEF CallerInv
    <2>3. CASE /\ Ask(c).do = "lease" /\ grant[c] # None /\ Goes(c, "releasing")
               /\ at' = [at EXCEPT ![c] = grant[c].id] /\ grant' = [grant EXCEPT ![c] = None]
      <3>1. pc'[c] = "releasing" /\ grant'[c] = None
        BY <1>1, <2>3 DEF Goes, Types
      <3>2. Timely(c)' /\ Unborn(c)'
        BY <1>0, <2>3, <3>1 DEF Timely, Unborn, Reading
      <3>3. Promised(c)' /\ Believed(c)' /\ (Good(c)' => Held(c)')
        BY <1>0, <1>1, <3>1 DEF CallerInv, Promised, Believed, Good
      <3> QED BY <3>2, <3>3 DEF CallerInv
    <2> QED BY <2>1, <2>2, <2>3 DEF Call
  <1>5. Types'
    BY <1>0, <1>1, <1>3 DEF Types, Callers, Live
  <1>6. \A d \in Callers : Untouched(d)
    BY <1>0 DEF Untouched
  <1> QED BY <1>0, <1>3, <1>4, <1>5, <1>6, OneCaller DEF KeyInv

\* Looking at the lease deletes an expired row and tells the owner of a good one.
LEMMA InspectStep ==
  ASSUME KeyInv, NEW c \in Callers, Inspect(c), office' = office
  PROVE  KeyInv'
  <1> DEFINE cred == Credential(c)
  <1>0. /\ UNCHANGED <<keys, known, healthy, issued, clock, at>>
        /\ pc[c] = "asking"
    BY DEF Inspect
  <1>1. Types /\ CallerInv(c) /\ Program(c)
    BY <1>0 DEF KeyInv, CallerInv, Timely, Reading
  <1>2. /\ lease' # None => lease' = lease
        /\ lease # None /\ lease.expires > clock => lease' = lease
    BY <1>0, FreshKeeps DEF Inspect, Reading
  <1>3. \A d \in Callers : Untouched(d)
    BY <1>2 DEF Untouched
  <1>4. Types'
    <2>1. DOMAIN pc' = Callers /\ DOMAIN grant' = Callers
      BY <1>1, AnswerTells DEF Inspect, Goes, Types
    <2> QED BY <1>0, <1>1, <1>2, <2>1 DEF Types, Callers, Live
  <1>5. \A d \in Callers \ {c} : Spared(d)
    BY <1>0, <1>1, AnswerTells DEF Inspect, Goes, Types, Spared
  <1>6. CallerInv(c)'
    <2>1. CASE Goes(c, "free") /\ UNCHANGED grant
      <3>1. pc'[c] = "free"
        BY <1>1, <2>1 DEF Goes, Types
      <3>2. Timely(c)' /\ Unborn(c)'
        BY <1>0, <1>1, <3>1 DEF CallerInv, Timely, Unborn, Program, Creator, Ask, Reading
      <3>3. Promised(c)'
        BY <1>0, <1>1, <1>2, <3>1 DEF CallerInv, Promised, Credential, Ask, Val, Has
      <3>4. Believed(c)'
        BY <1>0, <1>1, <2>1 DEF CallerInv, Believed, Program, Credential, Ask, Val, Has
      <3>5. Good(c)' => Held(c)'
        BY <1>0, <1>3, <2>1, StillHeld
      <3> QED BY <3>2, <3>3, <3>4, <3>5 DEF CallerInv
    <2>2. CASE \E g : /\ Answer(c, g)
                      /\ g = grant[c] \/ (lease' # None /\ lease'.owner = cred /\ g = Told(lease'))
      <3>1. PICK g : /\ Answer(c, g)
                     /\ g = grant[c] \/ (lease' # None /\ lease'.owner = cred /\ g = Told(lease'))
        BY <2>2
      <3>2. pc'[c] = "idle" /\ grant'[c] \in {g, grant[c]}
        BY <1>1, <3>1, AnswerTells
      <3>3. lease' # None /\ lease'.owner = cred =>
              /\ lease' = lease /\ lease.expires \in Int /\ cred \in DOMAIN keys
              /\ (Ask(c).do = "lease" => lease.expires <= clock + Ask(c).duration)
        BY <1>1, <1>2, OwnRow
      <3>4. CASE grant'[c] = grant[c]
        <4>1. Good(c)' => Held(c)'
          BY <1>0, <1>3, <3>4, StillHeld
        <4> QED BY <1>0, <1>1, <3>2, <3>3, <3>4, <4>1, AnswerKeeps DEF CallerInv, Believed
      <3>5. CASE lease' # None /\ lease'.owner = cred /\ grant'[c] = Told(lease')
        <4>1. lease'.expires \in Int /\ lease'.owner = Credential(c)
          BY <3>3, <3>5
        <4>2. Held(c)' /\ grant'[c].expires = lease'.expires
          BY <3>5, <4>1, ToldHolds
        <4> QED BY <1>0, <1>1, <3>2, <3>3, <3>5, <4>1, <4>2, AnswerKeeps
      <3> QED BY <3>1, <3>2, <3>4, <3>5
    <2> QED BY <2>1, <2>2 DEF Inspect
  <1>7. lease' # None => lease'.owner \in DOMAIN Live
    BY <1>2 DEF KeyInv
  <1> QED BY <1>0, <1>3, <1>4, <1>5, <1>6, <1>7, OneCaller

\* A grant that is good is for a row that has not expired.
LEMMA StillGood ==
  ASSUME KeyInv, NEW c \in Callers, Good(c)
  PROVE  lease # None /\ lease.expires > clock
  <1>1. Held(c) /\ grant[c].expires \in Int /\ grant[c].expires > clock
    BY DEF KeyInv, Believed, Good
  <1>2. lease # None /\ lease.expires >= grant[c].expires
    BY <1>1 DEF Held
  <1>3. lease \in [id : Nat, owner : Identifiers, expires : Int] /\ clock \in Int
    BY <1>2 DEF KeyInv, Types
  <1>4. lease.expires \in Int
    BY <1>3
  <1> QED BY <1>1, <1>2, <1>3, <1>4

\* The load is looked at before the lease is acquired.
LEMMA ProbeStep ==
  ASSUME KeyInv, NEW c \in Callers, Probe(c), office' = office
  PROVE  KeyInv'
  <1>0. /\ UNCHANGED <<keys, lease, known, healthy, issued, clock, at>>
        /\ pc[c] = "free"
    BY DEF Probe, database
  <1>1. Types /\ CallerInv(c) /\ Program(c)
    BY <1>0 DEF KeyInv, CallerInv, Timely, Reading
  <1>2. /\ DOMAIN pc' = Callers /\ DOMAIN grant' = Callers /\ grant'[c] = grant[c]
        /\ pc'[c] \in {"clear", "idle"} /\ (pc'[c] = "clear" => Ask(c).do = "lease")
        /\ \A d \in Callers \ {c} : Spared(d)
    BY <1>0, <1>1, AnswerTells DEF Probe, Goes, Types, Spared
  <1>3. \A d \in Callers : Untouched(d)
    BY <1>0 DEF Untouched
  <1>4. Types'
    BY <1>0, <1>1, <1>2 DEF Types, Callers, Live
  <1>5. CallerInv(c)'
    <2>1. Timely(c)' /\ Unborn(c)'
      BY <1>0, <1>1, <1>2 DEF CallerInv, Timely, Unborn, Program, Creator, Ask, Reading
    <2>2. Promised(c)'
      BY <1>0, <1>1, <1>2 DEF CallerInv, Promised, Credential, Ask, Val, Has
    <2>3. Believed(c)'
      BY <1>0, <1>1, <1>2 DEF CallerInv, Believed, Program, Credential, Ask, Val, Has
    <2>4. Good(c)' => Held(c)'
      BY <1>0, <1>2, <1>3, StillHeld
    <2> QED BY <2>1, <2>2, <2>3, <2>4 DEF CallerInv
  <1> QED BY <1>0, <1>2, <1>3, <1>4, <1>5, OneCaller DEF KeyInv

\* A call that ends with the row as it was, or without what had expired.
LEMMA Concludes ==
  ASSUME KeyInv, NEW c \in Callers, Program(c), office' = office, NEW g, Answer(c, g),
         UNCHANGED <<keys, known, healthy, issued, clock, at>>,
         lease' # None => lease' = lease,
         lease # None /\ lease.expires > clock => lease' = lease,
         g \in {None, grant[c]} \/ (lease' # None /\ lease'.owner = Credential(c) /\ g = Told(lease'))
  PROVE  KeyInv'
  <1>1. Types /\ CallerInv(c)
    BY DEF KeyInv, CallerInv
  <1>2. /\ pc'[c] = "idle" /\ grant'[c] \in {g, grant[c]}
        /\ DOMAIN pc' = Callers /\ DOMAIN grant' = Callers /\ \A d \in Callers \ {c} : Spared(d)
    BY <1>1, AnswerTells DEF Spared
  <1>3. \A d \in Callers : Untouched(d)
    BY DEF Untouched
  <1>4. Types'
    BY <1>1, <1>2 DEF Types, Callers, Live
  <1>5. lease' # None /\ lease'.owner = Credential(c) =>
          /\ lease' = lease /\ lease.expires \in Int /\ Credential(c) \in DOMAIN keys
          /\ (Ask(c).do = "lease" => lease.expires <= clock + Ask(c).duration)
    BY OwnRow
  <1>6. CallerInv(c)'
    <2>1. CASE grant'[c] = grant[c]
      <3>1. Good(c)' => Held(c)'
        BY <1>3, <2>1, StillHeld
      <3> QED BY <1>1, <1>2, <1>5, <2>1, <3>1, AnswerKeeps DEF CallerInv, Believed
    <2>2. CASE lease' # None /\ lease'.owner = Credential(c) /\ grant'[c] = Told(lease')
      <3>1. lease'.expires \in Int
        BY <1>5, <2>2
      <3>2. Held(c)' /\ grant'[c].expires = lease'.expires
        BY <2>2, <3>1, ToldHolds
      <3> QED BY <1>2, <1>5, <2>2, <3>1, <3>2, AnswerKeeps
    <2>3. CASE grant'[c] = None
      <3>1. ~Good(c)'
        BY <2>3 DEF Good
      <3> QED BY <1>2, <1>5, <2>3, <3>1, AnswerKeeps
    <2> QED BY <1>2, <2>1, <2>2, <2>3
  <1>7. lease' # None => lease'.owner \in DOMAIN Live
    BY DEF KeyInv
  <1> QED BY <1>2, <1>3, <1>4, <1>6, <1>7, OneCaller

\* A program writes the row for itself: a new lease, or a renewed one.
LEMMA Writes ==
  ASSUME KeyInv, NEW c \in Callers, Ask(c).do = "lease", office' = office,
         pc[c] \in {"clear", "renewing"}, MayOwn(c), UNCHANGED <<keys, known, healthy, clock, at>>,
         NEW id \in Nat, issued' \in Nat, Answer(c, Told(lease')),
         lease' = [id |-> id, owner |-> Credential(c), expires |-> at[c] + Ask(c).duration],
         lease # None => lease.expires <= at[c] \/ lease.owner = Credential(c),
         grant'[c] = grant[c] /\ Good(c) => lease'.id = grant[c].id /\ lease'.expires >= grant[c].expires
  PROVE  KeyInv'
  <1>0. Types /\ CallerInv(c) /\ Program(c)
    BY DEF KeyInv, CallerInv, Program
  <1>1. /\ at[c] \in Int /\ at[c] <= clock /\ clock \in Int /\ Ask(c).duration \in Nat
    BY <1>0, OwnKeys DEF CallerInv, Timely, Reading, Types
  <1>2. lease'.expires \in Int /\ lease'.expires <= clock + Ask(c).duration
    BY <1>1
  <1>3. Credential(c) \in DOMAIN Live /\ Credential(c) \in DOMAIN keys /\ Credential(c) \in Identifiers
    BY <1>0, LiveKeys DEF MayOwn, Types
  <1>4. lease' # None /\ lease' \in [id : Nat, owner : Identifiers, expires : Int]
    <2>1. lease' \in [id : Nat, owner : Identifiers, expires : Int]
      BY <1>1, <1>3
    <2> QED BY <2>1, OfficeAssumption
  <1>5. /\ pc'[c] = "idle" /\ grant'[c] \in {Told(lease'), grant[c]}
        /\ DOMAIN pc' = Callers /\ DOMAIN grant' = Callers /\ \A d \in Callers \ {c} : Spared(d)
    BY <1>0, AnswerTells DEF Spared
  <1>6. Types'
    BY <1>0, <1>4, <1>5 DEF Types, Callers, Live
  <1>7. ASSUME NEW d \in Callers \ {c}, Program(d) PROVE Untouched(d)
    <2>1. Credential(d) # Credential(c)
      BY <1>0, <1>7, OwnKeys DEF Types
    <2>2. lease # None => lease.expires \in Int
      <3>1. lease # None => lease \in [id : Nat, owner : Identifiers, expires : Int]
        BY <1>0 DEF Types
      <3> QED BY <3>1
    <2>3. lease # None /\ lease.owner = Credential(d) => ~(lease.expires > clock)
      <3>1. \A e \in Int : e <= at[c] => ~(e > clock)
        BY <1>1
      <3> QED BY <2>1, <2>2, <3>1
    <2> QED BY <2>1, <2>3 DEF Untouched
  <1>8. CallerInv(c)'
    <2>1. CASE grant'[c] = Told(lease')
      <3>1. Held(c)' /\ grant'[c].expires = lease'.expires
        BY <1>2, <1>4, <2>1, ToldHolds
      <3> QED BY <1>0, <1>2, <1>3, <1>5, <3>1, AnswerKeeps
    <2>2. CASE grant'[c] = grant[c]
      <3>1. Credential(c)' = Credential(c) /\ Live' = Live
        BY DEF Credential, Ask, Val, Has, Live
      <3>2. Good(c)' => Held(c)'
        BY <1>4, <2>2, <3>1 DEF Good, Held
      <3> QED BY <1>0, <1>2, <1>5, <2>2, <3>2, AnswerKeeps DEF CallerInv, Believed
    <2> QED BY <1>5, <2>1, <2>2
  <1> QED BY <1>3, <1>5, <1>6, <1>7, <1>8, OneCaller

\* Acquiring writes a row only where none was good at the time that was read.
LEMMA AcquireStep ==
  ASSUME KeyInv, NEW c \in Callers, Acquire(c), office' = office
  PROVE  KeyInv'
  <1>0. UNCHANGED <<keys, known, healthy, clock, at>> /\ pc[c] = "clear"
    BY DEF Acquire
  <1>1. Types /\ CallerInv(c) /\ Program(c) /\ Ask(c).do = "lease"
    BY <1>0 DEF KeyInv, CallerInv, Timely, Program
  <1>2. /\ Fresh(at[c]) # None => Fresh(at[c]) = lease
        /\ lease # None /\ lease.expires > clock => Fresh(at[c]) = lease
    BY <1>0, FreshKeeps DEF Reading
  <1>3. CASE /\ MayOwn(c) /\ Fresh(at[c]) = None /\ issued' = issued + 1 /\ Answer(c, Told(lease'))
             /\ lease' = [id |-> issued, owner |-> Credential(c), expires |-> at[c] + Ask(c).duration]
    <2>1. lease # None => lease.expires <= at[c]
      BY <1>3 DEF Fresh
    <2>2. ~Good(c)
      BY <1>1, <1>2, <1>3, StillGood
    <2>3. issued \in Nat /\ issued' \in Nat
      BY <1>1, <1>3 DEF Types
    <2> QED BY <1>0, <1>1, <1>3, <2>1, <2>2, <2>3, Writes
  <1>4. CASE /\ Fresh(at[c]) # None /\ lease' = lease /\ UNCHANGED issued
             /\ Answer(c, IF lease.owner = Credential(c) THEN Told(lease) ELSE grant[c])
    BY <1>0, <1>1, <1>2, <1>4, Concludes
  <1>5. CASE Answer(c, grant[c]) /\ UNCHANGED <<lease, issued>>
    BY <1>0, <1>1, <1>5, Concludes
  <1> QED BY <1>3, <1>4, <1>5 DEF Acquire

\* Renewing writes the caller's own row again, by the time that was read.
LEMMA RenewStep ==
  ASSUME KeyInv, NEW c \in Callers, Renew(c), office' = office
  PROVE  KeyInv'
  <1> DEFINE l == Fresh(at[c])
             mine == l # None /\ l.owner = Credential(c) /\ l.id = grant[c].id
  <1>0. UNCHANGED <<keys, known, healthy, issued, clock, at>> /\ pc[c] = "renewing"
    BY DEF Renew
  <1>1. Types /\ CallerInv(c) /\ Program(c) /\ Ask(c).do = "lease"
    BY <1>0 DEF KeyInv, CallerInv, Timely, Program
  <1>2. /\ l # None => l = lease
        /\ lease # None /\ lease.expires > clock => l = lease
    BY <1>0, FreshKeeps DEF Reading
  <1>3. CASE MayOwn(c) /\ mine /\ lease' = [l EXCEPT !.expires = at[c] + Ask(c).duration] /\ Answer(c, Told(lease'))
    <2>1. l = lease /\ lease # None /\ lease.owner = Credential(c) /\ lease.id = grant[c].id
      BY <1>2, <1>3
    <2>2. lease \in [id : Nat, owner : Identifiers, expires : Int]
      BY <1>1, <2>1 DEF Types
    <2>3. lease' = [id |-> lease.id, owner |-> Credential(c), expires |-> at[c] + Ask(c).duration]
      BY <1>3, <2>1, <2>2
    <2>4. lease.expires <= at[c] + Ask(c).duration
      BY <1>0, <1>1, <2>1 DEF CallerInv, Promised
    <2>5. Good(c) => lease'.id = grant[c].id /\ lease'.expires >= grant[c].expires
      <3>1. SUFFICES ASSUME Good(c) PROVE lease'.expires >= grant[c].expires
        BY <2>1, <2>3
      <3>2. lease.expires >= grant[c].expires /\ grant[c].expires \in Int
        BY <1>1, <3>1 DEF CallerInv, Held, Believed, Good
      <3>3. lease.expires \in Int /\ at[c] + Ask(c).duration \in Int
        BY <1>0, <1>1, <2>2, OwnKeys DEF CallerInv, Timely, Reading, Types
      <3>4. lease'.expires = at[c] + Ask(c).duration
        BY <2>3
      <3> QED BY <2>4, <3>2, <3>3, <3>4
    <2>6. lease.id \in Nat /\ issued' \in Nat
      BY <1>0, <1>1, <2>2 DEF Types
    <2> QED BY <1>0, <1>1, <1>3, <2>1, <2>3, <2>5, <2>6, Writes
  <1>4. CASE lease' = l /\ Answer(c, None)
    BY <1>0, <1>1, <1>2, <1>4, Concludes
  <1>5. CASE UNCHANGED lease /\ Answer(c, grant[c])
    BY <1>0, <1>1, <1>5, Concludes
  <1> QED BY <1>3, <1>4, <1>5 DEF Renew

\* Releasing deletes the caller's own row, whose grant it has given up.
LEMMA ReleaseStep ==
  ASSUME KeyInv, NEW c \in Callers, Release(c), office' = office
  PROVE  KeyInv'
  <1>0. UNCHANGED <<keys, known, healthy, issued, clock, at>> /\ pc[c] = "releasing" /\ Answer(c, None)
    BY DEF Release
  <1>1. Types /\ Program(c) /\ grant[c] = None
    BY <1>0 DEF KeyInv, Timely
  <1>2. lease' = lease \/ (lease' = None /\ lease # None /\ lease.owner = Credential(c))
    BY DEF Release
  <1>3. /\ pc'[c] = "idle" /\ grant'[c] = None
        /\ DOMAIN pc' = Callers /\ DOMAIN grant' = Callers /\ \A d \in Callers \ {c} : Spared(d)
    BY <1>0, <1>1, AnswerTells DEF Spared
  <1>4. Types'
    BY <1>0, <1>1, <1>2, <1>3 DEF Types, Callers, Live
  <1>5. ASSUME NEW d \in Callers \ {c}, Program(d) PROVE Untouched(d)
    <2>1. Credential(d) # Credential(c)
      BY <1>1, <1>5, OwnKeys DEF Types
    <2> QED BY <1>2, <2>1 DEF Untouched
  <1>6. CallerInv(c)'
    <2>1. ~Good(c)'
      BY <1>3 DEF Good
    <2>2. lease' # None /\ lease'.owner = Credential(c) /\ Ask(c).do = "lease" =>
            lease'.expires <= clock + Ask(c).duration
      BY <1>1, <1>2, OwnRow
    <2> QED BY <1>0, <1>1, <1>3, <2>1, <2>2, AnswerKeeps
  <1>7. lease' # None => lease'.owner \in DOMAIN Live
    BY <1>2 DEF KeyInv
  <1> QED BY <1>0, <1>3, <1>4, <1>5, <1>6, <1>7, OneCaller

----------------------------------------------------------------------------
(* The whole control plane. *)

\* A reload or a restart reads the keys again and ends the calls that were under
\* way; the lease row and what programs believe survive it.
LEMMA BootStep ==
  ASSUME KeyInv, KeysBoot, office' = office, pc' = pc \/ Crash
  PROVE  KeyInv'
  <1> USE DEF Ask, Program, Creator, Credential, Val, Has
  <1>0. /\ UNCHANGED <<keys, lease, issued, clock, grant, at>> /\ (healthy' => known' = Live)
        /\ Callers' = Callers /\ Live' = Live /\ Types
    BY DEF KeysBoot, database, Callers, Live, KeyInv
  <1>1. DOMAIN pc' = Callers /\ \A c \in Callers : pc'[c] = pc[c] \/ pc'[c] \in {"holding", "done"}
                                                   \/ (pc'[c] = "idle" /\ (Creator(c) => pc[c] = "idle"))
    <2>1. CASE pc' = pc
      BY <1>0, <2>1 DEF Types
    <2>2. CASE Crash
      BY <2>2 DEF Crash, Principal
    <2> QED BY <2>1, <2>2
  <1>2. Types'
    BY <1>0, <1>1 DEF Types
  <1>3. ASSUME NEW c \in Callers PROVE CallerInv(c)'
    <2>0. CallerInv(c)
      BY DEF KeyInv, CallerInv
    <2>1. Timely(c)'
      BY <1>0, <1>1, <2>0 DEF CallerInv, Timely, Reading
    <2>2. Unborn(c)'
      BY <1>0, <1>1, <2>0 DEF CallerInv, Unborn
    <2>3. Promised(c)'
      BY <1>0, <1>1, <2>0 DEF CallerInv, Promised
    <2>4. Believed(c)' /\ (Good(c)' => Held(c)')
      BY <1>0, <2>0 DEF CallerInv, Believed, Good, Held
    <2> QED BY <2>1, <2>2, <2>3, <2>4 DEF CallerInv
  <1> QED BY <1>0, <1>2, <1>3 DEF KeyInv, CallerInv

\* What ControlSpec's steps may change.
controlVars == <<shared, config, leasing, bench_vars>>

\* The gateway starts with every live key known and no lease.
LEMMA KeyInit == Init => KeyInv
  <1>1. SUFFICES ASSUME Init
               PROVE  KeyInv
    OBVIOUS
  <1>2. /\ office \in Offices /\ keys = office.keys /\ lease = None /\ known = Live /\ issued = 0 /\ clock = 0
        /\ pc = [c \in Callers |-> "idle"] /\ grant = [c \in Callers |-> None] /\ at = [c \in Callers |-> 0]
    BY <1>1 DEF Init
  <1> USE DEF Ask, Program, Creator, Credential, Val, Has
  <1>3. Types
    BY <1>2, NewKeys DEF Types
  <1>4. ASSUME NEW c \in Callers PROVE CallerInv(c)
    <2>1. Unborn(c)
      BY <1>2, NewKeys DEF Unborn
    <2>2. Timely(c) /\ Promised(c) /\ Believed(c) /\ ~Good(c)
      BY <1>2 DEF Timely, Reading, Promised, Believed, Good
    <2> QED BY <2>1, <2>2 DEF CallerInv
  <1> QED BY <1>2, <1>3, <1>4 DEF KeyInv, CallerInv

\* Every step of the control plane keeps the invariant.
LEMMA KeyNext == KeyInv /\ [Next]_controlVars => KeyInv'
  <1> SUFFICES ASSUME KeyInv, [Next]_controlVars PROVE KeyInv'
    OBVIOUS
  <1>0. clock \in Int
    BY DEF KeyInv, Types
  <1>1. ASSUME NEW c \in Callers, ConfigStep(c) PROVE KeyInv'
    BY <1>1, ConfigApart, StepApart DEF leasing, database
  <1>2. ASSUME NEW c \in Callers, RequestStepOf(c) PROVE KeyInv'
    BY <1>2, RequestApart, StepApart
  <1>3. ASSUME NEW c \in Callers, StartStepOf(c) PROVE KeyInv'
    BY <1>3, StartApart, StepApart DEF leasing, database
  <1>4. ASSUME NEW c \in Callers, KeyStepOf(c) PROVE KeyInv'
    <2>1. office' = office
      BY <1>4 DEF KeyStepOf, fixed
    <2>2. KeyStep(c)
      BY <1>4 DEF KeyStepOf
    <2> QED BY <2>1, <2>2, DenyStep, CreateStep, UpdateStep, RevokeStep, CallStep, InspectStep, ProbeStep,
               AcquireStep, RenewStep, ReleaseStep DEF KeyStep
  <1>5. CASE Alone
    <2>1. UNCHANGED <<office, pc, keys, lease, known, healthy, issued, grant, at>>
      BY <1>5 DEF Alone, Tick, fixed, leasing, database, shared
    <2>2. clock' = clock \/ clock' = clock + 1
      BY <1>5 DEF Alone, Tick, leasing
    <2>3. clock' \in Int /\ clock' >= clock
      BY <1>0, <2>2
    <2> QED BY <2>1, <2>3, TimePasses
  <1>6. CASE Reload
    BY <1>6, BootStep DEF Reload
  <1>7. CASE Crash
    BY <1>7, BootStep DEF Crash
  <1>8. CASE UNCHANGED controlVars
    <2>1. UNCHANGED <<office, pc, keys, lease, known, healthy, issued, clock, grant, at>>
      BY <1>8 DEF controlVars, shared, leasing, database
    <2> QED BY <1>0, <2>1, TimePasses
  <1> QED BY <1>1, <1>2, <1>3, <1>4, <1>5, <1>6, <1>7, <1>8 DEF Next

\* The lease row belongs to a live key, and a program whose key is live and whose
\* grant has not expired holds it, in every interleaving of calls whose clock was
\* read early, answers that are lost, keys that are revoked or created, database
\* faults, reloads and restarts.
THEOREM LeaseAlwaysExclusive == ControlSpec => []LeaseExclusive
  <1>1. KeyInv => LeaseExclusive
    BY DEF KeyInv, Types, Good, Held, LeaseExclusive
  <1> QED BY <1>1, KeyInit, KeyNext, PTL DEF ControlSpec, controlVars

----------------------------------------------------------------------------
(* Secrets. *)

\* A document whose secrets were all configured, and what a client holds of one.
Kept(t) ==
    \A s, k : <<s, k>> \in Secrets /\ s \in DOMAIN t /\ k \in DOMAIN t[s] => t[s][k] \in Given(s, k)
Client == {"text", "revision", "previous"}
SecretInv ==
    /\ office \in Offices /\ Kept(base) /\ (active # None => Kept(active))
    /\ DOMAIN my = Callers
    /\ \A c \in Callers : DOMAIN my[c] = Client /\ my[c].text = MaskSecrets(my[c].revision)

\* The sections that hold secrets are these.
LEMMA Sections ==
  /\ \A s, k : <<s, k>> \in Secrets => s \in SecretSections
  /\ SecretSections = {"auth", "control", "model_store"}
  /\ \A s : <<s, "required">> \notin Secrets
  <1>1. \A s, k : <<s, k>> \in Secrets => s \in SecretSections
    <2>1. ASSUME NEW s, NEW k, <<s, k>> \in Secrets PROVE s \in SecretSections
      <3>1. <<s, k>>[1] = s
        OBVIOUS
      <3>2. \E field \in Secrets : s = field[1]
        BY <2>1, <3>1
      <3> QED BY <3>2 DEF SecretSections
    <2> QED BY <2>1
  <1>2. SecretSections = {"auth", "control", "model_store"}
    BY DEF SecretSections, Secrets
  <1>3. \A s : <<s, "required">> \notin Secrets
    BY DEF Secrets
  <1> QED BY <1>1, <1>2, <1>3

\* What an office or an edit says is given.
LEMMA GivenBy ==
  ASSUME office \in Offices
  PROVE  /\ Kept(office.base) /\ (office.active # None => Kept(office.active))
         /\ \A c \in Callers : Ask(c).do \in {"base", "active"} => Kept(Ask(c).edit)
  <1> DEFINE Texts == {office.base, office.active} \cup
                      {Ask(c).edit : c \in {d \in Callers : Ask(d).do \in {"base", "active"}}}
  <1>1. ASSUME NEW t \in Texts \ {None} PROVE Kept(t)
    <2>1. ASSUME NEW s, NEW k, s \in DOMAIN t, k \in DOMAIN t[s] PROVE t[s][k] \in Given(s, k)
      <3>1. t[s][k] = Val(Part(t, s), k, "")
        BY <2>1 DEF Val, Has, Part
      <3>2. Given(s, k) = {Val(Part(u, s), k, "") : u \in Texts \ {None}}
        BY DEF Given
      <3> HIDE DEF Texts
      <3> QED BY <3>1, <3>2
    <2> QED BY <2>1 DEF Kept
  <1>2. office.base \in Texts /\ office.active \in Texts
    OBVIOUS
  <1>3. office.base # None
    BY OfficeAssumption
  <1>4. ASSUME NEW c \in Callers, Ask(c).do \in {"base", "active"} PROVE Ask(c).edit \in Texts /\ Ask(c).edit # None
    BY <1>4, OfficeAssumption DEF Ask, Callers
  <1> HIDE DEF Texts
  <1> QED BY <1>1, <1>2, <1>3, <1>4

\* The edit of a masked document, its secrets restored from the document itself,
\* has secrets of the edit or of the document and no placeholder.
LEMMA RestoredKept ==
  ASSUME NEW edit, NEW t, Kept(edit), Kept(t)
  PROVE  Kept(RestoreSecrets(Over(edit, MaskSecrets(t)), t))
  <1> DEFINE sub == Over(edit, MaskSecrets(t))
             new == RestoreSecrets(sub, t)
  <1>1. ASSUME NEW s, NEW k, <<s, k>> \in Secrets, s \in DOMAIN new, k \in DOMAIN new[s]
        PROVE  new[s][k] \in Given(s, k)
    <2>1. s \in SecretSections
      BY <1>1, Sections
    <2>2. s \in DOMAIN sub /\ new[s] = [j \in DOMAIN sub[s] |-> Returned(s, j, sub[s][j], t)]
      BY <1>1, <2>1 DEF RestoreSecrets
    <2>3. k \in DOMAIN sub[s] /\ new[s][k] = Returned(s, k, sub[s][k], t)
      BY <1>1, <2>2
    <2>4. DOMAIN MaskSecrets(t) = DOMAIN t
      BY DEF MaskSecrets
    <2>5. CASE s \in DOMAIN edit
      <3>1. sub[s] = edit[s]
        BY <2>2, <2>5 DEF Over
      <3>2. edit[s][k] \in Given(s, k)
        BY <1>1, <2>3, <2>5, <3>1 DEF Kept
      <3>3. s \in DOMAIN t /\ k \in DOMAIN t[s] => t[s][k] \in Given(s, k)
        BY <1>1 DEF Kept
      <3>4. Has(Part(t, s), k) => s \in DOMAIN t /\ k \in DOMAIN t[s] /\ Val(Part(t, s), k, edit[s][k]) = t[s][k]
        BY DEF Has, Part, Val
      <3>5. Val(Part(t, s), k, edit[s][k]) \in Given(s, k)
        BY <3>2, <3>3, <3>4 DEF Val
      <3> QED BY <2>3, <3>1, <3>2, <3>5 DEF Returned
    <2>6. CASE s \notin DOMAIN edit
      <3>1. s \in DOMAIN t /\ sub[s] = MaskSecrets(t)[s]
        BY <2>2, <2>4, <2>6 DEF Over
      <3>2. MaskSecrets(t)[s] = [j \in DOMAIN t[s] |-> IF <<s, j>> \in Secrets THEN Sentinel ELSE t[s][j]]
        BY <2>1, <3>1 DEF MaskSecrets
      <3>3. k \in DOMAIN t[s] /\ sub[s][k] = Sentinel
        BY <1>1, <2>3, <3>1, <3>2
      <3>4. new[s][k] = Val(Part(t, s), k, Sentinel)
        BY <1>1, <2>3, <3>3 DEF Returned
      <3>5. Val(Part(t, s), k, Sentinel) = t[s][k]
        BY <3>1, <3>3 DEF Val, Has, Part
      <3> QED BY <1>1, <3>1, <3>3, <3>4, <3>5 DEF Kept
    <2> QED BY <2>5, <2>6
  <1> HIDE DEF new
  <1>2. Kept(new)
    BY <1>1 DEF Kept
  <1> QED BY <1>2 DEF new

\* The settings form, the alias editor and unregistering write no secret.
LEMMA RenderedKept ==
  ASSUME NEW t, Kept(t)
  PROVE  /\ \A public : Kept(RenderAccess(t, public))
         /\ \A aliases : Kept(RenderAliases(t, aliases))
         /\ \A name : Kept(RemoveEntry(t, name))
  <1>1. ASSUME NEW public PROVE Kept(RenderAccess(t, public))
    <2> DEFINE auth == Over([required |-> ~public], Part(t, "auth"))
               new == RenderAccess(t, public)
    <2>1. /\ DOMAIN new = {"auth"} \cup DOMAIN t
          /\ \A s \in DOMAIN new : new[s] = IF s = "auth" THEN auth ELSE t[s]
      <3> HIDE DEF auth
      <3>1. new = Over([auth |-> auth], t)
        BY DEF RenderAccess, auth
      <3>2. DOMAIN [auth |-> auth] = {"auth"} /\ [auth |-> auth]["auth"] = auth
        OBVIOUS
      <3>3. \A s \in {"auth"} \cup DOMAIN t : Over([auth |-> auth], t)[s] = IF s \in {"auth"} THEN [auth |-> auth][s] ELSE t[s]
        BY <3>2 DEF Over
      <3>4. DOMAIN Over([auth |-> auth], t) = {"auth"} \cup DOMAIN t
        BY <3>2 DEF Over
      <3> QED BY <3>1, <3>2, <3>3, <3>4
    <2>2. \A k \in DOMAIN auth : k # "required" => "auth" \in DOMAIN t /\ k \in DOMAIN t["auth"] /\ auth[k] = t["auth"][k]
      <3>1. DOMAIN [required |-> ~public] = {"required"}
        OBVIOUS
      <3>2. \A k \in DOMAIN auth : k # "required" => k \in DOMAIN Part(t, "auth") /\ auth[k] = Part(t, "auth")[k]
        BY <3>1 DEF Over
      <3>3. \A k \in DOMAIN Part(t, "auth") : "auth" \in DOMAIN t /\ Part(t, "auth") = t["auth"]
        BY DEF Part, Val, Has
      <3> QED BY <3>2, <3>3
    <2>3. ASSUME NEW s, NEW k, <<s, k>> \in Secrets, s \in DOMAIN new, k \in DOMAIN new[s]
          PROVE  new[s][k] \in Given(s, k)
      <3> HIDE DEF new, auth
      <3>1. CASE s = "auth"
        <4>1. k # "required"
          BY <2>3, Sections
        <4> QED BY <2>1, <2>2, <2>3, <3>1, <4>1 DEF Kept
      <3>2. CASE s # "auth"
        BY <2>1, <2>3, <3>2 DEF Kept
      <3> QED BY <3>1, <3>2
    <2> HIDE DEF new
    <2>4. Kept(new)
      BY <2>3 DEF Kept
    <2> QED BY <2>4 DEF new
  <1>2. ASSUME NEW aliases PROVE Kept(RenderAliases(t, aliases))
    <2>1. PICK list : RenderAliases(t, aliases) = Over([model_aliases |-> list], t)
      BY DEF RenderAliases
    <2>2. DOMAIN [model_aliases |-> list] = {"model_aliases"}
      OBVIOUS
    <2>3. \A s \in SecretSections : s # "model_aliases"
      BY Sections
    <2>4. \A s \in SecretSections : s \in DOMAIN Over([model_aliases |-> list], t)
             => s \in DOMAIN t /\ Over([model_aliases |-> list], t)[s] = t[s]
      BY <2>2, <2>3 DEF Over
    <2> QED BY <2>1, <2>4, Sections DEF Kept
  <1>3. ASSUME NEW name PROVE Kept(RemoveEntry(t, name))
    <2>1. PICK list : RemoveEntry(t, name) = [t EXCEPT !.model_registry = list]
      BY DEF RemoveEntry
    <2>2. \A s \in SecretSections : s # "model_registry"
      BY Sections
    <2>3. \A s \in SecretSections : s \in DOMAIN [t EXCEPT !.model_registry = list]
             => s \in DOMAIN t /\ [t EXCEPT !.model_registry = list][s] = t[s]
      BY <2>2
    <2> QED BY <2>1, <2>3, Sections DEF Kept
  <1> QED BY <1>1, <1>2, <1>3
\* A client's copy stays that of the document it fetched.
LEMMA ClientKept ==
  ASSUME SecretInv, NEW c \in Callers, ConfigStep(c)
  PROVE  DOMAIN my' = Callers /\ \A d \in Callers : DOMAIN my'[d] = Client /\ my'[d].text = MaskSecrets(my'[d].revision)
  <1>1. CASE Fetch(c)
    <2>1. PICK t : my' = [my EXCEPT ![c] = [text |-> MaskSecrets(t), revision |-> t, previous |-> None]]
      BY <1>1 DEF Fetch, Keeps
    <2> QED BY <2>1 DEF SecretInv, Client
  <1>2. CASE Enter(c)
    <2>1. CASE my' = my
      BY <2>1 DEF SecretInv
    <2>2. ASSUME NEW m, my' = [my EXCEPT ![c] = m], DOMAIN m = Client, m.text = MaskSecrets(m.revision)
          PROVE  DOMAIN my' = Callers /\ \A d \in Callers : DOMAIN my'[d] = Client /\ my'[d].text = MaskSecrets(my'[d].revision)
      BY <2>2 DEF SecretInv
    <2>3. ASSUME NEW p, my' = [my EXCEPT ![c] = [my[c] EXCEPT !.previous = p]]
          PROVE  \E m : my' = [my EXCEPT ![c] = m] /\ DOMAIN m = Client /\ m.text = MaskSecrets(m.revision)
      <3> DEFINE m == [my[c] EXCEPT !.previous = p]
      <3>1. DOMAIN m = Client /\ m.text = MaskSecrets(m.revision)
        BY DEF SecretInv, Client
      <3> QED BY <2>3, <3>1
    <2> QED BY <1>2, <2>1, <2>2, <2>3 DEF Enter, Keeps
  <1>3. CASE SaveBase(c) \/ SaveActive(c) \/ SaveSettings(c) \/ ResetActive(c) \/ PutAlias(c) \/ RemoveAlias(c) \/ Unregister(c)
    <2>1. my' = my
      BY <1>3 DEF SaveBase, SaveActive, SaveSettings, ResetActive, PutAlias, RemoveAlias, Unregister, Inside
    <2> QED BY <2>1 DEF SecretInv
  <1> QED BY <1>1, <1>2, <1>3 DEF ConfigStep

\* What is stored was configured: a save restores the secrets of the very text
\* it replaces, because the revision it names is that text.
LEMMA FilesKept ==
  ASSUME SecretInv, NEW c \in Callers, ConfigStep(c)
  PROVE  Kept(base') /\ (active' # None => Kept(active'))
  <1>0. Kept(base) /\ Kept(Desired) /\ (active # None => Kept(active))
    BY DEF SecretInv, Desired
  <1>1. ASSUME Ask(c).do \in {"base", "active"} PROVE Kept(RestoreSecrets(Submitted(c), my[c].revision)) \/ ~Kept(my[c].revision)
    <2>1. Submitted(c) = Over(Ask(c).edit, MaskSecrets(my[c].revision))
      BY DEF Submitted, SecretInv
    <2>2. Kept(Ask(c).edit)
      BY <1>1, GivenBy DEF SecretInv
    <2> QED BY <2>1, <2>2, RestoredKept
  <1>2. CASE Fetch(c) \/ Enter(c)
    BY <1>0, <1>2 DEF Fetch, Enter, files
  <1>3. CASE SaveBase(c)
    <2>1. active' = active /\ (base' = base \/ (my[c].revision = base /\ base' = RestoreSecrets(Submitted(c), base)))
      BY <1>3 DEF SaveBase
    <2>2. Ask(c).do = "base"
      BY <1>3 DEF SaveBase, Inside
    <2> QED BY <1>0, <1>1, <2>1, <2>2
  <1>4. CASE SaveActive(c)
    <2>1. base' = base /\ (active' = active \/ (my[c].revision = Desired /\ active' = RestoreSecrets(Submitted(c), Desired)))
      BY <1>4 DEF SaveActive, Replaces, Current
    <2>2. Ask(c).do = "active"
      BY <1>4 DEF SaveActive, Inside
    <2> QED BY <1>0, <1>1, <2>1, <2>2
  <1>5. CASE SaveSettings(c)
    <2>1. base' = base /\ (active' = active \/ active' = RenderAccess(Desired, Ask(c).public))
      BY <1>5 DEF SaveSettings, Replaces
    <2> QED BY <1>0, <2>1, RenderedKept
  <1>6. CASE ResetActive(c)
    BY <1>0, <1>6 DEF ResetActive
  <1>7. CASE PutAlias(c) \/ RemoveAlias(c)
    <2>1. base' = base /\ (active' = active \/ \E aliases : active' = RenderAliases(Desired, aliases))
      BY <1>7 DEF PutAlias, RemoveAlias, Transacts
    <2> QED BY <1>0, <2>1, RenderedKept
  <1>8. CASE Unregister(c)
    <2>1. base' = base /\ (active' = active \/ active' = RemoveEntry(Desired, Ask(c).name))
      BY <1>8 DEF Unregister
    <2> QED BY <1>0, <2>1, RenderedKept
  <1> QED BY <1>2, <1>3, <1>4, <1>5, <1>6, <1>7, <1>8 DEF ConfigStep

\* The offices' documents hold what they were given, and nobody has a copy yet.
LEMMA SecretInit == Init => SecretInv
  <1>1. SUFFICES ASSUME Init PROVE SecretInv
    OBVIOUS
  <1>2. /\ office \in Offices /\ base = office.base /\ active = office.active
        /\ my = [c \in Callers |-> [text |-> <<>>, revision |-> <<>>, previous |-> None]]
    BY <1>1 DEF Init
  <1>3. MaskSecrets(<<>>) = <<>>
    BY DEF MaskSecrets
  <1> QED BY <1>2, <1>3, GivenBy DEF SecretInv, Client

\* Every step of the control plane keeps the secrets.
LEMMA SecretNext == SecretInv /\ [Next]_controlVars => SecretInv'
  <1> SUFFICES ASSUME SecretInv, [Next]_controlVars PROVE SecretInv'
    OBVIOUS
  <1>1. office' = office
    BY DEF Next, ConfigStep, KeyStepOf, RequestStepOf, StartStepOf, Alone, Reload, Crash, fixed, controlVars, shared
  <1>2. /\ Callers' = Callers /\ \A s, k : Given(s, k)' = Given(s, k)
    BY <1>1 DEF Callers, Given, Ask
  <1>3. ASSUME NEW c \in Callers, ConfigStep(c) PROVE SecretInv'
    <2>1. DOMAIN my' = Callers /\ \A d \in Callers : DOMAIN my'[d] = Client /\ my'[d].text = MaskSecrets(my'[d].revision)
      BY <1>3, ClientKept
    <2>2. Kept(base') /\ (active' # None => Kept(active'))
      BY <1>3, FilesKept
    <2>3. Kept(base)' /\ (active' # None => Kept(active)')
      BY <1>2, <2>2 DEF Kept
    <2>4. \A t : MaskSecrets(t)' = MaskSecrets(t)
      BY DEF MaskSecrets
    <2> QED BY <1>1, <1>2, <2>1, <2>3, <2>4 DEF SecretInv
  <1>4. CASE UNCHANGED <<base, active, my>>
    BY <1>1, <1>2, <1>4 DEF SecretInv, Kept
  <1>5. CASE (\E c \in Callers : KeyStepOf(c) \/ RequestStepOf(c) \/ StartStepOf(c)) \/ Alone \/ Reload \/ Crash \/ UNCHANGED controlVars
    <2>1. UNCHANGED <<base, active, my>>
      BY <1>5 DEF KeyStepOf, RequestStepOf, StartStepOf, Alone, DefaultLoaded, Reload, Crash, controlVars, config, files
    <2> QED BY <1>4, <2>1
  <1> QED BY <1>3, <1>5 DEF Next

\* No stored secret is ever the placeholder a client sees in its place, nor the
\* secret of another field, whoever edits, resets or restarts in whatever order.
THEOREM SecretsAlwaysKept == ControlSpec => []SecretsKept
  <1>1. SecretInv => SecretsKept
    <2> SUFFICES ASSUME SecretInv, NEW t \in {base, active} \ {None}, NEW field \in Secrets,
                        Has(Part(t, field[1]), field[2])
                 PROVE  t[field[1]][field[2]] \in Given(field[1], field[2])
      BY DEF SecretsKept
    <2>1. Kept(t)
      BY DEF SecretInv
    <2>2. <<field[1], field[2]>> \in Secrets
      BY DEF Secrets
    <2>3. field[1] \in DOMAIN t /\ field[2] \in DOMAIN t[field[1]]
      BY DEF Has, Part, Val
    <2> QED BY <2>1, <2>2, <2>3 DEF Kept
  <1> QED BY <1>1, SecretInit, SecretNext, PTL DEF ControlSpec, controlVars

----------------------------------------------------------------------------
(* Benchmarks: the invariant. *)

\* Where a caller owns the maintenance resource.
Claims == {"claimed", "vacant", "quantizing"}
Owned ==
    /\ maintenance = None => worker = "none" /\ \A c \in Callers : pc[c] \notin Claims
    /\ maintenance # None /\ worker # "none" => \A c \in Callers : pc[c] \notin Claims
    /\ maintenance # None /\ worker = "none" =>
         \E c \in Callers : pc[c] \in Claims /\ \A d \in Callers : pc[d] \in Claims => d = c

\* What has been restored, and how the job ended.
Back == resident \cup job.ousted
Restored ==
    /\ worker = "restoring" /\ job.ok => job.previous \ job.todo \subseteq Back
    /\ worker \in {"restored", "finishing"} /\ job.ok => job.previous \subseteq Back
    /\ worker = "releasing" /\ bench.restored => job.previous \subseteq Back
    /\ worker \in {"none", "releasing"} => ~Active
    /\ job.outcome # None => job.outcome \in {"failed", "cancelled", "completed", "unmeasured"}
    /\ worker = "finishing" => job.outcome \in {"failed", "cancelled", "completed"}

\* A measurement that can be compared with the baseline of the office.
Rated(t) ==
    /\ t.prompt \in Int /\ t.speed \in Int /\ t.quality \in Int
    /\ DOMAIN t.parallel = DOMAIN office.baseline.parallel
    /\ \A i \in DOMAIN t.parallel : t.parallel[i] \in Int
Recommends(b) ==
    /\ Preserves(b.recommended, b.baseline) /\ b.recommended.quality >= b.baseline.quality
    /\ \A i \in DOMAIN b.trials :
         b.trials[i] # None /\ Fits(b.trials[i], b.baseline)
         => Score(b.trials[i], b.baseline) <= Score(b.recommended, b.baseline)
Measuring == worker \in {"trying", "trial"} \/ (worker \in {"restoring", "restored"} /\ job.outcome = None)
Judged ==
    /\ \E S : bench.trials \in Seq(S)
    /\ \A i \in DOMAIN bench.trials : bench.trials[i] # None => Rated(bench.trials[i])
    /\ bench.baseline # None => bench.baseline = office.baseline
    /\ Measuring => bench.baseline # None
    /\ worker \notin {"none", "finishing", "releasing"} => bench.recommended = None
    /\ bench.recommended # None => Recommends(bench)

BenchFields == {"state", "model", "restored", "baseline", "trials", "recommended"}
JobFields == {"previous", "todo", "ok", "plan", "outcome", "ousted"}
BenchInv ==
    /\ office \in Offices /\ DOMAIN pc = Callers /\ DOMAIN bench = BenchFields /\ DOMAIN job = JobFields
    /\ Owned /\ Restored /\ Judged

----------------------------------------------------------------------------
(* Scores. *)

\* A measurement's score against the office's baseline is a number.
LEMMA ScoreInt ==
  ASSUME office \in Offices, office.baseline # None, NEW t, Rated(t)
  PROVE  Score(t, office.baseline) \in Int
  <1> DEFINE b == office.baseline
             managed == {i \in DOMAIN b.parallel : b.parallel[i] > 0}
             ratios == [i \in managed |-> Ratio(t.parallel[i], b.parallel[i])]
             gain == IF managed = {} THEN 100 ELSE Total(ratios, managed) \div Cardinality(managed)
  <1>1. b \in Measurement
    BY OfficeAssumption
  <1>2. /\ b.prompt \in Int /\ b.speed \in Int /\ b.parallel \in Seq(Int)
    BY <1>1 DEF Measurement
  <1>3. DOMAIN b.parallel = 1..Len(b.parallel) /\ Len(b.parallel) \in Nat
        /\ \A i \in DOMAIN b.parallel : b.parallel[i] \in Int
    BY <1>2
  <1>4. \A m, r \in Int : Ratio(m, r) \in Int
    BY DEF Ratio
  <1>5. IsFiniteSet(managed) /\ Cardinality(managed) \in Nat
    <2>1. IsFiniteSet(DOMAIN b.parallel)
      BY <1>3, FS_Interval
    <2> QED BY <2>1, FS_Subset, FS_CardinalityType
  <1>6. \A i \in managed : ratios[i] \in Int
    BY <1>3, <1>4 DEF Rated
  <1>7. Total(ratios, managed) \in Int
    <2> HIDE DEF ratios, managed
    <2> QED BY <1>5, <1>6, TotalInt
  <1>8. managed # {} => Cardinality(managed) > 0
    BY <1>5, FS_EmptySet
  <1>9. gain \in Int
    <2> HIDE DEF ratios, managed
    <2> QED BY <1>5, <1>7, <1>8
  <1>10. Score(t, b) = (Ratio(t.prompt, b.prompt) + Ratio(t.speed, b.speed) + 2 * gain) \div 4
    BY DEF Score, Total
  <1>11. Ratio(t.prompt, b.prompt) \in Int /\ Ratio(t.speed, b.speed) \in Int
    BY <1>2, <1>4 DEF Rated
  <1> HIDE DEF gain, b
  <1> QED BY <1>9, <1>10, <1>11 DEF b

\* The recommended trial is one that fits, and no other that fits scores more.
LEMMA BestFits ==
  ASSUME office \in Offices, office.baseline # None, NEW S, NEW trials \in Seq(S),
         \A i \in DOMAIN trials : trials[i] # None => Rated(trials[i]),
         Best(trials, office.baseline) # None
  PROVE  /\ Fits(Best(trials, office.baseline), office.baseline)
         /\ \A i \in DOMAIN trials : trials[i] # None /\ Fits(trials[i], office.baseline)
              => Score(trials[i], office.baseline) <= Score(Best(trials, office.baseline), office.baseline)
  <1> DEFINE b == office.baseline
             all == {trials[i] : i \in DOMAIN trials}
             fit == {t \in all \ {None} : Fits(t, b)}
             scores == [t \in fit |-> Score(t, b)]
             values == {scores[t] : t \in fit}
  <1>1. IsFiniteSet(fit)
    <2>1. DOMAIN trials = 1..Len(trials) /\ Len(trials) \in Nat
      OBVIOUS
    <2>2. IsFiniteSet(DOMAIN trials)
      BY <2>1, FS_Interval
    <2>4. IsFiniteSet(all)
      BY <2>2, ImageFinite
    <2>5. fit \subseteq all
      OBVIOUS
    <2> HIDE DEF fit, all
    <2> QED BY <2>4, <2>5, FS_Subset
  <1>2. \A t \in fit : Rated(t)
    OBVIOUS
  <1>3. \A t \in fit : Score(t, b) \in Int
    <2> HIDE DEF fit
    <2>1. ASSUME NEW t \in fit PROVE Score(t, office.baseline) \in Int
      BY <1>2, ScoreInt
    <2> QED BY <2>1
  <1>4. Best(trials, b) = IF fit = {} THEN None ELSE CHOOSE t \in fit : \A u \in fit : Score(t, b) >= Score(u, b)
    BY DEF Best
  <1>5. fit # {}
    BY <1>4
  <1> HIDE DEF fit, b
  <1>6. IsFiniteSet(values)
    BY <1>1, ImageFinite
  <1>7. values \in SUBSET Int /\ values # {}
    BY <1>3, <1>5
  <1>8. \E t \in fit : \A u \in fit : Score(t, b) >= Score(u, b)
    <2>1. PICK v \in values : \A y \in values : v >= y
      <3> HIDE DEF values
      <3> QED BY <1>6, <1>7, Greatest
    <2>2. PICK t \in fit : v = Score(t, b)
      BY <2>1
    <2>3. \A u \in fit : Score(u, b) \in values
      OBVIOUS
    <2> HIDE DEF values
    <2> QED BY <2>1, <2>2, <2>3
  <1>9. PICK best : best = Best(trials, b) /\ best \in fit /\ \A u \in fit : Score(best, b) >= Score(u, b)
    BY <1>4, <1>5, <1>8
  <1>10. \A u \in fit : Score(u, b) <= Score(best, b)
    BY <1>3, <1>9
  <1>11. /\ Fits(best, b) /\ \A i \in DOMAIN trials : trials[i] # None /\ Fits(trials[i], b) => trials[i] \in fit
    BY <1>9 DEF fit
  <1>12. /\ Fits(best, b)
         /\ \A i \in DOMAIN trials : trials[i] # None /\ Fits(trials[i], b) => Score(trials[i], b) <= Score(best, b)
    BY <1>10, <1>11
  <1> QED BY <1>9, <1>12 DEF b
----------------------------------------------------------------------------
(* Steps. *)

\* Scores and limits are those of the office, which nobody changes.
LEMMA SameOffice ==
  ASSUME office' = office
  PROVE  /\ Callers' = Callers
         /\ \A t : Rated(t)' <=> Rated(t)
         /\ \A b : Recommends(b)' <=> Recommends(b)
  <1>1. \A t : Rated(t)' <=> Rated(t)
    BY DEF Rated
  <1>2. \A t, b : Fits(t, b)' <=> Fits(t, b)
    BY DEF Fits
  <1>3. \A b : Recommends(b)' <=> Recommends(b)
    BY <1>2 DEF Recommends
  <1> QED BY <1>1, <1>3 DEF Callers

\* The verdict does not change while the worker and its job do not.
LEMMA SameVerdict ==
  ASSUME Judged, office' = office, worker' = worker, job'.outcome = job.outcome,
         bench'.trials = bench.trials, bench'.baseline = bench.baseline, bench'.recommended = bench.recommended
  PROVE  Judged'
  <1>1. Recommends(bench)' <=> Recommends(bench)
    BY SameOffice DEF Recommends
  <1>2. \A t : Rated(t)' <=> Rated(t)
    BY SameOffice
  <1>3. Measuring' <=> Measuring
    BY DEF Measuring
  <1>4. \E S : bench'.trials \in Seq(S)
    BY DEF Judged
  <1> QED BY <1>1, <1>2, <1>3, <1>4 DEF Judged

\* What the worker relies on of its locals and of what is loaded, while others
\* load and unload models.
Loaned ==
    /\ DOMAIN job' = JobFields /\ job'.previous = job.previous /\ job'.todo = job.todo
    /\ job'.ok = job.ok /\ job'.outcome = job.outcome
    /\ worker # "none" => job.previous \cap Back \subseteq Back'
LEMMA SwapLoans ==
  ASSUME BenchInv, Ousts PROVE Loaned
  <1>1. DOMAIN job = JobFields
    BY DEF BenchInv
  <1>2. CASE worker = "none"
    BY <1>1, <1>2 DEF Ousts, Loaned
  <1>3. CASE worker # "none"
    <2>1. job' = [job EXCEPT !.ousted = job.previous \cap ((job.ousted \cup resident) \ resident')]
      BY <1>3 DEF Ousts
    <2>2. /\ DOMAIN job' = JobFields /\ job'.previous = job.previous /\ job'.todo = job.todo
          /\ job'.ok = job.ok /\ job'.outcome = job.outcome
          /\ job'.ousted = job.previous \cap ((job.ousted \cup resident) \ resident')
      BY <1>1, <2>1 DEF JobFields
    <2>3. job.previous \cap Back \subseteq Back'
      BY <2>2 DEF Back
    <2> QED BY <2>2, <2>3 DEF Loaned
  <1> QED BY <1>2, <1>3
LEMMA LoadLoans ==
  ASSUME BenchInv, UNCHANGED <<job, resident>> PROVE Loaned
  BY DEF BenchInv, Loaned, Back

\* Whoever neither claims nor gives back, and unloads nothing unseen, disturbs
\* nothing.
LEMMA AsideKeeps ==
  ASSUME BenchInv, office' = office, UNCHANGED <<maintenance, bench, worker>>,
         Loaned, DOMAIN pc' = Callers,
         \A c \in Callers : pc'[c] \in Claims <=> pc[c] \in Claims
  PROVE  BenchInv'
  <1>0. Callers' = Callers
    BY SameOffice
  <1>1. Owned'
    BY <1>0 DEF BenchInv, Owned
  <1>2. Restored'
    BY DEF BenchInv, Restored, Active, Loaned
  <1>3. Judged'
    BY SameVerdict DEF BenchInv, Loaned
  <1> QED BY <1>0, <1>1, <1>2, <1>3 DEF BenchInv, Loaned

\* A caller moves between points where it owns nothing.
LEMMA MoveAside ==
  ASSUME BenchInv, NEW c \in Callers, NEW x, pc' = [pc EXCEPT ![c] = x], pc[c] \in Claims <=> x \in Claims
  PROVE  DOMAIN pc' = Callers /\ \A d \in Callers : pc'[d] \in Claims <=> pc[d] \in Claims
  BY DEF BenchInv

\* Editing configuration, serving requests and keeping keys are aside.
LEMMA ConfigAside ==
  ASSUME BenchInv, NEW c \in Callers, ConfigStep(c) PROVE BenchInv'
  <1>1. office' = office /\ UNCHANGED <<maintenance, bench, worker, job, resident>>
    BY DEF ConfigStep, fixed, bench_vars
  <1>2. PICK x \in {"holding", "entered", "done"} : pc' = [pc EXCEPT ![c] = x]
    <2>1. CASE Fetch(c)
      BY <2>1 DEF Fetch, Goes
    <2>2. CASE Enter(c)
      BY <2>2 DEF Enter, Goes
    <2>3. CASE SaveBase(c) \/ SaveActive(c) \/ SaveSettings(c) \/ ResetActive(c)
      BY <2>3 DEF SaveBase, SaveActive, SaveSettings, ResetActive, Inside, Goes
    <2>4. CASE PutAlias(c) \/ RemoveAlias(c) \/ Unregister(c)
      BY <2>4 DEF PutAlias, RemoveAlias, Unregister, Inside, Goes
    <2> QED BY <2>1, <2>2, <2>3, <2>4 DEF ConfigStep
  <1>3. pc[c] \in {"idle", "holding", "entered"}
    BY DEF ConfigStep, Fetch, Enter, SaveBase, SaveActive, SaveSettings, ResetActive, PutAlias, RemoveAlias, Unregister, Inside
  <1>4. pc[c] \notin Claims /\ x \notin Claims
    BY <1>2, <1>3 DEF Claims
  <1> QED BY <1>1, <1>2, <1>4, LoadLoans, MoveAside, AsideKeeps

\* The same for keys and leases.
LEMMA KeyAside ==
  ASSUME BenchInv, NEW c \in Callers, KeyStepOf(c) PROVE BenchInv'
  <1>1. office' = office /\ UNCHANGED <<maintenance, bench, worker, job, resident>>
    BY DEF KeyStepOf, fixed, bench_vars
  <1>2. KeyStep(c)
    BY DEF KeyStepOf
  <1>3. CASE pc' = pc
    BY <1>1, <1>3, LoadLoans, AsideKeeps DEF BenchInv
  <1>4. CASE \E x \in {"done", "idle", "asking", "renewing", "releasing", "free", "clear"} :
               pc[c] \in {"idle", "asking", "renewing", "releasing", "free", "clear"} /\ pc' = [pc EXCEPT ![c] = x]
    <2>1. PICK x \in {"done", "idle", "asking", "renewing", "releasing", "free", "clear"} : pc' = [pc EXCEPT ![c] = x]
      BY <1>4
    <2>2. pc[c] \notin Claims /\ x \notin Claims
      BY <1>4 DEF Claims
    <2> QED BY <1>1, <2>1, <2>2, LoadLoans, MoveAside, AsideKeeps
  <1>5. CASE Deny(c) \/ Create(c) \/ Update(c) \/ Revoke(c)
    <2>1. pc[c] = "idle" /\ (pc' = pc \/ pc' = [pc EXCEPT ![c] = "done"])
      BY <1>5 DEF Deny, Create, Update, Revoke, Administers, Goes
    <2> QED BY <1>3, <1>4, <2>1
  <1>6. CASE Call(c)
    <2>1. pc[c] = "idle" /\ \E x \in {"asking", "renewing", "releasing"} : pc' = [pc EXCEPT ![c] = x]
      BY <1>6 DEF Call, Goes
    <2> QED BY <1>4, <2>1
  <1>7. CASE Inspect(c) \/ Probe(c) \/ Acquire(c) \/ Renew(c) \/ Release(c)
    <2>1. pc[c] \in {"asking", "renewing", "releasing", "free", "clear"}
      BY <1>7 DEF Inspect, Probe, Acquire, Renew, Release
    <2>2. \E x \in {"free", "clear", "idle"} : pc' = [pc EXCEPT ![c] = x]
      BY <1>7 DEF Inspect, Probe, Acquire, Renew, Release, Answer, Goes
    <2> QED BY <1>4, <2>1, <2>2
  <1> QED BY <1>2, <1>5, <1>6, <1>7 DEF KeyStep

\* A request may load its model, and its swap may unload others.
LEMMA RequestAside ==
  ASSUME BenchInv, NEW c \in Callers, RequestStepOf(c) PROVE BenchInv'
  <1>1. office' = office /\ UNCHANGED <<maintenance, bench, worker>>
    BY DEF RequestStepOf, fixed
  <1>2. pc[c] \in {"idle", "admitted", "working"} /\ (Ousts \/ UNCHANGED <<job, resident>>)
    BY DEF RequestStepOf, RequestStep, Arrive, Work, Complete
  <1>5. Loaned
    BY <1>2, SwapLoans, LoadLoans
  <1>3. PICK x \in {"done", "admitted", "working"} : pc' = [pc EXCEPT ![c] = x]
    BY DEF RequestStepOf, RequestStep, Arrive, Work, Complete, Goes
  <1>4. pc[c] \notin Claims /\ x \notin Claims
    BY <1>2, <1>3 DEF Claims
  <1> QED BY <1>1, <1>3, <1>4, <1>5, MoveAside, AsideKeeps

\* The gateway ends: everything is given back, and nobody is left to own it.
LEMMA BenchBooted ==
  ASSUME BenchInv, office' = office, BenchBoot, maintenance' = None, DOMAIN pc' = Callers,
         \A c \in Callers : pc'[c] \notin Claims
  PROVE  BenchInv'
  <1>0. Callers' = Callers
    BY SameOffice
  <1>1. bench' = NoBench /\ worker' = "none" /\ job' = NoJob
    BY DEF BenchBoot
  <1>2. Owned'
    BY <1>0, <1>1 DEF Owned
  <1>3. Restored'
    BY <1>1 DEF Restored, Active, NoBench, NoJob
  <1>4. Judged'
    <2>1. bench'.trials = <<>> /\ bench'.baseline = None /\ bench'.recommended = None
      BY <1>1 DEF NoBench
    <2>2. bench'.trials \in Seq({}) /\ DOMAIN bench'.trials = {}
      BY <2>1
    <2> QED BY <1>1, <2>1, <2>2 DEF Judged, Measuring
  <1>5. DOMAIN bench' = BenchFields /\ DOMAIN job' = JobFields
    BY <1>1 DEF NoBench, NoJob, BenchFields, JobFields
  <1> QED BY <1>0, <1>2, <1>3, <1>4, <1>5 DEF BenchInv
\* Taking the resource, giving it back, and handing it to the worker.
LEMMA OwnerMoves ==
  ASSUME BenchInv, office' = office, NEW c \in Callers, NEW x, pc' = [pc EXCEPT ![c] = x],
         \/ maintenance = None /\ maintenance' # None /\ x \in Claims /\ worker' = worker
         \/ pc[c] \in Claims /\ maintenance' = None /\ x \notin Claims /\ worker' = "none"
         \/ pc[c] \in Claims /\ maintenance' = maintenance /\ x \notin Claims /\ worker' # "none"
  PROVE  Owned' /\ DOMAIN pc' = Callers
  <1>0. /\ Callers' = Callers /\ DOMAIN pc' = Callers /\ pc'[c] = x /\ \A d \in Callers \ {c} : pc'[d] = pc[d]
    BY SameOffice DEF BenchInv
  <1>1. CASE maintenance = None /\ maintenance' # None /\ x \in Claims /\ worker' = worker
    <2>1. worker = "none" /\ \A d \in Callers : pc[d] \notin Claims
      BY <1>1 DEF BenchInv, Owned
    <2>2. pc'[c] \in Claims /\ \A d \in Callers : pc'[d] \in Claims => d = c
      BY <1>0, <1>1, <2>1
    <2> QED BY <1>0, <1>1, <2>1, <2>2 DEF Owned
  <1>2. ASSUME pc[c] \in Claims, x \notin Claims PROVE maintenance # None /\ \A d \in Callers : pc'[d] \notin Claims
    <2>1. maintenance # None /\ \A d \in Callers : pc[d] \in Claims => d = c
      BY <1>2 DEF BenchInv, Owned
    <2> QED BY <1>0, <1>2, <2>1
  <1>3. CASE pc[c] \in Claims /\ maintenance' = None /\ x \notin Claims /\ worker' = "none"
    BY <1>0, <1>2, <1>3 DEF Owned
  <1>4. CASE pc[c] \in Claims /\ maintenance' = maintenance /\ x \notin Claims /\ worker' # "none"
    BY <1>0, <1>2, <1>4 DEF Owned
  <1> QED BY <1>0, <1>1, <1>3, <1>4

\* What an owner finds: the resource is taken and no worker runs.
LEMMA OwnerAlone ==
  ASSUME BenchInv, NEW c \in Callers, pc[c] \in Claims PROVE maintenance # None /\ worker = "none"
  BY DEF BenchInv, Owned

\* The owner changes, and nothing else of a benchmark.
LEMMA OwnerKeeps ==
  ASSUME BenchInv, office' = office, UNCHANGED <<bench, worker, job, resident>>, Owned', DOMAIN pc' = Callers
  PROVE  BenchInv'
  <1>0. Callers' = Callers
    BY SameOffice
  <1>2. Restored'
    BY DEF BenchInv, Restored, Active, Back
  <1>3. Judged'
    BY SameVerdict DEF BenchInv
  <1> QED BY <1>0, <1>2, <1>3 DEF BenchInv

\* No resource is called None.
LEMMA ResourceNamed == (\A m : Compute(m) # None) /\ "cpu" # None
  BY OfficeAssumption DEF Compute

\* Starting a benchmark: checked, claimed, found undisturbed or given back.
LEMMA ClaimKeeps ==
  ASSUME BenchInv, NEW c \in Callers, StartStepOf(c), Apply(c) \/ Claim(c) \/ Vacant(c) \/ Quantize(c)
  PROVE  BenchInv'
  <1>0. office' = office /\ UNCHANGED <<resident, bench, worker, job>>
    BY DEF StartStepOf, fixed, Apply, Claim, Vacant, Quantize, bench_vars
  <1>1. ASSUME NEW x, pc' = [pc EXCEPT ![c] = x], maintenance' = maintenance, pc[c] \in Claims <=> x \in Claims
        PROVE  BenchInv'
    BY <1>0, <1>1, LoadLoans, MoveAside, AsideKeeps
  <1>2. ASSUME NEW x, pc' = [pc EXCEPT ![c] = x], maintenance = None, maintenance' # None, x \in Claims
        PROVE  BenchInv'
    BY <1>0, <1>2, OwnerMoves, OwnerKeeps
  <1>3. ASSUME NEW x, pc' = [pc EXCEPT ![c] = x], maintenance' = None, pc[c] \in Claims, x \notin Claims
        PROVE  BenchInv'
    BY <1>0, <1>3, OwnerAlone, OwnerMoves, OwnerKeeps
  <1>4. CASE Apply(c)
    <2>1. pc[c] = "idle" /\ maintenance' = maintenance /\ \E x \in {"checked", "idle", "done"} : pc' = [pc EXCEPT ![c] = x]
      BY <1>4 DEF Apply, Declined, Goes
    <2>2. "idle" \notin Claims /\ \A x \in {"checked", "idle", "done"} : x \notin Claims
      BY DEF Claims
    <2> QED BY <1>1, <2>1, <2>2
  <1>5. CASE Claim(c)
    <2>1. pc[c] \notin Claims
      BY <1>5 DEF Claim, Claims
    <2>2. \/ maintenance = None /\ maintenance' # None /\ pc' = [pc EXCEPT ![c] = "claimed"]
          \/ maintenance' = maintenance /\ \E x \in {"idle", "done"} : pc' = [pc EXCEPT ![c] = x]
      BY <1>5, ResourceNamed DEF Claim, Declined, Goes
    <2>3. "claimed" \in Claims /\ \A x \in {"idle", "done"} : x \notin Claims
      BY DEF Claims
    <2> QED BY <1>1, <1>2, <2>1, <2>2, <2>3
  <1>6. CASE Vacant(c)
    <2>1. pc[c] \in Claims
      BY <1>6 DEF Vacant, Claims
    <2>2. \/ maintenance' = None /\ \E x \in {"idle", "done"} : pc' = [pc EXCEPT ![c] = x]
          \/ maintenance' = maintenance /\ pc' = [pc EXCEPT ![c] = "vacant"]
      BY <1>6 DEF Vacant, Declined, Goes
    <2>3. "vacant" \in Claims /\ \A x \in {"idle", "done"} : x \notin Claims
      BY DEF Claims
    <2> QED BY <1>1, <1>3, <2>1, <2>2, <2>3
  <1>7. CASE Quantize(c)
    <2>1. \/ pc[c] = "idle" /\ maintenance = None /\ maintenance' = "cpu" /\ pc' = [pc EXCEPT ![c] = "quantizing"]
          \/ pc[c] = "idle" /\ maintenance' = maintenance /\ pc' = [pc EXCEPT ![c] = "done"]
          \/ pc[c] = "quantizing" /\ maintenance' = None /\ pc' = [pc EXCEPT ![c] = "done"]
      BY <1>7 DEF Quantize, Goes
    <2>2. "quantizing" \in Claims /\ "idle" \notin Claims /\ "done" \notin Claims
      BY DEF Claims
    <2> QED BY <1>1, <1>2, <1>3, <2>1, <2>2, ResourceNamed
  <1> QED BY <1>4, <1>5, <1>6, <1>7

\* The worker is launched with a clean slate, or the resource is given back.
LEMMA LaunchKeeps ==
  ASSUME BenchInv, NEW c \in Callers, StartStepOf(c), Launch(c)
  PROVE  BenchInv'
  <1>0. office' = office /\ Callers' = Callers /\ resident' = resident /\ pc[c] \in Claims /\ worker = "none"
    BY SameOffice DEF StartStepOf, fixed, Launch, Claims
  <1>1. "idle" \notin Claims /\ "done" \notin Claims
    BY DEF Claims
  <1>2. bench'.trials = <<>> /\ bench'.baseline = None /\ bench'.recommended = None /\ DOMAIN bench' = BenchFields
    BY DEF Launch, NoBench, BenchFields
  <1>3. ASSUME worker' \in {"begin", "none"} PROVE Judged'
    <2>1. bench'.trials \in Seq({}) /\ DOMAIN bench'.trials = {}
      BY <1>2
    <2> QED BY <1>2, <1>3, <2>1 DEF Judged, Measuring
  <1>4. CASE worker' = "begin" /\ Goes(c, "done") /\ UNCHANGED maintenance
             /\ job' = [NoJob EXCEPT !.plan = Candidates(Val(Ask(c), "limit", 3))]
    <2>1. Owned' /\ DOMAIN pc' = Callers
      BY <1>0, <1>1, <1>4, OwnerMoves DEF Goes
    <2>2. job'.outcome = None /\ DOMAIN job' = JobFields
      <3> DEFINE plan == Candidates(Val(Ask(c), "limit", 3))
      <3>1. job' = [NoJob EXCEPT !.plan = plan]
        BY <1>4
      <3> HIDE DEF plan
      <3> QED BY <3>1 DEF NoJob, JobFields
    <2>3. Restored'
      BY <1>4, <2>2 DEF Restored
    <2>4. Judged'
      BY <1>3, <1>4
    <2> QED BY <1>0, <1>2, <2>1, <2>2, <2>3, <2>4 DEF BenchInv
  <1>5. CASE Declined(c) /\ maintenance' = None /\ UNCHANGED <<worker, job>> /\ bench'.state = "failed"
    <2>1. Owned' /\ DOMAIN pc' = Callers
      BY <1>0, <1>1, <1>5, OwnerMoves DEF Goes, Declined
    <2>2. Restored'
      BY <1>0, <1>5 DEF BenchInv, Restored, Active
    <2>3. Judged'
      BY <1>0, <1>3, <1>5
    <2> QED BY <1>0, <1>2, <1>5, <2>1, <2>2, <2>3 DEF BenchInv
  <1>6. ASSUME bench' = [NoBench EXCEPT !.state = "failed", !.model = Target(c)] PROVE bench'.state = "failed"
    BY <1>6 DEF NoBench
  <1> QED BY <1>4, <1>5, <1>6 DEF Launch

\* A cancellation changes the state of a benchmark that runs.
LEMMA CancelKeeps ==
  ASSUME BenchInv, NEW c \in Callers, StartStepOf(c), Cancel(c)
  PROVE  BenchInv'
  <1>0. office' = office /\ Callers' = Callers /\ UNCHANGED <<resident, maintenance, worker, job>>
        /\ pc[c] = "idle" /\ pc' = [pc EXCEPT ![c] = "done"]
    BY SameOffice DEF StartStepOf, fixed, Cancel, Goes
  <1>1. "idle" \notin Claims /\ "done" \notin Claims
    BY DEF Claims
  <1>2. DOMAIN pc' = Callers /\ \A d \in Callers : pc'[d] \in Claims <=> pc[d] \in Claims
    BY <1>0, <1>1, MoveAside
  <1>3. CASE bench' = bench
    BY <1>0, <1>2, <1>3, LoadLoans, AsideKeeps
  <1>4. CASE Active /\ bench' = [bench EXCEPT !.state = "cancelling"]
    <2>1. /\ DOMAIN bench' = BenchFields /\ bench'.trials = bench.trials /\ bench'.baseline = bench.baseline
          /\ bench'.recommended = bench.recommended /\ bench'.restored = bench.restored
      BY <1>4 DEF BenchInv, BenchFields
    <2>2. Owned'
      BY <1>0, <1>2 DEF BenchInv, Owned
    <2>3. worker \notin {"none", "releasing"}
      BY <1>4 DEF BenchInv, Restored
    <2>4. Restored'
      BY <1>0, <2>1, <2>3 DEF BenchInv, Restored, Back
    <2>5. Judged'
      BY <1>0, <2>1, SameVerdict DEF BenchInv
    <2> QED BY <1>0, <1>2, <2>1, <2>2, <2>4, <2>5 DEF BenchInv
  <1> QED BY <1>3, <1>4 DEF Cancel
----------------------------------------------------------------------------
(* The worker. *)

\* The worker owns the resource for as long as it runs.
LEMMA WorkerOwns ==
  ASSUME BenchInv, UNCHANGED <<office, pc, maintenance>>, worker # "none", worker' # "none"
  PROVE  Owned' /\ Callers' = Callers /\ DOMAIN pc' = Callers
  BY SameOffice DEF BenchInv, Owned

\* A step of the worker that leaves its verdict alone.
LEMMA WorkerKeeps ==
  ASSUME BenchInv, UNCHANGED <<office, pc, maintenance, bench>>, worker \notin {"none", "finishing", "releasing"},
         worker' # "none", DOMAIN job' = JobFields, Measuring' => bench.baseline # None, Restored'
  PROVE  BenchInv'
  <1>1. Owned' /\ Callers' = Callers /\ DOMAIN pc' = Callers
    BY WorkerOwns
  <1>2. Judged'
    <2>1. bench.recommended = None /\ \A t : Rated(t)' <=> Rated(t)
      BY SameOffice DEF BenchInv, Judged
    <2>2. \E S : bench'.trials \in Seq(S)
      BY DEF BenchInv, Judged
    <2> QED BY <2>1, <2>2 DEF BenchInv, Judged
  <1> QED BY <1>1, <1>2 DEF BenchInv

\* The models are to be loaded again, and the job has an outcome or measurements.
LEMMA RestoresKeeps ==
  ASSUME BenchInv, UNCHANGED <<office, pc, maintenance, bench, resident>>, worker \notin {"none", "finishing", "releasing"},
         NEW o, Restores(o), o \in {None, "failed", "cancelled", "unmeasured"}, o = None => bench.baseline # None
  PROVE  BenchInv'
  <1>1. worker' = "restoring" /\ job' = [job EXCEPT !.todo = job.previous, !.outcome = o]
    BY DEF Restores
  <1>2. DOMAIN job = JobFields
    BY DEF BenchInv
  <1>3. DOMAIN job' = JobFields /\ job'.previous = job.previous /\ job'.todo = job.previous /\ job'.outcome = o
    BY <1>1, <1>2 DEF JobFields
  <1>4. Restored'
    BY <1>1, <1>3 DEF Restored
  <1>5. Measuring' => bench.baseline # None
    BY <1>1, <1>3 DEF Measuring
  <1> QED BY <1>1, <1>3, <1>4, <1>5, WorkerKeeps

\* Unloading, until a model refuses, somebody cancels or the baseline is due.
LEMMA UnloadKeeps ==
  ASSUME BenchInv, UNCHANGED <<office, pc>>, Begin \/ Unload
  PROVE  BenchInv'
  <1>0. UNCHANGED <<maintenance, bench>> /\ worker \in {"begin", "unloading"} /\ DOMAIN job = JobFields
    BY DEF Begin, Unload, Worker, BenchInv
  <1>1. ASSUME worker' \in {"unloading", "baseline"}, DOMAIN job' = JobFields, job'.outcome = job.outcome
        PROVE  BenchInv'
    <2>1. Restored'
      BY <1>1 DEF BenchInv, Restored
    <2>2. ~Measuring'
      BY <1>1 DEF Measuring
    <2> QED BY <1>0, <1>1, <2>1, <2>2, WorkerKeeps
  <1>2. CASE Begin
    <2>1. PICK same : job' = [job EXCEPT !.previous = same, !.todo = same]
      BY <1>2 DEF Begin
    <2>2. DOMAIN job' = JobFields /\ job'.outcome = job.outcome
      BY <1>0, <2>1 DEF JobFields
    <2>3. worker' = "unloading"
      BY <1>2 DEF Begin
    <2> QED BY <1>1, <2>2, <2>3
  <1>3. CASE Unload
    <2>1. ASSUME NEW m, job' = [job EXCEPT !.todo = @ \ {m}], worker' = worker PROVE BenchInv'
      <3>1. DOMAIN job' = JobFields /\ job'.outcome = job.outcome
        BY <1>0, <2>1 DEF JobFields
      <3> QED BY <1>1, <1>3, <2>1, <3>1 DEF Unload, Worker
    <2>2. ASSUME UNCHANGED resident, NEW o \in {"failed", "cancelled"}, Restores(o) PROVE BenchInv'
      <3>1. o # None
        BY OfficeAssumption
      <3> QED BY <1>0, <2>2, <3>1, RestoresKeeps
    <2>3. ASSUME worker' = "baseline", UNCHANGED job PROVE BenchInv'
      BY <1>0, <1>1, <2>3
    <2> QED BY <1>3, <2>1, <2>2, <2>3 DEF Unload
  <1> QED BY <1>2, <1>3

\* What a trial measures, when it measures anything.
LEMMA TrialMeasures ==
  ASSUME office \in Offices, office.baseline # None, NEW p, NEW m \in RunTrial(Val(office.measures, p, {})), m # None
  PROVE  m \in Measurement /\ DOMAIN m.parallel = DOMAIN office.baseline.parallel
  <1>1. m \in Val(office.measures, p, {})
    BY DEF RunTrial
  <1>2. p \in DOMAIN office.measures /\ m \in office.measures[p]
    BY <1>1 DEF Val, Has
  <1> QED BY <1>2, OfficeAssumption

\* The measurement of a profile counts its window in.
LEMMA OverRated ==
  ASSUME NEW m \in Measurement, DOMAIN m.parallel = DOMAIN office.baseline.parallel, NEW w
  PROVE  Rated(Over([window |-> w], m))
  <1> DEFINE t == Over([window |-> w], m)
  <1>1. DOMAIN [window |-> w] = {"window"}
    OBVIOUS
  <1>2. DOMAIN m = {"prompt", "speed", "parallel", "quality", "drafted", "vram"}
    BY DEF Measurement
  <1>3. \A k \in DOMAIN m : k # "window" => t[k] = m[k]
    BY <1>1 DEF Over
  <1>4. t.prompt = m.prompt /\ t.speed = m.speed /\ t.parallel = m.parallel /\ t.quality = m.quality
    BY <1>2, <1>3
  <1>5. m.prompt \in Int /\ m.speed \in Int /\ m.quality \in Int /\ m.parallel \in Seq(Int)
    BY DEF Measurement
  <1>6. \A i \in DOMAIN m.parallel : m.parallel[i] \in Int
    BY <1>5
  <1> QED BY <1>4, <1>5, <1>6 DEF Rated

\* The current profile is measured first.
LEMMA BaselineKeeps ==
  ASSUME BenchInv, UNCHANGED <<office, pc>>, Baseline
  PROVE  BenchInv'
  <1>0. UNCHANGED <<maintenance, resident>> /\ worker = "baseline"
    BY DEF Baseline, Worker
  <1>1. ASSUME office.baseline # None, bench' = [bench EXCEPT !.baseline = office.baseline], worker' = "trying", UNCHANGED job
        PROVE  BenchInv'
    <2>1. Owned' /\ Callers' = Callers /\ DOMAIN pc' = Callers
      BY <1>0, <1>1, WorkerOwns
    <2>2. /\ DOMAIN bench' = BenchFields /\ bench'.baseline = office.baseline
          /\ bench'.trials = bench.trials /\ bench'.recommended = bench.recommended
      BY <1>1 DEF BenchInv, BenchFields
    <2>3. Restored'
      BY <1>1 DEF BenchInv, Restored
    <2>4. Judged'
      <3>1. bench.recommended = None /\ \A t : Rated(t)' <=> Rated(t)
        BY <1>0, SameOffice DEF BenchInv, Judged
      <3>2. \E S : bench'.trials \in Seq(S)
        BY <2>2 DEF BenchInv, Judged
      <3> QED BY <1>1, <2>2, <3>1, <3>2 DEF BenchInv, Judged
    <2> QED BY <1>1, <2>1, <2>2, <2>3, <2>4 DEF BenchInv
  <1>2. ASSUME Restores("unmeasured"), UNCHANGED bench PROVE BenchInv'
    <2>1. "unmeasured" # None
      BY OfficeAssumption
    <2> QED BY <1>0, <1>2, <2>1, RestoresKeeps
  <1>3. PICK m \in RunTrial({office.baseline}) :
          \/ m # None /\ bench' = [bench EXCEPT !.baseline = m] /\ worker' = "trying" /\ UNCHANGED job
          \/ m = None /\ Restores("unmeasured") /\ UNCHANGED bench
    BY DEF Baseline
  <1>4. m # None => m = office.baseline
    BY DEF RunTrial
  <1> QED BY <1>1, <1>2, <1>3, <1>4

\* Each profile of the plan is tried, unless somebody cancels.
LEMMA TryKeeps ==
  ASSUME BenchInv, UNCHANGED <<office, pc>>, Try \/ Trial
  PROVE  BenchInv'
  <1>0. UNCHANGED <<maintenance, resident>> /\ worker \in {"trying", "trial"}
    BY DEF Try, Trial, Worker
  <1>1. bench.baseline # None /\ bench.baseline = office.baseline /\ bench.recommended = None
    BY <1>0 DEF BenchInv, Judged, Measuring
  <1>2. CASE Try
    <2>1. CASE Restores(None)
      BY <1>0, <1>1, <1>2, <2>1, RestoresKeeps DEF Try
    <2>2. CASE worker' = "trial" /\ UNCHANGED job
      <3>1. Restored'
        BY <2>2 DEF BenchInv, Restored
      <3>2. DOMAIN job' = JobFields /\ bench' = bench
        BY <1>2, <2>2 DEF BenchInv, Try
      <3> QED BY <1>0, <1>1, <2>2, <3>1, <3>2, WorkerKeeps
    <2> QED BY <1>2, <2>1, <2>2 DEF Try
  <1>3. CASE Trial
    <2> DEFINE next == job.plan[Len(bench.trials) + 1]
    <2>1. PICK m \in RunTrial(Val(office.measures, next.profile, {})) :
            bench' = [bench EXCEPT !.trials = Append(@, IF m = None THEN None ELSE Over([window |-> next.window], m))]
      BY <1>3 DEF Trial
    <2> DEFINE t == IF m = None THEN None ELSE Over([window |-> next.window], m)
    <2>2. worker' = "trying" /\ UNCHANGED job
      BY <1>3 DEF Trial
    <2>3. t # None => Rated(t)
      <3>1. CASE m = None
        BY <3>1
      <3>2. CASE m # None
        <4>1. m \in Measurement /\ DOMAIN m.parallel = DOMAIN office.baseline.parallel
          BY <1>1, <3>2, TrialMeasures DEF BenchInv
        <4> QED BY <3>2, <4>1, OverRated
      <3> QED BY <3>1, <3>2
    <2>4. bench' = [bench EXCEPT !.trials = Append(@, t)]
      BY <2>1
    <2> HIDE DEF t, next
    <2>5. /\ DOMAIN bench' = BenchFields /\ bench'.trials = Append(bench.trials, t)
          /\ bench'.baseline = bench.baseline /\ bench'.recommended = bench.recommended /\ bench'.restored = bench.restored
          /\ bench'.state = bench.state
      BY <2>4 DEF BenchInv, BenchFields
    <2>6. Owned' /\ Callers' = Callers /\ DOMAIN pc' = Callers
      BY <1>0, <2>2, WorkerOwns
    <2>7. Restored'
      BY <2>2 DEF BenchInv, Restored
    <2>8. Judged'
      <3>1. \A u : Rated(u)' <=> Rated(u)
        BY SameOffice
      <3>2. PICK S : bench.trials \in Seq(S)
        BY DEF BenchInv, Judged
      <3>3. bench.trials \in Seq(S \cup {t})
        BY <3>2
      <3>4. /\ bench'.trials \in Seq(S \cup {t})
            /\ \A i \in DOMAIN bench'.trials : bench'.trials[i] = t \/ (i \in DOMAIN bench.trials /\ bench'.trials[i] = bench.trials[i])
        BY <2>5, <3>3
      <3>5. \A i \in DOMAIN bench.trials : bench.trials[i] # None => Rated(bench.trials[i])
        BY DEF BenchInv, Judged
      <3>6. \A i \in DOMAIN bench'.trials : bench'.trials[i] # None => Rated(bench'.trials[i])
        BY <2>3, <3>4, <3>5
      <3>7. \A i \in DOMAIN bench'.trials : bench'.trials[i] # None => Rated(bench.trials[i])'
        BY <3>1, <3>6 DEF Rated
      <3>8. \E R : bench'.trials \in Seq(R)
        BY <3>4
      <3> QED BY <1>1, <2>2, <2>5, <3>7, <3>8 DEF Judged
    <2> QED BY <2>2, <2>5, <2>6, <2>7, <2>8 DEF BenchInv
  <1> QED BY <1>2, <1>3
\* The models are loaded again one by one; whatever fails is remembered.
LEMMA RestoreKeeps ==
  ASSUME BenchInv, UNCHANGED <<office, pc>>, Restore
  PROVE  BenchInv'
  <1>0. UNCHANGED <<maintenance, bench>> /\ worker = "restoring" /\ DOMAIN job = JobFields
    BY DEF Restore, Worker, BenchInv
  <1>1. /\ job.ok => job.previous \ job.todo \subseteq Back
        /\ job.outcome # None => job.outcome \in {"failed", "cancelled", "completed", "unmeasured"}
    BY <1>0 DEF BenchInv, Restored
  <1>2. job.outcome = None => bench.baseline # None
    BY <1>0 DEF BenchInv, Judged, Measuring
  <1>3. ASSUME NEW m, resident' = resident \cup {m}, worker' = worker,
               job' = [job EXCEPT !.todo = @ \ {m}, !.ousted = @ \ {m}]
        PROVE  BenchInv'
    <2>1. /\ DOMAIN job' = JobFields /\ job'.outcome = job.outcome /\ job'.ok = job.ok
          /\ job'.previous = job.previous /\ job'.todo = job.todo \ {m} /\ job'.ousted = job.ousted \ {m}
      BY <1>0, <1>3 DEF JobFields
    <2>4. Back' = Back \cup {m}
      BY <1>3, <2>1 DEF Back
    <2>2. Restored'
      BY <1>0, <1>1, <1>3, <2>1, <2>4 DEF Restored
    <2>3. Measuring' => bench.baseline # None
      BY <1>0, <1>2, <1>3, <2>1 DEF Measuring
    <2> QED BY <1>0, <1>3, <2>1, <2>2, <2>3, WorkerKeeps
  <1>4. ASSUME NEW m, job' = [job EXCEPT !.todo = @ \ {m}, !.ok = FALSE], worker' = worker
        PROVE  BenchInv'
    <2>1. DOMAIN job' = JobFields /\ job'.outcome = job.outcome /\ job'.ok = FALSE
      BY <1>0, <1>4 DEF JobFields
    <2>2. Restored'
      BY <1>0, <1>1, <1>4, <2>1 DEF Restored
    <2>3. Measuring' => bench.baseline # None
      BY <1>0, <1>2, <1>4, <2>1 DEF Measuring
    <2> QED BY <1>0, <1>4, <2>1, <2>2, <2>3, WorkerKeeps
  <1>5. ASSUME job.todo = {}, worker' = "restored", UNCHANGED <<resident, job>>
        PROVE  BenchInv'
    <2>1. Restored'
      BY <1>1, <1>5 DEF Restored, Back
    <2>2. Measuring' => bench.baseline # None
      BY <1>2, <1>5 DEF Measuring
    <2> QED BY <1>0, <1>5, <2>1, <2>2, WorkerKeeps
  <1> QED BY <1>3, <1>4, <1>5 DEF Restore

\* The verdict: the best of the trials that fit, if the job got that far.
LEMMA SettleKeeps ==
  ASSUME BenchInv, UNCHANGED <<office, pc>>, Settle
  PROVE  BenchInv'
  <1>0. UNCHANGED <<maintenance, resident>> /\ worker = "restored" /\ worker' = "finishing"
    BY DEF Settle, Worker
  <1>1. Owned' /\ Callers' = Callers /\ DOMAIN pc' = Callers
    BY <1>0, WorkerOwns
  <1>2. /\ job.ok => job.previous \subseteq Back
        /\ job.outcome # None => job.outcome \in {"failed", "cancelled", "completed", "unmeasured"}
        /\ DOMAIN job = JobFields /\ DOMAIN bench = BenchFields
    BY <1>0 DEF BenchInv, Restored
  <1>3. None \notin {"failed", "cancelled", "completed"}
    BY OfficeAssumption
  <1>4. ASSUME NEW o \in {"failed", "cancelled", "completed"}, (job' = job /\ job.outcome = o) \/ job' = [job EXCEPT !.outcome = o]
        PROVE  Restored' /\ DOMAIN job' = JobFields
    <2>1. DOMAIN job' = JobFields /\ job'.ok = job.ok /\ job'.previous = job.previous /\ job'.outcome = o
                /\ job'.ousted = job.ousted
      BY <1>2, <1>4 DEF JobFields
    <2> QED BY <1>0, <1>2, <1>3, <2>1 DEF Restored, Back
  <1>5. ASSUME UNCHANGED bench PROVE Judged'
    <2>1. bench.recommended = None /\ \A t : Rated(t)' <=> Rated(t)
      BY <1>0, SameOffice DEF BenchInv, Judged
    <2>2. \E S : bench'.trials \in Seq(S)
      BY <1>5 DEF BenchInv, Judged
    <2>3. ~Measuring'
      BY <1>0 DEF Measuring
    <2> QED BY <1>5, <2>1, <2>2, <2>3 DEF BenchInv, Judged
  <1>6. CASE UNCHANGED bench
    <2>1. Restored' /\ DOMAIN job' = JobFields
      <3>1. CASE job.outcome \notin {None, "unmeasured"} /\ job' = job
        BY <1>2, <1>4, <3>1
      <3>2. CASE \E o \in {"failed", "cancelled", "completed"} : job' = [job EXCEPT !.outcome = o]
        BY <1>4, <3>2
      <3> QED BY <3>1, <3>2 DEF Settle
    <2> QED BY <1>1, <1>2, <1>5, <1>6, <2>1 DEF BenchInv
  <1>7. CASE job.outcome = None /\ bench' = [bench EXCEPT !.recommended = Best(bench.trials, bench.baseline)]
    <2> DEFINE best == Best(bench.trials, bench.baseline)
    <2>1. Restored' /\ DOMAIN job' = JobFields
      <3>1. \E o \in {"failed", "cancelled", "completed"} : job' = [job EXCEPT !.outcome = o]
        BY <1>7 DEF Settle
      <3> QED BY <1>4, <3>1
    <2>2. bench.baseline # None /\ bench.baseline = office.baseline
      BY <1>0, <1>7 DEF BenchInv, Judged, Measuring
    <2>3. PICK S : bench.trials \in Seq(S)
      BY DEF BenchInv, Judged
    <2>4. \A i \in DOMAIN bench.trials : bench.trials[i] # None => Rated(bench.trials[i])
      BY DEF BenchInv, Judged
    <2>5. best # None => /\ Fits(best, bench.baseline)
                         /\ \A i \in DOMAIN bench.trials : bench.trials[i] # None /\ Fits(bench.trials[i], bench.baseline)
                              => Score(bench.trials[i], bench.baseline) <= Score(best, bench.baseline)
      BY <2>2, <2>3, <2>4, BestFits DEF BenchInv
    <2>6. best # None => Preserves(best, bench.baseline) /\ best.quality >= bench.baseline.quality
      BY <2>5 DEF Fits
    <2>7. bench' = [bench EXCEPT !.recommended = best]
      BY <1>7
    <2> HIDE DEF best
    <2>8. /\ DOMAIN bench' = BenchFields /\ bench'.trials = bench.trials /\ bench'.baseline = bench.baseline
          /\ bench'.recommended = best
      BY <1>2, <2>7 DEF BenchFields
    <2>9. best # None => Recommends(bench')
      BY <2>5, <2>6, <2>8 DEF Recommends
    <2>10. Recommends(bench)' <=> Recommends(bench')
      BY DEF Recommends, Fits
    <2>11. Judged'
      <3>1. \A t : Rated(t)' <=> Rated(t)
        BY SameOffice
      <3>2. \E R : bench'.trials \in Seq(R)
        BY <2>3, <2>8
      <3>3. ~Measuring'
        BY <1>0 DEF Measuring
      <3> QED BY <1>0, <2>2, <2>4, <2>8, <2>9, <2>10, <3>1, <3>2, <3>3 DEF Judged
    <2> QED BY <1>1, <2>1, <2>8, <2>11 DEF BenchInv
  <1> QED BY <1>6, <1>7 DEF Settle

\* The state is published before the resource is given back.
LEMMA FinishKeeps ==
  ASSUME BenchInv, UNCHANGED <<office, pc>>, Finish
  PROVE  BenchInv'
  <1>0. UNCHANGED <<maintenance, resident, job>> /\ worker = "finishing" /\ worker' = "releasing"
        /\ bench' = [bench EXCEPT !.state = job.outcome, !.restored = job.ok]
    BY DEF Finish, Worker
  <1>1. Owned' /\ Callers' = Callers /\ DOMAIN pc' = Callers
    BY <1>0, WorkerOwns
  <1>2. /\ DOMAIN bench' = BenchFields /\ bench'.trials = bench.trials /\ bench'.baseline = bench.baseline
        /\ bench'.recommended = bench.recommended /\ bench'.state = job.outcome /\ bench'.restored = job.ok
    BY <1>0 DEF BenchInv, BenchFields
  <1>3. (job.ok => job.previous \subseteq Back) /\ job.outcome \in {"failed", "cancelled", "completed"}
    BY <1>0 DEF BenchInv, Restored
  <1>4. Restored'
    BY <1>0, <1>2, <1>3 DEF Restored, Active, Back
  <1>5. Judged'
    <2>1. /\ \A t : Rated(t)' <=> Rated(t)
          /\ Recommends(bench)' <=> Recommends(bench)
      BY <1>2, SameOffice DEF Recommends
    <2>2. \E S : bench'.trials \in Seq(S)
      BY <1>2 DEF BenchInv, Judged
    <2>3. ~Measuring'
      BY <1>0 DEF Measuring
    <2> QED BY <1>0, <1>2, <2>1, <2>2, <2>3 DEF BenchInv, Judged
  <1> QED BY <1>0, <1>1, <1>2, <1>4, <1>5 DEF BenchInv

\* The resource is given back last of all.
LEMMA ReleaseKeeps ==
  ASSUME BenchInv, UNCHANGED <<office, pc>>, ReleaseResource
  PROVE  BenchInv'
  <1>0. UNCHANGED <<resident, job, bench>> /\ worker = "releasing" /\ worker' = "none" /\ maintenance' = None
    BY DEF ReleaseResource, Worker
  <1>1. Callers' = Callers /\ DOMAIN pc' = Callers
    BY SameOffice DEF BenchInv
  <1>2. \A c \in Callers : pc[c] \notin Claims
    BY <1>0 DEF BenchInv, Owned
  <1>3. Owned'
    BY <1>0, <1>1, <1>2 DEF Owned
  <1>4. Restored'
    BY <1>0 DEF BenchInv, Restored, Active
  <1>5. Judged'
    <2>1. /\ \A t : Rated(t)' <=> Rated(t)
          /\ Recommends(bench)' <=> Recommends(bench)
      BY <1>0, SameOffice DEF Recommends
    <2>2. \E S : bench'.trials \in Seq(S)
      BY <1>0 DEF BenchInv, Judged
    <2>3. ~Measuring'
      BY <1>0 DEF Measuring
    <2> QED BY <1>0, <2>1, <2>2, <2>3 DEF BenchInv, Judged
  <1> QED BY <1>0, <1>1, <1>3, <1>4, <1>5 DEF BenchInv

----------------------------------------------------------------------------
(* The benchmark inside the control plane. *)

\* No benchmark runs at first.
LEMMA BenchInit == Init => BenchInv
  <1>1. SUFFICES ASSUME Init PROVE BenchInv
    OBVIOUS
  <1>2. /\ office \in Offices /\ maintenance = None /\ pc = [c \in Callers |-> "idle"]
        /\ bench = NoBench /\ worker = "none" /\ job = NoJob
    BY <1>1 DEF Init
  <1>3. Owned
    BY <1>2 DEF Owned, Claims
  <1>4. Restored
    BY <1>2 DEF Restored, Active, NoBench, NoJob
  <1>5. Judged
    <2>1. bench.trials \in Seq({}) /\ DOMAIN bench.trials = {} /\ bench.baseline = None /\ bench.recommended = None
      BY <1>2 DEF NoBench
    <2> QED BY <1>2, <2>1 DEF Judged, Measuring
  <1> QED BY <1>2, <1>3, <1>4, <1>5 DEF BenchInv, NoBench, NoJob, BenchFields, JobFields

\* Every step of the control plane keeps the benchmark's invariant.
LEMMA BenchNext == BenchInv /\ [Next]_controlVars => BenchInv'
  <1> SUFFICES ASSUME BenchInv, [Next]_controlVars PROVE BenchInv'
    OBVIOUS
  <1>1. ASSUME NEW c \in Callers, StartStepOf(c) PROVE BenchInv'
    <2>1. StartStep(c)
      BY <1>1 DEF StartStepOf
    <2> QED BY <1>1, <2>1, ClaimKeeps, LaunchKeeps, CancelKeeps DEF StartStep
  <1>2. ASSUME UNCHANGED <<office, pc, maintenance, bench, worker>>, Loaned PROVE BenchInv'
    BY <1>2, AsideKeeps DEF BenchInv
  <1>3. CASE Alone
    <2>1. CASE WorkerStep /\ UNCHANGED <<fixed, pc>>
      BY <2>1, UnloadKeeps, BaselineKeeps, TryKeeps, RestoreKeeps, SettleKeeps, FinishKeeps, ReleaseKeeps DEF WorkerStep, fixed
    <2>2. CASE Ousts /\ UNCHANGED <<fixed, maintenance, pc, bench, worker>>
      BY <1>2, <2>2, SwapLoans DEF fixed
    <2>3. CASE Tick /\ UNCHANGED <<shared, bench_vars>>
      BY <1>2, <2>3, LoadLoans DEF shared, bench_vars
    <2>4. CASE Quit /\ UNCHANGED <<fixed, pc>>
      BY <1>2, <2>4, LoadLoans DEF Quit, fixed
    <2> QED BY <1>3, <2>1, <2>2, <2>3, <2>4 DEF Alone
  <1>4. CASE Reload
    <2>1. UNCHANGED <<office, pc>> /\ BenchBoot /\ maintenance' = None /\ ~Handling
      BY <1>4 DEF Reload
    <2>2. \A c \in Callers : pc'[c] \notin Claims
      BY <2>1 DEF Handling, Claims
    <2> QED BY <2>1, <2>2, BenchBooted DEF BenchInv
  <1>5. CASE Crash
    <2>1. office' = office /\ BenchBoot /\ maintenance' = None
      BY <1>5 DEF Crash
    <2>2. DOMAIN pc' = Callers /\ \A c \in Callers : pc'[c] \in {"holding", "idle", "done"}
      BY <1>5 DEF Crash
    <2>3. \A c \in Callers : pc'[c] \notin Claims
      BY <2>2 DEF Claims
    <2> QED BY <2>1, <2>2, <2>3, BenchBooted
  <1>6. CASE UNCHANGED controlVars
    BY <1>2, <1>6, LoadLoans DEF controlVars, shared, bench_vars
  <1> QED BY <1>1, <1>3, <1>4, <1>5, <1>6, ConfigAside, KeyAside, RequestAside DEF Next

\* One owner at a time has the maintenance resource and gives it back, models
\* reported restored are loaded unless another swap has unloaded them since, a
\* benchmark that is running has a worker, and a
\* recommendation is measured to be the best of the trials that fit: for any
\* offices, plans, faults, cancellations, reloads and restarts.
THEOREM BenchmarkAlwaysSettled == ControlSpec => []BenchmarkSettled
  <1>1. BenchInv => BenchmarkSettled
    <2> SUFFICES ASSUME BenchInv PROVE BenchmarkSettled
      OBVIOUS
    <2> DEFINE owners == {c \in Callers : pc[c] \in {"claimed", "vacant", "quantizing"}}
    <2>1. owners = {c \in Callers : pc[c] \in Claims}
      BY DEF Claims
    <2>2. Owners = Cardinality(owners) + (IF worker = "none" THEN 0 ELSE 1)
      BY DEF Owners
    <2>3. Cardinality(owners) = IF maintenance # None /\ worker = "none" THEN 1 ELSE 0
      <3>1. CASE maintenance # None /\ worker = "none"
        <4>1. PICK c \in Callers : pc[c] \in Claims /\ \A d \in Callers : pc[d] \in Claims => d = c
          BY <3>1 DEF BenchInv, Owned
        <4>2. owners = {c}
          BY <2>1, <4>1
        <4> QED BY <3>1, <4>2, FS_Singleton
      <3>2. CASE ~(maintenance # None /\ worker = "none")
        <4>1. owners = {}
          BY <2>1, <3>2 DEF BenchInv, Owned
        <4> QED BY <3>2, <4>1, FS_EmptySet
      <3> QED BY <3>1, <3>2
    <2>4. Owners = IF maintenance = None THEN 0 ELSE 1
      BY <2>2, <2>3 DEF BenchInv, Owned
    <2>5. Active => worker # "none"
      BY DEF BenchInv, Restored
    <2>6. worker = "releasing" /\ bench.restored => job.previous \subseteq resident \cup job.ousted
      BY DEF BenchInv, Restored, Back
    <2>7. bench.recommended # None => Recommends(bench)
      BY DEF BenchInv, Judged
    <2> QED BY <2>4, <2>5, <2>6, <2>7 DEF BenchmarkSettled, Recommends
  <1> QED BY <1>1, BenchInit, BenchNext, PTL DEF ControlSpec, controlVars
=============================================================================
