----------------------- MODULE BatchScheduler_proofs -----------------------
(***************************************************************************)
(* What holds of the scheduler in every reachable state, for every rig.    *)
(*                                                                         *)
(* The kernel is an inductive invariant of its own: the types, who sits on *)
(* which slot, who is in active_ and what was told, and the counters that  *)
(* keep a batch within its prompts.  Slots and sequences, the lifetime of  *)
(* the tasks and the types follow from it.                                 *)
(* The memory needs the kernel: CacheFaithful says what the cells of a     *)
(* running task are, but a task leaves its cells to a slot, a slot its     *)
(* memory to the next task, and a batch appends what sampling put in the   *)
(* caller's queue, so the invariant follows a text through all three.      *)
(* The pool needs both: what is granted and what idle sequences hold fit   *)
(* together, and a started task holds no more than its grant because its   *)
(* cells are exactly its prompt and what it generated.                     *)
(***************************************************************************)
EXTENDS BatchScheduler, SumLemmas

----------------------------------------------------------------------------
(* Types. *)

Checkpoint == [pos : Nat, cells : Seq(Nat), drafted : BOOLEAN]
SlotType == [seq : 1..rig.slots, busy : BOOLEAN, bound : BOOLEAN, last : Seq(Nat),
             checkpoint : Checkpoint, synced : BOOLEAN]
Event == Nat \cup {Done, Failed}
TaskType == [slot : Nat, seq : Nat, prompt : Seq(Nat), last : Seq(Nat), checkpoint : Checkpoint,
             capture : Nat, max : Nat, synced : BOOLEAN, initialized : BOOLEAN, admitted : BOOLEAN,
             promptPos : Nat, promptDone : BOOLEAN, nPos : Nat, generated : Nat, lastToken : Nat,
             eligible : BOOLEAN, spec : Seq(Nat), outCheckpoint : Checkpoint, outSynced : BOOLEAN,
             queue : Seq(Event), decoded : Seq(Nat)]
WorkType == [tasks : Seq(Requests), runnable : Seq(Requests), take : [Requests -> Nat],
             done : SUBSET Requests]
Places == {"idle", "acquired", "prepared", "draining", "drained", "leaving", "over"}

CacheTyped ==
    /\ rig \in Rigs
    /\ slots \in [1..rig.slots -> SlotType]
    /\ kv \in [1..rig.slots -> Seq(Nat)]
    /\ draft \in [1..rig.slots -> Seq(Nat)]
    /\ life \in {"up", "closing", "joining"} /\ remakes \in 0..rig.remakes
    /\ life # "up" => remakes < rig.remakes
CallersTyped ==
    /\ task \in [Requests -> TaskType]
    /\ at \in [Requests -> Places]
    /\ cancel \in [Requests -> BOOLEAN]
    /\ stop \in [Requests -> BOOLEAN]
ThreadTyped ==
    /\ active \in Seq(Requests)
    /\ terminal \in BOOLEAN /\ stopping \in BOOLEAN
    /\ pc \in Points /\ turn \in Nat
    /\ work \in WorkType
Typed == CacheTyped /\ CallersTyped /\ ThreadTyped

(* Slots: who holds one has it to itself, busy, and bound once it is prepared. *)
Holding(r) == at[r] \in {"acquired", "prepared", "draining", "drained", "leaving"}
Going(r) == at[r] \in {"prepared", "draining", "drained"}
SeatOf(r) == slots[task[r].slot]
Seated ==
    /\ \A r \in Requests : Holding(r) =>
         /\ task[r].slot \in 1..rig.slots
         /\ SeatOf(r).busy /\ (SeatOf(r).bound <=> at[r] # "acquired")
    /\ \A q, r \in Requests : Holding(q) /\ Holding(r) /\ task[q].slot = task[r].slot => q = r
    /\ \A s \in 1..rig.slots : slots[s].bound => slots[s].busy
    /\ \A s, t \in 1..rig.slots : slots[s].seq = slots[t].seq => s = t
    /\ \A r \in Requests : Going(r) => task[r].seq = SeatOf(r).seq
    /\ \A r \in Requests : Holding(r) => life = "up" /\ r \in DOMAIN rig.asks

(* Events: the queue of a draining task ends with its only last event, or the  *)
(* thread still has the task.                                                 *)
Ends == {Done, Failed}
Alive ==
    /\ Members(work.tasks) \subseteq Members(active)
    /\ Members(work.runnable) \subseteq Members(work.tasks)
    /\ work.done \subseteq Members(work.tasks)
    /\ work.done # {} => pc = "finish"
    /\ \A r \in Requests : Queued(r) => at[r] = "draining"
    /\ \A r \in Requests : at[r] \in {"idle", "acquired", "prepared", "over"} => task[r].queue = <<>>
    /\ \A r \in Requests : Queued(r) => \A i \in 1..Len(task[r].queue) : task[r].queue[i] \notin Ends
    /\ \A r \in Requests : at[r] = "draining" /\ ~Queued(r) =>
         /\ Len(task[r].queue) > 0 /\ task[r].queue[Len(task[r].queue)] \in Ends
         /\ \A i \in 1..(Len(task[r].queue) - 1) : task[r].queue[i] \notin Ends

(* Counters. *)
Metered ==
    /\ \A r \in Requests : task[r].promptPos <= Len(task[r].prompt) /\ task[r].generated <= task[r].max
    /\ \A r \in Requests : Going(r) => task[r].max > 0
    /\ \A r \in Requests : at[r] \in {"prepared"} => task[r].generated = 0
    /\ \A r \in Requests : Queued(r) /\ r \notin work.done => task[r].generated < task[r].max
    /\ \A r \in Requests : ~task[r].promptDone => task[r].spec = <<>>
    /\ \A r \in Requests : pc = "decode" /\ r \in Members(work.tasks) /\ work.take[r] > 0 =>
         /\ task[r].initialized
         /\ ~task[r].promptDone => task[r].promptPos + work.take[r] <= Len(task[r].prompt)

(* What a slot or a task remembers of its sequence. *)
(* What concerns the texts holds where every token is kept (Voiced); what   *)
(* concerns lengths and drafts holds everywhere.                             *)
Agrees(a, b) == Voiced => \A i \in 1..Len(a) : i <= Len(b) => a[i] = b[i]
Fits(c, tokens) ==
    c.pos > 0 => /\ Len(c.cells) = c.pos
                 /\ Voiced => /\ c.pos <= Len(tokens)
                              /\ \A i \in 1..c.pos : c.cells[i] = tokens[i]
RemembersOf(slot, c, d, mtp) ==
    /\ Agrees(slot.last, c)
    /\ Fits(slot.checkpoint, slot.last)
    /\ mtp /\ slot.synced => d = c
Remembers(s) == RemembersOf(slots[s], kv[slots[s].seq], draft[slots[s].seq], rig.mtp)
Started(r) == at[r] \in {"draining", "drained"} /\ task[r].initialized
Truthful ==
    ~terminal => \A s \in 1..rig.slots :
        (\A r \in Requests : Started(r) => task[r].slot # s) => Remembers(s)

(* Tasks that were not started yet, and what is known of those that were. *)
NewOf(t, slot) ==
    /\ t.last = slot.last /\ t.checkpoint = slot.checkpoint /\ t.synced = slot.synced
    /\ ~t.promptDone /\ t.decoded = <<>> /\ t.outCheckpoint.pos = 0
    /\ \A i \in 1..Len(t.queue) : t.queue[i] \in Ends
Fresh ==
    /\ \A r \in Requests : at[r] = "prepared" => ~task[r].initialized
    /\ \A r \in Requests : Going(r) /\ ~task[r].initialized => NewOf(task[r], SeatOf(r)) /\ ~stop[r]
    /\ \A r \in Requests : at[r] \in {"idle", "acquired"} => ~stop[r]
    /\ rig.capacity > 0 => \A r \in Requests :
         (Queued(r) /\ task[r].initialized) \/ r \in Members(work.runnable) => task[r].admitted
    /\ ~terminal => \A r \in Requests : at[r] = "draining" /\ task[r].initialized =>
         \A i \in 1..Len(task[r].queue) : task[r].queue[i] # Failed
    /\ terminal => \A r \in Requests : ~Queued(r)

(* The cells of a task that was started and not cancelled. *)
Base(t) == Len(t.prompt) + Len(t.decoded)
FollowsOf(t, c, d, stopped, mtp) ==
    /\ Voiced => \A i \in 1..Len(c) : i <= Len(t.prompt) => c[i] = t.prompt[i]
    /\ Voiced => \A j \in 1..Len(t.decoded) :
         Len(t.prompt) + j <= Len(c) => c[Len(t.prompt) + j] = t.decoded[j]
    /\ Voiced /\ ~stopped => \A k \in 1..Len(t.queue) :
         t.queue[k] \notin Ends /\ Base(t) + k <= Len(c) => c[Base(t) + k] = t.queue[k]
    /\ Fits(t.outCheckpoint, t.prompt)
    /\ mtp /\ t.outSynced => t.eligible
    /\ t.eligible => d = c
RunsOf(t, c, stopped, over) ==
    /\ Len(c) = t.nPos
    /\ stopped => t.promptDone
    /\ ~t.promptDone => t.nPos = t.promptPos /\ t.decoded = <<>> /\ t.queue = <<>>
    /\ t.promptDone => t.nPos >= Len(t.prompt)
    /\ Voiced /\ stopped => Base(t) <= t.nPos
    /\ Voiced /\ t.promptDone /\ ~stopped => Base(t) + Len(t.queue) <= t.nPos + 1
    /\ Voiced /\ t.promptDone /\ ~stopped /\ ~over =>
         /\ Base(t) + Len(t.queue) = t.nPos + 1
         /\ t.queue = <<>> => t.decoded # <<>> /\ t.lastToken = t.decoded[Len(t.decoded)]
         /\ t.queue # <<>> => t.lastToken = t.queue[Len(t.queue)]
Follows(r) == FollowsOf(task[r], kv[task[r].seq], draft[task[r].seq], stop[r], rig.mtp)
Runs(r) == RunsOf(task[r], kv[task[r].seq], stop[r], r \in work.done)
Faithful ==
    /\ \A r \in Requests : Started(r) /\ ~cancel[r] /\ ~terminal => Follows(r)
    /\ \A r \in Requests : Queued(r) /\ task[r].initialized /\ ~cancel[r] => Runs(r)
----------------------------------------------------------------------------
(* The operators of the model. *)

\* One more member.
LEMMA AppendMembers ==
  ASSUME NEW R, NEW q \in Seq(R), NEW x
  PROVE  Members(Append(q, x)) = Members(q) \cup {x}
  <1>1. Len(q) \in Nat /\ Len(Append(q, x)) = Len(q) + 1
    OBVIOUS
  <1>2. \A i \in 1..Len(q) : Append(q, x)[i] = q[i]
    OBVIOUS
  <1>3. Append(q, x)[Len(q) + 1] = x
    OBVIOUS
  <1> QED BY <1>1, <1>2, <1>3 DEF Members

\* What is left of a sequence: its members but for those taken out.
LEMMA WithoutMembers ==
  ASSUME NEW R, NEW s \in Seq(R), NEW S
  PROVE  Without(s, S) \in Seq(R) /\ Members(Without(s, S)) = Members(s) \ S
  <1> DEFINE n == Len(s)
             Step(i, q) == IF s[i] \in S THEN q ELSE Append(q, s[i])
             Solves(F) == F = [i \in 0..n |-> IF i = 0 THEN <<>> ELSE Step(i, F[i - 1])]
             H == CHOOSE F : Solves(F)
             G == [p \in (1..n) \X Seq(R) |-> Step(p[1], p[2])]
  <1>1. n \in Nat /\ <<>> \in Seq(R) /\ \A i \in 1..n : s[i] \in R
    OBVIOUS
  <1>2. Without(s, S) = H[n]
    BY DEF Without
  <1> HIDE DEF n
  <1>3. ASSUME NEW i \in 1..n, NEW q \in Seq(R) PROVE Step(i, q) \in Seq(R)
    BY <1>1
  <1> HIDE DEF Step
  <1>4. G \in [(1..n) \X Seq(R) -> Seq(R)]
    BY <1>3
  <1>5. PICK F : Iterates(F, Seq(R), <<>>, n, G)
    <2> HIDE DEF G
    <2> QED BY <1>1, <1>4, Folded, Zenon
  <1>6. ASSUME NEW i \in 1..n PROVE F[i] = Step(i, F[i - 1])
    <2>1. i - 1 \in 0..n /\ F[i - 1] \in Seq(R)
      BY <1>1, <1>5 DEF Iterates
    <2>2. <<i, F[i - 1]>> \in (1..n) \X Seq(R)
      BY <2>1
    <2>3. G[<<i, F[i - 1]>>] = Step(i, F[i - 1])
      BY <2>2
    <2> QED BY <1>5, <2>3 DEF Iterates
  <1>7. Solves(F)
    BY <1>1, <1>5, <1>6 DEF Iterates
  <1> HIDE DEF G
  <1>8. Solves(H)
    <2> HIDE DEF Solves
    <2> QED BY <1>7
  <1>9. H[0] = <<>> /\ \A i \in 1..n : H[i] = Step(i, H[i - 1])
    <2> HIDE DEF H
    <2> QED BY <1>1, <1>8
  <1> HIDE DEF H, Solves
  <1> DEFINE Upto(k) == {s[i] : i \in 1..k}
             N == {k \in Nat : k <= n => H[k] \in Seq(R) /\ Members(H[k]) = Upto(k) \ S}
  <1>10. 0 \in N
    <2>1. Members(<<>>) = {} /\ Upto(0) = {} /\ <<>> \in Seq(R)
      BY DEF Members
    <2> HIDE DEF Upto
    <2> QED BY <1>9, <2>1
  <1>11. ASSUME NEW k \in N PROVE k + 1 \in N
    <2> SUFFICES ASSUME k + 1 <= n PROVE H[k + 1] \in Seq(R) /\ Members(H[k + 1]) = Upto(k + 1) \ S
      OBVIOUS
    <2>1. k \in Nat /\ k + 1 \in 1..n /\ H[k] \in Seq(R) /\ Members(H[k]) = Upto(k) \ S /\ k + 1 - 1 = k
      BY <1>1
    <2>2. H[k + 1] = Step(k + 1, H[k])
      BY <1>9, <2>1
    <2>3. Upto(k + 1) = Upto(k) \cup {s[k + 1]}
      BY <2>1
    <2> HIDE DEF Upto, N
    <2>4. CASE s[k + 1] \in S
      BY <2>1, <2>2, <2>3, <2>4 DEF Step
    <2>5. CASE s[k + 1] \notin S
      <3>1. H[k + 1] = Append(H[k], s[k + 1])
        BY <2>2, <2>5 DEF Step
      <3>2. Members(Append(H[k], s[k + 1])) = Members(H[k]) \cup {s[k + 1]}
        BY <2>1, AppendMembers
      <3>3. Append(H[k], s[k + 1]) \in Seq(R)
        BY <1>1, <2>1
      <3> QED BY <2>1, <2>3, <2>5, <3>1, <3>2, <3>3
    <2> QED BY <2>4, <2>5
  <1>12. N = Nat
    <2> HIDE DEF N
    <2>1. N \subseteq Nat
      BY DEF N
    <2> QED BY <1>10, <1>11, <2>1, Climb
  <1>13. H[n] \in Seq(R) /\ Members(H[n]) = Upto(n) \ S
    <2>1. n \in N
      BY <1>1, <1>12
    <2> HIDE DEF Upto
    <2> QED BY <1>1, <2>1
  <1>14. Upto(n) = Members(s)
    BY DEF Members, n
  <1> HIDE DEF N, Upto
  <1> QED BY <1>2, <1>13, <1>14

\* The bounds of Min and Max of what the code compares.
LEMMA MinTwo ==
  ASSUME NEW a \in Nat, NEW b \in Nat
  PROVE  Min({a, b}) = IF a <= b THEN a ELSE b
  <1>1. Min({a, b}) \in {a, b} /\ \A y \in {a, b} : Min({a, b}) <= y
    <2>1. {a, b} \in SUBSET Nat /\ {a, b} # {}
      OBVIOUS
    <2> QED BY <2>1, Least
  <1> QED BY <1>1

LEMMA MaxUpTo ==
  ASSUME NEW n \in Nat, NEW S \in SUBSET (0..n), 0 \in S
  PROVE  Max(S) \in S /\ Max(S) \in 0..n /\ \A y \in S : Max(S) >= y
  <1>1. IsFiniteSet(0..n)
    BY FS_Interval
  <1>2. IsFiniteSet(S)
    BY <1>1, FS_Subset, Zenon
  <1>3. S \in SUBSET Int /\ S # {}
    OBVIOUS
  <1>4. Max(S) \in S /\ \A y \in S : Max(S) >= y
    BY <1>2, <1>3, Greatest
  <1> QED BY <1>4

\* The common prefix is common and within both.
LEMMA CommonPrefixCommon ==
  ASSUME NEW a \in Seq(Nat), NEW b \in Seq(Nat)
  PROVE  /\ CommonPrefix(a, b) \in Nat
         /\ CommonPrefix(a, b) <= Len(a) /\ CommonPrefix(a, b) <= Len(b)
         /\ \A i \in 1..CommonPrefix(a, b) : a[i] = b[i]
  <1> DEFINE m == Min({Len(a), Len(b)})
             S == {n \in 0..m : \A i \in 1..n : a[i] = b[i]}
  <1>1. m \in Nat /\ m <= Len(a) /\ m <= Len(b)
    <2>1. Len(a) \in Nat /\ Len(b) \in Nat
      OBVIOUS
    <2>2. m = IF Len(a) <= Len(b) THEN Len(a) ELSE Len(b)
      BY <2>1, MinTwo
    <2> HIDE DEF m
    <2> QED BY <2>1, <2>2
  <1> HIDE DEF m
  <1>2. 0 \in S /\ S \in SUBSET (0..m)
    BY <1>1
  <1>3. Max(S) \in S /\ Max(S) \in 0..m
    <2> HIDE DEF S
    <2> QED BY <1>1, <1>2, MaxUpTo
  <1>4. CommonPrefix(a, b) = Max(S)
    BY DEF CommonPrefix, m
  <1> QED BY <1>1, <1>3, <1>4

LEMMA ReusableTokensCommon ==
  ASSUME NEW t \in TaskType
  PROVE  /\ ReusableTokens(t) \in Nat
         /\ ReusableTokens(t) <= Len(t.last) /\ ReusableTokens(t) <= Len(t.prompt)
         /\ \A i \in 1..ReusableTokens(t) : t.last[i] = t.prompt[i]
  <1>1. t.last \in Seq(Nat) /\ t.prompt \in Seq(Nat)
    BY DEF TaskType
  <1> DEFINE n == CommonPrefix(t.last, t.prompt)
  <1>2. n \in Nat /\ n <= Len(t.last) /\ n <= Len(t.prompt) /\ \A i \in 1..n : t.last[i] = t.prompt[i]
    BY <1>1, CommonPrefixCommon
  <1> HIDE DEF n
  <1>3. ReusableTokens(t) = IF n >= Len(t.prompt) /\ n > 0 THEN n - 1 ELSE n
    BY DEF ReusableTokens, n
  <1> QED BY <1>1, <1>2, <1>3

\* Eviction empties sequences that are not kept and touches no other.
\* Eviction, one sequence after the other.
Evicting(H, keep, cells, reserved, required) ==
    /\ H[0] = cells /\ H[rig.slots] = Evict(keep, cells, reserved, required)
    /\ \A i \in 1..rig.slots : /\ H[i - 1] \in [1..rig.slots -> Seq(Nat)]
                                /\ H[i] \in [1..rig.slots -> Seq(Nat)]
                                /\ H[i] = EvictOne(keep, H[i - 1], reserved, required, i)
LEMMA EvictSteps ==
  ASSUME CacheTyped, NEW keep, NEW cells \in [1..rig.slots -> Seq(Nat)], NEW reserved, NEW required
  PROVE  \E H : Evicting(H, keep, cells, reserved, required)
  <1> DEFINE n == rig.slots
             T == [1..n -> Seq(Nat)]
             Step(i, c) == EvictOne(keep, c, reserved, required, i)
             Solves(F) == F = [i \in 0..n |-> IF i = 0 THEN cells ELSE Step(i, F[i - 1])]
             H == CHOOSE F : Solves(F)
             G == [p \in (1..n) \X T |-> Step(p[1], p[2])]
  <1>1. n \in Nat /\ cells \in T
    BY RigAssumption DEF CacheTyped
  <1>2. Evict(keep, cells, reserved, required) = H[n]
    BY DEF Evict
  <1> HIDE DEF n
  <1>3. ASSUME NEW i \in 1..n, NEW c \in T PROVE Step(i, c) \in T
    <2>1. CASE Step(i, c) = c
      BY <2>1
    <2>2. CASE Step(i, c) = [c EXCEPT ![i] = <<>>]
      <3>1. [c EXCEPT ![i] = <<>>] \in [1..n -> Seq(Nat)]
        OBVIOUS
      <3> QED BY <2>2, <3>1
    <2> QED BY <2>1, <2>2 DEF EvictOne
  <1> HIDE DEF Step, T
  <1>4. G \in [(1..n) \X T -> T]
    BY <1>3
  <1>5. PICK F : Iterates(F, T, cells, n, G)
    <2> HIDE DEF G
    <2> QED BY <1>1, <1>4, Folded, Zenon
  <1>6. ASSUME NEW i \in 1..n PROVE F[i] = Step(i, F[i - 1])
    <2>1. i - 1 \in 0..n /\ F[i - 1] \in T
      BY <1>1, <1>5 DEF Iterates
    <2>2. <<i, F[i - 1]>> \in (1..n) \X T
      BY <2>1
    <2>3. G[<<i, F[i - 1]>>] = Step(i, F[i - 1])
      BY <2>2
    <2> QED BY <1>5, <2>3 DEF Iterates
  <1>7. Solves(F)
    BY <1>1, <1>5, <1>6 DEF Iterates
  <1> HIDE DEF G
  <1>8. Solves(H)
    <2> HIDE DEF Solves
    <2> QED BY <1>7
  <1>9. H[0] = cells /\ \A i \in 1..n : H[i] = Step(i, H[i - 1])
    <2> HIDE DEF H
    <2> QED BY <1>1, <1>8
  <1> HIDE DEF H, Solves
  <1>10. \A k \in 0..n : H[k] \in T
    <2>1. ASSUME NEW k \in 0..n PROVE H[k] \in T
      <3>1. k \in Nat /\ \A i \in 1..k : H[i - 1] \in T => H[i] \in T
        BY <1>1, <1>3, <1>9
      <3> QED BY <1>1, <1>9, <3>1, StepsStay, Zenon
    <2> QED BY <2>1
  <1>11. \A i \in 1..n : H[i - 1] \in T /\ H[i] \in T /\ H[i] = Step(i, H[i - 1])
    BY <1>1, <1>9, <1>10
  <1>12. Evicting(H, keep, cells, reserved, required)
    BY <1>2, <1>9, <1>11 DEF n, T, Step, Evicting
  <1> QED BY <1>12

\* It takes whole sequences, and none that is protected.
LEMMA EvictSome ==
  ASSUME CacheTyped, NEW keep, NEW cells \in [1..rig.slots -> Seq(Nat)], NEW reserved, NEW required
  PROVE  /\ Evict(keep, cells, reserved, required) \in [1..rig.slots -> Seq(Nat)]
         /\ \A s \in 1..rig.slots : LET c == Evict(keep, cells, reserved, required)[s]
                                    IN  c = cells[s] \/ (s \notin keep /\ c = <<>>)
  <1> DEFINE n == rig.slots
             Part(c) == \A s \in 1..n : c[s] = cells[s] \/ (s \notin keep /\ c[s] = <<>>)
             T == {c \in [1..n -> Seq(Nat)] : Part(c)}
  <1>1. n \in Nat /\ cells \in T
    BY RigAssumption DEF CacheTyped
  <1>2. PICK H : Evicting(H, keep, cells, reserved, required)
    BY EvictSteps
  <1>3. /\ H[0] = cells /\ H[n] = Evict(keep, cells, reserved, required)
        /\ \A i \in 1..n : /\ H[i - 1] \in [1..n -> Seq(Nat)] /\ H[i] \in [1..n -> Seq(Nat)]
                            /\ H[i] = EvictOne(keep, H[i - 1], reserved, required, i)
    BY <1>2 DEF Evicting
  <1> HIDE DEF n
  <1>4. ASSUME NEW i \in 1..n, H[i - 1] \in T PROVE H[i] \in T
    <2>1. H[i] = H[i - 1] \/ (i \notin keep /\ H[i] = [H[i - 1] EXCEPT ![i] = <<>>])
      BY <1>3, Zenon DEF EvictOne
    <2>2. CASE i \notin keep /\ H[i] = [H[i - 1] EXCEPT ![i] = <<>>]
      <3>1. \A s \in 1..n : H[i][s] = H[i - 1][s] \/ (s = i /\ H[i][s] = <<>>)
        BY <1>3, <2>2
      <3> QED BY <1>3, <1>4, <2>2, <3>1
    <2> QED BY <1>3, <1>4, <2>1, <2>2
  <1> HIDE DEF T
  <1>5. H[n] \in T
    <2>1. H[0] \in T
      BY <1>1, <1>3
    <2>2. \A i \in 1..n : H[i - 1] \in T => H[i] \in T
      BY <1>4
    <2> QED BY <1>1, <2>1, <2>2, StepsStay, Zenon
  <1> QED BY <1>3, <1>5 DEF T, n

Admitted(tasks) == {r \in Members(tasks) : task[r].admitted}
AdmissionType == [admitted : SUBSET Requests, cells : [1..rig.slots -> Seq(Nat)], rejected : SUBSET Requests,
                  full : BOOLEAN, runnable : Seq(Requests)]
\* A round of admission so far: nobody is both admitted and rejected, and no
\* cell of a task that was admitted before is evicted.
Sound(tasks, a) ==
    /\ Admitted(tasks) \subseteq a.admitted /\ a.admitted \subseteq Members(tasks)
    /\ Members(a.runnable) \subseteq a.admitted
    /\ \A q \in a.rejected : Reservation(q) > rig.capacity /\ q \notin Admitted(tasks)
    /\ \A q \in a.admitted \ Admitted(tasks) : ~(Reservation(q) > rig.capacity)
    /\ \A s \in 1..rig.slots :
         \/ a.cells[s] = kv[s]
         \/ a.cells[s] = <<>> /\ \A x \in Admitted(tasks) : task[x].seq # s

LEMMA AdmitOneSound ==
  ASSUME Typed, NEW tasks \in Seq(Requests), NEW a \in AdmissionType, Sound(tasks, a),
         NEW r \in Members(tasks)
  PROVE  AdmitOne(a, r) \in AdmissionType /\ Sound(tasks, AdmitOne(a, r))
  <1> DEFINE required == Reservation(r)
             reserved == Sum(a.admitted, Reservation)
             keep == {task[x].seq : x \in a.admitted \cup {r}}
             left == Evict(keep, a.cells, reserved, required)
             b == AdmitOne(a, r)
  <1> SUFFICES b \in AdmissionType /\ Sound(tasks, b)
    OBVIOUS
  <1>0. r \in Requests
    BY DEF Members
  <1>1. CASE b = a
    BY <1>1
  <1>2. CASE r \notin a.admitted /\ required > rig.capacity /\ b = [a EXCEPT !.rejected = @ \cup {r}]
    <2>1. b \in AdmissionType
      BY <1>0, <1>2 DEF AdmissionType
    <2>2. /\ b.admitted = a.admitted /\ b.cells = a.cells /\ b.runnable = a.runnable
          /\ b.rejected = a.rejected \cup {r}
      BY <1>2 DEF AdmissionType
    <2> HIDE DEF b
    <2> QED BY <1>2, <2>1, <2>2 DEF Sound
  <1>3. CASE b = [a EXCEPT !.full = TRUE]
    <2>1. b \in AdmissionType
      BY <1>3 DEF AdmissionType
    <2>2. /\ b.admitted = a.admitted /\ b.cells = a.cells /\ b.runnable = a.runnable
          /\ b.rejected = a.rejected
      BY <1>3 DEF AdmissionType
    <2> HIDE DEF b
    <2> QED BY <2>1, <2>2 DEF Sound
  <1>4. CASE /\ r \notin a.admitted /\ ~(required > rig.capacity)
             /\ b = [a EXCEPT !.admitted = @ \cup {r}, !.cells = left, !.runnable = Append(@, r)]
    <2>1. a.cells \in [1..rig.slots -> Seq(Nat)]
      BY DEF AdmissionType
    <2>2. /\ left \in [1..rig.slots -> Seq(Nat)]
          /\ \A s \in 1..rig.slots : left[s] = a.cells[s] \/ (s \notin keep /\ left[s] = <<>>)
      <3> HIDE DEF keep, reserved, required
      <3>1. CacheTyped
        BY DEF Typed
      <3>2. left \in [1..rig.slots -> Seq(Nat)]
        BY <2>1, <3>1, EvictSome
      <3> QED BY <2>1, <3>1, <3>2, EvictSome
    <2> HIDE DEF left
    <2>3. Append(a.runnable, r) \in Seq(Requests) /\ a.runnable \in Seq(Requests)
      BY <1>0 DEF AdmissionType
    <2>4. b \in AdmissionType
      BY <1>0, <1>4, <2>2, <2>3, ZenonT(60) DEF AdmissionType
    <2>5. /\ b.admitted = a.admitted \cup {r} /\ b.cells = left /\ b.runnable = Append(a.runnable, r)
          /\ b.rejected = a.rejected
      BY <1>4 DEF AdmissionType
    <2>6. Members(b.runnable) = Members(a.runnable) \cup {r}
      BY <2>3, <2>5, AppendMembers
    <2> HIDE DEF b
    <2>7. \A s \in 1..rig.slots :
            \/ b.cells[s] = kv[s]
            \/ b.cells[s] = <<>> /\ \A x \in Admitted(tasks) : task[x].seq # s
      <3> SUFFICES ASSUME NEW s \in 1..rig.slots, left[s] # kv[s]
                   PROVE  left[s] = <<>> /\ \A x \in Admitted(tasks) : task[x].seq # s
        BY <2>5
      <3>1. CASE left[s] = a.cells[s]
        BY <3>1 DEF Sound
      <3>2. CASE s \notin keep /\ left[s] = <<>>
        BY <3>2 DEF Sound
      <3> QED BY <2>2, <3>1, <3>2
    <2>8. /\ Admitted(tasks) \subseteq b.admitted /\ b.admitted \subseteq Members(tasks)
          /\ Members(b.runnable) \subseteq b.admitted
          /\ \A q \in b.rejected : Reservation(q) > rig.capacity /\ q \notin Admitted(tasks)
          /\ \A q \in b.admitted \ Admitted(tasks) : ~(Reservation(q) > rig.capacity)
      BY <1>4, <2>5, <2>6 DEF Sound
    <2> QED BY <2>4, <2>7, <2>8 DEF Sound
  <1> QED BY <1>1, <1>2, <1>3, <1>4 DEF AdmitOne

\* How a round of admission starts, and what every step of it keeps.
NoneYet(tasks) ==
    LET in == {r \in Members(tasks) : task[r].admitted}
    IN  [admitted |-> in, cells |-> kv, rejected |-> {}, full |-> FALSE,
         runnable |-> Without(tasks, {r \in Requests : r \notin in \/ Off(r)})]
LEMMA AdmissionStays ==
  ASSUME NEW tasks \in Seq(Requests), NEW T, NoneYet(tasks) \in T,
         \A r \in Members(tasks) : \A a \in T : AdmitOne(a, r) \in T
  PROVE  Admission(tasks) \in T
  <1> DEFINE n == Len(tasks)
             none == NoneYet(tasks)
             Step(i, a) == AdmitOne(a, tasks[i])
             Solves(F) == F = [i \in 0..n |-> IF i = 0 THEN none ELSE Step(i, F[i - 1])]
             H == CHOOSE F : Solves(F)
             G == [p \in (1..n) \X T |-> Step(p[1], p[2])]
  <1>1. none \in T
    OBVIOUS
  <1>2. n \in Nat
    OBVIOUS
  <1>3. Admission(tasks) = H[n]
    BY DEF Admission, NoneYet
  <1> HIDE DEF none
  <1>4. ASSUME NEW i \in 1..n, NEW a \in T PROVE Step(i, a) \in T
    <2>1. tasks[i] \in Members(tasks)
      BY DEF Members
    <2> QED BY <2>1
  <1> HIDE DEF Step, n
  <1>5. G \in [(1..n) \X T -> T]
    BY <1>4
  <1>6. PICK F : Iterates(F, T, none, n, G)
    <2> HIDE DEF G
    <2> QED BY <1>1, <1>2, <1>5, Folded, Zenon
  <1>7. ASSUME NEW i \in 1..n PROVE F[i] = Step(i, F[i - 1])
    <2>1. i - 1 \in 0..n /\ F[i - 1] \in T
      BY <1>2, <1>6 DEF Iterates
    <2>2. <<i, F[i - 1]>> \in (1..n) \X T
      BY <2>1
    <2>3. G[<<i, F[i - 1]>>] = Step(i, F[i - 1])
      BY <2>2
    <2> QED BY <1>6, <2>3 DEF Iterates
  <1>8. Solves(F)
    BY <1>2, <1>6, <1>7 DEF Iterates
  <1> HIDE DEF G
  <1>9. Solves(H)
    <2> HIDE DEF Solves
    <2> QED BY <1>8
  <1>10. H[0] = none /\ \A i \in 1..n : H[i] = Step(i, H[i - 1])
    <2> HIDE DEF H
    <2> QED BY <1>2, <1>9
  <1> HIDE DEF H, Solves
  <1>11. \A i \in 1..n : H[i - 1] \in T => H[i] \in T
    BY <1>4, <1>10
  <1>12. H[n] \in T
    BY <1>1, <1>2, <1>10, <1>11, StepsStay, Zenon
  <1> QED BY <1>3, <1>12

LEMMA NoneYetSound ==
  ASSUME Typed, NEW tasks \in Seq(Requests)
  PROVE  LET none == NoneYet(tasks)
         IN  /\ none \in AdmissionType /\ Sound(tasks, none)
             /\ none.admitted = Admitted(tasks) /\ none.cells = kv
             /\ Members(none.runnable) = {r \in Admitted(tasks) : ~Off(r)}
  <1> DEFINE in == {r \in Members(tasks) : task[r].admitted}
             w == Without(tasks, {r \in Requests : r \notin in \/ Off(r)})
             none == [admitted |-> in, cells |-> kv, rejected |-> {}, full |-> FALSE, runnable |-> w]
  <1>1. w \in Seq(Requests) /\ Members(w) = Members(tasks) \ {r \in Requests : r \notin in \/ Off(r)}
    BY WithoutMembers
  <1>2. Members(tasks) \subseteq Requests
    BY DEF Members
  <1>3. Members(w) = {r \in in : ~Off(r)}
    BY <1>1, <1>2
  <1> HIDE DEF w
  <1>4. none \in AdmissionType
    BY <1>1, <1>2 DEF AdmissionType, Typed, CacheTyped
  <1>5. Admitted(tasks) = in /\ NoneYet(tasks) = none
    BY DEF Admitted, NoneYet, w
  <1> HIDE DEF in
  <1>6. none.admitted = in /\ none.cells = kv /\ none.rejected = {} /\ none.runnable = w
    OBVIOUS
  <1>7. Sound(tasks, none)
    <2> HIDE DEF none
    <2>1. in \subseteq Members(tasks)
      BY DEF in
    <2>2. Members(w) \subseteq in
      BY <1>3
    <2> QED BY <1>5, <1>6, <2>1, <2>2 DEF Sound
  <1> QED BY <1>3, <1>4, <1>5, <1>6, <1>7

\* A whole round of admission.
LEMMA AdmissionSound ==
  ASSUME Typed, NEW tasks \in Seq(Requests)
  PROVE  Admission(tasks) \in AdmissionType /\ Sound(tasks, Admission(tasks))
  <1> DEFINE T == {a \in AdmissionType : Sound(tasks, a)}
  <1>1. NoneYet(tasks) \in T
    BY NoneYetSound
  <1>2. \A r \in Members(tasks) : \A a \in T : AdmitOne(a, r) \in T
    BY AdmitOneSound
  <1> HIDE DEF T
  <1>3. Admission(tasks) \in T
    BY <1>1, <1>2, AdmissionStays
  <1> QED BY <1>3 DEF T

\* Sorting keeps to the requests.
LEMMA InsertType ==
  ASSUME NEW s \in Seq(Requests), NEW r \in Requests
  PROVE  Insert(s, r) \in Seq(Requests)
  <1> DEFINE after == {q \in Requests : task[q].seq > task[r].seq}
             low == Without(s, after)
             high == Without(s, Requests \ after)
  <1>1. low \in Seq(Requests) /\ high \in Seq(Requests)
    BY WithoutMembers
  <1>2. Insert(s, r) = Append(low, r) \o high
    BY DEF Insert
  <1> HIDE DEF low, high
  <1> QED BY <1>1, <1>2

LEMMA BySlotType ==
  ASSUME NEW s \in Seq(Requests)
  PROVE  BySlot(s) \in Seq(Requests)
  <1> DEFINE n == Len(s)
             none == <<>>
             T == Seq(Requests)
             Step(i, q) == Insert(q, s[i])
             Solves(F) == F = [i \in 0..n |-> IF i = 0 THEN none ELSE Step(i, F[i - 1])]
             H == CHOOSE F : Solves(F)
             G == [p \in (1..n) \X T |-> Step(p[1], p[2])]
  <1>1. none \in T /\ n \in Nat
    OBVIOUS
  <1>2. BySlot(s) = H[n]
    BY DEF BySlot
  <1> HIDE DEF none
  <1>3. ASSUME NEW i \in 1..n, NEW q \in T PROVE Step(i, q) \in T
    BY InsertType
  <1> HIDE DEF Step, T, n
  <1>4. G \in [(1..n) \X T -> T]
    BY <1>3
  <1>5. PICK F : Iterates(F, T, none, n, G)
    <2> HIDE DEF G
    <2> QED BY <1>1, <1>4, Folded, Zenon
  <1>6. ASSUME NEW i \in 1..n PROVE F[i] = Step(i, F[i - 1])
    <2>1. i - 1 \in 0..n /\ F[i - 1] \in T
      BY <1>1, <1>5 DEF Iterates
    <2>2. <<i, F[i - 1]>> \in (1..n) \X T
      BY <2>1
    <2>3. G[<<i, F[i - 1]>>] = Step(i, F[i - 1])
      BY <2>2
    <2> QED BY <1>5, <2>3 DEF Iterates
  <1>7. Solves(F)
    BY <1>1, <1>5, <1>6 DEF Iterates
  <1> HIDE DEF G
  <1>8. Solves(H)
    <2> HIDE DEF Solves
    <2> QED BY <1>7
  <1>9. H[0] = none /\ \A i \in 1..n : H[i] = Step(i, H[i - 1])
    <2> HIDE DEF H
    <2> QED BY <1>1, <1>8
  <1> HIDE DEF H, Solves
  <1>10. \A i \in 1..n : H[i - 1] \in T => H[i] \in T
    BY <1>3, <1>9
  <1>11. H[n] \in T
    BY <1>1, <1>9, <1>10, StepsStay, Zenon
  <1> QED BY <1>2, <1>11 DEF T

LEMMA RotatedType ==
  ASSUME Typed, NEW s \in Seq(Requests)
  PROVE  Rotated(s) \in Seq(Requests)
  <1>1. CASE s = <<>>
    BY <1>1 DEF Rotated
  <1>2. CASE s # <<>>
    <2> DEFINE k == turn % Len(s)
    <2>1. Len(s) \in Nat /\ Len(s) > 0 /\ turn \in Nat
      BY <1>2 DEF Typed, ThreadTyped
    <2>2. k \in 0..(Len(s) - 1)
      BY <2>1
    <2> HIDE DEF k
    <2>3. SubSeq(s, k + 1, Len(s)) \in Seq(Requests) /\ SubSeq(s, 1, k) \in Seq(Requests)
      <3>1. \A i \in (k + 1)..Len(s) : s[i] \in Requests
        BY <2>1, <2>2
      <3>2. \A i \in 1..k : s[i] \in Requests
        BY <2>1, <2>2
      <3> QED BY <2>1, <2>2, <3>1, <3>2
    <2>4. Rotated(s) = SubSeq(s, k + 1, Len(s)) \o SubSeq(s, 1, k)
      BY <1>2 DEF Rotated, k
    <2> HIDE DEF k
    <2> QED BY <2>3, <2>4
  <1> QED BY <1>1, <1>2

LEMMA BatchOrderType ==
  ASSUME Typed, NEW s \in Seq(Requests), NEW capacity
  PROVE  BatchOrder(s, capacity).order \in Seq(Requests)
  <1> DEFINE order == Rotated(s)
             decodes == Without(order, {r \in Requests : ~task[r].promptDone})
             prompts == Without(order, {r \in Requests : task[r].promptDone})
  <1>1. order \in Seq(Requests)
    BY RotatedType
  <1> HIDE DEF order
  <1>2. decodes \in Seq(Requests) /\ prompts \in Seq(Requests)
    BY <1>1, WithoutMembers
  <1> HIDE DEF decodes, prompts
  <1>3. BySlot(decodes) \in Seq(Requests) /\ BySlot(prompts) \in Seq(Requests)
    BY <1>2, BySlotType, Zenon
  <1>4. \E x \in {decodes, BySlot(decodes)}, y \in {prompts, BySlot(prompts)} :
          BatchOrder(s, capacity).order = x \o y
    BY Zenon DEF BatchOrder, order, decodes, prompts
  <1>5. \A x \in {decodes, BySlot(decodes)}, y \in {prompts, BySlot(prompts)} : x \o y \in Seq(Requests)
    <2>1. \A x, y \in Seq(Requests) : x \o y \in Seq(Requests)
      OBVIOUS
    <2> QED BY <1>2, <1>3, <2>1
  <1> QED BY <1>4, <1>5

\* How much of each task a batch may take.
PackType(share) == [used : Nat, take : [Requests -> Nat], share : {share}]
Within(take) == \A r \in Requests : take[r] > 0 =>
    task[r].initialized /\ (~task[r].promptDone => task[r].promptPos + take[r] <= Len(task[r].prompt))

LEMMA ChunkWithin ==
  ASSUME Typed, Metered, NEW r \in Requests, NEW space, NEW share
  PROVE  Chunk(r, space, share) \in Nat /\ task[r].promptPos + Chunk(r, space, share) <= Len(task[r].prompt)
  <1> DEFINE t == task[r]
             stays(n, p) == p > t.promptPos => t.promptPos + n <= p
             left == Len(t.prompt) - t.promptPos
             S == {0} \cup {n \in 1..left : /\ n <= space /\ n <= share
                                            /\ stays(n, t.capture) /\ (t.eligible => stays(n, t.capture - 1))}
  <1>1. Len(t.prompt) \in Nat /\ t.promptPos \in Nat /\ left \in Nat
    BY DEF Typed, CallersTyped, TaskType, Metered
  <1>2. Chunk(r, space, share) = Max(S)
    BY DEF Chunk
  <1> HIDE DEF stays
  <1>3. S \in SUBSET (0..left) /\ 0 \in S
    BY <1>1
  <1> HIDE DEF S
  <1>4. Max(S) \in 0..left
    <2> HIDE DEF left
    <2> QED BY <1>1, <1>3, MaxUpTo
  <1> QED BY <1>1, <1>2, <1>4

LEMMA PackWithin ==
  ASSUME Typed, Metered, NEW share, NEW b \in PackType(share), Within(b.take), NEW r \in Requests
  PROVE  Pack(b, r) \in PackType(share) /\ Within(Pack(b, r).take)
  <1> DEFINE space == rig.batch - b.used
             chunk == Chunk(r, space, b.share)
             size == IF ~task[r].promptDone THEN chunk
                     ELSE IF DecodeTokens(r) <= space THEN DecodeTokens(r) ELSE 0
             c == Pack(b, r)
  <1> SUFFICES c \in PackType(share) /\ Within(c.take)
    OBVIOUS
  <1>1. chunk \in Nat /\ task[r].promptPos + chunk <= Len(task[r].prompt)
    BY ChunkWithin
  <1> HIDE DEF chunk
  <1>2. DecodeTokens(r) \in Nat
    BY DEF DecodeTokens, Typed, CallersTyped, TaskType
  <1>3. size \in Nat /\ (~task[r].promptDone => size = chunk)
    BY <1>1, <1>2
  <1>4. CASE c = b
    BY <1>4
  <1>5. CASE task[r].initialized /\ c = [b EXCEPT !.used = @ + size, !.take[r] = size]
    <2> HIDE DEF size
    <2>1. c \in PackType(share)
      <3>1. b.used + size \in Nat /\ [b.take EXCEPT ![r] = size] \in [Requests -> Nat]
        BY <1>3 DEF PackType
      <3> DEFINE u == b.used + size
                 k == [b.take EXCEPT ![r] = size]
      <3>2. c = [b EXCEPT !.used = u, !.take = k]
        BY <1>5 DEF PackType
      <3> HIDE DEF u, k, c
      <3>3. u \in Nat /\ k \in [Requests -> Nat]
        BY <3>1 DEF u, k
      <3> QED BY <3>2, <3>3 DEF PackType
    <2>2. c.take[r] = size /\ \A q \in Requests : q # r => c.take[q] = b.take[q]
      BY <1>5 DEF PackType
    <2> HIDE DEF c
    <2>3. Within(c.take)
      BY <1>1, <1>3, <1>5, <2>2 DEF Within
    <2> QED BY <2>1, <2>3
  <1> QED BY <1>4, <1>5 DEF Pack, chunk

LEMMA PackedWithin ==
  ASSUME Typed, Metered, NEW order \in Seq(Requests), NEW share
  PROVE  Packed(order, share) \in PackType(share) /\ Within(Packed(order, share).take)
  <1> DEFINE n == Len(order)
             none == [used |-> 0, take |-> NoWork.take, share |-> share]
             T == {b \in PackType(share) : Within(b.take)}
             Step(i, b) == Pack(b, order[i])
             Solves(F) == F = [i \in 0..n |-> IF i = 0 THEN none ELSE Step(i, F[i - 1])]
             H == CHOOSE F : Solves(F)
             G == [p \in (1..n) \X T |-> Step(p[1], p[2])]
  <1>1. none \in T /\ n \in Nat
    <2>1. NoWork.take = [r \in Requests |-> 0]
      BY DEF NoWork
    <2>2. none \in PackType(share)
      BY <2>1 DEF PackType
    <2>3. Within(none.take)
      BY <2>1 DEF Within
    <2> QED BY <2>2, <2>3
  <1>2. Packed(order, share) = H[n]
    BY DEF Packed
  <1> HIDE DEF none
  <1>3. ASSUME NEW i \in 1..n, NEW b \in T PROVE Step(i, b) \in T
    BY PackWithin
  <1> HIDE DEF Step, T, n
  <1>4. G \in [(1..n) \X T -> T]
    BY <1>3
  <1>5. PICK F : Iterates(F, T, none, n, G)
    <2> HIDE DEF G
    <2> QED BY <1>1, <1>4, Folded, Zenon
  <1>6. ASSUME NEW i \in 1..n PROVE F[i] = Step(i, F[i - 1])
    <2>1. i - 1 \in 0..n /\ F[i - 1] \in T
      BY <1>1, <1>5 DEF Iterates
    <2>2. <<i, F[i - 1]>> \in (1..n) \X T
      BY <2>1
    <2>3. G[<<i, F[i - 1]>>] = Step(i, F[i - 1])
      BY <2>2
    <2> QED BY <1>5, <2>3 DEF Iterates
  <1>7. Solves(F)
    BY <1>1, <1>5, <1>6 DEF Iterates
  <1> HIDE DEF G
  <1>8. Solves(H)
    <2> HIDE DEF Solves
    <2> QED BY <1>7
  <1>9. H[0] = none /\ \A i \in 1..n : H[i] = Step(i, H[i - 1])
    <2> HIDE DEF H
    <2> QED BY <1>1, <1>8
  <1> HIDE DEF H, Solves
  <1>10. \A i \in 1..n : H[i - 1] \in T => H[i] \in T
    BY <1>3, <1>9
  <1>11. H[n] \in T
    BY <1>1, <1>9, <1>10, StepsStay, Zenon
  <1> QED BY <1>2, <1>11 DEF T

\* How much of an answer is pushed.
LEMMA PushedWithin ==
  ASSUME NEW answer \in Seq(Nat), NEW room \in Nat
  PROVE  /\ Pushed(answer, room) \in 0..Len(answer) /\ Pushed(answer, room) <= room
         /\ \A i \in 1..Pushed(answer, room) : answer[i] # Eog
  <1> DEFINE S == {n \in 0..Len(answer) : n <= room /\ \A i \in 1..n : answer[i] # Eog}
  <1>1. Len(answer) \in Nat /\ S \in SUBSET (0..Len(answer)) /\ 0 \in S
    OBVIOUS
  <1>2. Max(S) \in S
    <2> HIDE DEF S
    <2> QED BY <1>1, MaxUpTo
  <1>3. Pushed(answer, room) = Max(S)
    BY DEF Pushed
  <1> QED BY <1>2, <1>3

\* What a task keeps for as long as it runs.
Alike(t, u) ==
    /\ u.slot = t.slot /\ u.seq = t.seq /\ u.prompt = t.prompt /\ u.capture = t.capture /\ u.max = t.max
    /\ u.last = t.last /\ u.checkpoint = t.checkpoint /\ u.synced = t.synced
    /\ u.admitted = t.admitted /\ u.decoded = t.decoded

\* Pushing an answer.
LEMMA Emitted ==
  ASSUME NEW t \in TaskType, NEW answer \in Seq(Nat), t.generated < t.max
  PROVE  LET e == Emit(t, answer)
             n == Pushed(answer, t.max - t.generated)
         IN  /\ e.t \in TaskType /\ Alike(t, e.t)
             /\ e.t.initialized = t.initialized /\ e.t.eligible = t.eligible /\ e.t.spec = t.spec
             /\ e.t.outCheckpoint = t.outCheckpoint /\ e.t.outSynced = t.outSynced
             /\ e.t.promptPos = t.promptPos /\ e.t.promptDone = t.promptDone /\ e.t.nPos = t.nPos
             /\ e.t.queue = t.queue \o SubSeq(answer, 1, n)
             /\ e.t.generated = t.generated + n
             /\ e.over <=> (n = t.max - t.generated \/ n < Len(answer))
             /\ n < t.max - t.generated /\ n > 0 => e.t.lastToken = answer[n]
  <1> DEFINE room == t.max - t.generated
             n == Pushed(answer, room)
             known == IF n < room THEN n ELSE n - 1
             l == IF known = 0 THEN t.lastToken ELSE answer[known]
             q == t.queue \o SubSeq(answer, 1, n)
             g == t.generated + n
             e == Emit(t, answer)
  <1>1. /\ t.max \in Nat /\ t.generated \in Nat /\ room \in Nat /\ room > 0 /\ t.lastToken \in Nat
        /\ t.queue \in Seq(Event)
    BY DEF TaskType
  <1>2. e = [t |-> [t EXCEPT !.queue = q, !.generated = g, !.lastToken = l],
             over |-> n = room \/ n < Len(answer)]
    BY DEF Emit, EmitUpTo
  <1> HIDE DEF room
  <1>3. n \in 0..Len(answer) /\ n <= room
    BY <1>1, PushedWithin
  <1> HIDE DEF n
  <1>4. q \in Seq(Event)
    <2>1. SubSeq(answer, 1, n) \in Seq(Event)
      BY <1>3 DEF Event
    <2> QED BY <1>1, <2>1
  <1>5. g \in Nat
    BY <1>1, <1>3
  <1>6. l \in Nat /\ (n < room /\ n > 0 => l = answer[n])
    <2>1. known \in 0..Len(answer)
      BY <1>1, <1>3
    <2> HIDE DEF known
    <2>2. l \in Nat
      BY <1>1, <2>1
    <2>3. n < room => known = n
      BY DEF known
    <2> QED BY <1>1, <1>3, <2>2, <2>3
  <1> HIDE DEF q, g, l, e
  <1>7. e.t = [t EXCEPT !.queue = q, !.generated = g, !.lastToken = l]
    BY <1>2
  <1>8. e.t \in TaskType
    BY <1>4, <1>5, <1>6, <1>7, ZenonT(60) DEF TaskType
  <1>9. Alike(t, e.t)
    BY <1>7 DEF TaskType, Alike
  <1>10. /\ e.t.initialized = t.initialized /\ e.t.eligible = t.eligible /\ e.t.spec = t.spec
         /\ e.t.outCheckpoint = t.outCheckpoint /\ e.t.outSynced = t.outSynced
         /\ e.t.promptPos = t.promptPos /\ e.t.promptDone = t.promptDone /\ e.t.nPos = t.nPos
         /\ e.t.queue = q /\ e.t.generated = g /\ e.t.lastToken = l
    BY <1>7 DEF TaskType
  <1>11. e.over <=> (n = room \/ n < Len(answer))
    BY <1>2
  <1>12. /\ e.t \in TaskType /\ Alike(t, e.t)
         /\ e.t.initialized = t.initialized /\ e.t.eligible = t.eligible /\ e.t.spec = t.spec
         /\ e.t.outCheckpoint = t.outCheckpoint /\ e.t.outSynced = t.outSynced
         /\ e.t.promptPos = t.promptPos /\ e.t.promptDone = t.promptDone /\ e.t.nPos = t.nPos
         /\ e.t.queue = t.queue \o SubSeq(answer, 1, n)
         /\ e.t.generated = t.generated + n
         /\ e.over <=> (n = room \/ n < Len(answer))
         /\ n < room /\ n > 0 => e.t.lastToken = answer[n]
    BY <1>6, <1>8, <1>9, <1>10, <1>11 DEF q, g
  <1> QED BY <1>12, Zenon DEF e, n, room

\* What a model may answer.
LEMMA AnswerShape ==
  ASSUME Typed, NEW r \in Requests, NEW answer \in Answers(r), InBatch(r)
  PROVE  /\ answer \in Seq(Nat)
         /\ answer = <<>> => ~task[r].promptDone /\ task[r].promptPos + work.take[r] < Len(task[r].prompt)
         /\ answer # <<>> => /\ task[r].promptDone \/ ~(task[r].promptPos + work.take[r] < Len(task[r].prompt))
                             /\ Len(answer) >= 1 /\ Len(answer) <= Len(task[r].spec) + 1
                             /\ \A i \in 1..(Len(answer) - 1) : answer[i] = task[r].spec[i]
  <1>1. CASE ~task[r].promptDone /\ task[r].promptPos + work.take[r] < Len(task[r].prompt)
    <2>1. answer = <<>>
      BY <1>1 DEF Answers
    <2> QED BY <1>1, <2>1
  <1>2. CASE ~(~task[r].promptDone /\ task[r].promptPos + work.take[r] < Len(task[r].prompt))
    <2>1. PICK n \in 0..Len(task[r].spec), x \in rig.vocab \cup {Eog} :
            answer = SubSeq(task[r].spec, 1, n) \o <<x>>
      BY <1>2 DEF Answers
    <2>2. task[r].spec \in Seq(Nat) /\ x \in Nat
      <3>1. rig.vocab \subseteq Nat
        BY RigAssumption DEF Typed, CacheTyped
      <3>2. task[r].spec \in Seq(Nat)
        BY DEF Typed, CallersTyped, TaskType
      <3> QED BY <3>1, <3>2 DEF Eog
    <2>3. SubSeq(task[r].spec, 1, n) \in Seq(Nat) /\ Len(SubSeq(task[r].spec, 1, n)) = n
      BY <2>2
    <2>4. \A i \in 1..n : SubSeq(task[r].spec, 1, n)[i] = task[r].spec[i]
      BY <2>2
    <2>5. answer \in Seq(Nat) /\ Len(answer) = n + 1 /\ \A i \in 1..n : answer[i] = task[r].spec[i]
      BY <2>1, <2>2, <2>3, <2>4
    <2> QED BY <1>2, <2>5
  <1> QED BY <1>1, <1>2

\* One task in a batch: what is fed is in the cells, what is answered is pushed.
LEMMA AdvancedTask ==
  ASSUME Typed, Metered, NEW r \in Requests, NEW answer \in Answers(r), InBatch(r),
         pc = "decode", r \in Members(work.tasks), task[r].seq \in 1..rig.slots, task[r].generated < task[r].max
  PROVE  LET t == task[r]
             a == Advanced(r, answer)
             n == Pushed(answer, t.max - t.generated)
             kept == IF t.promptDone THEN Len(answer) ELSE work.take[r]
         IN  /\ a.t \in TaskType /\ Alike(t, a.t) /\ a.kv \in Seq(Nat)
             /\ a.kv = kv[t.seq] \o SubSeq(Fed(r), 1, kept) /\ Fed(r) \in Seq(Nat) /\ kept \in Nat /\ kept >= 1 /\ kept <= Len(Fed(r))
             /\ a.t.initialized = t.initialized /\ a.t.eligible = t.eligible /\ a.t.spec = t.spec
             /\ a.t.outSynced = t.outSynced
             /\ a.t.promptPos = IF t.promptDone THEN t.promptPos ELSE t.promptPos + kept
             /\ a.t.nPos = t.nPos + kept
             /\ a.t.promptDone <=> t.promptDone \/ answer # <<>>
             /\ a.t.queue = t.queue \o SubSeq(answer, 1, n)
             /\ a.t.generated = t.generated + n
             /\ a.over <=> (n = t.max - t.generated \/ n < Len(answer))
             /\ n < t.max - t.generated /\ n > 0 => a.t.lastToken = answer[n]
             /\ \/ a.t.outCheckpoint = t.outCheckpoint
                \/ /\ ~t.promptDone /\ t.promptPos + kept = t.capture
                   /\ a.t.outCheckpoint = [pos |-> t.capture, cells |-> a.kv, drafted |-> t.eligible]
  <1> DEFINE t == task[r]
             a == Advanced(r, answer)
             n == Pushed(answer, t.max - t.generated)
             fed == Fed(r)
             kept == IF t.promptDone THEN Len(answer) ELSE Len(fed)
             cells == kv[t.seq] \o SubSeq(fed, 1, kept)
             moved == [t EXCEPT !.nPos = @ + kept, !.promptPos = IF t.promptDone THEN @ ELSE @ + kept]
             caught == Captured(moved, cells)
             told == [caught EXCEPT !.promptDone = t.promptDone \/ answer # <<>>]
             out == Emit(told, answer)
  <1>1. a = [t |-> out.t, over |-> out.over, kv |-> cells]
    BY DEF Advanced
  <1>2. /\ t \in TaskType /\ t.promptPos \in Nat /\ t.nPos \in Nat /\ t.prompt \in Seq(Nat)
        /\ work.take[r] \in Nat /\ t.spec \in Seq(Nat) /\ t.lastToken \in Nat
        /\ t.promptDone \in BOOLEAN /\ t.eligible \in BOOLEAN /\ t.capture \in Nat
    BY DEF Typed, CallersTyped, TaskType, ThreadTyped, WorkType
  <1>3. answer \in Seq(Nat)
    BY AnswerShape
  <1>4. /\ fed \in Seq(Nat) /\ kept \in Nat /\ kept >= 1 /\ kept <= Len(fed)
        /\ ~t.promptDone => kept = work.take[r]
    <2>1. CASE t.promptDone
      <3>1. fed = <<t.lastToken>> \o t.spec
        BY <2>1 DEF Fed
      <3>2. fed \in Seq(Nat) /\ Len(fed) = 1 + Len(t.spec)
        BY <1>2, <3>1
      <3>3. Len(answer) >= 1 /\ Len(answer) <= Len(t.spec) + 1
        <4>1. answer # <<>>
          BY <2>1, AnswerShape
        <4> QED BY <4>1, AnswerShape
      <3>4. kept = Len(answer)
        BY <2>1
      <3> HIDE DEF fed, kept
      <3> QED BY <1>2, <1>3, <2>1, <3>2, <3>3, <3>4
    <2>2. CASE ~t.promptDone
      <3>1. t.promptPos + work.take[r] <= Len(t.prompt)
        BY <2>2 DEF Metered, InBatch
      <3>2. fed = SubSeq(t.prompt, t.promptPos + 1, t.promptPos + work.take[r])
        BY <2>2 DEF Fed
      <3>3. fed \in Seq(Nat) /\ Len(fed) = work.take[r]
        <4> DEFINE lo == t.promptPos
                   k == work.take[r]
        <4>1. lo \in Nat /\ k \in Nat /\ lo + k <= Len(t.prompt) /\ t.prompt \in Seq(Nat)
          BY <1>2, <3>1
        <4> HIDE DEF lo, k, fed, t
        <4>2. fed = SubSeq(t.prompt, lo + 1, lo + k)
          BY <3>2 DEF lo, k
        <4>3. fed \in Seq(Nat) /\ Len(fed) = k
          BY <4>1, <4>2
        <4> QED BY <4>3 DEF k
      <3> QED BY <1>2, <2>2, <3>3 DEF InBatch
    <2> QED BY <2>1, <2>2
  <1> HIDE DEF fed, kept
  <1>5. cells \in Seq(Nat)
    <2>1. kv[t.seq] \in Seq(Nat)
      BY DEF Typed, CacheTyped
    <2>2. SubSeq(fed, 1, kept) \in Seq(Nat)
      BY <1>4
    <2> QED BY <2>1, <2>2
  <1> HIDE DEF cells
  <1>6. /\ moved \in TaskType /\ Alike(t, moved) /\ moved.initialized = t.initialized
        /\ moved.eligible = t.eligible /\ moved.spec = t.spec /\ moved.outSynced = t.outSynced
        /\ moved.nPos = t.nPos + kept /\ moved.outCheckpoint = t.outCheckpoint
        /\ moved.promptPos = IF t.promptDone THEN t.promptPos ELSE t.promptPos + kept
        /\ moved.promptDone = t.promptDone /\ moved.queue = t.queue /\ moved.generated = t.generated
        /\ moved.lastToken = t.lastToken
    <2> DEFINE x == t.nPos + kept
               y == IF t.promptDone THEN t.promptPos ELSE t.promptPos + kept
    <2>1. moved = [t EXCEPT !.nPos = x, !.promptPos = y]
      <3> HIDE DEF t
      <3> QED BY <1>2 DEF TaskType, moved
    <2>2. x \in Nat /\ y \in Nat
      BY <1>2, <1>4, SMTT(30)
    <2> HIDE DEF x, y, moved, t
    <2>3. moved \in TaskType /\ moved.nPos = x /\ moved.promptPos = y
      BY <1>2, <2>1, <2>2 DEF TaskType
    <2>4. Alike(t, moved)
      BY <1>2, <2>1 DEF TaskType, Alike
    <2>5. /\ moved.initialized = t.initialized
          /\ moved.eligible = t.eligible /\ moved.spec = t.spec /\ moved.outSynced = t.outSynced
          /\ moved.outCheckpoint = t.outCheckpoint
          /\ moved.promptDone = t.promptDone /\ moved.queue = t.queue /\ moved.generated = t.generated
          /\ moved.lastToken = t.lastToken
      BY <1>2, <2>1 DEF TaskType
    <2> QED BY <2>3, <2>4, <2>5 DEF x, y
  <1> HIDE DEF moved
  <1>7. /\ caught \in TaskType /\ Alike(moved, caught)
        /\ caught.initialized = moved.initialized /\ caught.eligible = moved.eligible
        /\ caught.spec = moved.spec /\ caught.outSynced = moved.outSynced
        /\ caught.nPos = moved.nPos /\ caught.promptPos = moved.promptPos
        /\ caught.queue = moved.queue /\ caught.generated = moved.generated
        /\ caught.lastToken = moved.lastToken
        /\ \/ caught.outCheckpoint = moved.outCheckpoint
           \/ /\ ~moved.promptDone /\ moved.promptPos = moved.capture
              /\ caught.outCheckpoint = [pos |-> moved.capture, cells |-> cells, drafted |-> moved.eligible]
    <2>1. CASE caught = moved
      BY <1>6, <2>1 DEF Alike
    <2> DEFINE c == [pos |-> moved.capture, cells |-> cells, drafted |-> moved.eligible]
    <2>2. CASE ~moved.promptDone /\ moved.promptPos = moved.capture /\ caught = [moved EXCEPT !.outCheckpoint = c]
      <3>1. c \in Checkpoint
        BY <1>5, <1>6 DEF Checkpoint, TaskType
      <3> HIDE DEF c, caught
      <3>2. caught \in TaskType /\ Alike(moved, caught) /\ caught.outCheckpoint = c
        BY <1>6, <2>2, <3>1 DEF TaskType, Alike
      <3>3. /\ caught.initialized = moved.initialized /\ caught.eligible = moved.eligible
            /\ caught.spec = moved.spec /\ caught.outSynced = moved.outSynced
            /\ caught.nPos = moved.nPos /\ caught.promptPos = moved.promptPos
            /\ caught.queue = moved.queue /\ caught.generated = moved.generated
            /\ caught.lastToken = moved.lastToken
        BY <1>6, <2>2 DEF TaskType
      <3> QED BY <2>2, <3>2, <3>3 DEF c
    <2> QED BY <2>1, <2>2 DEF Captured
  <1> HIDE DEF caught
  <1>8. /\ told \in TaskType /\ Alike(caught, told)
        /\ told.initialized = caught.initialized /\ told.eligible = caught.eligible
        /\ told.spec = caught.spec /\ told.outSynced = caught.outSynced
        /\ told.outCheckpoint = caught.outCheckpoint
        /\ told.nPos = caught.nPos /\ told.promptPos = caught.promptPos
        /\ told.queue = caught.queue /\ told.generated = caught.generated
        /\ told.promptDone <=> t.promptDone \/ answer # <<>>
    <2> DEFINE d == t.promptDone \/ answer # <<>>
    <2>1. d \in BOOLEAN
      BY <1>2
    <2> HIDE DEF d
    <2>2. told = [caught EXCEPT !.promptDone = d]
      BY DEF d
    <2> HIDE DEF told
    <2>3. told \in TaskType /\ Alike(caught, told) /\ told.promptDone = d
      BY <1>7, <2>1, <2>2 DEF TaskType, Alike
    <2>4. /\ told.initialized = caught.initialized /\ told.eligible = caught.eligible
          /\ told.spec = caught.spec /\ told.outSynced = caught.outSynced
          /\ told.outCheckpoint = caught.outCheckpoint
          /\ told.nPos = caught.nPos /\ told.promptPos = caught.promptPos
          /\ told.queue = caught.queue /\ told.generated = caught.generated
      BY <1>7, <2>2 DEF TaskType
    <2> QED BY <2>3, <2>4 DEF d
  <1> HIDE DEF told
  <1>9. told.max = t.max /\ told.generated = t.generated /\ told.queue = t.queue
    BY <1>6, <1>7, <1>8 DEF Alike
  <1>10. /\ out.t \in TaskType /\ Alike(told, out.t)
         /\ out.t.initialized = told.initialized /\ out.t.eligible = told.eligible
         /\ out.t.spec = told.spec /\ out.t.outCheckpoint = told.outCheckpoint
         /\ out.t.outSynced = told.outSynced /\ out.t.promptPos = told.promptPos
         /\ out.t.promptDone = told.promptDone /\ out.t.nPos = told.nPos
         /\ out.t.queue = told.queue \o SubSeq(answer, 1, n)
         /\ out.t.generated = told.generated + n
         /\ out.over <=> (n = told.max - told.generated \/ n < Len(answer))
         /\ n < told.max - told.generated /\ n > 0 => out.t.lastToken = answer[n]
    <2> HIDE DEF out, n, t
    <2>1. told.generated < told.max
      BY <1>9 DEF t
    <2>2. n = Pushed(answer, told.max - told.generated)
      BY <1>9 DEF n
    <2> QED BY <1>3, <1>8, <2>1, <2>2, Emitted DEF out
  <1> HIDE DEF out
  <1>11. a.t = out.t /\ a.over = out.over /\ a.kv = cells
    BY <1>1
  <1> HIDE DEF a, n, t
  <1>12. /\ a.t \in TaskType /\ Alike(t, a.t)
         /\ a.t.initialized = t.initialized /\ a.t.eligible = t.eligible /\ a.t.spec = t.spec
         /\ a.t.outSynced = t.outSynced
         /\ a.t.promptPos = IF t.promptDone THEN t.promptPos ELSE t.promptPos + kept
         /\ a.t.nPos = t.nPos + kept
         /\ a.t.promptDone <=> t.promptDone \/ answer # <<>>
    BY <1>6, <1>7, <1>8, <1>10, <1>11 DEF Alike
  <1>13. /\ a.t.queue = t.queue \o SubSeq(answer, 1, n)
         /\ a.t.generated = t.generated + n
         /\ a.over <=> (n = t.max - t.generated \/ n < Len(answer))
         /\ n < t.max - t.generated /\ n > 0 => a.t.lastToken = answer[n]
    BY <1>9, <1>10, <1>11
  <1>14. \/ a.t.outCheckpoint = t.outCheckpoint
         \/ /\ ~t.promptDone /\ t.promptPos + kept = t.capture
            /\ a.t.outCheckpoint = [pos |-> t.capture, cells |-> a.kv, drafted |-> t.eligible]
    BY <1>6, <1>7, <1>8, <1>10, <1>11 DEF Alike
  <1>15. kept = IF t.promptDone THEN Len(answer) ELSE work.take[r]
    BY <1>4 DEF kept, t
  <1>16. a.kv \in Seq(Nat) /\ a.kv = kv[t.seq] \o SubSeq(fed, 1, kept) /\ fed \in Seq(Nat) /\ kept \in Nat /\ kept >= 1 /\ kept <= Len(fed)
    BY <1>4, <1>5, <1>11 DEF cells
  <1> QED BY <1>12, <1>13, <1>14, <1>15, <1>16 DEF t, a, n, fed

\* What starting a task leaves of it: its place in the prompt is known, and
\* when its slot remembered its sequence rightly, its cells are the beginning
\* of its prompt, and so are those of its draft while it drafts.
Kept(t, u) ==
    /\ u.spec = t.spec /\ u.queue = t.queue /\ u.promptDone = t.promptDone
    /\ u.generated = t.generated /\ u.lastToken = t.lastToken
Begun(s, prompt) ==
    /\ Len(s.kv) = s.t.nPos
    /\ Voiced => \A i \in 1..Len(s.kv) : s.kv[i] = prompt[i]
    /\ s.t.eligible => s.draft = s.kv
    /\ rig.mtp /\ s.t.outSynced => s.t.eligible
    /\ Fits(s.t.outCheckpoint, prompt)
LEMMA StartedTask ==
  ASSUME NEW t \in TaskType, NEW cells \in Seq(Nat), NEW drafted \in Seq(Nat)
  PROVE  LET s == StartTask(t, cells, drafted)
         IN  /\ s.t \in TaskType /\ s.kv \in Seq(Nat) /\ s.draft \in Seq(Nat)
             /\ Alike(t, s.t) /\ Kept(t, s.t) /\ s.t.initialized
             /\ s.t.promptPos = s.t.nPos /\ s.t.promptPos <= Len(t.prompt)
             /\ (/\ Agrees(t.last, cells) /\ Fits(t.checkpoint, t.last)
                 /\ t.eligible /\ t.synced => drafted = cells
                 /\ t.outCheckpoint.pos = 0) => Begun(s, t.prompt)
  <1> DEFINE common == ReusableTokens(t)
             deferred == /\ t.eligible /\ ~t.synced
                         /\ t.max > 0 /\ t.max <= rig.margin + 2
                         /\ Min({common, Len(cells)}) >= rig.batch
             eligible == t.eligible /\ ~deferred
             resync == eligible /\ ~t.synced
             outSynced == ~rig.mtp \/ eligible
             physical == IF eligible THEN Min({Len(cells), Len(drafted)}) ELSE Len(cells)
             usable == /\ CheckpointUsable(t.checkpoint, common, t.prompt)
                       /\ eligible => t.checkpoint.drafted /\ t.checkpoint.pos > 1
             kept == ~resync /\ common > 0 /\ usable /\ t.checkpoint.pos = t.capture
             past == Min({common, physical})
             ck == IF kept THEN t.checkpoint ELSE t.outCheckpoint
             new(pos) == [t EXCEPT !.promptPos = pos, !.nPos = pos, !.initialized = TRUE,
                                   !.eligible = eligible, !.outSynced = outSynced, !.outCheckpoint = ck]
             at_(pos, c, d) == [t |-> new(pos), kv |-> c, draft |-> d]
             s == StartTask(t, cells, drafted)
             Right == /\ Agrees(t.last, cells) /\ Fits(t.checkpoint, t.last)
                      /\ t.eligible /\ t.synced => drafted = cells
                      /\ t.outCheckpoint.pos = 0
  <1>1. s = IF resync \/ past <= 0 THEN at_(0, <<>>, <<>>)
            ELSE IF past >= physical THEN at_(past, cells, drafted)
            ELSE IF ~rig.recurrent
                 THEN at_(past, SubSeq(cells, 1, past), IF eligible THEN SubSeq(drafted, 1, past) ELSE drafted)
            ELSE IF usable
                 THEN at_(t.checkpoint.pos, t.checkpoint.cells,
                          IF eligible THEN t.checkpoint.cells ELSE drafted)
            ELSE at_(0, <<>>, <<>>)
    BY DEF StartTask
  <1>2. /\ common \in Nat /\ common <= Len(t.last) /\ common <= Len(t.prompt)
        /\ \A i \in 1..common : t.last[i] = t.prompt[i]
    BY ReusableTokensCommon
  <1>3. /\ t.last \in Seq(Nat) /\ t.prompt \in Seq(Nat) /\ t.checkpoint \in Checkpoint
        /\ t.outCheckpoint \in Checkpoint /\ t.eligible \in BOOLEAN /\ t.synced \in BOOLEAN
        /\ t.checkpoint.pos \in Nat /\ t.checkpoint.cells \in Seq(Nat)
    BY DEF TaskType, Checkpoint
  <1> HIDE DEF common
  <1>4. /\ eligible \in BOOLEAN /\ outSynced \in BOOLEAN /\ ck \in Checkpoint
        /\ eligible => t.eligible
        /\ outSynced <=> ~rig.mtp \/ eligible
        /\ resync <=> eligible /\ ~t.synced
    BY <1>3
  <1>5. usable => /\ t.checkpoint.pos > 0 /\ t.checkpoint.pos <= common /\ t.checkpoint.pos <= Len(t.prompt)
    BY DEF CheckpointUsable
  <1>6. kept => usable
    OBVIOUS
  <1> HIDE DEF deferred, usable
  <1>7. /\ physical \in Nat /\ physical <= Len(cells) /\ (eligible => physical <= Len(drafted))
    <2>1. Len(cells) \in Nat /\ Len(drafted) \in Nat
      OBVIOUS
    <2>2. Min({Len(cells), Len(drafted)}) = IF Len(cells) <= Len(drafted) THEN Len(cells) ELSE Len(drafted)
      BY <2>1, MinTwo
    <2> QED BY <2>1, <2>2
  <1>8. eligible /\ drafted = cells => physical = Len(cells)
    <2>1. Len(cells) \in Nat
      OBVIOUS
    <2>2. Min({Len(cells), Len(cells)}) = Len(cells)
      BY <2>1, MinTwo
    <2> QED BY <2>2
  <1>9. ~eligible => physical = Len(cells)
    OBVIOUS
  <1> HIDE DEF physical
  <1>10. past \in Nat /\ past <= common /\ past <= physical
    <2>1. past = IF common <= physical THEN common ELSE physical
      BY <1>2, <1>7, MinTwo
    <2> HIDE DEF past
    <2> QED BY <1>2, <1>7, <2>1
  <1> HIDE DEF past, resync, outSynced, kept
  <1>11. Right => Fits(ck, t.prompt)
    <2>1. ck.pos = 0 => Fits(ck, t.prompt)
      BY <1>4 DEF Fits
    <2>2. CASE kept
      <3> HAVE Right
      <3>1. ck = t.checkpoint /\ Fits(t.checkpoint, t.last) /\ usable
        BY <1>6, <2>2
      <3> QED BY <1>2, <1>3, <1>5, <3>1 DEF Fits
    <2>3. CASE ~kept
      BY <2>1, <2>3
    <2> QED BY <2>2, <2>3
  <1> HIDE DEF ck, eligible
  <1> DEFINE Shape(u) == /\ u.t \in TaskType /\ u.kv \in Seq(Nat) /\ u.draft \in Seq(Nat)
                         /\ Alike(t, u.t) /\ Kept(t, u.t) /\ u.t.initialized
                         /\ u.t.promptPos = u.t.nPos /\ u.t.promptPos <= Len(t.prompt)
                         /\ u.t.eligible = eligible /\ u.t.outSynced = outSynced /\ u.t.outCheckpoint = ck
  <1>12. ASSUME NEW pos \in Nat, pos <= Len(t.prompt), NEW c \in Seq(Nat), NEW d \in Seq(Nat)
         PROVE  /\ Shape(at_(pos, c, d)) /\ at_(pos, c, d).t.nPos = pos
                /\ at_(pos, c, d).kv = c /\ at_(pos, c, d).draft = d
    <2>1. new(pos) \in TaskType
      BY <1>4 DEF TaskType
    <2>2. Alike(t, new(pos)) /\ Kept(t, new(pos))
      BY DEF TaskType, Alike, Kept
    <2>3. /\ new(pos).initialized /\ new(pos).promptPos = pos /\ new(pos).nPos = pos
          /\ new(pos).eligible = eligible /\ new(pos).outSynced = outSynced /\ new(pos).outCheckpoint = ck
      BY DEF TaskType
    <2> DEFINE u == at_(pos, c, d)
    <2>4. u.t = new(pos) /\ u.kv = c /\ u.draft = d
      OBVIOUS
    <2> HIDE DEF new, u
    <2>5. Shape(u) /\ u.t.nPos = pos
      BY <1>12, <2>1, <2>2, <2>3, <2>4
    <2> QED BY <2>4, <2>5 DEF u
  <1> HIDE DEF new, s, at_, Shape
  <1>0. 0 \in Nat /\ 0 <= Len(t.prompt) /\ past <= Len(t.prompt) /\ <<>> \in Seq(Nat)
    <2>1. Len(t.prompt) \in Nat
      BY <1>3
    <2> QED BY <1>2, <1>10, <2>1
  <1> DEFINE Good(u) == Len(u.kv) = u.t.nPos /\ (Voiced => \A i \in 1..Len(u.kv) : u.kv[i] = t.prompt[i])
             Synced(u) == eligible => u.draft = u.kv
  <1>13. Shape(s) /\ (Right => Good(s) /\ Synced(s))
    <2> DEFINE Fine(u) == Shape(u) /\ (Right => Good(u) /\ Synced(u))
    <2>1. Fine(at_(0, <<>>, <<>>))
      <3> DEFINE e == <<>>
                 z == 0
                 u == at_(z, e, e)
      <3>0. e \in Seq(Nat) /\ Len(e) = z /\ z \in Nat /\ z <= Len(t.prompt)
        BY <1>0
      <3> HIDE DEF e, z
      <3>1. Shape(u) /\ u.t.nPos = z
        BY <1>0, <1>12, <3>0
      <3>2. u.kv = e /\ u.draft = e
        BY <1>0, <1>12, <3>0
      <3> HIDE DEF Shape, u
      <3>3. Fine(u)
        <4>1. \A i \in 1..Len(e) : FALSE
          BY <3>0 DEF z
        <4> QED BY <3>0, <3>1, <3>2, <4>1
      <3> QED BY <3>3 DEF u, e, z
    <2>2. CASE ~resync /\ past > 0 /\ past >= physical
      <3> DEFINE u == at_(past, cells, drafted)
      <3>1. Shape(u) /\ u.t.nPos = past
        BY <1>0, <1>10, <1>12
      <3>2. u.kv = cells /\ u.draft = drafted
        BY <1>0, <1>10, <1>12
      <3> HIDE DEF Shape, u
      <3>3. ASSUME Right PROVE Good(u) /\ Synced(u)
        <4>1. eligible => drafted = cells
          BY <1>3, <1>4, <2>2, <3>3
        <4>2. past = Len(cells)
          BY <1>4, <1>7, <1>8, <1>9, <1>10, <2>2, <4>1
        <4>3. Voiced => \A i \in 1..Len(cells) : cells[i] = t.prompt[i]
          <5> HAVE Voiced
          <5> TAKE i \in 1..Len(cells)
          <5>1. i \in 1..common /\ i \in 1..Len(t.last)
            BY <1>2, <1>3, <1>10, <4>2
          <5> QED BY <1>2, <3>3, <5>1 DEF Agrees
        <4> QED BY <3>1, <3>2, <4>1, <4>2, <4>3
      <3>4. Fine(u)
        BY <3>1, <3>3
      <3> QED BY <1>1, <1>10, <2>2, <3>4 DEF u
    <2>3. CASE ~resync /\ past > 0 /\ ~(past >= physical) /\ ~rig.recurrent
      <3> DEFINE c == SubSeq(cells, 1, past)
                 d == IF eligible THEN SubSeq(drafted, 1, past) ELSE drafted
                 u == at_(past, c, d)
      <3>1. past <= Len(cells) /\ c \in Seq(Nat) /\ Len(c) = past /\ \A i \in 1..past : c[i] = cells[i]
        BY <1>7, <1>10
      <3>2. d \in Seq(Nat)
        BY <1>7, <1>10
      <3>3. eligible /\ drafted = cells => d = c
        OBVIOUS
      <3>4. s = u
        BY <1>1, <1>10, <2>3
      <3> HIDE DEF c, d
      <3>5. Shape(u) /\ u.t.nPos = past
        BY <1>0, <1>10, <1>12, <3>1, <3>2
      <3>6. u.kv = c /\ u.draft = d
        BY <1>0, <1>10, <1>12, <3>1, <3>2
      <3> HIDE DEF Shape, u
      <3>7. ASSUME Right PROVE Good(u) /\ Synced(u)
        <4>1. eligible => drafted = cells
          BY <1>3, <1>4, <2>3, <3>7
        <4>2. Voiced => \A i \in 1..Len(c) : c[i] = t.prompt[i]
          <5> HAVE Voiced
          <5> TAKE i \in 1..Len(c)
          <5>1. i \in 1..past /\ i \in 1..common /\ i \in 1..Len(t.last) /\ i <= Len(cells)
            BY <1>2, <1>3, <1>10, <3>1, SMTT(30)
          <5> QED BY <1>2, <3>1, <3>7, <5>1 DEF Agrees
        <4> QED BY <3>1, <3>3, <3>5, <3>6, <4>1, <4>2
      <3>8. Fine(u)
        BY <3>5, <3>7
      <3> QED BY <3>4, <3>8
    <2>4. CASE ~resync /\ past > 0 /\ ~(past >= physical) /\ rig.recurrent /\ usable
      <3> DEFINE c == t.checkpoint.cells
                 p == t.checkpoint.pos
                 d == IF eligible THEN c ELSE drafted
                 u == at_(p, c, d)
      <3>1. p \in Nat /\ p > 0 /\ p <= common /\ p <= Len(t.prompt) /\ c \in Seq(Nat) /\ d \in Seq(Nat)
        BY <1>3, <1>5, <2>4
      <3>2. eligible => d = c
        OBVIOUS
      <3>3. s = u
        BY <1>1, <1>10, <2>4
      <3>4. Right => Len(c) = p /\ (Voiced => \A i \in 1..p : c[i] = t.last[i])
        BY <3>1 DEF Fits
      <3> HIDE DEF c, d, p
      <3>5. Shape(u) /\ u.t.nPos = p
        BY <1>12, <3>1
      <3>6. u.kv = c /\ u.draft = d
        BY <1>12, <3>1
      <3> HIDE DEF Shape, u
      <3>7. ASSUME Right PROVE Good(u) /\ Synced(u)
        <4>1. Voiced => \A i \in 1..Len(c) : c[i] = t.prompt[i]
          BY <1>2, <3>1, <3>4, <3>7
        <4> QED BY <3>2, <3>4, <3>5, <3>6, <3>7, <4>1
      <3>8. Fine(u)
        BY <3>5, <3>7
      <3> QED BY <3>3, <3>8
    <2> HIDE DEF Shape, at_, Good, Synced
    <2>5. Fine(s)
      BY <1>1, <1>10, <2>1, <2>2, <2>3, <2>4
    <2> QED BY <2>5
  <1>14. Right => Begun(s, t.prompt)
    BY <1>4, <1>11, <1>13 DEF Begun, Shape
  <1> HIDE DEF Right
  <1>15. /\ s.t \in TaskType /\ s.kv \in Seq(Nat) /\ s.draft \in Seq(Nat)
         /\ Alike(t, s.t) /\ Kept(t, s.t) /\ s.t.initialized
         /\ s.t.promptPos = s.t.nPos /\ s.t.promptPos <= Len(t.prompt)
         /\ Right => Begun(s, t.prompt)
    BY <1>13, <1>14 DEF Shape
  <1> QED BY <1>15 DEF s, Right

\* A task in the ready step: started, or running on with the window's say.
Right(r) ==
    /\ Agrees(task[r].last, kv[task[r].seq]) /\ Fits(task[r].checkpoint, task[r].last)
    /\ rig.mtp /\ task[r].synced => draft[task[r].seq] = kv[task[r].seq]
    /\ task[r].outCheckpoint.pos = 0
LEMMA ReadiedTask ==
  ASSUME Typed, Metered, NEW r \in Requests, task[r].seq \in 1..rig.slots
  PROVE  LET t == task[r]
             u == ReadyTask(r)
         IN  /\ u.t \in TaskType /\ u.kv \in Seq(Nat) /\ u.draft \in Seq(Nat)
             /\ Alike(t, u.t) /\ Kept(t, u.t) /\ u.t.initialized
             /\ u.t.promptPos <= Len(t.prompt)
             /\ t.initialized => /\ u.kv = kv[t.seq] /\ u.draft = draft[t.seq]
                                 /\ u.t.promptPos = t.promptPos /\ u.t.nPos = t.nPos
                                 /\ u.t.outCheckpoint = t.outCheckpoint
                                 /\ u.t.eligible => t.eligible
                                 /\ (rig.mtp /\ t.outSynced => t.eligible)
                                       => (rig.mtp /\ u.t.outSynced => u.t.eligible)
             /\ ~t.initialized => u.t.promptPos = u.t.nPos
             /\ ~t.initialized /\ Right(r) => Begun(u, t.prompt)
  <1> DEFINE t == task[r]
             u == ReadyTask(r)
             w == Window /\ ~Ask(r).logprobs
             first == [t EXCEPT !.eligible = w]
             started == StartTask(first, kv[t.seq], draft[t.seq])
             begun == IF t.initialized THEN [t |-> t, kv |-> kv[t.seq], draft |-> draft[t.seq]] ELSE started
             e == begun.t.eligible /\ Window
             o == begun.t.outSynced /\ (Window \/ ~rig.mtp)
             next == [begun.t EXCEPT !.eligible = e, !.outSynced = o]
  <1>1. u = [begun EXCEPT !.t.eligible = @ /\ Window, !.t.outSynced = @ /\ (Window \/ ~rig.mtp)]
    BY DEF ReadyTask
  <1>2. t \in TaskType /\ kv[t.seq] \in Seq(Nat) /\ draft[t.seq] \in Seq(Nat)
    BY DEF Typed, CallersTyped, CacheTyped
  <1>3. first \in TaskType /\ Alike(t, first) /\ Kept(t, first) /\ first.outCheckpoint = t.outCheckpoint
        /\ first.eligible = w
    <2>1. w \in BOOLEAN
      OBVIOUS
    <2> HIDE DEF w, t
    <2> QED BY <1>2, <2>1 DEF TaskType, Alike, Kept
  <1>4. /\ started.t \in TaskType /\ started.kv \in Seq(Nat) /\ started.draft \in Seq(Nat)
        /\ Alike(first, started.t) /\ Kept(first, started.t) /\ started.t.initialized
        /\ started.t.promptPos = started.t.nPos /\ started.t.promptPos <= Len(first.prompt)
        /\ (/\ Agrees(first.last, kv[t.seq]) /\ Fits(first.checkpoint, first.last)
            /\ first.eligible /\ first.synced => draft[t.seq] = kv[t.seq]
            /\ first.outCheckpoint.pos = 0) => Begun(started, first.prompt)
    <2> HIDE DEF first, t
    <2> QED BY <1>2, <1>3, StartedTask
  <1>5. w => rig.mtp
    BY Zenon DEF Window
  <1>6. started = [t |-> started.t, kv |-> started.kv, draft |-> started.draft]
    BY Zenon DEF StartTask
  <1> HIDE DEF w, first, started
  <1>7. /\ begun.t \in TaskType /\ begun.kv \in Seq(Nat) /\ begun.draft \in Seq(Nat)
        /\ begun = [t |-> begun.t, kv |-> begun.kv, draft |-> begun.draft]
    <2>1. CASE t.initialized
      BY <1>2, <2>1
    <2>2. CASE ~t.initialized
      BY <1>4, <1>6, <2>2
    <2> QED BY <2>1, <2>2
  <1>8. Alike(t, begun.t) /\ Kept(t, begun.t) /\ begun.t.initialized /\ begun.t.promptPos <= Len(t.prompt)
    <2>1. CASE t.initialized
      BY <2>1 DEF Alike, Kept, Metered
    <2>2. CASE ~t.initialized
      <3>1. begun = started
        BY <2>2
      <3> HIDE DEF begun, t
      <3> QED BY <1>3, <1>4, <3>1 DEF Alike, Kept
    <2> QED BY <2>1, <2>2
  <1>9. t.initialized => begun.t = t /\ begun.kv = kv[t.seq] /\ begun.draft = draft[t.seq]
    OBVIOUS
  <1>10. ~t.initialized => begun = started
    OBVIOUS
  <1> HIDE DEF begun
  <1>11. u.t = next /\ u.kv = begun.kv /\ u.draft = begun.draft
    <2> DEFINE bt == begun.t
               bk == begun.kv
               bd == begun.draft
    <2>1. begun = [t |-> bt, kv |-> bk, draft |-> bd] /\ bt \in TaskType
      BY <1>7
    <2> HIDE DEF bt, bk, bd
    <2>2. begun.t = bt /\ begun.kv = bk /\ begun.draft = bd
      BY <2>1
    <2> HIDE DEF u
    <2>3. u = [begun EXCEPT !.t = [[bt EXCEPT !.eligible = bt.eligible /\ Window]
                                     EXCEPT !.outSynced = bt.outSynced /\ (Window \/ ~rig.mtp)]]
      BY <1>1, <2>1, <2>2 DEF TaskType
    <2> QED BY <2>1, <2>2, <2>3
  <1>12. e \in BOOLEAN /\ o \in BOOLEAN /\ (e <=> begun.t.eligible /\ Window)
         /\ (o <=> begun.t.outSynced /\ (Window \/ ~rig.mtp))
    OBVIOUS
  <1> HIDE DEF e, o, u
  <1>13. /\ next \in TaskType /\ Alike(begun.t, next) /\ Kept(begun.t, next)
         /\ next.initialized = begun.t.initialized /\ next.promptPos = begun.t.promptPos
         /\ next.nPos = begun.t.nPos /\ next.outCheckpoint = begun.t.outCheckpoint
         /\ next.eligible = e /\ next.outSynced = o
    BY <1>7, <1>12, ZenonT(60) DEF TaskType, Alike, Kept
  <1> HIDE DEF next
  <1>14. /\ u.t \in TaskType /\ u.kv \in Seq(Nat) /\ u.draft \in Seq(Nat)
         /\ u.t.initialized /\ u.t.promptPos <= Len(t.prompt)
    BY <1>7, <1>8, <1>11, <1>13
  <1>15. Alike(t, u.t) /\ Kept(t, u.t)
    <2> HIDE DEF t
    <2> QED BY <1>8, <1>11, <1>13 DEF Alike, Kept
  <1>16. t.initialized => /\ u.kv = kv[t.seq] /\ u.draft = draft[t.seq]
                          /\ u.t.promptPos = t.promptPos /\ u.t.nPos = t.nPos
                          /\ u.t.outCheckpoint = t.outCheckpoint
                          /\ u.t.eligible => t.eligible
                          /\ (rig.mtp /\ t.outSynced => t.eligible)
                                => (rig.mtp /\ u.t.outSynced => u.t.eligible)
    <2> HIDE DEF t
    <2> QED BY <1>9, <1>11, <1>12, <1>13
  <1>17. ~t.initialized => u.t.promptPos = u.t.nPos
    <2> HIDE DEF t
    <2> QED BY <1>4, <1>10, <1>11, <1>13
  <1>18. ~t.initialized /\ Right(r) => Begun(u, t.prompt)
    <2> SUFFICES ASSUME ~t.initialized, Right(r) PROVE Begun(u, t.prompt)
      OBVIOUS
    <2>1. /\ Agrees(first.last, kv[t.seq]) /\ Fits(first.checkpoint, first.last)
          /\ first.eligible /\ first.synced => draft[t.seq] = kv[t.seq]
          /\ first.outCheckpoint.pos = 0
      <3>1. /\ Agrees(t.last, kv[t.seq]) /\ Fits(t.checkpoint, t.last)
            /\ rig.mtp /\ t.synced => draft[t.seq] = kv[t.seq]
            /\ t.outCheckpoint.pos = 0
        BY DEF Right
      <3> HIDE DEF t
      <3> QED BY <1>3, <1>5, <3>1 DEF Alike
    <2> HIDE DEF t
    <2>2. Begun(started, t.prompt)
      BY <1>3, <1>4, <2>1 DEF Alike
    <2> QED BY <1>10, <1>11, <1>12, <1>13, <2>2 DEF Begun
  <1> QED BY <1>14, <1>15, <1>16, <1>17, <1>18 DEF t, u

----------------------------------------------------------------------------
(* Seats, events and counters.  Every action keeps the four groups.        *)

Kernel == Typed /\ Seated /\ Alive /\ Metered

LEMMA KernelInit == Init => Kernel
  <1> SUFFICES ASSUME Init PROVE Kernel
    OBVIOUS
  <1>1. rig \in Rigs /\ rig.slots \in Nat /\ rig.remakes \in Nat
    BY RigAssumption DEF Init, CacheInit
  <1>2. NoCheckpoint \in Checkpoint /\ NoTask \in TaskType
    BY DEF NoCheckpoint, Checkpoint, NoTask, TaskType, Eog
  <1>3. \A s \in 1..rig.slots : FreshSlot(s) \in SlotType
    BY <1>2 DEF FreshSlot, SlotType
  <1>4. NoWork \in WorkType /\ NoWork.tasks = <<>> /\ NoWork.runnable = <<>> /\ NoWork.done = {}
    BY DEF NoWork, WorkType
  <1>5. CacheTyped
    <2>1. slots \in [1..rig.slots -> SlotType]
      BY <1>3 DEF Init, CacheInit
    <2> QED BY <1>1, <2>1 DEF CacheTyped, Init, CacheInit
  <1>6. CallersTyped
    BY <1>2 DEF CallersTyped, Init, CacheInit, Places
  <1>7. ThreadTyped
    <2>1. active = <<>> /\ turn = 0 /\ pc = "top" /\ work = NoWork /\ terminal = FALSE /\ stopping = FALSE
      BY DEF Init
    <2>2. <<>> \in Seq(Requests) /\ 0 \in Nat /\ pc \in Points
      BY <2>1 DEF Points
    <2>3. active \in Seq(Requests) /\ work \in WorkType
      BY <1>4, <2>1, <2>2
    <2> QED BY <2>1, <2>2, <2>3 DEF ThreadTyped
  <1>8. Seated
    <2>1. \A s \in 1..rig.slots : slots[s].seq = s /\ ~slots[s].bound
      BY DEF Init, CacheInit, FreshSlot
    <2>2. \A r \in Requests : ~Holding(r) /\ ~Going(r)
      BY DEF Init, CacheInit, Holding, Going
    <2> QED BY <2>1, <2>2 DEF Seated
  <1>9. Members(active) = {} /\ Members(work.tasks) = {} /\ Members(work.runnable) = {}
    BY <1>4 DEF Init, Members
  <1>10. \A r \in Requests : task[r] = NoTask /\ at[r] = "idle"
    BY DEF Init, CacheInit
  <1>11. NoTask.queue = <<>> /\ NoTask.promptPos = 0 /\ NoTask.prompt = <<>> /\ NoTask.generated = 0
         /\ NoTask.max = 0 /\ NoTask.spec = <<>>
    BY DEF NoTask
  <1>12. Alive
    BY <1>4, <1>9, <1>10, <1>11 DEF Alive, Queued, Init
  <1>13. Metered
    <2>1. pc # "decode"
      BY DEF Init
    <2> QED BY <1>9, <1>10, <1>11, <2>1 DEF Metered, Queued, Going
  <1> QED BY <1>5, <1>6, <1>7, <1>8, <1>12, <1>13 DEF Kernel, Typed

\* What Alive says is about the queues and about who is where.
LEMMA AliveSame ==
  ASSUME Alive, active' = active, at' = at, task' = task,
         work' = work \/ (work'.tasks = <<>> /\ work'.runnable = <<>> /\ work'.done = {}),
         work'.done = {} \/ pc' = "finish"
  PROVE  Alive'
  <1>1. \A r \in Requests : Queued(r)' <=> Queued(r)
    BY DEF Queued, Members
  <1>2. /\ Members(work'.tasks) \subseteq Members(active')
        /\ Members(work'.runnable) \subseteq Members(work'.tasks)
        /\ work'.done \subseteq Members(work'.tasks)
    <2>1. CASE work' = work
      BY <2>1 DEF Alive
    <2>2. CASE work'.tasks = <<>> /\ work'.runnable = <<>> /\ work'.done = {}
      <3>1. Members(work'.tasks) = {} /\ Members(work'.runnable) = {}
        BY <2>2 DEF Members
      <3> QED BY <2>2, <3>1
    <2> QED BY <2>1, <2>2
  <1>3. /\ Members(work.tasks)' = Members(work'.tasks) /\ Members(active)' = Members(active')
        /\ Members(work.runnable)' = Members(work'.runnable)
    BY DEF Members
  <1>4. /\ \A r \in Requests : Queued(r)' => at'[r] = "draining"
        /\ \A r \in Requests : at'[r] \in {"idle", "acquired", "prepared", "over"} => task'[r].queue = <<>>
        /\ \A r \in Requests : Queued(r)' => \A i \in 1..Len(task'[r].queue) : task'[r].queue[i] \notin Ends
    BY <1>1 DEF Alive
  <1>5. \A r \in Requests : at'[r] = "draining" /\ ~Queued(r)' =>
         /\ Len(task'[r].queue) > 0 /\ task'[r].queue[Len(task'[r].queue)] \in Ends
         /\ \A i \in 1..(Len(task'[r].queue) - 1) : task'[r].queue[i] \notin Ends
    BY <1>1 DEF Alive
  <1> QED BY <1>2, <1>3, <1>4, <1>5 DEF Alive, Ends

\* Steps of the thread that only move it on.
Moves == /\ pc' \in Points \ {"decode"} /\ pc # "finish"
         /\ UNCHANGED <<rig, slots, kv, draft, task, at, cancel, stop, life, remakes, active, terminal, stopping, turn, work>>
LEMMA KernelMoves ==
  ASSUME Kernel, Moves PROVE Kernel'
  <1>1. /\ rig' = rig /\ slots' = slots /\ kv' = kv /\ draft' = draft /\ task' = task /\ at' = at
        /\ cancel' = cancel /\ stop' = stop /\ life' = life /\ remakes' = remakes /\ active' = active
        /\ terminal' = terminal /\ stopping' = stopping /\ turn' = turn /\ work' = work
    BY DEF Moves
  <1>2. Typed'
    BY <1>1 DEF Moves, Kernel, Typed, CacheTyped, CallersTyped, ThreadTyped, SlotType, WorkType
  <1>3. Seated'
    BY <1>1 DEF Kernel, Seated, Holding, Going, SeatOf
  <1>4. work.done = {}
    BY DEF Kernel, Alive, Moves
  <1>5. Alive'
    BY <1>1, <1>4, AliveSame DEF Kernel
  <1>6. Metered'
    BY <1>1 DEF Moves, Kernel, Metered, Queued, Members, Going
  <1> QED BY <1>2, <1>3, <1>5, <1>6 DEF Kernel

LEMMA MovesOf == ASSUME Kernel, Top \/ Doze \/ Sleep \/ DecodeFails PROVE Moves
  <1>1. pc \in Points
    BY DEF Kernel, Typed, ThreadTyped
  <1> QED BY <1>1 DEF Top, Doze, Sleep, DecodeFails, Moves, callerVars, Points

\* Nobody holds a slot while the contexts go down.
LEMMA KernelStopBegin ==
  ASSUME Kernel, StopBegin PROVE Kernel'
  <1>1. /\ rig' = rig /\ slots' = slots /\ kv' = kv /\ draft' = draft /\ task' = task /\ at' = at
        /\ cancel' = cancel /\ stop' = stop /\ remakes' = remakes /\ active' = active
        /\ terminal' = terminal /\ turn' = turn /\ work' = work /\ pc' = pc /\ life' = "closing" /\ stopping' = TRUE
    BY DEF StopBegin
  <1>2. Typed'
    BY <1>1 DEF Kernel, Typed, CacheTyped, CallersTyped, ThreadTyped, SlotType, WorkType, StopBegin
  <1>3. \A r \in Requests : ~Holding(r)
    <2>1. Slots = 1..rig.slots
      BY DEF Slots, Kernel, Typed, CacheTyped
    <2> QED BY <2>1 DEF Kernel, Seated, SeatOf, StopBegin
  <1>4. \A r \in Requests : ~Holding(r)' /\ ~Going(r)'
    BY <1>1, <1>3 DEF Holding, Going
  <1>5. Seated'
    BY <1>1, <1>4 DEF Kernel, Seated
  <1>6. Alive'
    <2>1. work.done = {} \/ pc' = "finish"
      BY <1>1 DEF Kernel, Alive
    <2> QED BY <1>1, <2>1, AliveSame DEF Kernel
  <1>7. Metered'
    BY <1>1 DEF Kernel, Metered, Queued, Members, Going
  <1> QED BY <1>2, <1>5, <1>6, <1>7 DEF Kernel

LEMMA KernelStopNotify ==
  ASSUME Kernel, StopNotify PROVE Kernel'
  <1>1. /\ rig' = rig /\ slots' = slots /\ kv' = kv /\ draft' = draft /\ task' = task /\ at' = at
        /\ cancel' = cancel /\ stop' = stop /\ remakes' = remakes /\ active' = active
        /\ terminal' = terminal /\ turn' = turn /\ work' = work /\ life' = "joining" /\ stopping' = stopping
        /\ pc' = IF pc = "asleep" THEN "collect" ELSE pc
    BY DEF StopNotify
  <1>2. Typed'
    <2>1. pc' \in Points
      BY <1>1 DEF Kernel, Typed, ThreadTyped, Points
    <2> QED BY <1>1, <2>1 DEF Kernel, Typed, CacheTyped, CallersTyped, ThreadTyped, SlotType, WorkType, StopNotify
  <1>3. life # "up"
    BY DEF StopNotify
  <1>4. \A r \in Requests : ~Holding(r)
    BY <1>3 DEF Kernel, Seated
  <1>5. \A r \in Requests : ~Holding(r)' /\ ~Going(r)'
    BY <1>1, <1>4 DEF Holding, Going
  <1>6. Seated'
    BY <1>1, <1>5 DEF Kernel, Seated
  <1>7. Alive'
    <2>1. work.done = {} \/ pc' = "finish"
      BY <1>1 DEF Kernel, Alive
    <2> QED BY <1>1, <2>1, AliveSame DEF Kernel
  <1>8. Metered'
    BY <1>1 DEF Kernel, Metered, Queued, Members, Going
  <1> QED BY <1>2, <1>6, <1>7, <1>8 DEF Kernel

LEMMA KernelRecreate ==
  ASSUME Kernel, Recreate PROVE Kernel'
  <1>1. /\ rig' = rig /\ task' = task /\ at' = at /\ cancel' = cancel /\ stop' = stop /\ active' = active
        /\ life' = "up" /\ remakes' = remakes + 1 /\ turn' = 0 /\ work' = NoWork /\ pc' = "top"
        /\ stopping' = FALSE /\ terminal' = FALSE
    BY DEF Recreate
  <1>2. NoWork \in WorkType /\ NoWork.tasks = <<>> /\ NoWork.runnable = <<>> /\ NoWork.done = {}
    BY DEF NoWork, WorkType
  <1>3. Slots = 1..rig.slots
    BY DEF Slots, Kernel, Typed, CacheTyped
  <1>4. \A s \in 1..rig.slots : FreshSlot(s) \in SlotType
    BY DEF FreshSlot, SlotType, NoCheckpoint, Checkpoint
  <1>5. \A r \in Requests : ~Holding(r)
    BY DEF Kernel, Seated, Recreate
  <1>6. \A r \in Requests : ~Holding(r)' /\ ~Going(r)'
    BY <1>1, <1>5 DEF Holding, Going
  <1>7. CacheTyped'
    <2>1. slots' \in [1..rig.slots -> SlotType] /\ kv' \in [1..rig.slots -> Seq(Nat)] /\ draft' \in [1..rig.slots -> Seq(Nat)]
      BY <1>3, <1>4 DEF Recreate
    <2>2. remakes' \in 0..rig.remakes
      <3>1. remakes \in Nat /\ rig.remakes \in Nat /\ remakes < rig.remakes
        BY RigAssumption DEF Kernel, Typed, CacheTyped, Recreate
      <3> QED BY <1>1, <3>1
    <2> QED BY <1>1, <2>1, <2>2 DEF Kernel, Typed, CacheTyped, SlotType
  <1>8. Typed'
    BY <1>1, <1>2, <1>7 DEF Kernel, Typed, CallersTyped, ThreadTyped, Points, WorkType
  <1>9. Seated'
    <2>1. \A s \in 1..rig.slots : slots'[s].seq = s /\ ~slots'[s].bound
      BY <1>3 DEF Recreate, FreshSlot
    <2> QED BY <1>1, <1>6, <2>1 DEF Seated
  <1>10. \A r \in Requests : ~Queued(r)
    BY <1>5 DEF Kernel, Alive, Holding
  <1>12. Alive'
    BY <1>1, <1>2, AliveSame DEF Kernel
  <1>13. Metered'
    BY <1>1, <1>6, <1>10 DEF Kernel, Metered, Queued, Members, Holding
  <1> QED BY <1>8, <1>9, <1>12, <1>13 DEF Kernel
----------------------------------------------------------------------------
(* The callers. *)

LEMMA SlotSet == ASSUME Typed PROVE Slots = 1..rig.slots
  BY DEF Slots, Typed, CacheTyped

\* Typed of what a caller's step leaves alone.
LEMMA CallerTyped ==
  ASSUME Typed, UNCHANGED <<rig, kv, draft, life, remakes, schedVars>>,
         slots' \in [1..rig.slots -> SlotType], CallersTyped'
  PROVE  Typed'
  <1>1. /\ rig' = rig /\ kv' = kv /\ draft' = draft /\ life' = life /\ remakes' = remakes
        /\ active' = active /\ terminal' = terminal /\ stopping' = stopping /\ pc' = pc /\ turn' = turn /\ work' = work
    BY DEF schedVars
  <1>2. CacheTyped'
    BY <1>1 DEF Typed, CacheTyped, SlotType
  <1>3. ThreadTyped'
    BY <1>1 DEF Typed, ThreadTyped, WorkType
  <1> QED BY <1>2, <1>3 DEF Typed

\* Metered and Alive of the requests that a caller's step does not touch.
LEMMA MeteredOther ==
  ASSUME Metered, UNCHANGED <<active, work, pc>>, NEW r \in Requests,
         \A q \in Requests : q # r => task'[q] = task[q] /\ at'[q] = at[q],
         task'[r].promptPos <= Len(task'[r].prompt), task'[r].generated <= task'[r].max,
         Going(r)' => task'[r].max > 0,
         at'[r] = "prepared" => task'[r].generated = 0,
         Queued(r) /\ r \notin work.done => task'[r].generated < task'[r].max,
         ~task'[r].promptDone => task'[r].spec = <<>>,
         pc = "decode" /\ r \in Members(work.tasks) /\ work.take[r] > 0 =>
           task'[r].initialized /\ (~task'[r].promptDone => task'[r].promptPos + work.take[r] <= Len(task'[r].prompt))
  PROVE  Metered'
  <1>1. /\ work' = work /\ pc' = pc /\ \A q \in Requests : Queued(q)' <=> Queued(q)
        /\ Members(work.tasks)' = Members(work.tasks)
    BY DEF Queued, Members
  <1>2. \A q \in Requests : q # r => (Going(q)' <=> Going(q))
    BY DEF Going
  <1> QED BY <1>1, <1>2 DEF Metered

LEMMA AliveOther ==
  ASSUME Alive, UNCHANGED <<active, work, pc>>, NEW r \in Requests,
         \A q \in Requests : q # r => task'[q] = task[q] /\ at'[q] = at[q],
         Queued(r) => at'[r] = "draining" /\ \A i \in 1..Len(task'[r].queue) : task'[r].queue[i] \notin Ends,
         at'[r] \in {"idle", "acquired", "prepared", "over"} => task'[r].queue = <<>>,
         at'[r] = "draining" /\ ~Queued(r) =>
           /\ Len(task'[r].queue) > 0 /\ task'[r].queue[Len(task'[r].queue)] \in Ends
           /\ \A i \in 1..(Len(task'[r].queue) - 1) : task'[r].queue[i] \notin Ends
  PROVE  Alive'
  <1>1. work' = work /\ pc' = pc /\ \A q \in Requests : Queued(q)' <=> Queued(q)
    BY DEF Queued, Members
  <1>2. /\ Members(work.tasks)' = Members(work.tasks) /\ Members(active)' = Members(active)
        /\ Members(work.runnable)' = Members(work.runnable)
    BY DEF Members
  <1>3. /\ \A q \in Requests : Queued(q)' => at'[q] = "draining"
        /\ \A q \in Requests : at'[q] \in {"idle", "acquired", "prepared", "over"} => task'[q].queue = <<>>
    BY <1>1 DEF Alive
  <1>4. \A q \in Requests : Queued(q)' => \A i \in 1..Len(task'[q].queue) : task'[q].queue[i] \notin Ends
    BY <1>1 DEF Alive
  <1>5. \A q \in Requests : at'[q] = "draining" /\ ~Queued(q)' =>
         /\ Len(task'[q].queue) > 0 /\ task'[q].queue[Len(task'[q].queue)] \in Ends
         /\ \A i \in 1..(Len(task'[q].queue) - 1) : task'[q].queue[i] \notin Ends
    BY <1>1 DEF Alive
  <1> QED BY <1>1, <1>2, <1>3, <1>4, <1>5 DEF Alive, Ends

LEMMA KernelAcquireSlot ==
  ASSUME Kernel, NEW r \in Requests, AcquireSlot(r, Healthy), UNCHANGED schedVars
  PROVE  Kernel'
  <1>0. Typed /\ Seated /\ Alive /\ Metered
    BY DEF Kernel
  <1>1. Slots = 1..rig.slots
    BY <1>0, SlotSet
  <1>2. PICK s \in 1..rig.slots :
          /\ ~slots[s].busy
          /\ slots' = [slots EXCEPT ![s].busy = TRUE]
          /\ task' = [task EXCEPT ![r].slot = s]
    BY <1>1 DEF AcquireSlot
  <1>3. /\ rig' = rig /\ kv' = kv /\ draft' = draft /\ cancel' = cancel /\ stop' = stop
        /\ life' = life /\ remakes' = remakes /\ at' = [at EXCEPT ![r] = "acquired"]
        /\ at[r] = "idle" /\ life = "up" /\ r \in DOMAIN rig.asks
    BY DEF AcquireSlot
  <1>4. /\ slots' \in [1..rig.slots -> SlotType]
        /\ slots'[s] = [slots[s] EXCEPT !.busy = TRUE] /\ \A x \in 1..rig.slots : x # s => slots'[x] = slots[x]
        /\ slots[s] \in SlotType
    BY <1>0, <1>2 DEF Typed, CacheTyped, SlotType
  <1>5. /\ slots'[s].busy /\ slots'[s].bound = slots[s].bound /\ slots'[s].seq = slots[s].seq
    BY <1>4 DEF SlotType
  <1>6. /\ task'[r] = [task[r] EXCEPT !.slot = s] /\ task[r] \in TaskType
        /\ \A q \in Requests : q # r => task'[q] = task[q]
        /\ at'[r] = "acquired" /\ \A q \in Requests : q # r => at'[q] = at[q]
    BY <1>0, <1>2, <1>3 DEF Typed, CallersTyped
  <1>7. /\ task'[r] \in TaskType /\ task'[r].slot = s /\ task'[r].queue = task[r].queue
        /\ task'[r].promptPos = task[r].promptPos /\ task'[r].prompt = task[r].prompt
        /\ task'[r].generated = task[r].generated /\ task'[r].max = task[r].max
        /\ task'[r].promptDone = task[r].promptDone /\ task'[r].spec = task[r].spec
        /\ task'[r].initialized = task[r].initialized
    <2>1. s \in Nat
      BY <1>0, RigAssumption DEF Typed, CacheTyped
    <2> QED BY <1>6, <2>1, ZenonT(60) DEF TaskType
  <1>8. CallersTyped'
    <2>1. task' \in [Requests -> TaskType]
      BY <1>0, <1>2, <1>6, <1>7 DEF Typed, CallersTyped
    <2> QED BY <1>0, <1>3, <2>1 DEF Typed, CallersTyped, Places
  <1>9. Typed'
    BY <1>0, <1>3, <1>4, <1>8, CallerTyped
  <1>10. Seated'
    <2>1. \A q \in Requests : q # r => /\ Holding(q)' <=> Holding(q)
                                       /\ Going(q)' <=> Going(q)
      BY <1>6 DEF Holding, Going
    <2>2. ~Going(r)' /\ Holding(r)' /\ ~Holding(r)
      BY <1>3, <1>6 DEF Holding, Going
    <2>3. \A q \in Requests : Holding(q) => task[q].slot # s /\ slots'[task[q].slot] = slots[task[q].slot]
      BY <1>0, <1>2, <1>4 DEF Seated, SeatOf
    <2>4. ~slots[s].bound
      BY <1>0, <1>2 DEF Seated
    <2>5. \A q \in Requests : Holding(q)' =>
            /\ task'[q].slot \in 1..rig.slots
            /\ SeatOf(q)'.busy /\ (SeatOf(q)'.bound <=> at'[q] # "acquired")
      <3> TAKE q \in Requests
      <3>1. CASE q = r
        BY <1>5, <1>6, <1>7, <2>4, <3>1 DEF SeatOf
      <3>2. CASE q # r
        BY <1>0, <1>6, <2>1, <2>3, <3>2 DEF Seated, SeatOf
      <3> QED BY <3>1, <3>2
    <2>6. \A p, q \in Requests : Holding(p)' /\ Holding(q)' /\ task'[p].slot = task'[q].slot => p = q
      <3> TAKE p, q \in Requests
      <3>1. CASE p # r /\ q # r
        BY <1>0, <1>6, <2>1, <3>1 DEF Seated
      <3>2. CASE p = r /\ q # r
        BY <1>6, <1>7, <2>1, <2>3, <3>2
      <3>3. CASE p # r /\ q = r
        BY <1>6, <1>7, <2>1, <2>3, <3>3
      <3> QED BY <3>1, <3>2, <3>3
    <2>7. \A x \in 1..rig.slots : slots'[x].bound => slots'[x].busy
      BY <1>0, <1>4, <1>5 DEF Seated
    <2>8. \A x, y \in 1..rig.slots : slots'[x].seq = slots'[y].seq => x = y
      <3>1. \A x \in 1..rig.slots : slots'[x].seq = slots[x].seq
        BY <1>4, <1>5
      <3> QED BY <1>0, <3>1 DEF Seated
    <2>9. \A q \in Requests : Going(q)' => task'[q].seq = SeatOf(q)'.seq
      <3>1. \A q \in Requests : Going(q) => Holding(q)
        BY DEF Going, Holding
      <3> QED BY <1>0, <1>6, <2>1, <2>2, <2>3, <3>1 DEF Seated, SeatOf
    <2>10. \A q \in Requests : Holding(q)' => life' = "up" /\ q \in DOMAIN rig'.asks
      BY <1>0, <1>3, <2>1 DEF Seated
    <2> QED BY <1>3, <2>5, <2>6, <2>7, <2>8, <2>9, <2>10 DEF Seated
  <1>11. active' = active /\ work' = work /\ pc' = pc /\ ~Queued(r)
    BY <1>0, <1>3 DEF schedVars, Alive
  <1>12. Alive'
    <2>1. task'[r].queue = <<>>
      BY <1>0, <1>3, <1>7 DEF Alive
    <2>2. at'[r] # "draining" /\ ~Queued(r)
      BY <1>6, <1>11
    <2> QED BY <1>0, <1>6, <1>11, <2>1, <2>2, AliveOther
  <1>13. Metered'
    <2>1. ~Going(r)'
      BY <1>6 DEF Going
    <2>2. /\ task'[r].promptPos <= Len(task'[r].prompt) /\ task'[r].generated <= task'[r].max
          /\ ~task'[r].promptDone => task'[r].spec = <<>>
      BY <1>0, <1>7 DEF Metered
    <2>3. at'[r] # "prepared" /\ ~Queued(r)
      BY <1>6, <1>11
    <2>4. pc = "decode" /\ r \in Members(work.tasks) /\ work.take[r] > 0 =>
           task'[r].initialized /\ (~task'[r].promptDone => task'[r].promptPos + work.take[r] <= Len(task'[r].prompt))
      BY <1>0, <1>7 DEF Metered
    <2> QED BY <1>0, <1>6, <1>11, <2>1, <2>2, <2>3, <2>4, MeteredOther
  <1> QED BY <1>9, <1>10, <1>12, <1>13 DEF Kernel

\* Exchanging two slots: what they remember changes places, who is busy stays.
Memory(a, b) == b.seq = a.seq /\ b.last = a.last /\ b.checkpoint = a.checkpoint /\ b.synced = a.synced
LEMMA ExchangedSlots ==
  ASSUME Typed, NEW own \in 1..rig.slots, NEW best \in 1..rig.slots
  PROVE  LET now == [Exchanged(own, best) EXCEPT ![own].bound = TRUE]
         IN  /\ now \in [1..rig.slots -> SlotType]
             /\ Memory(slots[best], now[own]) /\ now[own].busy = slots[own].busy /\ now[own].bound
             /\ best # own => /\ Memory(slots[own], now[best]) /\ now[best].busy = slots[best].busy
                              /\ now[best].bound = slots[own].bound
             /\ \A x \in 1..rig.slots : x # own /\ x # best => now[x] = slots[x]
  <1> DEFINE a == [slots[best] EXCEPT !.busy = slots[own].busy]
             b == [slots[own] EXCEPT !.busy = slots[best].busy]
             mid == [slots EXCEPT ![own] = a, ![best] = b]
             now == [mid EXCEPT ![own].bound = TRUE]
  <1>1. slots \in [1..rig.slots -> SlotType]
    BY DEF Typed, CacheTyped
  <1>a. ASSUME NEW x \in SlotType, NEW y \in SlotType
        PROVE  LET z == [x EXCEPT !.busy = y.busy]
               IN  z \in SlotType /\ Memory(x, z) /\ z.busy = y.busy /\ z.bound = x.bound
    <2> DEFINE w == y.busy
               z == [x EXCEPT !.busy = w]
    <2>1. w \in BOOLEAN
      BY DEF SlotType
    <2> HIDE DEF w
    <2>2. z \in SlotType /\ z.busy = w /\ z.bound = x.bound
      BY <2>1 DEF SlotType
    <2>3. Memory(x, z)
      BY DEF SlotType, Memory
    <2> QED BY <2>2, <2>3 DEF w
  <1>2. a \in SlotType /\ Memory(slots[best], a) /\ a.busy = slots[own].busy
    BY <1>1, <1>a
  <1>3. b \in SlotType /\ Memory(slots[own], b) /\ b.busy = slots[best].busy /\ b.bound = slots[own].bound
    BY <1>1, <1>a
  <1>4. own = best => a = b
    OBVIOUS
  <1>5. Exchanged(own, best) = mid
    BY DEF Exchanged
  <1> HIDE DEF a, b
  <1>6. /\ mid \in [1..rig.slots -> SlotType] /\ mid[own] = a /\ mid[best] = b
        /\ \A x \in 1..rig.slots : x # own /\ x # best => mid[x] = slots[x]
    BY <1>1, <1>2, <1>3, <1>4
  <1> HIDE DEF mid
  <1>7. [a EXCEPT !.bound = TRUE] \in SlotType /\ Memory(a, [a EXCEPT !.bound = TRUE])
        /\ [a EXCEPT !.bound = TRUE].busy = a.busy /\ [a EXCEPT !.bound = TRUE].bound = TRUE
    BY <1>2 DEF SlotType, Memory
  <1>8. /\ now \in [1..rig.slots -> SlotType] /\ now[own] = [a EXCEPT !.bound = TRUE]
        /\ \A x \in 1..rig.slots : x # own => now[x] = mid[x]
    BY <1>6, <1>7
  <1> HIDE DEF now
  <1>9. Memory(slots[best], now[own]) /\ now[own].busy = slots[own].busy /\ now[own].bound
    BY <1>2, <1>7, <1>8 DEF Memory
  <1>10. best # own => /\ Memory(slots[own], now[best]) /\ now[best].busy = slots[best].busy
                       /\ now[best].bound = slots[own].bound
    BY <1>3, <1>6, <1>8
  <1>11. \A x \in 1..rig.slots : x # own /\ x # best => now[x] = slots[x]
    BY <1>6, <1>8
  <1> QED BY <1>5, <1>8, <1>9, <1>10, <1>11 DEF now

\* What PrepareInference does, slot by slot.
Exchange(r, own, best) ==
    /\ own = task[r].slot /\ own \in 1..rig.slots /\ best \in 1..rig.slots
    /\ slots[own].busy /\ ~slots[own].bound /\ ~slots[best].bound
    /\ slots' \in [1..rig.slots -> SlotType]
    /\ Memory(slots[best], slots'[own]) /\ slots'[own].busy = slots[own].busy /\ slots'[own].bound
    /\ best # own => /\ Memory(slots[own], slots'[best]) /\ slots'[best].busy = slots[best].busy
                     /\ slots'[best].bound = slots[own].bound
    /\ \A x \in 1..rig.slots : x # own /\ x # best => slots'[x] = slots[x]
NewTask(r, own) ==
    [NoTask EXCEPT !.slot = own, !.seq = slots'[own].seq, !.prompt = Ask(r).prompt,
                   !.last = slots'[own].last, !.checkpoint = slots'[own].checkpoint,
                   !.capture = Ask(r).capture, !.max = Ask(r).max, !.synced = slots'[own].synced]
Prepares(r, own) ==
    \/ at' = [at EXCEPT ![r] = "prepared"] /\ task' = [task EXCEPT ![r] = NewTask(r, own)]
    \/ at' = [at EXCEPT ![r] = "leaving"] /\ task' = task
LEMMA PreparesSlots ==
  ASSUME Typed, Seated, NEW r \in Requests, PrepareInference(r)
  PROVE  \E own, best : Exchange(r, own, best) /\ Prepares(r, own)
  <1> DEFINE own == task[r].slot
  <1>1. Slots = 1..rig.slots
    BY SlotSet
  <1>2. Holding(r) /\ at[r] = "acquired"
    BY DEF PrepareInference, Holding
  <1>3. own \in 1..rig.slots /\ slots[own].busy /\ ~slots[own].bound
    BY <1>2, SMTT(30) DEF Seated, SeatOf
  <1>4. PICK best \in BestSlots(own, Ask(r).prompt) :
          /\ slots' = [Exchanged(own, best) EXCEPT ![own].bound = TRUE]
          /\ \/ /\ at' = [at EXCEPT ![r] = "prepared"]
                /\ task' = [task EXCEPT ![r] = NewTask(r, own)]
             \/ /\ at' = [at EXCEPT ![r] = "leaving"]
                /\ task' = task
    BY <1>3 DEF PrepareInference, NewTask
  <1>5. best \in 1..rig.slots /\ ~slots[best].bound
    BY <1>1, <1>3, <1>4 DEF BestSlots
  <1>6. Exchange(r, own, best)
    <2> HIDE DEF own
    <2>1. own = task[r].slot
      BY DEF own
    <2> QED BY <1>3, <1>4, <1>5, <2>1, ExchangedSlots, ZenonT(60) DEF Exchange
  <1> HIDE DEF own
  <1>7. Prepares(r, own)
    BY <1>4 DEF Prepares
  <1> QED BY <1>6, <1>7

LEMMA NewTaskType ==
  ASSUME Typed, Seated, NEW r \in Requests, Holding(r), NEW own \in 1..rig.slots, slots'[own] \in SlotType
  PROVE  LET t == NewTask(r, own)
         IN  /\ t \in TaskType /\ t.slot = own /\ t.seq = slots'[own].seq /\ t.last = slots'[own].last
             /\ t.checkpoint = slots'[own].checkpoint /\ t.synced = slots'[own].synced
             /\ t.queue = <<>> /\ t.promptPos = 0 /\ t.generated = 0 /\ t.max > 0 /\ t.spec = <<>>
             /\ ~t.promptDone /\ ~t.initialized /\ t.decoded = <<>> /\ t.outCheckpoint.pos = 0
             /\ Len(t.prompt) \in Nat
  <1>1. r \in DOMAIN rig.asks /\ rig \in Rigs
    BY DEF Seated, Typed, CacheTyped
  <1>2. /\ Ask(r).prompt \in Seq(Nat) /\ Ask(r).max \in Nat \ {0} /\ Ask(r).capture \in Nat /\ own \in Nat
        /\ rig.slots \in Nat
    BY <1>1, RigAssumption DEF Ask
  <1>3. NoTask \in TaskType /\ NoCheckpoint.pos = 0 /\ NoTask.outCheckpoint = NoCheckpoint
    BY DEF NoCheckpoint, Checkpoint, NoTask, TaskType, Eog
  <1>4. /\ NoTask.queue = <<>> /\ NoTask.promptPos = 0 /\ NoTask.generated = 0 /\ NoTask.spec = <<>>
        /\ ~NoTask.promptDone /\ ~NoTask.initialized /\ NoTask.decoded = <<>>
    BY DEF NoTask
  <1> DEFINE q == slots'[own].seq
             l == slots'[own].last
             c == slots'[own].checkpoint
             y == slots'[own].synced
             p == Ask(r).prompt
             m == Ask(r).max
             k == Ask(r).capture
             t == NewTask(r, own)
  <1>5. q \in Nat /\ l \in Seq(Nat) /\ c \in Checkpoint /\ y \in BOOLEAN
    BY <1>2 DEF SlotType
  <1>6. t = [NoTask EXCEPT !.slot = own, !.seq = q, !.prompt = p, !.last = l, !.checkpoint = c,
                           !.capture = k, !.max = m, !.synced = y]
    BY DEF NewTask
  <1>7. p \in Seq(Nat) /\ m \in Nat /\ m > 0 /\ k \in Nat /\ Len(p) \in Nat
    BY <1>2
  <1> HIDE DEF q, l, c, y, p, m, k, t
  <1>8. t \in TaskType
    BY <1>2, <1>3, <1>5, <1>6, <1>7 DEF TaskType
  <1>9. /\ t.slot = own /\ t.seq = q /\ t.last = l /\ t.checkpoint = c /\ t.synced = y /\ t.max = m /\ t.prompt = p
        /\ t.queue = NoTask.queue /\ t.promptPos = NoTask.promptPos /\ t.generated = NoTask.generated
        /\ t.spec = NoTask.spec /\ t.promptDone = NoTask.promptDone /\ t.initialized = NoTask.initialized
        /\ t.decoded = NoTask.decoded /\ t.outCheckpoint = NoTask.outCheckpoint
    BY <1>3, <1>6 DEF TaskType
  <1> QED BY <1>3, <1>4, <1>7, <1>8, <1>9 DEF q, l, c, y, t

LEMMA KernelPrepareInference ==
  ASSUME Kernel, NEW r \in Requests, PrepareInference(r), UNCHANGED schedVars
  PROVE  Kernel'
  <1>0. Typed /\ Seated /\ Alive /\ Metered
    BY DEF Kernel
  <1>1. PICK own, best : Exchange(r, own, best) /\ Prepares(r, own)
    BY <1>0, PreparesSlots
  <1>2. /\ own = task[r].slot /\ own \in 1..rig.slots /\ best \in 1..rig.slots
        /\ slots[own].busy /\ ~slots[own].bound /\ ~slots[best].bound
        /\ slots' \in [1..rig.slots -> SlotType]
        /\ slots'[own].seq = slots[best].seq /\ slots'[own].busy /\ slots'[own].bound
        /\ best # own => /\ slots'[best].seq = slots[own].seq /\ slots'[best].busy = slots[best].busy
                         /\ ~slots'[best].bound
        /\ \A x \in 1..rig.slots : x # own /\ x # best => slots'[x] = slots[x]
    BY <1>1 DEF Exchange, Memory
  <1>3. /\ rig' = rig /\ kv' = kv /\ draft' = draft /\ cancel' = cancel /\ stop' = stop
        /\ life' = life /\ remakes' = remakes /\ at[r] = "acquired"
    BY DEF PrepareInference
  <1>4. Holding(r) /\ slots'[own] \in SlotType
    BY <1>2, <1>3 DEF Holding
  <1> DEFINE t == NewTask(r, own)
  <1>5. /\ t \in TaskType /\ t.slot = own /\ t.seq = slots'[own].seq
        /\ t.queue = <<>> /\ t.promptPos = 0 /\ t.generated = 0 /\ t.max > 0 /\ t.spec = <<>>
        /\ ~t.promptDone /\ ~t.initialized /\ Len(t.prompt) \in Nat
    BY <1>0, <1>2, <1>4, NewTaskType
  <1> HIDE DEF t
  <1>6. /\ \/ at'[r] = "prepared" /\ task'[r] = t
           \/ at'[r] = "leaving" /\ task'[r] = task[r]
        /\ \A q \in Requests : q # r => task'[q] = task[q] /\ at'[q] = at[q]
        /\ task' \in [Requests -> TaskType] /\ at' \in [Requests -> Places]
    <2>1. task \in [Requests -> TaskType] /\ at \in [Requests -> Places]
      BY <1>0 DEF Typed, CallersTyped
    <2>2. CASE at' = [at EXCEPT ![r] = "prepared"] /\ task' = [task EXCEPT ![r] = t]
      BY <1>5, <2>1, <2>2 DEF Places
    <2>3. CASE at' = [at EXCEPT ![r] = "leaving"] /\ task' = task
      BY <2>1, <2>3 DEF Places
    <2> QED BY <1>1, <2>2, <2>3 DEF Prepares, t
  <1>7. CallersTyped'
    BY <1>0, <1>3, <1>6 DEF Typed, CallersTyped
  <1>8. Typed'
    BY <1>0, <1>2, <1>3, <1>7, CallerTyped
  <1>9. task'[r].slot = own
    BY <1>2, <1>5, <1>6
  <1>10. Seated'
    <2>1. \A q \in Requests : q # r => /\ Holding(q)' <=> Holding(q)
                                       /\ Going(q)' <=> Going(q)
      BY <1>6 DEF Holding, Going
    <2>2. Holding(r)' /\ at'[r] # "acquired"
      BY <1>6 DEF Holding
    <2>3. \A q \in Requests : q # r /\ Holding(q) => task[q].slot # own
      BY <1>0, <1>2, <1>4 DEF Seated
    <2>4. \A q \in Requests : q # r /\ Holding(q) /\ at[q] # "acquired" =>
            task[q].slot # best /\ slots'[task[q].slot] = slots[task[q].slot]
      BY <1>0, <1>2, <2>3 DEF Seated, SeatOf
    <2>5. \A q \in Requests : Holding(q)' =>
            /\ task'[q].slot \in 1..rig.slots
            /\ SeatOf(q)'.busy /\ (SeatOf(q)'.bound <=> at'[q] # "acquired")
      <3> TAKE q \in Requests
      <3>1. CASE q = r
        BY <1>2, <1>9, <2>2, <3>1 DEF SeatOf
      <3>2. CASE q # r /\ at[q] # "acquired"
        BY <1>0, <1>6, <2>1, <2>4, <3>2 DEF Seated, SeatOf
      <3>3. CASE q # r /\ at[q] = "acquired" /\ task[q].slot = best
        BY <1>0, <1>2, <1>6, <2>1, <2>3, <3>3 DEF Seated, SeatOf
      <3>4. CASE q # r /\ at[q] = "acquired" /\ task[q].slot # best
        BY <1>0, <1>2, <1>6, <2>1, <2>3, <3>4 DEF Seated, SeatOf
      <3> QED BY <3>1, <3>2, <3>3, <3>4
    <2>6. \A p, q \in Requests : Holding(p)' /\ Holding(q)' /\ task'[p].slot = task'[q].slot => p = q
      <3> TAKE p, q \in Requests
      <3>1. CASE p # r /\ q # r
        BY <1>0, <1>6, <2>1, <3>1 DEF Seated
      <3>2. CASE p = r /\ q # r
        BY <1>6, <1>9, <2>1, <2>3, <3>2
      <3>3. CASE p # r /\ q = r
        BY <1>6, <1>9, <2>1, <2>3, <3>3
      <3> QED BY <3>1, <3>2, <3>3
    <2>7. \A x \in 1..rig.slots : slots'[x].bound => slots'[x].busy
      BY <1>0, <1>2 DEF Seated
    <2>8. \A x, y \in 1..rig.slots : slots'[x].seq = slots'[y].seq => x = y
      BY <1>0, <1>2 DEF Seated
    <2>9. \A q \in Requests : Going(q)' => task'[q].seq = SeatOf(q)'.seq
      <3>1. \A q \in Requests : Going(q) => Holding(q) /\ at[q] # "acquired"
        BY DEF Going, Holding
      <3>2. Going(r)' => task'[r].seq = SeatOf(r)'.seq
        BY <1>5, <1>6, <1>9 DEF Going, SeatOf
      <3> QED BY <1>0, <1>6, <2>1, <2>4, <3>1, <3>2 DEF Seated, SeatOf
    <2>10. \A q \in Requests : Holding(q)' => life' = "up" /\ q \in DOMAIN rig'.asks
      BY <1>0, <1>3, <1>4, <2>1 DEF Seated
    <2> QED BY <1>3, <2>5, <2>6, <2>7, <2>8, <2>9, <2>10 DEF Seated
  <1>11. active' = active /\ work' = work /\ pc' = pc /\ ~Queued(r)
    BY <1>0, <1>3 DEF schedVars, Alive
  <1>12. Alive'
    <2>1. task'[r].queue = <<>> /\ at'[r] # "draining"
      BY <1>0, <1>3, <1>5, <1>6 DEF Alive
    <2> QED BY <1>0, <1>6, <1>11, <2>1, AliveOther
  <1>13. Metered'
    <2>1. Going(r)' => task'[r] = t /\ task'[r].max > 0
      BY <1>5, <1>6 DEF Going
    <2>2. /\ task'[r].promptPos <= Len(task'[r].prompt) /\ task'[r].generated <= task'[r].max
          /\ ~task'[r].promptDone => task'[r].spec = <<>>
      <3>1. t.max \in Nat
        BY <1>5 DEF TaskType
      <3> QED BY <1>0, <1>5, <1>6, <3>1 DEF Metered
    <2>3. at'[r] = "prepared" => task'[r].generated = 0
      BY <1>5, <1>6
    <2>4. r \notin Members(work.tasks)
      BY <1>0, <1>11 DEF Alive, Queued
    <2> QED BY <1>0, <1>6, <1>11, <2>1, <2>2, <2>3, <2>4, MeteredOther
  <1> QED BY <1>8, <1>10, <1>12, <1>13 DEF Kernel

\* Seats do not change when who sits where does not.
LEMMA SeatedSame ==
  ASSUME Seated, rig' = rig, life' = life,
         \A x \in 1..rig.slots : /\ slots'[x].seq = slots[x].seq /\ slots'[x].busy = slots[x].busy
                                 /\ slots'[x].bound = slots[x].bound,
         \A q \in Requests : task'[q].slot = task[q].slot /\ task'[q].seq = task[q].seq,
         \A q \in Requests : /\ Holding(q)' => Holding(q)
                             /\ Going(q)' => Going(q)
                             /\ Holding(q)' => (at'[q] = "acquired" <=> at[q] = "acquired")
  PROVE  Seated'
  <1>1. \A q \in Requests : Holding(q)' =>
          /\ task'[q].slot \in 1..rig.slots
          /\ SeatOf(q)'.busy /\ (SeatOf(q)'.bound <=> at'[q] # "acquired")
    BY DEF Seated, SeatOf
  <1>2. \A p, q \in Requests : Holding(p)' /\ Holding(q)' /\ task'[p].slot = task'[q].slot => p = q
    BY DEF Seated
  <1>3. \A x \in 1..rig.slots : slots'[x].bound => slots'[x].busy
    BY DEF Seated
  <1>4. \A x, y \in 1..rig.slots : slots'[x].seq = slots'[y].seq => x = y
    BY DEF Seated
  <1>5. \A q \in Requests : Going(q)' => task'[q].seq = SeatOf(q)'.seq
    <2>1. \A q \in Requests : Going(q) => Holding(q)
      BY DEF Going, Holding
    <2>2. \A q \in Requests : Holding(q) => task[q].slot \in 1..rig.slots
      BY DEF Seated
    <2> QED BY <2>1, <2>2 DEF Seated, SeatOf
  <1>6. \A q \in Requests : Holding(q)' => life' = "up" /\ q \in DOMAIN rig'.asks
    BY DEF Seated
  <1> QED BY <1>1, <1>2, <1>3, <1>4, <1>5, <1>6 DEF Seated

LEMMA KernelDisconnect ==
  ASSUME Kernel, NEW r \in Requests, Disconnect(r), UNCHANGED schedVars
  PROVE  Kernel'
  <1>0. Typed /\ Seated /\ Alive /\ Metered
    BY DEF Kernel
  <1>1. /\ rig' = rig /\ slots' = slots /\ kv' = kv /\ draft' = draft /\ stop' = stop /\ task' = task
        /\ at' = at /\ life' = life /\ remakes' = remakes /\ cancel' = [cancel EXCEPT ![r] = TRUE]
        /\ active' = active /\ work' = work /\ pc' = pc
    BY DEF Disconnect, schedVars
  <1>2. CallersTyped'
    BY <1>0, <1>1 DEF Typed, CallersTyped
  <1>3. slots' \in [1..rig.slots -> SlotType]
    BY <1>0, <1>1 DEF Typed, CacheTyped
  <1>4. Typed'
    BY <1>0, <1>1, <1>2, <1>3, CallerTyped
  <1>5. Seated'
    BY <1>0, <1>1 DEF Seated, Holding, Going, SeatOf
  <1>6. Alive'
    <2>1. work.done = {} \/ pc' = "finish"
      BY <1>0, <1>1 DEF Alive
    <2> QED BY <1>0, <1>1, <2>1, AliveSame
  <1>7. Metered'
    BY <1>0, <1>1 DEF Metered, Queued, Members, Going
  <1> QED BY <1>4, <1>5, <1>6, <1>7 DEF Kernel

\* A task with one more event.
Told(r, e) == [task[r] EXCEPT !.queue = Append(@, e)]
LEMMA ToldTask ==
  ASSUME Typed, NEW r \in Requests, NEW e \in Event
  PROVE  LET t == task[r]
             u == Told(r, e)
         IN  /\ u \in TaskType /\ Alike(t, u) /\ u.queue = Append(t.queue, e) /\ t.queue \in Seq(Event)
             /\ u.initialized = t.initialized /\ u.eligible = t.eligible /\ u.spec = t.spec
             /\ u.outCheckpoint = t.outCheckpoint /\ u.outSynced = t.outSynced
             /\ u.promptPos = t.promptPos /\ u.promptDone = t.promptDone /\ u.nPos = t.nPos
             /\ u.generated = t.generated /\ u.lastToken = t.lastToken
  <1> DEFINE t == task[r]
             q == Append(t.queue, e)
             u == Told(r, e)
  <1>1. t \in TaskType /\ t.queue \in Seq(Event)
    BY DEF Typed, CallersTyped, TaskType
  <1>2. q \in Seq(Event)
    BY <1>1
  <1>3. u = [t EXCEPT !.queue = q]
    BY DEF Told
  <1> HIDE DEF t, u
  <1>4. u.queue = q
    BY <1>1, <1>3 DEF TaskType
  <1> HIDE DEF q
  <1>5. u \in TaskType
    BY <1>1, <1>2, <1>3 DEF TaskType
  <1>6. Alike(t, u)
    BY <1>1, <1>3 DEF TaskType, Alike
  <1>7. /\ u.initialized = t.initialized /\ u.eligible = t.eligible /\ u.spec = t.spec
        /\ u.outCheckpoint = t.outCheckpoint /\ u.outSynced = t.outSynced
        /\ u.promptPos = t.promptPos /\ u.promptDone = t.promptDone /\ u.nPos = t.nPos
        /\ u.generated = t.generated /\ u.lastToken = t.lastToken
    BY <1>1, <1>3 DEF TaskType
  <1> QED BY <1>1, <1>4, <1>5, <1>6, <1>7 DEF t, u, q

LEMMA KernelSubmit ==
  ASSUME Kernel, NEW r \in Requests, Submit(r)
  PROVE  Kernel'
  <1>0. Typed /\ Seated /\ Alive /\ Metered
    BY DEF Kernel
  <1>1. /\ rig' = rig /\ slots' = slots /\ kv' = kv /\ draft' = draft /\ stop' = stop /\ cancel' = cancel
        /\ life' = life /\ remakes' = remakes /\ at' = [at EXCEPT ![r] = "draining"] /\ at[r] = "prepared"
        /\ terminal' = terminal /\ stopping' = stopping /\ turn' = turn /\ work' = work
    BY DEF Submit
  <1>2. /\ task[r].queue = <<>> /\ ~Queued(r) /\ Going(r)
    BY <1>0, <1>1 DEF Alive, Going
  <1>3. Failed \in Event /\ Failed \in Ends
    BY DEF Event, Ends
  <1>4. /\ \/ /\ task' = [task EXCEPT ![r] = Told(r, Failed)] /\ active' = active /\ pc' = pc
           \/ /\ task' = task /\ active' = Append(active, r) /\ pc' = IF pc = "asleep" THEN "collect" ELSE pc
    BY DEF Submit, Told
  <1> DEFINE u == Told(r, Failed)
  <1>5. /\ u \in TaskType /\ Alike(task[r], u) /\ u.queue = Append(task[r].queue, Failed)
        /\ u.initialized = task[r].initialized /\ u.spec = task[r].spec /\ u.promptPos = task[r].promptPos
        /\ u.promptDone = task[r].promptDone /\ u.generated = task[r].generated
    BY <1>0, <1>3, ToldTask
  <1> HIDE DEF u
  <1>6. /\ \A q \in Requests : q # r => task'[q] = task[q] /\ at'[q] = at[q]
        /\ at'[r] = "draining" /\ task' \in [Requests -> TaskType] /\ at' \in [Requests -> Places]
        /\ task'[r] = u \/ task'[r] = task[r]
    <2>1. task \in [Requests -> TaskType] /\ at \in [Requests -> Places]
      BY <1>0 DEF Typed, CallersTyped
    <2>2. at' \in [Requests -> Places]
      BY <1>1, <2>1 DEF Places
    <2> QED BY <1>1, <1>4, <1>5, <2>1, <2>2 DEF u
  <1>7. CallersTyped'
    BY <1>0, <1>1, <1>6 DEF Typed, CallersTyped
  <1>8. ThreadTyped'
    <2>1. Append(active, r) \in Seq(Requests) /\ active \in Seq(Requests) /\ pc \in Points
      BY <1>0 DEF Typed, ThreadTyped
    <2>2. active' \in Seq(Requests) /\ pc' \in Points
      BY <1>4, <2>1 DEF Points
    <2> QED BY <1>0, <1>1, <2>2 DEF Typed, ThreadTyped, WorkType
  <1>9. CacheTyped'
    BY <1>0, <1>1 DEF Typed, CacheTyped, SlotType
  <1>10. Typed'
    BY <1>7, <1>8, <1>9 DEF Typed
  <1>11. Seated'
    <2>1. \A q \in Requests : task'[q].slot = task[q].slot /\ task'[q].seq = task[q].seq
      BY <1>5, <1>6 DEF Alike
    <2>2. \A q \in Requests : /\ Holding(q)' => Holding(q)
                              /\ Going(q)' => Going(q)
                              /\ Holding(q)' => (at'[q] = "acquired" <=> at[q] = "acquired")
      BY <1>1, <1>6 DEF Holding, Going
    <2> QED BY <1>0, <1>1, <2>1, <2>2, SeatedSame
  <1>12. CASE task'[r] = u /\ active' = active /\ pc' = pc
    <2>1. u.queue = <<Failed>> /\ Len(u.queue) = 1 /\ u.queue[1] = Failed
      BY <1>2, <1>5
    <2>2. Alive'
      <3>1. /\ Len(task'[r].queue) > 0 /\ task'[r].queue[Len(task'[r].queue)] \in Ends
            /\ \A i \in 1..(Len(task'[r].queue) - 1) : task'[r].queue[i] \notin Ends
        BY <1>3, <1>12, <2>1
      <3>2. at'[r] \notin {"idle", "acquired", "prepared", "over"}
        BY <1>6
      <3> QED BY <1>0, <1>1, <1>2, <1>6, <1>12, <3>1, <3>2, AliveOther
    <2>3. Metered'
      <3>1. /\ u.promptPos <= Len(u.prompt) /\ u.generated <= u.max /\ u.max > 0
            /\ ~u.promptDone => u.spec = <<>>
        BY <1>0, <1>2, <1>5 DEF Metered, Alike
      <3>2. at'[r] # "prepared" /\ r \notin Members(work.tasks)
        BY <1>0, <1>2, <1>6 DEF Alive, Queued
      <3> QED BY <1>0, <1>1, <1>2, <1>6, <1>12, <3>1, <3>2, MeteredOther
    <2> QED BY <1>10, <1>11, <2>2, <2>3 DEF Kernel
  <1>13. CASE task' = task /\ active' = Append(active, r) /\ pc' = IF pc = "asleep" THEN "collect" ELSE pc
    <2>1. Members(active') = Members(active) \cup {r}
      BY <1>0, <1>13, AppendMembers DEF Typed, ThreadTyped
    <2>2. /\ \A q \in Requests : Queued(q)' <=> Queued(q) \/ q = r
          /\ Members(work.tasks)' = Members(work.tasks) /\ Members(work.runnable)' = Members(work.runnable)
          /\ Members(active)' = Members(active')
      BY <1>1, <2>1 DEF Queued, Members
    <2>3. Alive'
      <3>1. Len(task[r].queue) = 0
        BY <1>2
      <3>2. \A q \in Requests : Queued(q)' => \A i \in 1..Len(task'[q].queue) : task'[q].queue[i] \notin Ends
        BY <1>0, <1>13, <2>2, <3>1 DEF Alive
      <3>3. \A q \in Requests : at'[q] = "draining" /\ ~Queued(q)' =>
              /\ Len(task'[q].queue) > 0 /\ task'[q].queue[Len(task'[q].queue)] \in Ends
              /\ \A i \in 1..(Len(task'[q].queue) - 1) : task'[q].queue[i] \notin Ends
        BY <1>0, <1>6, <1>13, <2>2 DEF Alive
      <3>4. \A q \in Requests : Queued(q)' => at'[q] = "draining"
        BY <1>0, <1>6, <2>2 DEF Alive
      <3>5. \A q \in Requests : at'[q] \in {"idle", "acquired", "prepared", "over"} => task'[q].queue = <<>>
        BY <1>0, <1>6, <1>13 DEF Alive
      <3>6. work.done # {} => pc' = "finish"
        BY <1>0, <1>13 DEF Alive
      <3> QED BY <1>0, <1>1, <2>1, <2>2, <3>2, <3>3, <3>4, <3>5, <3>6 DEF Alive, Ends
    <2>4. Metered'
      <3>1. \A q \in Requests : Going(q)' => Going(q)
        BY <1>1, <1>6 DEF Going
      <3>2. task[r].generated < task[r].max
        <4>1. task[r].generated = 0 /\ task[r].max > 0
          BY <1>0, <1>1, <1>2 DEF Metered
        <4> QED BY <4>1
      <3>3. pc' = "decode" => pc = "decode"
        BY <1>13
      <3>4. \A q \in Requests : at'[q] = "prepared" => at[q] = "prepared"
        BY <1>1, <1>6
      <3> QED BY <1>0, <1>1, <1>13, <2>2, <3>1, <3>2, <3>3, <3>4 DEF Metered
    <2> QED BY <1>10, <1>11, <2>3, <2>4 DEF Kernel
  <1> QED BY <1>4, <1>12, <1>13, <1>0 DEF Typed, CallersTyped, u

\* What is left of a task when its caller took an event.
Popped(t, u) ==
    /\ u \in TaskType /\ u.queue = Tail(t.queue)
    /\ u.slot = t.slot /\ u.seq = t.seq /\ u.prompt = t.prompt /\ u.capture = t.capture /\ u.max = t.max
    /\ u.last = t.last /\ u.checkpoint = t.checkpoint /\ u.synced = t.synced /\ u.admitted = t.admitted
    /\ u.initialized = t.initialized /\ u.eligible = t.eligible /\ u.spec = t.spec
    /\ u.outCheckpoint = t.outCheckpoint /\ u.outSynced = t.outSynced
    /\ u.promptPos = t.promptPos /\ u.promptDone = t.promptDone /\ u.nPos = t.nPos
    /\ u.generated = t.generated /\ u.lastToken = t.lastToken
Drains(r, event) ==
    /\ task' = [task EXCEPT ![r] = task'[r]]
    /\ Popped(task[r], task'[r])
    /\ task[r].queue \in Seq(Event) /\ Len(task[r].queue) > 0 /\ event = task[r].queue[1]
    /\ \/ /\ event \in Ends /\ at' = [at EXCEPT ![r] = IF event = Done THEN "drained" ELSE "leaving"]
          /\ task'[r].decoded = task[r].decoded /\ cancel' = cancel /\ stop' = stop
       \/ /\ event \notin Ends /\ at' = at
          /\ \/ stop[r] /\ stop' = stop /\ cancel' = cancel /\ task'[r].decoded = task[r].decoded
             \/ /\ ~Voiced /\ stop' = stop /\ cancel' = cancel /\ task'[r].decoded = task[r].decoded
             \/ /\ ~stop[r] /\ stop' = [stop EXCEPT ![r] = TRUE] /\ cancel' = cancel
                /\ task'[r].decoded = task[r].decoded
             \/ /\ ~stop[r] /\ stop' = stop /\ task'[r].decoded = Append(task[r].decoded, event)
                /\ \/ cancel' = cancel
                   \/ cancel' = [cancel EXCEPT ![r] = TRUE]
LEMMA DrainOnce ==
  ASSUME Typed, Seated, NEW r \in Requests, Drain(r)
  PROVE  \E event : Drains(r, event)
  <1> DEFINE t == task[r]
             event == Head(t.queue)
             q == Tail(t.queue)
             d == Append(t.decoded, event)
             popped == [task EXCEPT ![r].queue = q]
             kept == [popped EXCEPT ![r].decoded = d]
             one == [t EXCEPT !.queue = q]
             two == [one EXCEPT !.decoded = d]
  <1>1. task \in [Requests -> TaskType] /\ t \in TaskType /\ t.queue \in Seq(Event) /\ t.decoded \in Seq(Nat)
    BY DEF Typed, CallersTyped, TaskType
  <1>2. Len(t.queue) > 0 /\ event = t.queue[1] /\ q \in Seq(Event) /\ event \in Event
    <2>1. t.queue # <<>>
      BY DEF Drain
    <2> HIDE DEF t
    <2> QED BY <1>1, <2>1
  <1>3. popped = [task EXCEPT ![r] = one] /\ popped[r] = one
    BY <1>1
  <1>4. kept = [task EXCEPT ![r] = two] /\ kept[r] = two
    <2>1. popped[r].decoded = t.decoded
      BY <1>1, <1>3 DEF TaskType
    <2> HIDE DEF one, d, q
    <2> QED BY <1>1, <1>3
  <1>5. /\ \/ /\ event \in {Done, Failed} /\ at' = [at EXCEPT ![r] = IF event = Done THEN "drained" ELSE "leaving"]
              /\ task' = popped /\ cancel' = cancel /\ stop' = stop
           \/ /\ event \notin {Done, Failed} /\ at' = at
              /\ \/ (stop[r] \/ ~Voiced) /\ task' = popped /\ cancel' = cancel /\ stop' = stop
                 \/ ~stop[r] /\ stop' = [stop EXCEPT ![r] = TRUE] /\ task' = popped /\ cancel' = cancel
                 \/ /\ ~stop[r] /\ task' = kept /\ stop' = stop
                    /\ cancel' = cancel \/ cancel' = [cancel EXCEPT ![r] = TRUE]
    <2>1. [popped EXCEPT ![r].decoded = Append(@, event)] = kept
      <3>1. popped[r].decoded = t.decoded
        BY <1>1, <1>3 DEF TaskType
      <3> HIDE DEF popped
      <3>2. popped[r].decoded = t.decoded
        BY <3>1
      <3> QED BY <3>2
    <2>2. Ask(r).streams /\ event \in rig.silent => ~Voiced
      <3>1. at[r] = "draining"
        BY DEF Drain
      <3>2. r \in DOMAIN rig.asks
        BY <3>1 DEF Seated, Holding
      <3> HIDE DEF event
      <3> QED BY <3>2 DEF Voiced, Ask
    <2> HIDE DEF kept
    <2> QED BY <2>1, <2>2 DEF Drain
  <1> HIDE DEF popped, kept, q, event
  <1>6. one \in TaskType /\ one.queue = q /\ one.decoded = t.decoded /\ Popped(t, one)
    <2> HIDE DEF t
    <2>1. one \in TaskType /\ one.queue = q
      BY <1>1, <1>2 DEF TaskType
    <2>2. one.decoded = t.decoded
      BY <1>1 DEF TaskType
    <2>3. Popped(t, one)
      BY <1>1, <2>1 DEF TaskType, Popped, q
    <2> QED BY <2>1, <2>2, <2>3
  <1> HIDE DEF one
  <1>7. event \notin Ends => two.decoded = d /\ Popped(t, two)
    <2> SUFFICES ASSUME event \notin Ends PROVE two.decoded = d /\ Popped(t, two)
      OBVIOUS
    <2>1. event \in Nat
      BY <1>2 DEF Event, Ends
    <2>2. d \in Seq(Nat)
      BY <1>1, <2>1
    <2> HIDE DEF d, t
    <2>3. two \in TaskType /\ two.decoded = d
      BY <1>6, <2>2 DEF TaskType
    <2>4. Popped(t, two)
      BY <1>6, <2>3 DEF TaskType, Popped
    <2> QED BY <2>3, <2>4
  <1> HIDE DEF two
  <1>8. task' = [task EXCEPT ![r] = task'[r]]
    BY <1>1, <1>3, <1>4, <1>5
  <1>9. Drains(r, event)
    <2>1. task' = popped => task'[r] = one
      BY <1>3
    <2>2. task' = kept => task'[r] = two
      BY <1>4
    <2>3. CASE event \in Ends
      BY <1>1, <1>2, <1>5, <1>6, <1>8, <2>1, <2>3 DEF Drains, Ends
    <2>4. CASE event \notin Ends
      <3>1. \/ (stop[r] \/ ~Voiced) /\ task' = popped /\ cancel' = cancel /\ stop' = stop
            \/ ~stop[r] /\ stop' = [stop EXCEPT ![r] = TRUE] /\ task' = popped /\ cancel' = cancel
            \/ /\ ~stop[r] /\ task' = kept /\ stop' = stop
               /\ cancel' = cancel \/ cancel' = [cancel EXCEPT ![r] = TRUE]
        BY <1>5, <2>4 DEF Ends
      <3>2. at' = at
        BY <1>5, <2>4 DEF Ends
      <3>3. Popped(task[r], task'[r])
        BY <1>6, <1>7, <2>1, <2>2, <2>4, <3>1
      <3>4. \/ stop[r] /\ stop' = stop /\ cancel' = cancel /\ task'[r].decoded = task[r].decoded
            \/ /\ ~Voiced /\ stop' = stop /\ cancel' = cancel /\ task'[r].decoded = task[r].decoded
            \/ /\ ~stop[r] /\ stop' = [stop EXCEPT ![r] = TRUE] /\ cancel' = cancel
               /\ task'[r].decoded = task[r].decoded
            \/ /\ ~stop[r] /\ stop' = stop /\ task'[r].decoded = Append(task[r].decoded, event)
               /\ \/ cancel' = cancel
                  \/ cancel' = [cancel EXCEPT ![r] = TRUE]
        BY <1>6, <1>7, <2>1, <2>2, <2>4, <3>1 DEF d
      <3> QED BY <1>1, <1>2, <1>8, <2>4, <3>2, <3>3, <3>4 DEF Drains
    <2> QED BY <2>3, <2>4
  <1> QED BY <1>9

LEMMA TailPlaces ==
  ASSUME NEW R, NEW q \in Seq(R), Len(q) > 0
  PROVE  /\ Tail(q) \in Seq(R) /\ Len(Tail(q)) = Len(q) - 1 /\ Len(q) \in Nat
         /\ \A i \in 1..Len(Tail(q)) : Tail(q)[i] = q[i + 1]
  OBVIOUS

LEMMA KernelDrain ==
  ASSUME Kernel, NEW r \in Requests, Drain(r), UNCHANGED schedVars
  PROVE  Kernel'
  <1>0. Typed /\ Seated /\ Alive /\ Metered
    BY DEF Kernel
  <1>1. /\ rig' = rig /\ slots' = slots /\ kv' = kv /\ draft' = draft
        /\ life' = life /\ remakes' = remakes /\ at[r] = "draining"
        /\ active' = active /\ work' = work /\ pc' = pc
    BY DEF Drain, schedVars
  <1>2. PICK event : Drains(r, event)
    BY <1>0, DrainOnce
  <1> DEFINE t == task[r]
             u == task'[r]
  <1>3. /\ Popped(t, u) /\ \A q \in Requests : q # r => task'[q] = task[q]
        /\ task' \in [Requests -> TaskType]
    <2>1. task \in [Requests -> TaskType]
      BY <1>0 DEF Typed, CallersTyped
    <2>2. Popped(t, u) /\ task' = [task EXCEPT ![r] = u]
      BY <1>2 DEF Drains
    <2>3. u \in TaskType
      BY <2>2 DEF Popped
    <2> HIDE DEF u
    <2> QED BY <2>1, <2>2, <2>3
  <1>4. /\ at' \in [Requests -> Places] /\ \A q \in Requests : q # r => at'[q] = at[q]
        /\ at'[r] \in {"draining", "drained", "leaving"}
        /\ event \notin Ends => at'[r] = "draining"
        /\ event \in Ends => at'[r] # "draining"
    BY <1>0, <1>1, <1>2 DEF Drains, Typed, CallersTyped, Places
  <1>5. CallersTyped'
    <2>1. cancel' \in [Requests -> BOOLEAN] /\ stop' \in [Requests -> BOOLEAN]
      BY <1>0, <1>2 DEF Drains, Typed, CallersTyped
    <2> QED BY <1>3, <1>4, <2>1 DEF CallersTyped
  <1>6. slots' \in [1..rig.slots -> SlotType]
    BY <1>0, <1>1 DEF Typed, CacheTyped
  <1>7. Typed'
    BY <1>0, <1>1, <1>5, <1>6, CallerTyped
  <1>8. Seated'
    <2>1. \A q \in Requests : task'[q].slot = task[q].slot /\ task'[q].seq = task[q].seq
      BY <1>3 DEF Popped
    <2>2. \A q \in Requests : /\ Holding(q)' => Holding(q)
                              /\ Going(q)' => Going(q)
                              /\ Holding(q)' => (at'[q] = "acquired" <=> at[q] = "acquired")
      BY <1>1, <1>4 DEF Holding, Going
    <2> QED BY <1>0, <1>1, <2>1, <2>2, SeatedSame
  <1>9. /\ t.queue \in Seq(Event) /\ Len(t.queue) > 0 /\ event = t.queue[1] /\ u.queue = Tail(t.queue)
    BY <1>2 DEF Drains, Popped
  <1>10. /\ Len(u.queue) = Len(t.queue) - 1 /\ Len(t.queue) \in Nat
         /\ \A i \in 1..Len(u.queue) : u.queue[i] = t.queue[i + 1]
    BY <1>9, TailPlaces
  <1>11. Alive'
    <2>1. Queued(r) => at'[r] = "draining" /\ \A i \in 1..Len(u.queue) : u.queue[i] \notin Ends
      <3> SUFFICES ASSUME Queued(r)
                   PROVE  at'[r] = "draining" /\ \A i \in 1..Len(u.queue) : u.queue[i] \notin Ends
        OBVIOUS
      <3>1. \A i \in 1..Len(t.queue) : t.queue[i] \notin Ends
        BY <1>0 DEF Alive
      <3> HIDE DEF t, u
      <3>2. event \notin Ends
        BY <1>9, <1>10, <3>1
      <3>3. \A i \in 1..Len(u.queue) : i + 1 \in 1..Len(t.queue)
        BY <1>10
      <3> QED BY <1>4, <1>10, <3>1, <3>2, <3>3
    <2>2. at'[r] = "draining" /\ ~Queued(r) =>
           /\ Len(u.queue) > 0 /\ u.queue[Len(u.queue)] \in Ends
           /\ \A i \in 1..(Len(u.queue) - 1) : u.queue[i] \notin Ends
      <3> SUFFICES ASSUME at'[r] = "draining", ~Queued(r)
                   PROVE  /\ Len(u.queue) > 0 /\ u.queue[Len(u.queue)] \in Ends
                          /\ \A i \in 1..(Len(u.queue) - 1) : u.queue[i] \notin Ends
        OBVIOUS
      <3>1. t.queue[Len(t.queue)] \in Ends /\ \A i \in 1..(Len(t.queue) - 1) : t.queue[i] \notin Ends
        BY <1>0, <1>1 DEF Alive
      <3>2. event \notin Ends
        BY <1>4
      <3> HIDE DEF t, u
      <3>3. Len(t.queue) > 1
        BY <1>9, <1>10, <3>1, <3>2
      <3>4. u.queue[Len(u.queue)] = t.queue[Len(t.queue)]
        BY <1>10, <3>3
      <3>5. \A i \in 1..(Len(u.queue) - 1) : i + 1 \in 1..(Len(t.queue) - 1) /\ u.queue[i] = t.queue[i + 1]
        BY <1>10, <3>3
      <3>6. \A i \in 1..(Len(u.queue) - 1) : u.queue[i] \notin Ends
        BY <3>1, <3>5
      <3>7. Len(u.queue) > 0
        BY <1>10, <3>3
      <3> QED BY <3>1, <3>4, <3>6, <3>7
    <2> QED BY <1>0, <1>1, <1>3, <1>4, <2>1, <2>2, AliveOther
  <1>12. Metered'
    <2>1. /\ u.promptPos <= Len(u.prompt) /\ u.generated <= u.max
          /\ ~u.promptDone => u.spec = <<>>
          /\ Queued(r) /\ r \notin work.done => u.generated < u.max
      BY <1>0, <1>3 DEF Metered, Popped
    <2>2. u.max > 0
      <3>1. Going(r)
        BY <1>1 DEF Going
      <3> QED BY <1>0, <1>3, <3>1 DEF Metered, Popped
    <2>3. pc = "decode" /\ r \in Members(work.tasks) /\ work.take[r] > 0 =>
           u.initialized /\ (~u.promptDone => u.promptPos + work.take[r] <= Len(u.prompt))
      BY <1>0, <1>3 DEF Metered, Popped
    <2> QED BY <1>0, <1>1, <1>3, <1>4, <2>1, <2>2, <2>3, MeteredOther
  <1> QED BY <1>7, <1>8, <1>11, <1>12 DEF Kernel

\* A slot that remembers a task sits where it did.
LEMMA RememberedSlot ==
  ASSUME NEW s \in SlotType, NEW t \in TaskType, NEW c \in BOOLEAN
  PROVE  LET u == Remembered(s, t, c)
         IN  /\ u \in SlotType /\ u.seq = s.seq /\ u.busy = s.busy /\ u.bound = s.bound
             /\ ~t.initialized => u = s
             /\ t.initialized /\ c => u.last = <<>> /\ u.checkpoint = NoCheckpoint /\ u.synced = FALSE
             /\ t.initialized /\ ~c => /\ u.last = t.prompt \o t.decoded
                                       /\ u.checkpoint = t.outCheckpoint /\ u.synced = t.outSynced
  <1> DEFINE u == Remembered(s, t, c)
             l == t.prompt \o t.decoded
             k == t.outCheckpoint
             y == t.outSynced
             e == <<>>
  <1> SUFFICES /\ u \in SlotType /\ u.seq = s.seq /\ u.busy = s.busy /\ u.bound = s.bound
               /\ ~t.initialized => u = s
               /\ t.initialized /\ c => u.last = <<>> /\ u.checkpoint = NoCheckpoint /\ u.synced = FALSE
               /\ t.initialized /\ ~c => u.last = l /\ u.checkpoint = k /\ u.synced = y
    OBVIOUS
  <1>1. l \in Seq(Nat) /\ k \in Checkpoint /\ y \in BOOLEAN /\ t.initialized \in BOOLEAN
    BY DEF TaskType
  <1>2. NoCheckpoint \in Checkpoint /\ e \in Seq(Nat)
    BY DEF NoCheckpoint, Checkpoint
  <1>3. u = IF ~t.initialized THEN s
            ELSE IF c THEN [s EXCEPT !.last = e, !.checkpoint = NoCheckpoint, !.synced = FALSE]
            ELSE [s EXCEPT !.last = l, !.checkpoint = k, !.synced = y]
    BY DEF Remembered
  <1> HIDE DEF l, k, y, e, u
  <1>4. CASE ~t.initialized
    BY <1>3, <1>4
  <1>5. CASE t.initialized /\ c
    BY <1>2, <1>3, <1>5 DEF SlotType, e
  <1>6. CASE t.initialized /\ ~c
    BY <1>1, <1>3, <1>6 DEF SlotType
  <1> QED BY <1>1, <1>4, <1>5, <1>6

LEMMA KernelUpdateSlot ==
  ASSUME Kernel, NEW r \in Requests, UpdateSlot(r), UNCHANGED schedVars
  PROVE  Kernel'
  <1>0. Typed /\ Seated /\ Alive /\ Metered
    BY DEF Kernel
  <1>1. /\ rig' = rig /\ kv' = kv /\ draft' = draft /\ task' = task /\ cancel' = cancel /\ stop' = stop
        /\ life' = life /\ remakes' = remakes /\ at[r] = "drained" /\ at' = [at EXCEPT ![r] = "leaving"]
        /\ active' = active /\ work' = work /\ pc' = pc
    BY DEF UpdateSlot, schedVars
  <1> DEFINE s == task[r].slot
             now == Remembered(slots[s], task[r], cancel[r])
  <1>2. Holding(r) /\ s \in 1..rig.slots
    BY <1>0, <1>1 DEF Holding, Seated
  <1>3. slots' = [slots EXCEPT ![s] = now]
    BY DEF UpdateSlot
  <1>4. slots \in [1..rig.slots -> SlotType] /\ task[r] \in TaskType /\ cancel[r] \in BOOLEAN
    BY <1>0 DEF Typed, CacheTyped, CallersTyped
  <1>5. now \in SlotType /\ now.seq = slots[s].seq /\ now.busy = slots[s].busy /\ now.bound = slots[s].bound
    BY <1>2, <1>4, RememberedSlot
  <1> HIDE DEF now, s
  <1>6. /\ slots' \in [1..rig.slots -> SlotType]
        /\ \A x \in 1..rig.slots : /\ slots'[x].seq = slots[x].seq /\ slots'[x].busy = slots[x].busy
                                   /\ slots'[x].bound = slots[x].bound
    BY <1>2, <1>3, <1>4, <1>5
  <1>7. /\ at' \in [Requests -> Places] /\ \A q \in Requests : q # r => at'[q] = at[q]
        /\ at'[r] = "leaving"
    BY <1>0, <1>1 DEF Typed, CallersTyped, Places
  <1>8. CallersTyped'
    BY <1>0, <1>1, <1>7 DEF Typed, CallersTyped
  <1>9. Typed'
    BY <1>0, <1>1, <1>6, <1>8, CallerTyped
  <1>10. Seated'
    <2>1. \A q \in Requests : /\ Holding(q)' => Holding(q)
                              /\ Going(q)' => Going(q)
                              /\ Holding(q)' => (at'[q] = "acquired" <=> at[q] = "acquired")
      BY <1>1, <1>7 DEF Holding, Going
    <2> QED BY <1>0, <1>1, <1>6, <2>1, SeatedSame
  <1>11. ~Queued(r)
    BY <1>0, <1>1 DEF Alive
  <1>12. Alive'
    BY <1>0, <1>1, <1>7, <1>11, AliveOther
  <1>13. Metered'
    <2>1. r \notin Members(work.tasks)
      BY <1>0, <1>11 DEF Alive, Queued
    <2>2. ~Going(r)' /\ at'[r] # "prepared"
      BY <1>7 DEF Going
    <2>3. /\ task'[r].promptPos <= Len(task'[r].prompt) /\ task'[r].generated <= task'[r].max
          /\ ~task'[r].promptDone => task'[r].spec = <<>>
      BY <1>0, <1>1 DEF Metered
    <2> QED BY <1>0, <1>1, <1>7, <1>11, <2>1, <2>2, <2>3, MeteredOther
  <1> QED BY <1>9, <1>10, <1>12, <1>13 DEF Kernel

LEMMA KernelReleaseSlot ==
  ASSUME Kernel, NEW r \in Requests, ReleaseSlot(r), UNCHANGED schedVars
  PROVE  Kernel'
  <1>0. Typed /\ Seated /\ Alive /\ Metered
    BY DEF Kernel
  <1>1. /\ rig' = rig /\ kv' = kv /\ draft' = draft /\ life' = life /\ remakes' = remakes
        /\ task' = [task EXCEPT ![r] = NoTask] /\ at[r] = "leaving" /\ at' = [at EXCEPT ![r] = "over"]
        /\ cancel' = [cancel EXCEPT ![r] = FALSE] /\ stop' = [stop EXCEPT ![r] = FALSE]
        /\ active' = active /\ work' = work /\ pc' = pc
    BY DEF ReleaseSlot, schedVars
  <1> DEFINE s == task[r].slot
             now == [slots[s] EXCEPT !.busy = FALSE, !.bound = FALSE]
  <1>2. Holding(r) /\ s \in 1..rig.slots
    BY <1>0, <1>1 DEF Holding, Seated
  <1>3. slots \in [1..rig.slots -> SlotType] /\ task \in [Requests -> TaskType]
    BY <1>0 DEF Typed, CacheTyped, CallersTyped
  <1>4. now \in SlotType /\ now.seq = slots[s].seq /\ ~now.busy /\ ~now.bound
    <2> DEFINE o == slots[s]
    <2>1. o \in SlotType
      BY <1>2, <1>3
    <2> HIDE DEF o
    <2>2. [o EXCEPT !.busy = FALSE, !.bound = FALSE] \in SlotType
      BY <2>1 DEF SlotType
    <2>3. /\ [o EXCEPT !.busy = FALSE, !.bound = FALSE].seq = o.seq
          /\ ~[o EXCEPT !.busy = FALSE, !.bound = FALSE].busy
          /\ ~[o EXCEPT !.busy = FALSE, !.bound = FALSE].bound
      BY <2>1 DEF SlotType
    <2> QED BY <2>2, <2>3 DEF o
  <1>5. slots' = [slots EXCEPT ![s] = now]
    <2> HIDE DEF s
    <2>1. slots' = [slots EXCEPT ![s].busy = FALSE, ![s].bound = FALSE]
      BY DEF ReleaseSlot, s
    <2> QED BY <1>2, <1>3, <2>1
  <1> HIDE DEF now
  <1>6. /\ slots' \in [1..rig.slots -> SlotType] /\ slots'[s] = now
        /\ \A x \in 1..rig.slots : x # s => slots'[x] = slots[x]
    BY <1>2, <1>3, <1>4, <1>5
  <1>7. /\ at' \in [Requests -> Places] /\ \A q \in Requests : q # r => at'[q] = at[q] /\ task'[q] = task[q]
        /\ at'[r] = "over" /\ task'[r] = NoTask
    BY <1>0, <1>1 DEF Typed, CallersTyped, Places
  <1>8. /\ NoTask \in TaskType /\ NoTask.queue = <<>> /\ NoTask.promptPos = 0 /\ NoTask.prompt = <<>>
        /\ NoTask.generated = 0 /\ NoTask.max = 0 /\ NoTask.spec = <<>>
    BY DEF NoCheckpoint, Checkpoint, NoTask, TaskType, Eog
  <1>9. CallersTyped'
    BY <1>0, <1>1, <1>7, <1>8 DEF Typed, CallersTyped
  <1>10. Typed'
    BY <1>0, <1>1, <1>6, <1>9, CallerTyped
  <1>11. Seated'
    <2>1. \A q \in Requests : /\ Holding(q)' <=> Holding(q) /\ q # r
                              /\ Going(q)' <=> Going(q)
      BY <1>1, <1>7 DEF Holding, Going
    <2>2. \A q \in Requests : Holding(q) /\ q # r => task[q].slot # s /\ slots'[task[q].slot] = slots[task[q].slot]
      BY <1>0, <1>2, <1>6 DEF Seated, SeatOf
    <2>3. \A q \in Requests : Holding(q)' =>
            /\ task'[q].slot \in 1..rig.slots
            /\ SeatOf(q)'.busy /\ (SeatOf(q)'.bound <=> at'[q] # "acquired")
      BY <1>0, <1>7, <2>1, <2>2 DEF Seated, SeatOf
    <2>4. \A p, q \in Requests : Holding(p)' /\ Holding(q)' /\ task'[p].slot = task'[q].slot => p = q
      BY <1>0, <1>7, <2>1 DEF Seated
    <2>5. \A x \in 1..rig.slots : slots'[x].bound => slots'[x].busy
      BY <1>0, <1>4, <1>6 DEF Seated
    <2>6. \A x, y \in 1..rig.slots : slots'[x].seq = slots'[y].seq => x = y
      <3>1. \A x \in 1..rig.slots : slots'[x].seq = slots[x].seq
        BY <1>4, <1>6
      <3> QED BY <1>0, <3>1 DEF Seated
    <2>7. \A q \in Requests : Going(q)' => task'[q].seq = SeatOf(q)'.seq
      <3>1. \A q \in Requests : Going(q) => Holding(q) /\ q # r
        BY <1>1 DEF Going, Holding
      <3> QED BY <1>0, <1>7, <2>1, <2>2, <3>1 DEF Seated, SeatOf
    <2>8. \A q \in Requests : Holding(q)' => life' = "up" /\ q \in DOMAIN rig'.asks
      BY <1>0, <1>1, <2>1 DEF Seated
    <2> QED BY <1>1, <2>3, <2>4, <2>5, <2>6, <2>7, <2>8 DEF Seated
  <1>12. ~Queued(r)
    BY <1>0, <1>1 DEF Alive
  <1>13. Alive'
    BY <1>0, <1>1, <1>7, <1>8, <1>12, AliveOther
  <1>14. Metered'
    <2>1. r \notin Members(work.tasks)
      BY <1>0, <1>12 DEF Alive, Queued
    <2>2. ~Going(r)' /\ at'[r] # "prepared"
      BY <1>7 DEF Going
    <2>3. /\ task'[r].promptPos <= Len(task'[r].prompt) /\ task'[r].generated <= task'[r].max
          /\ ~task'[r].promptDone => task'[r].spec = <<>>
      BY <1>7, <1>8
    <2> QED BY <1>0, <1>1, <1>7, <1>12, <2>1, <2>2, <2>3, MeteredOther
  <1> QED BY <1>10, <1>11, <1>13, <1>14 DEF Kernel

----------------------------------------------------------------------------
(* The thread. *)

\* The thread leaves seats, places and flags alone.
Untouched == UNCHANGED <<rig, slots, at, cancel, stop, life, remakes>>
\* What stays of a task that is admitted, told its last event or undrafted.
Steady(t, u) ==
    /\ u \in TaskType /\ u.slot = t.slot /\ u.seq = t.seq /\ u.prompt = t.prompt /\ u.capture = t.capture
    /\ u.max = t.max /\ u.last = t.last /\ u.checkpoint = t.checkpoint /\ u.synced = t.synced
    /\ u.decoded = t.decoded /\ u.initialized = t.initialized /\ u.eligible = t.eligible
    /\ u.outCheckpoint = t.outCheckpoint /\ u.outSynced = t.outSynced /\ u.promptPos = t.promptPos
    /\ u.promptDone = t.promptDone /\ u.nPos = t.nPos /\ u.generated = t.generated
    /\ u.lastToken = t.lastToken

LEMMA SteadySame == ASSUME Typed, NEW r \in Requests PROVE Steady(task[r], task[r])
  BY DEF Typed, CallersTyped, Steady

LEMMA SteadyTold ==
  ASSUME Typed, NEW r \in Requests, NEW e \in Event
  PROVE  /\ Steady(task[r], Told(r, e)) /\ Told(r, e).queue = Append(task[r].queue, e)
         /\ Told(r, e).spec = task[r].spec /\ Told(r, e).admitted = task[r].admitted
  BY ToldTask DEF Steady, Alike

LEMMA ThreadSeated ==
  ASSUME Seated, Untouched, \A q \in Requests : task'[q].slot = task[q].slot /\ task'[q].seq = task[q].seq
  PROVE  Seated'
  <1>1. rig' = rig /\ slots' = slots /\ at' = at /\ life' = life
    BY DEF Untouched
  <1>2. \A q \in Requests : /\ Holding(q)' => Holding(q)
                            /\ Going(q)' => Going(q)
                            /\ Holding(q)' => (at'[q] = "acquired" <=> at[q] = "acquired")
    BY <1>1 DEF Holding, Going
  <1> QED BY <1>1, <1>2, SeatedSame

LEMMA ThreadCacheTyped ==
  ASSUME Typed, Untouched, kv' \in [1..rig.slots -> Seq(Nat)], draft' \in [1..rig.slots -> Seq(Nat)],
         \A q \in Requests : task'[q] \in TaskType, \E f : task' = [q \in Requests |-> f[q]]
  PROVE  CacheTyped' /\ CallersTyped'
  <1>1. /\ rig' = rig /\ slots' = slots /\ at' = at /\ life' = life /\ remakes' = remakes
        /\ cancel' = cancel /\ stop' = stop
    BY DEF Untouched
  <1>2. CacheTyped'
    BY <1>1 DEF Typed, CacheTyped, SlotType
  <1>3. task' \in [Requests -> TaskType]
    <2>1. PICK f : task' = [q \in Requests |-> f[q]]
      OBVIOUS
    <2>2. \A q \in Requests : f[q] \in TaskType
      BY <2>1
    <2> QED BY <2>1, <2>2
  <1>4. CallersTyped'
    BY <1>1, <1>3 DEF Typed, CallersTyped
  <1> QED BY <1>2, <1>4

\* A step that retires some of the active tasks with their last event.
LEMMA AliveRetire ==
  ASSUME Typed, Alive, at' = at, NEW out, out \subseteq Members(active), Members(active') = Members(active) \ out,
         \A q \in Requests : IF q \in out THEN \E e \in Ends : task'[q].queue = Append(task[q].queue, e)
                             ELSE task'[q].queue = task[q].queue,
         Members(work'.tasks) \subseteq Members(active'), Members(work'.runnable) \subseteq Members(work'.tasks),
         work'.done = {}
  PROVE  Alive'
  <1>1. \A q \in Requests : Queued(q)' <=> Queued(q) /\ q \notin out
    BY DEF Queued, Members
  <1>2. /\ Members(work.tasks)' = Members(work'.tasks) /\ Members(active)' = Members(active')
        /\ Members(work.runnable)' = Members(work'.runnable)
    BY DEF Members
  <1>3. \A q \in Requests : Queued(q)' => \A i \in 1..Len(task'[q].queue) : task'[q].queue[i] \notin Ends
    BY <1>1 DEF Alive
  <1>4. \A q \in Requests : at'[q] = "draining" /\ ~Queued(q)' =>
         /\ Len(task'[q].queue) > 0 /\ task'[q].queue[Len(task'[q].queue)] \in Ends
         /\ \A i \in 1..(Len(task'[q].queue) - 1) : task'[q].queue[i] \notin Ends
    <2> SUFFICES ASSUME NEW q \in Requests, at'[q] = "draining", ~Queued(q)'
                 PROVE  /\ Len(task'[q].queue) > 0 /\ task'[q].queue[Len(task'[q].queue)] \in Ends
                        /\ \A i \in 1..(Len(task'[q].queue) - 1) : task'[q].queue[i] \notin Ends
      OBVIOUS
    <2>1. CASE q \notin out
      BY <1>1, <2>1 DEF Alive
    <2>2. CASE q \in out
      <3>1. Queued(q)
        BY <2>2 DEF Queued
      <3>2. \A i \in 1..Len(task[q].queue) : task[q].queue[i] \notin Ends
        BY <3>1 DEF Alive
      <3>3. task[q].queue \in Seq(Event)
        BY DEF Typed, CallersTyped, TaskType
      <3>4. PICK e \in Ends : task'[q].queue = Append(task[q].queue, e)
        BY <2>2
      <3> DEFINE s == task[q].queue
      <3> HIDE DEF s
      <3>5. s \in Seq(Event) /\ \A i \in 1..Len(s) : s[i] \notin Ends
        BY <3>2, <3>3 DEF s
      <3>6. Len(Append(s, e)) = Len(s) + 1 /\ Len(s) \in Nat /\ Append(s, e)[Len(s) + 1] = e
            /\ \A i \in 1..Len(s) : Append(s, e)[i] = s[i]
        BY <3>5
      <3>7. /\ Len(Append(s, e)) > 0 /\ Append(s, e)[Len(Append(s, e))] \in Ends
            /\ \A i \in 1..(Len(Append(s, e)) - 1) : Append(s, e)[i] \notin Ends
        BY <3>5, <3>6
      <3> QED BY <3>4, <3>7 DEF s
    <2> QED BY <2>1, <2>2
  <1>5. \A q \in Requests : Queued(q)' => at'[q] = "draining"
    BY <1>1 DEF Alive
  <1>6. \A q \in Requests : at'[q] \in {"idle", "acquired", "prepared", "over"} => task'[q].queue = <<>>
    <2> TAKE q \in Requests
    <2>1. q \in out => at[q] = "draining"
      BY DEF Alive, Queued
    <2> QED BY <2>1 DEF Alive
  <1> QED BY <1>2, <1>3, <1>4, <1>5, <1>6 DEF Alive, Ends

\* Counters through such a step.
LEMMA MeteredSteady ==
  ASSUME Metered, at' = at, \A q \in Requests : Queued(q)' => Queued(q),
         \A q \in Requests : Steady(task[q], task'[q]) /\ (task'[q].spec = task[q].spec \/ task'[q].spec = <<>>),
         \A q \in Requests : Queued(q)' => q \notin work.done,
         \A q \in Requests : pc' = "decode" /\ work'.take[q] > 0 =>
           task[q].initialized /\ (~task[q].promptDone => task[q].promptPos + work'.take[q] <= Len(task[q].prompt))
  PROVE  Metered'
  <1>1. \A q \in Requests : Going(q)' <=> Going(q)
    BY DEF Going
  <1>2. \A q \in Requests : /\ task'[q].promptPos = task[q].promptPos /\ task'[q].prompt = task[q].prompt
                            /\ task'[q].generated = task[q].generated /\ task'[q].max = task[q].max
                            /\ task'[q].promptDone = task[q].promptDone /\ task'[q].initialized = task[q].initialized
    BY DEF Steady
  <1> QED BY <1>1, <1>2 DEF Metered

LEMMA GoingSeq ==
  ASSUME Typed, Seated, NEW r \in Requests, Going(r)
  PROVE  task[r].seq \in 1..rig.slots /\ task[r].slot \in 1..rig.slots /\ task[r].seq = slots[task[r].slot].seq
  <1>1. Holding(r)
    BY DEF Going, Holding
  <1>2. task[r].slot \in 1..rig.slots /\ task[r].seq = slots[task[r].slot].seq
    BY <1>1 DEF Seated, SeatOf
  <1> QED BY <1>2 DEF Typed, CacheTyped, SlotType

LEMMA QueuedSeq ==
  ASSUME Typed, Seated, Alive, NEW r \in Requests, Queued(r)
  PROVE  /\ Going(r) /\ task[r].seq \in 1..rig.slots /\ task[r].slot \in 1..rig.slots
         /\ task[r].seq = slots[task[r].slot].seq
  <1>1. Going(r)
    BY DEF Alive, Going
  <1> QED BY <1>1, GoingSeq

\* Two tasks in flight have two sequences.
LEMMA OwnSeq ==
  ASSUME Typed, Seated, NEW q \in Requests, NEW r \in Requests, Going(q), Going(r), task[q].seq = task[r].seq
  PROVE  q = r
  <1>1. Holding(q) /\ Holding(r)
    BY DEF Going, Holding
  <1>2. task[q].slot = task[r].slot
    BY GoingSeq DEF Seated
  <1> QED BY <1>1, <1>2 DEF Seated

\* A task admitted, and one whose draft is dropped.
Admit(r) == [task[r] EXCEPT !.admitted = TRUE, !.spec = <<>>]
Undraft(r) == [task[r] EXCEPT !.spec = <<>>]
LEMMA SteadyAdmit ==
  ASSUME Typed, NEW r \in Requests
  PROVE  /\ Steady(task[r], Admit(r)) /\ Admit(r).queue = task[r].queue /\ Admit(r).spec = <<>>
         /\ Admit(r).admitted = TRUE
         /\ Steady(task[r], Undraft(r)) /\ Undraft(r).queue = task[r].queue /\ Undraft(r).spec = <<>>
         /\ Undraft(r).admitted = task[r].admitted
  <1> DEFINE t == task[r]
             e == <<>>
             u == [t EXCEPT !.admitted = TRUE, !.spec = e]
             v == [t EXCEPT !.spec = e]
  <1>1. t \in TaskType /\ e \in Seq(Nat)
    BY DEF Typed, CallersTyped
  <1>2. Admit(r) = u /\ Undraft(r) = v
    BY DEF Admit, Undraft
  <1> HIDE DEF t, e
  <1>3. u \in TaskType /\ v \in TaskType /\ u.spec = e /\ v.spec = e /\ u.admitted = TRUE
    BY <1>1 DEF TaskType
  <1>4. u.queue = t.queue /\ v.queue = t.queue /\ v.admitted = t.admitted
    BY <1>1 DEF TaskType
  <1>5. Steady(t, u)
    BY <1>1, <1>3 DEF TaskType, Steady
  <1>6. Steady(t, v)
    BY <1>1, <1>3 DEF TaskType, Steady
  <1> QED BY <1>2, <1>3, <1>4, <1>5, <1>6 DEF t, e

\* What Collect does.
Collects(out, left, run) ==
    /\ Untouched /\ terminal' = terminal /\ stopping' = stopping /\ turn' = turn /\ pc' = "ready"
    /\ out \subseteq Members(active) /\ \A r \in out : ~task[r].admitted /\ rig.capacity > 0
    /\ active' = Without(active, out)
    /\ work' = [NoWork EXCEPT !.tasks = Without(active, out), !.runnable = run]
    /\ run \in Seq(Requests) /\ Members(run) \subseteq Members(active) \ out
    /\ \A r \in Members(run) : rig.capacity > 0 => task'[r].admitted
    /\ task' = [r \in Requests |-> task'[r]]
    /\ \A r \in Requests :
         /\ Steady(task[r], task'[r]) /\ (task'[r].spec = task[r].spec \/ task'[r].spec = <<>>)
         /\ IF r \in out THEN task'[r].queue = Append(task[r].queue, Failed) ELSE task'[r].queue = task[r].queue
         /\ task[r].admitted => task'[r].admitted
    /\ left \in [1..rig.slots -> Seq(Nat)] /\ kv' = left
    /\ draft' = [s \in 1..rig.slots |-> IF left[s] # kv[s] THEN <<>> ELSE draft[s]]
    /\ \A s \in 1..rig.slots :
         \/ left[s] = kv[s]
         \/ /\ left[s] = <<>> /\ rig.capacity > 0
            /\ \A x \in Members(active) : task[x].admitted => task[x].seq # s
LEMMA CollectOnce ==
  ASSUME Typed, Collect
  PROVE  \E out, left, run : Collects(out, left, run)
  <1> DEFINE a == Admission(active)
             bounded == rig.capacity > 0
             out == {r \in Members(active) : bounded /\ r \in a.rejected}
             run == IF bounded THEN a.runnable ELSE Without(active, {r \in Requests : Off(r)})
             left == IF bounded THEN a.cells ELSE kv
             new(r) == IF r \in out THEN Told(r, Failed)
                       ELSE IF bounded /\ r \in a.admitted THEN Admit(r)
                       ELSE IF r \in Members(active) THEN Undraft(r)
                       ELSE task[r]
  <1>1. active \in Seq(Requests) /\ kv \in [1..rig.slots -> Seq(Nat)] /\ draft \in [1..rig.slots -> Seq(Nat)]
    BY DEF Typed, CacheTyped, ThreadTyped
  <1>2. a \in AdmissionType /\ Sound(active, a)
    BY <1>1, AdmissionSound
  <1>3. /\ active' = Without(active, out)
        /\ work' = [NoWork EXCEPT !.tasks = Without(active, out), !.runnable = run]
        /\ task' = [r \in Requests |-> new(r)]
        /\ kv' = left /\ pc' = "ready"
    BY Zenon DEF Collect, Told, Admit, Undraft
  <1>4. draft' = [s \in 1..rig.slots |-> IF left[s] # kv[s] THEN <<>> ELSE draft[s]]
    BY <1>1, Zenon DEF Collect
  <1>5. Untouched /\ terminal' = terminal /\ stopping' = stopping /\ turn' = turn
    BY Zenon DEF Collect, Untouched
  <1> HIDE DEF a
  <1>6. out \subseteq Members(active) /\ \A r \in out : ~task[r].admitted /\ rig.capacity > 0
    BY <1>2 DEF Sound, Admitted
  <1>7. run \in Seq(Requests) /\ Members(run) \subseteq Members(active) \ out
    <2>1. CASE bounded
      <3>1. run = a.runnable
        BY <2>1
      <3>2. a.runnable \in Seq(Requests)
        BY <1>2 DEF AdmissionType
      <3>3. Members(a.runnable) \subseteq a.admitted /\ a.admitted \subseteq Members(active)
        BY <1>2 DEF Sound
      <3>4. a.admitted \cap a.rejected = {}
        BY <1>2 DEF Sound
      <3> QED BY <3>1, <3>2, <3>3, <3>4
    <2>2. CASE ~bounded
      <3> DEFINE w == Without(active, {r \in Requests : Off(r)})
      <3>1. run = w /\ out = {}
        BY <2>2
      <3>2. w \in Seq(Requests) /\ Members(w) \subseteq Members(active)
        BY <1>1, WithoutMembers
      <3> HIDE DEF w, run, out
      <3> QED BY <3>1, <3>2
    <2> QED BY <2>1, <2>2
  <1>8. left \in [1..rig.slots -> Seq(Nat)]
    BY <1>1, <1>2 DEF AdmissionType
  <1>9. \A s \in 1..rig.slots :
         \/ left[s] = kv[s]
         \/ /\ left[s] = <<>> /\ rig.capacity > 0
            /\ \A x \in Members(active) : task[x].admitted => task[x].seq # s
    BY <1>2 DEF Sound, Admitted
  <1>10. \A r \in Members(run) : rig.capacity > 0 => task'[r].admitted
    <2> SUFFICES ASSUME NEW r \in Members(run), bounded PROVE task'[r].admitted
      OBVIOUS
    <2>1. r \in a.admitted /\ r \notin out /\ r \in Requests
      <3>1. run = a.runnable
        OBVIOUS
      <3> HIDE DEF run, out
      <3>2. r \in a.admitted
        BY <1>2, <3>1 DEF Sound
      <3>3. r \in Members(active) \ out
        BY <1>7
      <3>4. Members(active) \subseteq Requests
        BY <1>1 DEF Members
      <3> QED BY <3>2, <3>3, <3>4
    <2>2. task'[r] = Admit(r)
      BY <1>3, <2>1
    <2> QED BY <2>1, <2>2, SteadyAdmit
  <1>11. task' = [r \in Requests |-> task'[r]]
    BY <1>3
  <1>12. ASSUME NEW r \in Requests
         PROVE  /\ Steady(task[r], task'[r]) /\ (task'[r].spec = task[r].spec \/ task'[r].spec = <<>>)
                /\ IF r \in out THEN task'[r].queue = Append(task[r].queue, Failed) ELSE task'[r].queue = task[r].queue
                /\ task[r].admitted => task'[r].admitted
    <2>1. task'[r] = new(r)
      BY <1>3
    <2>2. CASE r \in out
      <3>1. Failed \in Event
        BY DEF Event
      <3> QED BY <2>1, <2>2, <3>1, SteadyTold
    <2>3. CASE r \notin out /\ bounded /\ r \in a.admitted
      BY <2>1, <2>3, SteadyAdmit
    <2>4. CASE r \notin out /\ ~(bounded /\ r \in a.admitted) /\ r \in Members(active)
      BY <2>1, <2>4, SteadyAdmit
    <2>5. CASE r \notin out /\ ~(bounded /\ r \in a.admitted) /\ r \notin Members(active)
      <3>1. task'[r] = task[r]
        BY <2>1, <2>5
      <3> QED BY <2>5, <3>1, SteadySame
    <2> QED BY <2>2, <2>3, <2>4, <2>5
  <1> HIDE DEF out, run, left, new
  <1>13. Collects(out, left, run)
    BY <1>3, <1>4, <1>5, <1>6, <1>7, <1>8, <1>9, <1>10, <1>11, <1>12 DEF Collects
  <1> QED BY <1>13

LEMMA NoWorkType ==
  /\ NoWork \in WorkType /\ NoWork.tasks = <<>> /\ NoWork.runnable = <<>> /\ NoWork.done = {}
  /\ NoWork.take = [r \in Requests |-> 0] /\ Members(NoWork.tasks) = {} /\ Members(NoWork.runnable) = {}
  BY DEF NoWork, WorkType, Members

LEMMA KernelCollect ==
  ASSUME Kernel, Collect PROVE Kernel'
  <1>0. Typed /\ Seated /\ Alive /\ Metered
    BY DEF Kernel
  <1>1. PICK out, left, run : Collects(out, left, run)
    BY <1>0, CollectOnce
  <1>2. /\ Untouched /\ terminal' = terminal /\ stopping' = stopping /\ turn' = turn /\ pc' = "ready"
        /\ out \subseteq Members(active) /\ active' = Without(active, out)
        /\ run \in Seq(Requests) /\ Members(run) \subseteq Members(active) \ out
        /\ \A r \in Requests : Steady(task[r], task'[r]) /\ (task'[r].spec = task[r].spec \/ task'[r].spec = <<>>)
        /\ task' = [r \in Requests |-> task'[r]]
    BY <1>1 DEF Collects
  <1>3. active \in Seq(Requests)
    BY <1>0 DEF Typed, ThreadTyped
  <1>4. active' \in Seq(Requests) /\ Members(active') = Members(active) \ out
    BY <1>2, <1>3, WithoutMembers
  <1>5. work' \in WorkType /\ work'.tasks = active' /\ work'.runnable = run /\ work'.done = {}
    <2>1. work' = [NoWork EXCEPT !.tasks = active', !.runnable = run]
      BY <1>1 DEF Collects
    <2> QED BY <1>2, <1>4, <2>1, NoWorkType DEF WorkType
  <1>6. CacheTyped' /\ CallersTyped'
    <2>1. draft \in [1..rig.slots -> Seq(Nat)] /\ kv \in [1..rig.slots -> Seq(Nat)]
      BY <1>0 DEF Typed, CacheTyped
    <2>2. kv' \in [1..rig.slots -> Seq(Nat)]
      BY <1>1 DEF Collects
    <2>3. draft' \in [1..rig.slots -> Seq(Nat)]
      <3>1. draft' = [s \in 1..rig.slots |-> IF left[s] # kv[s] THEN <<>> ELSE draft[s]]
        BY <1>1 DEF Collects
      <3> QED BY <2>1, <3>1
    <2>4. \A q \in Requests : task'[q] \in TaskType
      BY <1>2 DEF Steady
    <2> QED BY <1>0, <1>2, <2>2, <2>3, <2>4, ThreadCacheTyped
  <1>7. ThreadTyped'
    BY <1>0, <1>2, <1>4, <1>5 DEF Typed, ThreadTyped, Points, WorkType
  <1>8. Seated'
    <2>1. \A q \in Requests : task'[q].slot = task[q].slot /\ task'[q].seq = task[q].seq
      BY <1>2 DEF Steady
    <2> QED BY <1>0, <1>2, <2>1, ThreadSeated
  <1>9. at' = at
    BY <1>2 DEF Untouched
  <1>10. Alive'
    <2>1. \A q \in Requests : IF q \in out THEN \E e \in Ends : task'[q].queue = Append(task[q].queue, e)
                              ELSE task'[q].queue = task[q].queue
      BY <1>1 DEF Collects, Ends
    <2> QED BY <1>0, <1>2, <1>4, <1>5, <1>9, <2>1, AliveRetire
  <1>11. Metered'
    <2>1. \A q \in Requests : Queued(q)' => Queued(q)
      <3>1. Members(active)' = Members(active')
        BY Zenon DEF Members
      <3> QED BY <1>4, <3>1 DEF Queued
    <2>2. pc' # "decode" /\ work.done = {}
      BY <1>0, <1>2, Zenon DEF Alive, Collect
    <2> QED BY <1>0, <1>2, <1>9, <2>1, <2>2, MeteredSteady
  <1> QED BY <1>6, <1>7, <1>8, <1>10, <1>11 DEF Kernel, Typed

\* What Build does.
Builds(off, take) ==
    /\ Untouched /\ terminal' = terminal /\ stopping' = stopping /\ pc' \in {"top", "decode"} /\ turn' \in Nat
    /\ off = {r \in Members(work.tasks) : Off(r)} /\ active' = Without(active, off)
    /\ work' = [NoWork EXCEPT !.tasks = Without(work.tasks, off), !.take = take]
    /\ take \in [Requests -> Nat] /\ Within(take)
    /\ task' = [r \in Requests |-> IF r \in off THEN Told(r, Done) ELSE task[r]]
    /\ kv' \in [1..rig.slots -> Seq(Nat)] /\ draft' \in [1..rig.slots -> Seq(Nat)]
    /\ \A s \in 1..rig.slots :
         \/ kv'[s] = kv[s] /\ draft'[s] = draft[s]
         \/ kv'[s] = <<>> /\ draft'[s] = <<>> /\ \E r \in off : task[r].seq = s /\ cancel[r]
    /\ \A s \in 1..rig.slots : (\E r \in off : task[r].seq = s /\ cancel[r]) => kv'[s] = <<>> /\ draft'[s] = <<>>
LEMMA BuildOnce ==
  ASSUME Typed, Metered, Build
  PROVE  \E off, take : Builds(off, take)
  <1> DEFINE plan == BatchOrder(work.runnable, rig.batch)
             order == plan.order \o Without(work.tasks, Members(work.runnable))
             b == Packed(order, plan.share)
             off == {r \in Members(work.tasks) : Off(r)}
             take == b.take
             cleared(s) == \E r \in off : task[r].seq = s /\ cancel[r]
  <1>1. /\ kv \in [1..rig.slots -> Seq(Nat)] /\ draft \in [1..rig.slots -> Seq(Nat)] /\ turn \in Nat
        /\ work.tasks \in Seq(Requests) /\ work.runnable \in Seq(Requests)
    BY DEF Typed, CacheTyped, ThreadTyped, WorkType
  <1>2. order \in Seq(Requests)
    <2>1. plan.order \in Seq(Requests)
      BY <1>1, BatchOrderType
    <2>2. Without(work.tasks, Members(work.runnable)) \in Seq(Requests)
      BY <1>1, WithoutMembers
    <2> HIDE DEF plan
    <2> QED BY <2>1, <2>2
  <1>3. /\ active' = Without(active, off)
        /\ work' = [NoWork EXCEPT !.tasks = Without(work.tasks, off), !.take = b.take]
        /\ task' = [r \in Requests |-> IF r \in off THEN Told(r, Done) ELSE task[r]]
        /\ kv' = [s \in DOMAIN kv |-> IF cleared(s) THEN <<>> ELSE kv[s]]
        /\ draft' = [s \in DOMAIN kv |-> IF cleared(s) THEN <<>> ELSE draft[s]]
        /\ pc' = IF b.used = 0 THEN "top" ELSE "decode"
    BY DEF Build, Told
  <1>4. Untouched /\ terminal' = terminal /\ stopping' = stopping /\ turn' \in Nat
    BY <1>1 DEF Build, Untouched, TurnCycle
  <1> HIDE DEF order
  <1>5. take \in [Requests -> Nat] /\ Within(take)
    <2> HIDE DEF plan
    <2>1. b \in PackType(plan.share) /\ Within(b.take)
      BY <1>2, PackedWithin
    <2> QED BY <2>1 DEF PackType
  <1>6. DOMAIN kv = 1..rig.slots
    BY <1>1
  <1>7. kv' \in [1..rig.slots -> Seq(Nat)] /\ draft' \in [1..rig.slots -> Seq(Nat)]
    BY <1>1, <1>3, <1>6
  <1>8. /\ \A s \in 1..rig.slots :
             \/ kv'[s] = kv[s] /\ draft'[s] = draft[s]
             \/ kv'[s] = <<>> /\ draft'[s] = <<>> /\ \E r \in off : task[r].seq = s /\ cancel[r]
        /\ \A s \in 1..rig.slots : (\E r \in off : task[r].seq = s /\ cancel[r]) => kv'[s] = <<>> /\ draft'[s] = <<>>
    BY <1>3, <1>6
  <1> HIDE DEF take
  <1>9. Builds(off, take)
    <2>1. pc' \in {"top", "decode"}
      BY <1>3
    <2>2. work' = [NoWork EXCEPT !.tasks = Without(work.tasks, off), !.take = take]
      BY <1>3 DEF take
    <2> HIDE DEF b
    <2> QED BY <1>3, <1>4, <1>5, <1>7, <1>8, <2>1, <2>2 DEF Builds
  <1> QED BY <1>9

LEMMA KernelBuild ==
  ASSUME Kernel, Build PROVE Kernel'
  <1>0. Typed /\ Seated /\ Alive /\ Metered
    BY DEF Kernel
  <1>1. PICK off, take : Builds(off, take)
    BY <1>0, BuildOnce
  <1>2. /\ Untouched /\ terminal' = terminal /\ stopping' = stopping /\ pc' \in {"top", "decode"} /\ turn' \in Nat
        /\ off \subseteq Members(work.tasks) /\ active' = Without(active, off)
        /\ work' = [NoWork EXCEPT !.tasks = Without(work.tasks, off), !.take = take]
        /\ take \in [Requests -> Nat] /\ Within(take)
        /\ task' = [r \in Requests |-> IF r \in off THEN Told(r, Done) ELSE task[r]]
        /\ kv' \in [1..rig.slots -> Seq(Nat)] /\ draft' \in [1..rig.slots -> Seq(Nat)]
    BY <1>1 DEF Builds
  <1>3. active \in Seq(Requests) /\ work.tasks \in Seq(Requests) /\ Done \in Event /\ Done \in Ends
    BY <1>0 DEF Typed, ThreadTyped, WorkType, Event, Ends
  <1> DEFINE left == Without(work.tasks, off)
  <1>4. /\ active' \in Seq(Requests) /\ Members(active') = Members(active) \ off
        /\ left \in Seq(Requests) /\ Members(left) = Members(work.tasks) \ off
    BY <1>2, <1>3, WithoutMembers
  <1> HIDE DEF left
  <1>5. work' \in WorkType /\ work'.tasks = left /\ work'.runnable = <<>> /\ work'.done = {} /\ work'.take = take
    <2>1. work' = [NoWork EXCEPT !.tasks = left, !.take = take]
      BY <1>2 DEF left
    <2> QED BY <1>2, <1>4, <2>1, NoWorkType DEF WorkType
  <1>6. \A r \in Requests : /\ Steady(task[r], task'[r]) /\ task'[r].spec = task[r].spec
                            /\ IF r \in off THEN task'[r].queue = Append(task[r].queue, Done)
                               ELSE task'[r].queue = task[r].queue
    BY <1>0, <1>2, <1>3, SteadyTold, SteadySame
  <1>7. CacheTyped' /\ CallersTyped'
    <2>1. \A q \in Requests : task'[q] \in TaskType
      BY <1>6 DEF Steady
    <2> QED BY <1>0, <1>2, <2>1, ThreadCacheTyped
  <1>8. ThreadTyped'
    BY <1>0, <1>2, <1>4, <1>5 DEF Typed, ThreadTyped, Points, WorkType
  <1>9. Seated'
    <2>1. \A q \in Requests : task'[q].slot = task[q].slot /\ task'[q].seq = task[q].seq
      BY <1>6 DEF Steady
    <2> QED BY <1>0, <1>2, <2>1, ThreadSeated
  <1>10. at' = at
    BY <1>2 DEF Untouched
  <1>11. Alive'
    <2>1. \A q \in Requests : IF q \in off THEN \E e \in Ends : task'[q].queue = Append(task[q].queue, e)
                              ELSE task'[q].queue = task[q].queue
      BY <1>3, <1>6
    <2>2. off \subseteq Members(active) /\ Members(work'.tasks) \subseteq Members(active')
      BY <1>0, <1>2, <1>4, <1>5 DEF Alive
    <2>3. Members(work'.runnable) \subseteq Members(work'.tasks)
      BY <1>5 DEF Members
    <2> QED BY <1>0, <1>4, <1>5, <1>10, <2>1, <2>2, <2>3, AliveRetire
  <1>12. Metered'
    <2>1. \A q \in Requests : Queued(q)' => Queued(q)
      <3>1. Members(active)' = Members(active')
        BY DEF Members
      <3> QED BY <1>4, <3>1 DEF Queued
    <2>2. work.done = {}
      BY <1>0 DEF Alive, Build
    <2>3. \A q \in Requests : pc' = "decode" /\ work'.take[q] > 0 =>
            task[q].initialized /\ (~task[q].promptDone => task[q].promptPos + work'.take[q] <= Len(task[q].prompt))
      BY <1>2, <1>5 DEF Within
    <2> QED BY <1>0, <1>6, <1>10, <2>1, <2>2, <2>3, MeteredSteady
  <1> QED BY <1>7, <1>8, <1>9, <1>11, <1>12 DEF Kernel, Typed

\* Finish and FailAll: some tasks get their last event and leave active_.
Retires(out, e) ==
    /\ Untouched /\ kv' = kv /\ draft' = draft /\ stopping' = stopping /\ turn' = turn
    /\ out \subseteq Members(active) /\ e \in Ends
    /\ active' \in Seq(Requests) /\ Members(active') = Members(active) \ out
    /\ task' = [r \in Requests |-> IF r \in out THEN Told(r, e) ELSE task[r]]
    /\ work' = NoWork /\ pc' \in {"top", "ended"}
    /\ work.done \subseteq out
    /\ e = Failed => terminal'
    /\ terminal' \in BOOLEAN /\ (~terminal' => ~terminal)
    /\ terminal' => terminal \/ Members(active') = {}
LEMMA RetiresOnce ==
  ASSUME Typed, Alive, Finish \/ FailAll
  PROVE  \E out, e : Retires(out, e)
  <1>1. active \in Seq(Requests) /\ terminal \in BOOLEAN /\ work.done \subseteq Members(active)
    BY DEF Typed, ThreadTyped, Alive
  <1>2. CASE Finish
    <2>1. Without(active, work.done) \in Seq(Requests) /\ Members(Without(active, work.done)) = Members(active) \ work.done
      BY <1>1, WithoutMembers
    <2>2. Retires(work.done, Done)
      BY <1>1, <1>2, <2>1 DEF Finish, Retires, Untouched, Told, Ends, Done, Failed
    <2> QED BY <2>2
  <1>3. CASE FailAll
    <2>1. active' = <<>> /\ Members(active') = {} /\ <<>> \in Seq(Requests)
      BY <1>3 DEF FailAll, Members
    <2>2. /\ Untouched /\ kv' = kv /\ draft' = draft /\ stopping' = stopping /\ turn' = turn
          /\ work' = NoWork /\ pc' = "ended" /\ terminal' = TRUE
          /\ task' = [r \in Requests |-> IF r \in Members(active) THEN Told(r, Failed) ELSE task[r]]
      BY <1>3 DEF FailAll, Untouched, Told
    <2>3. Retires(Members(active), Failed)
      BY <1>1, <2>1, <2>2 DEF Retires, Ends
    <2> QED BY <2>3
  <1> QED BY <1>2, <1>3

LEMMA KernelRetires ==
  ASSUME Kernel, Finish \/ FailAll PROVE Kernel'
  <1>0. Typed /\ Seated /\ Alive /\ Metered
    BY DEF Kernel
  <1>1. PICK out, e : Retires(out, e)
    BY <1>0, RetiresOnce
  <1>2. /\ Untouched /\ kv' = kv /\ draft' = draft /\ stopping' = stopping /\ turn' = turn
        /\ out \subseteq Members(active) /\ e \in Ends
        /\ active' \in Seq(Requests) /\ Members(active') = Members(active) \ out
        /\ task' = [r \in Requests |-> IF r \in out THEN Told(r, e) ELSE task[r]]
        /\ work' = NoWork /\ pc' \in {"top", "ended"} /\ terminal' \in BOOLEAN
    BY <1>1 DEF Retires
  <1>3. e \in Event
    BY <1>2 DEF Ends, Event
  <1>4. \A r \in Requests : /\ Steady(task[r], task'[r]) /\ task'[r].spec = task[r].spec
                            /\ IF r \in out THEN task'[r].queue = Append(task[r].queue, e)
                               ELSE task'[r].queue = task[r].queue
    BY <1>0, <1>2, <1>3, SteadyTold, SteadySame
  <1>5. CacheTyped' /\ CallersTyped'
    <2>1. \A q \in Requests : task'[q] \in TaskType
      BY <1>4 DEF Steady
    <2>2. kv' \in [1..rig.slots -> Seq(Nat)] /\ draft' \in [1..rig.slots -> Seq(Nat)]
      BY <1>0, <1>2 DEF Typed, CacheTyped
    <2> QED BY <1>0, <1>2, <2>1, <2>2, ThreadCacheTyped
  <1>6. ThreadTyped'
    BY <1>0, <1>2, NoWorkType DEF Typed, ThreadTyped, Points, WorkType
  <1>7. Seated'
    <2>1. \A q \in Requests : task'[q].slot = task[q].slot /\ task'[q].seq = task[q].seq
      BY <1>4 DEF Steady
    <2> QED BY <1>0, <1>2, <2>1, ThreadSeated
  <1>8. at' = at
    BY <1>2 DEF Untouched
  <1>9. Alive'
    <2>1. \A q \in Requests : IF q \in out THEN \E x \in Ends : task'[q].queue = Append(task[q].queue, x)
                              ELSE task'[q].queue = task[q].queue
      BY <1>2, <1>4
    <2>2. /\ Members(work'.tasks) \subseteq Members(active') /\ Members(work'.runnable) \subseteq Members(work'.tasks)
          /\ work'.done = {}
      BY <1>2, NoWorkType
    <2> QED BY <1>0, <1>2, <1>8, <2>1, <2>2, AliveRetire
  <1>10. Metered'
    <2>1. \A q \in Requests : Queued(q)' => Queued(q) /\ q \notin work.done
      <3>1. Members(active)' = Members(active')
        BY DEF Members
      <3> QED BY <1>1, <1>2, <3>1 DEF Queued, Retires
    <2>2. pc' # "decode"
      BY <1>2
    <2> QED BY <1>0, <1>4, <1>8, <2>1, <2>2, MeteredSteady
  <1> QED BY <1>5, <1>6, <1>7, <1>9, <1>10 DEF Kernel, Typed

\* What a draft can be.
LEMMA DraftsShape ==
  ASSUME Typed, NEW r \in Requests, NEW x \in Drafts(r)
  PROVE  x \in Seq(Nat) /\ (~task[r].promptDone => x = <<>>) /\ Len(x) <= rig.margin
  <1>1. CASE x = <<>>
    <2>1. rig.margin \in Nat
      BY RigAssumption DEF Typed, CacheTyped
    <2>2. Len(x) = 0 /\ x \in Seq(Nat)
      BY <1>1
    <2> QED BY <1>1, <2>1, <2>2
  <1>2. CASE task[r].promptDone /\ x \in UNION {[1..n -> rig.vocab] : n \in 0..rig.margin}
    <2>1. rig.margin \in Nat /\ rig.vocab \subseteq Nat
      BY RigAssumption DEF Typed, CacheTyped
    <2>2. PICK n \in 0..rig.margin : x \in [1..n -> rig.vocab]
      BY <1>2
    <2>3. n \in Nat /\ x \in [1..n -> Nat]
      BY <2>1, <2>2
    <2>4. x \in Seq(Nat) /\ Len(x) = n
      BY <2>3
    <2> QED BY <1>2, <2>1, <2>4
  <1> QED BY <1>1, <1>2 DEF Drafts

\* What Ready does to a task that runs.
Went(r) ==
    LET u == ReadyTask(r)
        v == task'[r]
    IN  /\ v \in TaskType /\ Alike(task[r], v)
        /\ v.queue = task[r].queue /\ v.promptDone = task[r].promptDone
        /\ v.generated = task[r].generated /\ v.lastToken = task[r].lastToken
        /\ v.initialized /\ v.promptPos = u.t.promptPos /\ v.nPos = u.t.nPos /\ v.eligible = u.t.eligible
        /\ v.outSynced = u.t.outSynced /\ v.outCheckpoint = u.t.outCheckpoint
        /\ (~v.promptDone => v.spec = <<>>) /\ v.promptPos <= Len(v.prompt) /\ Len(v.spec) <= rig.margin
        /\ kv'[task[r].seq] = u.kv /\ draft'[task[r].seq] = u.draft
Readies ==
    /\ Untouched /\ UNCHANGED <<active, terminal, stopping, turn, work>> /\ pc = "ready" /\ pc' = "build"
    /\ task' = [r \in Requests |-> task'[r]]
    /\ \A r \in Requests : Starts(r) => Queued(r) /\ r \in Members(work.runnable) /\ Went(r)
    /\ \A r \in Requests : ~Starts(r) => task'[r] = task[r]
    /\ kv' \in [1..rig.slots -> Seq(Nat)] /\ draft' \in [1..rig.slots -> Seq(Nat)]
    /\ \A s \in 1..rig.slots : (\A r \in Requests : Starts(r) => task[r].seq # s) => kv'[s] = kv[s] /\ draft'[s] = draft[s]
LEMMA ReadyOnce ==
  ASSUME Kernel, Ready
  PROVE  Readies
  <1>0. Typed /\ Seated /\ Alive /\ Metered
    BY DEF Kernel
  <1> DEFINE started(s) == {r \in Members(work.runnable) : Starts(r) /\ task[r].seq = s}
             cell(s) == ReadyTask(CHOOSE r \in started(s) : TRUE)
  <1>1. PICK spec :
          /\ \A r \in Members(work.tasks) : spec[r] \in Drafts(r)
          /\ task' = [r \in Requests |-> IF Starts(r) THEN [ReadyTask(r).t EXCEPT !.spec = spec[r]] ELSE task[r]]
    BY DEF Ready
  <1>2. /\ kv' = [s \in DOMAIN kv |-> IF started(s) = {} THEN kv[s] ELSE cell(s).kv]
        /\ draft' = [s \in DOMAIN kv |-> IF started(s) = {} THEN draft[s] ELSE cell(s).draft]
    BY DEF Ready
  <1>3. /\ kv \in [1..rig.slots -> Seq(Nat)] /\ draft \in [1..rig.slots -> Seq(Nat)] /\ DOMAIN kv = 1..rig.slots
        /\ work.runnable \in Seq(Requests)
    BY <1>0 DEF Typed, CacheTyped, ThreadTyped, WorkType
  <1>4. Members(work.runnable) \subseteq Requests
    BY <1>3 DEF Members
  <1>5. \A r \in Requests : Starts(r) => /\ Queued(r) /\ r \in Members(work.runnable) /\ r \in Members(work.tasks)
                                         /\ Going(r) /\ task[r].seq \in 1..rig.slots
    <2> SUFFICES ASSUME NEW r \in Requests, Starts(r)
                 PROVE  /\ Queued(r) /\ r \in Members(work.runnable) /\ r \in Members(work.tasks)
                        /\ Going(r) /\ task[r].seq \in 1..rig.slots
      OBVIOUS
    <2>1. r \in Members(work.runnable) /\ r \in Members(work.tasks) /\ Queued(r)
      BY <1>0 DEF Starts, Alive, Queued
    <2> QED BY <1>0, <2>1, QueuedSeq
  <1>6. \A s \in 1..rig.slots : \A r \in started(s) :
          r \in Requests /\ ReadyTask(r).kv \in Seq(Nat) /\ ReadyTask(r).draft \in Seq(Nat)
    <2> SUFFICES ASSUME NEW s \in 1..rig.slots, NEW r \in started(s)
                 PROVE  r \in Requests /\ ReadyTask(r).kv \in Seq(Nat) /\ ReadyTask(r).draft \in Seq(Nat)
      OBVIOUS
    <2>1. r \in Requests /\ task[r].seq \in 1..rig.slots
      BY <1>4
    <2> QED BY <1>0, <2>1, ReadiedTask
  <1>7. \A s \in 1..rig.slots : started(s) # {} => \E r \in started(s) : cell(s) = ReadyTask(r)
    <2> SUFFICES ASSUME NEW s \in 1..rig.slots, started(s) # {} PROVE \E r \in started(s) : cell(s) = ReadyTask(r)
      OBVIOUS
    <2> DEFINE w == CHOOSE r \in started(s) : TRUE
    <2>1. w \in started(s)
      OBVIOUS
    <2>2. cell(s) = ReadyTask(w)
      OBVIOUS
    <2> HIDE DEF cell, started, w
    <2> QED BY <2>1, <2>2
  <1> HIDE DEF cell
  <1>8. kv' \in [1..rig.slots -> Seq(Nat)] /\ draft' \in [1..rig.slots -> Seq(Nat)]
    <2> HIDE DEF started
    <2>1. \A s \in 1..rig.slots : started(s) # {} => cell(s).kv \in Seq(Nat) /\ cell(s).draft \in Seq(Nat)
      BY <1>6, <1>7
    <2> QED BY <1>2, <1>3, <2>1
  <1>9. \A s \in 1..rig.slots : (\A r \in Requests : Starts(r) => task[r].seq # s) => kv'[s] = kv[s] /\ draft'[s] = draft[s]
    <2> SUFFICES ASSUME NEW s \in 1..rig.slots, \A r \in Requests : Starts(r) => task[r].seq # s
                 PROVE  kv'[s] = kv[s] /\ draft'[s] = draft[s]
      OBVIOUS
    <2>1. started(s) = {}
      BY <1>4
    <2> HIDE DEF started
    <2> QED BY <1>2, <1>3, <2>1
  <1>10. ASSUME NEW r \in Requests, Starts(r)
         PROVE  Went(r)
    <2> DEFINE u == ReadyTask(r)
               t == task[r]
               x == spec[r]
               v == task'[r]
    <2>1. /\ u.t \in TaskType /\ Alike(t, u.t) /\ Kept(t, u.t) /\ u.t.initialized
          /\ u.t.promptPos <= Len(t.prompt)
      BY <1>0, <1>5, <1>10, ReadiedTask
    <2>2. x \in Seq(Nat) /\ (~t.promptDone => x = <<>>) /\ Len(x) <= rig.margin
      BY <1>0, <1>1, <1>5, <1>10, DraftsShape
    <2>3. v = [u.t EXCEPT !.spec = x]
      BY <1>1, <1>10
    <2>4. kv'[t.seq] = u.kv /\ draft'[t.seq] = u.draft
      <3> DEFINE s == t.seq
      <3>1. s \in 1..rig.slots /\ r \in started(s)
        BY <1>5, <1>10
      <3>2. PICK q \in started(s) : cell(s) = ReadyTask(q)
        BY <1>7, <3>1
      <3>3. q \in Requests /\ Starts(q) /\ task[q].seq = s
        BY <1>4, <3>2
      <3>4. q = r
        BY <1>0, <1>5, <1>10, <3>3, OwnSeq
      <3> HIDE DEF started, s, u
      <3>5. started(s) # {}
        BY <3>1
      <3>6. cell(s) = u
        BY <3>2, <3>4 DEF u
      <3>7. kv'[s] = u.kv /\ draft'[s] = u.draft
        BY <1>2, <1>3, <3>1, <3>5, <3>6
      <3> QED BY <3>7 DEF s
    <2> HIDE DEF x, u, v
    <2>5. v \in TaskType /\ v.spec = x
      BY <2>1, <2>2, <2>3 DEF TaskType
    <2>6. /\ v.queue = u.t.queue /\ v.promptDone = u.t.promptDone /\ v.generated = u.t.generated
          /\ v.lastToken = u.t.lastToken /\ v.initialized = u.t.initialized /\ v.promptPos = u.t.promptPos
          /\ v.nPos = u.t.nPos /\ v.eligible = u.t.eligible /\ v.outSynced = u.t.outSynced
          /\ v.outCheckpoint = u.t.outCheckpoint
      BY <2>1, <2>3 DEF TaskType
    <2>7. Alike(u.t, v)
      BY <2>1, <2>3 DEF TaskType, Alike
    <2> HIDE DEF t
    <2>8. Alike(t, v)
      BY <2>1, <2>7 DEF Alike
    <2>9. /\ v.queue = t.queue /\ v.promptDone = t.promptDone /\ v.generated = t.generated
          /\ v.lastToken = t.lastToken /\ v.initialized /\ v.promptPos <= Len(v.prompt)
      BY <2>1, <2>6, <2>8 DEF Kept, Alike
    <2>10. (~v.promptDone => v.spec = <<>>) /\ Len(v.spec) <= rig.margin
      BY <2>2, <2>5, <2>9
    <2> QED BY <2>4, <2>5, <2>6, <2>8, <2>9, <2>10 DEF Went, u, t, v
  <1>11. Untouched /\ UNCHANGED <<active, terminal, stopping, turn, work>> /\ pc = "ready" /\ pc' = "build"
    BY DEF Ready, Untouched
  <1>12. task' = [r \in Requests |-> task'[r]] /\ \A r \in Requests : ~Starts(r) => task'[r] = task[r]
    BY <1>1
  <1> QED BY <1>5, <1>8, <1>9, <1>10, <1>11, <1>12 DEF Readies

LEMMA KernelReady ==
  ASSUME Kernel, Ready PROVE Kernel'
  <1>0. Typed /\ Seated /\ Alive /\ Metered
    BY DEF Kernel
  <1>1. Readies
    BY ReadyOnce
  <1>2. /\ Untouched /\ active' = active /\ terminal' = terminal /\ stopping' = stopping /\ turn' = turn
        /\ work' = work /\ pc = "ready" /\ pc' = "build" /\ at' = at
        /\ kv' \in [1..rig.slots -> Seq(Nat)] /\ draft' \in [1..rig.slots -> Seq(Nat)]
        /\ task' = [r \in Requests |-> task'[r]]
    BY <1>1 DEF Readies, Untouched
  <1>3. \A r \in Requests :
          LET t == task[r]
              v == task'[r]
          IN  /\ v \in TaskType /\ v.slot = t.slot /\ v.seq = t.seq /\ v.max = t.max /\ v.queue = t.queue
              /\ v.generated = t.generated /\ v.promptPos <= Len(v.prompt) /\ (~v.promptDone => v.spec = <<>>)
    <2> SUFFICES ASSUME NEW r \in Requests
                 PROVE  LET t == task[r]
                            v == task'[r]
                        IN  /\ v \in TaskType /\ v.slot = t.slot /\ v.seq = t.seq /\ v.max = t.max /\ v.queue = t.queue
                            /\ v.generated = t.generated /\ v.promptPos <= Len(v.prompt) /\ (~v.promptDone => v.spec = <<>>)
      OBVIOUS
    <2>1. CASE Starts(r)
      <3>1. Went(r)
        BY <1>1, <2>1 DEF Readies
      <3> QED BY <3>1 DEF Went, Alike
    <2>2. CASE ~Starts(r)
      <3>1. task'[r] = task[r]
        BY <1>1, <2>2 DEF Readies
      <3> QED BY <1>0, <3>1 DEF Typed, CallersTyped, Metered
    <2> QED BY <2>1, <2>2
  <1>4. CacheTyped' /\ CallersTyped'
    <2>1. \A q \in Requests : task'[q] \in TaskType
      BY <1>3
    <2> QED BY <1>0, <1>2, <2>1, ThreadCacheTyped
  <1>5. ThreadTyped'
    BY <1>0, <1>2 DEF Typed, ThreadTyped, Points, WorkType
  <1>6. Seated'
    BY <1>0, <1>2, <1>3, ThreadSeated
  <1>7. work.done = {}
    BY <1>0, <1>2 DEF Alive
  <1>8. Alive'
    <2>1. \A q \in Requests : IF q \in {} THEN \E e \in Ends : task'[q].queue = Append(task[q].queue, e)
                              ELSE task'[q].queue = task[q].queue
      BY <1>3
    <2>2. /\ Members(work'.tasks) \subseteq Members(active') /\ Members(work'.runnable) \subseteq Members(work'.tasks)
          /\ work'.done = {} /\ Members(active') = Members(active) \ {}
      BY <1>0, <1>2, <1>7 DEF Alive
    <2> QED BY <1>0, <1>2, <2>1, <2>2, AliveRetire
  <1>9. Metered'
    <2>1. \A q \in Requests : (Queued(q)' <=> Queued(q)) /\ (Going(q)' <=> Going(q))
      BY <1>2 DEF Queued, Members, Going
    <2> QED BY <1>0, <1>2, <1>3, <1>7, <2>1 DEF Metered
  <1> QED BY <1>4, <1>5, <1>6, <1>8, <1>9 DEF Kernel, Typed

\* What Decode does to a task in the batch.
InTurnNow(r) == r \in Requests /\ r \in Members(work.tasks) /\ InBatch(r)
Took(r, answer) ==
    LET t == task[r]
        v == task'[r]
        n == Pushed(answer, t.max - t.generated)
        kept == IF t.promptDone THEN Len(answer) ELSE work.take[r]
        cells == kv[t.seq] \o SubSeq(Fed(r), 1, kept)
    IN  /\ answer \in Answers(r) /\ answer \in Seq(Nat)
        /\ v \in TaskType /\ Alike(t, v) /\ cells \in Seq(Nat) /\ kv'[t.seq] = cells
        /\ Fed(r) \in Seq(Nat) /\ kept \in Nat /\ kept >= 1 /\ kept <= Len(Fed(r))
        /\ v.initialized = t.initialized /\ v.eligible = t.eligible /\ v.spec = t.spec
        /\ v.outSynced = t.outSynced
        /\ v.promptPos = (IF t.promptDone THEN t.promptPos ELSE t.promptPos + kept)
        /\ v.nPos = t.nPos + kept
        /\ (v.promptDone <=> t.promptDone \/ answer # <<>>)
        /\ v.queue = t.queue \o SubSeq(answer, 1, n)
        /\ v.generated = t.generated + n
        /\ (r \in work'.done <=> n = t.max - t.generated \/ n < Len(answer))
        /\ (n < t.max - t.generated /\ n > 0 => v.lastToken = answer[n])
        /\ \/ v.outCheckpoint = t.outCheckpoint
           \/ /\ ~t.promptDone /\ t.promptPos + kept = t.capture
              /\ v.outCheckpoint = [pos |-> t.capture, cells |-> cells, drafted |-> t.eligible]
        /\ (t.eligible => draft'[t.seq] = draft[t.seq] \o SubSeq(cells, Len(kv[t.seq]) + 1, Len(cells)))
Decodes(answer) ==
    /\ Untouched /\ UNCHANGED <<active, terminal, stopping, turn>> /\ pc = "decode" /\ pc' = "finish"
    /\ task' = [r \in Requests |-> task'[r]]
    /\ work' = [work EXCEPT !.done = work'.done] /\ work'.done \subseteq {r \in Requests : InTurnNow(r)}
    /\ \A r \in Requests : InTurnNow(r) => Queued(r) /\ Took(r, answer[r])
    /\ \A r \in Requests : ~InTurnNow(r) => task'[r] = task[r]
    /\ kv' \in [1..rig.slots -> Seq(Nat)] /\ draft' \in [1..rig.slots -> Seq(Nat)]
    /\ \A s \in 1..rig.slots :
         (\A r \in Requests : InTurnNow(r) => task[r].seq # s) => kv'[s] = kv[s] /\ draft'[s] = draft[s]
LEMMA DecodeOnce ==
  ASSUME Kernel, Decode
  PROVE  \E answer : Decodes(answer)
  <1>0. Typed /\ Seated /\ Alive /\ Metered /\ pc = "decode"
    BY DEF Kernel, Decode
  <1>1. PICK answer :
          LET after == [r \in InTurn |-> Advanced(r, answer[r])]
              shared == \E r \in InTurn : task[r].eligible
              owner(s) == CHOOSE r \in InTurn : task[r].seq = s
              fed == {task[r].seq : r \in InTurn}
          IN  /\ \A r \in InTurn : answer[r] \in Answers(r)
              /\ task' = [r \in Requests |-> IF r \in InTurn THEN after[r].t ELSE task[r]]
              /\ kv' = [s \in DOMAIN kv |-> IF s \in fed THEN after[owner(s)].kv ELSE kv[s]]
              /\ draft' = [s \in DOMAIN kv |->
                   IF s \in fed /\ shared
                   THEN draft[s] \o SubSeq(after[owner(s)].kv, Len(kv[s]) + 1, Len(after[owner(s)].kv))
                   ELSE draft[s]]
              /\ work' = [work EXCEPT !.done = {r \in InTurn : after[r].over}]
    BY DEF Decode
  <1> DEFINE after == [r \in InTurn |-> Advanced(r, answer[r])]
             shared == \E r \in InTurn : task[r].eligible
             owner(s) == CHOOSE r \in InTurn : task[r].seq = s
             fed == {task[r].seq : r \in InTurn}
             done == {r \in InTurn : after[r].over}
  <1>2. /\ \A r \in InTurn : answer[r] \in Answers(r)
        /\ task' = [r \in Requests |-> IF r \in InTurn THEN after[r].t ELSE task[r]]
        /\ kv' = [s \in DOMAIN kv |-> IF s \in fed THEN after[owner(s)].kv ELSE kv[s]]
        /\ draft' = [s \in DOMAIN kv |->
                   IF s \in fed /\ shared
                   THEN draft[s] \o SubSeq(after[owner(s)].kv, Len(kv[s]) + 1, Len(after[owner(s)].kv))
                   ELSE draft[s]]
        /\ work' = [work EXCEPT !.done = done]
    BY <1>1
  <1>3. /\ kv \in [1..rig.slots -> Seq(Nat)] /\ draft \in [1..rig.slots -> Seq(Nat)] /\ DOMAIN kv = 1..rig.slots
        /\ work \in WorkType /\ Members(work.tasks) \subseteq Requests
    BY <1>0 DEF Typed, CacheTyped, ThreadTyped, WorkType, Members
  <1>4. \A r : r \in InTurn <=> InTurnNow(r)
    BY <1>3 DEF InTurn, InTurnNow
  <1>5. work.done = {}
    BY <1>0 DEF Alive
  <1>6. \A r \in InTurn : /\ r \in Requests /\ Queued(r) /\ Going(r) /\ task[r].seq \in 1..rig.slots
                          /\ r \in Members(work.tasks) /\ InBatch(r) /\ task[r].generated < task[r].max
    <2> SUFFICES ASSUME NEW r \in InTurn
                 PROVE  /\ r \in Requests /\ Queued(r) /\ Going(r) /\ task[r].seq \in 1..rig.slots
                        /\ r \in Members(work.tasks) /\ InBatch(r) /\ task[r].generated < task[r].max
      OBVIOUS
    <2>1. r \in Requests /\ r \in Members(work.tasks) /\ InBatch(r)
      BY <1>3 DEF InTurn
    <2>2. Queued(r)
      BY <1>0, <2>1 DEF Alive, Queued
    <2>3. task[r].generated < task[r].max
      BY <1>0, <1>5, <2>1, <2>2 DEF Metered
    <2> QED BY <1>0, <2>1, <2>2, <2>3, QueuedSeq
  <1>7. \A r \in InTurn : after[r] = Advanced(r, answer[r])
    OBVIOUS
  <1> HIDE DEF after
  <1>8. \A r \in InTurn : task[r].seq \in fed /\ owner(task[r].seq) = r
    <2> SUFFICES ASSUME NEW r \in InTurn PROVE task[r].seq \in fed /\ owner(task[r].seq) = r
      OBVIOUS
    <2> DEFINE w == CHOOSE q \in InTurn : task[q].seq = task[r].seq
    <2>1. w \in InTurn /\ task[w].seq = task[r].seq
      OBVIOUS
    <2>2. owner(task[r].seq) = w
      OBVIOUS
    <2> HIDE DEF w, owner
    <2>3. w = r
      BY <1>0, <1>6, <2>1, OwnSeq
    <2> QED BY <2>2, <2>3
  <1>9. \A s \in fed : \E r \in InTurn : task[r].seq = s
    OBVIOUS
  <1> HIDE DEF owner, fed
  <1>10. ASSUME NEW r \in InTurn
         PROVE  Took(r, answer[r]) /\ after[r].kv \in Seq(Nat)
    <2> DEFINE t == task[r]
               x == answer[r]
               a == Advanced(r, x)
               v == task'[r]
               n == Pushed(x, t.max - t.generated)
               kept == IF t.promptDone THEN Len(x) ELSE work.take[r]
               cells == kv[t.seq] \o SubSeq(Fed(r), 1, kept)
    <2>1. x \in Answers(r) /\ x \in Seq(Nat)
      BY <1>0, <1>2, <1>6, AnswerShape
    <2>2. /\ a.t \in TaskType /\ Alike(t, a.t) /\ a.kv \in Seq(Nat)
          /\ a.kv = cells /\ Fed(r) \in Seq(Nat) /\ kept \in Nat /\ kept >= 1 /\ kept <= Len(Fed(r))
          /\ a.t.initialized = t.initialized /\ a.t.eligible = t.eligible /\ a.t.spec = t.spec
          /\ a.t.outSynced = t.outSynced
          /\ a.t.promptPos = (IF t.promptDone THEN t.promptPos ELSE t.promptPos + kept)
          /\ a.t.nPos = t.nPos + kept
          /\ (a.t.promptDone <=> t.promptDone \/ x # <<>>)
          /\ a.t.queue = t.queue \o SubSeq(x, 1, n)
          /\ a.t.generated = t.generated + n
          /\ (a.over <=> (n = t.max - t.generated \/ n < Len(x)))
          /\ (n < t.max - t.generated /\ n > 0 => a.t.lastToken = x[n])
          /\ \/ a.t.outCheckpoint = t.outCheckpoint
             \/ /\ ~t.promptDone /\ t.promptPos + kept = t.capture
                /\ a.t.outCheckpoint = [pos |-> t.capture, cells |-> a.kv, drafted |-> t.eligible]
      <3> HIDE DEF x
      <3> QED BY <1>0, <1>6, <2>1, AdvancedTask
    <2> HIDE DEF x, a, n, cells, kept
    <2>3. after[r] = a
      BY <1>7 DEF a, x
    <2>4. v = a.t
      BY <1>2, <1>6, <2>3
    <2>5. kv'[t.seq] = a.kv
      BY <1>2, <1>3, <1>6, <1>8, <2>3, SMTT(30)
    <2>6. t.eligible => draft'[t.seq] = draft[t.seq] \o SubSeq(a.kv, Len(kv[t.seq]) + 1, Len(a.kv))
      <3>1. t.eligible => shared
        OBVIOUS
      <3> HIDE DEF shared
      <3> QED BY <1>2, <1>3, <1>6, <1>8, <2>3, <3>1, Zenon
    <2>7. r \in work'.done <=> a.over
      <3>1. work'.done = done
        BY <1>2, <1>3 DEF WorkType
      <3> QED BY <2>3, <3>1
    <2> HIDE DEF v, t
    <2>8. /\ x \in Answers(r) /\ x \in Seq(Nat)
          /\ v \in TaskType /\ Alike(t, v) /\ cells \in Seq(Nat) /\ kv'[t.seq] = cells
          /\ Fed(r) \in Seq(Nat) /\ kept \in Nat /\ kept >= 1 /\ kept <= Len(Fed(r))
          /\ v.initialized = t.initialized /\ v.eligible = t.eligible /\ v.spec = t.spec
          /\ v.outSynced = t.outSynced
          /\ v.promptPos = (IF t.promptDone THEN t.promptPos ELSE t.promptPos + kept)
          /\ v.nPos = t.nPos + kept
      BY <2>1, <2>2, <2>4, <2>5
    <2>9. /\ (v.promptDone <=> t.promptDone \/ x # <<>>)
          /\ v.queue = t.queue \o SubSeq(x, 1, n)
          /\ v.generated = t.generated + n
          /\ (r \in work'.done <=> (n = t.max - t.generated \/ n < Len(x)))
          /\ (n < t.max - t.generated /\ n > 0 => v.lastToken = x[n])
      BY <2>2, <2>4, <2>7
    <2>10. /\ \/ v.outCheckpoint = t.outCheckpoint
              \/ /\ ~t.promptDone /\ t.promptPos + kept = t.capture
                 /\ v.outCheckpoint = [pos |-> t.capture, cells |-> cells, drafted |-> t.eligible]
           /\ (t.eligible => draft'[t.seq] = draft[t.seq] \o SubSeq(cells, Len(kv[t.seq]) + 1, Len(cells)))
      BY <2>2, <2>4, <2>6, Zenon
    <2>11. Took(r, answer[r])
      BY <2>8, <2>9, <2>10, Zenon DEF Took, x, n, v, t, cells, kept
    <2> QED BY <2>2, <2>3, <2>11
  <1>11. kv' \in [1..rig.slots -> Seq(Nat)] /\ draft' \in [1..rig.slots -> Seq(Nat)]
    <2>1. \A s \in 1..rig.slots : s \in fed => after[owner(s)].kv \in Seq(Nat)
      BY <1>8, <1>9, <1>10
    <2>2. \A s \in 1..rig.slots : s \in fed =>
            draft[s] \o SubSeq(after[owner(s)].kv, Len(kv[s]) + 1, Len(after[owner(s)].kv)) \in Seq(Nat)
      <3> SUFFICES ASSUME NEW s \in 1..rig.slots, s \in fed
                   PROVE  draft[s] \o SubSeq(after[owner(s)].kv, Len(kv[s]) + 1, Len(after[owner(s)].kv)) \in Seq(Nat)
        OBVIOUS
      <3> DEFINE c == after[owner(s)].kv
                 k == Len(kv[s])
                 d == draft[s]
      <3>1. c \in Seq(Nat) /\ k \in Nat /\ d \in Seq(Nat)
        BY <1>3, <2>1
      <3> HIDE DEF c, k, d
      <3>2. SubSeq(c, k + 1, Len(c)) \in Seq(Nat)
        BY <3>1
      <3>3. d \o SubSeq(c, k + 1, Len(c)) \in Seq(Nat)
        BY <3>1, <3>2
      <3> QED BY <3>3 DEF c, k, d
    <2> HIDE DEF shared
    <2>3. kv' \in [1..rig.slots -> Seq(Nat)]
      BY <1>2, <1>3, <2>1
    <2> QED BY <1>2, <1>3, <2>2, <2>3
  <1>12. \A s \in 1..rig.slots :
         (\A r \in Requests : InTurnNow(r) => task[r].seq # s) => kv'[s] = kv[s] /\ draft'[s] = draft[s]
    <2> SUFFICES ASSUME NEW s \in 1..rig.slots, \A r \in Requests : InTurnNow(r) => task[r].seq # s
                 PROVE  kv'[s] = kv[s] /\ draft'[s] = draft[s]
      OBVIOUS
    <2>1. s \notin fed
      BY <1>4, <1>6, <1>9
    <2> HIDE DEF shared
    <2> QED BY <1>2, <1>3, <2>1
  <1>13. work' = [work EXCEPT !.done = work'.done] /\ work'.done \subseteq {r \in Requests : InTurnNow(r)}
    <2>1. work'.done = done /\ done \subseteq InTurn
      BY <1>2, <1>3 DEF WorkType
    <2> HIDE DEF done
    <2> QED BY <1>2, <1>4, <1>6, <2>1
  <1>14. /\ \A r \in Requests : InTurnNow(r) => Queued(r) /\ Took(r, answer[r])
         /\ \A r \in Requests : ~InTurnNow(r) => task'[r] = task[r]
         /\ task' = [r \in Requests |-> task'[r]]
    BY <1>2, <1>4, <1>6, <1>10
  <1>15. Untouched /\ UNCHANGED <<active, terminal, stopping, turn>> /\ pc = "decode" /\ pc' = "finish"
    BY DEF Decode, Untouched
  <1>16. Decodes(answer)
    BY <1>11, <1>12, <1>13, <1>14, <1>15 DEF Decodes
  <1> QED BY <1>16, SMTT(30)

LEMMA KernelDecode ==
  ASSUME Kernel, Decode PROVE Kernel'
  <1>0. Typed /\ Seated /\ Alive /\ Metered
    BY DEF Kernel
  <1>1. PICK answer : Decodes(answer)
    BY DecodeOnce
  <1>2. /\ Untouched /\ active' = active /\ terminal' = terminal /\ stopping' = stopping /\ turn' = turn
        /\ pc = "decode" /\ pc' = "finish" /\ at' = at
        /\ kv' \in [1..rig.slots -> Seq(Nat)] /\ draft' \in [1..rig.slots -> Seq(Nat)]
        /\ task' = [r \in Requests |-> task'[r]]
        /\ work' = [work EXCEPT !.done = work'.done] /\ work'.done \subseteq {r \in Requests : InTurnNow(r)}
    BY <1>1 DEF Decodes, Untouched
  <1>3. work.done = {}
    BY <1>0, <1>2 DEF Alive
  <1>4. /\ work' \in WorkType /\ work'.tasks = work.tasks /\ work'.runnable = work.runnable
        /\ work'.done \subseteq Members(work.tasks)
    <2> DEFINE d == work'.done
    <2>1. d \subseteq Requests /\ work \in WorkType /\ work' = [work EXCEPT !.done = d] /\ d \subseteq Members(work.tasks)
      BY <1>0, <1>2 DEF Typed, ThreadTyped, InTurnNow
    <2> HIDE DEF d
    <2>2. work' \in WorkType /\ work'.tasks = work.tasks /\ work'.runnable = work.runnable
      BY <2>1 DEF WorkType
    <2> QED BY <2>1, <2>2 DEF d
  <1>5. ASSUME NEW r \in Requests, InTurnNow(r)
        PROVE  LET t == task[r]
                   v == task'[r]
               IN  /\ v \in TaskType /\ v.slot = t.slot /\ v.seq = t.seq /\ v.max = t.max
                   /\ v.promptPos <= Len(v.prompt) /\ (~v.promptDone => v.spec = <<>>)
                   /\ v.generated <= v.max /\ (r \notin work'.done => v.generated < v.max)
                   /\ \A i \in 1..Len(v.queue) : v.queue[i] \notin Ends
    <2> DEFINE t == task[r]
               v == task'[r]
               x == answer[r]
               n == Pushed(x, t.max - t.generated)
               kept == IF t.promptDone THEN Len(x) ELSE work.take[r]
    <2>1. Queued(r) /\ Took(r, x) /\ r \in Members(work.tasks) /\ InBatch(r)
      BY <1>1, <1>5 DEF Decodes, InTurnNow
    <2>2. /\ v \in TaskType /\ Alike(t, v) /\ x \in Seq(Nat) /\ v.spec = t.spec
          /\ v.promptPos = (IF t.promptDone THEN t.promptPos ELSE t.promptPos + kept)
          /\ (v.promptDone <=> t.promptDone \/ x # <<>>)
          /\ v.queue = t.queue \o SubSeq(x, 1, n)
          /\ v.generated = t.generated + n
          /\ (r \in work'.done <=> (n = t.max - t.generated \/ n < Len(x)))
      BY <2>1, Zenon DEF Took
    <2>3. t \in TaskType /\ t.max \in Nat /\ t.generated \in Nat /\ t.queue \in Seq(Event)
      BY <1>0 DEF Typed, CallersTyped, TaskType
    <2>4. t.generated < t.max
      BY <1>0, <1>3, <2>1 DEF Metered
    <2>5. n \in 0..Len(x) /\ n <= t.max - t.generated
      <3>1. t.max - t.generated \in Nat
        BY <2>3, <2>4
      <3> QED BY <2>2, <3>1, PushedWithin
    <2>6. t.promptPos <= Len(t.prompt) /\ (~t.promptDone => t.promptPos + work.take[r] <= Len(t.prompt) /\ t.spec = <<>>)
      BY <1>0, <1>2, <2>1 DEF Metered, InBatch
    <2>7. \A i \in 1..Len(t.queue) : t.queue[i] \notin Ends
      BY <1>0, <2>1 DEF Alive
    <2> HIDE DEF n, t, v, x
    <2>8. \A i \in 1..Len(v.queue) : v.queue[i] \notin Ends
      <3> DEFINE a == SubSeq(x, 1, n)
      <3>1. a \in Seq(Nat) /\ Len(a) = n
        BY <2>2, <2>5
      <3> HIDE DEF a
      <3>2. \A i \in 1..Len(a) : a[i] \notin Ends
        <4>1. \A i \in 1..Len(a) : a[i] \in Nat
          BY <3>1
        <4> QED BY <4>1 DEF Ends, Done, Failed
      <3> DEFINE q == t.queue
      <3>a. q \in Seq(Event) /\ a \in Seq(Event)
        <4>1. \A i \in 1..Len(a) : a[i] \in Nat
          BY <3>1
        <4>2. \A i \in DOMAIN a : a[i] \in Event
          BY <3>1, <4>1 DEF Event
        <4>3. a \in [1..n -> Event] /\ n \in Nat
          BY <2>5, <3>1, <4>2
        <4> QED BY <2>3, <4>3
      <3>b. \A i \in 1..Len(q) : q[i] \notin Ends
        BY <2>7 DEF q
      <3> HIDE DEF q
      <3>3. \A i \in 1..Len(q \o a) : (q \o a)[i] \notin Ends
        <4>1. Len(q \o a) = Len(q) + Len(a) /\ Len(q) \in Nat /\ Len(a) \in Nat
          BY <3>a
        <4>2. \A i \in 1..Len(q \o a) :
                (q \o a)[i] = IF i <= Len(q) THEN q[i] ELSE a[i - Len(q)]
          BY <3>a
        <4> QED BY <3>b, <3>2, <4>1, <4>2
      <3> QED BY <2>2, <3>3 DEF a, q
    <2>9. v.generated <= v.max /\ (r \notin work'.done => v.generated < v.max)
      BY <2>2, <2>3, <2>5 DEF Alike
    <2>10. v.promptPos <= Len(v.prompt) /\ (~v.promptDone => v.spec = <<>>)
      BY <2>2, <2>6 DEF Alike
    <2> QED BY <2>2, <2>8, <2>9, <2>10, Zenon DEF Alike, v, t
  <1>6. \A r \in Requests : ~InTurnNow(r) => task'[r] = task[r]
    BY <1>1 DEF Decodes
  <1>7. \A r \in Requests : InTurnNow(r) => Queued(r)
    BY <1>1 DEF Decodes
  <1>8. \A r \in Requests :
          /\ task'[r] \in TaskType /\ task'[r].slot = task[r].slot /\ task'[r].seq = task[r].seq
          /\ task'[r].max = task[r].max /\ task'[r].promptPos <= Len(task'[r].prompt)
          /\ (~task'[r].promptDone => task'[r].spec = <<>>) /\ task'[r].generated <= task'[r].max
          /\ (Queued(r) /\ r \notin work'.done => task'[r].generated < task'[r].max)
          /\ (Queued(r) => \A i \in 1..Len(task'[r].queue) : task'[r].queue[i] \notin Ends)
    <2> TAKE r \in Requests
    <2>1. CASE InTurnNow(r)
      BY <1>5, <2>1
    <2>2. CASE ~InTurnNow(r)
      <3>1. task'[r] = task[r] /\ task[r] \in TaskType
        BY <1>0, <1>6, <2>2 DEF Typed, CallersTyped
      <3>2. Queued(r) => task[r].generated < task[r].max
        BY <1>0, <1>3 DEF Metered
      <3>3. (Queued(r) => \A i \in 1..Len(task[r].queue) : task[r].queue[i] \notin Ends)
        BY <1>0 DEF Alive
      <3>4. task[r].promptPos <= Len(task[r].prompt) /\ (~task[r].promptDone => task[r].spec = <<>>)
            /\ task[r].generated <= task[r].max
        BY <1>0 DEF Metered
      <3> QED BY <3>1, <3>2, <3>3, <3>4
    <2> QED BY <2>1, <2>2
  <1>9. CacheTyped' /\ CallersTyped'
    <2>1. \A q \in Requests : task'[q] \in TaskType
      BY <1>8
    <2> QED BY <1>0, <1>2, <2>1, ThreadCacheTyped
  <1>10. ThreadTyped'
    BY <1>0, <1>2, <1>4 DEF Typed, ThreadTyped, Points, WorkType
  <1>11. Seated'
    BY <1>0, <1>2, <1>8, ThreadSeated
  <1>12. \A q \in Requests : (Queued(q)' <=> Queued(q)) /\ (Going(q)' <=> Going(q))
    BY <1>2 DEF Queued, Members, Going
  <1>13. Alive'
    <2>1. /\ Members(work.tasks)' = Members(work.tasks) /\ Members(active)' = Members(active)
          /\ Members(work.runnable)' = Members(work.runnable)
      BY <1>2, <1>4 DEF Members
    <2>2. \A q \in Requests : ~Queued(q) => task'[q] = task[q]
      BY <1>6, <1>7
    <2>3. \A q \in Requests : Queued(q)' => \A i \in 1..Len(task'[q].queue) : task'[q].queue[i] \notin Ends
      BY <1>8, <1>12
    <2>4. \A q \in Requests : at'[q] = "draining" /\ ~Queued(q)' =>
         /\ Len(task'[q].queue) > 0 /\ task'[q].queue[Len(task'[q].queue)] \in Ends
         /\ \A i \in 1..(Len(task'[q].queue) - 1) : task'[q].queue[i] \notin Ends
      BY <1>0, <1>2, <1>12, <2>2 DEF Alive
    <2>5. \A q \in Requests : at'[q] \in {"idle", "acquired", "prepared", "over"} => task'[q].queue = <<>>
      <3>1. \A q \in Requests : Queued(q) => at[q] = "draining"
        BY <1>0 DEF Alive
      <3> QED BY <1>0, <1>2, <2>2, <3>1 DEF Alive
    <2>6. \A q \in Requests : Queued(q)' => at'[q] = "draining"
      BY <1>0, <1>2, <1>12 DEF Alive
    <2> QED BY <1>0, <1>2, <1>4, <2>1, <2>3, <2>4, <2>5, <2>6 DEF Alive, Ends
  <1>14. Metered'
    <2>1. \A q \in Requests : at'[q] = "prepared" => task'[q].generated = 0
      <3>1. \A q \in Requests : Queued(q) => at[q] = "draining"
        BY <1>0 DEF Alive
      <3> QED BY <1>0, <1>2, <1>6, <1>7, <3>1 DEF Metered
    <2>2. \A q \in Requests : Going(q)' => task'[q].max > 0
      BY <1>0, <1>8, <1>12 DEF Metered
    <2>3. pc' # "decode"
      BY <1>2
    <2> QED BY <1>8, <1>12, <2>1, <2>2, <2>3 DEF Metered
  <1> QED BY <1>9, <1>10, <1>11, <1>13, <1>14 DEF Kernel, Typed

----------------------------------------------------------------------------
(* What the kernel shows.                                                  *)

LEMMA KernelCaller ==
  ASSUME Kernel, NEW r \in Requests, Caller(r) \/ (Disconnect(r) /\ UNCHANGED schedVars)
  PROVE  Kernel'
  <1>1. CASE AcquireSlot(r, Healthy) /\ UNCHANGED schedVars
    BY <1>1, KernelAcquireSlot
  <1>2. CASE PrepareInference(r) /\ UNCHANGED schedVars
    BY <1>2, KernelPrepareInference
  <1>3. CASE Submit(r)
    BY <1>3, KernelSubmit
  <1>4. CASE Drain(r) /\ UNCHANGED schedVars
    BY <1>4, KernelDrain
  <1>5. CASE UpdateSlot(r) /\ UNCHANGED schedVars
    BY <1>5, KernelUpdateSlot
  <1>6. CASE ReleaseSlot(r) /\ UNCHANGED schedVars
    BY <1>6, KernelReleaseSlot
  <1>7. CASE Disconnect(r) /\ UNCHANGED schedVars
    BY <1>7, KernelDisconnect
  <1> QED BY <1>1, <1>2, <1>3, <1>4, <1>5, <1>6, <1>7 DEF Caller

LEMMA KernelThread == ASSUME Kernel, Thread PROVE Kernel'
  <1>1. CASE Top \/ Doze \/ Sleep \/ DecodeFails
    BY <1>1, MovesOf, KernelMoves
  <1>2. CASE Collect
    BY <1>2, KernelCollect
  <1>3. CASE Ready
    BY <1>3, KernelReady
  <1>4. CASE Build
    BY <1>4, KernelBuild
  <1>5. CASE Decode
    BY <1>5, KernelDecode
  <1>6. CASE Finish \/ FailAll
    BY <1>6, KernelRetires
  <1> QED BY <1>1, <1>2, <1>3, <1>4, <1>5, <1>6 DEF Thread

LEMMA KernelStutters == ASSUME Kernel, UNCHANGED vars PROVE Kernel'
  <1>1. /\ rig' = rig /\ slots' = slots /\ kv' = kv /\ draft' = draft /\ task' = task /\ at' = at
        /\ cancel' = cancel /\ stop' = stop /\ life' = life /\ remakes' = remakes /\ active' = active
        /\ terminal' = terminal /\ stopping' = stopping /\ turn' = turn /\ work' = work /\ pc' = pc
    BY DEF vars, schedVars
  <1>2. Typed'
    BY <1>1 DEF Kernel, Typed, CacheTyped, CallersTyped, ThreadTyped, SlotType, WorkType
  <1>3. Seated'
    BY <1>1 DEF Kernel, Seated, Holding, Going, SeatOf
  <1>4. Alive'
    <2>1. work'.done = {} \/ pc' = "finish"
      BY <1>1 DEF Kernel, Alive
    <2> QED BY <1>1, <2>1, AliveSame DEF Kernel
  <1>5. Metered'
    BY <1>1 DEF Kernel, Metered, Queued, Members, Going
  <1> QED BY <1>2, <1>3, <1>4, <1>5 DEF Kernel

LEMMA KernelNext == ASSUME Kernel, [Next]_vars PROVE Kernel'
  <1>1. CASE Thread
    BY <1>1, KernelThread
  <1>2. CASE StopBegin \/ StopNotify \/ Recreate
    BY <1>2, KernelStopBegin, KernelStopNotify, KernelRecreate
  <1>3. CASE \E r \in Requests : Caller(r) \/ (Disconnect(r) /\ UNCHANGED schedVars)
    BY <1>3, KernelCaller
  <1>4. CASE UNCHANGED vars
    BY <1>4, KernelStutters
  <1> QED BY <1>1, <1>2, <1>3, <1>4 DEF Next, Stopper

LEMMA KernelTypes == ASSUME Kernel PROVE BatchTypeOK
  <1>1. Typed /\ Metered
    BY DEF Kernel
  <1>2. Slots = 1..rig.slots
    BY <1>1 DEF Slots, Typed, CacheTyped
  <1>3. \A s \in Slots : slots[s].busy \in BOOLEAN /\ slots[s].seq \in Slots
    BY <1>1, <1>2 DEF Typed, CacheTyped, SlotType
  <1>4. \A r \in Requests : task[r].promptPos \in 0..Len(task[r].prompt) /\ task[r].generated \in 0..task[r].max
    <2> TAKE r \in Requests
    <2> DEFINE t == task[r]
    <2>1. t.promptPos \in Nat /\ t.prompt \in Seq(Nat) /\ t.generated \in Nat /\ t.max \in Nat
      BY <1>1 DEF Typed, CallersTyped, TaskType
    <2>2. t.promptPos <= Len(t.prompt) /\ t.generated <= t.max
      BY <1>1 DEF Metered
    <2> HIDE DEF t
    <2>3. t.promptPos \in 0..Len(t.prompt) /\ t.generated \in 0..t.max
      BY <2>1, <2>2
    <2> QED BY <2>3 DEF t
  <1> QED BY <1>1, <1>3, <1>4 DEF BatchTypeOK, Typed, CacheTyped, ThreadTyped

LEMMA KernelExclusive == ASSUME Kernel PROVE SequenceExclusive
  <1>1. Typed /\ Seated
    BY DEF Kernel
  <1>2. Slots = 1..rig.slots
    BY <1>1 DEF Slots, Typed, CacheTyped
  <1>3. \A r \in Requests : r \in Live => Going(r)
    BY DEF Live, Going
  <1>4. \A q, r \in Live : task[q].seq = task[r].seq => q = r
    BY <1>1, <1>3, OwnSeq DEF Live
  <1> QED BY <1>1, <1>2, <1>4 DEF SequenceExclusive, Seated

LEMMA KernelAlive == ASSUME Kernel PROVE TasksAlive
  <1>1. Typed /\ Alive
    BY DEF Kernel
  <1>2. Members(active) \subseteq Requests
    BY <1>1 DEF Typed, ThreadTyped, Members
  <1>3. Members(active) \cup Members(work.tasks) \subseteq {r \in Requests : at[r] = "draining"}
    BY <1>1, <1>2 DEF Alive, Queued
  <1>4. ASSUME NEW r \in Requests, at[r] = "draining"
        PROVE  LET ends == {i \in 1..Len(task[r].queue) : task[r].queue[i] \in {Done, Failed}}
               IN  ends \subseteq {Len(task[r].queue)} /\ (ends = {} <=> Queued(r))
    <2> DEFINE q == task[r].queue
               ends == {i \in 1..Len(q) : q[i] \in {Done, Failed}}
    <2>1. Len(q) \in Nat
      <3>1. q \in Seq(Event)
        BY <1>1 DEF Typed, CallersTyped, TaskType
      <3> HIDE DEF q
      <3> QED BY <3>1
    <2>2. CASE Queued(r)
      <3>1. \A i \in 1..Len(q) : q[i] \notin Ends
        BY <1>1, <2>2 DEF Alive
      <3> HIDE DEF q
      <3>2. ends = {}
        BY <3>1 DEF Ends
      <3> HIDE DEF ends
      <3>3. ends \subseteq {Len(q)} /\ (ends = {} <=> Queued(r))
        BY <2>2, <3>2
      <3> QED BY <3>3 DEF ends, q
    <2>3. CASE ~Queued(r)
      <3>1. /\ Len(q) > 0 /\ q[Len(q)] \in Ends
            /\ \A i \in 1..(Len(q) - 1) : q[i] \notin Ends
        BY <1>1, <1>4, <2>3 DEF Alive
      <3> HIDE DEF q
      <3>2. Len(q) \in ends /\ ends \subseteq {Len(q)}
        BY <2>1, <3>1 DEF Ends
      <3> HIDE DEF ends
      <3>3. ends \subseteq {Len(q)} /\ (ends = {} <=> Queued(r))
        BY <2>3, <3>2
      <3> QED BY <3>3 DEF ends, q
    <2> QED BY <2>2, <2>3
  <1> QED BY <1>3, <1>4 DEF TasksAlive

LEMMA KernelAlways == Spec => []Kernel
  <1>1. Init => Kernel
    BY KernelInit
  <1>2. Kernel /\ [Next]_vars => Kernel'
    BY KernelNext
  <1> QED BY <1>1, <1>2, PTL DEF Spec

\* Slots, tasks and the locals of the loop keep the shapes of SlotState and
\* SlotTask, and the two token counters of a task stay within its prompt and
\* its max_tokens, whatever the callers, the thread and stop do.
THEOREM SchedulerTyped == Spec => []BatchTypeOK
  <1>1. Kernel => BatchTypeOK
    BY KernelTypes
  <1> QED BY <1>1, KernelAlways, PTL

\* However often prepare_inference exchanges slots, slots and sequences stay
\* one to one, and no two tasks in flight write to the same sequence.
THEOREM SequencesExclusive == Spec => []SequenceExclusive
  <1>1. Kernel => SequenceExclusive
    BY KernelExclusive
  <1> QED BY <1>1, KernelAlways, PTL

\* run_loop and fail_all keep no pointer to a task longer than its caller is
\* in drain_task, and a task is told exactly one last event, after it has
\* left active_ and never while it is still in it.
THEOREM TasksOutlived == Spec => []TasksAlive
  <1>1. Kernel => TasksAlive
    BY KernelAlive
  <1> QED BY <1>1, KernelAlways, PTL
----------------------------------------------------------------------------
(* Memory.  Three groups on top of the kernel: a slot on which nothing was *)
(* started remembers what its sequence holds; a task that was not started  *)
(* yet carries its slot's memory; and the cells of one that was started    *)
(* are its prompt, then what its caller has kept, then what is queued.     *)

Recall == Truthful /\ Fresh /\ Faithful

\* A task whose cells and texts stay, and which may be told its last event.
SameText(t, u) ==
    /\ u.prompt = t.prompt /\ u.decoded = t.decoded /\ u.outCheckpoint = t.outCheckpoint
    /\ u.outSynced = t.outSynced /\ u.eligible = t.eligible
    /\ u.queue = t.queue \/ \E e \in Ends : u.queue = Append(t.queue, e)
LEMMA FollowsSame ==
  ASSUME NEW t \in TaskType, NEW u, SameText(t, u), NEW c, NEW d, NEW st, NEW m, FollowsOf(t, c, d, st, m)
  PROVE  FollowsOf(u, c, d, st, m)
  <1> SUFFICES ASSUME Voiced PROVE FollowsOf(u, c, d, st, m)
    BY DEF FollowsOf, SameText
  <1>1. Base(u) = Base(t)
    BY DEF SameText, Base
  <1>2. ~st => \A k \in 1..Len(u.queue) :
         u.queue[k] \notin Ends /\ Base(u) + k <= Len(c) => c[Base(u) + k] = u.queue[k]
    <2>1. CASE u.queue = t.queue
      BY <1>1, <2>1 DEF FollowsOf
    <2>2. ASSUME NEW e \in Ends, u.queue = Append(t.queue, e)
          PROVE  ~st => \A k \in 1..Len(u.queue) :
                   u.queue[k] \notin Ends /\ Base(u) + k <= Len(c) => c[Base(u) + k] = u.queue[k]
      <3> DEFINE s == t.queue
      <3>1. s \in Seq(Event)
        BY DEF TaskType
      <3> HIDE DEF s
      <3>2. Len(Append(s, e)) = Len(s) + 1 /\ Len(s) \in Nat /\ Append(s, e)[Len(s) + 1] = e
            /\ \A i \in 1..Len(s) : Append(s, e)[i] = s[i]
        BY <3>1
      <3>3. ~st => \A k \in 1..Len(s) : s[k] \notin Ends /\ Base(t) + k <= Len(c) => c[Base(t) + k] = s[k]
        BY DEF FollowsOf, s
      <3>4. ~st => \A k \in 1..Len(Append(s, e)) :
              Append(s, e)[k] \notin Ends /\ Base(t) + k <= Len(c) => c[Base(t) + k] = Append(s, e)[k]
        BY <3>2, <3>3
      <3> QED BY <1>1, <2>2, <3>4 DEF s
    <2> QED BY <2>1, <2>2 DEF SameText
  <1> QED BY <1>2 DEF FollowsOf, SameText

\* The sequence of a finished task is evicted.
LEMMA FollowsEvicted ==
  ASSUME NEW t \in TaskType, NEW c, NEW d, NEW st, NEW m, FollowsOf(t, c, d, st, m), NEW e, e = <<>>
  PROVE  FollowsOf(t, e, e, st, m)
  <1> SUFFICES ASSUME Voiced PROVE FollowsOf(t, e, e, st, m)
    BY DEF FollowsOf
  <1>1. Len(e) = 0 /\ Len(t.prompt) \in Nat /\ Base(t) \in Nat
    BY DEF TaskType, Base
  <1>2. \A i \in 1..Len(e) : i <= Len(t.prompt) => e[i] = t.prompt[i]
    BY <1>1
  <1>3. \A j \in 1..Len(t.decoded) : Len(t.prompt) + j <= Len(e) => e[Len(t.prompt) + j] = t.decoded[j]
    BY <1>1
  <1>4. \A k \in 1..Len(t.queue) : ~(Base(t) + k <= Len(e))
    BY <1>1
  <1> QED BY <1>2, <1>3, <1>4 DEF FollowsOf

LEMMA RunsSame ==
  ASSUME NEW t, NEW u, NEW c, NEW st, NEW over, RunsOf(t, c, st, over),
         u.prompt = t.prompt, u.decoded = t.decoded, u.queue = t.queue, u.nPos = t.nPos,
         u.promptPos = t.promptPos, u.promptDone = t.promptDone, u.lastToken = t.lastToken
  PROVE  RunsOf(u, c, st, over)
  BY DEF RunsOf, Base

\* The caller reads a token: it keeps it, or it stops.
LEMMA FollowsPopped ==
  ASSUME NEW t \in TaskType, NEW u \in TaskType, Popped(t, u), Len(t.queue) > 0,
         NEW c \in Seq(Nat), NEW d, NEW st, NEW sp, NEW m, FollowsOf(t, c, d, st, m),
         \/ t.queue[1] \in Ends /\ u.decoded = t.decoded /\ (sp <=> st) /\ \A k \in 2..Len(t.queue) : FALSE
         \/ t.queue[1] \notin Ends /\ (sp \/ ~Voiced) /\ u.decoded = t.decoded
         \/ t.queue[1] \notin Ends /\ ~st /\ ~sp /\ u.decoded = Append(t.decoded, t.queue[1])
  PROVE  FollowsOf(u, c, d, sp, m)
  <1> SUFFICES ASSUME Voiced PROVE FollowsOf(u, c, d, sp, m)
    BY DEF FollowsOf, Popped
  <1> DEFINE q == t.queue
             w == t.decoded
             p == Len(t.prompt)
             n == Len(c)
  <1>1. q \in Seq(Event) /\ w \in Seq(Nat) /\ p \in Nat /\ n \in Nat /\ Len(w) \in Nat
    <2>1. q \in Seq(Event) /\ w \in Seq(Nat) /\ t.prompt \in Seq(Nat)
      BY DEF TaskType
    <2>2. p \in Nat
      <3> DEFINE x == t.prompt
      <3> HIDE DEF x
      <3>1. x \in Seq(Nat)
        BY <2>1 DEF x
      <3>2. Len(x) \in Nat
        BY <3>1
      <3> QED BY <3>2 DEF x
    <2>3. Len(w) \in Nat
      <3> HIDE DEF w
      <3> QED BY <2>1
    <2> QED BY <2>1, <2>2, <2>3
  <1>2. /\ u.queue = Tail(q) /\ u.prompt = t.prompt /\ u.outCheckpoint = t.outCheckpoint
        /\ u.outSynced = t.outSynced /\ u.eligible = t.eligible
    BY DEF Popped
  <1>3. Len(q) > 0
    OBVIOUS
  <1>4. /\ \A i \in 1..n : i <= p => c[i] = t.prompt[i]
        /\ \A j \in 1..Len(w) : p + j <= n => c[p + j] = w[j]
        /\ ~st => \A k \in 1..Len(q) : q[k] \notin Ends /\ p + Len(w) + k <= n => c[p + Len(w) + k] = q[k]
    BY DEF FollowsOf, Base
  <1>5. \/ q[1] \in Ends /\ u.decoded = w /\ (sp <=> st) /\ \A k \in 2..Len(q) : FALSE
        \/ q[1] \notin Ends /\ sp /\ u.decoded = w
        \/ q[1] \notin Ends /\ ~st /\ ~sp /\ u.decoded = Append(w, q[1])
    OBVIOUS
  <1> HIDE DEF q, w, p, n
  <1>6. /\ Len(Tail(q)) = Len(q) - 1 /\ Len(q) \in Nat
        /\ \A i \in 1..Len(Tail(q)) : Tail(q)[i] = q[i + 1]
    BY <1>1, <1>3, TailPlaces
  <1>7. CASE u.decoded = w
    <2>1. ~sp => \A k \in 1..Len(Tail(q)) : FALSE
      BY <1>5, <1>6, <1>7
    <2> QED BY <1>2, <1>4, <1>7, <2>1 DEF FollowsOf, p, n
  <1>8. CASE q[1] \notin Ends /\ ~st /\ ~sp /\ u.decoded = Append(w, q[1])
    <2> DEFINE v == Append(w, q[1])
    <2>1. Len(v) = Len(w) + 1 /\ v[Len(w) + 1] = q[1] /\ \A i \in 1..Len(w) : v[i] = w[i]
      <3> DEFINE x == q[1]
      <3> HIDE DEF x
      <3>1. Len(Append(w, x)) = Len(w) + 1 /\ Append(w, x)[Len(w) + 1] = x /\ \A i \in 1..Len(w) : Append(w, x)[i] = w[i]
        BY <1>1
      <3> QED BY <3>1 DEF x
    <2> HIDE DEF v
    <2>2. \A j \in 1..Len(v) : p + j <= n => c[p + j] = v[j]
      <3>1. p + Len(w) + 1 <= n => c[p + Len(w) + 1] = q[1]
        <4>1. 1 \in 1..Len(q)
          BY <1>3, <1>6
        <4> QED BY <1>4, <1>8, <4>1
      <3>2. \A j \in 1..Len(v) : j = Len(w) + 1 \/ j \in 1..Len(w)
        BY <1>1, <2>1
      <3>3. p + (Len(w) + 1) = p + Len(w) + 1
        BY <1>1
      <3> QED BY <1>4, <2>1, <3>1, <3>2, <3>3
    <2>3. \A k \in 1..Len(Tail(q)) :
            Tail(q)[k] \notin Ends /\ p + Len(v) + k <= n => c[p + Len(v) + k] = Tail(q)[k]
      <3> TAKE k \in 1..Len(Tail(q))
      <3>1. Tail(q)[k] = q[k + 1] /\ k + 1 \in 1..Len(q) /\ p + Len(v) + k = p + Len(w) + (k + 1)
        BY <1>1, <1>6, <2>1
      <3> QED BY <1>4, <1>8, <3>1
    <2>4. u.decoded = v /\ u.queue = Tail(q) /\ Base(u) = p + Len(v)
      BY <1>2, <1>8 DEF Base, p, v
    <2>5. \A k \in 1..Len(u.queue) :
            u.queue[k] \notin Ends /\ Base(u) + k <= Len(c) => c[Base(u) + k] = u.queue[k]
      BY <2>3, <2>4 DEF n
    <2>6. \A j \in 1..Len(u.decoded) : Len(u.prompt) + j <= Len(c) => c[Len(u.prompt) + j] = u.decoded[j]
      BY <1>2, <2>2, <2>4 DEF n, p
    <2>7. \A i \in 1..Len(c) : i <= Len(u.prompt) => c[i] = u.prompt[i]
      BY <1>2 DEF FollowsOf
    <2>8. Fits(u.outCheckpoint, u.prompt) /\ (m /\ u.outSynced => u.eligible) /\ (u.eligible => d = c)
      BY <1>2 DEF FollowsOf
    <2> QED BY <2>5, <2>6, <2>7, <2>8 DEF FollowsOf
  <1> QED BY <1>5, <1>7, <1>8

LEMMA TextLengths ==
  ASSUME NEW t \in TaskType
  PROVE  /\ Len(t.prompt) \in Nat /\ Len(t.decoded) \in Nat /\ Len(t.queue) \in Nat /\ Base(t) \in Nat
         /\ Base(t) = Len(t.prompt) + Len(t.decoded) /\ t.nPos \in Nat /\ t.promptPos \in Nat
  <1> DEFINE p == t.prompt
             w == t.decoded
             q == t.queue
  <1>1. p \in Seq(Nat) /\ w \in Seq(Nat) /\ q \in Seq(Event) /\ t.nPos \in Nat /\ t.promptPos \in Nat
    BY DEF TaskType
  <1>2. Base(t) = Len(p) + Len(w)
    BY DEF Base
  <1> HIDE DEF p, w, q
  <1>3. Len(p) \in Nat /\ Len(w) \in Nat /\ Len(q) \in Nat
    BY <1>1
  <1>4. Len(p) + Len(w) \in Nat
    BY <1>3
  <1> QED BY <1>1, <1>2, <1>3, <1>4 DEF p, w, q

LEMMA EmptyLen == ASSUME NEW s, s = <<>> PROVE Len(s) = 0
  OBVIOUS

LEMMA RunsPopped ==
  ASSUME NEW t \in TaskType, NEW u \in TaskType, Popped(t, u), Len(t.queue) > 0, t.queue[1] \notin Ends,
         NEW c, NEW st, NEW sp, NEW over, RunsOf(t, c, st, over), st => sp,
         \/ (sp \/ ~Voiced) /\ u.decoded = t.decoded
         \/ ~sp /\ u.decoded = Append(t.decoded, t.queue[1])
  PROVE  RunsOf(u, c, sp, over)
  <1> SUFFICES ASSUME Voiced PROVE RunsOf(u, c, sp, over)
    <2>1. t.promptDone
      BY DEF RunsOf
    <2> QED BY <2>1 DEF RunsOf, Popped
  <1> DEFINE q == t.queue
             w == t.decoded
             p == Len(t.prompt)
             n == t.nPos
  <1>1. q \in Seq(Event) /\ w \in Seq(Nat) /\ p \in Nat /\ n \in Nat /\ Len(w) \in Nat /\ Len(q) \in Nat
        /\ Base(t) = p + Len(w) /\ Base(u) = p + Len(u.decoded) /\ Len(u.decoded) \in Nat
    <2>1. q \in Seq(Event) /\ w \in Seq(Nat)
      BY DEF TaskType
    <2>2. u.prompt = t.prompt
      BY DEF Popped
    <2> QED BY <2>1, <2>2, TextLengths
  <1>2. /\ u.queue = Tail(q) /\ u.prompt = t.prompt /\ u.nPos = n /\ u.promptDone = t.promptDone
        /\ u.promptPos = t.promptPos /\ u.lastToken = t.lastToken
    BY DEF Popped
  <1>3. Len(q) > 0 /\ q # <<>>
    OBVIOUS
  <1>4. /\ Len(c) = n
        /\ (st => t.promptDone /\ p + Len(w) <= n)
        /\ t.promptDone
        /\ n >= p
        /\ (~st => p + Len(w) + Len(q) <= n + 1)
        /\ (~st /\ ~over => p + Len(w) + Len(q) = n + 1 /\ t.lastToken = q[Len(q)])
    BY <1>1, <1>3 DEF RunsOf
  <1>5. \/ sp /\ u.decoded = w
        \/ ~sp /\ u.decoded = Append(w, q[1])
    OBVIOUS
  <1> HIDE DEF q, w, p, n
  <1>6. /\ Len(Tail(q)) = Len(q) - 1
        /\ \A i \in 1..Len(Tail(q)) : Tail(q)[i] = q[i + 1]
    BY <1>1, <1>3, TailPlaces
  <1>7. CASE sp /\ u.decoded = w
    <2>1. Base(u) <= n
      BY <1>1, <1>3, <1>4, <1>7
    <2> QED BY <1>2, <1>4, <1>7, <2>1 DEF RunsOf, p
  <1>8. CASE ~sp /\ u.decoded = Append(w, q[1])
    <2> DEFINE v == Append(w, q[1])
    <2>1. Len(v) = Len(w) + 1 /\ v[Len(w) + 1] = q[1]
      <3> DEFINE x == q[1]
      <3> HIDE DEF x
      <3>1. Len(Append(w, x)) = Len(w) + 1 /\ Append(w, x)[Len(w) + 1] = x
        BY <1>1
      <3> QED BY <3>1 DEF x
    <2>2. u.decoded = v /\ ~st /\ ~sp
      BY <1>8
    <2> HIDE DEF v
    <2>3. Base(u) + Len(u.queue) = p + Len(w) + Len(q)
      <3>a. Base(u) = p + (Len(w) + 1)
        BY <1>1, <2>1, <2>2, Zenon
      <3>1. Base(u) = p + Len(w) + 1
        BY <1>1, <3>a
      <3>2. Len(u.queue) = Len(q) - 1
        BY <1>2, <1>6
      <3> QED BY <1>1, <3>1, <3>2, SMTT(30)
    <2>4. u.queue = <<>> => u.decoded # <<>> /\ (~over => u.lastToken = u.decoded[Len(u.decoded)])
      <3> SUFFICES ASSUME u.queue = <<>> PROVE u.decoded # <<>> /\ (~over => u.lastToken = u.decoded[Len(u.decoded)])
        OBVIOUS
      <3>a. Tail(q) = <<>>
        BY <1>2
      <3>1. Len(Tail(q)) = 0
        BY <3>a, EmptyLen, Zenon
      <3>2. Len(q) = 1
        BY <1>1, <1>6, <3>1
      <3>3. Len(v) # 0
        BY <1>1, <2>1
      <3> QED BY <1>2, <1>4, <2>1, <2>2, <3>2, <3>3
    <2>5. u.queue # <<>> => (~over => u.lastToken = u.queue[Len(u.queue)])
      <3> SUFFICES ASSUME u.queue # <<>>, ~over PROVE u.lastToken = u.queue[Len(u.queue)]
        OBVIOUS
      <3>1. Tail(q) \in Seq(Event)
        BY <1>1, <1>3, TailPlaces
      <3>2. Len(Tail(q)) > 0
        BY <1>2, <3>1
      <3>3. Tail(q)[Len(Tail(q))] = q[Len(q)]
        <4>1. Len(Tail(q)) \in 1..Len(Tail(q)) /\ Len(Tail(q)) + 1 = Len(q)
          BY <1>1, <1>6, <3>2
        <4> QED BY <1>6, <4>1
      <3> QED BY <1>2, <1>4, <2>2, <3>3
    <2> QED BY <1>2, <1>4, <2>2, <2>3, <2>4, <2>5 DEF RunsOf, p
  <1> QED BY <1>5, <1>7, <1>8

\* A task that was just started.
LEMMA FollowsBegun ==
  ASSUME NEW v \in TaskType, v.decoded = <<>>, v.queue = <<>>, NEW c, NEW d, NEW m,
         Voiced => \A i \in 1..Len(c) : c[i] = v.prompt[i], v.eligible => d = c, m /\ v.outSynced => v.eligible,
         Fits(v.outCheckpoint, v.prompt), NEW st
  PROVE  FollowsOf(v, c, d, st, m)
  <1>1. \A j \in 1..Len(v.decoded) : FALSE
    OBVIOUS
  <1>2. \A j \in 1..Len(v.queue) : FALSE
    OBVIOUS
  <1> QED BY <1>1, <1>2 DEF FollowsOf
LEMMA RunsBegun ==
  ASSUME NEW v \in TaskType, v.decoded = <<>>, v.queue = <<>>, ~v.promptDone, NEW c, Len(c) = v.nPos,
         v.nPos = v.promptPos, NEW st, ~st, NEW over
  PROVE  RunsOf(v, c, st, over)
  BY DEF RunsOf

\* What update_slot_state leaves behind.
LEMMA RemembersUpdated ==
  ASSUME NEW t \in TaskType, NEW u, u.last = t.prompt \o t.decoded, u.checkpoint = t.outCheckpoint,
         u.synced = t.outSynced, NEW c, NEW d, NEW st, NEW m, FollowsOf(t, c, d, st, m)
  PROVE  RemembersOf(u, c, d, m)
  <1> SUFFICES ASSUME Voiced PROVE RemembersOf(u, c, d, m)
    BY DEF FollowsOf, RemembersOf, Agrees, Fits
  <1> DEFINE p == t.prompt
             w == t.decoded
             k == t.outCheckpoint
             n == Len(c)
  <1>1. p \in Seq(Nat) /\ w \in Seq(Nat) /\ k \in Checkpoint
    BY DEF TaskType
  <1>2. /\ \A i \in 1..n : i <= Len(p) => c[i] = p[i]
        /\ \A j \in 1..Len(w) : Len(p) + j <= n => c[Len(p) + j] = w[j]
        /\ Fits(k, p)
        /\ m /\ u.synced => d = c
    BY DEF FollowsOf
  <1> HIDE DEF p, w, k
  <1>3. Len(p \o w) = Len(p) + Len(w) /\ Len(p) \in Nat /\ Len(w) \in Nat
        /\ \A i \in 1..Len(p \o w) : (p \o w)[i] = IF i <= Len(p) THEN p[i] ELSE w[i - Len(p)]
    BY <1>1
  <1>4. \A i \in 1..Len(p \o w) : i <= n => (p \o w)[i] = c[i]
    <2> SUFFICES ASSUME NEW i \in 1..Len(p \o w), i <= n PROVE (p \o w)[i] = c[i]
      OBVIOUS
    <2>1. CASE i <= Len(p)
      <3>1. i \in 1..n
        <4>1. i \in Nat /\ i >= 1
          BY <1>3
        <4> QED BY <4>1 DEF n
      <3> QED BY <1>2, <1>3, <2>1, <3>1
    <2>2. CASE ~(i <= Len(p))
      <3> DEFINE j == i - Len(p)
      <3>1. j \in 1..Len(w) /\ Len(p) + j = i
        BY <1>3, <2>2
      <3> HIDE DEF j
      <3>2. c[Len(p) + j] = w[j]
        BY <1>2, <3>1
      <3> QED BY <1>3, <2>2, <3>1, <3>2 DEF j
    <2> QED BY <2>1, <2>2
  <1>5. Fits(k, p \o w)
    <2> SUFFICES ASSUME k.pos > 0 PROVE Len(k.cells) = k.pos /\ k.pos <= Len(p \o w) /\ \A i \in 1..k.pos : k.cells[i] = (p \o w)[i]
      BY DEF Fits
    <2>1. k.pos \in Nat /\ Len(k.cells) = k.pos /\ k.pos <= Len(p) /\ \A i \in 1..k.pos : k.cells[i] = p[i]
      BY <1>1, <1>2 DEF Fits, Checkpoint
    <2>2. \A i \in 1..k.pos : i \in 1..Len(p \o w) /\ i <= Len(p)
      BY <1>3, <2>1
    <2>3. k.pos <= Len(p \o w)
      BY <1>3, <2>1
    <2> QED BY <1>3, <2>1, <2>2, <2>3
  <1>6. Agrees(u.last, c)
    BY <1>4 DEF Agrees, p, w
  <1>7. Fits(u.checkpoint, u.last)
    BY <1>5 DEF p, w, k
  <1> QED BY <1>2, <1>6, <1>7 DEF RemembersOf
LEMMA RemembersForgot ==
  ASSUME NEW u, u.last = <<>>, u.checkpoint = NoCheckpoint, u.synced = FALSE, NEW c, NEW d, NEW m
  PROVE  RemembersOf(u, c, d, m)
  BY DEF RemembersOf, Agrees, Fits, NoCheckpoint

\* An idle sequence is evicted.
LEMMA RemembersEvicted ==
  ASSUME NEW s \in SlotType, NEW c, NEW d, NEW m, RemembersOf(s, c, d, m), NEW e, e = <<>>
  PROVE  RemembersOf(s, e, e, m)
  <1>1. \A i \in 1..Len(s.last) : ~(i <= Len(e))
    <2>1. Len(e) = 0
      OBVIOUS
    <2>2. \A i \in 1..Len(s.last) : i \in Int /\ i >= 1
      OBVIOUS
    <2> QED BY <2>1, <2>2
  <1> QED BY <1>1 DEF RemembersOf, Agrees
LEMMA RemembersSame ==
  ASSUME NEW s, NEW u, Memory(s, u), NEW c, NEW d, NEW m, RemembersOf(s, c, d, m)
  PROVE  RemembersOf(u, c, d, m)
  BY DEF RemembersOf, Memory

\* What a decoded batch leaves of a task's text and memory, however it grew.
SameSides(t, v, c, d) ==
    /\ v.prompt = t.prompt /\ v.decoded = t.decoded
    /\ v.outSynced = t.outSynced /\ v.eligible = t.eligible
    /\ t.eligible => d = c
\* A part of the prompt went in.
PromptGrew(t, v, st, over, later, c, d, m, c2, d2, k, a, n) ==
    /\ t \in TaskType /\ v \in TaskType /\ c \in Seq(Nat) /\ c2 \in Seq(Nat) /\ a \in Seq(Nat)
    /\ k \in Nat /\ n \in 0..Len(a)
    /\ ~t.promptDone /\ ~st /\ RunsOf(t, c, st, over) /\ FollowsOf(t, c, d, st, m)
    /\ SameSides(t, v, c2, d2) /\ Len(c2) = Len(c) + k
    /\ t.promptPos + k <= Len(t.prompt) /\ \A i \in 1..Len(c) : c2[i] = c[i]
    /\ \A i \in 1..k : c2[Len(c) + i] = t.prompt[t.promptPos + i]
    /\ v.nPos = t.nPos + k /\ v.promptPos = t.promptPos + k
    /\ v.promptDone <=> a # <<>>
    /\ a # <<>> => Len(a) = 1 /\ t.promptPos + k = Len(t.prompt)
    /\ Len(v.queue) = n /\ \A i \in 1..n : v.queue[i] = a[i]
    /\ ~later => n = Len(a) /\ (n > 0 => v.lastToken = a[n])
    /\ \/ v.outCheckpoint = t.outCheckpoint
       \/ v.outCheckpoint.pos = t.promptPos + k /\ v.outCheckpoint.cells = c2
LEMMA TookPrompt ==
  ASSUME NEW t, NEW v, NEW st, NEW over, NEW later, NEW c, NEW d, NEW m, NEW c2, NEW d2, NEW k, NEW a, NEW n,
         PromptGrew(t, v, st, over, later, c, d, m, c2, d2, k, a, n)
  PROVE  FollowsOf(v, c2, d2, st, m) /\ RunsOf(v, c2, st, later)
  <1> USE DEF PromptGrew
  <1> DEFINE p == Len(t.prompt)
             s == t.promptPos
  <1>1. /\ Len(c) \in Nat /\ Len(c2) \in Nat /\ Len(a) \in Nat /\ p \in Nat /\ s \in Nat /\ n \in Nat /\ n <= Len(a)
        /\ Base(v) = Len(v.prompt) + Len(v.decoded)
    <2>1. Len(c) \in Nat /\ Len(c2) \in Nat /\ Len(a) \in Nat
      OBVIOUS
    <2>2. n \in Nat /\ n <= Len(a)
      BY <2>1
    <2> QED BY <2>1, <2>2, TextLengths
  <1>2. Len(c) = s /\ t.nPos = s /\ t.decoded = <<>>
    BY DEF RunsOf
  <1>3. v.decoded = <<>> /\ v.prompt = t.prompt /\ Len(v.decoded) = 0 /\ Base(v) = p
    BY <1>1, <1>2 DEF SameSides
  <1>a. /\ s + k <= p /\ Len(c2) = s + k
        /\ \A i \in 1..s : c2[i] = c[i]
        /\ \A i \in 1..k : c2[s + i] = t.prompt[s + i]
        /\ v.nPos = s + k /\ v.promptPos = s + k
        /\ (a # <<>> => Len(a) = 1 /\ s + k = p)
        /\ \/ v.outCheckpoint = t.outCheckpoint
           \/ v.outCheckpoint.pos = s + k /\ v.outCheckpoint.cells = c2
    BY <1>2
  <1>b. Voiced => \A i \in 1..s : i <= p => c[i] = t.prompt[i]
    BY <1>2 DEF FollowsOf
  <1> HIDE DEF p, s
  <1>4. Voiced => \A i \in 1..Len(c2) : i <= p => c2[i] = t.prompt[i]
    <2> SUFFICES ASSUME Voiced, NEW i \in 1..Len(c2), i <= p PROVE c2[i] = t.prompt[i]
      OBVIOUS
    <2>1. i \in 1..(s + k)
      BY <1>a
    <2>2. CASE i <= s
      <3>1. i \in 1..s
        BY <1>1, <2>1, <2>2
      <3> QED BY <1>a, <1>b, <3>1
    <2>3. CASE ~(i <= s)
      <3>1. (i - s) \in 1..k /\ s + (i - s) = i
        BY <1>1, <2>1, <2>3
      <3> QED BY <1>a, <3>1
    <2> QED BY <2>2, <2>3
  <1>5. a = <<>> => Len(a) = 0
    BY EmptyLen
  <1>6. \A i \in 1..Len(v.queue) : ~(Base(v) + i <= Len(c2))
    <2>1. Len(c2) <= p
      BY <1>1, <1>a
    <2> QED BY <1>1, <1>3, <2>1
  <1>7. Fits(v.outCheckpoint, v.prompt)
    <2>1. CASE v.outCheckpoint = t.outCheckpoint
      BY <1>3, <2>1 DEF FollowsOf
    <2>2. CASE v.outCheckpoint.pos = s + k /\ v.outCheckpoint.cells = c2
      <3>1. Len(c2) = s + k /\ s + k <= p
        BY <1>a
      <3>2. Voiced => \A i \in 1..(s + k) : c2[i] = t.prompt[i]
        <4>1. \A i \in 1..(s + k) : i <= p
          BY <1>1, <1>a
        <4> QED BY <1>4, <1>a, <4>1
      <3> QED BY <1>3, <2>2, <3>1, <3>2 DEF Fits, p
    <2> QED BY <1>a, <2>1, <2>2
  <1>8. FollowsOf(v, c2, d2, st, m)
    <2>1. \A j \in 1..Len(v.decoded) : FALSE
      BY <1>3
    <2>2. (m /\ v.outSynced => v.eligible) /\ (v.eligible => d2 = c2)
      BY DEF SameSides, FollowsOf
    <2>3. Voiced => \A i \in 1..Len(c2) : i <= Len(v.prompt) => c2[i] = v.prompt[i]
      BY <1>3, <1>4 DEF p
    <2> QED BY <1>6, <1>7, <2>1, <2>2, <2>3 DEF FollowsOf
  <1>9. RunsOf(v, c2, st, later)
    <2>1. Len(c2) = v.nPos
      BY <1>a
    <2>2. ~v.promptDone => v.nPos = v.promptPos /\ v.queue = <<>>
      <3>1. SUFFICES ASSUME a = <<>> PROVE v.nPos = v.promptPos /\ v.queue = <<>>
        OBVIOUS
      <3>2. Len(v.queue) = 0
        BY <1>1, <1>5, <3>1
      <3>3. v.queue = <<>>
        <4> DEFINE q == v.queue
        <4>1. q \in Seq(Event)
          BY DEF TaskType
        <4> HIDE DEF q
        <4>2. Len(q) = 0 => q = <<>>
          BY <4>1
        <4> QED BY <3>2, <4>2 DEF q
      <3> QED BY <1>a, <3>3
    <2>3. v.promptDone => v.nPos >= p /\ p + Len(v.queue) <= v.nPos + 1
      <3> SUFFICES ASSUME v.promptDone PROVE v.nPos >= p /\ p + Len(v.queue) <= v.nPos + 1
        OBVIOUS
      <3>1. v.nPos = p /\ Len(v.queue) <= 1 /\ Len(v.queue) \in Nat
        BY <1>1, <1>a
      <3> QED BY <1>1, <3>1
    <2>4. v.promptDone /\ ~later =>
            p + Len(v.queue) = v.nPos + 1 /\ v.queue # <<>> /\ v.lastToken = v.queue[Len(v.queue)]
      <3> SUFFICES ASSUME v.promptDone, ~later
                   PROVE  p + Len(v.queue) = v.nPos + 1 /\ v.queue # <<>> /\ v.lastToken = v.queue[Len(v.queue)]
        OBVIOUS
      <3>a. /\ a # <<>> /\ Len(v.queue) = n /\ n = Len(a) /\ (n > 0 => v.lastToken = a[n])
            /\ \A i \in 1..n : v.queue[i] = a[i]
        OBVIOUS
      <3>b. Len(a) = 1 /\ v.nPos = p
        BY <1>a, <3>a
      <3> HIDE DEF PromptGrew
      <3>c. n = 1 /\ 1 \in 1..n
        BY <3>a, <3>b
      <3>1. n = 1 /\ Len(v.queue) = 1 /\ v.nPos = p /\ v.lastToken = a[n] /\ v.queue[1] = a[1]
        BY <3>a, <3>b, <3>c
      <3>2. v.queue # <<>>
        BY <3>1, EmptyLen
      <3> QED BY <1>1, <3>1, <3>2
    <2> QED BY <1>3, <2>1, <2>2, <2>3, <2>4 DEF RunsOf, p
  <1> QED BY <1>8, <1>9

\* The last token and the accepted drafts went in.
AnswerGrew(t, v, st, later, c, d, m, c2, d2, k, a, n) ==
    /\ t \in TaskType /\ v \in TaskType /\ c \in Seq(Nat) /\ c2 \in Seq(Nat) /\ a \in Seq(Nat)
    /\ k \in Nat /\ n \in 0..k /\ st \in BOOLEAN
    /\ t.promptDone /\ v.promptDone /\ RunsOf(t, c, st, FALSE) /\ FollowsOf(t, c, d, st, m)
    /\ SameSides(t, v, c2, d2) /\ k >= 1 /\ Len(c2) = Len(c) + k
    /\ \A i \in 1..Len(c) : c2[i] = c[i]
    /\ c2[Len(c) + 1] = t.lastToken /\ Len(a) = k
    /\ \A i \in 1..(k - 1) : c2[Len(c) + (1 + i)] = a[i]
    /\ v.nPos = t.nPos + k /\ Len(v.queue) = Len(t.queue) + n
    /\ \A i \in 1..Len(t.queue) : v.queue[i] = t.queue[i] /\ t.queue[i] \notin Ends
    /\ \A i \in 1..n : v.queue[Len(t.queue) + i] = a[i]
    /\ ~later => n = k /\ v.lastToken = a[n]
    /\ v.outCheckpoint = t.outCheckpoint
LEMMA TookDecode ==
  ASSUME NEW t, NEW v, NEW st, NEW later, NEW c, NEW d, NEW m, NEW c2, NEW d2, NEW k, NEW a, NEW n,
         AnswerGrew(t, v, st, later, c, d, m, c2, d2, k, a, n)
  PROVE  FollowsOf(v, c2, d2, st, m) /\ RunsOf(v, c2, st, later)
  <1> USE DEF AnswerGrew
  <1> SUFFICES ASSUME Voiced PROVE FollowsOf(v, c2, d2, st, m) /\ RunsOf(v, c2, st, later)
    <2>1. t.nPos \in Nat /\ Len(t.prompt) \in Nat /\ Len(c) = t.nPos /\ t.nPos >= Len(t.prompt)
      BY TextLengths DEF RunsOf
    <2>2. Len(c2) = v.nPos /\ v.nPos >= Len(v.prompt)
      BY <2>1 DEF SameSides
    <2>3. Fits(v.outCheckpoint, v.prompt)
      BY DEF FollowsOf, SameSides
    <2> QED BY <2>2, <2>3 DEF FollowsOf, RunsOf, SameSides
  <1> DEFINE p == Len(t.prompt)
             w == Len(t.decoded)
             l == Len(t.queue)
             s == t.nPos
  <1>1. p \in Nat /\ w \in Nat /\ l \in Nat /\ s \in Nat /\ n \in Nat /\ n <= k
    <2>1. n \in Nat /\ n <= k
      OBVIOUS
    <2> QED BY <2>1, TextLengths
  <1>2. Len(c) = s /\ s >= p
    BY DEF RunsOf
  <1>3. Base(t) = p + w /\ Base(v) = p + w /\ v.prompt = t.prompt /\ v.decoded = t.decoded
    BY DEF SameSides, Base
  <1>4. /\ (st => p + w <= s)
        /\ (~st => /\ (p + w) + l = s + 1
                   /\ t.queue = <<>> => t.decoded # <<>> /\ t.lastToken = t.decoded[w]
                   /\ t.queue # <<>> => t.lastToken = t.queue[l])
    BY <1>3 DEF RunsOf
  <1>5. /\ \A i \in 1..s : i <= p => c[i] = t.prompt[i]
        /\ \A j \in 1..w : p + j <= s => c[p + j] = t.decoded[j]
        /\ ~st => \A j \in 1..l : (p + w) + j <= s => c[(p + w) + j] = t.queue[j]
    BY <1>2, <1>3, ZenonT(60) DEF FollowsOf
  <1>6. /\ Len(c2) = s + k /\ \A i \in 1..s : c2[i] = c[i]
        /\ c2[s + 1] = t.lastToken
        /\ \A i \in 1..(k - 1) : c2[s + (1 + i)] = a[i]
    BY <1>2
  <1>7. t.queue = <<>> => l = 0
    BY EmptyLen
  <1>8. t.queue # <<>> => l > 0
    <2> DEFINE q == t.queue
    <2>1. q \in Seq(Event)
      BY DEF TaskType
    <2> HIDE DEF q
    <2>2. q # <<>> => Len(q) > 0
      BY <2>1
    <2> QED BY <2>2 DEF q
  <1>9. t.decoded # <<>> => w > 0
    <2> DEFINE q == t.decoded
    <2>1. q \in Seq(Nat)
      BY DEF TaskType
    <2> HIDE DEF q
    <2>2. q # <<>> => Len(q) > 0
      BY <2>1
    <2> QED BY <2>2 DEF q
  <1>10. /\ v.nPos = s + k /\ Len(v.queue) = l + n
         /\ \A i \in 1..l : v.queue[i] = t.queue[i]
         /\ \A i \in 1..n : v.queue[l + i] = a[i]
    OBVIOUS
  <1> HIDE DEF p, w, l, s
  <1>11. \A i \in 1..(s + k) : i <= p => c2[i] = t.prompt[i]
    <2> SUFFICES ASSUME NEW i \in 1..(s + k), i <= p PROVE c2[i] = t.prompt[i]
      OBVIOUS
    <2>1. i \in 1..s
      BY <1>1, <1>2
    <2> QED BY <1>5, <1>6, <2>1
  <1>12. \A j \in 1..w : p + j <= s + k => c2[p + j] = t.decoded[j]
    <2> SUFFICES ASSUME NEW j \in 1..w PROVE c2[p + j] = t.decoded[j]
      OBVIOUS
    <2>1. CASE p + j <= s
      <3>1. p + j \in 1..s
        BY <1>1, <2>1
      <3> QED BY <1>5, <1>6, <2>1, <3>1
    <2>2. CASE ~(p + j <= s)
      <3>1. ~st /\ l = 0 /\ p + j = s + 1 /\ j = w
        <4> HIDE DEF AnswerGrew
        <4>1. ~st
          BY <1>1, <1>4, <2>2
        <4> QED BY <1>1, <1>4, <2>2, <4>1
      <3>2. t.queue = <<>>
        BY <1>8, <3>1
      <3> QED BY <1>4, <1>6, <3>1, <3>2
    <2> QED BY <2>1, <2>2
  <1>13. ~st => \A j \in 1..(l + n) : (p + w) + j <= s + k => c2[(p + w) + j] = v.queue[j]
    <2> SUFFICES ASSUME ~st, NEW j \in 1..(l + n), (p + w) + j <= s + k PROVE c2[(p + w) + j] = v.queue[j]
      OBVIOUS
    <2>1. CASE (p + w) + j <= s
      <3>1. (p + w) + j \in 1..s /\ j \in 1..l
        BY <1>1, <1>4, <2>1
      <3> QED BY <1>5, <1>6, <1>10, <2>1, <3>1
    <2>2. CASE (p + w) + j = s + 1
      <3>1. j = l /\ l > 0
        <4> HIDE DEF AnswerGrew
        <4> QED BY <1>1, <1>4, <2>2
      <3>2. t.queue # <<>> /\ l \in 1..l
        <4> HIDE DEF AnswerGrew
        <4> QED BY <1>1, <1>7, <3>1
      <3> QED BY <1>4, <1>6, <1>10, <2>2, <3>1, <3>2
    <2>3. CASE (p + w) + j > s + 1
      <3> DEFINE i == j - l
      <3>1. i \in 1..n /\ i \in 1..(k - 1) /\ j = l + i /\ (p + w) + j = s + (1 + i)
        BY <1>1, <1>4, <2>3
      <3> HIDE DEF i
      <3> QED BY <1>6, <1>10, <3>1
    <2> QED BY <1>1, <2>1, <2>2, <2>3
  <1>14. FollowsOf(v, c2, d2, st, m)
    <2>1. \A i \in 1..Len(c2) : i <= Len(v.prompt) => c2[i] = v.prompt[i]
      BY <1>3, <1>6, <1>11, ZenonT(60) DEF p
    <2>2. \A j \in 1..Len(v.decoded) : Len(v.prompt) + j <= Len(c2) => c2[Len(v.prompt) + j] = v.decoded[j]
      <3>1. Len(v.prompt) = p /\ Len(v.decoded) = w
        BY <1>3 DEF p, w
      <3>2. \A j \in 1..w : p + j <= s + k => c2[p + j] = v.decoded[j]
        BY <1>3, <1>12
      <3>3. Len(c2) = s + k
        BY <1>6
      <3> QED BY <3>1, <3>2, <3>3
    <2>3. ~st => \A j \in 1..Len(v.queue) :
            v.queue[j] \notin Ends /\ Base(v) + j <= Len(c2) => c2[Base(v) + j] = v.queue[j]
      BY <1>3, <1>6, <1>10, <1>13, ZenonT(60)
    <2>4. Fits(v.outCheckpoint, v.prompt)
      BY <1>3 DEF FollowsOf
    <2>5. (m /\ v.outSynced => v.eligible) /\ (v.eligible => d2 = c2)
      BY DEF SameSides, FollowsOf
    <2> QED BY <2>1, <2>2, <2>3, <2>4, <2>5 DEF FollowsOf
  <1>15. RunsOf(v, c2, st, later)
    <2>1. Len(c2) = v.nPos /\ v.nPos >= Len(v.prompt)
      BY <1>1, <1>2, <1>3, <1>6, <1>10, SMTT(30) DEF p
    <2>2. st => Base(v) <= v.nPos
      BY <1>1, <1>3, <1>4, <1>10
    <2>a. ~st => Base(v) + Len(v.queue) = s + 1 + n
      <3> SUFFICES ASSUME ~st PROVE Base(v) + Len(v.queue) = s + 1 + n
        OBVIOUS
      <3>1. (p + w) + l = s + 1
        BY <1>4
      <3>2. (p + w) + (l + n) = s + 1 + n
        BY <1>1, <3>1
      <3> QED BY <1>3, <1>10, <3>2
    <2>3. ~st => Base(v) + Len(v.queue) <= v.nPos + 1
      <3>1. s + 1 + n <= (s + k) + 1
        BY <1>1
      <3> QED BY <1>10, <2>a, <3>1
    <2>4. ~st /\ ~later => /\ Base(v) + Len(v.queue) = v.nPos + 1
                           /\ v.queue # <<>> /\ v.lastToken = v.queue[Len(v.queue)]
      <3> SUFFICES ASSUME ~st, ~later
                   PROVE  /\ Base(v) + Len(v.queue) = v.nPos + 1
                          /\ v.queue # <<>> /\ v.lastToken = v.queue[Len(v.queue)]
        OBVIOUS
      <3>1. n = k /\ v.lastToken = a[n]
        OBVIOUS
      <3>2. Base(v) + Len(v.queue) = v.nPos + 1 /\ Len(v.queue) > 0
        <4>a. k \in Nat /\ k >= 1
          OBVIOUS
        <4> HIDE DEF AnswerGrew
        <4>1. s + 1 + n = (s + k) + 1 /\ l + n > 0
          BY <1>1, <3>1, <4>a
        <4> QED BY <1>10, <2>a, <4>1
      <3>3. v.queue # <<>>
        BY <3>2, EmptyLen
      <3>4. n \in 1..n
        BY <1>1, <3>1
      <3> QED BY <1>10, <3>1, <3>2, <3>3, <3>4
    <2> QED BY <2>1, <2>2, <2>3, <2>4 DEF RunsOf
  <1> QED BY <1>14, <1>15
----------------------------------------------------------------------------
(* What the next state has to show.                                        *)

\* The three groups in the next state, in terms of its values.
LEMMA FollowsNext ==
  ASSUME rig' = rig, NEW r
  PROVE  Follows(r)' <=> FollowsOf(task'[r], kv'[task'[r].seq], draft'[task'[r].seq], stop'[r], rig'.mtp)
  BY DEF Follows, FollowsOf, Fits, Base, Ends, Voiced
LEMMA RunsNext ==
  ASSUME rig' = rig, NEW r
  PROVE  Runs(r)' <=> RunsOf(task'[r], kv'[task'[r].seq], stop'[r], r \in work'.done)
  BY DEF Runs, RunsOf, Base, Voiced
LEMMA RemembersNext ==
  ASSUME rig' = rig, NEW s
  PROVE  Remembers(s)' <=> RemembersOf(slots'[s], kv'[slots'[s].seq], draft'[slots'[s].seq], rig'.mtp)
  BY DEF Remembers, RemembersOf, Agrees, Fits, Voiced
LEMMA TruthfulStep ==
  ASSUME rig' = rig,
         ~terminal' => \A s \in 1..rig.slots : (\A r \in Requests : Started(r)' => task'[r].slot # s) =>
            RemembersOf(slots'[s], kv'[slots'[s].seq], draft'[slots'[s].seq], rig.mtp)
  PROVE  Truthful'
  BY RemembersNext DEF Truthful
LEMMA FaithfulStep ==
  ASSUME rig' = rig,
         \A r \in Requests : Started(r)' /\ ~cancel'[r] /\ ~terminal' =>
            FollowsOf(task'[r], kv'[task'[r].seq], draft'[task'[r].seq], stop'[r], rig.mtp),
         \A r \in Requests : Queued(r)' /\ task'[r].initialized /\ ~cancel'[r] =>
            RunsOf(task'[r], kv'[task'[r].seq], stop'[r], r \in work'.done)
  PROVE  Faithful'
  BY FollowsNext, RunsNext DEF Faithful
LEMMA FreshStep ==
  ASSUME rig' = rig,
         \A r \in Requests : at'[r] = "prepared" => ~task'[r].initialized,
         \A r \in Requests : Going(r)' /\ ~task'[r].initialized =>
            NewOf(task'[r], slots'[task'[r].slot]) /\ ~stop'[r],
         \A r \in Requests : at'[r] \in {"idle", "acquired"} => ~stop'[r],
         rig.capacity > 0 => \A r \in Requests :
            (Queued(r)' /\ task'[r].initialized) \/ r \in Members(work'.runnable) => task'[r].admitted,
         ~terminal' => \A r \in Requests : at'[r] = "draining" /\ task'[r].initialized =>
            \A i \in 1..Len(task'[r].queue) : task'[r].queue[i] # Failed,
         terminal' => \A r \in Requests : ~Queued(r)'
  PROVE  Fresh'
  <1>1. \A r \in Requests : NewOf(task[r], SeatOf(r))' <=> NewOf(task'[r], slots'[task'[r].slot])
    BY DEF NewOf, SeatOf, Ends
  <1>2. \A r \in Requests : (r \in Members(work.runnable))' <=> r \in Members(work'.runnable)
    BY DEF Members
  <1> QED BY <1>1, <1>2 DEF Fresh

\* A caller's step is about its own task.
Others(r) == \A q \in Requests : q # r =>
    task'[q] = task[q] /\ at'[q] = at[q] /\ cancel'[q] = cancel[q] /\ stop'[q] = stop[q]
LEMMA FaithfulCaller ==
  ASSUME Faithful, rig' = rig, kv' = kv, draft' = draft, terminal' = terminal, work' = work,
         NEW r \in Requests, Others(r), \A q \in Requests : q # r /\ Queued(q)' => Queued(q),
         Started(r)' /\ ~cancel'[r] /\ ~terminal =>
            FollowsOf(task'[r], kv[task'[r].seq], draft[task'[r].seq], stop'[r], rig.mtp),
         Queued(r)' /\ task'[r].initialized /\ ~cancel'[r] =>
            RunsOf(task'[r], kv[task'[r].seq], stop'[r], r \in work.done)
  PROVE  Faithful'
  <1>1. \A q \in Requests : q # r /\ Started(q)' => Started(q)
    BY DEF Others, Started
  <1>2. \A q \in Requests : Started(q)' /\ ~cancel'[q] /\ ~terminal' =>
            FollowsOf(task'[q], kv'[task'[q].seq], draft'[task'[q].seq], stop'[q], rig.mtp)
    <2> TAKE q \in Requests
    <2>1. CASE q = r
      BY <2>1
    <2>2. CASE q # r
      <3>1. task'[q] = task[q] /\ at'[q] = at[q] /\ cancel'[q] = cancel[q] /\ stop'[q] = stop[q]
        BY <2>2 DEF Others
      <3> QED BY <1>1, <2>2, <3>1 DEF Faithful, Follows
    <2> QED BY <2>1, <2>2
  <1>3. \A q \in Requests : Queued(q)' /\ task'[q].initialized /\ ~cancel'[q] =>
            RunsOf(task'[q], kv'[task'[q].seq], stop'[q], q \in work'.done)
    <2> TAKE q \in Requests
    <2>1. CASE q = r
      BY <2>1
    <2>2. CASE q # r
      <3>1. task'[q] = task[q] /\ at'[q] = at[q] /\ cancel'[q] = cancel[q] /\ stop'[q] = stop[q]
        BY <2>2 DEF Others
      <3> QED BY <2>2, <3>1 DEF Faithful, Runs
    <2> QED BY <2>1, <2>2
  <1> QED BY <1>2, <1>3, FaithfulStep
LEMMA FreshCaller ==
  ASSUME Fresh, rig' = rig, terminal' = terminal, work' = work, NEW r \in Requests, Others(r),
         \A q \in Requests : q # r /\ Queued(q)' => Queued(q),
         \A q \in Requests : q # r /\ Going(q) => Memory(slots[task[q].slot], slots'[task[q].slot]),
         at'[r] = "prepared" => ~task'[r].initialized,
         Going(r)' /\ ~task'[r].initialized => NewOf(task'[r], slots'[task'[r].slot]) /\ ~stop'[r],
         at'[r] \in {"idle", "acquired"} => ~stop'[r],
         rig.capacity > 0 => ((Queued(r)' /\ task'[r].initialized) \/ r \in Members(work.runnable) => task'[r].admitted),
         ~terminal => (at'[r] = "draining" /\ task'[r].initialized =>
            \A i \in 1..Len(task'[r].queue) : task'[r].queue[i] # Failed),
         terminal => ~Queued(r)'
  PROVE  Fresh'
  <1>1. \A q \in Requests : q # r =>
           task'[q] = task[q] /\ at'[q] = at[q] /\ cancel'[q] = cancel[q] /\ stop'[q] = stop[q]
    BY DEF Others
  <1>2. \A q \in Requests : at'[q] = "prepared" => ~task'[q].initialized
    BY <1>1 DEF Fresh
  <1>3. \A q \in Requests : Going(q)' /\ ~task'[q].initialized =>
            NewOf(task'[q], slots'[task'[q].slot]) /\ ~stop'[q]
    <2> TAKE q \in Requests
    <2>1. CASE q = r
      BY <2>1
    <2>2. CASE q # r
      <3>1. Going(q)' => Going(q)
        BY <1>1, <2>2 DEF Going
      <3> QED BY <1>1, <2>2, <3>1 DEF Fresh, NewOf, SeatOf, Memory
    <2> QED BY <2>1, <2>2
  <1>4. \A q \in Requests : at'[q] \in {"idle", "acquired"} => ~stop'[q]
    BY <1>1 DEF Fresh
  <1>5. rig.capacity > 0 => \A q \in Requests :
            (Queued(q)' /\ task'[q].initialized) \/ q \in Members(work'.runnable) => task'[q].admitted
    BY <1>1 DEF Fresh
  <1>6. ~terminal' => \A q \in Requests : at'[q] = "draining" /\ task'[q].initialized =>
            \A i \in 1..Len(task'[q].queue) : task'[q].queue[i] # Failed
    BY <1>1 DEF Fresh
  <1>7. terminal' => \A q \in Requests : ~Queued(q)'
    BY <1>1 DEF Fresh
  <1> QED BY <1>2, <1>3, <1>4, <1>5, <1>6, <1>7, FreshStep
LEMMA TruthfulCaller ==
  ASSUME Truthful, rig' = rig, kv' = kv, draft' = draft, terminal' = terminal, NEW r \in Requests, Others(r),
         \A s \in 1..rig.slots : Memory(slots[s], slots'[s]),
         Started(r) /\ ~terminal => Started(r)' /\ task'[r].slot = task[r].slot
  PROVE  Truthful'
  <1> SUFFICES ASSUME ~terminal, NEW s \in 1..rig.slots, \A q \in Requests : Started(q)' => task'[q].slot # s
               PROVE  RemembersOf(slots'[s], kv'[slots'[s].seq], draft'[slots'[s].seq], rig.mtp)
    BY TruthfulStep
  <1>1. \A q \in Requests : Started(q) => task[q].slot # s
    <2> TAKE q \in Requests
    <2>1. CASE q = r
      BY <2>1
    <2>2. CASE q # r
      BY <2>2 DEF Others, Started
    <2> QED BY <2>1, <2>2
  <1>2. RemembersOf(slots[s], kv[slots[s].seq], draft[slots[s].seq], rig.mtp)
    BY <1>1 DEF Truthful, Remembers
  <1>3. slots'[s].seq = slots[s].seq
    BY DEF Memory
  <1> QED BY <1>2, <1>3, RemembersSame
----------------------------------------------------------------------------
(* The callers' steps.                                                     *)

\* A caller that does not drain is not in the thread's hands.
LEMMA NotQueued ==
  ASSUME Alive, NEW r \in Requests, at[r] # "draining"
  PROVE  ~Queued(r) /\ r \notin Members(work.runnable)
  BY DEF Alive, Queued

LEMMA RecallAcquireSlot ==
  ASSUME Kernel, Recall, NEW r \in Requests, AcquireSlot(r, Healthy), UNCHANGED schedVars
  PROVE  Recall'
  <1>0. Typed /\ Alive /\ Fresh /\ Truthful /\ Faithful
    BY DEF Kernel, Recall
  <1>1. PICK s \in 1..rig.slots : slots' = [slots EXCEPT ![s].busy = TRUE] /\ task' = [task EXCEPT ![r].slot = s]
    BY <1>0, SlotSet DEF AcquireSlot
  <1>2. /\ rig' = rig /\ kv' = kv /\ draft' = draft /\ cancel' = cancel /\ stop' = stop
        /\ at' = [at EXCEPT ![r] = "acquired"] /\ at[r] = "idle"
        /\ active' = active /\ work' = work /\ terminal' = terminal
    BY DEF AcquireSlot, schedVars
  <1>3. /\ Others(r) /\ at'[r] = "acquired"
    BY <1>0, <1>1, <1>2 DEF Others, Typed, CallersTyped
  <1>4. \A x \in 1..rig.slots : Memory(slots[x], slots'[x])
    <2> TAKE x \in 1..rig.slots
    <2>1. slots \in [1..rig.slots -> SlotType] /\ slots[s] \in SlotType
      BY <1>0 DEF Typed, CacheTyped
    <2>2. CASE x = s
      <3>1. slots'[x] = [slots[s] EXCEPT !.busy = TRUE]
        BY <1>1, <2>1, <2>2
      <3> QED BY <2>1, <2>2, <3>1 DEF Memory, SlotType
    <2>3. CASE x # s
      BY <1>1, <2>1, <2>3 DEF Memory
    <2> QED BY <2>2, <2>3
  <1>5. ~Started(r) /\ ~Started(r)' /\ ~Going(r)'
    BY <1>2, <1>3 DEF Started, Going
  <1>6. \A q \in Requests : Queued(q)' <=> Queued(q)
    BY <1>2 DEF Queued, Members
  <1>7. ~Queued(r) /\ r \notin Members(work.runnable)
    BY <1>0, <1>2, NotQueued
  <1>8. \A q \in Requests : Going(q) => Memory(slots[task[q].slot], slots'[task[q].slot])
    <2>1. \A q \in Requests : Going(q) => task[q].slot \in 1..rig.slots
      BY GoingSeq DEF Kernel
    <2> QED BY <1>4, <2>1
  <1>9. ~stop'[r]
    BY <1>0, <1>2 DEF Fresh
  <1>10. Faithful'
    BY <1>0, <1>2, <1>3, <1>5, <1>6, <1>7, FaithfulCaller
  <1>11. Fresh'
    BY <1>0, <1>2, <1>3, <1>5, <1>6, <1>7, <1>8, <1>9, FreshCaller
  <1>12. Truthful'
    BY <1>0, <1>2, <1>3, <1>4, <1>5, TruthfulCaller
  <1> QED BY <1>10, <1>11, <1>12 DEF Recall

LEMMA RecallDisconnect ==
  ASSUME Kernel, Recall, NEW r \in Requests, Disconnect(r), UNCHANGED schedVars
  PROVE  Recall'
  <1>0. Typed /\ Alive /\ Fresh /\ Truthful /\ Faithful
    BY DEF Kernel, Recall
  <1>1. /\ rig' = rig /\ slots' = slots /\ kv' = kv /\ draft' = draft /\ task' = task /\ at' = at /\ stop' = stop
        /\ active' = active /\ work' = work /\ terminal' = terminal /\ cancel' = [cancel EXCEPT ![r] = TRUE]
    BY DEF Disconnect, schedVars
  <1>2. Others(r) /\ cancel'[r]
    BY <1>0, <1>1 DEF Others, Typed, CallersTyped
  <1>3. \A q \in Requests : (Queued(q)' <=> Queued(q)) /\ (Going(q)' <=> Going(q)) /\ (Started(q)' <=> Started(q))
    BY <1>1 DEF Queued, Members, Going, Started
  <1>4. Faithful'
    BY <1>0, <1>1, <1>2, <1>3, FaithfulCaller
  <1>5. Fresh'
    BY <1>0, <1>1, <1>3, FreshStep DEF Fresh, SeatOf
  <1>6. Truthful'
    BY <1>0, <1>1, <1>3, TruthfulStep DEF Truthful, Remembers
  <1> QED BY <1>4, <1>5, <1>6 DEF Recall

LEMMA RecallReleaseSlot ==
  ASSUME Kernel, Recall, NEW r \in Requests, ReleaseSlot(r), UNCHANGED schedVars
  PROVE  Recall'
  <1>0. Typed /\ Seated /\ Alive /\ Fresh /\ Truthful /\ Faithful
    BY DEF Kernel, Recall
  <1>1. /\ rig' = rig /\ kv' = kv /\ draft' = draft
        /\ task' = [task EXCEPT ![r] = NoTask] /\ at[r] = "leaving" /\ at' = [at EXCEPT ![r] = "over"]
        /\ cancel' = [cancel EXCEPT ![r] = FALSE] /\ stop' = [stop EXCEPT ![r] = FALSE]
        /\ active' = active /\ work' = work /\ terminal' = terminal
    BY DEF ReleaseSlot, schedVars
  <1> DEFINE s == task[r].slot
  <1>2. s \in 1..rig.slots
    BY <1>0, <1>1 DEF Holding, Seated
  <1>3. Others(r) /\ at'[r] = "over" /\ ~stop'[r]
    BY <1>0, <1>1 DEF Others, Typed, CallersTyped
  <1>4. slots' = [slots EXCEPT ![s].busy = FALSE, ![s].bound = FALSE] /\ slots \in [1..rig.slots -> SlotType]
    BY <1>0 DEF ReleaseSlot, Typed, CacheTyped
  <1> HIDE DEF s
  <1>5. \A x \in 1..rig.slots : Memory(slots[x], slots'[x])
    <2> TAKE x \in 1..rig.slots
    <2>1. slots[x] \in SlotType
      BY <1>4
    <2>2. CASE x = s
      <3>1. slots'[x] = [slots[x] EXCEPT !.busy = FALSE, !.bound = FALSE]
        BY <1>2, <1>4, <2>2
      <3> QED BY <2>1, <3>1 DEF Memory, SlotType
    <2>3. CASE x # s
      BY <1>4, <2>3 DEF Memory
    <2> QED BY <2>2, <2>3
  <1>6. ~Started(r) /\ ~Started(r)' /\ ~Going(r)'
    BY <1>1, <1>3 DEF Started, Going
  <1>7. \A q \in Requests : Queued(q)' <=> Queued(q)
    BY <1>1 DEF Queued, Members
  <1>8. ~Queued(r) /\ r \notin Members(work.runnable)
    BY <1>0, <1>1, NotQueued
  <1>9. \A q \in Requests : Going(q) => Memory(slots[task[q].slot], slots'[task[q].slot])
    <2>1. \A q \in Requests : Going(q) => task[q].slot \in 1..rig.slots
      BY <1>0, GoingSeq
    <2> QED BY <1>5, <2>1
  <1>10. Faithful'
    BY <1>0, <1>1, <1>3, <1>6, <1>7, <1>8, FaithfulCaller
  <1>11. Fresh'
    BY <1>0, <1>1, <1>3, <1>6, <1>7, <1>8, <1>9, FreshCaller
  <1>12. Truthful'
    BY <1>0, <1>1, <1>3, <1>5, <1>6, TruthfulCaller
  <1> QED BY <1>10, <1>11, <1>12 DEF Recall

LEMMA RecallSubmit ==
  ASSUME Kernel, Recall, NEW r \in Requests, Submit(r)
  PROVE  Recall'
  <1>0. Typed /\ Seated /\ Alive /\ Fresh /\ Truthful /\ Faithful
    BY DEF Kernel, Recall
  <1>1. /\ rig' = rig /\ slots' = slots /\ kv' = kv /\ draft' = draft /\ stop' = stop /\ cancel' = cancel
        /\ at' = [at EXCEPT ![r] = "draining"] /\ at[r] = "prepared" /\ terminal' = terminal /\ work' = work
        /\ \/ task' = [task EXCEPT ![r] = Told(r, Failed)] /\ active' = active
           \/ task' = task /\ active' = Append(active, r) /\ ~terminal
    BY DEF Submit, Told
  <1>2. /\ task[r].queue = <<>> /\ ~task[r].initialized /\ NewOf(task[r], slots[task[r].slot]) /\ ~stop[r]
    <2>1. Going(r) /\ ~task[r].initialized
      BY <1>0, <1>1 DEF Fresh, Going
    <2> QED BY <1>0, <1>1, <2>1 DEF Fresh, Alive, SeatOf
  <1>3. Others(r) /\ at'[r] = "draining"
    BY <1>0, <1>1 DEF Others, Typed, CallersTyped
  <1>4. ~Queued(r) /\ r \notin Members(work.runnable)
    BY <1>0, <1>1, NotQueued
  <1>5. \A q \in Requests : q # r /\ Queued(q)' => Queued(q)
    <2>1. CASE active' = active
      BY <2>1 DEF Queued, Members
    <2>2. CASE active' = Append(active, r)
      <3>1. active \in Seq(Requests)
        BY <1>0 DEF Typed, ThreadTyped
      <3>2. Members(active') = Members(active) \cup {r}
        BY <2>2, <3>1, AppendMembers
      <3>3. (Members(active))' = Members(active')
        BY DEF Members
      <3> QED BY <3>2, <3>3 DEF Queued
    <2> QED BY <1>1, <2>1, <2>2
  <1>6. terminal => ~Queued(r)'
    <2>1. active' = active => (Queued(r)' <=> Queued(r))
      BY DEF Queued, Members
    <2> QED BY <1>1, <1>4, <2>1
  <1>7. ~task'[r].initialized /\ NewOf(task'[r], slots'[task'[r].slot])
    <2>1. CASE task' = task
      BY <1>1, <1>2, <2>1
    <2>2. CASE task' = [task EXCEPT ![r] = Told(r, Failed)]
      <3> DEFINE t == task[r]
                 u == Told(r, Failed)
      <3>1. Failed \in Event /\ Failed \in Ends
        BY DEF Event, Ends
      <3>2. /\ Alike(t, u) /\ u.queue = Append(t.queue, Failed) /\ u.initialized = t.initialized
            /\ u.promptDone = t.promptDone /\ u.outCheckpoint = t.outCheckpoint
        BY <1>0, <3>1, ToldTask
      <3>3. task'[r] = u
        BY <1>0, <2>2 DEF Typed, CallersTyped
      <3> HIDE DEF u, t
      <3>4. \A i \in 1..Len(u.queue) : u.queue[i] \in Ends
        <4> DEFINE e == Failed
        <4> HIDE DEF e
        <4>1. Len(Append(<<>>, e)) = 1 /\ Append(<<>>, e)[1] = e
          OBVIOUS
        <4> QED BY <1>2, <3>1, <3>2, <4>1 DEF e, t
      <3> QED BY <1>1, <1>2, <3>2, <3>3, <3>4 DEF NewOf, Alike, t
    <2> QED BY <1>1, <2>1, <2>2
  <1>8. ~Started(r) /\ ~Started(r)'
    BY <1>2, <1>7 DEF Started
  <1>9. \A q \in Requests : Memory(slots[task[q].slot], slots'[task[q].slot])
    BY <1>1 DEF Memory
  <1>10. \A x \in 1..rig.slots : Memory(slots[x], slots'[x])
    BY <1>1 DEF Memory
  <1>11. Faithful'
    BY <1>0, <1>1, <1>3, <1>5, <1>7, <1>8, FaithfulCaller
  <1>12. Fresh'
    BY <1>0, <1>1, <1>2, <1>3, <1>4, <1>5, <1>6, <1>7, <1>9, FreshCaller
  <1>13. Truthful'
    BY <1>0, <1>1, <1>3, <1>8, <1>10, TruthfulCaller
  <1> QED BY <1>11, <1>12, <1>13 DEF Recall

\* A slot that nobody has bound has nothing running on it.
LEMMA UnboundRemembers ==
  ASSUME Seated, Truthful, ~terminal, NEW s \in 1..rig.slots, ~slots[s].bound
  PROVE  RemembersOf(slots[s], kv[slots[s].seq], draft[slots[s].seq], rig.mtp)
  <1>1. \A q \in Requests : Started(q) => Holding(q) /\ at[q] # "acquired"
    BY DEF Started, Holding
  <1>2. \A q \in Requests : Started(q) => task[q].slot # s
    BY <1>1 DEF Seated, SeatOf
  <1> QED BY <1>2 DEF Truthful, Remembers

LEMMA RecallPrepareInference ==
  ASSUME Kernel, Recall, NEW r \in Requests, PrepareInference(r), UNCHANGED schedVars
  PROVE  Recall'
  <1>0. Typed /\ Seated /\ Alive /\ Fresh /\ Truthful /\ Faithful
    BY DEF Kernel, Recall
  <1>1. PICK own, best : Exchange(r, own, best) /\ Prepares(r, own)
    BY <1>0, PreparesSlots
  <1>2. /\ own = task[r].slot /\ own \in 1..rig.slots /\ best \in 1..rig.slots
        /\ ~slots[own].bound /\ ~slots[best].bound
        /\ slots' \in [1..rig.slots -> SlotType]
        /\ Memory(slots[best], slots'[own])
        /\ best # own => Memory(slots[own], slots'[best])
        /\ \A x \in 1..rig.slots : x # own /\ x # best => slots'[x] = slots[x]
    BY <1>1 DEF Exchange
  <1>3. /\ rig' = rig /\ kv' = kv /\ draft' = draft /\ cancel' = cancel /\ stop' = stop /\ at[r] = "acquired"
        /\ active' = active /\ work' = work /\ terminal' = terminal
    BY DEF PrepareInference, schedVars
  <1>4. Holding(r) /\ slots'[own] \in SlotType
    BY <1>2, <1>3 DEF Holding
  <1> DEFINE t == NewTask(r, own)
  <1>5. /\ t \in TaskType /\ t.slot = own /\ ~t.initialized /\ NewOf(t, slots'[own])
    <2>1. /\ t.queue = <<>> /\ t \in TaskType /\ t.slot = own /\ ~t.initialized /\ ~t.promptDone
          /\ t.decoded = <<>> /\ t.outCheckpoint.pos = 0 /\ t.last = slots'[own].last
          /\ t.checkpoint = slots'[own].checkpoint /\ t.synced = slots'[own].synced
      BY <1>0, <1>2, <1>4, NewTaskType
    <2> HIDE DEF t
    <2>2. \A i \in 1..Len(t.queue) : FALSE
      BY <2>1
    <2> QED BY <2>1, <2>2 DEF NewOf
  <1> HIDE DEF t
  <1>6. /\ \/ at'[r] = "prepared" /\ task'[r] = t
           \/ at'[r] = "leaving" /\ task'[r] = task[r]
        /\ Others(r)
    <2>1. task \in [Requests -> TaskType] /\ at \in [Requests -> Places]
      BY <1>0 DEF Typed, CallersTyped
    <2>2. CASE at' = [at EXCEPT ![r] = "prepared"] /\ task' = [task EXCEPT ![r] = t]
      BY <1>3, <2>1, <2>2 DEF Others
    <2>3. CASE at' = [at EXCEPT ![r] = "leaving"] /\ task' = task
      BY <1>3, <2>1, <2>3 DEF Others
    <2> QED BY <1>1, <2>2, <2>3 DEF Prepares, t
  <1>7. ~Queued(r) /\ r \notin Members(work.runnable) /\ \A q \in Requests : Queued(q)' <=> Queued(q)
    <2>1. \A q \in Requests : Queued(q)' <=> Queued(q)
      BY <1>3 DEF Queued, Members
    <2> QED BY <1>0, <1>3, <2>1, NotQueued
  <1>8. ~Started(r) /\ ~Started(r)' /\ ~stop[r]
    <2>1. ~stop[r]
      BY <1>0, <1>3 DEF Fresh
    <2> QED BY <1>3, <1>6, <2>1 DEF Started
  <1>9. \A q \in Requests : q # r /\ Going(q) => Memory(slots[task[q].slot], slots'[task[q].slot])
    <2> TAKE q \in Requests
    <2> HAVE q # r /\ Going(q)
    <2>1. Holding(q) /\ at[q] # "acquired"
      BY DEF Going, Holding
    <2>2. task[q].slot \in 1..rig.slots /\ slots[task[q].slot].bound
      BY <1>0, <2>1 DEF Seated, SeatOf
    <2>3. task[q].slot # own /\ task[q].slot # best
      BY <1>2, <2>2
    <2> QED BY <1>2, <2>2, <2>3 DEF Memory
  <1>10. Faithful'
    BY <1>0, <1>3, <1>6, <1>7, <1>8, FaithfulCaller
  <1>11. Fresh'
    <2>1. Going(r)' => task'[r] = t /\ task'[r].slot = own
      BY <1>5, <1>6 DEF Going
    <2>2. at'[r] = "prepared" => ~task'[r].initialized
      BY <1>5, <1>6
    <2>3. ~Queued(r)' /\ at'[r] # "draining" /\ at'[r] \notin {"idle", "acquired"} /\ ~stop'[r]
      BY <1>3, <1>6, <1>7, <1>8
    <2>4. Going(r)' => NewOf(task'[r], slots'[task'[r].slot])
      BY <1>5, <2>1
    <2> QED BY <1>0, <1>3, <1>6, <1>7, <1>9, <2>2, <2>3, <2>4, FreshCaller
  <1>12. Truthful'
    <2> SUFFICES ASSUME ~terminal, NEW s \in 1..rig.slots, \A q \in Requests : Started(q)' => task'[q].slot # s
                 PROVE  RemembersOf(slots'[s], kv[slots'[s].seq], draft[slots'[s].seq], rig.mtp)
      BY <1>3, TruthfulStep
    <2>1. CASE s = own
      <3>1. RemembersOf(slots[best], kv[slots[best].seq], draft[slots[best].seq], rig.mtp)
        BY <1>0, <1>2, UnboundRemembers
      <3>2. Memory(slots[best], slots'[s]) /\ slots'[s].seq = slots[best].seq
        BY <1>2, <2>1 DEF Memory
      <3> QED BY <3>1, <3>2, RemembersSame
    <2>2. CASE s = best /\ s # own
      <3>1. RemembersOf(slots[own], kv[slots[own].seq], draft[slots[own].seq], rig.mtp)
        BY <1>0, <1>2, UnboundRemembers
      <3>2. Memory(slots[own], slots'[s]) /\ slots'[s].seq = slots[own].seq
        BY <1>2, <2>2 DEF Memory
      <3> QED BY <3>1, <3>2, RemembersSame
    <2>3. CASE s # best /\ s # own
      <3>1. \A q \in Requests : Started(q) => task[q].slot # s
        BY <1>6, <1>8 DEF Others, Started
      <3>2. RemembersOf(slots[s], kv[slots[s].seq], draft[slots[s].seq], rig.mtp)
        BY <1>0, <3>1 DEF Truthful, Remembers
      <3> QED BY <1>2, <2>3, <3>2
    <2> QED BY <2>1, <2>2, <2>3
  <1> QED BY <1>10, <1>11, <1>12 DEF Recall

\* A task that runs is drained to its last event; one that never ran has no other.
LEMMA RecallDrain ==
  ASSUME Kernel, Recall, NEW r \in Requests, Drain(r), UNCHANGED schedVars
  PROVE  Recall'
  <1>0. Typed /\ Seated /\ Alive /\ Fresh /\ Truthful /\ Faithful
    BY DEF Kernel, Recall
  <1>1. /\ rig' = rig /\ slots' = slots /\ kv' = kv /\ draft' = draft /\ at[r] = "draining"
        /\ active' = active /\ work' = work /\ terminal' = terminal
    BY DEF Drain, schedVars
  <1>2. PICK event : Drains(r, event)
    BY <1>0, DrainOnce
  <1> DEFINE t == task[r]
             u == task'[r]
  <1>3. /\ Popped(t, u) /\ u \in TaskType /\ t \in TaskType /\ \A q \in Requests : q # r => task'[q] = task[q]
    <2>1. task \in [Requests -> TaskType]
      BY <1>0 DEF Typed, CallersTyped
    <2>2. Popped(t, u) /\ task' = [task EXCEPT ![r] = u]
      BY <1>2 DEF Drains
    <2>3. u \in TaskType
      BY <2>2 DEF Popped
    <2> HIDE DEF u
    <2> QED BY <2>1, <2>2, <2>3
  <1>4. Others(r)
    <2>1. \A q \in Requests : q # r => at'[q] = at[q] /\ cancel'[q] = cancel[q] /\ stop'[q] = stop[q]
      BY <1>0, <1>2 DEF Drains, Typed, CallersTyped
    <2> QED BY <1>3, <2>1 DEF Others
  <1>5. /\ t.queue \in Seq(Event) /\ Len(t.queue) > 0 /\ event = t.queue[1] /\ u.queue = Tail(t.queue)
    BY <1>2 DEF Drains, Popped
  <1>6. /\ Len(u.queue) = Len(t.queue) - 1 /\ Len(t.queue) \in Nat
        /\ \A i \in 1..Len(u.queue) : u.queue[i] = t.queue[i + 1]
    BY <1>5, TailPlaces
  <1>7. \A i \in 1..Len(u.queue) : i + 1 \in 1..Len(t.queue)
    BY <1>6
  <1>8. \/ /\ event \in Ends /\ at'[r] = IF event = Done THEN "drained" ELSE "leaving"
           /\ u.decoded = t.decoded /\ cancel'[r] = cancel[r] /\ stop'[r] = stop[r]
        \/ /\ event \notin Ends /\ at'[r] = "draining"
           /\ \/ stop[r] /\ stop'[r] /\ cancel'[r] = cancel[r] /\ u.decoded = t.decoded
              \/ ~Voiced /\ stop'[r] = stop[r] /\ cancel'[r] = cancel[r] /\ u.decoded = t.decoded
              \/ ~stop[r] /\ stop'[r] /\ cancel'[r] = cancel[r] /\ u.decoded = t.decoded
              \/ /\ ~stop[r] /\ ~stop'[r] /\ u.decoded = Append(t.decoded, event)
                 /\ cancel'[r] = cancel[r] \/ cancel'[r]
    <2>1. at \in [Requests -> Places] /\ stop \in [Requests -> BOOLEAN] /\ cancel \in [Requests -> BOOLEAN]
      BY <1>0 DEF Typed, CallersTyped
    <2> HIDE DEF t, u
    <2>2. CASE event \in Ends
      BY <1>2, <2>1, <2>2 DEF Drains, t, u
    <2>3. CASE event \notin Ends
      BY <1>1, <1>2, <2>1, <2>3 DEF Drains, t, u
    <2> QED BY <2>2, <2>3
  <1>9. Going(r) /\ t.seq \in 1..rig.slots /\ t.slot \in 1..rig.slots
    <2>1. Going(r)
      BY <1>1 DEF Going
    <2> QED BY <1>0, <2>1, GoingSeq
  <1>10. kv[t.seq] \in Seq(Nat) /\ stop[r] \in BOOLEAN /\ stop'[r] \in BOOLEAN
    <2>1. kv[t.seq] \in Seq(Nat) /\ stop[r] \in BOOLEAN
      BY <1>0, <1>9 DEF Typed, CacheTyped, CallersTyped
    <2>2. Kernel'
      BY KernelDrain
    <2>3. CallersTyped'
      BY <2>2 DEF Kernel, Typed
    <2>4. stop'[r] \in BOOLEAN
      BY <2>3 DEF CallersTyped
    <2> QED BY <2>1, <2>4
  <1>11. \A q \in Requests : Queued(q)' <=> Queued(q)
    BY <1>1 DEF Queued, Members
  <1>12. event \in Ends => ~Queued(r) /\ \A k \in 2..Len(t.queue) : FALSE
    <2> SUFFICES ASSUME event \in Ends PROVE ~Queued(r) /\ \A k \in 2..Len(t.queue) : FALSE
      OBVIOUS
    <2>1. 1 \in 1..Len(t.queue) /\ t.queue[1] \in Ends
      BY <1>5, <1>6
    <2>2. ~Queued(r)
      BY <1>0, <2>1 DEF Alive
    <2>3. \A i \in 1..(Len(t.queue) - 1) : t.queue[i] \notin Ends
      BY <1>0, <1>1, <2>2 DEF Alive
    <2> HIDE DEF t, u
    <2>4. ~(1 \in 1..(Len(t.queue) - 1))
      BY <2>1, <2>3
    <2> DEFINE n == Len(t.queue)
    <2>5. n \in Nat /\ ~(1 \in 1..(n - 1))
      BY <1>6, <2>4
    <2> HIDE DEF n
    <2>6. \A k \in 2..n : FALSE
      BY <2>5
    <2> QED BY <2>2, <2>6 DEF n
  <1>13. ~t.initialized => NewOf(t, slots[t.slot]) /\ ~stop[r]
    BY <1>0, <1>9 DEF Fresh, SeatOf
  <1>14. ~terminal /\ t.initialized => \A i \in 1..Len(t.queue) : t.queue[i] # Failed
    BY <1>0, <1>1 DEF Fresh
  <1>15. u.initialized = t.initialized /\ u.seq = t.seq /\ u.slot = t.slot /\ u.admitted = t.admitted
    BY <1>3 DEF Popped
  <1> HIDE DEF t, u
  <1>16. /\ \/ event \in Ends /\ u.decoded = t.decoded /\ (stop'[r] <=> stop[r]) /\ \A k \in 2..Len(t.queue) : FALSE
            \/ event \notin Ends /\ (stop'[r] \/ ~Voiced) /\ u.decoded = t.decoded
            \/ event \notin Ends /\ ~stop[r] /\ ~stop'[r] /\ u.decoded = Append(t.decoded, event)
         /\ stop[r] => stop'[r]
         /\ cancel[r] => cancel'[r]
    BY <1>8, <1>12
  <1>17. Started(r)' => Started(r)
    BY <1>1, <1>8, <1>15 DEF Started, t, u
  <1>18. Started(r) /\ ~terminal => Started(r)'
    <2> SUFFICES ASSUME t.initialized, ~terminal PROVE at'[r] \in {"draining", "drained"}
      BY <1>15 DEF Started, t, u
    <2>1. event # Failed
      BY <1>5, <1>6, <1>14
    <2>2. event \in Ends => event = Done
      BY <2>1 DEF Ends
    <2> QED BY <1>8, <2>2
  <1>19. Faithful'
    <2>1. ASSUME Started(r)', ~cancel'[r], ~terminal
          PROVE  FollowsOf(u, kv[u.seq], draft[u.seq], stop'[r], rig.mtp)
      <3>1. FollowsOf(t, kv[t.seq], draft[t.seq], stop[r], rig.mtp)
        BY <1>0, <1>16, <1>17, <2>1 DEF Faithful, Follows, t
      <3> QED BY <1>3, <1>5, <1>10, <1>15, <1>16, <3>1, FollowsPopped
    <2>2. ASSUME Queued(r)', u.initialized, ~cancel'[r]
          PROVE  RunsOf(u, kv[u.seq], stop'[r], r \in work.done)
      <3>1. RunsOf(t, kv[t.seq], stop[r], r \in work.done)
        BY <1>0, <1>11, <1>15, <1>16, <2>2 DEF Faithful, Runs, t
      <3>2. event \notin Ends
        BY <1>11, <1>12, <2>2
      <3>3. \/ (stop'[r] \/ ~Voiced) /\ u.decoded = t.decoded
            \/ ~stop'[r] /\ u.decoded = Append(t.decoded, t.queue[1])
        BY <1>5, <1>16, <3>2
      <3> QED BY <1>3, <1>5, <1>15, <1>16, <3>1, <3>2, <3>3, RunsPopped
    <2> QED BY <1>0, <1>1, <1>4, <1>11, <2>1, <2>2, FaithfulCaller DEF u
  <1>20. Fresh'
    <2>1. ~u.initialized => NewOf(u, slots'[u.slot]) /\ ~stop'[r]
      <3> SUFFICES ASSUME ~u.initialized PROVE NewOf(u, slots[t.slot]) /\ ~stop'[r]
        BY <1>1, <1>15
      <3>1. NewOf(t, slots[t.slot]) /\ ~stop[r]
        BY <1>13, <1>15
      <3>2. \A i \in 1..Len(t.queue) : t.queue[i] \in Ends
        BY <3>1 DEF NewOf
      <3>3. event \in Ends
        BY <1>5, <1>6, <3>2
      <3>4. \A i \in 1..Len(u.queue) : u.queue[i] \in Ends
        BY <1>6, <1>7, <3>2
      <3> QED BY <1>3, <1>16, <3>1, <3>3, <3>4 DEF NewOf, Popped
    <2>2. ~terminal => (u.initialized => \A i \in 1..Len(u.queue) : u.queue[i] # Failed)
      BY <1>6, <1>7, <1>14, <1>15
    <2>3. rig.capacity > 0 => ((Queued(r)' /\ u.initialized) \/ r \in Members(work.runnable) => u.admitted)
      BY <1>0, <1>11, <1>15 DEF Fresh, t
    <2>4. terminal => ~Queued(r)'
      BY <1>0, <1>11 DEF Fresh
    <2>5. \A q \in Requests : Memory(slots[task[q].slot], slots'[task[q].slot])
      BY <1>1 DEF Memory
    <2>6. at'[r] \notin {"idle", "acquired", "prepared"}
      BY <1>8
    <2> QED BY <1>0, <1>1, <1>4, <1>11, <2>1, <2>2, <2>3, <2>4, <2>5, <2>6, FreshCaller DEF u
  <1>21. Truthful'
    <2>1. \A x \in 1..rig.slots : Memory(slots[x], slots'[x])
      BY <1>1 DEF Memory
    <2>2. task'[r].slot = task[r].slot
      BY <1>15 DEF t, u
    <2> QED BY <1>0, <1>1, <1>4, <1>18, <2>1, <2>2, TruthfulCaller
  <1> QED BY <1>19, <1>20, <1>21 DEF Recall

\* What a caller writes back is what its sequence holds, or nothing.
LEMMA RecallUpdateSlot ==
  ASSUME Kernel, Recall, NEW r \in Requests, UpdateSlot(r), UNCHANGED schedVars
  PROVE  Recall'
  <1>0. Typed /\ Seated /\ Alive /\ Fresh /\ Truthful /\ Faithful
    BY DEF Kernel, Recall
  <1>1. /\ rig' = rig /\ kv' = kv /\ draft' = draft /\ task' = task /\ cancel' = cancel /\ stop' = stop
        /\ at[r] = "drained" /\ at' = [at EXCEPT ![r] = "leaving"]
        /\ active' = active /\ work' = work /\ terminal' = terminal
    BY DEF UpdateSlot, schedVars
  <1> DEFINE s == task[r].slot
             t == task[r]
             now == Remembered(slots[s], t, cancel[r])
  <1>2. Going(r) /\ Holding(r) /\ s \in 1..rig.slots /\ t.seq = slots[s].seq
    <2>1. Going(r) /\ Holding(r)
      BY <1>1 DEF Going, Holding
    <2> QED BY <1>0, <2>1, GoingSeq
  <1>3. slots' = [slots EXCEPT ![s] = now]
    BY DEF UpdateSlot
  <1>4. slots \in [1..rig.slots -> SlotType] /\ t \in TaskType /\ cancel[r] \in BOOLEAN
    BY <1>0 DEF Typed, CacheTyped, CallersTyped
  <1>5. /\ now.seq = slots[s].seq
        /\ ~t.initialized => now = slots[s]
        /\ t.initialized /\ cancel[r] => now.last = <<>> /\ now.checkpoint = NoCheckpoint /\ now.synced = FALSE
        /\ t.initialized /\ ~cancel[r] => /\ now.last = t.prompt \o t.decoded
                                          /\ now.checkpoint = t.outCheckpoint /\ now.synced = t.outSynced
    BY <1>2, <1>4, RememberedSlot
  <1> HIDE DEF now
  <1>6. slots'[s] = now /\ \A x \in 1..rig.slots : x # s => slots'[x] = slots[x]
    BY <1>2, <1>3, <1>4
  <1>7. Others(r) /\ at'[r] = "leaving"
    BY <1>0, <1>1 DEF Others, Typed, CallersTyped
  <1>8. ~Started(r)' /\ ~Going(r)'
    BY <1>7 DEF Started, Going
  <1>9. ~Queued(r) /\ r \notin Members(work.runnable) /\ \A q \in Requests : Queued(q)' <=> Queued(q)
    <2>1. \A q \in Requests : Queued(q)' <=> Queued(q)
      BY <1>1 DEF Queued, Members
    <2> QED BY <1>0, <1>1, <2>1, NotQueued
  <1>10. \A q \in Requests : q # r /\ Going(q) => task[q].slot \in 1..rig.slots /\ task[q].slot # s
    <2>1. \A q \in Requests : Going(q) => Holding(q)
      BY DEF Going, Holding
    <2> QED BY <1>0, <1>2, <2>1 DEF Seated
  <1>11. \A q \in Requests : q # r /\ Going(q) => Memory(slots[task[q].slot], slots'[task[q].slot])
    BY <1>6, <1>10 DEF Memory
  <1>12. Faithful'
    BY <1>0, <1>1, <1>7, <1>8, <1>9, FaithfulCaller
  <1>13. Fresh'
    BY <1>0, <1>1, <1>7, <1>8, <1>9, <1>11, FreshCaller
  <1>14. Truthful'
    <2> SUFFICES ASSUME ~terminal, NEW x \in 1..rig.slots, \A q \in Requests : Started(q)' => task'[q].slot # x
                 PROVE  RemembersOf(slots'[x], kv[slots'[x].seq], draft[slots'[x].seq], rig.mtp)
      BY <1>1, TruthfulStep
    <2>1. \A q \in Requests : q # r /\ Started(q) => task[q].slot # x
      BY <1>1, <1>7 DEF Others, Started
    <2>2. CASE x = s /\ t.initialized
      <3>1. CASE cancel[r]
        BY <1>5, <1>6, <2>2, <3>1, RemembersForgot
      <3>2. CASE ~cancel[r]
        <4>1. Started(r)
          BY <1>1, <2>2 DEF Started
        <4>2. FollowsOf(t, kv[t.seq], draft[t.seq], stop[r], rig.mtp)
          BY <1>0, <3>2, <4>1 DEF Faithful, Follows
        <4>3. /\ now.last = t.prompt \o t.decoded /\ now.checkpoint = t.outCheckpoint /\ now.synced = t.outSynced
              /\ now.seq = t.seq /\ slots'[x] = now
          BY <1>2, <1>5, <1>6, <2>2, <3>2
        <4> QED BY <1>4, <4>2, <4>3, RemembersUpdated
      <3> QED BY <3>1, <3>2
    <2>3. CASE x # s \/ ~t.initialized
      <3>1. \A q \in Requests : Started(q) => task[q].slot # x
        <4>1. Started(r) => x # s
          BY <2>3 DEF Started
        <4> QED BY <2>1, <4>1
      <3>2. RemembersOf(slots[x], kv[slots[x].seq], draft[slots[x].seq], rig.mtp)
        BY <1>0, <3>1 DEF Truthful, Remembers
      <3>3. slots'[x] = slots[x]
        BY <1>5, <1>6, <2>3
      <3> QED BY <3>2, <3>3
    <2> QED BY <2>2, <2>3
  <1> QED BY <1>12, <1>13, <1>14 DEF Recall

\* Steps that touch neither slots, cells nor tasks.
RestOfRecall == <<rig, slots, kv, draft, task, at, cancel, stop, active, terminal, work>>
LEMMA RecallUnchanged ==
  ASSUME Recall, UNCHANGED RestOfRecall
  PROVE  Recall'
  <1>0. Fresh /\ Truthful /\ Faithful
    BY DEF Recall
  <1>1. /\ rig' = rig /\ slots' = slots /\ kv' = kv /\ draft' = draft /\ task' = task /\ at' = at
        /\ cancel' = cancel /\ stop' = stop /\ active' = active /\ terminal' = terminal /\ work' = work
    BY DEF RestOfRecall
  <1>2. \A q \in Requests : /\ Queued(q)' <=> Queued(q)
                            /\ Going(q)' <=> Going(q)
                            /\ Started(q)' <=> Started(q)
    BY <1>1 DEF Queued, Members, Going, Started
  <1>3. Faithful'
    BY <1>0, <1>1, <1>2, FaithfulStep DEF Faithful, Follows, Runs
  <1>4. Fresh'
    BY <1>0, <1>1, <1>2, FreshStep DEF Fresh, SeatOf
  <1>5. Truthful'
    BY <1>0, <1>1, <1>2, TruthfulStep DEF Truthful, Remembers
  <1> QED BY <1>3, <1>4, <1>5 DEF Recall

LEMMA RecallMoves ==
  ASSUME Recall, Moves \/ StopBegin \/ StopNotify \/ UNCHANGED vars
  PROVE  Recall'
  <1>1. UNCHANGED RestOfRecall
    BY DEF Moves, StopBegin, StopNotify, vars, schedVars, RestOfRecall
  <1> QED BY <1>1, RecallUnchanged

\* Contexts that were made anew hold nothing, and nobody holds a slot.
LEMMA RecallRecreate ==
  ASSUME Kernel, Recall, Recreate
  PROVE  Recall'
  <1>0. Typed /\ Seated /\ Alive /\ Fresh
    BY DEF Kernel, Recall
  <1>1. /\ rig' = rig /\ task' = task /\ at' = at /\ cancel' = cancel /\ stop' = stop /\ active' = active
        /\ work' = NoWork /\ slots' = [s \in Slots |-> FreshSlot(s)]
        /\ kv' = [s \in Slots |-> <<>>] /\ draft' = [s \in Slots |-> <<>>] /\ life = "joining"
    BY DEF Recreate
  <1>2. Slots = 1..rig.slots
    BY <1>0, SlotSet
  <1>3. \A q \in Requests : ~Holding(q)
    BY <1>0, <1>1 DEF Seated
  <1>4. \A q \in Requests : ~Going(q)' /\ ~Started(q)' /\ at[q] # "prepared" /\ at[q] # "draining"
    BY <1>1, <1>3 DEF Holding, Going, Started
  <1>5. \A q \in Requests : ~Queued(q)'
    BY <1>0, <1>1, <1>4 DEF Queued, Members, Alive
  <1>6. Faithful'
    BY <1>1, <1>4, <1>5, FaithfulStep
  <1>7. Fresh'
    <2>1. Members(work'.runnable) = {}
      BY <1>1, NoWorkType
    <2> QED BY <1>0, <1>1, <1>4, <1>5, <2>1, FreshStep DEF Fresh
  <1>8. Truthful'
    <2> SUFFICES ASSUME NEW s \in 1..rig.slots
                 PROVE  RemembersOf(slots'[s], kv'[slots'[s].seq], draft'[slots'[s].seq], rig.mtp)
      BY <1>1, TruthfulStep
    <2>1. slots'[s] = FreshSlot(s) /\ FreshSlot(s).seq = s /\ kv'[s] = <<>> /\ draft'[s] = <<>>
      BY <1>1, <1>2 DEF FreshSlot
    <2>2. RemembersOf(FreshSlot(s), <<>>, <<>>, rig.mtp)
      BY DEF RemembersOf, FreshSlot, Agrees, Fits, NoCheckpoint
    <2> QED BY <2>1, <2>2
  <1> QED BY <1>6, <1>7, <1>8 DEF Recall

LEMMA RecallInit ==
  ASSUME Init
  PROVE  Recall
  <1>1. /\ slots = [s \in 1..rig.slots |-> FreshSlot(s)] /\ kv = [s \in 1..rig.slots |-> <<>>]
        /\ draft = [s \in 1..rig.slots |-> <<>>] /\ task = [r \in Requests |-> NoTask]
        /\ at = [r \in Requests |-> "idle"] /\ stop = [r \in Requests |-> FALSE]
        /\ active = <<>> /\ work = NoWork /\ terminal = FALSE
    BY DEF Init, CacheInit
  <1>2. \A q \in Requests : ~Going(q) /\ ~Started(q) /\ at[q] = "idle" /\ ~stop[q]
    BY <1>1 DEF Going, Started
  <1>3. \A q \in Requests : ~Queued(q)
    BY <1>1 DEF Queued, Members
  <1>4. Members(work.runnable) = {}
    BY <1>1, NoWorkType
  <1>5. Faithful
    BY <1>2, <1>3 DEF Faithful
  <1>6. Fresh
    BY <1>2, <1>3, <1>4 DEF Fresh
  <1>7. Truthful
    <2> SUFFICES ASSUME NEW s \in 1..rig.slots PROVE Remembers(s)
      BY DEF Truthful
    <2>1. slots[s] = FreshSlot(s) /\ FreshSlot(s).seq = s /\ kv[s] = <<>> /\ draft[s] = <<>>
      BY <1>1 DEF FreshSlot
    <2>2. RemembersOf(FreshSlot(s), <<>>, <<>>, rig.mtp)
      BY DEF RemembersOf, FreshSlot, Agrees, Fits, NoCheckpoint
    <2> QED BY <2>1, <2>2 DEF Remembers
  <1> QED BY <1>5, <1>6, <1>7 DEF Recall
----------------------------------------------------------------------------
(* The thread's steps.                                                     *)

\* A step of the thread that only empties sequences and tells tasks their last event.
LEMMA RecallSteady ==
  ASSUME Kernel, Recall, Untouched, NEW out, NEW e \in Ends,
         \A q \in Requests : /\ Steady(task[q], task'[q])
                             /\ IF q \in out THEN task'[q].queue = Append(task[q].queue, e)
                                ELSE task'[q].queue = task[q].queue
                             /\ task[q].admitted => task'[q].admitted,
         \A q \in Requests : Queued(q)' => Queued(q) /\ q \notin out /\ q \notin work.done,
         work'.done = {}, rig.capacity > 0 => \A q \in Members(work'.runnable) : task'[q].admitted,
         ~terminal' => ~terminal, terminal' => \A q \in Requests : ~Queued(q)',
         e = Failed /\ ~terminal' => \A q \in out : ~task[q].initialized,
         \A s \in 1..rig.slots : \/ kv'[s] = kv[s] /\ draft'[s] = draft[s]
                                 \/ kv'[s] = <<>> /\ draft'[s] = <<>>,
         \A q \in Requests : Queued(q)' /\ task[q].initialized /\ ~cancel[q] => kv'[task[q].seq] = kv[task[q].seq]
  PROVE  Recall'
  <1>0. Typed /\ Seated /\ Alive /\ Fresh /\ Truthful /\ Faithful
    BY DEF Kernel, Recall
  <1>1. rig' = rig /\ slots' = slots /\ at' = at /\ cancel' = cancel /\ stop' = stop
    BY DEF Untouched
  <1>2. \A q \in Requests : /\ task'[q].seq = task[q].seq /\ task'[q].slot = task[q].slot
                            /\ task'[q].initialized = task[q].initialized /\ task[q] \in TaskType
    BY <1>0 DEF Steady, Typed, CallersTyped
  <1>3. \A q \in Requests : (Started(q)' <=> Started(q)) /\ (Going(q)' <=> Going(q))
    BY <1>1, <1>2 DEF Started, Going
  <1>4. \A q \in Requests : Started(q) => Going(q)
    BY DEF Started, Going
  <1>5. Faithful'
    <2>1. ASSUME NEW q \in Requests, Started(q), ~cancel[q], ~terminal'
          PROVE  FollowsOf(task'[q], kv'[task'[q].seq], draft'[task'[q].seq], stop'[q], rig.mtp)
      <3> DEFINE t == task[q]
                 u == task'[q]
                 s == t.seq
      <3>1. FollowsOf(t, kv[s], draft[s], stop[q], rig.mtp)
        BY <1>0, <2>1 DEF Faithful, Follows
      <3>2. SameText(t, u)
        BY DEF Steady, SameText
      <3>3. FollowsOf(u, kv[s], draft[s], stop[q], rig.mtp) /\ u.seq = s /\ stop'[q] = stop[q]
        BY <1>1, <1>2, <3>1, <3>2, FollowsSame
      <3>4. u \in TaskType
        BY DEF Steady
      <3>5. s \in 1..rig.slots
        BY <1>0, <1>4, <2>1, GoingSeq
      <3>6. \/ kv'[s] = kv[s] /\ draft'[s] = draft[s]
            \/ kv'[s] = <<>> /\ draft'[s] = <<>>
        BY <3>5
      <3> HIDE DEF s, u, t
      <3>7. CASE kv'[s] = <<>> /\ draft'[s] = <<>>
        <4> DEFINE c == kv'[s]
        <4>1. c = <<>> /\ draft'[s] = c
          BY <3>7
        <4> HIDE DEF c
        <4>2. FollowsOf(u, c, c, stop[q], rig.mtp)
          BY <3>3, <3>4, <4>1, FollowsEvicted
        <4> QED BY <3>3, <4>1, <4>2 DEF c, u
      <3>8. CASE kv'[s] = kv[s] /\ draft'[s] = draft[s]
        BY <3>3, <3>8 DEF u
      <3> QED BY <3>6, <3>7, <3>8
    <2>2. ASSUME NEW q \in Requests, Queued(q)', task'[q].initialized, ~cancel[q]
          PROVE  RunsOf(task'[q], kv'[task'[q].seq], stop'[q], q \in work'.done)
      <3>1. Runs(q) /\ q \notin work.done /\ task'[q].queue = task[q].queue
        BY <1>0, <1>2, <2>2 DEF Faithful
      <3>2. RunsOf(task[q], kv[task[q].seq], stop[q], FALSE) /\ kv'[task'[q].seq] = kv[task[q].seq] /\ stop'[q] = stop[q]
        <4>1. (q \in work.done) = FALSE
          BY <3>1
        <4> QED BY <1>1, <1>2, <2>2, <3>1, <4>1 DEF Runs
      <3>3. (q \in work'.done) = FALSE
        OBVIOUS
      <3>4. /\ task'[q].prompt = task[q].prompt /\ task'[q].decoded = task[q].decoded
            /\ task'[q].nPos = task[q].nPos /\ task'[q].promptPos = task[q].promptPos
            /\ task'[q].promptDone = task[q].promptDone /\ task'[q].lastToken = task[q].lastToken
        BY DEF Steady
      <3>5. RunsOf(task'[q], kv[task[q].seq], stop[q], FALSE)
        BY <3>1, <3>2, <3>4, RunsSame
      <3> QED BY <3>2, <3>3, <3>5, Zenon
    <2> QED BY <1>1, <1>3, <2>1, <2>2, FaithfulStep
  <1>6. Fresh'
    <2>1. ASSUME NEW q \in Requests PROVE task'[q].queue = task[q].queue \/ task'[q].queue = Append(task[q].queue, e)
      OBVIOUS
    <2>2. ASSUME NEW q \in Requests, NEW i \in 1..Len(task'[q].queue)
          PROVE  \/ \E j \in 1..Len(task[q].queue) : task'[q].queue[i] = task[q].queue[j]
                 \/ q \in out /\ task'[q].queue[i] = e
      <3> DEFINE a == task[q].queue
                 b == task'[q].queue
      <3>1. a \in Seq(Event) /\ (b = a \/ (q \in out /\ b = Append(a, e))) /\ i \in 1..Len(b)
        BY <1>2 DEF TaskType
      <3> HIDE DEF a, b
      <3>2. CASE b = a
        BY <3>1, <3>2 DEF a, b
      <3>3. CASE q \in out /\ b = Append(a, e)
        <4>1. Len(b) = Len(a) + 1 /\ Len(a) \in Nat /\ b[Len(a) + 1] = e /\ \A j \in 1..Len(a) : b[j] = a[j]
          BY <3>1, <3>3
        <4>2. i \in 1..Len(a) \/ i = Len(a) + 1
          BY <3>1, <4>1
        <4> QED BY <3>3, <4>1, <4>2 DEF a, b
      <3> QED BY <3>1, <3>2, <3>3
    <2>3. \A q \in Requests : Going(q) /\ ~task'[q].initialized => NewOf(task'[q], slots[task'[q].slot]) /\ ~stop'[q]
      <3> SUFFICES ASSUME NEW q \in Requests, Going(q), ~task'[q].initialized
                   PROVE  NewOf(task'[q], slots[task'[q].slot]) /\ ~stop'[q]
        OBVIOUS
      <3>1. NewOf(task[q], slots[task[q].slot]) /\ ~stop[q]
        BY <1>0, <1>2 DEF Fresh, SeatOf
      <3>2. \A i \in 1..Len(task'[q].queue) : task'[q].queue[i] \in Ends
        BY <2>2, <3>1 DEF NewOf
      <3> QED BY <1>1, <1>2, <3>1, <3>2 DEF NewOf, Steady
    <2>4. ~terminal' => \A q \in Requests : at'[q] = "draining" /\ task'[q].initialized =>
            \A i \in 1..Len(task'[q].queue) : task'[q].queue[i] # Failed
      <3> SUFFICES ASSUME ~terminal', NEW q \in Requests, at[q] = "draining", task[q].initialized,
                          NEW i \in 1..Len(task'[q].queue)
                   PROVE  task'[q].queue[i] # Failed
        BY <1>1, <1>2
      <3>1. \A j \in 1..Len(task[q].queue) : task[q].queue[j] # Failed
        BY <1>0 DEF Fresh
      <3> QED BY <2>2, <3>1, SMTT(30)
    <2>5. rig.capacity > 0 => \A q \in Requests :
            (Queued(q)' /\ task'[q].initialized) \/ q \in Members(work'.runnable) => task'[q].admitted
      BY <1>0, <1>2 DEF Fresh
    <2>6. \A q \in Requests : /\ at'[q] = "prepared" => ~task'[q].initialized
                              /\ at'[q] \in {"idle", "acquired"} => ~stop'[q]
      BY <1>0, <1>1, <1>2 DEF Fresh
    <2>7. \A q \in Requests : Going(q)' /\ ~task'[q].initialized =>
            NewOf(task'[q], slots'[task'[q].slot]) /\ ~stop'[q]
      BY <1>1, <1>3, <2>3
    <2> QED BY <1>1, <2>4, <2>5, <2>6, <2>7, FreshStep
  <1>7. Truthful'
    <2> SUFFICES ASSUME ~terminal', NEW s \in 1..rig.slots, \A q \in Requests : Started(q)' => task'[q].slot # s
                 PROVE  RemembersOf(slots'[s], kv'[slots'[s].seq], draft'[slots'[s].seq], rig.mtp)
      BY <1>1, TruthfulStep
    <2> DEFINE x == slots[s]
               n == x.seq
    <2>1. RemembersOf(x, kv[n], draft[n], rig.mtp)
      BY <1>0, <1>2, <1>3 DEF Truthful, Remembers
    <2>2. x \in SlotType /\ n \in 1..rig.slots /\ slots'[s] = x
      BY <1>0, <1>1 DEF Typed, CacheTyped, SlotType
    <2>3. \/ kv'[n] = kv[n] /\ draft'[n] = draft[n]
          \/ kv'[n] = <<>> /\ draft'[n] = <<>>
      BY <2>2
    <2> HIDE DEF x, n
    <2>4. CASE kv'[n] = <<>> /\ draft'[n] = <<>>
      <3> DEFINE c == kv'[n]
      <3>1. c = <<>> /\ draft'[n] = c
        BY <2>4
      <3> HIDE DEF c
      <3>2. RemembersOf(x, c, c, rig.mtp)
        BY <2>1, <2>2, <3>1, RemembersEvicted
      <3> QED BY <2>2, <3>1, <3>2 DEF c, n
    <2>5. CASE kv'[n] = kv[n] /\ draft'[n] = draft[n]
      BY <2>1, <2>2, <2>5 DEF n
    <2> QED BY <2>3, <2>4, <2>5
  <1> QED BY <1>5, <1>6, <1>7 DEF Recall

LEMMA QueuedNext == ASSUME NEW q PROVE Queued(q)' <=> q \in Members(active')
  BY DEF Queued, Members

\* Eviction spares the sequences of the admitted, which are all that were started.
LEMMA RecallCollect ==
  ASSUME Kernel, Recall, Collect PROVE Recall'
  <1>0. Typed /\ Seated /\ Alive /\ Fresh
    BY DEF Kernel, Recall
  <1>1. PICK out, left, run : Collects(out, left, run)
    BY <1>0, CollectOnce
  <1>2. /\ Untouched /\ terminal' = terminal /\ active' = Without(active, out)
        /\ out \subseteq Members(active) /\ \A r \in out : ~task[r].admitted /\ rig.capacity > 0
        /\ run \in Seq(Requests) /\ \A r \in Members(run) : rig.capacity > 0 => task'[r].admitted
        /\ \A r \in Requests :
             /\ Steady(task[r], task'[r])
             /\ IF r \in out THEN task'[r].queue = Append(task[r].queue, Failed) ELSE task'[r].queue = task[r].queue
             /\ task[r].admitted => task'[r].admitted
        /\ left \in [1..rig.slots -> Seq(Nat)] /\ kv' = left
        /\ draft' = [s \in 1..rig.slots |-> IF left[s] # kv[s] THEN <<>> ELSE draft[s]]
        /\ \A s \in 1..rig.slots :
             \/ left[s] = kv[s]
             \/ /\ left[s] = <<>> /\ rig.capacity > 0
                /\ \A x \in Members(active) : task[x].admitted => task[x].seq # s
    BY <1>1 DEF Collects
  <1>3. active \in Seq(Requests) /\ Members(active) \subseteq Requests
    BY <1>0 DEF Typed, ThreadTyped, Members
  <1>4. Members(active') = Members(active) \ out /\ Without(active, out) \in Seq(Requests)
    BY <1>2, <1>3, WithoutMembers
  <1>5. work'.runnable = run /\ work'.done = {}
    <2> DEFINE a == Without(active, out)
    <2>1. work' = [NoWork EXCEPT !.tasks = a, !.runnable = run]
      BY <1>1 DEF Collects
    <2> HIDE DEF a
    <2> QED BY <2>1, NoWorkType DEF WorkType
  <1>6. work.done = {}
    BY <1>0, Zenon DEF Alive, Collect
  <1>7. \A q \in Requests : Queued(q)' => Queued(q) /\ q \notin out /\ q \notin work.done
    BY <1>4, <1>6, QueuedNext DEF Queued
  <1>8. \A q \in out : ~task[q].initialized
    BY <1>0, <1>2, <1>3 DEF Fresh, Queued
  <1>9. \A s \in 1..rig.slots : \/ kv'[s] = kv[s] /\ draft'[s] = draft[s]
                                \/ kv'[s] = <<>> /\ draft'[s] = <<>>
    BY <1>2
  <1>10. \A q \in Requests : Queued(q)' /\ task[q].initialized /\ ~cancel[q] => kv'[task[q].seq] = kv[task[q].seq]
    <2> SUFFICES ASSUME NEW q \in Requests, Queued(q), task[q].initialized PROVE kv'[task[q].seq] = kv[task[q].seq]
      BY <1>7
    <2>1. task[q].seq \in 1..rig.slots
      BY <1>0, QueuedSeq
    <2>2. rig.capacity > 0 => task[q].admitted
      BY <1>0 DEF Fresh
    <2> QED BY <1>2, <2>1, <2>2 DEF Queued
  <1>11. terminal' => \A q \in Requests : ~Queued(q)'
    BY <1>0, <1>2, <1>7 DEF Fresh
  <1>12. Failed \in Ends /\ (rig.capacity > 0 => \A q \in Members(work'.runnable) : task'[q].admitted)
    BY <1>2, <1>5 DEF Ends
  <1> DEFINE e == Failed
  <1>13. \A q \in Requests : /\ Steady(task[q], task'[q])
                             /\ IF q \in out THEN task'[q].queue = Append(task[q].queue, e)
                                ELSE task'[q].queue = task[q].queue
                             /\ task[q].admitted => task'[q].admitted
    BY <1>2
  <1> HIDE DEF e
  <1>14. e \in Ends
    BY <1>12 DEF e
  <1>15. Untouched /\ (~terminal' => ~terminal)
    BY <1>2
  <1> QED BY <1>5, <1>7, <1>8, <1>9, <1>10, <1>11, <1>12, <1>13, <1>14, <1>15, RecallSteady

\* Only sequences of the cancelled are cleared, and nobody else uses them.
LEMMA RecallBuild ==
  ASSUME Kernel, Recall, Build PROVE Recall'
  <1>0. Typed /\ Seated /\ Alive /\ Fresh
    BY DEF Kernel, Recall
  <1>1. PICK off, take : Builds(off, take)
    BY <1>0, BuildOnce DEF Kernel
  <1>2. /\ Untouched /\ terminal' = terminal
        /\ off \subseteq Members(work.tasks) /\ active' = Without(active, off)
        /\ work' = [NoWork EXCEPT !.tasks = Without(work.tasks, off), !.take = take]
        /\ take \in [Requests -> Nat]
        /\ task' = [r \in Requests |-> IF r \in off THEN Told(r, Done) ELSE task[r]]
        /\ \A s \in 1..rig.slots :
             \/ kv'[s] = kv[s] /\ draft'[s] = draft[s]
             \/ kv'[s] = <<>> /\ draft'[s] = <<>> /\ \E r \in off : task[r].seq = s /\ cancel[r]
    BY <1>1 DEF Builds
  <1>3. active \in Seq(Requests) /\ Done \in Event /\ Done \in Ends /\ Members(active) \subseteq Requests
        /\ off \subseteq Members(active)
    <2>1. active \in Seq(Requests) /\ Members(active) \subseteq Requests
      BY <1>0 DEF Typed, ThreadTyped, Members
    <2>2. off \subseteq Members(active)
      BY <1>0, <1>2 DEF Alive
    <2> QED BY <2>1, <2>2 DEF Event, Ends
  <1>4. Members(active') = Members(active) \ off
    BY <1>2, <1>3, WithoutMembers
  <1>5. work'.runnable = <<>> /\ work'.done = {} /\ Members(work'.runnable) = {}
    <2> DEFINE left == Without(work.tasks, off)
    <2>1. work' = [NoWork EXCEPT !.tasks = left, !.take = take]
      BY <1>2
    <2> HIDE DEF left
    <2>2. work'.runnable = NoWork.runnable /\ work'.done = NoWork.done
      BY <2>1, NoWorkType DEF WorkType
    <2> QED BY <2>2, NoWorkType
  <1>6. work.done = {}
    BY <1>0 DEF Alive, Build
  <1>7. \A q \in Requests : Queued(q)' => Queued(q) /\ q \notin off /\ q \notin work.done
    BY <1>4, <1>6, QueuedNext DEF Queued
  <1> DEFINE e == Done
  <1>8. \A q \in Requests : /\ Steady(task[q], task'[q])
                            /\ IF q \in off THEN task'[q].queue = Append(task[q].queue, e)
                               ELSE task'[q].queue = task[q].queue
                            /\ task[q].admitted => task'[q].admitted
    BY <1>0, <1>2, <1>3, SteadyTold, SteadySame
  <1>9. e \in Ends /\ e # Failed
    BY <1>3 DEF Done, Failed
  <1> HIDE DEF e
  <1>10. \A s \in 1..rig.slots : \/ kv'[s] = kv[s] /\ draft'[s] = draft[s]
                                 \/ kv'[s] = <<>> /\ draft'[s] = <<>>
    BY <1>2
  <1>11. \A q \in Requests : Queued(q)' /\ task[q].initialized /\ ~cancel[q] => kv'[task[q].seq] = kv[task[q].seq]
    <2> SUFFICES ASSUME NEW q \in Requests, Queued(q), q \notin off PROVE kv'[task[q].seq] = kv[task[q].seq]
      BY <1>7
    <2>1. task[q].seq \in 1..rig.slots /\ Going(q)
      BY <1>0, QueuedSeq
    <2>2. \A r \in off : task[r].seq # task[q].seq
      <3> SUFFICES ASSUME NEW r \in off, task[r].seq = task[q].seq PROVE FALSE
        OBVIOUS
      <3>1. r \in Requests /\ Queued(r)
        BY <1>3 DEF Queued
      <3>2. Going(r)
        BY <1>0, <3>1, QueuedSeq
      <3> QED BY <1>0, <2>1, <3>1, <3>2, OwnSeq
    <2> QED BY <1>2, <2>1, <2>2
  <1>12. terminal' => \A q \in Requests : ~Queued(q)'
    BY <1>0, <1>2, <1>7 DEF Fresh
  <1> QED BY <1>2, <1>5, <1>7, <1>8, <1>9, <1>10, <1>11, <1>12, RecallSteady, ZenonT(60)

LEMMA RecallRetires ==
  ASSUME Kernel, Recall, Finish \/ FailAll PROVE Recall'
  <1>0. Typed /\ Seated /\ Alive /\ Fresh
    BY DEF Kernel, Recall
  <1>1. PICK out, e : Retires(out, e)
    BY <1>0, RetiresOnce
  <1>2. /\ Untouched /\ kv' = kv /\ draft' = draft /\ out \subseteq Members(active) /\ e \in Ends
        /\ Members(active') = Members(active) \ out
        /\ task' = [r \in Requests |-> IF r \in out THEN Told(r, e) ELSE task[r]]
        /\ work' = NoWork /\ work.done \subseteq out /\ (e = Failed => terminal') /\ (~terminal' => ~terminal)
        /\ terminal' => terminal \/ Members(active') = {}
    BY <1>1 DEF Retires
  <1>3. e \in Event
    BY <1>2 DEF Ends, Event
  <1>4. \A q \in Requests : /\ Steady(task[q], task'[q])
                            /\ IF q \in out THEN task'[q].queue = Append(task[q].queue, e)
                               ELSE task'[q].queue = task[q].queue
                            /\ task[q].admitted => task'[q].admitted
    BY <1>0, <1>2, <1>3, SteadyTold, SteadySame
  <1>5. \A q \in Requests : Queued(q)' => Queued(q) /\ q \notin out /\ q \notin work.done
    BY <1>2, QueuedNext DEF Queued
  <1>6. work'.done = {} /\ Members(work'.runnable) = {}
    BY <1>2, NoWorkType
  <1>7. terminal' => \A q \in Requests : ~Queued(q)'
    BY <1>0, <1>2, <1>5, QueuedNext DEF Fresh
  <1> QED BY <1>2, <1>4, <1>5, <1>6, <1>7, RecallSteady

\* A running task whose draft may have been given up.
LEMMA FollowsLess ==
  ASSUME NEW t, NEW u, NEW c, NEW d, NEW st, NEW m, FollowsOf(t, c, d, st, m),
         u.prompt = t.prompt, u.decoded = t.decoded, u.queue = t.queue, u.outCheckpoint = t.outCheckpoint,
         u.eligible => t.eligible, m /\ u.outSynced => u.eligible
  PROVE  FollowsOf(u, c, d, st, m)
  <1> SUFFICES ASSUME Voiced PROVE FollowsOf(u, c, d, st, m)
    BY DEF FollowsOf
  <1>1. Base(u) = Base(t)
    BY DEF Base
  <1>2. u.eligible => d = c
    BY DEF FollowsOf
  <1>3. ~st => \A k \in 1..Len(u.queue) :
          u.queue[k] \notin Ends /\ Base(u) + k <= Len(c) => c[Base(u) + k] = u.queue[k]
    BY <1>1 DEF FollowsOf
  <1>4. /\ \A i \in 1..Len(c) : i <= Len(u.prompt) => c[i] = u.prompt[i]
        /\ \A j \in 1..Len(u.decoded) : Len(u.prompt) + j <= Len(c) => c[Len(u.prompt) + j] = u.decoded[j]
        /\ Fits(u.outCheckpoint, u.prompt)
    BY DEF FollowsOf
  <1> QED BY <1>2, <1>3, <1>4 DEF FollowsOf

\* A task that was not started yet finds what its slot remembers.
LEMMA RightStart ==
  ASSUME Kernel, Recall, NEW r \in Requests, Queued(r), ~task[r].initialized
  PROVE  /\ Right(r) /\ task[r].queue = <<>> /\ task[r].decoded = <<>> /\ ~task[r].promptDone /\ ~stop[r]
         /\ ~terminal
  <1>0. Typed /\ Seated /\ Alive /\ Fresh /\ Truthful
    BY DEF Kernel, Recall
  <1>1. /\ Going(r) /\ task[r].slot \in 1..rig.slots /\ task[r].seq = slots[task[r].slot].seq /\ task[r] \in TaskType
    BY <1>0, QueuedSeq DEF Typed, CallersTyped
  <1>2. NewOf(task[r], slots[task[r].slot]) /\ ~stop[r] /\ ~terminal
    BY <1>0, <1>1 DEF Fresh, SeatOf
  <1>3. \A q \in Requests : Started(q) => task[q].slot # task[r].slot
    <2> SUFFICES ASSUME NEW q \in Requests, Started(q), task[q].slot = task[r].slot PROVE FALSE
      OBVIOUS
    <2>1. Holding(q) /\ Holding(r)
      BY <1>1 DEF Started, Going, Holding
    <2>2. q = r
      BY <1>0, <2>1 DEF Seated
    <2> QED BY <2>2 DEF Started
  <1>4. RemembersOf(slots[task[r].slot], kv[task[r].seq], draft[task[r].seq], rig.mtp)
    BY <1>0, <1>1, <1>2, <1>3 DEF Truthful, Remembers
  <1>5. Right(r)
    BY <1>2, <1>4 DEF Right, RemembersOf, NewOf
  <1>6. task[r].queue = <<>>
    <2> DEFINE q == task[r].queue
    <2>1. q \in Seq(Event) /\ (\A i \in 1..Len(q) : q[i] \in Ends) /\ (\A i \in 1..Len(q) : q[i] \notin Ends)
      BY <1>0, <1>1, <1>2 DEF TaskType, Alive, NewOf
    <2> HIDE DEF q
    <2>2. \A i \in 1..Len(q) : FALSE
      BY <2>1
    <2>3. Len(q) \in Nat /\ ~(1 \in 1..Len(q))
      BY <2>1, <2>2
    <2>4. Len(q) = 0
      BY <2>3
    <2>5. q = <<>>
      BY <2>1, <2>4
    <2> QED BY <2>5 DEF q
  <1> QED BY <1>2, <1>5, <1>6 DEF NewOf

LEMMA RecallReady ==
  ASSUME Kernel, Recall, Ready PROVE Recall'
  <1>0. Typed /\ Seated /\ Alive /\ Metered /\ Fresh /\ Truthful /\ Faithful
    BY DEF Kernel, Recall
  <1>1. Readies
    BY ReadyOnce
  <1>2. /\ Untouched /\ active' = active /\ terminal' = terminal /\ work' = work
        /\ \A r \in Requests : Starts(r) => Queued(r) /\ r \in Members(work.runnable) /\ Went(r)
        /\ \A r \in Requests : ~Starts(r) => task'[r] = task[r]
        /\ \A s \in 1..rig.slots : (\A r \in Requests : Starts(r) => task[r].seq # s) => kv'[s] = kv[s] /\ draft'[s] = draft[s]
    BY <1>1 DEF Readies
  <1>3. rig' = rig /\ slots' = slots /\ at' = at /\ cancel' = cancel /\ stop' = stop
    BY <1>2 DEF Untouched
  <1>4. ASSUME NEW r \in Requests, Starts(r)
        PROVE  LET v == task'[r]
               IN  /\ v \in TaskType /\ v.initialized /\ v.slot = task[r].slot /\ v.seq = task[r].seq
                   /\ v.admitted = task[r].admitted /\ v.queue = task[r].queue
                   /\ ~cancel[r] => /\ FollowsOf(v, kv'[v.seq], draft'[v.seq], stop[r], rig.mtp)
                                    /\ RunsOf(v, kv'[v.seq], stop[r], r \in work.done)
    <2> DEFINE t == task[r]
               v == task'[r]
               u == ReadyTask(r)
               c == kv'[t.seq]
               d == draft'[t.seq]
    <2>1. Queued(r) /\ Going(r) /\ t.seq \in 1..rig.slots /\ ~terminal /\ t \in TaskType /\ at[r] = "draining"
      BY <1>0, <1>2, <1>4, QueuedSeq DEF Fresh, Typed, CallersTyped, Alive
    <2>2. /\ v \in TaskType /\ Alike(t, v) /\ v.queue = t.queue /\ v.promptDone = t.promptDone
          /\ v.generated = t.generated /\ v.lastToken = t.lastToken
          /\ v.initialized /\ v.promptPos = u.t.promptPos /\ v.nPos = u.t.nPos /\ v.eligible = u.t.eligible
          /\ v.outSynced = u.t.outSynced /\ v.outCheckpoint = u.t.outCheckpoint
          /\ c = u.kv /\ d = u.draft
      BY <1>2, <1>4 DEF Went
    <2>3. /\ t.initialized => /\ u.kv = kv[t.seq] /\ u.draft = draft[t.seq]
                              /\ u.t.promptPos = t.promptPos /\ u.t.nPos = t.nPos
                              /\ u.t.outCheckpoint = t.outCheckpoint
                              /\ u.t.eligible => t.eligible
                              /\ (rig.mtp /\ t.outSynced => t.eligible)
                                    => (rig.mtp /\ u.t.outSynced => u.t.eligible)
          /\ ~t.initialized => u.t.promptPos = u.t.nPos
          /\ ~t.initialized /\ Right(r) => Begun(u, t.prompt)
      BY <1>0, <2>1, ReadiedTask
    <2>4. /\ v.slot = t.slot /\ v.seq = t.seq /\ v.prompt = t.prompt /\ v.decoded = t.decoded /\ v.admitted = t.admitted
      BY <2>2 DEF Alike
    <2> HIDE DEF u, v, t, c, d
    <2>5. CASE t.initialized
      <3>1. ASSUME ~cancel[r]
            PROVE  FollowsOf(t, kv[t.seq], draft[t.seq], stop[r], rig.mtp) /\ RunsOf(t, kv[t.seq], stop[r], r \in work.done)
        <4>1. Started(r)
          BY <2>1, <2>5 DEF Started, t
        <4> QED BY <1>0, <2>1, <2>5, <3>1, <4>1 DEF Faithful, Follows, Runs, t
      <3>2. ASSUME ~cancel[r]
            PROVE  FollowsOf(v, c, d, stop[r], rig.mtp) /\ RunsOf(v, c, stop[r], r \in work.done)
        <4>1. c = kv[t.seq] /\ d = draft[t.seq]
          BY <2>2, <2>3, <2>5
        <4>2. rig.mtp /\ t.outSynced => t.eligible
          BY <3>1, <3>2 DEF FollowsOf
        <4>3. FollowsOf(v, kv[t.seq], draft[t.seq], stop[r], rig.mtp)
          BY <2>2, <2>3, <2>4, <2>5, <3>1, <3>2, <4>2, FollowsLess
        <4>4. RunsOf(v, kv[t.seq], stop[r], r \in work.done)
          BY <2>2, <2>3, <2>4, <2>5, <3>1, <3>2, RunsSame
        <4> QED BY <4>1, <4>3, <4>4
      <3> QED BY <2>2, <2>4, <3>1, <3>2 DEF v, t, c, d
    <2>6. CASE ~t.initialized
      <3>1. /\ Right(r) /\ t.queue = <<>> /\ t.decoded = <<>> /\ ~t.promptDone /\ ~stop[r]
        BY <2>1, <2>6, RightStart DEF t
      <3>2. Begun(u, t.prompt) /\ u.t.promptPos = u.t.nPos
        BY <2>3, <2>6, <3>1
      <3>3. /\ Len(c) = v.nPos
            /\ Voiced => \A i \in 1..Len(c) : c[i] = v.prompt[i]
            /\ v.eligible => d = c
            /\ rig.mtp /\ v.outSynced => v.eligible
            /\ Fits(v.outCheckpoint, v.prompt)
        BY <2>2, <2>4, <3>2 DEF Begun
      <3>4. v.decoded = <<>> /\ v.queue = <<>> /\ ~v.promptDone /\ v.nPos = v.promptPos
        BY <2>2, <2>4, <3>1, <3>2
      <3>5. FollowsOf(v, c, d, stop[r], rig.mtp)
        BY <2>2, <3>3, <3>4, FollowsBegun
      <3>6. RunsOf(v, c, stop[r], r \in work.done)
        BY <2>2, <3>1, <3>3, <3>4, RunsBegun
      <3> QED BY <2>2, <2>4, <2>6, <3>5, <3>6 DEF v, t, c, d
    <2> QED BY <2>5, <2>6
  <1>5. \A r \in Requests : task'[r].slot = task[r].slot /\ (task[r].initialized => task'[r].initialized)
    BY <1>2, <1>4
  <1>6. \A r \in Requests : Queued(r)' <=> Queued(r)
    BY <1>2 DEF Queued, Members
  <1>7. ASSUME NEW r \in Requests, ~Starts(r), Going(r)
        PROVE  task'[r] = task[r] /\ kv'[task[r].seq] = kv[task[r].seq] /\ draft'[task[r].seq] = draft[task[r].seq]
    <2>1. task[r].seq \in 1..rig.slots
      BY <1>0, <1>7, GoingSeq
    <2>2. \A q \in Requests : Starts(q) => task[q].seq # task[r].seq
      <3> SUFFICES ASSUME NEW q \in Requests, Starts(q), task[q].seq = task[r].seq PROVE FALSE
        OBVIOUS
      <3>1. Going(q)
        BY <1>0, <1>2, QueuedSeq
      <3>2. q = r
        BY <1>0, <1>7, <3>1, OwnSeq
      <3> QED BY <1>7, <3>2
    <2> QED BY <1>2, <1>7, <2>1, <2>2
  <1>8. Faithful'
    <2>1. ASSUME NEW r \in Requests, Started(r)', ~cancel[r], ~terminal
          PROVE  FollowsOf(task'[r], kv'[task'[r].seq], draft'[task'[r].seq], stop'[r], rig.mtp)
      <3>1. CASE Starts(r)
        BY <1>3, <1>4, <2>1, <3>1
      <3>2. CASE ~Starts(r)
        <4>1. Started(r) /\ Going(r)
          BY <1>2, <1>3, <2>1, <3>2 DEF Started, Going
        <4> QED BY <1>0, <1>3, <1>7, <2>1, <3>2, <4>1 DEF Faithful, Follows
      <3> QED BY <3>1, <3>2
    <2>2. ASSUME NEW r \in Requests, Queued(r), task'[r].initialized, ~cancel[r]
          PROVE  RunsOf(task'[r], kv'[task'[r].seq], stop'[r], r \in work'.done)
      <3>1. CASE Starts(r)
        BY <1>2, <1>3, <1>4, <2>2, <3>1
      <3>2. CASE ~Starts(r)
        <4>1. Going(r) /\ task'[r] = task[r]
          BY <1>0, <1>2, <2>2, <3>2, QueuedSeq
        <4> QED BY <1>0, <1>2, <1>3, <1>7, <2>2, <3>2, <4>1 DEF Faithful, Runs
      <3> QED BY <3>1, <3>2
    <2> QED BY <1>2, <1>3, <1>6, <2>1, <2>2, FaithfulStep
  <1>9. Fresh'
    <2>1. \A r \in Requests : Going(r)' <=> Going(r)
      BY <1>3 DEF Going
    <2>2. \A r \in Requests : Starts(r) => at[r] = "draining" /\ task[r].queue = task'[r].queue
                                /\ (\A i \in 1..Len(task[r].queue) : task[r].queue[i] \notin Ends)
                                /\ (rig.capacity > 0 => task'[r].admitted) /\ task'[r].initialized
      BY <1>0, <1>2, <1>4 DEF Alive, Fresh
    <2>3. \A r \in Requests : at'[r] = "prepared" => ~task'[r].initialized
      BY <1>0, <1>2, <1>3, <2>2 DEF Fresh
    <2>4. \A r \in Requests : Going(r)' /\ ~task'[r].initialized => NewOf(task'[r], slots'[task'[r].slot]) /\ ~stop'[r]
      BY <1>0, <1>2, <1>3, <2>1, <2>2 DEF Fresh, SeatOf
    <2>5. rig.capacity > 0 => \A r \in Requests :
            (Queued(r)' /\ task'[r].initialized) \/ r \in Members(work'.runnable) => task'[r].admitted
      BY <1>0, <1>2, <1>6, <2>2 DEF Fresh
    <2>6. ~terminal' => \A r \in Requests : at'[r] = "draining" /\ task'[r].initialized =>
            \A i \in 1..Len(task'[r].queue) : task'[r].queue[i] # Failed
      <3>1. Failed \in Ends
        BY DEF Ends
      <3> QED BY <1>0, <1>2, <1>3, <2>2, <3>1 DEF Fresh
    <2>7. /\ \A r \in Requests : at'[r] \in {"idle", "acquired"} => ~stop'[r]
          /\ terminal' => \A r \in Requests : ~Queued(r)'
      BY <1>0, <1>2, <1>3, <1>6 DEF Fresh
    <2> QED BY <1>3, <2>3, <2>4, <2>5, <2>6, <2>7, FreshStep
  <1>10. Truthful'
    <2> SUFFICES ASSUME ~terminal, NEW s \in 1..rig.slots, \A q \in Requests : Started(q)' => task'[q].slot # s
                 PROVE  RemembersOf(slots[s], kv'[slots[s].seq], draft'[slots[s].seq], rig.mtp)
      BY <1>2, <1>3, TruthfulStep
    <2>1. \A q \in Requests : Started(q) => task[q].slot # s
      BY <1>3, <1>5 DEF Started
    <2>2. RemembersOf(slots[s], kv[slots[s].seq], draft[slots[s].seq], rig.mtp)
      BY <1>0, <2>1 DEF Truthful, Remembers
    <2>3. \A q \in Requests : Starts(q) => task[q].seq # slots[s].seq
      <3> SUFFICES ASSUME NEW q \in Requests, Starts(q), task[q].seq = slots[s].seq PROVE FALSE
        OBVIOUS
      <3>1. Queued(q) /\ task[q].slot \in 1..rig.slots /\ task[q].seq = slots[task[q].slot].seq
        BY <1>0, <1>2, QueuedSeq
      <3>2. task[q].slot = s
        BY <1>0, <3>1 DEF Seated
      <3>3. Started(q)'
        BY <1>0, <1>3, <1>4, <3>1 DEF Started, Alive
      <3> QED BY <1>5, <3>2, <3>3
    <2>4. slots[s].seq \in 1..rig.slots
      BY <1>0 DEF Typed, CacheTyped, SlotType
    <2>5. kv'[slots[s].seq] = kv[slots[s].seq] /\ draft'[slots[s].seq] = draft[slots[s].seq]
      BY <1>2, <2>3, <2>4
    <2> QED BY <2>2, <2>5
  <1> QED BY <1>8, <1>9, <1>10 DEF Recall

\* A sequence with the beginning of another one after it.
Grown(R, c, f, k, e) ==
    c \in Seq(R) /\ f \in Seq(R) /\ k \in Nat /\ k <= Len(f) /\ e = c \o SubSeq(f, 1, k)
Placed(c, f, k, e) ==
    /\ Len(e) = Len(c) + k /\ Len(c) \in Nat
    /\ \A i \in 1..Len(c) : e[i] = c[i]
    /\ \A i \in 1..k : e[Len(c) + i] = f[i]
LEMMA GrownPlaces ==
  ASSUME NEW R, NEW c, NEW f, NEW k, NEW e, Grown(R, c, f, k, e)
  PROVE  Placed(c, f, k, e)
  <1> USE DEF Grown
  <1> DEFINE g == SubSeq(f, 1, k)
  <1>1. g \in Seq(R) /\ Len(g) = k /\ \A i \in 1..k : g[i] = f[i]
    OBVIOUS
  <1>2. e = c \o g
    OBVIOUS
  <1> HIDE DEF g
  <1>3. Len(e) = Len(c) + k /\ Len(c) \in Nat
    BY <1>1, <1>2
  <1>4. \A i \in 1..Len(c) : e[i] = c[i]
    BY <1>1, <1>2
  <1>5. \A i \in 1..k : e[Len(c) + i] = g[i]
    BY <1>1, <1>2
  <1> QED BY <1>1, <1>3, <1>4, <1>5 DEF Placed
LEMMA GrownSame ==
  ASSUME NEW R, NEW c \in Seq(R), NEW e \in Seq(R), Len(e) >= Len(c), \A i \in 1..Len(c) : e[i] = c[i]
  PROVE  c \o SubSeq(e, Len(c) + 1, Len(e)) = e
  <1> DEFINE n == Len(c)
             m == Len(e)
             g == SubSeq(e, n + 1, m)
  <1>1. n \in Nat /\ m \in Nat /\ m >= n
    OBVIOUS
  <1>2. g \in Seq(R) /\ Len(g) = m - n /\ \A i \in 1..(m - n) : g[i] = e[n + i]
    <2>1. g \in Seq(R) /\ Len(g) = m - n
      BY <1>1
    <2>2. \A i \in 1..(m - n) : g[i] = e[n + i]
      BY <1>1
    <2> QED BY <2>1, <2>2
  <1> HIDE DEF g
  <1>3. (c \o g) \in Seq(R) /\ Len(c \o g) = m
    BY <1>1, <1>2
  <1>4. \A i \in 1..m : (c \o g)[i] = e[i]
    <2> TAKE i \in 1..m
    <2>1. CASE i <= n
      BY <1>1, <1>2, <2>1
    <2>2. CASE ~(i <= n)
      <3>1. (i - n) \in 1..(m - n) /\ n + (i - n) = i
        BY <1>1, <2>2
      <3>2. (c \o g)[i] = g[i - n]
        BY <1>1, <1>2, <2>2
      <3> QED BY <1>2, <3>1, <3>2
    <2> QED BY <2>1, <2>2
  <1>5. c \o g = e
    <2> DEFINE h == c \o g
    <2>1. h \in Seq(R) /\ Len(h) = Len(e) /\ \A i \in 1..Len(e) : h[i] = e[i]
      BY <1>3, <1>4
    <2> HIDE DEF h
    <2>2. h = e
      BY <2>1
    <2> QED BY <2>2 DEF h
  <1> QED BY <1>5 DEF g

\* What the model was fed goes on where the cells end.
LEMMA TookFed ==
  ASSUME Kernel, pc = "decode", NEW r \in Requests, InTurnNow(r), NEW answer \in Answers(r)
  PROVE  LET t == task[r]
         IN  /\ t.initialized
             /\ t.promptDone => /\ Fed(r)[1] = t.lastToken /\ Len(answer) >= 1
                                /\ \A i \in 1..(Len(answer) - 1) : Fed(r)[1 + i] = answer[i]
             /\ ~t.promptDone => /\ t.promptPos + work.take[r] <= Len(t.prompt)
                                 /\ \A i \in 1..work.take[r] : Fed(r)[i] = t.prompt[t.promptPos + i]
                                 /\ answer # <<>> => Len(answer) = 1 /\ t.promptPos + work.take[r] = Len(t.prompt)
  <1>0. Typed /\ Metered /\ InBatch(r) /\ r \in Members(work.tasks)
    BY DEF Kernel, InTurnNow
  <1> DEFINE t == task[r]
             k == work.take[r]
             p == t.prompt
             lo == t.promptPos
             s == t.spec
             l == t.lastToken
  <1>1. /\ t \in TaskType /\ p \in Seq(Nat) /\ lo \in Nat /\ s \in Seq(Nat) /\ l \in Nat /\ k \in Nat /\ k > 0
        /\ Len(p) \in Nat /\ t.promptDone \in BOOLEAN
    <2>1. t \in TaskType /\ k \in Nat /\ k > 0
      BY <1>0 DEF Typed, CallersTyped, ThreadTyped, WorkType, InBatch
    <2>2. p \in Seq(Nat) /\ lo \in Nat /\ s \in Seq(Nat) /\ l \in Nat /\ t.promptDone \in BOOLEAN
      BY <2>1 DEF TaskType
    <2> HIDE DEF p
    <2>3. Len(p) \in Nat
      BY <2>2
    <2> QED BY <2>1, <2>2, <2>3
  <1>2. t.initialized /\ (~t.promptDone => lo + k <= Len(p) /\ s = <<>>)
    BY <1>0 DEF Metered, InBatch
  <1>3. /\ answer \in Seq(Nat)
        /\ answer = <<>> => ~t.promptDone
        /\ answer # <<>> => /\ t.promptDone \/ ~(lo + k < Len(p))
                            /\ Len(answer) >= 1 /\ Len(answer) <= Len(s) + 1
                            /\ \A i \in 1..(Len(answer) - 1) : answer[i] = s[i]
    BY <1>0, AnswerShape
  <1>4. Fed(r) = IF t.promptDone THEN <<l>> \o s ELSE SubSeq(p, lo + 1, lo + k)
    BY DEF Fed
  <1> HIDE DEF t, k, p, lo, s, l
  <1>5. CASE t.promptDone
    <2> DEFINE f == <<l>> \o s
    <2>1. f[1] = l /\ \A i \in 1..Len(s) : f[1 + i] = s[i]
      BY <1>1
    <2> HIDE DEF f
    <2>2. Fed(r) = f
      BY <1>4, <1>5 DEF f
    <2>3. answer # <<>> /\ Len(answer) \in Nat /\ Len(s) \in Nat
      BY <1>1, <1>3, <1>5
    <2>4. \A i \in 1..(Len(answer) - 1) : i \in 1..Len(s) /\ answer[i] = s[i]
      BY <1>3, <2>3
    <2>5. /\ Fed(r)[1] = l /\ Len(answer) >= 1
          /\ \A i \in 1..(Len(answer) - 1) : Fed(r)[1 + i] = answer[i]
      BY <1>3, <2>1, <2>2, <2>3, <2>4
    <2> QED BY <1>2, <1>5, <2>5 DEF t, l
  <1>6. CASE ~t.promptDone
    <2> DEFINE f == SubSeq(p, lo + 1, lo + k)
    <2>1. \A i \in 1..k : f[i] = p[lo + i]
      BY <1>1, <1>2, <1>6
    <2> HIDE DEF f
    <2>2. Fed(r) = f
      BY <1>4, <1>6 DEF f
    <2>3. answer # <<>> => Len(answer) = 1 /\ lo + k = Len(p)
      <3>1. s = <<>> /\ Len(s) = 0
        BY <1>2, <1>6, EmptyLen
      <3>2. Len(answer) \in Nat
        BY <1>3
      <3> SUFFICES ASSUME answer # <<>> PROVE Len(answer) = 1 /\ lo + k = Len(p)
        OBVIOUS
      <3>3. Len(answer) >= 1 /\ Len(answer) <= Len(s) + 1 /\ ~(lo + k < Len(p)) /\ lo + k <= Len(p)
        BY <1>2, <1>3, <1>6, Zenon
      <3> DEFINE n == Len(answer)
                 m == Len(p)
                 z == Len(s)
      <3>4. n \in Nat /\ n >= 1 /\ n <= z + 1 /\ z = 0 /\ ~(lo + k < m) /\ lo + k <= m /\ m \in Nat
        BY <1>1, <3>1, <3>2, <3>3, Zenon
      <3> HIDE DEF n, m, z
      <3>5. n = 1 /\ lo + k = m
        BY <1>1, <3>4
      <3> QED BY <3>5 DEF n, m
    <2> QED BY <1>2, <1>6, <2>1, <2>2, <2>3 DEF t, k, p, lo
  <1> QED BY <1>5, <1>6

\* What was decoded for a task of the batch is its text still.
LEMMA TookFaithful ==
  ASSUME Kernel, Recall, pc = "decode", NEW r \in Requests, InTurnNow(r), Queued(r), ~cancel[r],
         NEW a, Took(r, a)
  PROVE  LET t == task[r]
             v == task'[r]
         IN  /\ FollowsOf(v, kv'[t.seq], draft'[t.seq], stop[r], rig.mtp)
             /\ RunsOf(v, kv'[t.seq], stop[r], r \in work'.done)
  <1>0. Typed /\ Seated /\ Alive /\ Metered /\ Fresh /\ Faithful
    BY DEF Kernel, Recall
  <1> DEFINE t == task[r]
             v == task'[r]
             c == kv[t.seq]
             d == draft[t.seq]
             c2 == kv'[t.seq]
             d2 == draft'[t.seq]
             st == stop[r]
             later == r \in work'.done
             mtp == rig.mtp
             room == t.max - t.generated
             n == Pushed(a, room)
             kept == IF t.promptDone THEN Len(a) ELSE work.take[r]
             f == Fed(r)
             q == t.queue
  <1>1. /\ t \in TaskType /\ c \in Seq(Nat) /\ d \in Seq(Nat) /\ st \in BOOLEAN /\ q \in Seq(Event)
        /\ t.promptDone \in BOOLEAN /\ room \in Nat /\ room > 0
    <2>1. t \in TaskType /\ st \in BOOLEAN
      BY <1>0 DEF Typed, CallersTyped
    <2>2. t.seq \in 1..rig.slots
      BY <1>0, QueuedSeq
    <2>3. c \in Seq(Nat) /\ d \in Seq(Nat)
      BY <1>0, <2>2 DEF Typed, CacheTyped
    <2>4. r \notin work.done
      BY <1>0 DEF Alive
    <2>5. t.max \in Nat /\ t.generated \in Nat /\ q \in Seq(Event) /\ t.promptDone \in BOOLEAN
      BY <2>1 DEF TaskType
    <2>6. t.generated < t.max
      BY <1>0, <2>4 DEF Metered
    <2>7. room \in Nat /\ room > 0
      BY <2>5, <2>6
    <2> QED BY <2>1, <2>3, <2>5, <2>7
  <1>2. t.initialized /\ FollowsOf(t, c, d, st, mtp) /\ RunsOf(t, c, st, FALSE)
    <2>1. t.initialized /\ a \in Answers(r)
      BY TookFed, Zenon DEF Took
    <2>2. Started(r) /\ ~terminal /\ ~(r \in work.done)
      BY <1>0, <2>1 DEF Started, Alive, Fresh
    <2>3. Follows(r) /\ Runs(r)
      BY <1>0, <2>1, <2>2 DEF Faithful
    <2>4. RunsOf(t, c, st, r \in work.done)
      BY <2>3 DEF Runs
    <2>5. RunsOf(t, c, st, FALSE)
      BY <2>2, <2>4, Zenon DEF RunsOf
    <2> QED BY <2>1, <2>3, <2>5, Zenon DEF Follows
  <1>3. /\ a \in Answers(r) /\ a \in Seq(Nat) /\ v \in TaskType /\ Alike(t, v)
        /\ c2 = c \o SubSeq(f, 1, kept) /\ c2 \in Seq(Nat)
        /\ f \in Seq(Nat) /\ kept \in Nat /\ kept >= 1 /\ kept <= Len(f)
        /\ v.eligible = t.eligible /\ v.outSynced = t.outSynced
        /\ v.promptPos = (IF t.promptDone THEN t.promptPos ELSE t.promptPos + kept)
        /\ v.nPos = t.nPos + kept
        /\ (v.promptDone <=> t.promptDone \/ a # <<>>)
        /\ v.queue = q \o SubSeq(a, 1, n)
        /\ (later <=> n = room \/ n < Len(a))
        /\ (n < room /\ n > 0 => v.lastToken = a[n])
        /\ \/ v.outCheckpoint = t.outCheckpoint
           \/ /\ ~t.promptDone /\ v.outCheckpoint.pos = t.promptPos + kept /\ v.outCheckpoint.cells = c2
        /\ (t.eligible => d2 = d \o SubSeq(c2, Len(c) + 1, Len(c2)))
    <2>1. /\ a \in Answers(r) /\ a \in Seq(Nat) /\ v \in TaskType /\ Alike(t, v)
          /\ c2 = c \o SubSeq(f, 1, kept) /\ c2 \in Seq(Nat)
      BY Zenon DEF Took
    <2>2. /\ f \in Seq(Nat) /\ kept \in Nat /\ kept >= 1 /\ kept <= Len(f)
          /\ v.eligible = t.eligible /\ v.outSynced = t.outSynced
          /\ v.promptPos = (IF t.promptDone THEN t.promptPos ELSE t.promptPos + kept)
          /\ v.nPos = t.nPos + kept
          /\ (v.promptDone <=> t.promptDone \/ a # <<>>)
      BY Zenon DEF Took
    <2>3. /\ v.queue = q \o SubSeq(a, 1, n)
          /\ (later <=> n = room \/ n < Len(a))
          /\ (n < room /\ n > 0 => v.lastToken = a[n])
      BY Zenon DEF Took
    <2>4. \/ v.outCheckpoint = t.outCheckpoint
          \/ /\ ~t.promptDone /\ v.outCheckpoint.pos = t.promptPos + kept /\ v.outCheckpoint.cells = c2
      <3>1. \/ v.outCheckpoint = t.outCheckpoint
            \/ /\ ~t.promptDone /\ t.promptPos + kept = t.capture
               /\ v.outCheckpoint = [pos |-> t.capture, cells |-> c \o SubSeq(f, 1, kept), drafted |-> t.eligible]
        BY Zenon DEF Took
      <3>2. c2 = c \o SubSeq(f, 1, kept)
        BY <2>1
      <3> DEFINE o == v.outCheckpoint
                 x == t.capture
                 e == t.eligible
      <3> HIDE DEF c2, c, f, kept, t, v, o, x, e
      <3>3. o = [pos |-> x, cells |-> c2, drafted |-> e] => o.pos = x /\ o.cells = c2
        OBVIOUS
      <3>4. o = t.outCheckpoint \/ (~t.promptDone /\ t.promptPos + kept = x /\ o = [pos |-> x, cells |-> c2, drafted |-> e])
        BY <3>1, <3>2, Zenon DEF o, x, e
      <3>5. o = t.outCheckpoint \/ (~t.promptDone /\ t.promptPos + kept = x /\ o.pos = x /\ o.cells = c2)
        BY <3>3, <3>4, Zenon
      <3>6. o = t.outCheckpoint \/ (~t.promptDone /\ o.pos = t.promptPos + kept /\ o.cells = c2)
        BY <3>5, Zenon
      <3> QED BY <3>6, Zenon DEF o
    <2>5. t.eligible => d2 = d \o SubSeq(c2, Len(c) + 1, Len(c2))
      <3>1. t.eligible => d2 = d \o SubSeq(c \o SubSeq(f, 1, kept), Len(c) + 1, Len(c \o SubSeq(f, 1, kept)))
        BY Zenon DEF Took
      <3>2. c2 = c \o SubSeq(f, 1, kept)
        BY <2>1
      <3> HIDE DEF c2, c, d2, d, f, kept, t
      <3> QED BY <3>1, <3>2, Zenon
    <2> QED BY <2>1, <2>2, <2>3, <2>4, <2>5, Zenon
  <1>4. /\ t.promptDone => /\ f[1] = t.lastToken /\ Len(a) >= 1
                           /\ \A i \in 1..(Len(a) - 1) : f[1 + i] = a[i]
        /\ ~t.promptDone => /\ t.promptPos + kept <= Len(t.prompt)
                            /\ \A i \in 1..kept : f[i] = t.prompt[t.promptPos + i]
                            /\ a # <<>> => Len(a) = 1 /\ t.promptPos + kept = Len(t.prompt)
    BY <1>3, TookFed, Zenon
  <1>5. n \in 0..Len(a) /\ n <= room
    BY <1>1, <1>3, PushedWithin, Zenon
  <1>6. \A i \in 1..Len(q) : q[i] \notin Ends
    BY <1>0 DEF Alive
  <1> HIDE DEF t, v, c, d, c2, d2, st, later, mtp, room, n, kept, f
  <1>7. /\ Len(c2) = Len(c) + kept /\ Len(c) \in Nat
        /\ \A i \in 1..Len(c) : c2[i] = c[i]
        /\ \A i \in 1..kept : c2[Len(c) + i] = f[i]
    <2>1. Grown(Nat, c, f, kept, c2)
      BY <1>1, <1>3 DEF Grown
    <2>2. Placed(c, f, kept, c2)
      BY <2>1, GrownPlaces
    <2> QED BY <2>2 DEF Placed
  <1>8. a \in Seq(Event) /\ Len(a) \in Nat /\ n \in Nat /\ n <= Len(a)
    <2>a. a \in Seq(Nat)
      BY <1>3, Zenon
    <2>1. Len(a) \in Nat
      BY <2>a
    <2>2. \A i \in 1..Len(a) : a[i] \in Nat
      BY <2>a
    <2> DEFINE m == Len(a)
    <2>3. a \in [1..m -> Event] /\ m \in Nat
      <3>1. a = [i \in 1..m |-> a[i]]
        BY <2>a
      <3>2. \A i \in 1..m : a[i] \in Event
        BY <2>2 DEF Event
      <3> HIDE DEF m
      <3> QED BY <2>1, <3>1, <3>2 DEF m
    <2> HIDE DEF m
    <2>4. a \in Seq(Event)
      BY <2>3
    <2> QED BY <1>5, <2>1, <2>4
  <1>9. /\ Len(v.queue) = Len(q) + n /\ Len(q) \in Nat
        /\ \A i \in 1..Len(q) : v.queue[i] = q[i]
        /\ \A i \in 1..n : v.queue[Len(q) + i] = a[i]
    <2> DEFINE w == v.queue
    <2>1. w = q \o SubSeq(a, 1, n)
      BY <1>3
    <2> HIDE DEF w, q
    <2>2. /\ Len(w) = Len(q) + n /\ Len(q) \in Nat
          /\ \A i \in 1..Len(q) : w[i] = q[i]
          /\ \A i \in 1..n : w[Len(q) + i] = a[i]
      <3>1. Grown(Event, q, a, n, w)
        BY <1>1, <1>8, <2>1 DEF Grown
      <3>2. Placed(q, a, n, w)
        BY <3>1, GrownPlaces
      <3> QED BY <3>2 DEF Placed
    <2> QED BY <2>2 DEF w
  <1>10. SameSides(t, v, c2, d2)
    <2>1. t.eligible => d2 = c2
      <3> SUFFICES ASSUME t.eligible PROVE d2 = c2
        OBVIOUS
      <3>1. d = c
        BY <1>2 DEF FollowsOf
      <3>2. Len(c2) >= Len(c)
        BY <1>3, <1>7
      <3>3. c \o SubSeq(c2, Len(c) + 1, Len(c2)) = c2
        BY <1>1, <1>3, <1>7, <3>2, GrownSame
      <3> QED BY <1>3, <3>1, <3>3
    <2> QED BY <1>3, <2>1 DEF SameSides, Alike
  <1>11. ~later => n = Len(a) /\ (n > 0 => v.lastToken = a[n])
    <2> SUFFICES ASSUME ~later PROVE n = Len(a) /\ (n > 0 => v.lastToken = a[n])
      OBVIOUS
    <2>1. n # room /\ ~(n < Len(a))
      BY <1>3
    <2>2. n = Len(a) /\ n < room
      BY <1>1, <1>5, <1>8, <2>1
    <2> QED BY <1>3, <2>2
  <1>12. CASE ~t.promptDone
    <2>1. ~st
      BY <1>2, <1>12 DEF RunsOf
    <2>2. RunsOf(t, c, st, FALSE)
      BY <1>2
    <2>3. t.queue = <<>> /\ q = <<>> /\ Len(q) = 0
      BY <1>2, <1>12, EmptyLen DEF RunsOf, q
    <2>4. /\ Len(v.queue) = n /\ \A i \in 1..n : v.queue[i] = a[i]
      <3>1. \A i \in 1..n : 0 + i = i
        BY <1>8
      <3> QED BY <1>8, <1>9, <2>3, <3>1
    <2>5. \A i \in 1..kept : c2[Len(c) + i] = t.prompt[t.promptPos + i]
      BY <1>4, <1>7, <1>12
    <2>6. v.promptPos = t.promptPos + kept /\ (v.promptDone <=> a # <<>>)
      BY <1>3, <1>12
    <2>7. \/ v.outCheckpoint = t.outCheckpoint
          \/ v.outCheckpoint.pos = t.promptPos + kept /\ v.outCheckpoint.cells = c2
      BY <1>3
    <2>8. t.promptPos + kept <= Len(t.prompt) /\ (a # <<>> => Len(a) = 1 /\ t.promptPos + kept = Len(t.prompt))
      BY <1>4, <1>12
    <2>a. /\ t \in TaskType /\ v \in TaskType /\ c \in Seq(Nat) /\ c2 \in Seq(Nat) /\ a \in Seq(Nat) /\ kept \in Nat
          /\ v.nPos = t.nPos + kept /\ Len(c2) = Len(c) + kept /\ \A i \in 1..Len(c) : c2[i] = c[i]
      BY <1>1, <1>3, <1>7
    <2>b. FollowsOf(t, c, d, st, mtp)
      BY <1>2
    <2>c. PromptGrew(t, v, st, FALSE, later, c, d, mtp, c2, d2, kept, a, n)
      BY <2>a, <2>b, <1>5, <1>10, <1>11, <1>12, <2>1, <2>2, <2>4, <2>5, <2>6, <2>7, <2>8 DEF PromptGrew
    <2>9. FollowsOf(v, c2, d2, st, mtp) /\ RunsOf(v, c2, st, later)
      BY <2>c, TookPrompt
    <2> QED BY <2>9 DEF t, v, c2, d2, st, later, mtp
  <1>13. CASE t.promptDone
    <2>1. kept = Len(a) /\ kept >= 1 /\ v.promptDone /\ v.outCheckpoint = t.outCheckpoint
      BY <1>3, <1>13 DEF kept
    <2>2. c2[Len(c) + 1] = t.lastToken
      <3>1. 1 \in 1..kept
        BY <1>3
      <3> QED BY <1>4, <1>7, <1>13, <3>1
    <2>3. \A i \in 1..(kept - 1) : c2[Len(c) + (1 + i)] = a[i]
      <3> SUFFICES ASSUME NEW i \in 1..(kept - 1) PROVE c2[Len(c) + (1 + i)] = a[i]
        OBVIOUS
      <3>1. 1 + i \in 1..kept
        BY <1>3
      <3>2. f[1 + i] = a[i]
        BY <1>4, <1>13, <2>1
      <3> QED BY <1>7, <3>1, <3>2
    <2>4. ~later => n = kept /\ v.lastToken = a[n]
      <3>1. Len(a) > 0
        BY <2>1, <1>8
      <3> QED BY <1>11, <2>1, <3>1
    <2>5. n \in 0..kept /\ Len(a) = kept
      BY <1>5, <2>1
    <2>6. /\ Len(v.queue) = Len(t.queue) + n
          /\ \A i \in 1..Len(t.queue) : v.queue[i] = t.queue[i] /\ t.queue[i] \notin Ends
          /\ \A i \in 1..n : v.queue[Len(t.queue) + i] = a[i]
      BY <1>6, <1>9 DEF q
    <2>a. /\ t \in TaskType /\ v \in TaskType /\ c \in Seq(Nat) /\ c2 \in Seq(Nat) /\ a \in Seq(Nat) /\ kept \in Nat
          /\ v.nPos = t.nPos + kept /\ Len(c2) = Len(c) + kept /\ \A i \in 1..Len(c) : c2[i] = c[i]
          /\ st \in BOOLEAN
      BY <1>1, <1>3, <1>7
    <2>b. FollowsOf(t, c, d, st, mtp) /\ RunsOf(t, c, st, FALSE)
      BY <1>2
    <2>c. AnswerGrew(t, v, st, later, c, d, mtp, c2, d2, kept, a, n)
      BY <2>a, <2>b, <1>10, <1>13, <2>1, <2>2, <2>3, <2>4, <2>5, <2>6 DEF AnswerGrew
    <2>7. FollowsOf(v, c2, d2, st, mtp) /\ RunsOf(v, c2, st, later)
      BY <2>c, TookDecode
    <2> QED BY <2>7 DEF t, v, c2, d2, st, later, mtp
  <1> QED BY <1>1, <1>12, <1>13

LEMMA RecallDecode ==
  ASSUME Kernel, Recall, Decode PROVE Recall'
  <1>0. Typed /\ Seated /\ Alive /\ Metered /\ Fresh /\ Truthful /\ Faithful
    BY DEF Kernel, Recall
  <1>1. PICK answer : Decodes(answer)
    BY DecodeOnce
  <1>2. /\ Untouched /\ active' = active /\ terminal' = terminal /\ pc = "decode"
        /\ \A r \in Requests : InTurnNow(r) => Queued(r) /\ Took(r, answer[r])
        /\ \A r \in Requests : ~InTurnNow(r) => task'[r] = task[r]
        /\ \A s \in 1..rig.slots : (\A r \in Requests : InTurnNow(r) => task[r].seq # s) => kv'[s] = kv[s] /\ draft'[s] = draft[s]
        /\ work'.done \subseteq {r \in Requests : InTurnNow(r)}
    BY <1>1 DEF Decodes
  <1>3. rig' = rig /\ slots' = slots /\ at' = at /\ cancel' = cancel /\ stop' = stop
    BY <1>2 DEF Untouched
  <1>a. work'.runnable = work.runnable
    <2> DEFINE done == work'.done
    <2>1. work \in WorkType /\ work' = [work EXCEPT !.done = done]
      BY <1>0, <1>1 DEF Typed, ThreadTyped, Decodes
    <2> HIDE DEF done
    <2> QED BY <2>1 DEF WorkType
  <1>b. \A r \in Requests : Queued(r) => \A i \in 1..Len(task'[r].queue) : task'[r].queue[i] \notin Ends
    <2>1. Alive'
      BY KernelDecode DEF Kernel
    <2>2. \A r \in Requests : Queued(r) => Queued(r)'
      BY <1>2 DEF Queued, Members
    <2>3. \A r \in Requests : Queued(r)' => \A i \in 1..Len(task'[r].queue) : task'[r].queue[i] \notin Ends
      BY <2>1 DEF Alive, Ends
    <2> QED BY <2>2, <2>3
  <1>4. ASSUME NEW r \in Requests, InTurnNow(r)
        PROVE  LET v == task'[r]
               IN  /\ v.initialized /\ task[r].initialized /\ v.slot = task[r].slot /\ v.seq = task[r].seq
                   /\ v.admitted = task[r].admitted
                   /\ ~cancel[r] => /\ FollowsOf(v, kv'[v.seq], draft'[v.seq], stop[r], rig.mtp)
                                    /\ RunsOf(v, kv'[v.seq], stop[r], r \in work'.done)
    <2>1. Queued(r) /\ Took(r, answer[r])
      BY <1>2, <1>4, Zenon
    <2>2. answer[r] \in Answers(r) /\ Alike(task[r], task'[r]) /\ task'[r].initialized = task[r].initialized
      BY <2>1, Zenon DEF Took
    <2>3. task[r].initialized
      BY <1>2, <1>4, <2>2, TookFed
    <2>4. task'[r].slot = task[r].slot /\ task'[r].seq = task[r].seq /\ task'[r].admitted = task[r].admitted
      BY <2>2 DEF Alike
    <2>5. ~cancel[r] => /\ FollowsOf(task'[r], kv'[task[r].seq], draft'[task[r].seq], stop[r], rig.mtp)
                        /\ RunsOf(task'[r], kv'[task[r].seq], stop[r], r \in work'.done)
      BY <1>2, <1>4, <2>1, TookFaithful
    <2> QED BY <2>2, <2>3, <2>4, <2>5
  <1>5. \A r \in Requests : task'[r].slot = task[r].slot /\ (task'[r].initialized <=> task[r].initialized)
    BY <1>2, <1>4
  <1>6. \A r \in Requests : Queued(r)' <=> Queued(r)
    BY <1>2 DEF Queued, Members
  <1>7. ASSUME NEW r \in Requests, ~InTurnNow(r), Going(r)
        PROVE  task'[r] = task[r] /\ kv'[task[r].seq] = kv[task[r].seq] /\ draft'[task[r].seq] = draft[task[r].seq]
    <2>1. task[r].seq \in 1..rig.slots
      BY <1>0, <1>7, GoingSeq
    <2>2. \A q \in Requests : InTurnNow(q) => task[q].seq # task[r].seq
      <3> SUFFICES ASSUME NEW q \in Requests, InTurnNow(q), task[q].seq = task[r].seq PROVE FALSE
        OBVIOUS
      <3>1. Going(q)
        BY <1>0, <1>2, QueuedSeq
      <3>2. q = r
        BY <1>0, <1>7, <3>1, OwnSeq
      <3> QED BY <1>7, <3>2
    <2> QED BY <1>2, <1>7, <2>1, <2>2
  <1>8. Faithful'
    <2>1. ASSUME NEW r \in Requests, Started(r)', ~cancel[r], ~terminal
          PROVE  FollowsOf(task'[r], kv'[task'[r].seq], draft'[task'[r].seq], stop'[r], rig.mtp)
      <3>1. CASE InTurnNow(r)
        BY <1>3, <1>4, <2>1, <3>1
      <3>2. CASE ~InTurnNow(r)
        <4>1. Started(r) /\ Going(r)
          BY <1>2, <1>3, <2>1, <3>2 DEF Started, Going
        <4> QED BY <1>0, <1>3, <1>7, <2>1, <3>2, <4>1 DEF Faithful, Follows
      <3> QED BY <3>1, <3>2
    <2>2. ASSUME NEW r \in Requests, Queued(r), task'[r].initialized, ~cancel[r]
          PROVE  RunsOf(task'[r], kv'[task'[r].seq], stop'[r], r \in work'.done)
      <3>1. CASE InTurnNow(r)
        BY <1>2, <1>3, <1>4, <2>2, <3>1
      <3>2. CASE ~InTurnNow(r)
        <4>1. Going(r) /\ task'[r] = task[r]
          BY <1>0, <1>2, <2>2, <3>2, QueuedSeq
        <4>2. (r \notin work.done) /\ r \notin work'.done
          BY <1>0, <1>2, <3>2 DEF Alive
        <4>3. kv'[task[r].seq] = kv[task[r].seq]
          BY <1>7, <3>2, <4>1
        <4>4. RunsOf(task[r], kv[task[r].seq], stop[r], r \in work.done)
          BY <1>0, <2>2, <4>1 DEF Faithful, Runs
        <4>5. RunsOf(task[r], kv[task[r].seq], stop[r], r \in work'.done)
          BY <4>2, <4>4 DEF RunsOf
        <4> QED BY <1>3, <4>1, <4>3, <4>5
      <3> QED BY <3>1, <3>2
    <2> QED BY <1>2, <1>3, <1>6, <2>1, <2>2, FaithfulStep
  <1>9. Fresh'
    <2>1. \A r \in Requests : Going(r)' <=> Going(r)
      BY <1>3 DEF Going
    <2>2. \A r \in Requests : at'[r] = "prepared" => ~task'[r].initialized
      BY <1>0, <1>3, <1>5 DEF Fresh
    <2>3. \A r \in Requests : ~task'[r].initialized => task'[r] = task[r] /\ ~task[r].initialized
      BY <1>2, <1>4
    <2>4. \A r \in Requests : Going(r)' /\ ~task'[r].initialized => NewOf(task'[r], slots'[task'[r].slot]) /\ ~stop'[r]
      BY <1>0, <1>3, <2>1, <2>3 DEF Fresh, SeatOf
    <2>5. rig.capacity > 0 => \A r \in Requests :
            (Queued(r)' /\ task'[r].initialized) \/ r \in Members(work'.runnable) => task'[r].admitted
      <3>1. \A r \in Requests : task'[r].admitted = task[r].admitted
        BY <1>2, <1>4
      <3> QED BY <1>0, <1>a, <1>5, <1>6, <3>1 DEF Fresh
    <2>6. ~terminal' => \A r \in Requests : at'[r] = "draining" /\ task'[r].initialized =>
            \A i \in 1..Len(task'[r].queue) : task'[r].queue[i] # Failed
      <3>1. Failed \in Ends
        BY DEF Ends
      <3>2. \A r \in Requests : ~Queued(r) => task'[r] = task[r]
        BY <1>2
      <3> QED BY <1>0, <1>b, <1>2, <1>3, <3>1, <3>2 DEF Fresh
    <2>7. /\ \A r \in Requests : at'[r] \in {"idle", "acquired"} => ~stop'[r]
          /\ terminal' => \A r \in Requests : ~Queued(r)'
      BY <1>0, <1>2, <1>3, <1>6 DEF Fresh
    <2> QED BY <1>3, <2>2, <2>4, <2>5, <2>6, <2>7, FreshStep
  <1>10. Truthful'
    <2> SUFFICES ASSUME ~terminal, NEW s \in 1..rig.slots, \A q \in Requests : Started(q)' => task'[q].slot # s
                 PROVE  RemembersOf(slots[s], kv'[slots[s].seq], draft'[slots[s].seq], rig.mtp)
      BY <1>2, <1>3, TruthfulStep
    <2>1. \A q \in Requests : Started(q) => task[q].slot # s
      BY <1>3, <1>5 DEF Started
    <2>2. RemembersOf(slots[s], kv[slots[s].seq], draft[slots[s].seq], rig.mtp)
      BY <1>0, <2>1 DEF Truthful, Remembers
    <2>3. \A q \in Requests : InTurnNow(q) => task[q].seq # slots[s].seq
      <3> SUFFICES ASSUME NEW q \in Requests, InTurnNow(q), task[q].seq = slots[s].seq PROVE FALSE
        OBVIOUS
      <3>1. Queued(q) /\ task[q].slot \in 1..rig.slots /\ task[q].seq = slots[task[q].slot].seq
        BY <1>0, <1>2, QueuedSeq
      <3>2. task[q].slot = s
        BY <1>0, <3>1 DEF Seated
      <3>3. Started(q)
        BY <1>0, <1>4, <3>1 DEF Started, Alive
      <3> QED BY <2>1, <3>2, <3>3
    <2>4. slots[s].seq \in 1..rig.slots
      BY <1>0 DEF Typed, CacheTyped, SlotType
    <2>5. kv'[slots[s].seq] = kv[slots[s].seq] /\ draft'[slots[s].seq] = draft[slots[s].seq]
      BY <1>2, <2>3, <2>4
    <2> QED BY <2>2, <2>5
  <1> QED BY <1>8, <1>9, <1>10 DEF Recall
----------------------------------------------------------------------------
(* What the memory shows.                                                  *)

LEMMA RecallNext == ASSUME Kernel, Recall, [Next]_vars PROVE Recall'
  <1>1. CASE Thread
    <2>1. CASE Top \/ Doze \/ Sleep \/ DecodeFails
      BY <2>1, MovesOf, RecallMoves
    <2>2. CASE Collect
      BY <2>2, RecallCollect
    <2>3. CASE Ready
      BY <2>3, RecallReady
    <2>4. CASE Build
      BY <2>4, RecallBuild
    <2>5. CASE Decode
      BY <2>5, RecallDecode
    <2>6. CASE Finish \/ FailAll
      BY <2>6, RecallRetires
    <2> QED BY <1>1, <2>1, <2>2, <2>3, <2>4, <2>5, <2>6 DEF Thread
  <1>2. CASE StopBegin \/ StopNotify \/ UNCHANGED vars
    BY <1>2, RecallMoves
  <1>3. CASE Recreate
    BY <1>3, RecallRecreate
  <1>4. ASSUME NEW r \in Requests, Caller(r) \/ (Disconnect(r) /\ UNCHANGED schedVars)
        PROVE  Recall'
    <2>1. CASE AcquireSlot(r, Healthy) /\ UNCHANGED schedVars
      BY <2>1, RecallAcquireSlot
    <2>2. CASE PrepareInference(r) /\ UNCHANGED schedVars
      BY <2>2, RecallPrepareInference
    <2>3. CASE Submit(r)
      BY <2>3, RecallSubmit
    <2>4. CASE Drain(r) /\ UNCHANGED schedVars
      BY <2>4, RecallDrain
    <2>5. CASE UpdateSlot(r) /\ UNCHANGED schedVars
      BY <2>5, RecallUpdateSlot
    <2>6. CASE ReleaseSlot(r) /\ UNCHANGED schedVars
      BY <2>6, RecallReleaseSlot
    <2>7. CASE Disconnect(r) /\ UNCHANGED schedVars
      BY <2>7, RecallDisconnect
    <2> QED BY <1>4, <2>1, <2>2, <2>3, <2>4, <2>5, <2>6, <2>7 DEF Caller
  <1> QED BY <1>1, <1>2, <1>3, <1>4 DEF Next, Stopper

\* Who is queued, was started and runs on has the cells and the draft of its text.
LEMMA RunningRecalled ==
  ASSUME Kernel, Recall, NEW r \in Requests, Queued(r), task[r].initialized, ~Off(r)
  PROVE  Follows(r) /\ Runs(r)
  <1>1. Started(r) /\ ~terminal /\ ~cancel[r]
    BY DEF Kernel, Recall, Alive, Fresh, Started, Off
  <1> QED BY <1>1 DEF Recall, Faithful

LEMMA RecallCells == ASSUME Kernel, Recall PROVE CacheFaithful
  <1>0. Typed /\ Seated /\ Truthful /\ Slots = 1..rig.slots
    BY SlotSet DEF Kernel, Recall
  <1>1. ASSUME NEW r \in Requests, Queued(r), task[r].initialized, ~Off(r)
        PROVE  LET t == task[r] IN
               /\ Len(kv[t.seq]) = t.nPos
               /\ Voiced => \A i \in 1..Min({t.nPos, Len(t.prompt)}) : kv[t.seq][i] = t.prompt[i]
    <2> DEFINE t == task[r]
               c == kv[t.seq]
               n == t.nPos
               m == Len(t.prompt)
    <2>1. Follows(r) /\ Runs(r) /\ t \in TaskType
      BY <1>0, <1>1, RunningRecalled DEF Typed, CallersTyped
    <2>a. Len(c) = n
      BY <2>1 DEF Runs, RunsOf
    <2>b. Voiced => \A i \in 1..Len(c) : i <= m => c[i] = t.prompt[i]
      BY <2>1 DEF Follows, FollowsOf
    <2>3. n \in Nat /\ m \in Nat
      BY <2>1, TextLengths
    <2> HIDE DEF t, c, n, m
    <2>2. Len(c) = n /\ (Voiced => \A i \in 1..n : i <= m => c[i] = t.prompt[i])
      BY <2>a, <2>b
    <2>4. Min({n, m}) \in Nat /\ Min({n, m}) <= n /\ Min({n, m}) <= m
      BY <2>3, MinTwo
    <2>5. \A i \in 1..Min({n, m}) : i \in 1..n /\ i <= m
      BY <2>3, <2>4
    <2>6. Voiced => \A i \in 1..Min({n, m}) : c[i] = t.prompt[i]
      BY <2>2, <2>5
    <2> QED BY <2>2, <2>6 DEF t, c, n, m
  <1>2. ASSUME Voiced, ~terminal, NEW s \in Slots, ~slots[s].bound
        PROVE  \A i \in 1..Min({Len(slots[s].last), Len(kv[slots[s].seq])}) : kv[slots[s].seq][i] = slots[s].last[i]
    <2> DEFINE l == slots[s].last
               c == kv[slots[s].seq]
               n == Len(l)
               m == Len(c)
    <2>1. RemembersOf(slots[s], kv[slots[s].seq], draft[slots[s].seq], rig.mtp)
      BY <1>0, <1>2, UnboundRemembers
    <2>2. \A i \in 1..n : i <= m => l[i] = c[i]
      BY <1>2, <2>1 DEF RemembersOf, Agrees
    <2>3. l \in Seq(Nat) /\ c \in Seq(Nat)
      BY <1>0 DEF Typed, CacheTyped, SlotType
    <2>4. n \in Nat /\ m \in Nat
      <3> HIDE DEF l, c
      <3> QED BY <2>3
    <2> HIDE DEF l, c, n, m
    <2>5. Min({n, m}) \in Nat /\ Min({n, m}) <= n /\ Min({n, m}) <= m
      BY <2>4, MinTwo
    <2>6. \A i \in 1..Min({n, m}) : i \in 1..n /\ i <= m
      BY <2>4, <2>5
    <2>7. \A i \in 1..Min({n, m}) : c[i] = l[i]
      BY <2>2, <2>6
    <2> QED BY <2>7 DEF l, c, n, m
  <1> QED BY <1>1, <1>2 DEF CacheFaithful

LEMMA RecallDrafts == ASSUME Kernel, Recall PROVE DraftInSync
  <1> SUFFICES ASSUME NEW r \in Requests, Queued(r), task[r].initialized, task[r].eligible, ~Off(r)
               PROVE  draft[task[r].seq] = kv[task[r].seq]
    BY DEF DraftInSync
  <1> QED BY RunningRecalled DEF Follows, FollowsOf

LEMMA RecallAlways == Spec => []Recall
  <1>1. Init => Recall
    BY RecallInit
  <1>2. Kernel /\ Recall /\ [Next]_vars => Recall'
    BY RecallNext
  <1> QED BY <1>1, <1>2, KernelAlways, PTL DEF Spec

(* CacheFaithful.  A running task has the cells it counts; where no token   *)
(* without characters is dropped, they begin with its own prompt, and what *)
(* an idle slot remembers is what its sequence still holds, up to the      *)
(* shorter of the two: init_task resumes a prompt, prepare_inference       *)
(* exchanges slots and update_slot_state records a conversation on the     *)
(* strength of that, over any number of turns, retirements and evictions.  *)
THEOREM CellsFaithful == Spec => []CacheFaithful
  <1>1. Kernel /\ Recall => CacheFaithful
    BY RecallCells
  <1> QED BY <1>1, KernelAlways, RecallAlways, PTL

(* DraftInSync.  While the scheduler drafts for a task, the cells of its   *)
(* draft context are those of the target: run_loop gives up drafting for   *)
(* good when a batch leaves the draft behind, and init_task does not take  *)
(* it up on a slot whose draft was not synchronised.                       *)
THEOREM DraftsFollow == Spec => []DraftInSync
  <1>1. Kernel /\ Recall => DraftInSync
    BY RecallDrafts
  <1> QED BY <1>1, KernelAlways, RecallAlways, PTL

----------------------------------------------------------------------------
(* The bounded pool.  What admission grants a task, and what idle          *)
(* sequences hold, fit the pool together; a task that was started stays    *)
(* within its grant, and whoever is decoded for was started.               *)

SequenceOf == [r \in Requests |-> task[r].seq]
Claims == [r \in Requests |-> Reservation(r)]
Lengths(c) == [s \in 1..rig.slots |-> Len(c[s])]
Idlers(A) == (1..rig.slots) \ {SequenceOf[r] : r \in A}
Afford(A, c) == Total(Claims, A) + Total(Lengths(c), Idlers(A)) <= rig.capacity

\* The sums of the model are sums over functions.
LEMMA CellSum ==
  ASSUME NEW c, NEW S
  PROVE  Sum(S, LAMBDA s : Len(c[s])) = Total([s \in S |-> Len(c[s])], S)
  <1> DEFINE g == [s \in S |-> Len(c[s])]
             Body(F, s) == IF s = {} THEN 0 ELSE Len(c[Pick(s)]) + F[s \ {Pick(s)}]
  <1>1. Sum(S, LAMBDA s : Len(c[s])) = (CHOOSE F : F = [s \in SUBSET S |-> Body(F, s)])[S]
    BY DEF Sum, FoldSet, MapThenFoldSet, Pick
  <1>2. ASSUME NEW F, NEW s \in SUBSET S PROVE Body(F, s) = Unroll(g, F, s)
    BY DEF Unroll, Pick
  <1> HIDE DEF g
  <1>3. ASSUME NEW F PROVE [s \in SUBSET S |-> Body(F, s)] = [s \in SUBSET S |-> Unroll(g, F, s)]
    BY <1>2
  <1>4. (CHOOSE F : F = [s \in SUBSET S |-> Body(F, s)]) = Sums(g, S)
    BY <1>3, Zenon DEF Sums
  <1>5. Sum(S, LAMBDA s : Len(c[s])) = Total(g, S)
    BY <1>1, <1>4, TotalDef, Zenon
  <1> QED BY <1>5 DEF g

LEMMA DraftSum ==
  ASSUME NEW c, NEW S
  PROVE  Sum(S, LAMBDA s : IF c[s] = <<>> THEN 0 ELSE Len(draft[s]))
           = Total([s \in S |-> IF c[s] = <<>> THEN 0 ELSE Len(draft[s])], S)
  <1> DEFINE f(s) == IF c[s] = <<>> THEN 0 ELSE Len(draft[s])
             g == [s \in S |-> f(s)]
             Body(F, s) == IF s = {} THEN 0 ELSE f(Pick(s)) + F[s \ {Pick(s)}]
  <1>1. Sum(S, LAMBDA s : f(s)) = (CHOOSE F : F = [s \in SUBSET S |-> Body(F, s)])[S]
    BY DEF Sum, FoldSet, MapThenFoldSet, Pick
  <1> HIDE DEF f
  <1>2. ASSUME NEW F, NEW s \in SUBSET S PROVE Body(F, s) = Unroll(g, F, s)
    BY DEF Unroll, Pick
  <1> HIDE DEF g
  <1>3. ASSUME NEW F PROVE [s \in SUBSET S |-> Body(F, s)] = [s \in SUBSET S |-> Unroll(g, F, s)]
    BY <1>2
  <1>4. (CHOOSE F : F = [s \in SUBSET S |-> Body(F, s)]) = Sums(g, S)
    BY <1>3, Zenon DEF Sums
  <1>5. Sum(S, LAMBDA s : f(s)) = Total(g, S)
    BY <1>1, <1>4, TotalDef, Zenon
  <1> QED BY <1>5 DEF g, f

LEMMA ReserveSum ==
  ASSUME NEW A \in SUBSET Requests
  PROVE  Sum(A, Reservation) = Total(Claims, A)
  <1> DEFINE Body(F, s) == IF s = {} THEN 0 ELSE Reservation(Pick(s)) + F[s \ {Pick(s)}]
  <1>1. Sum(A, Reservation) = (CHOOSE F : F = [s \in SUBSET A |-> Body(F, s)])[A]
    BY DEF Sum, FoldSet, MapThenFoldSet, Pick
  <1>2. ASSUME NEW F, NEW s \in SUBSET A PROVE Body(F, s) = Unroll(Claims, F, s)
    BY DEF Unroll, Pick, Claims
  <1>3. ASSUME NEW F PROVE [s \in SUBSET A |-> Body(F, s)] = [s \in SUBSET A |-> Unroll(Claims, F, s)]
    BY <1>2
  <1>4. (CHOOSE F : F = [s \in SUBSET A |-> Body(F, s)]) = Sums(Claims, A)
    BY <1>3, Zenon DEF Sums
  <1> QED BY <1>1, <1>4, TotalDef, Zenon

\* The arithmetic of a step: some tasks give up their grants for what their
\* sequences hold, and no idle sequence grows.
MovesGrants(n, A, O, f, g, g2, h, h2, cap) ==
    /\ n \in Nat /\ cap \in Nat /\ IsFiniteSet(A) /\ O \subseteq A
    /\ \A a \in A : f[a] \in 1..n /\ h[a] \in Nat /\ h2[a] = h[a]
    /\ \A a, b \in A : f[a] = f[b] => a = b
    /\ \A s \in 1..n : g[s] \in Nat /\ g2[s] \in Nat
    /\ \A s \in 1..n : (\A a \in A : f[a] # s) => g2[s] <= g[s]
    /\ \A a \in O : g2[f[a]] <= h[a]
    /\ Total(h, A) + Total(g, (1..n) \ {f[a] : a \in A}) <= cap
LEMMA AffordMoved ==
  ASSUME NEW n, NEW A, NEW O, NEW f, NEW g, NEW g2, NEW h, NEW h2, NEW cap,
         MovesGrants(n, A, O, f, g, g2, h, h2, cap)
  PROVE  Total(h2, A \ O) + Total(g2, (1..n) \ {f[a] : a \in A \ O}) <= cap
  <1>0. /\ n \in Nat /\ cap \in Nat /\ IsFiniteSet(A) /\ O \in SUBSET A
        /\ \A a \in A : f[a] \in 1..n /\ h[a] \in Nat /\ h2[a] = h[a]
        /\ \A a, b \in A : f[a] = f[b] => a = b
        /\ \A s \in 1..n : g[s] \in Nat /\ g2[s] \in Nat
        /\ \A s \in 1..n : (\A a \in A : f[a] # s) => g2[s] <= g[s]
        /\ \A a \in O : g2[f[a]] <= h[a]
        /\ Total(h, A) + Total(g, (1..n) \ {f[a] : a \in A}) <= cap
    BY DEF MovesGrants
  <1> DEFINE C == (1..n) \ {f[a] : a \in A}
             D == (1..n) \ {f[a] : a \in A \ O}
  <1>1. D = C \cup {f[a] : a \in O}
    BY <1>0
  <1>2. C \subseteq 1..n /\ \A s \in C : \A a \in A : f[a] # s
    OBVIOUS
  <1> HIDE DEF C, D
  <1>3. IsFiniteSet(1..n)
    BY <1>0, FS_Interval
  <1>4. IsFiniteSet(C) /\ IsFiniteSet(A \ O)
    BY <1>0, <1>2, <1>3, FS_Subset
  <1>5. /\ \A a \in A : h[a] \in Int
        /\ \A s \in C : g2[s] \in Int /\ g[s] \in Int /\ g2[s] <= g[s]
        /\ \A a \in O : f[a] \notin C /\ g2[f[a]] \in Int /\ g2[f[a]] <= h[a]
        /\ \A a, b \in O : f[a] = f[b] => a = b
    BY <1>0, <1>2
  <1>6. Total(h, A \ O) + Total(g2, C \cup {f[a] : a \in O}) <= Total(h, A) + Total(g2, C)
    <2>1. Movable(g2, h, f, A, O, C)
      BY <1>0, <1>4, <1>5 DEF Movable
    <2> QED BY <2>1, TotalMoved
  <1>7. Total(g2, C) <= Total(g, C)
    BY <1>4, <1>5, TotalMonotone
  <1>8. Total(h2, A \ O) = Total(h, A \ O)
    BY <1>0, <1>4, TotalSame
  <1>9. Total(g2, D) = Total(g2, C \cup {f[a] : a \in O})
    BY <1>1, Zenon
  <1>10. /\ Total(h, A) \in Int /\ Total(g2, C) \in Int /\ Total(g, C) \in Int /\ Total(h, A \ O) \in Int
    BY <1>0, <1>4, <1>5, TotalInt
  <1>11. Total(g2, D) \in Int
    <2>1. D \subseteq 1..n
      BY DEF D
    <2>2. IsFiniteSet(D)
      BY <1>3, <2>1, FS_Subset
    <2>3. \A s \in D : g2[s] \in Int
      <3>1. \A s \in 1..n : g2[s] \in Int
        BY <1>0
      <3> QED BY <2>1, <3>1
    <2> QED BY <2>2, <2>3, TotalInt
  <1>12. Total(h, A) + Total(g, C) <= cap
    BY <1>0 DEF C
  <1>13. Total(h2, A \ O) + Total(g2, D) <= cap
    BY <1>0, <1>6, <1>7, <1>8, <1>9, <1>10, <1>11, <1>12
  <1> QED BY <1>13 DEF D

\* What idle sequences hold is no more than what eviction counts, and nothing
\* once all of them are gone.
LEMMA IdleCounts ==
  ASSUME CacheTyped, NEW keep, NEW c \in [1..rig.slots -> Seq(Nat)]
  PROVE  /\ Idle(keep, c) \in Nat /\ Total(Lengths(c), (1..rig.slots) \ keep) <= Idle(keep, c)
         /\ (\A s \in (1..rig.slots) \ keep : c[s] = <<>>) => Idle(keep, c) = 0
         /\ Total(Lengths(c), (1..rig.slots) \ keep) \in Nat
  <1> DEFINE n == rig.slots
             S == (1..n) \ keep
             g == [s \in S |-> Len(c[s])]
             d == [s \in S |-> IF c[s] = <<>> THEN 0 ELSE Len(draft[s])]
             a == Total(g, S)
             b == Total(d, S)
  <1>1. n \in Nat /\ kv \in [1..n -> Seq(Nat)] /\ draft \in [1..n -> Seq(Nat)]
    BY RigAssumption DEF CacheTyped
  <1>2. /\ Sum(S, LAMBDA s : Len(c[s])) = a
        /\ Sum(S, LAMBDA s : IF c[s] = <<>> THEN 0 ELSE Len(draft[s])) = b
    BY CellSum, DraftSum, Zenon
  <1>3. DOMAIN kv \ keep = S /\ DOMAIN draft \ keep = S
    BY <1>1
  <1>4. Idle(keep, c) = Max({a, b})
    BY <1>2, <1>3, Zenon DEF Idle
  <1>5. IsFiniteSet(S)
    <2>1. IsFiniteSet(1..n)
      BY <1>1, FS_Interval
    <2>2. S \subseteq 1..n
      OBVIOUS
    <2> QED BY <2>1, <2>2, FS_Subset
  <1>6. \A s \in S : g[s] \in Nat /\ d[s] \in Nat /\ Lengths(c)[s] = g[s]
    BY <1>1 DEF Lengths
  <1>7. a \in Nat /\ b \in Nat /\ Total(Lengths(c), S) = a
    <2> HIDE DEF g, d, S
    <2>1. Total(g, S) \in Nat
      BY <1>5, <1>6, TotalNat
    <2>2. Total(d, S) \in Nat
      BY <1>5, <1>6, TotalNat
    <2>3. Total(Lengths(c), S) = Total(g, S)
      BY <1>5, <1>6, TotalSame
    <2> QED BY <2>1, <2>2, <2>3
  <1>8. (\A s \in S : c[s] = <<>>) => a = 0 /\ b = 0
    <2> SUFFICES ASSUME \A s \in S : c[s] = <<>> PROVE a = 0 /\ b = 0
      OBVIOUS
    <2>1. \A s \in S : g[s] = 0 /\ d[s] = 0
      OBVIOUS
    <2> HIDE DEF g, d, S
    <2> QED BY <1>5, <2>1, TotalZero
  <1> HIDE DEF a, b, S
  <1>9. Max({a, b}) \in {a, b} /\ a <= Max({a, b})
    <2>1. {a, b} \in SUBSET Int /\ {a, b} # {} /\ IsFiniteSet({a, b})
      <3>1. IsFiniteSet({a}) /\ {a, b} = {a} \cup {b}
        BY FS_Singleton
      <3>2. IsFiniteSet({a, b})
        BY <3>1, FS_AddElement
      <3> QED BY <1>7, <3>2
    <2>2. Max({a, b}) \in {a, b} /\ \A y \in {a, b} : Max({a, b}) >= y
      BY <2>1, Greatest
    <2>3. Max({a, b}) \in Int /\ Max({a, b}) >= a
      BY <1>7, <2>2
    <2> QED BY <1>7, <2>2, <2>3
  <1>10. Max({a, b}) \in Nat
    BY <1>7, <1>9
  <1> QED BY <1>4, <1>7, <1>8, <1>9, <1>10 DEF S, n

\* Eviction makes room for a candidate that fits beside the admitted.
LEMMA EvictFits ==
  ASSUME CacheTyped, NEW keep, NEW cells \in [1..rig.slots -> Seq(Nat)],
         NEW reserved \in Nat, NEW required \in Nat, CanAdmit(reserved, required)
  PROVE  LET left == Evict(keep, cells, reserved, required)
         IN  reserved + required + Total(Lengths(left), (1..rig.slots) \ keep) <= rig.capacity
  <1> DEFINE n == rig.slots
             Room(c) == CanAdmit(reserved + Idle(keep, c), required)
             Gone(c, i) == \A s \in 1..i : s \in keep \/ c[s] = <<>>
  <1>1. n \in Nat /\ rig.capacity \in Nat
    BY RigAssumption DEF CacheTyped
  <1>2. PICK H : Evicting(H, keep, cells, reserved, required)
    BY EvictSteps
  <1>3. /\ H[0] = cells /\ H[n] = Evict(keep, cells, reserved, required)
        /\ \A i \in 1..n : /\ H[i - 1] \in [1..n -> Seq(Nat)] /\ H[i] \in [1..n -> Seq(Nat)]
                           /\ H[i] = EvictOne(keep, H[i - 1], reserved, required, i)
    BY <1>2 DEF Evicting
  <1> HIDE DEF n, Room
  <1>4. ASSUME NEW i \in 1..n, Room(H[i - 1]) \/ Gone(H[i - 1], i - 1)
        PROVE  Room(H[i]) \/ Gone(H[i], i)
    <2>1. \/ i \in keep /\ H[i] = H[i - 1]
          \/ Room(H[i - 1]) /\ H[i] = H[i - 1]
          \/ H[i] = [H[i - 1] EXCEPT ![i] = <<>>] /\ ~Room(H[i - 1])
      BY <1>3, Zenon DEF EvictOne, Room
    <2>2. CASE Room(H[i - 1]) /\ H[i] = H[i - 1]
      BY <2>2
    <2>3. CASE i \in keep /\ H[i] = H[i - 1]
      <3>1. \A s \in 1..i : s = i \/ s \in 1..(i - 1)
        OBVIOUS
      <3> QED BY <1>4, <2>3, <3>1
    <2>4. CASE H[i] = [H[i - 1] EXCEPT ![i] = <<>>] /\ ~Room(H[i - 1])
      <3>1. \A s \in 1..i : s = i \/ s \in 1..(i - 1)
        OBVIOUS
      <3>2. H[i][i] = <<>> /\ \A s \in 1..(i - 1) : H[i][s] = H[i - 1][s]
        BY <1>1, <1>3, <2>4
      <3> QED BY <1>4, <2>4, <3>1, <3>2
    <2> QED BY <2>1, <2>2, <2>3, <2>4
  <1>5. Room(H[n]) \/ Gone(H[n], n)
    <2> DEFINE N == {k \in Nat : k <= n => Room(H[k]) \/ Gone(H[k], k)}
    <2>1. 0 \in N
      <3>1. Gone(H[0], 0)
        OBVIOUS
      <3> QED BY <3>1
    <2>2. ASSUME NEW k \in N PROVE k + 1 \in N
      <3>1. k + 1 <= n => k + 1 \in 1..n /\ (k + 1) - 1 = k /\ k <= n
        BY <1>1
      <3>2. k + 1 <= n => Room(H[k + 1]) \/ Gone(H[k + 1], k + 1)
        <4> HIDE DEF Gone
        <4>1. k <= n => Room(H[k]) \/ Gone(H[k], k)
          OBVIOUS
        <4> HIDE DEF N
        <4> SUFFICES ASSUME k + 1 <= n PROVE Room(H[k + 1]) \/ Gone(H[k + 1], k + 1)
          OBVIOUS
        <4>2. Room(H[(k + 1) - 1]) \/ Gone(H[(k + 1) - 1], (k + 1) - 1)
          BY <3>1, <4>1
        <4> QED BY <1>4, <3>1, <4>2
      <3> QED BY <3>2
    <2>3. N = Nat
      <3> HIDE DEF N
      <3>1. N \subseteq Nat
        BY DEF N
      <3> QED BY <2>1, <2>2, <3>1, Climb
    <2> HIDE DEF Gone
    <2>4. n \in N
      <3> HIDE DEF N
      <3> QED BY <1>1, <2>3
    <2> QED BY <1>1, <2>4
  <1> DEFINE left == H[n]
             t == Total(Lengths(left), (1..n) \ keep)
  <1>6. left \in [1..n -> Seq(Nat)]
    <2>1. CASE n = 0
      BY <1>3, <2>1 DEF n
    <2>2. CASE n # 0
      <3>1. n \in 1..n
        BY <1>1, <2>2
      <3> QED BY <1>3, <3>1
    <2> QED BY <2>1, <2>2
  <1> HIDE DEF left
  <1>7. /\ Idle(keep, left) \in Nat /\ t <= Idle(keep, left) /\ t \in Nat
        /\ (\A s \in (1..n) \ keep : left[s] = <<>>) => Idle(keep, left) = 0
    BY <1>6, IdleCounts DEF n
  <1>8. reserved + Idle(keep, left) <= rig.capacity - required
    <2>1. Gone(left, n) => Idle(keep, left) = 0
      BY <1>7
    <2>2. CASE Room(left)
      BY <2>2 DEF Room, CanAdmit
    <2>3. CASE Gone(left, n)
      <3> HIDE DEF Gone
      <3> QED BY <2>1, <2>3 DEF CanAdmit
    <2> HIDE DEF Gone
    <2>4. Room(left) \/ Gone(left, n)
      BY <1>5 DEF left
    <2> QED BY <2>2, <2>3, <2>4
  <1> HIDE DEF t
  <1>9. reserved + required + t <= rig.capacity
    BY <1>1, <1>7, <1>8
  <1> QED BY <1>3, <1>9 DEF t, left, n

LEMMA MembersFinite ==
  ASSUME NEW R, NEW s \in Seq(R)
  PROVE  IsFiniteSet(Members(s))
  <1>1. IsFiniteSet(1..Len(s))
    BY FS_Interval
  <1> QED BY <1>1, ImageFinite DEF Members

LEMMA ClaimsNat ==
  ASSUME Typed, NEW r \in Requests
  PROVE  Claims[r] = Reservation(r) /\ Claims[r] \in Nat /\ SequenceOf[r] = task[r].seq
  <1>1. task[r] \in TaskType /\ rig.margin \in Nat
    BY RigAssumption DEF Typed, CallersTyped, CacheTyped
  <1> DEFINE p == task[r].prompt
  <1>2. p \in Seq(Nat) /\ task[r].max \in Nat
    BY <1>1 DEF TaskType
  <1> HIDE DEF p
  <1>3. Len(p) \in Nat
    BY <1>2
  <1>4. Reservation(r) \in Nat
    BY <1>1, <1>2, <1>3 DEF Reservation, p
  <1> QED BY <1>4 DEF Claims, SequenceOf

\* A round of admission so far: the admitted and the idle fit together, and
\* whoever is admitted runs, or is about to be retired.
Snug(a) == /\ Afford(a.admitted, a.cells)
           /\ \A q \in a.admitted : q \in Members(a.runnable) \/ Off(q)
LEMMA AdmitOneSnug ==
  ASSUME Typed, NEW tasks \in Seq(Requests), NEW a \in AdmissionType, Sound(tasks, a), Snug(a),
         NEW r \in Members(tasks)
  PROVE  Snug(AdmitOne(a, r))
  <1> DEFINE required == Reservation(r)
             reserved == Sum(a.admitted, Reservation)
             keep == {task[x].seq : x \in a.admitted \cup {r}}
             left == Evict(keep, a.cells, reserved, required)
             b == AdmitOne(a, r)
             A == a.admitted
  <1> SUFFICES Snug(b)
    OBVIOUS
  <1>0. r \in Requests /\ A \in SUBSET Requests /\ a.cells \in [1..rig.slots -> Seq(Nat)] /\ a.runnable \in Seq(Requests)
    BY DEF Members, AdmissionType
  <1>1. CASE b.admitted = a.admitted /\ b.cells = a.cells /\ b.runnable = a.runnable
    <2> HIDE DEF b
    <2> QED BY <1>1 DEF Snug
  <1>2. CASE /\ r \notin A /\ CanAdmit(reserved, required)
             /\ b.admitted = A \cup {r} /\ b.cells = left /\ b.runnable = Append(a.runnable, r)
    <2>1. Members(b.runnable) = Members(a.runnable) \cup {r}
      BY <1>0, <1>2, AppendMembers
    <2>2. \A q \in b.admitted : q \in Members(b.runnable) \/ Off(q)
      <3> HIDE DEF b
      <3> QED BY <1>2, <2>1 DEF Snug
    <2>3. \A x \in Requests : Claims[x] = Reservation(x) /\ Claims[x] \in Nat /\ SequenceOf[x] = task[x].seq
      BY ClaimsNat
    <2>4. A \subseteq Members(tasks) /\ IsFiniteSet(A)
      <3>1. A \subseteq Members(tasks)
        BY DEF Sound
      <3>2. IsFiniteSet(Members(tasks))
        BY MembersFinite
      <3> HIDE DEF A
      <3> QED BY <3>1, <3>2, FS_Subset
    <2>5. reserved = Total(Claims, A)
      BY <1>0, ReserveSum, Zenon
    <2>6. reserved \in Nat /\ required \in Nat
      <3>1. \A x \in A : Claims[x] \in Nat
        BY <1>0, <2>3
      <3>2. Total(Claims, A) \in Nat
        BY <2>4, <3>1, TotalNat
      <3> QED BY <1>0, <2>3, <2>5, <3>2
    <2>7. Total(Claims, A \cup {r}) = reserved + required
      <3>1. \A x \in A : Claims[x] \in Int /\ Claims[x] = Claims[x]
        BY <1>0, <2>3
      <3>2. Claims[r] \in Int /\ Claims[r] = required
        BY <1>0, <2>3
      <3> HIDE DEF A, required
      <3>3. Total(Claims, A \cup {r}) = Total(Claims, A) + Claims[r]
        BY <1>2, <2>4, <3>1, <3>2, TotalAdd
      <3> QED BY <2>5, <3>2, <3>3
    <2>8. reserved + required + Total(Lengths(left), (1..rig.slots) \ keep) <= rig.capacity
      <3>1. CacheTyped
        BY DEF Typed
      <3> HIDE DEF reserved, required, keep
      <3> QED BY <1>0, <1>2, <2>6, <3>1, EvictFits
    <2>9. Idlers(A \cup {r}) = (1..rig.slots) \ keep
      BY <1>0, <2>3 DEF Idlers
    <2>10. Afford(A \cup {r}, left)
      <3> HIDE DEF reserved, required, keep, left, A
      <3>1. Total(Claims, A \cup {r}) + Total(Lengths(left), Idlers(A \cup {r})) <= rig.capacity
        BY <2>7, <2>8, <2>9
      <3> QED BY <3>1 DEF Afford
    <2> HIDE DEF b, left, A
    <2> QED BY <1>2, <2>2, <2>10 DEF Snug
  <1>3. \/ b = a
        \/ b = [a EXCEPT !.rejected = @ \cup {r}]
        \/ b = [a EXCEPT !.full = TRUE]
        \/ /\ r \notin A /\ CanAdmit(reserved, required)
           /\ b = [a EXCEPT !.admitted = @ \cup {r}, !.cells = left, !.runnable = Append(@, r)]
    BY Zenon DEF AdmitOne
  <1> HIDE DEF b, left, reserved, required
  <1>4. CASE b = a
    BY <1>1, <1>4
  <1>5. CASE b = [a EXCEPT !.rejected = @ \cup {r}]
    BY <1>1, <1>5 DEF AdmissionType
  <1>6. CASE b = [a EXCEPT !.full = TRUE]
    BY <1>1, <1>6 DEF AdmissionType
  <1>7. CASE /\ r \notin A /\ CanAdmit(reserved, required)
             /\ b = [a EXCEPT !.admitted = @ \cup {r}, !.cells = left, !.runnable = Append(@, r)]
    <2>1. b.admitted = A \cup {r} /\ b.cells = left /\ b.runnable = Append(a.runnable, r)
      BY <1>7 DEF AdmissionType
    <2> QED BY <1>2, <1>7, <2>1
  <1> QED BY <1>3, <1>4, <1>5, <1>6, <1>7

\* The whole round.
LEMMA AdmissionSnug ==
  ASSUME Typed, NEW tasks \in Seq(Requests), Afford(Admitted(tasks), kv)
  PROVE  Snug(Admission(tasks))
  <1> DEFINE T == {a \in AdmissionType : Sound(tasks, a) /\ Snug(a)}
  <1>1. NoneYet(tasks) \in T
    <2> DEFINE none == NoneYet(tasks)
    <2>1. /\ none \in AdmissionType /\ Sound(tasks, none)
          /\ none.admitted = Admitted(tasks) /\ none.cells = kv
          /\ Members(none.runnable) = {r \in Admitted(tasks) : ~Off(r)}
      BY NoneYetSound
    <2> HIDE DEF none
    <2>2. Snug(none)
      BY <2>1 DEF Snug
    <2> QED BY <2>1, <2>2 DEF none
  <1>2. \A r \in Members(tasks) : \A a \in T : AdmitOne(a, r) \in T
    BY AdmitOneSound, AdmitOneSnug
  <1> HIDE DEF T
  <1>3. Admission(tasks) \in T
    BY <1>1, <1>2, AdmissionStays
  <1> QED BY <1>3 DEF T

\* The tasks that hold a grant, and what they and the idle sequences need.
Guests == {r \in Requests : Queued(r) /\ task[r].admitted}
Afforded == rig.capacity > 0 /\ pc \notin {"failing", "ended"} => Afford(Guests, kv)
\* How many cells a started task has, while it runs and once it is over.
SizedOf(t, c, over, margin) ==
    /\ Len(c) = t.nPos
    /\ ~t.promptDone => t.nPos = t.promptPos
    /\ t.promptDone /\ ~over => t.nPos + 1 = Len(t.prompt) + t.generated
    /\ over => t.nPos <= Len(t.prompt) + t.max + margin
Sized == \A r \in Requests : Queued(r) /\ task[r].initialized =>
             SizedOf(task[r], kv[task[r].seq], r \in work.done, rig.margin)
\* Drafts are short, and nothing is granted or generated too early.
ModestOf(t, place, margin) ==
    /\ Len(t.spec) <= margin
    /\ place = "prepared" => ~t.admitted
    /\ place \in {"prepared", "draining", "drained"} /\ ~t.promptDone => t.generated = 0
Modest == \A r \in Requests : ModestOf(task[r], at[r], rig.margin)
\* How far the thread is with whoever holds a grant.
Staged ==
    rig.capacity > 0 => \A r \in Guests :
        /\ pc = "ready" => r \in Members(work.tasks) /\ (r \in Members(work.runnable) \/ Off(r))
        /\ pc = "build" => r \in Members(work.tasks) /\ (task[r].initialized \/ Off(r))
        /\ pc \in {"decode", "finish"} => task[r].initialized
Pool == Afforded /\ Sized /\ Modest /\ Staged

LEMMA GuestsFinite ==
  ASSUME Typed
  PROVE  Guests \in SUBSET Requests /\ IsFiniteSet(Guests) /\ Guests = Admitted(active)
  <1>1. active \in Seq(Requests)
    BY DEF Typed, ThreadTyped
  <1>2. IsFiniteSet(Members(active))
    BY <1>1, MembersFinite
  <1>3. Members(active) \subseteq Requests
    BY <1>1 DEF Members
  <1>4. Guests = Admitted(active)
    BY <1>3 DEF Guests, Queued, Admitted
  <1>5. Guests \subseteq Members(active)
    BY DEF Guests, Queued
  <1>6. IsFiniteSet(Guests)
    BY <1>2, <1>5, FS_Subset
  <1>7. Guests \in SUBSET Requests
    BY DEF Guests
  <1> QED BY <1>4, <1>6, <1>7

\* A started task stays within its grant.
LEMMA WithinGrant ==
  ASSUME Kernel, Pool, NEW r \in Requests, Queued(r), task[r].initialized
  PROVE  Len(kv[task[r].seq]) <= Reservation(r)
  <1> DEFINE t == task[r]
             p == Len(t.prompt)
  <1>1. /\ t \in TaskType /\ rig.margin \in Nat
    BY RigAssumption DEF Kernel, Typed, CallersTyped, CacheTyped
  <1>2. /\ t.promptPos \in Nat /\ t.nPos \in Nat /\ t.generated \in Nat /\ t.max \in Nat /\ p \in Nat
    <2>1. p \in Nat
      BY <1>1, TextLengths
    <2> QED BY <1>1, <2>1 DEF TaskType
  <1>3. t.promptPos <= p /\ t.generated <= t.max
    BY DEF Kernel, Metered
  <1>4. SizedOf(t, kv[t.seq], r \in work.done, rig.margin)
    BY DEF Pool, Sized
  <1>5. Reservation(r) = p + t.max + rig.margin
    BY DEF Reservation
  <1> HIDE DEF p
  <1>6. CASE r \in work.done
    BY <1>4, <1>5, <1>6 DEF SizedOf, p
  <1>7. CASE r \notin work.done /\ t.promptDone
    <2>1. t.nPos + 1 = p + t.generated /\ Len(kv[t.seq]) = t.nPos
      BY <1>4, <1>7 DEF SizedOf, p
    <2> DEFINE N == t.nPos
               G == t.generated
               M == t.max
    <2>2. N \in Nat /\ G \in Nat /\ M \in Nat /\ G <= M /\ N + 1 = p + G
      BY <1>2, <1>3, <2>1
    <2>3. Reservation(r) = p + M + rig.margin /\ Len(kv[t.seq]) = N
      BY <1>5, <2>1
    <2> HIDE DEF N, G, M
    <2> QED BY <1>1, <1>2, <2>2, <2>3
  <1>8. CASE ~t.promptDone
    <2>1. t.nPos = t.promptPos /\ Len(kv[t.seq]) = t.nPos
      BY <1>4, <1>8 DEF SizedOf
    <2> QED BY <1>1, <1>2, <1>3, <1>5, <2>1
  <1> QED BY <1>6, <1>7, <1>8

\* Some of those that hold a grant leave.
Leaving(O, c, t2) ==
    /\ O \subseteq Guests /\ c \in [1..rig.slots -> Seq(Nat)]
    /\ \A r \in Guests : t2[r].prompt = task[r].prompt /\ t2[r].max = task[r].max /\ t2[r].seq = task[r].seq
    /\ \A s \in 1..rig.slots : (\A r \in Guests : task[r].seq # s) => c[s] = kv[s] \/ c[s] = <<>>
    /\ \A r \in O : Len(c[task[r].seq]) <= Reservation(r)
LEMMA AffordStep ==
  ASSUME Kernel, Afford(Guests, kv), NEW O, Leaving(O, kv', task'), Guests' = Guests \ O, rig' = rig
  PROVE  Afford(Guests, kv)'
  <1> DEFINE n == rig.slots
             A == Guests
             f == SequenceOf
             g == Lengths(kv)
             g2 == [s \in 1..n |-> Len(kv'[s])]
             h == Claims
             h2 == [r \in Requests |-> Len(task'[r].prompt) + task'[r].max + rig.margin]
  <1>0. Typed /\ Seated /\ Alive
    BY DEF Kernel
  <1>1. n \in Nat /\ rig.capacity \in Nat /\ kv \in [1..n -> Seq(Nat)] /\ kv' \in [1..n -> Seq(Nat)]
    BY <1>0, RigAssumption DEF Typed, CacheTyped, Leaving
  <1>2. IsFiniteSet(A) /\ A \in SUBSET Requests /\ O \in SUBSET A
    BY <1>0, GuestsFinite DEF Leaving
  <1>3. \A a \in A : Queued(a) /\ Going(a) /\ f[a] = task[a].seq /\ f[a] \in 1..n
    <2>1. \A a \in A : a \in Requests /\ Queued(a)
      BY DEF Guests
    <2> QED BY <1>0, <2>1, QueuedSeq, ClaimsNat
  <1>4. \A a, b \in A : f[a] = f[b] => a = b
    BY <1>0, <1>2, <1>3, OwnSeq
  <1>5. \A a \in A : h[a] \in Nat /\ h[a] = Reservation(a) /\ h2[a] = h[a]
    <2>1. \A a \in A : h[a] \in Nat /\ h[a] = Reservation(a)
      BY <1>0, <1>2, ClaimsNat
    <2>2. \A a \in A : h2[a] = Reservation(a)
      BY <1>2 DEF Leaving, Reservation
    <2> QED BY <2>1, <2>2
  <1>6. \A s \in 1..n : g[s] \in Nat /\ g2[s] \in Nat /\ g[s] = Len(kv[s]) /\ g2[s] = Len(kv'[s])
    BY <1>1 DEF Lengths
  <1>7. \A s \in 1..n : (\A a \in A : f[a] # s) => g2[s] <= g[s]
    <2> SUFFICES ASSUME NEW s \in 1..n, \A a \in A : f[a] # s PROVE g2[s] <= g[s]
      OBVIOUS
    <2>1. kv'[s] = kv[s] \/ kv'[s] = <<>>
      BY <1>3 DEF Leaving
    <2>2. kv'[s] = <<>> => Len(kv'[s]) = 0
      BY EmptyLen
    <2> QED BY <1>6, <2>1, <2>2
  <1>8. \A a \in O : g2[f[a]] <= h[a]
    BY <1>2, <1>3, <1>5, <1>6 DEF Leaving
  <1>9. Total(h, A) + Total(g, (1..n) \ {f[a] : a \in A}) <= rig.capacity
    BY DEF Afford, Idlers
  <1>10. /\ Afford(Guests, kv)' <=> Total(h2, A \ O) + Total(g2, (1..n) \ {SequenceOf'[a] : a \in A \ O}) <= rig.capacity
    BY DEF Afford, Idlers, Claims, Lengths, Reservation
  <1>11. {SequenceOf'[a] : a \in A \ O} = {f[a] : a \in A \ O}
    <2>1. \A a \in A : SequenceOf'[a] = task'[a].seq
      BY <1>2 DEF SequenceOf
    <2> QED BY <1>3, <2>1 DEF Leaving
  <1> HIDE DEF n, A, f, g, g2, h, h2
  <1>12. \A a \in A : f[a] \in 1..n /\ h[a] \in Nat /\ h2[a] = h[a]
    BY <1>3, <1>5
  <1>13. \A s \in 1..n : g[s] \in Nat /\ g2[s] \in Nat
    BY <1>6
  <1>14. Total(h2, A \ O) + Total(g2, (1..n) \ {f[a] : a \in A \ O}) <= rig.capacity
    <2>1. MovesGrants(n, A, O, f, g, g2, h, h2, rig.capacity)
      BY <1>1, <1>2, <1>4, <1>7, <1>8, <1>9, <1>12, <1>13 DEF MovesGrants
    <2> QED BY <2>1, AffordMoved
  <1> QED BY <1>10, <1>11, <1>14

\* Nobody holds a grant and the cache is empty.
LEMMA NothingHeld ==
  ASSUME NEW n \in Nat, NEW h, NEW g, \A s \in 1..n : g[s] = 0
  PROVE  Total(h, {}) + Total(g, 1..n) = 0
  <1>1. IsFiniteSet(1..n)
    BY FS_Interval
  <1>2. Total(g, 1..n) = 0
    BY <1>1, TotalZero
  <1>3. Total(h, {}) = 0
    BY TotalEmpty
  <1> QED BY <1>2, <1>3

LEMMA PoolInit == Init => Pool
  <1> SUFFICES ASSUME Init PROVE Pool
    OBVIOUS
  <1>1. Typed /\ rig.slots \in Nat /\ rig.capacity \in Nat /\ rig.margin \in Nat
    BY KernelInit, RigAssumption DEF Kernel, Typed, CacheTyped
  <1>2. \A r \in Requests : ~Queued(r)
    BY DEF Init, Queued, Members
  <1>3. Guests = {}
    BY <1>2 DEF Guests
  <1>4. Afford(Guests, kv)
    <2> DEFINE g == Lengths(kv)
    <2>1. \A s \in 1..rig.slots : g[s] = 0
      BY DEF Init, CacheInit, Lengths
    <2> HIDE DEF g
    <2>2. Total(Claims, {}) + Total(g, 1..rig.slots) = 0
      BY <1>1, <2>1, NothingHeld
    <2>3. Idlers({}) = 1..rig.slots
      BY DEF Idlers
    <2>4. Total(Claims, {}) + Total(g, Idlers({})) <= rig.capacity
      BY <1>1, <2>2, <2>3
    <2> QED BY <1>3, <2>4 DEF Afford, g
  <1>5. Modest
    BY <1>1 DEF Init, CacheInit, Modest, ModestOf, NoTask
  <1>6. Sized
    BY <1>2 DEF Sized
  <1>7. Staged
    BY <1>3 DEF Staged
  <1> QED BY <1>4, <1>5, <1>6, <1>7 DEF Pool, Afforded

\* Sized, Modest and Staged of the next state, spelled out.
LEMMA SizedStep ==
  ASSUME rig' = rig,
         \A r \in Requests : Queued(r)' /\ task'[r].initialized =>
            SizedOf(task'[r], kv'[task'[r].seq], r \in work'.done, rig.margin)
  PROVE  Sized'
  <1>1. \A r \in Requests : SizedOf(task[r], kv[task[r].seq], r \in work.done, rig.margin)'
                              <=> SizedOf(task'[r], kv'[task'[r].seq], r \in work'.done, rig.margin)
    BY DEF SizedOf
  <1> QED BY <1>1 DEF Sized
LEMMA ModestStep ==
  ASSUME rig' = rig, \A r \in Requests : ModestOf(task'[r], at'[r], rig.margin)
  PROVE  Modest'
  BY DEF Modest, ModestOf
LEMMA StagedStep ==
  ASSUME rig' = rig,
         rig.capacity > 0 => \A r \in Guests' :
            /\ pc' = "ready" => r \in Members(work'.tasks) /\ (r \in Members(work'.runnable) \/ cancel'[r] \/ stop'[r])
            /\ pc' = "build" => r \in Members(work'.tasks) /\ (task'[r].initialized \/ cancel'[r] \/ stop'[r])
            /\ pc' \in {"decode", "finish"} => task'[r].initialized
  PROVE  Staged'
  BY DEF Staged, Members, Off

\* What counts for the pool is the same.
Measured(t, u) ==
    /\ u.prompt = t.prompt /\ u.max = t.max /\ u.seq = t.seq /\ u.admitted = t.admitted
    /\ u.initialized = t.initialized /\ u.promptPos = t.promptPos /\ u.promptDone = t.promptDone
    /\ u.nPos = t.nPos /\ u.generated = t.generated
LEMMA SizedSame ==
  ASSUME NEW t, NEW u, Measured(t, u), NEW c, NEW over, NEW m, SizedOf(t, c, over, m)
  PROVE  SizedOf(u, c, over, m)
  BY DEF Measured, SizedOf

\* Steps that leave the cells and those that are queued alone.
Quiet ==
    /\ rig' = rig /\ kv' = kv /\ work' = work
    /\ pc' = pc \/ pc' \notin {"ready", "build", "decode", "finish"}
    /\ pc \in {"failing", "ended"} => pc' = pc
    /\ \A q \in Requests : Queued(q) =>
         Queued(q)' /\ Measured(task[q], task'[q]) /\ (cancel[q] => cancel'[q]) /\ (stop[q] => stop'[q])
    /\ \A q \in Requests : Queued(q)' /\ ~Queued(q) => ~task'[q].admitted /\ ~task'[q].initialized
LEMMA PoolQuiet ==
  ASSUME Kernel, Pool, Quiet, Modest'
  PROVE  Pool'
  <1>0. Typed
    BY DEF Kernel
  <1>1. rig' = rig /\ kv' = kv /\ work' = work
    BY DEF Quiet
  <1>2. Guests' = Guests
    <2>1. Guests' = {q \in Requests : Queued(q)' /\ task'[q].admitted}
      BY DEF Guests
    <2>2. \A q \in Requests : Queued(q)' /\ task'[q].admitted <=> Queued(q) /\ task[q].admitted
      BY DEF Quiet, Measured
    <2> QED BY <2>1, <2>2 DEF Guests
  <1>3. Afforded'
    <2> SUFFICES ASSUME rig.capacity > 0, pc' \notin {"failing", "ended"} PROVE Afford(Guests, kv)'
      BY <1>1 DEF Afforded
    <2>1. Afford(Guests, kv)
      BY DEF Quiet, Pool, Afforded
    <2>2. Leaving({}, kv', task')
      <3>1. \A r \in Guests : Measured(task[r], task'[r])
        BY DEF Quiet, Guests
      <3>2. kv \in [1..rig.slots -> Seq(Nat)]
        BY <1>0 DEF Typed, CacheTyped
      <3> QED BY <1>1, <3>1, <3>2 DEF Leaving, Measured
    <2> QED BY <1>1, <1>2, <2>1, <2>2, AffordStep
  <1>4. Sized'
    <2> SUFFICES ASSUME NEW r \in Requests, Queued(r)', task'[r].initialized
                 PROVE  SizedOf(task'[r], kv'[task'[r].seq], r \in work'.done, rig.margin)
      BY <1>1, SizedStep
    <2>1. Queued(r) /\ Measured(task[r], task'[r])
      BY DEF Quiet
    <2>2. task[r].initialized /\ task'[r].seq = task[r].seq
      BY <2>1 DEF Measured
    <2>3. SizedOf(task[r], kv[task[r].seq], r \in work.done, rig.margin)
      BY <2>1, <2>2 DEF Pool, Sized
    <2> QED BY <1>1, <2>1, <2>2, <2>3, SizedSame
  <1>5. Staged'
    <2>1. \A r \in Guests : /\ task'[r].initialized = task[r].initialized
                            /\ Off(r) => cancel'[r] \/ stop'[r]
      BY DEF Quiet, Guests, Measured, Off
    <2>2. pc' \in {"ready", "build", "decode", "finish"} => pc' = pc
      BY DEF Quiet
    <2> QED BY <1>1, <1>2, <2>1, <2>2, StagedStep DEF Pool, Staged
  <1> QED BY <1>3, <1>4, <1>5 DEF Pool

\* Steps in which some tasks get their last event and leave, their cells
\* cleared or kept.
Leaves(out) ==
    /\ Untouched /\ work.done \subseteq out /\ work'.done = {}
    /\ \A q \in Requests : Queued(q)' <=> Queued(q) /\ q \notin out
    /\ \A q \in Requests : /\ Steady(task[q], task'[q]) /\ task'[q].admitted = task[q].admitted
                           /\ task'[q].spec = task[q].spec
    /\ kv' \in [1..rig.slots -> Seq(Nat)]
    /\ \A s \in 1..rig.slots : \/ kv'[s] = kv[s]
                               \/ kv'[s] = <<>> /\ \E r \in out : r \in Requests /\ Queued(r) /\ task[r].seq = s
    /\ rig.capacity > 0 /\ pc' \notin {"failing", "ended"} =>
         /\ pc \notin {"failing", "ended"}
         /\ \A r \in Guests : r \in out => Len(kv'[task[r].seq]) <= Reservation(r)
LEMMA PoolLeaves ==
  ASSUME Kernel, Pool, NEW out, Leaves(out), Staged'
  PROVE  Pool'
  <1>0. Typed /\ Seated /\ Alive /\ Metered
    BY DEF Kernel
  <1>1. rig' = rig /\ at' = at
    BY DEF Leaves, Untouched
  <1>2. \A q \in Requests : Measured(task[q], task'[q]) /\ task'[q].spec = task[q].spec
    BY DEF Leaves, Steady, Measured
  <1> DEFINE O == Guests \cap out
  <1>3. Guests' = Guests \ O
    <2>1. Guests' = {q \in Requests : Queued(q)' /\ task'[q].admitted}
      BY DEF Guests
    <2>2. \A q \in Requests : Queued(q)' /\ task'[q].admitted <=> Queued(q) /\ task[q].admitted /\ q \notin out
      BY DEF Leaves
    <2> QED BY <2>1, <2>2 DEF Guests
  <1>4. Afforded'
    <2> SUFFICES ASSUME rig.capacity > 0, pc' \notin {"failing", "ended"} PROVE Afford(Guests, kv)'
      BY <1>1 DEF Afforded
    <2>1. Afford(Guests, kv)
      BY DEF Leaves, Pool, Afforded
    <2>2. \A r \in Guests : Measured(task[r], task'[r])
      BY <1>2 DEF Guests
    <2>3. \A s \in 1..rig.slots : (\A r \in Guests : task[r].seq # s) => kv'[s] = kv[s] \/ kv'[s] = <<>>
      BY DEF Leaves
    <2>4. \A r \in O : Len(kv'[task[r].seq]) <= Reservation(r)
      BY DEF Leaves
    <2>5. kv' \in [1..rig.slots -> Seq(Nat)]
      BY DEF Leaves
    <2>6. O \subseteq Guests
      OBVIOUS
    <2> HIDE DEF O
    <2>7. Leaving(O, kv', task')
      BY <2>2, <2>3, <2>4, <2>5, <2>6 DEF Leaving, Measured
    <2> QED BY <1>1, <1>3, <2>1, <2>7, AffordStep
  <1>5. Sized'
    <2> SUFFICES ASSUME NEW r \in Requests, Queued(r)', task'[r].initialized
                 PROVE  SizedOf(task'[r], kv'[task'[r].seq], r \in work'.done, rig.margin)
      BY <1>1, SizedStep
    <2>1. Queued(r) /\ r \notin out /\ r \notin work.done /\ r \notin work'.done
      BY DEF Leaves
    <2>2. task[r].initialized /\ task'[r].seq = task[r].seq /\ Measured(task[r], task'[r])
      BY <1>2 DEF Measured
    <2>3. SizedOf(task[r], kv[task[r].seq], r \in work.done, rig.margin)
      BY <2>1, <2>2 DEF Pool, Sized
    <2>4. kv'[task[r].seq] = kv[task[r].seq]
      <3>1. Going(r) /\ task[r].seq \in 1..rig.slots
        BY <1>0, <2>1, QueuedSeq
      <3>2. \A q \in Requests : Queued(q) /\ q \in out => task[q].seq # task[r].seq
        <4> SUFFICES ASSUME NEW q \in Requests, Queued(q), q \in out, task[q].seq = task[r].seq PROVE FALSE
          OBVIOUS
        <4>1. Going(q)
          BY <1>0, QueuedSeq
        <4>2. q = r
          BY <1>0, <3>1, <4>1, OwnSeq
        <4> QED BY <2>1, <4>2
      <3> QED BY <3>1, <3>2 DEF Leaves
    <2>5. /\ Len(kv'[task'[r].seq]) = task'[r].nPos
          /\ ~task'[r].promptDone => task'[r].nPos = task'[r].promptPos
          /\ task'[r].promptDone => task'[r].nPos + 1 = Len(task'[r].prompt) + task'[r].generated
      BY <2>1, <2>2, <2>3, <2>4 DEF SizedOf, Measured
    <2> QED BY <2>1, <2>5 DEF SizedOf
  <1>6. Modest'
    <2>1. \A r \in Requests : ModestOf(task[r], at[r], rig.margin)
      BY DEF Pool, Modest
    <2>2. \A r \in Requests : /\ task'[r].spec = task[r].spec /\ task'[r].admitted = task[r].admitted
                              /\ task'[r].promptDone = task[r].promptDone /\ task'[r].generated = task[r].generated
      BY <1>2 DEF Measured
    <2>3. \A r \in Requests : ModestOf(task'[r], at'[r], rig.margin)
      BY <1>1, <2>1, <2>2 DEF ModestOf
    <2> QED BY <1>1, <2>3, ModestStep
  <1> QED BY <1>4, <1>5, <1>6 DEF Pool

LEMMA PoolBuild ==
  ASSUME Kernel, Recall, Pool, Build PROVE Pool'
  <1>0. Typed /\ Seated /\ Alive /\ Metered /\ Fresh
    BY DEF Kernel, Recall
  <1>1. PICK off, take : Builds(off, take)
    BY <1>0, BuildOnce
  <1>2. /\ Untouched /\ pc' \in {"top", "decode"}
        /\ off = {r \in Members(work.tasks) : Off(r)} /\ active' = Without(active, off)
        /\ work' = [NoWork EXCEPT !.tasks = Without(work.tasks, off), !.take = take]
        /\ take \in [Requests -> Nat]
        /\ task' = [r \in Requests |-> IF r \in off THEN Told(r, Done) ELSE task[r]]
        /\ kv' \in [1..rig.slots -> Seq(Nat)]
        /\ \A s \in 1..rig.slots : \/ kv'[s] = kv[s]
                                   \/ kv'[s] = <<>> /\ \E r \in off : task[r].seq = s /\ cancel[r]
        /\ \A s \in 1..rig.slots : (\E r \in off : task[r].seq = s /\ cancel[r]) => kv'[s] = <<>>
    BY <1>1 DEF Builds
  <1>3. /\ active \in Seq(Requests) /\ work.tasks \in Seq(Requests) /\ Done \in Event /\ pc = "build"
        /\ work.done = {} /\ rig.slots \in Nat
    BY <1>0, RigAssumption DEF Typed, CacheTyped, ThreadTyped, WorkType, Event, Build, Alive
  <1>4. \A q \in Requests : Queued(q)' <=> Queued(q) /\ q \notin off
    <2>1. Members(active') = Members(active) \ off
      BY <1>2, <1>3, WithoutMembers
    <2>2. Members(active)' = Members(active')
      BY DEF Members
    <2> QED BY <2>1, <2>2 DEF Queued
  <1>5. work'.done = {}
    BY <1>2, NoWorkType DEF WorkType
  <1>6. rig' = rig
    BY <1>2 DEF Untouched
  <1>7. \A q \in Requests : /\ Steady(task[q], task'[q]) /\ task'[q].admitted = task[q].admitted
                            /\ task'[q].spec = task[q].spec
    BY <1>0, <1>2, <1>3, SteadyTold, SteadySame
  <1>8. off \subseteq Members(active) /\ Members(active) \subseteq Requests
    <2>1. Members(active) \subseteq Requests
      BY <1>3 DEF Members
    <2> QED BY <1>0, <1>2, <2>1 DEF Alive
  <1>9. ASSUME NEW r \in Guests, r \in off
        PROVE  Len(kv'[task[r].seq]) <= Reservation(r)
    <2>1. r \in Requests /\ Queued(r) /\ task[r].seq \in 1..rig.slots /\ Going(r)
      BY <1>0, QueuedSeq DEF Guests
    <2>2. Reservation(r) \in Nat
      BY <1>0, <2>1, ClaimsNat
    <2>3. CASE cancel[r]
      <3>1. kv'[task[r].seq] = <<>>
        BY <1>2, <1>9, <2>1, <2>3
      <3> QED BY <2>2, <3>1, EmptyLen
    <2>4. CASE ~cancel[r]
      <3>1. stop[r] /\ task[r].initialized
        BY <1>0, <1>2, <1>9, <2>1, <2>4 DEF Off, Fresh
      <3>2. kv'[task[r].seq] = kv[task[r].seq]
        <4>1. \A q \in off : task[q].seq = task[r].seq => q = r
          <5> SUFFICES ASSUME NEW q \in off, task[q].seq = task[r].seq PROVE q = r
            OBVIOUS
          <5>1. q \in Requests /\ Queued(q)
            BY <1>8 DEF Queued
          <5>2. Going(q)
            BY <1>0, <5>1, QueuedSeq
          <5> QED BY <1>0, <2>1, <5>1, <5>2, OwnSeq
        <4> QED BY <1>2, <2>1, <2>4, <4>1
      <3> QED BY <2>1, <3>1, <3>2, WithinGrant
    <2> QED BY <2>3, <2>4
  <1>10. Leaves(off)
    <2>1. \A s \in 1..rig.slots : \/ kv'[s] = kv[s]
                                  \/ kv'[s] = <<>> /\ \E r \in off : r \in Requests /\ Queued(r) /\ task[r].seq = s
      BY <1>2, <1>8 DEF Queued
    <2> QED BY <1>2, <1>3, <1>4, <1>5, <1>7, <1>9, <2>1 DEF Leaves
  <1>11. Staged'
    <2> SUFFICES ASSUME rig.capacity > 0, NEW r \in Guests', pc' \in {"decode", "finish"}
                 PROVE  task'[r].initialized
      BY <1>2, <1>6, StagedStep
    <2>1. r \in Requests /\ Queued(r)' /\ task'[r].admitted
      BY DEF Guests
    <2>2. Queued(r) /\ r \notin off /\ task[r].admitted /\ task'[r].initialized = task[r].initialized
      BY <1>4, <1>7, <2>1 DEF Steady
    <2>3. r \in Guests
      BY <2>1, <2>2 DEF Guests
    <2>4. r \in Members(work.tasks) /\ (task[r].initialized \/ Off(r))
      BY <1>3, <2>3 DEF Pool, Staged
    <2> QED BY <1>2, <2>2, <2>4
  <1> QED BY <1>10, <1>11, PoolLeaves

LEMMA PoolRetires ==
  ASSUME Kernel, Recall, Pool, Finish \/ FailAll PROVE Pool'
  <1>0. Typed /\ Seated /\ Alive /\ Metered
    BY DEF Kernel
  <1>1. PICK out, e : Retires(out, e)
    BY <1>0, RetiresOnce
  <1>2. /\ Untouched /\ kv' = kv /\ e \in Ends /\ out \subseteq Members(active)
        /\ Members(active') = Members(active) \ out
        /\ task' = [r \in Requests |-> IF r \in out THEN Told(r, e) ELSE task[r]]
        /\ work' = NoWork /\ pc' \in {"top", "ended"} /\ work.done \subseteq out
    BY <1>1 DEF Retires
  <1>3. e \in Event /\ kv \in [1..rig.slots -> Seq(Nat)] /\ rig' = rig
    BY <1>0, <1>2 DEF Ends, Event, Typed, CacheTyped, Untouched
  <1>4. \A q \in Requests : Queued(q)' <=> Queued(q) /\ q \notin out
    <2>1. Members(active)' = Members(active')
      BY DEF Members
    <2> QED BY <1>2, <2>1 DEF Queued
  <1>5. work'.done = {}
    BY <1>2, NoWorkType
  <1>6. \A q \in Requests : /\ Steady(task[q], task'[q]) /\ task'[q].admitted = task[q].admitted
                            /\ task'[q].spec = task[q].spec
    BY <1>0, <1>2, <1>3, SteadyTold, SteadySame
  <1>7. pc' \notin {"failing", "ended"} => pc = "finish" /\ Finish
    BY DEF Finish, FailAll
  <1>8. ASSUME rig.capacity > 0, pc' \notin {"failing", "ended"}, NEW r \in Guests, r \in out
        PROVE  Len(kv'[task[r].seq]) <= Reservation(r)
    <2>1. r \in Requests /\ Queued(r) /\ task[r].admitted
      BY DEF Guests
    <2>2. task[r].initialized
      BY <1>7, <1>8 DEF Pool, Staged
    <2>3. r \in work.done
      <3>1. Members(active') = Members(active) \ work.done
        <4>1. active \in Seq(Requests)
          BY <1>0 DEF Typed, ThreadTyped
        <4>2. active' = Without(active, work.done)
          BY <1>7, <1>8 DEF Finish
        <4> QED BY <4>1, <4>2, WithoutMembers
      <3> QED BY <1>2, <1>8, <3>1
    <2> QED BY <1>2, <2>1, <2>2, <2>3, WithinGrant
  <1>9. Leaves(out)
    BY <1>2, <1>3, <1>4, <1>5, <1>6, <1>7, <1>8 DEF Leaves
  <1>10. Staged'
    BY <1>2, <1>3, StagedStep
  <1> QED BY <1>9, <1>10, PoolLeaves

\* A caller's step is about its own task.
LEMMA PoolCaller ==
  ASSUME Kernel, Pool, NEW r \in Requests, Others(r), rig' = rig, kv' = kv, work' = work,
         pc' = pc \/ (pc = "asleep" /\ pc' = "collect"),
         \A q \in Requests : q # r => (Queued(q)' <=> Queued(q)),
         Queued(r) => /\ Queued(r)' /\ Measured(task[r], task'[r])
                      /\ (cancel[r] => cancel'[r]) /\ (stop[r] => stop'[r]),
         Queued(r)' /\ ~Queued(r) => ~task'[r].admitted /\ ~task'[r].initialized,
         ModestOf(task'[r], at'[r], rig.margin)
  PROVE  Pool'
  <1>1. \A q \in Requests : q # r => task'[q] = task[q] /\ at'[q] = at[q] /\ cancel'[q] = cancel[q] /\ stop'[q] = stop[q]
    BY DEF Others
  <1>2. Modest'
    <2>1. \A q \in Requests : ModestOf(task[q], at[q], rig.margin)
      BY DEF Pool, Modest
    <2>2. \A q \in Requests : ModestOf(task'[q], at'[q], rig.margin)
      BY <1>1, <2>1
    <2> QED BY <2>2, ModestStep
  <1>3. \A q \in Requests : Measured(task[q], task[q])
    BY DEF Measured
  <1>4. Quiet
    BY <1>1, <1>3 DEF Quiet
  <1> QED BY <1>2, <1>4, PoolQuiet

LEMMA PoolSlots ==
  ASSUME Kernel, Pool, NEW r \in Requests, UNCHANGED schedVars, AcquireSlot(r, Healthy) \/ PrepareInference(r)
  PROVE  Pool'
  <1>0. Typed /\ Seated /\ Alive /\ rig.margin \in Nat
    BY RigAssumption DEF Kernel, Typed, CacheTyped
  <1>1. rig' = rig /\ kv' = kv /\ work' = work /\ pc' = pc /\ active' = active
    BY DEF AcquireSlot, PrepareInference, schedVars
  <1>2. \A q \in Requests : (Queued(q)' <=> Queued(q))
    BY <1>1 DEF Queued, Members
  <1>3. ~Queued(r)
    BY <1>0 DEF Alive, AcquireSlot, PrepareInference
  <1>4. ModestOf(task[r], at[r], rig.margin)
    BY DEF Pool, Modest
  <1>5. CASE AcquireSlot(r, Healthy)
    <2>1. PICK s \in 1..rig.slots : task' = [task EXCEPT ![r].slot = s]
      BY <1>0, <1>5, SlotSet DEF AcquireSlot
    <2>2. task \in [Requests -> TaskType] /\ at \in [Requests -> Places]
      BY <1>0 DEF Typed, CallersTyped
    <2>3. Others(r) /\ at'[r] = "acquired"
      BY <1>5, <2>1, <2>2 DEF Others, AcquireSlot
    <2>4. task'[r].spec = task[r].spec
      BY <2>1, <2>2 DEF TaskType
    <2>5. ModestOf(task'[r], at'[r], rig.margin)
      BY <1>4, <2>3, <2>4 DEF ModestOf
    <2> QED BY <1>1, <1>2, <1>3, <2>3, <2>5, PoolCaller
  <1>6. CASE PrepareInference(r)
    <2>1. PICK own, best : Exchange(r, own, best) /\ Prepares(r, own)
      BY <1>0, <1>6, PreparesSlots
    <2>2. task \in [Requests -> TaskType] /\ at \in [Requests -> Places]
      BY <1>0 DEF Typed, CallersTyped
    <2>3. Others(r)
      BY <1>6, <2>1, <2>2 DEF Others, Prepares, PrepareInference
    <2>4. ModestOf(task'[r], at'[r], rig.margin)
      <3>1. CASE at' = [at EXCEPT ![r] = "leaving"] /\ task' = task
        BY <1>4, <2>2, <3>1 DEF ModestOf
      <3>2. CASE task' = [task EXCEPT ![r] = NewTask(r, own)]
        <4> DEFINE t == NewTask(r, own)
        <4>1. task'[r] = t
          BY <2>2, <3>2
        <4>2. t.spec = <<>> /\ t.generated = 0
          <5>1. Holding(r) /\ own \in 1..rig.slots /\ slots'[own] \in SlotType
            BY <1>6, <2>1 DEF PrepareInference, Holding, Exchange
          <5> HIDE DEF t
          <5> QED BY <1>0, <5>1, NewTaskType DEF t
        <4>3. ~t.admitted
          BY DEF NewTask, NoTask
        <4> HIDE DEF t
        <4>4. Len(t.spec) <= rig.margin
          BY <1>0, <4>2, EmptyLen
        <4> QED BY <4>1, <4>2, <4>3, <4>4 DEF ModestOf
      <3> QED BY <2>1, <3>1, <3>2 DEF Prepares
    <2> QED BY <1>1, <1>2, <1>3, <2>3, <2>4, PoolCaller
  <1> QED BY <1>5, <1>6

LEMMA PoolSubmit ==
  ASSUME Kernel, Recall, Pool, NEW r \in Requests, Submit(r)
  PROVE  Pool'
  <1>0. Typed /\ Seated /\ Alive /\ Fresh
    BY DEF Kernel, Recall
  <1>1. /\ rig' = rig /\ kv' = kv /\ cancel' = cancel /\ stop' = stop /\ work' = work
        /\ at' = [at EXCEPT ![r] = "draining"] /\ at[r] = "prepared"
        /\ pc' = pc \/ (pc = "asleep" /\ pc' = "collect")
        /\ \/ task' = [task EXCEPT ![r] = Told(r, Failed)] /\ active' = active
           \/ task' = task /\ active' = Append(active, r)
    BY DEF Submit, Told
  <1>2. task \in [Requests -> TaskType] /\ at \in [Requests -> Places] /\ active \in Seq(Requests)
    BY <1>0 DEF Typed, CallersTyped, ThreadTyped
  <1>3. Others(r) /\ at'[r] = "draining"
    BY <1>1, <1>2 DEF Others
  <1>4. ~Queued(r) /\ ~task[r].initialized
    BY <1>0, <1>1 DEF Alive, Fresh
  <1>5. \A q \in Requests : q # r => (Queued(q)' <=> Queued(q))
    <2>1. CASE active' = active
      BY <2>1 DEF Queued, Members
    <2>2. CASE active' = Append(active, r)
      <3>1. Members(active') = Members(active) \cup {r}
        BY <1>2, <2>2, AppendMembers
      <3>2. (Members(active))' = Members(active')
        BY DEF Members
      <3> QED BY <3>1, <3>2 DEF Queued
    <2> QED BY <1>1, <2>1, <2>2
  <1>6. /\ task'[r].spec = task[r].spec /\ task'[r].admitted = task[r].admitted
        /\ task'[r].promptDone = task[r].promptDone /\ task'[r].generated = task[r].generated
        /\ task'[r].initialized = task[r].initialized
    <2>1. Failed \in Event
      BY DEF Event
    <2>2. task'[r] = task[r] \/ task'[r] = Told(r, Failed)
      BY <1>1, <1>2
    <2>3. Steady(task[r], task'[r]) /\ task'[r].spec = task[r].spec /\ task'[r].admitted = task[r].admitted
      BY <1>0, <2>1, <2>2, SteadyTold, SteadySame
    <2> QED BY <2>3 DEF Steady
  <1>7. ModestOf(task[r], at[r], rig.margin)
    BY DEF Pool, Modest
  <1>8. ModestOf(task'[r], at'[r], rig.margin) /\ ~task'[r].admitted
    BY <1>1, <1>3, <1>6, <1>7 DEF ModestOf
  <1> QED BY <1>1, <1>3, <1>4, <1>5, <1>6, <1>8, PoolCaller

LEMMA PoolDrain ==
  ASSUME Kernel, Pool, NEW r \in Requests, Drain(r), UNCHANGED schedVars
  PROVE  Pool'
  <1>0. Typed /\ Seated
    BY DEF Kernel
  <1>1. rig' = rig /\ kv' = kv /\ work' = work /\ pc' = pc /\ active' = active /\ at[r] = "draining"
    BY DEF Drain, schedVars
  <1>2. \A q \in Requests : (Queued(q)' <=> Queued(q))
    BY <1>1 DEF Queued, Members
  <1>3. PICK event : Drains(r, event)
    BY <1>0, DrainOnce
  <1>4. /\ task \in [Requests -> TaskType] /\ at \in [Requests -> Places]
        /\ cancel \in [Requests -> BOOLEAN] /\ stop \in [Requests -> BOOLEAN]
    BY <1>0 DEF Typed, CallersTyped
  <1>5. Others(r)
    <2>1. \A q \in Requests : q # r => task'[q] = task[q]
      BY <1>3, <1>4 DEF Drains
    <2>2. \A q \in Requests : q # r => at'[q] = at[q]
      BY <1>3, <1>4 DEF Drains
    <2>3. \A q \in Requests : q # r => cancel'[q] = cancel[q] /\ stop'[q] = stop[q]
      BY <1>3, <1>4 DEF Drains
    <2> QED BY <2>1, <2>2, <2>3 DEF Others
  <1>6. Popped(task[r], task'[r])
    BY <1>3 DEF Drains
  <1>7. (cancel[r] => cancel'[r]) /\ (stop[r] => stop'[r])
    BY <1>3, <1>4 DEF Drains
  <1>8. Measured(task[r], task'[r])
    BY <1>6 DEF Popped, Measured
  <1>9. ModestOf(task[r], at[r], rig.margin)
    BY DEF Pool, Modest
  <1>10. at'[r] \in {"draining", "drained", "leaving"}
    BY <1>1, <1>3, <1>4 DEF Drains
  <1>11. ModestOf(task'[r], at'[r], rig.margin)
    BY <1>1, <1>6, <1>9, <1>10 DEF ModestOf, Popped
  <1> QED BY <1>1, <1>2, <1>5, <1>7, <1>8, <1>11, PoolCaller

LEMMA PoolLeaver ==
  ASSUME Kernel, Pool, NEW r \in Requests, UNCHANGED schedVars, UpdateSlot(r) \/ ReleaseSlot(r) \/ Disconnect(r)
  PROVE  Pool'
  <1>0. Typed /\ Alive /\ rig.margin \in Nat
    BY RigAssumption DEF Kernel, Typed, CacheTyped
  <1>1. rig' = rig /\ kv' = kv /\ work' = work /\ pc' = pc /\ active' = active
    BY DEF UpdateSlot, ReleaseSlot, Disconnect, schedVars
  <1>2. \A q \in Requests : (Queued(q)' <=> Queued(q))
    BY <1>1 DEF Queued, Members
  <1>3. /\ task \in [Requests -> TaskType] /\ at \in [Requests -> Places]
        /\ cancel \in [Requests -> BOOLEAN] /\ stop \in [Requests -> BOOLEAN]
    BY <1>0 DEF Typed, CallersTyped
  <1>4. ModestOf(task[r], at[r], rig.margin) /\ Measured(task[r], task[r])
    BY DEF Pool, Modest, Measured
  <1>5. CASE UpdateSlot(r)
    <2>1. Others(r) /\ at'[r] = "leaving" /\ task'[r] = task[r] /\ ~Queued(r)
      BY <1>0, <1>3, <1>5 DEF UpdateSlot, Others, Alive
    <2>2. ModestOf(task'[r], at'[r], rig.margin)
      BY <1>4, <2>1 DEF ModestOf
    <2> QED BY <1>1, <1>2, <2>1, <2>2, PoolCaller
  <1>6. CASE ReleaseSlot(r)
    <2>1. Others(r) /\ at'[r] = "over" /\ task'[r] = NoTask /\ ~Queued(r)
      BY <1>0, <1>3, <1>6 DEF ReleaseSlot, Others, Alive
    <2>2. ModestOf(NoTask, "over", rig.margin)
      BY <1>0 DEF ModestOf, NoTask
    <2> QED BY <1>1, <1>2, <2>1, <2>2, PoolCaller
  <1>7. CASE Disconnect(r)
    <2>1. Others(r) /\ at'[r] = at[r] /\ task'[r] = task[r] /\ cancel'[r] /\ stop'[r] = stop[r]
      BY <1>3, <1>7 DEF Disconnect, Others
    <2> QED BY <1>1, <1>2, <1>4, <2>1, PoolCaller
  <1> QED BY <1>5, <1>6, <1>7

\* Steps that touch neither cells nor tasks.
LEMMA PoolMoves ==
  ASSUME Kernel, Pool, (Top \/ Doze \/ Sleep \/ DecodeFails) \/ StopBegin \/ StopNotify \/ UNCHANGED vars
  PROVE  Pool'
  <1>1. /\ rig' = rig /\ kv' = kv /\ work' = work /\ active' = active /\ task' = task /\ at' = at
        /\ cancel' = cancel /\ stop' = stop
    BY DEF Top, Doze, Sleep, DecodeFails, StopBegin, StopNotify, callerVars, vars, schedVars
  <1>2. /\ pc' = pc \/ pc' \notin {"ready", "build", "decode", "finish"}
        /\ pc \in {"failing", "ended"} => pc' = pc
    BY DEF Top, Doze, Sleep, DecodeFails, StopBegin, StopNotify, vars, schedVars
  <1>3. \A q \in Requests : (Queued(q)' <=> Queued(q))
    BY <1>1 DEF Queued, Members
  <1>4. Modest'
    BY <1>1, ModestStep DEF Pool, Modest
  <1>5. Quiet
    BY <1>1, <1>2, <1>3 DEF Quiet, Measured
  <1> QED BY <1>4, <1>5, PoolQuiet

\* Contexts that were made anew hold nothing, and nobody holds a grant.
LEMMA PoolRecreate ==
  ASSUME Kernel, Pool, Recreate PROVE Pool'
  <1>0. Typed /\ Seated /\ Alive /\ rig.slots \in Nat /\ rig.capacity \in Nat
    BY RigAssumption DEF Kernel, Typed, CacheTyped
  <1>1. /\ rig' = rig /\ task' = task /\ at' = at /\ active' = active /\ pc' = "top" /\ life = "joining"
        /\ kv' = [s \in 1..rig.slots |-> <<>>]
    BY <1>0, SlotSet DEF Recreate
  <1>2. \A q \in Requests : ~Queued(q)'
    <2>1. \A q \in Requests : ~Holding(q)
      BY <1>0, <1>1 DEF Seated
    <2>2. \A q \in Requests : ~Queued(q)
      BY <1>0, <2>1 DEF Holding, Alive
    <2> QED BY <1>1, <2>2 DEF Queued, Members
  <1>3. Guests' = {}
    BY <1>2 DEF Guests
  <1>4. Afford(Guests, kv)'
    <2> DEFINE g == [s \in 1..rig.slots |-> Len(kv'[s])]
               h == [r \in Requests |-> Len(task'[r].prompt) + task'[r].max + rig.margin]
    <2>1. \A s \in 1..rig.slots : g[s] = 0
      BY <1>1
    <2>2. Afford(Guests, kv)' <=> Total(h, Guests') + Total(g, (1..rig.slots) \ {SequenceOf'[r] : r \in Guests'}) <= rig.capacity
      BY <1>1 DEF Afford, Idlers, Claims, Lengths, Reservation
    <2>3. (1..rig.slots) \ {SequenceOf'[r] : r \in Guests'} = 1..rig.slots
      BY <1>3
    <2> HIDE DEF g, h
    <2>4. Total(h, {}) + Total(g, 1..rig.slots) = 0
      BY <1>0, <2>1, NothingHeld
    <2>5. Total(h, Guests') = Total(h, {}) /\ Total(g, (1..rig.slots) \ {SequenceOf'[r] : r \in Guests'}) = Total(g, 1..rig.slots)
      BY <1>3, <2>3, Zenon
    <2>6. Total(h, Guests') + Total(g, (1..rig.slots) \ {SequenceOf'[r] : r \in Guests'}) = 0
      BY <2>4, <2>5, Zenon
    <2>7. 0 <= rig.capacity
      BY <1>0
    <2> QED BY <2>2, <2>6, <2>7, Zenon
  <1>5. Modest'
    BY <1>1, ModestStep DEF Pool, Modest
  <1>6. Sized'
    BY <1>1, <1>2, SizedStep
  <1>7. Staged'
    BY <1>1, <1>3, StagedStep
  <1> QED BY <1>4, <1>5, <1>6, <1>7 DEF Pool, Afforded

LEMMA PoolReady ==
  ASSUME Kernel, Recall, Pool, Ready PROVE Pool'
  <1>0. Typed /\ Seated /\ Alive /\ Metered /\ Fresh
    BY DEF Kernel, Recall
  <1>1. Readies
    BY ReadyOnce
  <1>2. /\ Untouched /\ active' = active /\ work' = work /\ pc = "ready" /\ pc' = "build"
        /\ \A r \in Requests : Starts(r) => Queued(r) /\ r \in Members(work.runnable) /\ Went(r)
        /\ \A r \in Requests : ~Starts(r) => task'[r] = task[r]
        /\ kv' \in [1..rig.slots -> Seq(Nat)]
        /\ \A s \in 1..rig.slots : (\A r \in Requests : Starts(r) => task[r].seq # s) => kv'[s] = kv[s]
    BY <1>1 DEF Readies
  <1>3. rig' = rig /\ at' = at /\ cancel' = cancel /\ stop' = stop /\ work.done = {} /\ rig.margin \in Nat
    BY <1>0, <1>2, RigAssumption DEF Untouched, Alive, Typed, CacheTyped
  <1>4. \A r \in Requests : (Queued(r)' <=> Queued(r))
    BY <1>2 DEF Queued, Members
  <1>5. ASSUME NEW r \in Requests, Starts(r)
        PROVE  LET v == task'[r]
               IN  /\ Alike(task[r], v) /\ v.promptDone = task[r].promptDone /\ v.generated = task[r].generated
                   /\ v.initialized /\ Len(v.spec) <= rig.margin /\ Queued(r) /\ Going(r)
                   /\ task[r].seq \in 1..rig.slots /\ r \in Members(work.runnable)
                   /\ SizedOf(v, kv'[v.seq], r \in work.done, rig.margin)
    <2> DEFINE t == task[r]
               v == task'[r]
               u == ReadyTask(r)
    <2>1. Queued(r) /\ Went(r) /\ r \in Members(work.runnable)
      BY <1>2, <1>5
    <2>2. Going(r) /\ t.seq \in 1..rig.slots
      BY <1>0, <2>1, QueuedSeq
    <2>3. /\ Alike(t, v) /\ v.promptDone = t.promptDone /\ v.generated = t.generated /\ v.initialized
          /\ v.promptPos = u.t.promptPos /\ v.nPos = u.t.nPos /\ Len(v.spec) <= rig.margin
          /\ kv'[t.seq] = u.kv
      BY <2>1 DEF Went
    <2>4. SizedOf(v, kv'[t.seq], r \in work.done, rig.margin)
      <3>1. CASE t.initialized
        <4>1. u.kv = kv[t.seq] /\ u.t.promptPos = t.promptPos /\ u.t.nPos = t.nPos
          BY <1>0, <2>2, <3>1, ReadiedTask
        <4>2. SizedOf(t, kv[t.seq], r \in work.done, rig.margin)
          BY <2>1, <3>1 DEF Pool, Sized
        <4> HIDE DEF t, v, u
        <4> QED BY <2>3, <4>1, <4>2 DEF SizedOf, Alike
      <3>2. CASE ~t.initialized
        <4>1. Right(r) /\ ~t.promptDone
          BY <2>1, <3>2, RightStart
        <4>2. u.t.promptPos = u.t.nPos /\ Begun(u, t.prompt)
          BY <1>0, <2>2, <3>2, <4>1, ReadiedTask
        <4>3. Len(u.kv) = u.t.nPos
          BY <4>2 DEF Begun
        <4> HIDE DEF t, v, u
        <4> QED BY <1>3, <2>3, <4>1, <4>2, <4>3 DEF SizedOf
      <3> QED BY <3>1, <3>2
    <2>5. v.seq = t.seq
      BY <2>3 DEF Alike
    <2> HIDE DEF t, v, u
    <2> QED BY <2>1, <2>2, <2>3, <2>4, <2>5 DEF t, v
  <1>6. \A r \in Requests : Queued(r) => /\ task'[r].prompt = task[r].prompt /\ task'[r].max = task[r].max
                                         /\ task'[r].seq = task[r].seq /\ task'[r].admitted = task[r].admitted
    BY <1>2, <1>5 DEF Alike
  <1>7. Guests' = Guests
    <2>1. Guests' = {q \in Requests : Queued(q)' /\ task'[q].admitted}
      BY DEF Guests
    <2> QED BY <1>4, <1>6, <2>1 DEF Guests
  <1>8. Afforded'
    <2> SUFFICES ASSUME rig.capacity > 0 PROVE Afford(Guests, kv)'
      BY <1>3 DEF Afforded
    <2>1. Afford(Guests, kv)
      BY <1>2 DEF Pool, Afforded
    <2>2. \A r \in Guests : /\ task'[r].prompt = task[r].prompt /\ task'[r].max = task[r].max
                            /\ task'[r].seq = task[r].seq
      BY <1>6 DEF Guests
    <2>3. \A r \in Requests : Starts(r) => r \in Guests
      BY <1>0, <1>5 DEF Fresh, Guests
    <2>4. \A s \in 1..rig.slots : (\A r \in Guests : task[r].seq # s) => kv'[s] = kv[s]
      BY <1>2, <2>3
    <2>5. Leaving({}, kv', task')
      BY <1>2, <2>2, <2>4 DEF Leaving
    <2> QED BY <1>3, <1>7, <2>1, <2>5, AffordStep
  <1>9. Sized'
    <2> SUFFICES ASSUME NEW r \in Requests, Queued(r)', task'[r].initialized
                 PROVE  SizedOf(task'[r], kv'[task'[r].seq], r \in work.done, rig.margin)
      BY <1>2, <1>3, SizedStep
    <2>1. CASE Starts(r)
      BY <1>5, <2>1
    <2>2. CASE ~Starts(r)
      <3>1. task'[r] = task[r] /\ Queued(r)
        BY <1>2, <1>4, <2>2
      <3>2. SizedOf(task[r], kv[task[r].seq], r \in work.done, rig.margin)
        BY <3>1 DEF Pool, Sized
      <3>3. Going(r) /\ task[r].seq \in 1..rig.slots
        BY <1>0, <3>1, QueuedSeq
      <3>4. kv'[task[r].seq] = kv[task[r].seq]
        <4>1. \A q \in Requests : Starts(q) => task[q].seq # task[r].seq
          <5> SUFFICES ASSUME NEW q \in Requests, Starts(q), task[q].seq = task[r].seq PROVE FALSE
            OBVIOUS
          <5>1. Going(q)
            BY <1>5
          <5>2. q = r
            BY <1>0, <3>3, <5>1, OwnSeq
          <5> QED BY <2>2, <5>2
        <4> QED BY <1>2, <3>3, <4>1
      <3> QED BY <3>1, <3>2, <3>4
    <2> QED BY <2>1, <2>2
  <1>10. Modest'
    <2> SUFFICES ASSUME NEW r \in Requests PROVE ModestOf(task'[r], at'[r], rig.margin)
      BY <1>3, ModestStep
    <2>1. ModestOf(task[r], at[r], rig.margin)
      BY DEF Pool, Modest
    <2>2. CASE Starts(r)
      BY <1>3, <1>5, <2>1, <2>2 DEF ModestOf, Alike
    <2>3. CASE ~Starts(r)
      BY <1>2, <1>3, <2>1, <2>3
    <2> QED BY <2>2, <2>3
  <1>11. Staged'
    <2> SUFFICES ASSUME rig.capacity > 0, NEW r \in Guests
                 PROVE  r \in Members(work.tasks) /\ (task'[r].initialized \/ cancel[r] \/ stop[r])
      BY <1>2, <1>3, <1>7, StagedStep
    <2>1. r \in Requests /\ r \in Members(work.tasks) /\ (r \in Members(work.runnable) \/ Off(r))
      BY <1>2 DEF Pool, Staged, Guests
    <2>2. Starts(r) \/ Off(r)
      BY <2>1 DEF Starts
    <2> QED BY <1>5, <2>1, <2>2 DEF Off
  <1> QED BY <1>8, <1>9, <1>10, <1>11 DEF Pool

LEMMA TwoLen == ASSUME NEW s \in Seq(Nat), NEW t \in Seq(Nat) PROVE Len(s \o t) = Len(s) + Len(t)
  OBVIOUS

\* What a batch adds to a task and its cells.
LEMMA TookSized ==
  ASSUME Kernel, Pool, NEW r \in Requests, NEW answer, InTurnNow(r), Queued(r), Took(r, answer), pc = "decode",
         ModestOf(task[r], at[r], rig.margin)
  PROVE  /\ SizedOf(task'[r], kv'[task[r].seq], r \in work'.done, rig.margin)
         /\ ~task'[r].promptDone => task'[r].generated = 0
  <1> DEFINE t == task[r]
             v == task'[r]
             n == Pushed(answer, t.max - t.generated)
             room == t.max - t.generated
             kept == IF t.promptDone THEN Len(answer) ELSE work.take[r]
             more == SubSeq(Fed(r), 1, kept)
             old == kv[t.seq]
             p == Len(t.prompt)
             a == Len(answer)
             d == Len(t.spec)
  <1>0. Typed /\ Seated /\ Alive /\ Metered /\ rig.margin \in Nat
    BY RigAssumption DEF Kernel, Typed, CacheTyped
  <1>1. /\ answer \in Answers(r) /\ answer \in Seq(Nat) /\ Fed(r) \in Seq(Nat) /\ kept \in Nat
        /\ kept <= Len(Fed(r)) /\ kv'[t.seq] = old \o more
        /\ v.prompt = t.prompt /\ v.max = t.max
        /\ v.promptPos = (IF t.promptDone THEN t.promptPos ELSE t.promptPos + kept)
        /\ v.nPos = t.nPos + kept
        /\ (v.promptDone <=> t.promptDone \/ answer # <<>>)
        /\ v.generated = t.generated + n
        /\ (r \in work'.done <=> n = room \/ n < a)
    BY DEF Took, Alike
  <1>2. /\ t.initialized /\ r \in Members(work.tasks) /\ InBatch(r) /\ r \notin work.done /\ Going(r)
        /\ ~t.promptDone => t.promptPos + work.take[r] <= p /\ t.spec = <<>> /\ t.generated = 0
        /\ t.generated < t.max /\ t.seq \in 1..rig.slots
    <2>1. r \in Members(work.tasks) /\ InBatch(r) /\ work.done = {} /\ Going(r) /\ t.seq \in 1..rig.slots
      BY <1>0, QueuedSeq DEF InTurnNow, Alive
    <2>2. t.initialized /\ (~t.promptDone => t.promptPos + work.take[r] <= p)
      BY <1>0, <2>1 DEF Metered, InBatch
    <2>3. ~t.promptDone => t.spec = <<>> /\ t.generated = 0
      BY <1>0, <2>1 DEF Metered, ModestOf, Going
    <2>4. t.generated < t.max
      BY <1>0, <2>1 DEF Metered
    <2> QED BY <2>1, <2>2, <2>3, <2>4
  <1>3. /\ t.promptPos \in Nat /\ t.nPos \in Nat /\ t.generated \in Nat /\ t.max \in Nat /\ t.spec \in Seq(Nat)
        /\ t.promptDone \in BOOLEAN /\ work.take[r] \in Nat /\ old \in Seq(Nat) /\ t \in TaskType
    BY <1>0, <1>2 DEF Typed, CacheTyped, CallersTyped, ThreadTyped, TaskType, WorkType
  <1>4. p \in Nat /\ a \in Nat /\ d \in Nat /\ room \in Nat /\ room > 0 /\ d <= rig.margin
    <2>1. p \in Nat
      BY <1>3, TextLengths
    <2>2. room \in Nat /\ room > 0
      BY <1>2, <1>3
    <2>3. d <= rig.margin
      BY DEF ModestOf
    <2> HIDE DEF p, room
    <2> QED BY <1>1, <1>3, <2>1, <2>2, <2>3
  <1>5. n \in 0..a /\ n <= room
    <2> HIDE DEF room
    <2> QED BY <1>1, <1>4, PushedWithin DEF room
  <1>6. SizedOf(t, old, FALSE, rig.margin) /\ Len(old) = t.nPos
    <2>1. SizedOf(t, old, r \in work.done, rig.margin)
      BY <1>2 DEF Pool, Sized
    <2> QED BY <1>2, <2>1 DEF SizedOf
  <1>7. Len(kv'[t.seq]) = v.nPos
    <2>1. more \in Seq(Nat) /\ Len(more) = kept
      <3> HIDE DEF kept
      <3> QED BY <1>1
    <2> HIDE DEF more, kept, old
    <2>2. Len(old \o more) = Len(old) + Len(more)
      <3>1. old \in Seq(Nat) /\ more \in Seq(Nat)
        BY <1>3, <2>1
      <3> QED BY <3>1, TwoLen
    <2>3. Len(kv'[t.seq]) = Len(old \o more)
      BY <1>1, Zenon
    <2> QED BY <1>1, <1>6, <2>1, <2>2, <2>3
  <1>8. /\ answer = <<>> => ~t.promptDone /\ a = 0
        /\ answer # <<>> => /\ t.promptDone \/ ~(t.promptPos + work.take[r] < p)
                            /\ a >= 1 /\ a <= d + 1
    <2>1. answer = <<>> => ~t.promptDone
      BY <1>0, <1>1, <1>2, AnswerShape
    <2>2. answer # <<>> => /\ t.promptDone \/ ~(t.promptPos + work.take[r] < p)
                           /\ a >= 1 /\ a <= d + 1
      BY <1>0, <1>1, <1>2, AnswerShape
    <2> QED BY <2>1, <2>2, EmptyLen
  <1> DEFINE N == t.nPos
             G == t.generated
             M == t.max
             K == work.take[r]
             P == t.promptPos
             over == r \in work'.done
  <1>9. /\ N \in Nat /\ G \in Nat /\ M \in Nat /\ K \in Nat /\ P \in Nat /\ G < M /\ room = M - G
        /\ ~t.promptDone => N = P /\ P + K <= p /\ G = 0 /\ d = 0
        /\ t.promptDone => N + 1 = p + G
        /\ v.generated = G + n /\ v.nPos = N + kept /\ (over <=> n = room \/ n < a)
        /\ Len(v.prompt) = p /\ v.max = M
    <2>1. ~t.promptDone => d = 0
      BY <1>2, EmptyLen
    <2> QED BY <1>1, <1>2, <1>3, <1>6, <2>1 DEF SizedOf
  <1>10. CASE t.promptDone
    <2>1. v.promptDone /\ kept = a /\ a >= 1 /\ a <= d + 1
      BY <1>1, <1>8, <1>10
    <2> HIDE DEF t, v, n, room, kept, p, a, d, N, G, M, K, P, over
    <2>2. ~over => v.nPos + 1 = p + v.generated
      <3>1. ~over => n = a
        BY <1>4, <1>5, <1>9
      <3>2. N + 1 = p + G
        BY <1>9, <1>10
      <3>3. v.nPos = N + a /\ v.generated = G + n
        BY <1>9, <2>1
      <3>4. n = a => N + a + 1 = p + (G + n)
        BY <1>4, <1>9, <3>2
      <3> QED BY <3>1, <3>3, <3>4
    <2>3. over => v.nPos <= p + M + rig.margin
      BY <1>0, <1>4, <1>5, <1>9, <1>10, <2>1
    <2> QED BY <1>7, <1>9, <2>1, <2>2, <2>3 DEF SizedOf, t, v, over
  <1>11. CASE ~t.promptDone /\ answer = <<>>
    <2>1. ~v.promptDone /\ kept = K /\ a = 0 /\ v.promptPos = P + K
      BY <1>1, <1>8, <1>11
    <2> HIDE DEF t, v, n, room, kept, p, a, d, N, G, M, K, P, over
    <2>2. ~over /\ v.generated = 0 /\ v.nPos = v.promptPos
      BY <1>4, <1>5, <1>9, <1>11, <2>1
    <2> QED BY <1>7, <2>1, <2>2 DEF SizedOf, t, v, over
  <1>12. CASE ~t.promptDone /\ answer # <<>>
    <2>1. v.promptDone /\ kept = K /\ a >= 1 /\ a <= d + 1 /\ ~(P + K < p)
      BY <1>1, <1>8, <1>12
    <2> HIDE DEF t, v, n, room, kept, p, a, d, N, G, M, K, P, over
    <2>2. a = 1 /\ v.nPos = p
      BY <1>4, <1>9, <1>12, <2>1
    <2>3. ~over => v.nPos + 1 = p + v.generated
      BY <1>4, <1>5, <1>9, <1>12, <2>2
    <2>4. v.nPos <= p + M + rig.margin
      BY <1>0, <1>4, <1>9, <2>2
    <2> QED BY <1>7, <1>9, <2>1, <2>3, <2>4 DEF SizedOf, t, v, over
  <1> QED BY <1>10, <1>11, <1>12

LEMMA PoolDecode ==
  ASSUME Kernel, Recall, Pool, Decode PROVE Pool'
  <1>0. Typed /\ Seated /\ Alive /\ Metered /\ Fresh
    BY DEF Kernel, Recall
  <1>1. PICK answer : Decodes(answer)
    BY DecodeOnce
  <1>2. /\ Untouched /\ active' = active /\ pc = "decode" /\ pc' = "finish"
        /\ work'.done \subseteq {r \in Requests : InTurnNow(r)}
        /\ \A r \in Requests : InTurnNow(r) => Queued(r) /\ Took(r, answer[r])
        /\ \A r \in Requests : ~InTurnNow(r) => task'[r] = task[r]
        /\ kv' \in [1..rig.slots -> Seq(Nat)]
        /\ \A s \in 1..rig.slots : (\A r \in Requests : InTurnNow(r) => task[r].seq # s) => kv'[s] = kv[s]
    BY <1>1 DEF Decodes
  <1>3. rig' = rig /\ at' = at /\ work.done = {}
    BY <1>0, <1>2 DEF Untouched, Alive
  <1>4. \A r \in Requests : (Queued(r)' <=> Queued(r))
    BY <1>2 DEF Queued, Members
  <1>5. ASSUME NEW r \in Requests, InTurnNow(r)
        PROVE  LET v == task'[r]
               IN  /\ Alike(task[r], v) /\ v.initialized = task[r].initialized /\ v.spec = task[r].spec
                   /\ Queued(r) /\ Going(r) /\ task[r].initialized
                   /\ SizedOf(v, kv'[v.seq], r \in work'.done, rig.margin)
                   /\ ~v.promptDone => v.generated = 0
    <2>1. Queued(r) /\ Took(r, answer[r])
      BY <1>2, <1>5
    <2>2. Alike(task[r], task'[r]) /\ task'[r].initialized = task[r].initialized /\ task'[r].spec = task[r].spec
      BY <2>1 DEF Took
    <2>3. Going(r)
      BY <1>0, <2>1, QueuedSeq
    <2>4. task[r].initialized
      BY <1>0, <1>2, <1>5 DEF Metered, InTurnNow, InBatch
    <2>5. ModestOf(task[r], at[r], rig.margin)
      BY DEF Pool, Modest
    <2>6. /\ SizedOf(task'[r], kv'[task[r].seq], r \in work'.done, rig.margin)
          /\ ~task'[r].promptDone => task'[r].generated = 0
      BY <1>2, <1>5, <2>1, <2>5, TookSized
    <2>7. task'[r].seq = task[r].seq
      BY <2>2 DEF Alike
    <2> QED BY <2>1, <2>2, <2>3, <2>4, <2>6, <2>7
  <1>6. \A r \in Requests : /\ task'[r].prompt = task[r].prompt /\ task'[r].max = task[r].max
                            /\ task'[r].seq = task[r].seq /\ task'[r].admitted = task[r].admitted
                            /\ task'[r].initialized = task[r].initialized
    BY <1>2, <1>5 DEF Alike
  <1>7. Guests' = Guests
    <2>1. Guests' = {q \in Requests : Queued(q)' /\ task'[q].admitted}
      BY DEF Guests
    <2> QED BY <1>4, <1>6, <2>1 DEF Guests
  <1>8. Afforded'
    <2> SUFFICES ASSUME rig.capacity > 0 PROVE Afford(Guests, kv)'
      BY <1>3 DEF Afforded
    <2>1. Afford(Guests, kv)
      BY <1>2 DEF Pool, Afforded
    <2>2. \A r \in Guests : /\ task'[r].prompt = task[r].prompt /\ task'[r].max = task[r].max
                            /\ task'[r].seq = task[r].seq
      BY <1>6 DEF Guests
    <2>3. \A r \in Requests : InTurnNow(r) => r \in Guests
      BY <1>0, <1>5 DEF Fresh, Guests
    <2>4. \A s \in 1..rig.slots : (\A r \in Guests : task[r].seq # s) => kv'[s] = kv[s]
      BY <1>2, <2>3
    <2>5. Leaving({}, kv', task')
      BY <1>2, <2>2, <2>4 DEF Leaving
    <2> QED BY <1>3, <1>7, <2>1, <2>5, AffordStep
  <1>9. Sized'
    <2> SUFFICES ASSUME NEW r \in Requests, Queued(r)', task'[r].initialized
                 PROVE  SizedOf(task'[r], kv'[task'[r].seq], r \in work'.done, rig.margin)
      BY <1>3, SizedStep
    <2>1. CASE InTurnNow(r)
      BY <1>5, <2>1
    <2>2. CASE ~InTurnNow(r)
      <3>1. task'[r] = task[r] /\ Queued(r) /\ r \notin work'.done /\ r \notin work.done
        BY <1>2, <1>3, <1>4, <2>2
      <3>2. SizedOf(task[r], kv[task[r].seq], r \in work.done, rig.margin)
        BY <3>1 DEF Pool, Sized
      <3>3. Going(r) /\ task[r].seq \in 1..rig.slots
        BY <1>0, <3>1, QueuedSeq
      <3>4. kv'[task[r].seq] = kv[task[r].seq]
        <4>1. \A q \in Requests : InTurnNow(q) => task[q].seq # task[r].seq
          <5> SUFFICES ASSUME NEW q \in Requests, InTurnNow(q), task[q].seq = task[r].seq PROVE FALSE
            OBVIOUS
          <5>1. Going(q)
            BY <1>5
          <5>2. q = r
            BY <1>0, <3>3, <5>1, OwnSeq
          <5> QED BY <2>2, <5>2
        <4> QED BY <1>2, <3>3, <4>1
      <3> QED BY <3>1, <3>2, <3>4 DEF SizedOf
    <2> QED BY <2>1, <2>2
  <1>10. Modest'
    <2> SUFFICES ASSUME NEW r \in Requests PROVE ModestOf(task'[r], at'[r], rig.margin)
      BY <1>3, ModestStep
    <2>1. ModestOf(task[r], at[r], rig.margin)
      BY DEF Pool, Modest
    <2>2. CASE InTurnNow(r)
      BY <1>3, <1>5, <2>1, <2>2 DEF ModestOf, Alike
    <2>3. CASE ~InTurnNow(r)
      BY <1>2, <1>3, <2>1, <2>3
    <2> QED BY <2>2, <2>3
  <1>11. Staged'
    <2> SUFFICES ASSUME rig.capacity > 0, NEW r \in Guests PROVE task'[r].initialized
      BY <1>2, <1>3, <1>7, StagedStep
    <2>1. r \in Requests /\ task[r].initialized
      BY <1>2 DEF Pool, Staged, Guests
    <2> QED BY <1>6, <2>1
  <1> QED BY <1>8, <1>9, <1>10, <1>11 DEF Pool

\* What a round of admission means for the pool.
LEMMA CollectGrants ==
  ASSUME Typed, Collect, rig.capacity > 0
  PROVE  LET a == Admission(active)
         IN  /\ kv' = a.cells /\ work'.runnable = a.runnable
             /\ Guests' = a.admitted /\ a.admitted \subseteq Members(work'.tasks)
  <1> DEFINE a == Admission(active)
             out == {r \in Members(active) : rig.capacity > 0 /\ r \in a.rejected}
             w == Without(active, out)
             new(r) == IF r \in out THEN Told(r, Failed)
                       ELSE IF rig.capacity > 0 /\ r \in a.admitted THEN Admit(r)
                       ELSE IF r \in Members(active) THEN Undraft(r)
                       ELSE task[r]
  <1>1. active \in Seq(Requests)
    BY DEF Typed, ThreadTyped
  <1>2. a \in AdmissionType /\ Sound(active, a)
    BY <1>1, AdmissionSound
  <1>3. /\ active' = w
        /\ work' = [NoWork EXCEPT !.tasks = w,
                      !.runnable = IF rig.capacity > 0 THEN a.runnable ELSE Without(active, {r \in Requests : Off(r)})]
        /\ task' = [r \in Requests |-> new(r)]
        /\ kv' = IF rig.capacity > 0 THEN a.cells ELSE kv
    BY Zenon DEF Collect, Told, Admit, Undraft
  <1> HIDE DEF a, w
  <1>4. w \in Seq(Requests) /\ Members(w) = Members(active) \ out
    BY <1>1, WithoutMembers DEF w
  <1>5. kv' = a.cells
    BY <1>3
  <1>6. work'.runnable = a.runnable /\ work'.tasks = w
    BY <1>3 DEF NoWork
  <1>7. a.admitted \subseteq Members(active) /\ a.admitted \cap out = {} /\ Admitted(active) \subseteq a.admitted
    BY <1>2 DEF Sound
  <1>8. a.admitted \subseteq Requests /\ Members(active) \subseteq Requests
    BY <1>1, <1>2 DEF AdmissionType, Members
  <1>9. ASSUME NEW r \in Requests
        PROVE  Queued(r)' /\ task'[r].admitted <=> r \in a.admitted
    <2>1. Queued(r)' <=> r \in Members(active) \ out
      <3>1. Members(active)' = Members(active')
        BY DEF Members
      <3>2. Members(active') = Members(active) \ out
        BY <1>3, <1>4
      <3> QED BY <3>1, <3>2 DEF Queued
    <2>2. task'[r] = new(r)
      BY <1>3
    <2> HIDE DEF out
    <2>3. CASE r \in a.admitted
      <3>1. r \in Members(active) /\ r \notin out
        BY <1>7, <2>3
      <3>2. task'[r] = Admit(r)
        BY <2>2, <2>3, <3>1
      <3> QED BY <2>1, <2>3, <3>1, <3>2, SteadyAdmit
    <2>4. CASE r \notin a.admitted
      <3>1. r \in Members(active) => ~task[r].admitted
        BY <1>7, <2>4 DEF Admitted
      <3>2. r \in Members(active) \ out => task'[r] = Undraft(r)
        BY <2>2, <2>4
      <3>3. r \in Members(active) \ out => ~task'[r].admitted
        BY <3>1, <3>2, SteadyAdmit
      <3> QED BY <2>1, <2>4, <3>3
    <2> QED BY <2>3, <2>4
  <1>10. Guests' = a.admitted
    <2>1. Guests' = {q \in Requests : Queued(q)' /\ task'[q].admitted}
      BY DEF Guests
    <2> QED BY <1>8, <1>9, <2>1
  <1>11. a.admitted \subseteq Members(work'.tasks)
    BY <1>4, <1>6, <1>7
  <1> QED BY <1>5, <1>6, <1>10, <1>11 DEF a

LEMMA CollectOthers ==
  ASSUME Typed, Collect, NEW r \in Requests, ~Queued(r)
  PROVE  task'[r] = task[r]
  <1> DEFINE a == Admission(active)
             out == {q \in Members(active) : rig.capacity > 0 /\ q \in a.rejected}
             new(q) == IF q \in out THEN Told(q, Failed)
                       ELSE IF rig.capacity > 0 /\ q \in a.admitted THEN Admit(q)
                       ELSE IF q \in Members(active) THEN Undraft(q)
                       ELSE task[q]
  <1>1. active \in Seq(Requests)
    BY DEF Typed, ThreadTyped
  <1>2. Sound(active, a)
    BY <1>1, AdmissionSound
  <1>3. task' = [q \in Requests |-> new(q)]
    BY Zenon DEF Collect, Told, Admit, Undraft
  <1> HIDE DEF a
  <1>4. r \notin Members(active) /\ r \notin out /\ r \notin a.admitted
    BY <1>2 DEF Sound, Queued
  <1>5. new(r) = task[r]
    BY <1>4
  <1> HIDE DEF new
  <1> QED BY <1>3, <1>5

LEMMA PoolCollect ==
  ASSUME Kernel, Recall, Pool, Collect PROVE Pool'
  <1>0. Typed /\ Seated /\ Alive /\ Metered /\ Fresh /\ rig.margin \in Nat
    BY RigAssumption DEF Kernel, Recall, Typed, CacheTyped
  <1>1. PICK out, left, run : Collects(out, left, run)
    BY <1>0, CollectOnce
  <1>2. /\ Untouched /\ pc' = "ready"
        /\ work' = [NoWork EXCEPT !.tasks = Without(active, out), !.runnable = run]
        /\ active' = Without(active, out)
        /\ \A r \in Requests : Steady(task[r], task'[r]) /\ (task'[r].spec = task[r].spec \/ task'[r].spec = <<>>)
        /\ kv' = left
        /\ \A s \in 1..rig.slots :
             \/ left[s] = kv[s]
             \/ /\ left[s] = <<>> /\ rig.capacity > 0
                /\ \A x \in Members(active) : task[x].admitted => task[x].seq # s
        /\ \A r \in Members(run) : rig.capacity > 0 => task'[r].admitted
    BY <1>1 DEF Collects
  <1>3. /\ rig' = rig /\ at' = at /\ cancel' = cancel /\ stop' = stop /\ active \in Seq(Requests)
        /\ pc = "collect" /\ work.done = {} /\ work'.done = {}
    BY <1>0, <1>2, NoWorkType DEF Untouched, Typed, ThreadTyped, Collect, Alive, WorkType
  <1>4. \A r \in Requests : Queued(r)' => Queued(r)
    <2>1. Members(active') = Members(active) \ out
      BY <1>2, <1>3, WithoutMembers
    <2>2. Members(active)' = Members(active')
      BY DEF Members
    <2> QED BY <2>1, <2>2 DEF Queued
  <1>5. Sized'
    <2> SUFFICES ASSUME NEW r \in Requests, Queued(r)', task'[r].initialized
                 PROVE  SizedOf(task'[r], kv'[task'[r].seq], r \in work'.done, rig.margin)
      BY <1>3, SizedStep
    <2>1. Queued(r) /\ Steady(task[r], task'[r])
      BY <1>2, <1>4
    <2>2. task[r].initialized /\ task'[r].seq = task[r].seq
      BY <2>1 DEF Steady
    <2>3. SizedOf(task[r], kv[task[r].seq], r \in work.done, rig.margin)
      BY <2>1, <2>2 DEF Pool, Sized
    <2>4. task[r].seq \in 1..rig.slots
      BY <1>0, <2>1, QueuedSeq
    <2>5. kv'[task[r].seq] = kv[task[r].seq]
      <3>1. rig.capacity > 0 => task[r].admitted /\ r \in Members(active)
        BY <1>0, <2>1, <2>2 DEF Fresh, Queued
      <3> QED BY <1>2, <2>4, <3>1
    <2> QED BY <1>3, <2>1, <2>2, <2>3, <2>5 DEF SizedOf, Steady
  <1>6. Modest'
    <2> SUFFICES ASSUME NEW r \in Requests PROVE ModestOf(task'[r], at'[r], rig.margin)
      BY <1>3, ModestStep
    <2>1. ModestOf(task[r], at[r], rig.margin) /\ Steady(task[r], task'[r])
      BY <1>2 DEF Pool, Modest
    <2>2. Len(task'[r].spec) <= rig.margin
      <3>1. task'[r].spec = <<>> => Len(task'[r].spec) = 0
        BY EmptyLen
      <3> QED BY <1>0, <1>2, <2>1, <3>1 DEF ModestOf
    <2>3. task'[r].promptDone = task[r].promptDone /\ task'[r].generated = task[r].generated
      BY <2>1 DEF Steady
    <2>4. at[r] = "prepared" => ~task'[r].admitted
      <3> SUFFICES ASSUME at[r] = "prepared" PROVE ~task'[r].admitted
        OBVIOUS
      <3>1. ~Queued(r)
        BY <1>0 DEF Alive
      <3>2. task'[r] = task[r]
        BY <1>0, <3>1, CollectOthers
      <3> QED BY <2>1, <3>2 DEF ModestOf
    <2> QED BY <1>3, <2>1, <2>2, <2>3, <2>4 DEF ModestOf
  <1>7. rig.capacity > 0 => Afford(Guests, kv)' /\ \A r \in Guests' :
          r \in Members(work'.tasks) /\ (r \in Members(work'.runnable) \/ Off(r))
    <2> SUFFICES ASSUME rig.capacity > 0
                 PROVE  Afford(Guests, kv)' /\ \A r \in Guests' :
                          r \in Members(work'.tasks) /\ (r \in Members(work'.runnable) \/ Off(r))
      OBVIOUS
    <2> DEFINE a == Admission(active)
    <2>1. /\ kv' = a.cells /\ work'.runnable = a.runnable /\ Guests' = a.admitted
          /\ a.admitted \subseteq Members(work'.tasks)
      BY <1>0, CollectGrants
    <2>2. Snug(a)
      <3>1. Afford(Admitted(active), kv)
        <4>1. Afford(Guests, kv)
          BY <1>3 DEF Pool, Afforded
        <4> QED BY <1>0, <4>1, GuestsFinite
      <3> QED BY <1>0, <1>3, <3>1, AdmissionSnug
    <2> HIDE DEF a
    <2>3. Afford(a.admitted, a.cells) /\ \A q \in a.admitted : q \in Members(a.runnable) \/ Off(q)
      BY <2>2 DEF Snug
    <2>4. Afford(Guests, kv)'
      <3> DEFINE A == a.admitted
      <3>1. A \subseteq Requests
        BY <2>1 DEF Guests
      <3> HIDE DEF A
      <3>2. Afford(Guests, kv)' <=> Total(Claims', Guests') + Total(Lengths(kv)', (1..rig.slots) \ {SequenceOf'[r] : r \in Guests'}) <= rig.capacity
        BY <1>3 DEF Afford, Idlers
      <3>3. Claims' = Claims
        <4>1. \A r \in Requests : Reservation(r)' = Reservation(r)
          BY <1>2, <1>3 DEF Reservation, Steady
        <4> QED BY <4>1 DEF Claims
      <3>4. SequenceOf' = SequenceOf
        <4>1. \A r \in Requests : task'[r].seq = task[r].seq
          BY <1>2 DEF Steady
        <4> QED BY <4>1 DEF SequenceOf
      <3>5. Lengths(kv)' = Lengths(a.cells)
        BY <1>3, <2>1 DEF Lengths
      <3>6. Total(Claims, A) + Total(Lengths(a.cells), (1..rig.slots) \ {SequenceOf[r] : r \in A}) <= rig.capacity
        BY <2>3 DEF Afford, Idlers, A
      <3>7. Guests' = A
        BY <2>1 DEF A
      <3> QED BY <3>2, <3>3, <3>4, <3>5, <3>6, <3>7
    <2> QED BY <2>1, <2>3, <2>4
  <1>8. Afforded'
    BY <1>3, <1>7 DEF Afforded
  <1>9. Staged'
    BY <1>2, <1>3, <1>7, StagedStep DEF Off
  <1> QED BY <1>5, <1>6, <1>8, <1>9 DEF Pool

LEMMA PoolNext == ASSUME Kernel, Recall, Pool, [Next]_vars PROVE Pool'
  <1>1. CASE Thread
    <2>1. CASE Top \/ Doze \/ Sleep \/ DecodeFails
      BY <2>1, PoolMoves
    <2>2. CASE Collect
      BY <2>2, PoolCollect
    <2>3. CASE Ready
      BY <2>3, PoolReady
    <2>4. CASE Build
      BY <2>4, PoolBuild
    <2>5. CASE Decode
      BY <2>5, PoolDecode
    <2>6. CASE Finish \/ FailAll
      BY <2>6, PoolRetires
    <2> QED BY <1>1, <2>1, <2>2, <2>3, <2>4, <2>5, <2>6 DEF Thread
  <1>2. CASE StopBegin \/ StopNotify \/ UNCHANGED vars
    BY <1>2, PoolMoves
  <1>3. CASE Recreate
    BY <1>3, PoolRecreate
  <1>4. ASSUME NEW r \in Requests, Caller(r) \/ (Disconnect(r) /\ UNCHANGED schedVars)
        PROVE  Pool'
    <2>1. CASE (AcquireSlot(r, Healthy) \/ PrepareInference(r)) /\ UNCHANGED schedVars
      BY <2>1, PoolSlots
    <2>2. CASE Submit(r)
      BY <2>2, PoolSubmit
    <2>3. CASE Drain(r) /\ UNCHANGED schedVars
      BY <2>3, PoolDrain
    <2>4. CASE (UpdateSlot(r) \/ ReleaseSlot(r) \/ Disconnect(r)) /\ UNCHANGED schedVars
      BY <2>4, PoolLeaver
    <2> QED BY <1>4, <2>1, <2>2, <2>3, <2>4 DEF Caller
  <1> QED BY <1>1, <1>2, <1>3, <1>4 DEF Next, Stopper

\* While a batch is decoded every grant covers what its sequence holds.
LEMMA PoolHolds == ASSUME Kernel, Pool PROVE PoolFits
  <1> SUFFICES ASSUME rig.capacity > 0, pc \in {"decode", "finish"}
               PROVE  Sum(DOMAIN kv, LAMBDA s : Len(kv[s])) <= rig.capacity
    BY DEF PoolFits
  <1> DEFINE n == rig.slots
             A == Guests
             g == Lengths(kv)
             k == [s \in 1..n |-> Len(kv[s])]
  <1>0. Typed /\ Seated /\ Alive
    BY DEF Kernel
  <1>1. n \in Nat /\ rig.capacity \in Nat /\ kv \in [1..n -> Seq(Nat)] /\ DOMAIN kv = 1..n
    BY <1>0, RigAssumption DEF Typed, CacheTyped
  <1>2. IsFiniteSet(A) /\ A \in SUBSET Requests
    BY <1>0, GuestsFinite
  <1>3. \A a \in A : Queued(a) /\ Going(a) /\ SequenceOf[a] = task[a].seq /\ SequenceOf[a] \in 1..n
    <2>1. \A a \in A : a \in Requests /\ Queued(a)
      BY DEF Guests
    <2> QED BY <1>0, <2>1, QueuedSeq, ClaimsNat
  <1>4. \A a, b \in A : SequenceOf[a] = SequenceOf[b] => a = b
    BY <1>0, <1>2, <1>3, OwnSeq
  <1>5. \A a \in A : Claims[a] \in Nat /\ Claims[a] = Reservation(a)
    BY <1>0, <1>2, ClaimsNat
  <1>6. \A s \in 1..n : g[s] \in Nat /\ g[s] = Len(kv[s])
    BY <1>1 DEF Lengths
  <1>7. \A a \in A : g[SequenceOf[a]] <= Claims[a]
    <2> SUFFICES ASSUME NEW a \in A PROVE g[SequenceOf[a]] <= Claims[a]
      OBVIOUS
    <2>1. a \in Requests /\ Queued(a) /\ task[a].initialized
      BY <1>2, <1>3 DEF Pool, Staged
    <2>2. Len(kv[task[a].seq]) <= Reservation(a)
      BY <2>1, WithinGrant
    <2> QED BY <1>3, <1>5, <1>6, <2>2
  <1>8. Total(Claims, A) + Total(g, (1..n) \ {SequenceOf[a] : a \in A}) <= rig.capacity
    BY DEF Pool, Afforded, Afford, Idlers
  <1>9. Total(Claims, A \ A) + Total(g, (1..n) \ {SequenceOf[a] : a \in A \ A}) <= rig.capacity
    <2> HIDE DEF n, A, g
    <2>1. \A a \in A : SequenceOf[a] \in 1..n /\ Claims[a] \in Nat /\ Claims[a] = Claims[a]
      BY <1>3, <1>5
    <2>2. \A s \in 1..n : g[s] \in Nat /\ g[s] \in Nat
      BY <1>6
    <2>3. \A s \in 1..n : (\A a \in A : SequenceOf[a] # s) => g[s] <= g[s]
      BY <1>6
    <2>4. A \subseteq A
      OBVIOUS
    <2>5. MovesGrants(n, A, A, SequenceOf, g, g, Claims, Claims, rig.capacity)
      BY <1>1, <1>2, <1>4, <1>7, <1>8, <2>1, <2>2, <2>3, <2>4 DEF MovesGrants
    <2> QED BY <2>5, AffordMoved
  <1>10. Total(g, 1..n) <= rig.capacity
    <2>1. A \ A = {} /\ (1..n) \ {SequenceOf[a] : a \in A \ A} = 1..n
      OBVIOUS
    <2> HIDE DEF n, A, g
    <2>2. Total(Claims, A \ A) = 0
      BY <2>1, TotalEmpty, Zenon
    <2>3. Total(g, (1..n) \ {SequenceOf[a] : a \in A \ A}) = Total(g, 1..n)
      BY <2>1, Zenon
    <2>4. Total(g, 1..n) \in Int
      <3>1. IsFiniteSet(1..n)
        BY <1>1, FS_Interval
      <3>2. \A s \in 1..n : g[s] \in Int
        BY <1>6
      <3> QED BY <3>1, <3>2, TotalInt
    <2> QED BY <1>9, <2>2, <2>3, <2>4
  <1>11. Sum(DOMAIN kv, LAMBDA s : Len(kv[s])) = Total(k, 1..n)
    <2>1. Sum(1..n, LAMBDA s : Len(kv[s])) = Total(k, 1..n)
      BY CellSum
    <2> HIDE DEF k, n
    <2> QED BY <1>1, <2>1, Zenon
  <1>12. k = g
    BY DEF Lengths
  <1> HIDE DEF k, g, n
  <1> QED BY <1>10, <1>11, <1>12

LEMMA PoolAlways == Spec => []Pool
  <1>1. Kernel /\ Recall /\ Pool /\ [Next]_vars => Pool'
    BY PoolNext
  <1> QED BY <1>1, PoolInit, KernelAlways, RecallAlways, PTL DEF Spec

\* While the thread decodes, the cells of all sequences together fit the
\* bounded pool, whatever was admitted, evicted, drafted, cancelled or
\* finished before: reclaim_bounded_pool_capacity frees enough for a grant,
\* and no task outgrows the grant bounded_pool_reservation computed for it.
THEOREM PoolAlwaysFits == Spec => []PoolFits
  <1>1. Kernel /\ Pool => PoolFits
    BY PoolHolds
  <1> QED BY <1>1, KernelAlways, PoolAlways, PTL
=============================================================================
