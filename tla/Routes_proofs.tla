---------------------------- MODULE Routes_proofs ----------------------------
(***************************************************************************)
(* The data plane, for any configuration: the slots, the permit and the    *)
(* accounting (which of the provider, the resource releaser and the        *)
(* destructor cleans up, and when the thread that computes has ended), the *)
(* media history across failures and restarts, and what waits for a slow   *)
(* client.                                                                 *)
(***************************************************************************)
EXTENDS Routes, SumLemmas, TLAPS

----------------------------------------------------------------------------
(* The invariant. *)

Still == {"none", "ended"}
\* A request that has not begun, that was cleaned up, or that a crash took.
Ended(x, p, tidying) == p \in Outside \cup {"releaser"} \/ (p = tidying /\ x.cleaned)

\* A session s whose handler is at p and whose thread is at t.
SessionFields == {"made", "queue", "pending", "over", "batch", "aborted", "done", "error", "cleaned", "arg",
                  "fallback", "last", "slot", "records", "gone", "buffer", "st", "wire"}
Serving == {"open", "enter", "write", "running", "stopping"}
SessionPart(s, p, t) ==
    /\ DOMAIN s = SessionFields
    /\ p \in {"idle", "finish", "stored", "join", "release", "releaser", "closed", "lost"} \cup Serving
    /\ p = "idle" => t = "none" /\ s.slot = 0 /\ s.records = <<>> /\ ~s.cleaned
    /\ p \in Serving => s.slot # 0 /\ s.records = <<>> /\ ~s.cleaned
    /\ p = "finish" /\ ~s.cleaned => s.slot # 0 /\ s.records = <<>>
    /\ p \in {"stored", "join"} => s.slot # 0 /\ s.records = <<>> /\ s.cleaned
    /\ p = "release" => s.slot # 0 /\ Len(s.records) = 1 /\ s.cleaned /\ t = "ended"
    /\ p = "finish" /\ s.cleaned => Len(s.records) = 1 /\ t = "ended"
    /\ p = "releaser" => s.cleaned /\ Len(s.records) = 1 /\ t = "ended"
    /\ p = "closed" => Len(s.records) = 1 /\ t \in Still
    /\ p = "lost" => t = "none" /\ Len(s.records) <= 1

\* A media request m; while it persists the history it stands for where it
\* goes on.
MediaFields == {"then", "id", "slot", "files", "status", "records", "gone", "cancelled", "made", "queue",
                "aborted", "failed", "cleaned", "sent", "last"}
Saving == {"saving", "sweeping"}
Stage(m, p) == IF p \in {"persist"} \cup Saving THEN m.then ELSE p
Waiting == {"permit", "slot"}
Making == {"decode", "run", "store", "rename", "kept"}
MediaPart(m, p, t) ==
    /\ DOMAIN m = MediaFields
    /\ p \in {"persist"} \cup Saving => m.then \in {"permit", "slot", "kept", "leave"}
    /\ Stage(m, p) \in {"idle", "enter", "again", "cleanup", "join", "finish", "leave", "releaser", "closed", "lost"}
                       \cup Waiting \cup Making
    /\ Stage(m, p) \in {"idle"} \cup Waiting => t = "none" /\ m.slot = 0 /\ m.records = <<>> /\ ~m.cleaned
    /\ Stage(m, p) \in Making => t = "none" /\ m.slot # 0 /\ m.records = <<>> /\ ~m.cleaned
    /\ Stage(m, p) \in {"enter", "again"} => m.slot # 0 /\ m.records = <<>> /\ ~m.cleaned
    /\ Stage(m, p) = "cleanup" /\ ~m.cleaned => m.slot # 0 /\ m.records = <<>>
    /\ Stage(m, p) = "join" => m.slot # 0 /\ m.records = <<>> /\ m.cleaned
    /\ Stage(m, p) \in {"finish", "leave"} => Len(m.records) = 1 /\ t \in Still
    /\ Stage(m, p) = "cleanup" /\ m.cleaned => Len(m.records) = 1 /\ t \in Still
    /\ Stage(m, p) = "releaser" => m.cleaned /\ Len(m.records) = 1 /\ t \in Still
    /\ Stage(m, p) = "closed" => Len(m.records) = 1 /\ t \in Still
    /\ Stage(m, p) = "lost" => t = "none" /\ Len(m.records) <= 1

Part(r) == /\ r \in Sessions => SessionPart(ses[r], at[r], th[r])
           /\ r \in Medias => MediaPart(req[r], at[r], th[r])
Gone(r) == IF r \in Sessions THEN Ended(ses[r], at[r], "finish") ELSE Ended(req[r], at[r], "cleanup")
Keeping(r) == SlotOf(r) # 0 /\ ~Gone(r)
Everyone == DOMAIN rig.ask

Shapes ==
    /\ rig \in Rigs /\ DOMAIN owner = 1..rig.slots /\ DOMAIN at = Everyone /\ DOMAIN th = Everyone
    /\ DOMAIN ses = Sessions /\ DOMAIN req = Medias
\* A slot belongs to the request that keeps it, and to nobody else.
SlotsKept ==
    /\ \A r \in Everyone : Keeping(r) => SlotOf(r) \in DOMAIN owner /\ owner[SlotOf(r)] = r
    /\ \A s \in DOMAIN owner : /\ owner[s] \in {Nobody} \cup Everyone
                               /\ \A r \in Everyone : owner[s] = r => SlotOf(r) = s /\ Keeping(r)
PermitKept == permit # Nobody => permit \in Medias /\ ~Gone(permit)
\* The mutex of the history is held by a request that says so.
SaverKnown == DOMAIN saver = {"who", "phase", "snap", "retired"}
              /\ (saver.who \in Medias => at[saver.who] \in Saving)

RouteInv == Shapes /\ (\A r \in Everyone : Part(r)) /\ SlotsKept /\ PermitKept /\ SaverKnown

----------------------------------------------------------------------------
(* Facts about a configuration. *)

\* Every request is either a session or a media request.
LEMMA Everybody ==
  ASSUME rig \in Rigs
  PROVE  /\ Sessions \cap Medias = {} /\ Sessions \cup Medias = Everyone
         /\ Nobody \notin Everyone /\ "startup" \notin Everyone /\ rig.slots \in Nat
  <1>1. Sessions \cap Medias = {}
    BY DEF Sessions, Medias, AskedFor, Generators
  <1>2. Sessions \cup Medias = Everyone
    BY RigAssumption DEF Sessions, Medias, AskedFor, Generators, Everyone, Kinds
  <1> QED BY <1>1, <1>2, RigAssumption DEF Everyone

\* The first status that is recorded is the only one.
LEMMA FirstRecord ==
  ASSUME NEW x
  PROVE  Append(<<>>, x) # <<>> /\ Len(Append(<<>>, x)) = 1
  OBVIOUS

\* Nothing or one status is recorded; one when the request is closed.
LEMMA Recorded ==
  ASSUME NEW x, x = <<>> \/ Len(x) = 1
  PROVE  Len(x) <= 1 /\ (Len(x) = 1 => x # <<>>)
  <1>1. CASE x = <<>>
    BY <1>1
  <1>2. CASE Len(x) = 1
    <2>1. x # <<>>
      BY <1>2
    <2> QED BY <1>2, <2>1
  <1> QED BY <1>1, <1>2

\* A session has at most one record.
LEMMA SessionRecords ==
  ASSUME NEW s, NEW p, NEW t, SessionPart(s, p, t)
  PROVE  Len(s.records) <= 1 /\ (p = "closed" => s.records # <<>>)
  <1>1. CASE s.records = <<>> \/ Len(s.records) = 1
    BY <1>1, Recorded DEF SessionPart
  <1>2. CASE p = "lost"
    BY <1>2 DEF SessionPart
  <1>3. s.records = <<>> \/ Len(s.records) = 1 \/ p = "lost"
    BY DEF SessionPart, Serving
  <1> QED BY <1>1, <1>2, <1>3

\* Neither has a media request more.
LEMMA MediaRecords ==
  ASSUME NEW m, NEW p, NEW t, MediaPart(m, p, t)
  PROVE  Len(m.records) <= 1 /\ (p = "closed" => m.records # <<>>)
  <1>1. CASE m.records = <<>> \/ Len(m.records) = 1
    BY <1>1, Recorded DEF MediaPart, Stage, Saving
  <1>2. CASE p = "lost"
    BY <1>2 DEF MediaPart, Stage, Saving
  <1>3. Stage(m, p) = "lost" => p = "lost"
    BY DEF MediaPart, Stage
  <1>4. m.records = <<>> \/ Len(m.records) = 1 \/ Stage(m, p) = "lost"
    BY DEF MediaPart, Waiting, Making
  <1> QED BY <1>1, <1>2, <1>3, <1>4

\* What the invariant says of the properties.
LEMMA InvProperties ==
  ASSUME RouteInv
  PROVE  SlotExclusive /\ AccountedOnce
  <1>1. \A r \in Everyone : r \in Sessions \/ r \in Medias
    BY Everybody DEF RouteInv, Shapes
  <1>2. ASSUME NEW r \in Computing PROVE owner[SlotOf(r)] = r
    <2>1. r \in Everyone
      BY DEF Computing, RouteInv, Shapes
    <2>2. Keeping(r)
      <3>1. CASE r \in Sessions
        BY <2>1, <3>1 DEF RouteInv, Part, SessionPart, Keeping, Gone, Ended, SlotOf, Computing, Still, Serving, Outside
      <3>2. CASE r \in Medias /\ r \notin Sessions
        BY <2>1, <3>2 DEF RouteInv, Part, MediaPart, Keeping, Gone, Ended, SlotOf, Computing, Still, Stage, Waiting,
                          Making, Saving, Outside
      <3> QED BY <1>1, <2>1, <3>1, <3>2
    <2> QED BY <2>1, <2>2 DEF RouteInv, SlotsKept
  <1>3. ASSUME NEW r \in Sessions PROVE Len(ses[r].records) <= 1 /\ (at[r] = "closed" => ses[r].records # <<>>)
    <2>1. SessionPart(ses[r], at[r], th[r])
      BY Everybody DEF RouteInv, Shapes, Part
    <2> QED BY <2>1, SessionRecords
  <1>4. ASSUME NEW r \in Medias PROVE Len(req[r].records) <= 1 /\ (at[r] = "closed" => req[r].records # <<>>)
    <2>1. MediaPart(req[r], at[r], th[r])
      BY Everybody DEF RouteInv, Shapes, Part
    <2> QED BY <2>1, MediaRecords
  <1>5. \A r : ~Gone(r) => at[r] \notin Outside
    BY DEF Gone, Ended
  <1>6. ASSUME NEW s \in DOMAIN owner, owner[s] # Nobody PROVE at[owner[s]] \notin Outside
    BY <1>5, <1>6 DEF RouteInv, SlotsKept, Keeping
  <1>7. permit # Nobody => at[permit] \notin Outside
    BY <1>5 DEF RouteInv, PermitKept
  <1> QED BY <1>2, <1>3, <1>4, <1>6, <1>7 DEF SlotExclusive, AccountedOnce

----------------------------------------------------------------------------
(* What a step of one request does to the others. *)

Only(f, g, c) == DOMAIN g = DOMAIN f /\ \A r \in DOMAIN f \ {c} : g[r] = f[r]
Alone(c) == Only(at, at', c) /\ Only(th, th', c) /\ Only(ses, ses', c) /\ Only(req, req', c)

\* The slots that change hands are those of the caller; the others keep theirs.
LEMMA OneRequest ==
  ASSUME RouteInv, rig' = rig, NEW c \in Everyone, Alone(c), DOMAIN owner' = DOMAIN owner,
         \A s \in DOMAIN owner : owner'[s] = owner[s] \/ (owner[s] \in {Nobody, c} /\ owner'[s] \in {Nobody, c}),
         Keeping(c)' => SlotOf(c)' \in DOMAIN owner /\ owner'[SlotOf(c)'] = c,
         \A s \in DOMAIN owner : owner'[s] = c => SlotOf(c)' = s /\ Keeping(c)',
         permit' \in {permit, c, Nobody}, permit' = c => c \in Medias /\ ~Gone(c)',
         Part(c)', SaverKnown'
  PROVE  RouteInv'
  <1>0. Shapes /\ Sessions' = Sessions /\ Medias' = Medias /\ Everyone' = Everyone
    BY DEF RouteInv, Sessions, Medias, AskedFor, Everyone
  <1>1. /\ Sessions \cap Medias = {} /\ Sessions \cup Medias = Everyone /\ Nobody \notin Everyone
    BY <1>0, Everybody DEF Shapes
  <1>2. Shapes'
    BY <1>0 DEF Shapes, Alone, Only
  <1>3. ASSUME NEW r \in Everyone, r # c
        PROVE  at'[r] = at[r] /\ th'[r] = th[r] /\ (r \in Sessions => ses'[r] = ses[r]) /\ (r \in Medias => req'[r] = req[r])
    BY <1>0, <1>3 DEF Alone, Only, Shapes
  <1>4. ASSUME NEW r \in Everyone, r # c
        PROVE  Part(r)' /\ SlotOf(r)' = SlotOf(r) /\ (Gone(r)' <=> Gone(r)) /\ (Keeping(r)' <=> Keeping(r))
    <2>1. Part(r)'
      BY <1>0, <1>3, <1>4 DEF RouteInv, Part
    <2>2. SlotOf(r)' = SlotOf(r) /\ (Gone(r)' <=> Gone(r))
      BY <1>0, <1>1, <1>3, <1>4 DEF SlotOf, Gone, Ended
    <2> QED BY <2>1, <2>2 DEF Keeping
  <1>5. SlotsKept'
    <2>1. ASSUME NEW r \in Everyone, Keeping(r)' PROVE SlotOf(r)' \in DOMAIN owner /\ owner'[SlotOf(r)'] = r
      <3>1. CASE r # c
        <4>1. SlotOf(r)' \in DOMAIN owner /\ owner[SlotOf(r)'] = r
          BY <1>4, <2>1, <3>1 DEF RouteInv, SlotsKept
        <4> QED BY <1>1, <3>1, <4>1
      <3> QED BY <2>1, <3>1
    <2>2. \A s \in DOMAIN owner : owner'[s] \in {Nobody} \cup Everyone
      BY DEF RouteInv, SlotsKept
    <2>3. ASSUME NEW s \in DOMAIN owner, NEW r \in Everyone, owner'[s] = r PROVE SlotOf(r)' = s /\ Keeping(r)'
      <3>1. CASE r # c
        <4>1. owner[s] = r
          BY <1>1, <2>3, <3>1
        <4> QED BY <1>4, <2>3, <3>1, <4>1 DEF RouteInv, SlotsKept
      <3> QED BY <2>3, <3>1
    <2> QED BY <1>0, <2>1, <2>2, <2>3 DEF SlotsKept
  <1>6. PermitKept'
    BY <1>0, <1>1, <1>4 DEF RouteInv, PermitKept
  <1>7. \A r \in Everyone : Part(r)'
    BY <1>4
  <1> QED BY <1>0, <1>2, <1>5, <1>6, <1>7 DEF RouteInv

\* A step that takes and gives back nothing.
LEMMA Proceeds ==
  ASSUME RouteInv, rig' = rig, NEW c \in Everyone, Alone(c), UNCHANGED owner,
         SlotOf(c)' = SlotOf(c), Keeping(c)' <=> Keeping(c),
         permit' \in {permit, c, Nobody}, permit' = c => c \in Medias /\ ~Gone(c)', Part(c)', SaverKnown'
  PROVE  RouteInv'
  <1>1. Keeping(c)' => SlotOf(c)' \in DOMAIN owner /\ owner'[SlotOf(c)'] = c
    BY DEF RouteInv, SlotsKept
  <1>2. c # Nobody
    BY Everybody DEF RouteInv, Shapes
  <1>3. \A s \in DOMAIN owner : owner'[s] = c => SlotOf(c)' = s /\ Keeping(c)'
    BY <1>2 DEF RouteInv, SlotsKept
  <1> QED BY <1>1, <1>3, OneRequest

----------------------------------------------------------------------------
(* Text sessions. *)

\* A session never holds the mutex of the history.
LEMMA SaverApart ==
  ASSUME RouteInv, rig' = rig, UNCHANGED saver, NEW c \in Sessions, Only(at, at', c)
  PROVE  SaverKnown'
  <1>1. Medias' = Medias /\ Medias \subseteq DOMAIN at \ {c}
    BY Everybody DEF Medias, AskedFor, RouteInv, Shapes
  <1> QED BY <1>1 DEF RouteInv, SaverKnown, Only

\* A step of a session that keeps its slot, or has none.
LEMMA SessionGoes ==
  ASSUME RouteInv, rig' = rig, UNCHANGED <<owner, mediaVars>>, NEW c \in Sessions,
         Only(at, at', c), Only(th, th', c), Only(ses, ses', c),
         ses'[c].slot = ses[c].slot, SessionPart(ses'[c], at'[c], th'[c]),
         ses[c].slot # 0 => (Ended(ses'[c], at'[c], "finish") <=> Ended(ses[c], at[c], "finish"))
  PROVE  RouteInv'
  <1>0. /\ Sessions' = Sessions /\ Medias' = Medias /\ c \in Everyone /\ c \notin Medias
        /\ UNCHANGED <<req, permit, saver>>
    BY Everybody DEF RouteInv, Shapes, Sessions, Medias, AskedFor, mediaVars, historyVars
  <1>1. SlotOf(c)' = SlotOf(c) /\ (Keeping(c)' <=> Keeping(c))
    BY <1>0 DEF SlotOf, Keeping, Gone
  <1>2. Part(c)'
    BY <1>0 DEF Part
  <1>3. permit # c
    BY <1>0, Everybody DEF RouteInv, PermitKept, Shapes
  <1>4. SaverKnown'
    BY <1>0, SaverApart
  <1>5. Alone(c)
    BY <1>0 DEF Alone, Only
  <1> QED BY <1>0, <1>1, <1>2, <1>3, <1>4, <1>5, Proceeds

\* A session gets a slot nobody has.
LEMMA SessionAcquires ==
  ASSUME RouteInv, rig' = rig, UNCHANGED mediaVars, NEW c \in Sessions, Acquire(c)
  PROVE  RouteInv'
  <1>0. /\ Sessions' = Sessions /\ Medias' = Medias /\ c \in Everyone /\ c \notin Medias
        /\ UNCHANGED <<req, permit, saver>> /\ Shapes /\ SessionPart(ses[c], at[c], th[c])
        /\ c # Nobody /\ rig.slots \in Nat
    BY Everybody DEF RouteInv, Shapes, Sessions, Medias, AskedFor, mediaVars, historyVars, Part
  <1>1. PICK s \in Free : owner' = [owner EXCEPT ![s] = c] /\ ses' = [ses EXCEPT ![c] = [ses[c] EXCEPT !.slot = s]]
    BY DEF Acquire, Become
  <1>2. /\ s \in DOMAIN owner /\ owner[s] = Nobody /\ s # 0
    BY <1>0 DEF Free, Shapes
  <1>3. /\ at[c] = "idle" /\ at'[c] \in {"enter", "open", "running"} /\ Alone(c)
    BY <1>0, <1>1 DEF Acquire, Goes, Runs, Alone, Only, Shapes
  <1>4. ses'[c] = [ses[c] EXCEPT !.slot = s] /\ DOMAIN ses[c] = SessionFields
    BY <1>0, <1>1 DEF Shapes, SessionPart
  <1>5. ses'[c].slot = s /\ SessionPart(ses'[c], at'[c], th'[c])
    BY <1>0, <1>2, <1>3, <1>4 DEF SessionPart, SessionFields, Serving
  <1>6. Part(c)' /\ SlotOf(c)' = s /\ Keeping(c)' /\ ~Keeping(c)
    BY <1>0, <1>2, <1>3, <1>5 DEF Part, SlotOf, Keeping, Gone, Ended, Outside
  <1>7. owner'[s] = c /\ DOMAIN owner' = DOMAIN owner /\ \A q \in DOMAIN owner : q # s => owner'[q] = owner[q]
    BY <1>1, <1>2
  <1>8. \A q \in DOMAIN owner : owner[q] # c
    BY <1>0, <1>6 DEF RouteInv, SlotsKept
  <1>9. permit # c
    BY <1>0 DEF RouteInv, PermitKept
  <1>10. SaverKnown'
    BY <1>0, <1>3, SaverApart DEF Alone
  <1> QED BY <1>0, <1>2, <1>3, <1>6, <1>7, <1>8, <1>9, <1>10, OneRequest

\* A session gives back the slot it keeps, once.
LEMMA SessionReleases ==
  ASSUME RouteInv, rig' = rig, UNCHANGED mediaVars, NEW c \in Sessions, FinishRelease(c)
  PROVE  RouteInv'
  <1> DEFINE s == ses[c].slot
  <1>0. /\ Sessions' = Sessions /\ Medias' = Medias /\ c \in Everyone /\ c \notin Medias
        /\ UNCHANGED <<req, permit, saver, ses, th>> /\ Shapes /\ SessionPart(ses[c], at[c], th[c])
        /\ c # Nobody
    BY Everybody DEF RouteInv, Shapes, Sessions, Medias, AskedFor, mediaVars, historyVars, Part, FinishRelease
  <1>1. /\ at[c] = "release" /\ at'[c] \in {"releaser", "closed"} /\ Alone(c) /\ owner' = [owner EXCEPT ![s] = Nobody]
    BY <1>0 DEF FinishRelease, Goes, Alone, Only, Shapes
  <1>2. Keeping(c) /\ SlotOf(c) = s
    BY <1>0, <1>1 DEF SessionPart, Keeping, Gone, Ended, SlotOf, Outside, Serving
  <1>3. s \in DOMAIN owner /\ owner[s] = c /\ \A q \in DOMAIN owner : owner[q] = c => q = s
    BY <1>0, <1>2 DEF RouteInv, SlotsKept
  <1>4. /\ owner'[s] = Nobody /\ DOMAIN owner' = DOMAIN owner
        /\ \A q \in DOMAIN owner : q # s => owner'[q] = owner[q]
    BY <1>1, <1>3
  <1>5. ~Keeping(c)'
    BY <1>0, <1>1 DEF Keeping, Gone, Ended, Outside
  <1>6. Part(c)'
    BY <1>0, <1>1 DEF Part, SessionPart, Serving, Still
  <1>7. permit # c
    BY <1>0 DEF RouteInv, PermitKept
  <1>8. SaverKnown'
    BY <1>0, <1>1, SaverApart DEF Alone
  <1>9. \A q \in DOMAIN owner : owner'[q] # c
    BY <1>0, <1>3, <1>4
  <1> HIDE DEF s
  <1>10. \A q \in DOMAIN owner : owner'[q] = owner[q] \/ (owner[q] \in {Nobody, c} /\ owner'[q] \in {Nobody, c})
    BY <1>3, <1>4
  <1> QED BY <1>0, <1>1, <1>4, <1>5, <1>6, <1>7, <1>8, <1>9, <1>10, OneRequest

\* What the thread and the providers leave alone in a session.
Same(x, y) == DOMAIN y = SessionFields /\ y.slot = x.slot /\ y.records = x.records /\ y.cleaned = x.cleaned

\* The thread runs only while the slot is kept.
LEMMA ThreadPart ==
  ASSUME NEW s, NEW p, NEW t, SessionPart(s, p, t), t \notin Still, NEW s2, NEW t2, Same(s, s2)
  PROVE  SessionPart(s2, p, t2) /\ (Ended(s2, p, "finish") <=> Ended(s, p, "finish"))
  BY DEF SessionPart, Ended, Same, Still

\* A provider keeps the slot until it asks for the cleanup.
LEMMA ProviderPart ==
  ASSUME NEW s, NEW p, NEW t, SessionPart(s, p, t), p \in Serving,
         NEW s2, NEW p2, NEW t2, p2 \in Serving \cup {"finish"}, Same(s, s2)
  PROVE  SessionPart(s2, p2, t2) /\ (Ended(s2, p2, "finish") <=> Ended(s, p, "finish"))
  BY DEF SessionPart, Ended, Same, Serving, Outside

\* The steps of the inference thread.
LEMMA ThreadSteps ==
  ASSUME RouteInv, rig' = rig, UNCHANGED mediaVars, NEW c \in Sessions,
         Callback(c) \/ Push(c) \/ Doze(c) \/ Return(c)
  PROVE  RouteInv'
  <1>0. Shapes /\ SessionPart(ses[c], at[c], th[c]) /\ c \in Everyone /\ UNCHANGED <<owner, at>>
    BY Everybody DEF RouteInv, Shapes, Part, Callback, Push, Doze, Return
  <1>1. th[c] \notin Still
    BY DEF Callback, Push, Doze, Return, Still
  <1>2. DOMAIN ses[c] = SessionFields
    BY <1>0 DEF SessionPart
  <1>3. Only(at, at', c) /\ Only(th, th', c) /\ Only(ses, ses', c)
    BY <1>0 DEF Callback, Push, Doze, Return, Runs, Become, Only, Shapes
  <1>4. Same(ses[c], ses'[c])
    <2>1. CASE UNCHANGED ses
      BY <1>2, <2>1 DEF Same
    <2>2. CASE Push(c) /\ ses' # ses
      <3> DEFINE d == NextDelta(c)
                 n == (ses[c].pending + Charged(d)) % rig.width
                 new == [ses[c] EXCEPT !.queue = Append(@, d), !.made = @ + 1, !.pending = n]
      <3>1. ses'[c] = new
        BY <1>0, <2>2 DEF Push, Become, Shapes
      <3> HIDE DEF d, n
      <3>2. Same(ses[c], new)
        BY <1>2 DEF Same, SessionFields
      <3> QED BY <3>1, <3>2
    <2>3. CASE Return(c)
      <3>1. \/ ses'[c] = [ses[c] EXCEPT !.done = TRUE, !.error = TRUE]
            \/ ses'[c] = [ses[c] EXCEPT !.done = TRUE]
        BY <1>0, <2>3 DEF Return, Become, Shapes
      <3>2. Same(ses[c], [ses[c] EXCEPT !.done = TRUE, !.error = TRUE])
        BY <1>2 DEF Same, SessionFields
      <3>3. Same(ses[c], [ses[c] EXCEPT !.done = TRUE])
        BY <1>2 DEF Same, SessionFields
      <3> QED BY <3>1, <3>2, <3>3
    <2> QED BY <2>1, <2>2, <2>3 DEF Callback, Doze
  <1>5. SessionPart(ses'[c], at'[c], th'[c]) /\ (Ended(ses'[c], at'[c], "finish") <=> Ended(ses[c], at[c], "finish"))
    BY <1>0, <1>1, <1>4, ThreadPart
  <1> QED BY <1>0, <1>3, <1>4, <1>5, SessionGoes DEF Same

\* What was written is all that writing changes.
LEMMA WrittenSame ==
  ASSUME NEW r, DOMAIN ses[r] = SessionFields, NEW f, NEW k
  PROVE  Same(ses[r], Written(r, f, k))
  BY DEF Written, Same, SessionFields

\* Asking for the cleanup.
LEMMA Asks ==
  ASSUME Shapes, NEW c \in Sessions, NEW s, NEW by, NEW aborted, NEW fallback,
         Same(ses[c], s), Cleanup(c, s, by, aborted, fallback)
  PROVE  /\ Same(ses[c], ses'[c]) /\ at'[c] = "finish"
         /\ Only(at, at', c) /\ Only(ses, ses', c)
  <1>1. c \in DOMAIN at
    BY Everybody DEF Shapes
  <1>2. ses' = [ses EXCEPT ![c] = [s EXCEPT !.last = by, !.arg = aborted, !.fallback = fallback]]
    BY DEF Cleanup, Become
  <1>3. ses'[c] = [s EXCEPT !.last = by, !.arg = aborted, !.fallback = fallback] /\ Only(ses, ses', c)
    BY <1>2 DEF Shapes, Only
  <1>4. Same(ses[c], ses'[c])
    BY <1>3 DEF Same, SessionFields
  <1> QED BY <1>1, <1>3, <1>4 DEF Cleanup, Goes, Only

\* A provider's next step.
LEMMA Provides ==
  ASSUME Shapes, NEW c \in Sessions, NEW s, Same(ses[c], s), Become(c, s), NEW p, Goes(c, p)
  PROVE  /\ Same(ses[c], ses'[c]) /\ at'[c] = p
         /\ Only(at, at', c) /\ Only(ses, ses', c)
  BY Everybody DEF Become, Goes, Only, Shapes

\* The steps of the content providers and of a handler without a stream.
LEMMA ProviderSteps ==
  ASSUME RouteInv, rig' = rig, UNCHANGED mediaVars, NEW c \in Sessions,
         \/ StartStream(c) \/ Heartbeat(c) \/ Take(c) \/ Write(c) \/ EndStream(c) \/ Dropped(c)
         \/ Poll(c) \/ RunDone(c)
  PROVE  RouteInv'
  <1> DEFINE Done == /\ Same(ses[c], ses'[c]) /\ at'[c] \in Serving \cup {"finish"}
                     /\ Only(at, at', c) /\ Only(ses, ses', c)
             Asked == \E s, by, aborted, fallback : Same(ses[c], s) /\ Cleanup(c, s, by, aborted, fallback)
             Provided == \E s : Same(ses[c], s) /\ Become(c, s) /\ \E p \in Serving : Goes(c, p)
  <1>0. /\ Shapes /\ SessionPart(ses[c], at[c], th[c]) /\ c \in Everyone /\ UNCHANGED owner
        /\ at[c] \in Serving
    BY Everybody DEF RouteInv, Shapes, Part, StartStream, Heartbeat, Take, Write, EndStream, Dropped, Poll, RunDone,
                     Serving
  <1>1. DOMAIN ses[c] = SessionFields /\ Same(ses[c], ses[c])
    BY <1>0 DEF SessionPart, Same
  <1>2. Asked => Done
    BY <1>0, Asks
  <1>3. Provided => Done
    BY <1>0, Provides DEF Serving
  <1>4. ASSUME StartStream(c) PROVE Asked \/ Provided
    <2>1. ASSUME NEW w PROVE Same(ses[c], [ses[c] EXCEPT !.wire = w])
      BY <1>1 DEF Same, SessionFields
    <2> DEFINE x == [ses[c] EXCEPT !.st.started = TRUE, !.wire = Created(ses[c].st)]
               y(k) == [ses[c] EXCEPT !.wire = SubSeq(Created(ses[c].st), 1, k)]
    <2>2. Same(ses[c], x)
      BY <1>1 DEF Same, SessionFields
    <2>3. \A k : Same(ses[c], y(k))
      BY <2>1
    <2>4. (Goes(c, "enter") /\ Become(c, x)) \/ \E k : Cleanup(c, y(k), "provider", TRUE, 499)
      BY <1>4 DEF StartStream, Abort
    <2> HIDE DEF x, y
    <2>5. CASE Goes(c, "enter") /\ Become(c, x)
      BY <2>2, <2>5 DEF Serving
    <2>6. CASE \E k : Cleanup(c, y(k), "provider", TRUE, 499)
      BY <2>3, <2>6
    <2> QED BY <2>4, <2>5, <2>6
  <1>5. ASSUME Heartbeat(c) \/ Dropped(c) PROVE Asked \/ Provided
    <2>1. \E by : Cleanup(c, ses[c], by, TRUE, 499)
      BY <1>5 DEF Heartbeat, Dropped, Abort
    <2>2. ASSUME NEW by, Cleanup(c, ses[c], by, TRUE, 499) PROVE Asked
      BY <1>1, <2>2
    <2> HIDE DEF Asked, Provided
    <2> QED BY <2>1, <2>2
  <1>6. ASSUME Take(c) PROVE Asked \/ Provided
    <2>1. ASSUME NEW q, NEW b, NEW n, NEW o
          PROVE  Same(ses[c], [ses[c] EXCEPT !.batch = b, !.queue = q, !.pending = n, !.over = o])
      BY <1>1 DEF Same, SessionFields
    <2> QED BY <1>6, <2>1 DEF Take, Serving
  <1>7. ASSUME Write(c) PROVE Asked \/ Provided
    <2> DEFINE f == Frames(c, ses[c].batch)
               x(k) == Written(c, f, k)
    <2>1. \A k : Same(ses[c], x(k))
      BY <1>1, WrittenSame
    <2>2. \/ \E k : Goes(c, "enter") /\ Become(c, x(k))
          \/ \E k : Cleanup(c, x(k), "provider", TRUE, 499)
      BY <1>7 DEF Write, Abort
    <2> HIDE DEF x
    <2>3. CASE \E k : Goes(c, "enter") /\ Become(c, x(k))
      BY <2>1, <2>3 DEF Serving
    <2>4. CASE \E k : Cleanup(c, x(k), "provider", TRUE, 499)
      BY <2>1, <2>4
    <2> QED BY <2>2, <2>3, <2>4
  <1>8. ASSUME EndStream(c) PROVE Asked \/ Provided
    <2> DEFINE f == Framed(c, [buffer |-> NoText, st |-> ses[c].st, frames |-> <<>>], OnFinish(ses[c].buffer))
               end == IF Chat(c) THEN IF ses[c].error THEN ChatError ELSE ChatDone
                      ELSE IF ses[c].error THEN FailedEvents ELSE Completed(f.st)
               all == [f EXCEPT !.frames = @ \o end]
               code == IF ses[c].error THEN 500 ELSE 200
    <2> HIDE DEF f, end
    <2>1. \/ Cleanup(c, Written(c, all, Len(all.frames)), "provider", FALSE, code)
          \/ \E k : Cleanup(c, Written(c, all, k), "provider", TRUE, 499)
      <3> USE DEF f, end
      <3> QED BY <1>8 DEF EndStream, Abort
    <2> HIDE DEF all, code
    <2>2. \A k : Same(ses[c], Written(c, all, k))
      BY <1>1, WrittenSame
    <2>3. CASE Cleanup(c, Written(c, all, Len(all.frames)), "provider", FALSE, code)
      BY <2>2, <2>3
    <2>4. CASE \E k : Cleanup(c, Written(c, all, k), "provider", TRUE, 499)
      BY <2>2, <2>4
    <2> QED BY <2>1, <2>3, <2>4
  <1>9. ASSUME Poll(c) PROVE Asked \/ Provided
    <2>1. Same(ses[c], [ses[c] EXCEPT !.aborted = TRUE])
      BY <1>1 DEF Same, SessionFields
    <2> QED BY <1>9, <2>1 DEF Poll, Serving
  <1>10. ASSUME RunDone(c) PROVE Asked \/ Provided
    <2> DEFINE x == [ses[c] EXCEPT !.wire = <<[type |-> "response"]>>]
    <2>1. Same(ses[c], x)
      BY <1>1 DEF Same, SessionFields
    <2> HIDE DEF x
    <2>2. \/ Cleanup(c, ses[c], "provider", FALSE, 408)
          \/ Cleanup(c, ses[c], "provider", FALSE, 500)
          \/ \E code : Cleanup(c, x, "provider", FALSE, code)
      BY <1>10 DEF RunDone, x
    <2>3. ASSUME NEW s, Same(ses[c], s), NEW code, Cleanup(c, s, "provider", FALSE, code) PROVE Asked
      BY <2>3
    <2> HIDE DEF Asked, Provided
    <2>4. Asked
      <3>1. CASE \E code : Cleanup(c, ses[c], "provider", FALSE, code)
        BY <1>1, <2>3, <3>1
      <3>2. CASE \E code : Cleanup(c, x, "provider", FALSE, code)
        BY <2>1, <2>3, <3>2
      <3> QED BY <2>2, <3>1, <3>2
    <2> QED BY <2>4
  <1>11. Only(th, th', c)
    BY <1>0 DEF StartStream, Heartbeat, Take, Write, EndStream, Dropped, Poll, RunDone, Runs, Only
  <1>12. Asked \/ Provided
    BY <1>4, <1>5, <1>6, <1>7, <1>8, <1>9, <1>10
  <1>13. Done
    BY <1>2, <1>3, <1>12
  <1> QED BY <1>0, <1>11, <1>13, ProviderPart, SessionGoes DEF Same

\* The client leaves; a refusal is recorded.
LEMMA OutsideSteps ==
  ASSUME RouteInv, rig' = rig, UNCHANGED mediaVars, NEW c \in Sessions, Leave(c) \/ Refuse(c)
  PROVE  RouteInv'
  <1> USE DEF Become, Goes, Shapes
  <1>0. Shapes /\ SessionPart(ses[c], at[c], th[c]) /\ c \in Everyone /\ UNCHANGED owner
    BY Everybody DEF RouteInv, Part, Leave, Refuse
  <1>1. DOMAIN ses[c] = SessionFields
    BY <1>0 DEF SessionPart
  <1>2. Only(at, at', c) /\ Only(th, th', c) /\ Only(ses, ses', c)
    BY <1>0 DEF Leave, Refuse, Only
  <1>3. CASE Leave(c)
    <2>1. Same(ses[c], ses'[c]) /\ UNCHANGED <<at, th>>
      BY <1>0, <1>1, <1>3 DEF Leave, Same, SessionFields
    <2>2. SessionPart(ses'[c], at'[c], th'[c]) /\ (Ended(ses'[c], at'[c], "finish") <=> Ended(ses[c], at[c], "finish"))
      BY <1>0, <2>1 DEF Same, SessionPart, Ended
    <2> QED BY <1>0, <1>2, <2>1, <2>2, SessionGoes DEF Same
  <1>4. CASE Refuse(c)
    <2> DEFINE status == IF ses[c].gone THEN 499 ELSE 503
    <2>1. ses'[c] = [ses[c] EXCEPT !.records = Append(@, status)]
      BY <1>0, <1>4 DEF Refuse
    <2>2. at[c] = "idle" /\ at'[c] = "closed" /\ th' = th
      BY <1>0, <1>4 DEF Refuse
    <2>3. /\ DOMAIN ses'[c] = SessionFields /\ ses'[c].slot = 0 /\ ses[c].slot = 0
          /\ ses'[c].records = Append(<<>>, status)
      <3> HIDE DEF status
      <3> QED BY <1>0, <1>1, <2>1, <2>2 DEF SessionPart, SessionFields
    <2>4. SessionPart(ses'[c], at'[c], th'[c])
      BY <1>0, <2>2, <2>3, FirstRecord DEF SessionPart, Still, Serving
    <2> QED BY <1>0, <1>2, <2>3, <2>4, SessionGoes
  <1> QED BY <1>3, <1>4

\* The cleanup goes on once, records after the join, and ends again for who
\* asks later.
LEMMA CleanupSteps ==
  ASSUME RouteInv, rig' = rig, UNCHANGED mediaVars, NEW c \in Sessions,
         FinishOnce(c) \/ FinishNotify(c) \/ FinishRecord(c) \/ Releaser(c)
  PROVE  RouteInv'
  <1> USE DEF Become, Goes, Runs, Shapes
  <1>0. Shapes /\ SessionPart(ses[c], at[c], th[c]) /\ c \in Everyone /\ UNCHANGED owner
    BY Everybody DEF RouteInv, Part, FinishOnce, FinishNotify, FinishRecord, Releaser
  <1>1. DOMAIN ses[c] = SessionFields
    BY <1>0 DEF SessionPart
  <1>2. Only(at, at', c) /\ Only(th, th', c) /\ Only(ses, ses', c)
    BY <1>0 DEF FinishOnce, FinishNotify, FinishRecord, Releaser, Cleanup, Only
  <1>3. CASE FinishOnce(c)
    <2>1. CASE ses[c].cleaned
      <3>1. at[c] = "finish" /\ at'[c] = "closed" /\ ses'[c] = ses[c] /\ th' = th
        BY <1>0, <1>3, <2>1 DEF FinishOnce
      <3> QED BY <1>0, <1>2, <2>1, <3>1, SessionGoes DEF SessionPart, Ended, Still, Serving, Outside
    <2>2. CASE ~ses[c].cleaned
      <3>1. at[c] = "finish" /\ at'[c] = "stored" /\ ses'[c] = Stored(ses[c]) /\ th' = th
        BY <1>0, <1>3, <2>2 DEF FinishOnce
      <3>2. /\ DOMAIN ses'[c] = SessionFields /\ ses'[c].slot = ses[c].slot /\ ses'[c].records = ses[c].records
            /\ ses'[c].cleaned
        BY <1>1, <3>1 DEF Stored, SessionFields
      <3>3. SessionPart(ses'[c], at'[c], th'[c])
        BY <1>0, <2>2, <3>1, <3>2 DEF SessionPart, Serving
      <3>4. ~Ended(ses'[c], at'[c], "finish") /\ ~Ended(ses[c], at[c], "finish")
        BY <2>2, <3>1 DEF Ended, Outside
      <3> QED BY <1>0, <1>2, <3>2, <3>3, <3>4, SessionGoes
    <2> QED BY <2>1, <2>2
  <1>4. CASE FinishNotify(c)
    <2>1. at[c] = "stored" /\ at'[c] = "join" /\ ses' = ses
      BY <1>0, <1>4 DEF FinishNotify
    <2>2. SessionPart(ses'[c], at'[c], th'[c])
      BY <1>0, <2>1 DEF SessionPart, Serving
    <2>3. ~Ended(ses'[c], at'[c], "finish") /\ ~Ended(ses[c], at[c], "finish")
      BY <2>1 DEF Ended, Outside
    <2> QED BY <1>0, <1>2, <2>1, <2>2, <2>3, SessionGoes
  <1>5. CASE FinishRecord(c)
    <2>1. /\ at[c] = "join" /\ th[c] = "ended" /\ at'[c] = "release" /\ th' = th
          /\ ses'[c] = [ses[c] EXCEPT !.records = Append(@, Status(ses[c]))]
      BY <1>0, <1>5 DEF FinishRecord
    <2>2. /\ DOMAIN ses'[c] = SessionFields /\ ses'[c].slot = ses[c].slot /\ ses'[c].cleaned = ses[c].cleaned
          /\ ses'[c].records = Append(<<>>, Status(ses[c]))
      <3>1. DOMAIN ses[c] = SessionFields /\ ses[c].records = <<>>
        BY <1>0, <2>1 DEF SessionPart
      <3> HIDE DEF Status
      <3> QED BY <2>1, <3>1 DEF SessionFields
    <2>3. SessionPart(ses'[c], at'[c], th'[c])
      BY <1>0, <2>1, <2>2, FirstRecord DEF SessionPart, Serving
    <2>4. ~Ended(ses'[c], at'[c], "finish") /\ ~Ended(ses[c], at[c], "finish")
      BY <2>1 DEF Ended, Outside
    <2> QED BY <1>0, <1>2, <2>2, <2>3, <2>4, SessionGoes
  <1>6. CASE Releaser(c)
    <2>1. at[c] = "releaser" /\ at'[c] = "finish" /\ th' = th /\ Same(ses[c], ses'[c])
      BY <1>0, <1>1, <1>6 DEF Releaser, Cleanup, Same, SessionFields
    <2>2. SessionPart(ses'[c], at'[c], th'[c])
      BY <1>0, <2>1 DEF Same, SessionPart, Serving
    <2>3. Ended(ses'[c], at'[c], "finish") /\ Ended(ses[c], at[c], "finish")
      BY <1>0, <2>1 DEF Same, Ended, SessionPart
    <2> QED BY <1>0, <1>2, <2>1, <2>2, <2>3, SessionGoes DEF Same
  <1> QED BY <1>3, <1>4, <1>5, <1>6

\* Every step of a session.
LEMMA SessionKeeps ==
  ASSUME RouteInv, SessionNext, UNCHANGED <<rig, mediaVars>>
  PROVE  RouteInv'
  BY SessionAcquires, SessionReleases, ThreadSteps, ProviderSteps, OutsideSteps, CleanupSteps DEF SessionNext

----------------------------------------------------------------------------
(* Media requests. *)

\* Whoever holds the mutex of the history keeps it while others move.
LEMMA SaverStays ==
  ASSUME RouteInv, rig' = rig, NEW c \in Medias, Only(at, at', c), UNCHANGED saver,
         at[c] \notin Saving \/ at'[c] = at[c]
  PROVE  SaverKnown'
  <1>1. Medias' = Medias /\ Medias \subseteq DOMAIN at
    BY Everybody DEF Medias, AskedFor, RouteInv, Shapes
  <1> QED BY <1>1 DEF RouteInv, SaverKnown, Only

\* Nobody moves but the history.
LEMMA Unmoved ==
  ASSUME RouteInv, UNCHANGED <<rig, owner, at, th, ses, req, permit>>, SaverKnown'
  PROVE  RouteInv'
  <1>1. Sessions' = Sessions /\ Medias' = Medias /\ Everyone' = Everyone /\ Shapes'
    BY DEF Sessions, Medias, AskedFor, Everyone, RouteInv, Shapes
  <1>2. \A r \in Everyone : Part(r)' /\ SlotOf(r)' = SlotOf(r) /\ (Gone(r)' <=> Gone(r))
    BY <1>1 DEF RouteInv, Part, SlotOf, Gone
  <1>3. SlotsKept' /\ PermitKept'
    BY <1>1, <1>2, Everybody DEF RouteInv, Shapes, SlotsKept, PermitKept, Keeping
  <1> QED BY <1>1, <1>2, <1>3 DEF RouteInv

\* A step of a media request that keeps its slot, or has none.
LEMMA MediaGoes ==
  ASSUME RouteInv, rig' = rig, UNCHANGED <<owner, ses>>, NEW c \in Medias,
         Only(at, at', c), Only(th, th', c), Only(req, req', c),
         req'[c].slot = req[c].slot, MediaPart(req'[c], at'[c], th'[c]),
         Ended(req'[c], at'[c], "cleanup") => Ended(req[c], at[c], "cleanup"),
         req[c].slot # 0 => (Ended(req[c], at[c], "cleanup") => Ended(req'[c], at'[c], "cleanup")),
         permit' \in {permit, Nobody} \/ (permit' = c /\ ~Ended(req'[c], at'[c], "cleanup")), SaverKnown'
  PROVE  RouteInv'
  <1>0. /\ Sessions' = Sessions /\ Medias' = Medias /\ c \in Everyone /\ c \notin Sessions
    BY Everybody DEF RouteInv, Shapes, Sessions, Medias, AskedFor
  <1>1. SlotOf(c)' = SlotOf(c) /\ (Keeping(c)' <=> Keeping(c))
    BY <1>0 DEF SlotOf, Keeping, Gone
  <1>2. Part(c)'
    BY <1>0 DEF Part
  <1>3. permit = c => ~Gone(c)
    BY <1>0, Everybody DEF RouteInv, PermitKept, Shapes
  <1>4. permit' = c => ~Gone(c)'
    BY <1>0, <1>3, Everybody DEF Gone, RouteInv, Shapes
  <1>5. Alone(c)
    BY <1>0 DEF Alone, Only
  <1> QED BY <1>0, <1>1, <1>2, <1>4, <1>5, Proceeds

\* What a step leaves alone in a media request.
Alike(x, y) == DOMAIN y = MediaFields /\ y.slot = x.slot /\ y.records = x.records /\ y.cleaned = x.cleaned

\* A request is accounted for: one status, and the handler finishes the job.
LEMMA Settles ==
  ASSUME RouteInv, rig' = rig, UNCHANGED <<owner, th, ses, saver>>, NEW c \in Medias, NEW status,
         at[c] \in {"join"} \cup Waiting \cup Making, at[c] = "join" => th[c] = "ended",
         Settle(c, status), permit' \in {permit, Nobody}
  PROVE  RouteInv'
  <1>0. Shapes /\ MediaPart(req[c], at[c], th[c]) /\ c \in Everyone
    BY Everybody DEF RouteInv, Shapes, Part
  <1>1. DOMAIN req[c] = MediaFields
    BY <1>0 DEF MediaPart
  <1>2. /\ at'[c] = "finish"
        /\ req'[c] = [req[c] EXCEPT !.records = Append(@, status), !.status = status, !.files = {}]
        /\ Only(at, at', c) /\ Only(th, th', c) /\ Only(req, req', c)
    BY <1>0 DEF Settle, Move, Goes, Set, Shapes, Only
  <1>3. req[c].records = <<>>
    BY <1>0 DEF MediaPart, Stage, Waiting, Making, Saving
  <1>4. /\ DOMAIN req'[c] = MediaFields /\ req'[c].slot = req[c].slot /\ req'[c].cleaned = req[c].cleaned
        /\ req'[c].records = Append(<<>>, status)
    BY <1>1, <1>2, <1>3 DEF MediaFields
  <1>5. th[c] \in Still
    BY <1>0 DEF MediaPart, Stage, Still, Waiting, Making, Saving
  <1>6. MediaPart(req'[c], at'[c], th'[c])
    BY <1>2, <1>4, <1>5, FirstRecord DEF MediaPart, Stage, Waiting, Making, Saving
  <1>7. ~Ended(req'[c], at'[c], "cleanup") /\ ~Ended(req[c], at[c], "cleanup")
    BY <1>2 DEF Ended, Outside, Waiting, Making
  <1>8. SaverKnown'
    BY <1>2, SaverStays DEF Saving, Waiting, Making
  <1> QED BY <1>2, <1>4, <1>6, <1>7, <1>8, MediaGoes

\* A request that has its slot makes something of it, and keeps it.
LEMMA Produces ==
  ASSUME RouteInv, rig' = rig, UNCHANGED <<owner, th, ses, saver>>, NEW c \in Medias,
         at[c] \in Making, Only(at, at', c), Only(req, req', c), Alike(req[c], req'[c]),
         at'[c] \in Making \/ (at'[c] = "persist" /\ req'[c].then = "kept"), permit' \in {permit, Nobody}
  PROVE  RouteInv'
  <1>0. MediaPart(req[c], at[c], th[c])
    BY Everybody DEF RouteInv, Shapes, Part
  <1>1. MediaPart(req'[c], at'[c], th'[c])
    BY <1>0 DEF MediaPart, Stage, Waiting, Making, Saving, Alike
  <1>2. ~Ended(req'[c], at'[c], "cleanup") /\ ~Ended(req[c], at[c], "cleanup")
    BY DEF Ended, Outside, Making
  <1>3. SaverKnown'
    BY SaverStays DEF Saving, Making
  <1> QED BY <1>1, <1>2, <1>3, MediaGoes DEF Alike, Only

\* Recording a request, asking for its permit, and what refuses it.
LEMMA SettleSteps ==
  ASSUME RouteInv, UNCHANGED <<rig, ses>>, NEW c \in Medias,
         \/ NoSlot(c) \/ Decode(c) \/ Generate(c) \/ GenerateVideo(c) \/ Transcribe(c) \/ SynthesizeWav(c)
         \/ WriteFile(c) \/ Rename(c) \/ WriteFails(c) \/ Attach(c) \/ Kept(c) \/ SpeechJoin(c)
  PROVE  RouteInv'
  <1>0. Shapes /\ MediaPart(req[c], at[c], th[c]) /\ c \in Everyone
    BY Everybody DEF RouteInv, Shapes, Part
  <1>1. DOMAIN req[c] = MediaFields
    BY <1>0 DEF MediaPart
  <1>2. /\ UNCHANGED <<owner, th, saver>> /\ permit' \in {permit, Nobody}
        /\ at[c] \in {"join"} \cup Waiting \cup Making /\ (at[c] = "join" => th[c] = "ended")
    BY DEF NoSlot, Decode, Generate, GenerateVideo, Transcribe, SynthesizeWav, WriteFile, Rename, WriteFails,
           Attach, Kept, SpeechJoin, historyVars, Waiting, Making
  <1>3. \/ \E status : Settle(c, status)
        \/ /\ at[c] \in Making
           /\ \/ \E p \in Making : Goes(c, p) /\ UNCHANGED req
              \/ Rename(c) \/ Attach(c)
    BY DEF NoSlot, Decode, Generate, GenerateVideo, Transcribe, SynthesizeWav, CallFails, WriteFile, Rename, WriteFails,
           Attach, Kept, SpeechJoin, Making
  <1>4. CASE \E status : Settle(c, status)
    BY <1>2, <1>4, Settles
  <1>5. ASSUME NEW p \in Making, Goes(c, p), UNCHANGED req, at[c] \in Making PROVE RouteInv'
    <2>1. Only(at, at', c) /\ Only(req, req', c) /\ Alike(req[c], req'[c]) /\ at'[c] = p
      BY <1>0, <1>1, <1>5 DEF Goes, Only, Alike, Shapes
    <2> QED BY <1>2, <1>5, <2>1, Produces
  <1>6. CASE Rename(c)
    <2>1. /\ Only(at, at', c) /\ Only(req, req', c) /\ at'[c] = "store" /\ at[c] = "rename"
          /\ req'[c] = [req[c] EXCEPT !.files = @ \cup {File(c)}]
      BY <1>0, <1>6 DEF Rename, Move, Goes, Set, Only, Shapes
    <2>2. Alike(req[c], req'[c])
      BY <1>1, <2>1 DEF Alike, MediaFields
    <2> QED BY <1>2, <2>1, <2>2, Produces DEF Making
  <1>7. CASE Attach(c)
    <2>1. /\ Only(at, at', c) /\ Only(req, req', c) /\ at'[c] = "persist" /\ at[c] = "store"
          /\ req'[c] = [[req[c] EXCEPT !.files = {}] EXCEPT !.then = "kept"]
      BY <1>0, <1>7 DEF Attach, Persist, Move, Goes, Set, Only, Shapes
    <2>2. Alike(req[c], req'[c]) /\ req'[c].then = "kept"
      BY <1>1, <2>1 DEF Alike, MediaFields
    <2> QED BY <1>2, <2>1, <2>2, Produces DEF Making
  <1> QED BY <1>3, <1>4, <1>5, <1>6, <1>7

\* A job begins, waits for its permit, and is finished; the history is saved
\* before the handler goes on.
LEMMA JobSteps ==
  ASSUME RouteInv, UNCHANGED <<rig, ses>>, NEW c \in Medias,
         Begin(c) \/ Depart(c) \/ Cancel(c) \/ Permit(c) \/ FinishJob(c) \/ Snapshot(c)
  PROVE  RouteInv'
  <1>0. Shapes /\ MediaPart(req[c], at[c], th[c]) /\ c \in Everyone
    BY Everybody DEF RouteInv, Shapes, Part
  <1>1. DOMAIN req[c] = MediaFields
    BY <1>0 DEF MediaPart
  <1>2. UNCHANGED <<owner, th>> /\ Only(th, th', c)
    BY DEF Begin, Depart, Cancel, Permit, FinishJob, Snapshot, Only
  <1>3. CASE Begin(c)
    <2>1. PICK then \in {"permit", "slot"} : req'[c] = [[req[c] EXCEPT !.id = nextId] EXCEPT !.then = then]
      BY <1>0, <1>3 DEF Begin, Persist, Move, Set, Shapes
    <2>2. /\ Only(at, at', c) /\ Only(req, req', c) /\ at[c] = "idle" /\ at'[c] = "persist"
          /\ UNCHANGED <<saver, permit>>
      BY <1>0, <1>3 DEF Begin, Persist, Move, Goes, Set, Only, Shapes
    <2>3. Alike(req[c], req'[c]) /\ req'[c].then = then
      BY <1>1, <2>1 DEF Alike, MediaFields
    <2>4. MediaPart(req'[c], at'[c], th'[c]) /\ req[c].slot = 0
      BY <1>0, <1>2, <2>2, <2>3 DEF MediaPart, Stage, Waiting, Making, Saving, Alike
    <2>5. Ended(req[c], at[c], "cleanup")
      BY <2>2 DEF Ended, Outside
    <2>6. SaverKnown'
      BY <2>2, SaverStays DEF Saving
    <2> QED BY <1>2, <2>2, <2>3, <2>4, <2>5, <2>6, MediaGoes DEF Alike
  <1>4. CASE Depart(c) \/ Cancel(c)
    <2>1. /\ Only(at, at', c) /\ Only(req, req', c) /\ at' = at /\ UNCHANGED <<saver, permit>>
          /\ req'[c] \in {[req[c] EXCEPT !.gone = TRUE], [req[c] EXCEPT !.cancelled = TRUE]}
      BY <1>0, <1>4 DEF Depart, Cancel, Set, Only, Shapes, historyVars
    <2>2. Alike(req[c], req'[c]) /\ req'[c].then = req[c].then
      BY <1>1, <2>1 DEF Alike, MediaFields
    <2>3. MediaPart(req'[c], at'[c], th'[c])
      BY <1>0, <1>2, <2>1, <2>2 DEF MediaPart, Stage, Alike
    <2>4. Ended(req'[c], at'[c], "cleanup") <=> Ended(req[c], at[c], "cleanup")
      BY <2>1, <2>2 DEF Ended, Alike
    <2>5. SaverKnown'
      BY <2>1, SaverStays
    <2> QED BY <1>2, <2>1, <2>2, <2>3, <2>4, <2>5, MediaGoes DEF Alike
  <1>5. CASE Permit(c)
    <2>1. CASE \E status : Settle(c, status) /\ UNCHANGED permit
      BY <1>2, <1>5, <2>1, Settles DEF Permit, historyVars, Waiting
    <2>2. CASE permit' = c /\ Goes(c, "slot") /\ UNCHANGED req
      <3>1. /\ Only(at, at', c) /\ Only(req, req', c) /\ at[c] = "permit" /\ at'[c] = "slot" /\ UNCHANGED saver
        BY <1>0, <1>5, <2>2 DEF Permit, Goes, Only, Shapes, historyVars
      <3>2. MediaPart(req'[c], at'[c], th'[c])
        BY <1>0, <1>2, <2>2, <3>1 DEF MediaPart, Stage, Waiting, Making, Saving
      <3>3. ~Ended(req'[c], at'[c], "cleanup") /\ ~Ended(req[c], at[c], "cleanup")
        BY <3>1 DEF Ended, Outside
      <3>4. SaverKnown'
        BY <3>1, SaverStays DEF Saving
      <3> QED BY <1>2, <2>2, <3>1, <3>2, <3>3, <3>4, MediaGoes
    <2> QED BY <1>5, <2>1, <2>2 DEF Permit
  <1>6. CASE FinishJob(c)
    <2>1. /\ Only(at, at', c) /\ Only(req, req', c) /\ at[c] = "finish" /\ at'[c] = "persist"
          /\ UNCHANGED <<saver, permit>> /\ req'[c] = [req[c] EXCEPT !.then = "leave"]
      BY <1>0, <1>6 DEF FinishJob, Persist, Move, Goes, Set, Only, Shapes
    <2>2. Alike(req[c], req'[c]) /\ req'[c].then = "leave"
      BY <1>1, <2>1 DEF Alike, MediaFields
    <2>3. MediaPart(req'[c], at'[c], th'[c])
      BY <1>0, <1>2, <2>1, <2>2 DEF MediaPart, Stage, Waiting, Making, Saving, Alike
    <2>4. ~Ended(req'[c], at'[c], "cleanup") /\ ~Ended(req[c], at[c], "cleanup")
      BY <2>1 DEF Ended, Outside
    <2>5. SaverKnown'
      BY <2>1, SaverStays DEF Saving
    <2> QED BY <1>2, <2>1, <2>2, <2>3, <2>4, <2>5, MediaGoes DEF Alike
  <1>7. CASE Snapshot(c)
    <2>1. /\ Only(at, at', c) /\ Only(req, req', c) /\ at[c] = "persist" /\ at'[c] \in {"saving", req[c].then}
          /\ UNCHANGED <<req, permit>> /\ saver.who = Nobody
      BY <1>0, <1>7 DEF Snapshot, Goes, Only, Shapes
    <2>2. MediaPart(req'[c], at'[c], th'[c])
      BY <1>0, <1>2, <2>1 DEF MediaPart, Stage, Waiting, Making, Saving
    <2>3. ~Ended(req'[c], at'[c], "cleanup") /\ ~Ended(req[c], at[c], "cleanup")
      BY <1>0, <2>1 DEF Ended, Outside, MediaPart, Saving
    <2>4. SaverKnown'
      <3>1. CASE UNCHANGED saver
        BY <2>1, <3>1, SaverStays DEF Saving
      <3>2. CASE saver' = [who |-> c, phase |-> "save", snap |-> jobs, retired |-> retired] /\ at'[c] = "saving"
        BY <3>2 DEF SaverKnown, Saving
      <3> QED BY <1>0, <1>7, <3>1, <3>2 DEF Snapshot, Goes, Shapes
    <2> QED BY <1>2, <2>1, <2>2, <2>3, <2>4, MediaGoes
  <1> QED BY <1>3, <1>4, <1>5, <1>6, <1>7

\* A media request gets a slot nobody has.
LEMMA MediaAcquires ==
  ASSUME RouteInv, UNCHANGED <<rig, ses>>, NEW c \in Medias, GetSlot(c)
  PROVE  RouteInv'
  <1>0. /\ Sessions' = Sessions /\ Medias' = Medias /\ c \in Everyone /\ c \notin Sessions
        /\ UNCHANGED <<permit, saver>> /\ Shapes /\ MediaPart(req[c], at[c], th[c])
        /\ c # Nobody /\ rig.slots \in Nat
    BY Everybody DEF RouteInv, Shapes, Sessions, Medias, AskedFor, historyVars, Part, GetSlot
  <1>1. PICK s \in Free : owner' = [owner EXCEPT ![s] = c] /\ req' = [req EXCEPT ![c] = [req[c] EXCEPT !.slot = s]]
    BY DEF GetSlot, Set
  <1>2. /\ s \in DOMAIN owner /\ owner[s] = Nobody /\ s # 0
    BY <1>0 DEF Free, Shapes
  <1>3. /\ at[c] = "slot" /\ at'[c] \in {"decode", "enter", "run"} /\ (at'[c] # "enter" => th'[c] = "none")
        /\ Alone(c)
    BY <1>0, <1>1 DEF GetSlot, Goes, Runs, Alone, Only, Shapes
  <1>4. req'[c] = [req[c] EXCEPT !.slot = s] /\ DOMAIN req[c] = MediaFields
    BY <1>0, <1>1 DEF Shapes, MediaPart
  <1>5. DOMAIN req'[c] = MediaFields /\ req'[c].slot = s /\ req'[c].records = <<>> /\ ~req'[c].cleaned
    BY <1>0, <1>3, <1>4 DEF MediaPart, MediaFields, Stage, Waiting, Saving
  <1>6. MediaPart(req'[c], at'[c], th'[c])
    BY <1>2, <1>3, <1>5 DEF MediaPart, Stage, Waiting, Making, Saving
  <1>7. Part(c)' /\ SlotOf(c)' = s /\ Keeping(c)' /\ ~Gone(c)' /\ ~Keeping(c)
    BY <1>0, <1>2, <1>3, <1>5, <1>6 DEF Part, SlotOf, Keeping, Gone, Ended, Outside, MediaPart, Stage, Waiting, Saving
  <1>8. owner'[s] = c /\ DOMAIN owner' = DOMAIN owner /\ \A q \in DOMAIN owner : q # s => owner'[q] = owner[q]
    BY <1>1, <1>2
  <1>9. \A q \in DOMAIN owner : owner[q] # c
    BY <1>0, <1>7 DEF RouteInv, SlotsKept
  <1>10. SaverKnown'
    BY <1>0, <1>3, SaverStays DEF Alone, Saving
  <1> QED BY <1>0, <1>2, <1>3, <1>7, <1>8, <1>9, <1>10, OneRequest

\* A media request gives back its slot and its permit, once.
LEMMA MediaReleases ==
  ASSUME RouteInv, UNCHANGED <<rig, ses>>, NEW c \in Medias, GiveBack(c)
  PROVE  RouteInv'
  <1> DEFINE s == req[c].slot
  <1>0. /\ Sessions' = Sessions /\ Medias' = Medias /\ c \in Everyone /\ c \notin Sessions
        /\ UNCHANGED <<saver, req, th>> /\ Shapes /\ MediaPart(req[c], at[c], th[c])
        /\ c # Nobody
    BY Everybody DEF RouteInv, Shapes, Sessions, Medias, AskedFor, historyVars, Part, GiveBack
  <1>1. /\ at[c] = "leave" /\ Alone(c) /\ permit' = IF permit = c THEN Nobody ELSE permit
        /\ at'[c] = IF req[c].cleaned /\ req[c].last = "provider" THEN "releaser" ELSE "closed"
        /\ owner' = IF s = 0 THEN owner ELSE [owner EXCEPT ![s] = Nobody]
    BY <1>0 DEF GiveBack, Goes, Alone, Only, Shapes
  <1>2. SlotOf(c) = s /\ (Keeping(c) <=> s # 0)
    BY <1>0, <1>1 DEF Keeping, Gone, Ended, SlotOf, Outside
  <1>3. /\ s # 0 => s \in DOMAIN owner /\ owner[s] = c
        /\ \A q \in DOMAIN owner : owner[q] = c => q = s /\ s # 0
    BY <1>0, <1>2 DEF RouteInv, SlotsKept
  <1>4. /\ s # 0 => owner'[s] = Nobody
        /\ DOMAIN owner' = DOMAIN owner
        /\ \A q \in DOMAIN owner : q # s \/ s = 0 => owner'[q] = owner[q]
    BY <1>1, <1>3
  <1>5. Gone(c)' /\ ~Keeping(c)'
    BY <1>0, <1>1 DEF Keeping, Gone, Ended, Outside
  <1>6. Part(c)'
    BY <1>0, <1>1 DEF Part, MediaPart, Stage, Waiting, Making, Saving
  <1>7. SaverKnown'
    BY <1>0, <1>1, SaverStays DEF Alone, Saving
  <1>8. \A q \in DOMAIN owner : owner'[q] # c
    BY <1>0, <1>3, <1>4
  <1> HIDE DEF s
  <1>9. \A q \in DOMAIN owner : owner'[q] = owner[q] \/ (owner[q] \in {Nobody, c} /\ owner'[q] \in {Nobody, c})
    BY <1>3, <1>4
  <1>10. permit' \in {permit, c, Nobody} /\ permit' # c
    BY <1>0, <1>1
  <1> QED BY <1>0, <1>1, <1>4, <1>5, <1>6, <1>7, <1>8, <1>9, <1>10, OneRequest

----------------------------------------------------------------------------
(* Speech streams. *)

\* The steps of the speech worker: it runs only while the slot is kept.
LEMMA WorkerSteps ==
  ASSUME RouteInv, UNCHANGED <<rig, ses>>, NEW c \in Medias,
         SpeechCall(c) \/ SpeechPush(c) \/ SpeechReturn(c)
  PROVE  RouteInv'
  <1>0. /\ Shapes /\ MediaPart(req[c], at[c], th[c]) /\ c \in Everyone
        /\ UNCHANGED <<owner, at, permit, saver>> /\ th[c] \notin Still
    BY Everybody DEF RouteInv, Shapes, Part, SpeechCall, SpeechPush, SpeechReturn, historyVars, Still
  <1>1. DOMAIN req[c] = MediaFields
    BY <1>0 DEF MediaPart
  <1>2. Only(at, at', c) /\ Only(th, th', c) /\ Only(req, req', c)
    BY <1>0 DEF SpeechCall, SpeechPush, SpeechReturn, Runs, Set, Only, Shapes
  <1>3. Alike(req[c], req'[c]) /\ req'[c].then = req[c].then
    <2>1. CASE UNCHANGED req
      BY <1>1, <2>1 DEF Alike
    <2>2. CASE SpeechPush(c)
      BY <1>0, <1>1, <2>2 DEF SpeechPush, Set, Alike, MediaFields, Shapes
    <2>3. CASE SpeechReturn(c)
      BY <1>0, <1>1, <2>3 DEF SpeechReturn, Set, Alike, MediaFields, Shapes
    <2> QED BY <2>1, <2>2, <2>3 DEF SpeechCall
  <1>4. MediaPart(req'[c], at'[c], th'[c])
    BY <1>0, <1>3 DEF MediaPart, Stage, Waiting, Making, Saving, Alike, Still
  <1>5. Ended(req'[c], at'[c], "cleanup") <=> Ended(req[c], at[c], "cleanup")
    BY <1>0, <1>3 DEF Ended, Alike
  <1>6. SaverKnown'
    BY <1>0, <1>2, SaverStays
  <1> QED BY <1>0, <1>2, <1>3, <1>4, <1>5, <1>6, MediaGoes DEF Alike

\* Asking for the cleanup of a stream.
LEMMA FinishAsked ==
  ASSUME Shapes, NEW c \in Medias, NEW m, NEW by, NEW status, Alike(req[c], m), Finish(c, m, by, status)
  PROVE  Alike(req[c], req'[c]) /\ at'[c] = "cleanup"
  <1>1. c \in DOMAIN at
    BY Everybody DEF Shapes
  <1>2. req'[c] = [m EXCEPT !.last = by, !.status = status]
    BY DEF Finish, Move, Set, Shapes
  <1>3. Alike(req[c], req'[c])
    BY <1>2 DEF Alike, MediaFields
  <1> QED BY <1>1, <1>3 DEF Finish, Move, Goes

\* The steps of the provider, the releaser and the cleanup they ask for.
LEMMA StreamSteps ==
  ASSUME RouteInv, UNCHANGED <<rig, ses>>, NEW c \in Medias,
         SpeechWrite(c) \/ SpeechAgain(c) \/ SpeechEnd(c) \/ SpeechReleaser(c) \/ SpeechFinish(c)
  PROVE  RouteInv'
  <1> USE DEF Move, Goes, Set, Shapes
  <1>0. /\ Shapes /\ MediaPart(req[c], at[c], th[c]) /\ c \in Everyone
        /\ UNCHANGED <<owner, th, permit, saver>>
        /\ at[c] \in {"enter", "again", "cleanup", "releaser"}
    BY Everybody DEF RouteInv, Part, SpeechWrite, SpeechAgain, SpeechEnd, SpeechReleaser, SpeechFinish,
                     historyVars
  <1>1. DOMAIN req[c] = MediaFields
    BY <1>0 DEF MediaPart
  <1>2. Only(at, at', c) /\ Only(th, th', c) /\ Only(req, req', c)
    BY <1>0 DEF SpeechWrite, SpeechAgain, SpeechEnd, SpeechReleaser, SpeechFinish, Finish, Only
  <1>3. SaverKnown'
    BY <1>0, <1>2, SaverStays DEF Saving
  <1>4. CASE SpeechWrite(c) \/ SpeechAgain(c) \/ SpeechEnd(c) \/ (SpeechReleaser(c) /\ at[c] # "releaser")
    <2>0. Alike(req[c], req[c]) /\ Alike(req[c], [req[c] EXCEPT !.queue = Tail(@)])
      BY <1>1 DEF Alike, MediaFields
    <2>1. Alike(req[c], req'[c]) /\ at[c] \in {"enter", "again"} /\ at'[c] \in {"enter", "again", "cleanup"}
      <3>1. CASE SpeechWrite(c)
        <4>1. CASE Finish(c, [req[c] EXCEPT !.queue = Tail(@)], "provider", 499)
          BY <1>0, <2>0, <3>1, <4>1, FinishAsked DEF SpeechWrite
        <4>2. CASE Move(c, "again", [[req[c] EXCEPT !.queue = Tail(@)] EXCEPT !.sent = Append(@, Head(req[c].queue))])
          BY <1>0, <1>1, <3>1, <4>2 DEF SpeechWrite, Alike, MediaFields
        <4> QED BY <3>1, <4>1, <4>2 DEF SpeechWrite
      <3>2. CASE SpeechAgain(c)
        BY <1>0, <2>0, <3>2 DEF SpeechAgain
      <3>3. CASE SpeechEnd(c)
        BY <1>0, <2>0, <3>3, FinishAsked DEF SpeechEnd
      <3>4. CASE SpeechReleaser(c) /\ at[c] # "releaser"
        BY <1>0, <2>0, <3>4, FinishAsked DEF SpeechReleaser
      <3> QED BY <1>4, <3>1, <3>2, <3>3, <3>4
    <2>2. MediaPart(req'[c], at'[c], th'[c])
      BY <1>0, <2>1 DEF MediaPart, Stage, Waiting, Making, Saving, Alike
    <2>3. ~Ended(req'[c], at'[c], "cleanup") /\ ~Ended(req[c], at[c], "cleanup")
      BY <1>0, <2>1 DEF Ended, Outside, Alike, MediaPart, Stage, Saving
    <2> QED BY <1>0, <1>2, <1>3, <2>1, <2>2, <2>3, MediaGoes DEF Alike
  <1>5. CASE SpeechReleaser(c) /\ at[c] = "releaser"
    <2>1. Alike(req[c], req'[c]) /\ at'[c] = "cleanup"
      <3>1. Alike(req[c], req[c])
        BY <1>1 DEF Alike
      <3> QED BY <1>0, <1>5, <3>1, FinishAsked DEF SpeechReleaser
    <2>2. MediaPart(req'[c], at'[c], th'[c])
      BY <1>0, <1>5, <2>1 DEF MediaPart, Stage, Waiting, Making, Saving, Alike
    <2>3. Ended(req'[c], at'[c], "cleanup") /\ Ended(req[c], at[c], "cleanup")
      BY <1>0, <1>5, <2>1 DEF Ended, Alike, MediaPart, Stage, Saving
    <2> QED BY <1>0, <1>2, <1>3, <2>1, <2>2, <2>3, MediaGoes DEF Alike
  <1>6. CASE SpeechFinish(c) /\ req[c].cleaned
    <2>1. at[c] = "cleanup" /\ at'[c] = "closed" /\ req' = req
      BY <1>0, <1>6 DEF SpeechFinish
    <2>2. MediaPart(req'[c], at'[c], th'[c])
      BY <1>0, <1>6, <2>1 DEF MediaPart, Stage, Waiting, Making, Saving
    <2>3. Ended(req'[c], at'[c], "cleanup") /\ Ended(req[c], at[c], "cleanup")
      BY <1>6, <2>1 DEF Ended, Outside
    <2> QED BY <1>0, <1>2, <1>3, <2>1, <2>2, <2>3, MediaGoes
  <1>7. CASE SpeechFinish(c) /\ ~req[c].cleaned
    <2>1. /\ at[c] = "cleanup" /\ at'[c] = "join"
          /\ req'[c] = [req[c] EXCEPT !.cleaned = TRUE, !.aborted = (req[c].status = 499)]
      BY <1>0, <1>7 DEF SpeechFinish
    <2>2. /\ DOMAIN req'[c] = MediaFields /\ req'[c].slot = req[c].slot /\ req'[c].records = req[c].records
          /\ req'[c].cleaned
      BY <1>1, <2>1 DEF MediaFields
    <2>3. MediaPart(req'[c], at'[c], th'[c])
      BY <1>0, <1>7, <2>1, <2>2 DEF MediaPart, Stage, Waiting, Making, Saving
    <2>4. ~Ended(req'[c], at'[c], "cleanup") /\ ~Ended(req[c], at[c], "cleanup")
      BY <1>7, <2>1 DEF Ended, Outside
    <2> QED BY <1>0, <1>2, <1>3, <2>2, <2>3, <2>4, MediaGoes
  <1> QED BY <1>4, <1>5, <1>6, <1>7

----------------------------------------------------------------------------
(* The history file, and a crash. *)

\* The request that holds the mutex goes on when the save is done or has
\* failed; at startup there is none.
LEMMA SaveSteps ==
  ASSUME RouteInv, UNCHANGED <<rig, ses>>, Save \/ SaveFails \/ Sweep
  PROVE  RouteInv'
  <1>0. /\ Shapes /\ Medias' = Medias /\ UNCHANGED <<owner, th, permit, req>> /\ DOMAIN saver = {"who", "phase", "snap", "retired"}
    BY DEF RouteInv, SaverKnown, Shapes, Medias, AskedFor, Save, SaveFails, Sweep
  <1>1. \/ saver' = NoSaver /\ Resume
        \/ saver' = [saver EXCEPT !.phase = "sweep"] /\ Holder("sweeping")
    BY DEF Save, SaveFails, Sweep
  <1>2. DOMAIN saver' = {"who", "phase", "snap", "retired"} /\ (saver' = NoSaver \/ saver'.who = saver.who)
    BY <1>0, <1>1 DEF NoSaver
  <1>3. NoSaver.who \notin Medias
    BY <1>0, Everybody DEF NoSaver, Shapes
  <1>4. CASE saver.who \notin Medias
    <2>1. UNCHANGED at
      BY <1>0, <1>1, <1>4 DEF Resume, Holder, Shapes
    <2>2. SaverKnown'
      BY <1>0, <1>2, <1>3, <1>4 DEF SaverKnown
    <2> QED BY <1>0, <2>1, <2>2, Unmoved
  <1>5. ASSUME NEW c \in Medias, c = saver.who PROVE RouteInv'
    <2>1. MediaPart(req[c], at[c], th[c]) /\ at[c] \in Saving /\ c \in DOMAIN at /\ DOMAIN req = Medias
      BY <1>5, Everybody DEF RouteInv, SaverKnown, Part, Shapes
    <2>2. \/ at' = [at EXCEPT ![c] = "sweeping"] /\ saver'.who = c
          \/ at' = [at EXCEPT ![c] = req[c].then] /\ saver' = NoSaver
      BY <1>0, <1>1, <1>5, <2>1 DEF Resume, Holder, Goes
    <2>3. Only(at, at', c) /\ Only(th, th', c) /\ Only(req, req', c) /\ at'[c] \in {"sweeping", req[c].then}
      BY <1>0, <2>1, <2>2 DEF Only
    <2>4. MediaPart(req'[c], at'[c], th'[c])
      BY <1>0, <2>1, <2>3 DEF MediaPart, Stage, Waiting, Making, Saving
    <2>5. ~Ended(req'[c], at'[c], "cleanup") /\ ~Ended(req[c], at[c], "cleanup")
      BY <1>0, <2>1, <2>3 DEF Ended, Outside, MediaPart, Saving
    <2>6. SaverKnown'
      BY <1>0, <1>2, <1>3, <2>1, <2>2 DEF SaverKnown, Saving
    <2> QED BY <1>0, <2>3, <2>4, <2>5, <2>6, MediaGoes
  <1> QED BY <1>4, <1>5

\* A crash takes the slots, the permit and whoever was under way.
LEMMA CrashStep ==
  ASSUME RouteInv, UNCHANGED <<rig, ses>>, Crash
  PROVE  RouteInv'
  <1>0. /\ Shapes /\ Sessions' = Sessions /\ Medias' = Medias /\ Everyone' = Everyone
        /\ Sessions \cap Medias = {} /\ Sessions \cup Medias = Everyone
        /\ Nobody \notin Everyone /\ "startup" \notin Everyone
    BY Everybody DEF RouteInv, Shapes, Sessions, Medias, AskedFor, Everyone
  <1>1. /\ owner' = [s \in DOMAIN owner |-> Nobody] /\ permit' = Nobody
        /\ at' = [r \in DOMAIN at |-> IF at[r] \in Outside THEN at[r] ELSE "lost"]
        /\ th' = [r \in DOMAIN th |-> "none"]
        /\ req' = [r \in DOMAIN req |-> IF at[r] \in Outside THEN req[r] ELSE FreshRequest]
    BY DEF Crash
  <1>2. Shapes'
    BY <1>0, <1>1 DEF Shapes
  <1>3. \A r \in Everyone : at'[r] \in Outside /\ th'[r] = "none"
    BY <1>0, <1>1 DEF Shapes, Outside
  <1>4. \A r \in Everyone : Gone(r)'
    BY <1>0, <1>3 DEF Gone, Ended
  <1>5. ASSUME NEW r \in Sessions PROVE SessionPart(ses[r], at'[r], "none")
    <2>1. SessionPart(ses[r], at[r], th[r]) /\ at'[r] = IF at[r] \in Outside THEN at[r] ELSE "lost"
      BY <1>0, <1>1 DEF RouteInv, Part, Shapes
    <2>2. CASE at[r] \in Outside
      BY <2>1, <2>2 DEF SessionPart, Outside, Serving, Still
    <2>3. CASE at[r] \notin Outside
      BY <2>1, <2>3, SessionRecords DEF SessionPart, Serving
    <2> QED BY <2>2, <2>3
  <1>6. ASSUME NEW r \in Medias PROVE MediaPart(req'[r], at'[r], "none")
    <2>1. MediaPart(req[r], at[r], th[r]) /\ at'[r] = (IF at[r] \in Outside THEN at[r] ELSE "lost")
          /\ req'[r] = IF at[r] \in Outside THEN req[r] ELSE FreshRequest
      BY <1>0, <1>1 DEF RouteInv, Part, Shapes
    <2>2. CASE at[r] \in Outside
      BY <2>1, <2>2 DEF MediaPart, Stage, Outside, Waiting, Making, Saving, Still
    <2>3. CASE at[r] \notin Outside
      BY <2>1, <2>3 DEF MediaPart, MediaFields, FreshRequest, Stage, Waiting, Making, Saving, Still
    <2> QED BY <2>2, <2>3
  <1>7. \A r \in Everyone : Part(r)'
    BY <1>0, <1>3, <1>5, <1>6 DEF Part
  <1>8. SlotsKept' /\ PermitKept'
    BY <1>0, <1>1, <1>4 DEF SlotsKept, PermitKept, Keeping
  <1>9. SaverKnown'
    <2>1. \/ saver' = NoSaver
          \/ \E a, b : saver' = [who |-> "startup", phase |-> "save", snap |-> a, retired |-> b]
      BY DEF Crash
    <2> QED BY <1>0, <2>1 DEF SaverKnown, NoSaver
  <1> QED BY <1>0, <1>2, <1>7, <1>8, <1>9 DEF RouteInv

----------------------------------------------------------------------------
(* The whole data plane. *)

\* Nobody has anything at first.
LEMMA RouteStarts == Init => RouteInv
  <1>1. SUFFICES ASSUME Init
                 PROVE  RouteInv
    OBVIOUS
  <1>2. /\ rig \in Rigs /\ owner = [s \in 1..rig.slots |-> Nobody] /\ permit = Nobody /\ saver = NoSaver
        /\ at = [r \in Everyone |-> "idle"] /\ th = [r \in Everyone |-> "none"]
        /\ ses = [r \in Sessions |-> FreshSession] /\ req = [r \in Medias |-> FreshRequest]
    BY <1>1 DEF Init, RouteInit, SessionInit, MediaInit, Everyone
  <1>3. /\ Sessions \cap Medias = {} /\ Sessions \cup Medias = Everyone
        /\ Nobody \notin Everyone
    BY <1>2, Everybody
  <1>4. ASSUME NEW r \in Everyone PROVE Part(r) /\ Gone(r)
    <2>1. r \in Sessions => SessionPart(ses[r], at[r], th[r])
      BY <1>2 DEF SessionPart, SessionFields, FreshSession, Serving
    <2>2. r \in Medias => MediaPart(req[r], at[r], th[r])
      BY <1>2 DEF MediaPart, MediaFields, FreshRequest, Stage, Waiting, Making, Saving
    <2> QED BY <1>2, <2>1, <2>2 DEF Part, Gone, Ended, Outside
  <1>5. SlotsKept /\ PermitKept
    BY <1>2, <1>3, <1>4 DEF SlotsKept, PermitKept, Keeping
  <1>6. SaverKnown
    BY <1>2, <1>3 DEF SaverKnown, NoSaver
  <1> QED BY <1>2, <1>4, <1>5, <1>6 DEF RouteInv, Shapes

\* Every step of the data plane keeps the invariant.
LEMMA RouteNext == RouteInv /\ [Next]_vars => RouteInv'
  <1>1. SUFFICES ASSUME RouteInv, [Next]_vars
                 PROVE  RouteInv'
    OBVIOUS
  <1>2. CASE SessionNext /\ UNCHANGED <<rig, mediaVars>>
    BY <1>1, <1>2, SessionKeeps
  <1>3. CASE MediaNext /\ UNCHANGED <<rig, ses>>
    BY <1>1, <1>3, SettleSteps, JobSteps, MediaAcquires, MediaReleases, WorkerSteps, StreamSteps, SaveSteps,
       CrashStep DEF MediaNext
  <1>4. CASE UNCHANGED vars
    BY <1>1, <1>4, Unmoved DEF vars, mediaVars, historyVars, RouteInv, SaverKnown, Medias, AskedFor
  <1> QED BY <1>1, <1>2, <1>3, <1>4 DEF Next

\* No slot is given away while a thread or a handler computes on it, whichever
\* of the provider, the releaser and the destructor cleans up first.
THEOREM SlotAlwaysExclusive == Spec => []SlotExclusive
  <1> QED BY RouteStarts, RouteNext, InvProperties, PTL DEF Spec

\* Every request that was let in is recorded once, and has given back its slot
\* and its decode permit when its handler is gone, across crashes too.
THEOREM AlwaysAccountedOnce == Spec => []AccountedOnce
  <1> QED BY RouteStarts, RouteNext, InvProperties, PTL DEF Spec

----------------------------------------------------------------------------
(* The media history: what its jobs, its file and the disk have to do with *)
(* each other at every moment.                                             *)

\* A request whose job is running; one whose job lists no outputs yet.
Busy(r) == /\ at[r] \notin Outside \cup {"releaser"} /\ Stage(req[r], at[r]) # "leave"
           /\ ~(at[r] = "cleanup" /\ req[r].cleaned)
Unlisted(r) == Stage(req[r], at[r]) \in {"permit", "slot", "decode", "run", "store", "rename"}

\* A history whose jobs have ids below n, and list files of their own.
JobFields == {"state", "outputs"}
Sound(h, n) ==
    /\ IsFiniteSet(DOMAIN h)
    /\ \A i \in DOMAIN h : /\ i \in Nat /\ 0 < i /\ i < n /\ DOMAIN h[i] = JobFields
                           /\ \A f \in h[i].outputs : f[1] = i
Bare(h, i) == i \in DOMAIN h => h[i].outputs = {}

Histories == nextId \in Nat /\ 0 < nextId /\ Sound(jobs, nextId) /\ Sound(saved, nextId) /\ Sound(saver.snap, nextId)
\* What is listed exists: in memory, in the file, in what is being saved.
Existing ==
    /\ Listed(jobs) \subseteq disk /\ Listed(saved) \subseteq disk
    /\ saver.phase = "save" => Listed(saver.snap) \subseteq disk
    /\ saver.phase = "sweep" => saved = saver.snap
    /\ \A r \in Medias : req[r].files \subseteq disk
\* What is to be deleted belongs to jobs that are gone for good.
Discarded ==
    /\ \A f \in retired \cup saver.retired : f[1] \in Nat /\ f[1] < nextId /\ f[1] \notin DOMAIN jobs
    /\ \A f \in saver.retired : f[1] \notin DOMAIN saver.snap
    /\ saver.who = Nobody => saver.retired = {} /\ saver.phase = "none"
HandsOf(S) == UNION {req[r].files : r \in S}
Accounted == disk \subseteq Listed(jobs) \cup retired \cup saver.retired \cup orphans \cup HandsOf(Medias)
\* What a handler holds is of its own job, which runs and lists nothing yet.
Owned(r) ==
    /\ \A f \in req[r].files : f[1] = req[r].id
    /\ req[r].files # {} => at[r] \in {"store", "rename"}
    /\ Busy(r) => req[r].id \in Running(jobs)
    /\ Unlisted(r) => Bare(jobs, req[r].id) /\ Bare(saved, req[r].id) /\ Bare(saver.snap, req[r].id)
Apart == \A r, q \in Medias : Busy(r) /\ Busy(q) /\ r # q => req[r].id # req[q].id
Worked == \A i \in Running(jobs) : \E r \in Medias : Busy(r) /\ req[r].id = i
Bounds ==
    /\ Cardinality(Listed(jobs)) <= rig.maxBytes \/ DOMAIN jobs = Running(jobs)
    /\ Cardinality(DOMAIN jobs \ Running(jobs)) <= rig.maxJobs
HistoryInv ==
    /\ Histories /\ (rig.persist => Existing) /\ (~rig.persist => disk = {})
    /\ Discarded /\ Accounted /\ (\A r \in Medias : Owned(r)) /\ Apart /\ Worked /\ Bounds

\* The files of a history are those of its jobs.
LEMMA ListedBy ==
  ASSUME NEW h
  PROVE  \A f : f \in Listed(h) <=> \E i \in DOMAIN h : f \in h[i].outputs
  BY DEF Listed

\* What the handlers hold.
LEMMA HandsBy == \A f : f \in HandsOf(Medias) <=> \E r \in Medias : f \in req[r].files
  BY DEF HandsOf

\* prune_jobs_locked removes ended jobs only, and stops when the history fits
\* or no ended job is left.
LEMMA PrunedKeeps ==
  ASSUME NEW h, NEW n, Sound(h, n)
  PROVE  /\ DOMAIN Pruned(h) \subseteq DOMAIN h
         /\ \A i \in DOMAIN Pruned(h) : Pruned(h)[i] = h[i]
         /\ \A i \in DOMAIN h : h[i].state = "running" => i \in DOMAIN Pruned(h)
         /\ Fits(Pruned(h)) \/ \A i \in DOMAIN Pruned(h) : Pruned(h)[i].state = "running"
  <1> DEFINE since(k) == [i \in {j \in DOMAIN h : j > k \/ h[j].state = "running"} |-> h[i]]
             ids == {0} \cup DOMAIN h
             enough == {k \in ids : Fits(since(k))}
             cut == IF enough = {} THEN Max(ids) ELSE Min(enough)
  <1>1. Pruned(h) = since(cut)
    BY DEF Pruned
  <1>2. \A k : /\ DOMAIN since(k) \subseteq DOMAIN h
               /\ \A i \in DOMAIN since(k) : since(k)[i] = h[i]
               /\ \A i \in DOMAIN h : h[i].state = "running" => i \in DOMAIN since(k)
    OBVIOUS
  <1>3. ids \in SUBSET Nat /\ IsFiniteSet(ids) /\ ids # {} /\ enough \in SUBSET Nat
    <2>1. IsFiniteSet(DOMAIN h) /\ DOMAIN h \subseteq Nat
      BY DEF Sound
    <2> QED BY <2>1, FS_AddElement
  <1>4. CASE enough = {}
    <2>1. Max(ids) \in ids /\ \A y \in ids : Max(ids) >= y
      BY <1>3, Greatest
    <2>2. ASSUME NEW k \in Nat, \A y \in ids : k >= y
          PROVE  \A i \in DOMAIN since(k) : since(k)[i].state = "running"
      <3>1. \A j \in DOMAIN h : j \in Nat /\ ~(j > k)
        BY <1>3, <2>2
      <3> QED BY <3>1
    <2>3. Max(ids) \in Nat
      BY <1>3, <2>1
    <2> HIDE DEF since
    <2> QED BY <1>1, <1>2, <1>4, <2>1, <2>2, <2>3
  <1>5. CASE enough # {}
    <2>1. Min(enough) \in enough
      BY <1>3, <1>5, Least
    <2>2. Fits(since(Min(enough)))
      BY <2>1
    <2> QED BY <1>1, <1>2, <1>5, <2>2
  <1> QED BY <1>4, <1>5

\* What a change of the history keeps, what it retires, and its bounds.
LEMMA UpdateKeeps ==
  ASSUME rig \in Rigs, UNCHANGED rig, NEW n, NEW old, Sound(old, n), NEW h, Sound(h, n), DOMAIN h = DOMAIN old,
         \A i \in DOMAIN h : old[i].outputs \subseteq h[i].outputs,
         NEW g, g = Pruned(h)
  PROVE  /\ Sound(g, n) /\ DOMAIN g \subseteq DOMAIN old /\ Running(g) = Running(h)
         /\ \A i \in DOMAIN g : g[i] = h[i]
         /\ Cardinality(Listed(g)) <= rig.maxBytes \/ DOMAIN g = Running(g)
         /\ Cardinality(DOMAIN g \ Running(g)) <= rig.maxJobs
         /\ Listed(g) \subseteq Listed(h)
         /\ \A f \in Listed(old) \ Listed(g) : f[1] \in Nat /\ f[1] < n /\ f[1] \notin DOMAIN g
  <1>1. /\ DOMAIN g \subseteq DOMAIN h /\ \A i \in DOMAIN g : g[i] = h[i]
        /\ \A i \in DOMAIN h : h[i].state = "running" => i \in DOMAIN g
        /\ Fits(g) \/ \A i \in DOMAIN g : g[i].state = "running"
    BY PrunedKeeps
  <1>2. Sound(g, n) /\ Running(g) = Running(h)
    <2>1. IsFiniteSet(DOMAIN g)
      BY <1>1, FS_Subset DEF Sound
    <2> QED BY <1>1, <2>1 DEF Sound, Running
  <1>3. Listed(g) \subseteq Listed(h)
    BY <1>1, ListedBy
  <1>4. \A f \in Listed(old) \ Listed(g) : f[1] \in Nat /\ f[1] < n /\ f[1] \notin DOMAIN g
    <2> SUFFICES ASSUME NEW f \in Listed(old) \ Listed(g)
                 PROVE  f[1] \in Nat /\ f[1] < n /\ f[1] \notin DOMAIN g
      OBVIOUS
    <2>1. PICK i \in DOMAIN old : f \in old[i].outputs
      BY ListedBy
    <2>2. f[1] = i /\ i \in Nat /\ i < n
      BY <2>1 DEF Sound
    <2>3. i \notin DOMAIN g
      BY <1>1, <2>1, ListedBy
    <2> QED BY <2>2, <2>3
  <1>5. Cardinality(Listed(g)) <= rig.maxBytes \/ DOMAIN g = Running(g)
    BY <1>1 DEF Fits, Running
  <1>6. Cardinality(DOMAIN g \ Running(g)) <= rig.maxJobs
    <2>1. IsFiniteSet(DOMAIN g) /\ rig.maxJobs \in Nat
      BY <1>2, RigAssumption DEF Sound
    <2>2. CASE Fits(g)
      <3>1. /\ Cardinality(DOMAIN g \ Running(g)) <= Cardinality(DOMAIN g) /\ Cardinality(DOMAIN g) \in Nat
            /\ Cardinality(DOMAIN g \ Running(g)) \in Nat
        BY <2>1, FS_Subset, FS_CardinalityType
      <3> QED BY <2>1, <2>2, <3>1 DEF Fits
    <2>3. CASE \A i \in DOMAIN g : g[i].state = "running"
      <3>1. DOMAIN g \ Running(g) = {}
        BY <2>3 DEF Running
      <3> QED BY <2>1, <3>1, FS_EmptySet
    <2> QED BY <1>1, <2>2, <2>3
  <1> QED BY <1>1, <1>2, <1>3, <1>4, <1>5, <1>6

----------------------------------------------------------------------------
(* Steps that leave the history alone. *)

\* What the invariant of the slots says of a media request.
LEMMA OneMedia ==
  ASSUME RouteInv, NEW c \in Medias
  PROVE  /\ Shapes /\ MediaPart(req[c], at[c], th[c]) /\ DOMAIN req[c] = MediaFields
         /\ c \in DOMAIN at /\ c \in DOMAIN req /\ c # Nobody /\ c # "startup"
  BY Everybody DEF RouteInv, Shapes, Part, MediaPart

\* The other requests stay as they are.
LEMMA OthersStay ==
  ASSUME RouteInv, UNCHANGED rig, NEW c \in Medias, Only(at, at', c), Only(req, req', c)
  PROVE  /\ Medias' = Medias
         /\ \A r \in Medias \ {c} : /\ req'[r] = req[r] /\ at'[r] = at[r]
                                    /\ Busy(r)' <=> Busy(r)
                                    /\ Unlisted(r)' <=> Unlisted(r)
  <1>1. Medias' = Medias /\ Medias \subseteq DOMAIN at /\ Medias \subseteq DOMAIN req
    BY Everybody DEF RouteInv, Shapes, Medias, AskedFor
  <1> QED BY <1>1 DEF Only, Busy, Unlisted

\* A step that leaves the history alone and keeps what the request holds.
LEMMA Quiet ==
  ASSUME RouteInv, HistoryInv, UNCHANGED <<rig, historyVars, orphans>>, NEW c \in Medias,
         Only(at, at', c), Only(req, req', c),
         req'[c].id = req[c].id, req'[c].files = req[c].files,
         req'[c].files # {} => at'[c] \in {"store", "rename"},
         Busy(c)' <=> Busy(c), Unlisted(c)' => Unlisted(c)
  PROVE  HistoryInv'
  <1>1. Medias' = Medias /\ UNCHANGED <<jobs, nextId, retired, disk, saved, saver>>
    BY OthersStay DEF historyVars
  <1>2. \A r \in Medias : /\ req'[r].id = req[r].id /\ req'[r].files = req[r].files
                          /\ req'[r].files # {} => at'[r] \in {"store", "rename"}
                          /\ Busy(r)' <=> Busy(r)
                          /\ Unlisted(r)' => Unlisted(r)
    BY OthersStay DEF HistoryInv, Owned
  <1>3. Histories' /\ (rig.persist => Existing)' /\ (~rig.persist => disk = {})' /\ Discarded'
    BY <1>1, <1>2 DEF HistoryInv, Histories, Existing, Discarded
  <1>4. Accounted'
    <2>1. HandsOf(Medias)' = HandsOf(Medias)
      BY <1>1, <1>2 DEF HandsOf
    <2> QED BY <1>1, <2>1 DEF HistoryInv, Accounted
  <1>5. \A r \in Medias : Owned(r)'
    BY <1>1, <1>2 DEF HistoryInv, Owned
  <1>6. Apart'
    BY <1>1, <1>2 DEF HistoryInv, Apart
  <1>7. Worked' /\ Bounds'
    BY <1>1, <1>2 DEF HistoryInv, Worked, Bounds
  <1> QED BY <1>1, <1>3, <1>4, <1>5, <1>6, <1>7 DEF HistoryInv

\* record_media outside store_job_outputs.
LEMMA SettledQuietly ==
  ASSUME RouteInv, HistoryInv, UNCHANGED <<rig, historyVars, orphans>>, NEW c \in Medias, NEW status,
         Settle(c, status), at[c] \in {"permit", "slot", "decode", "run", "kept", "join"}
  PROVE  HistoryInv'
  <1>0. /\ DOMAIN req[c] = MediaFields /\ c \in DOMAIN at /\ c \in DOMAIN req
    BY OneMedia
  <1>1. /\ Only(at, at', c) /\ Only(req, req', c) /\ at'[c] = "finish"
        /\ req'[c] = [req[c] EXCEPT !.records = Append(@, status), !.status = status, !.files = {}]
    BY <1>0 DEF Settle, Move, Goes, Set, Only
  <1>2. req'[c].id = req[c].id /\ req'[c].files = {}
    BY <1>0, <1>1 DEF MediaFields
  <1>3. req[c].files = {}
    BY DEF HistoryInv, Owned
  <1>4. Busy(c)' /\ Busy(c) /\ ~Unlisted(c)'
    BY <1>1 DEF Busy, Unlisted, Outside, Stage, Saving
  <1> QED BY <1>1, <1>2, <1>3, <1>4, Quiet

\* What a step changes that only moves on: nothing the history asks about.
Keeps(x, y) == y.id = x.id /\ y.files = x.files /\ y.then = x.then /\ y.cleaned = x.cleaned

\* A handler that moves on before its outputs, or not at all.
LEMMA WaitingQuietly ==
  ASSUME RouteInv, HistoryInv, UNCHANGED <<rig, ses>>, NEW c \in Medias,
         \/ Depart(c) \/ Cancel(c) \/ Permit(c) \/ GetSlot(c) \/ NoSlot(c) \/ Decode(c)
         \/ Generate(c) \/ GenerateVideo(c) \/ Transcribe(c) \/ SynthesizeWav(c)
         \/ WriteFile(c) \/ Kept(c) \/ SpeechJoin(c)
  PROVE  HistoryInv'
  <1>0. /\ DOMAIN req[c] = MediaFields /\ c \in DOMAIN at /\ c \in DOMAIN req
        /\ UNCHANGED <<rig, historyVars, orphans>>
    BY OneMedia DEF Depart, Cancel, Permit, GetSlot, NoSlot, Decode, Generate, GenerateVideo, Transcribe,
                    SynthesizeWav, WriteFile, Kept, SpeechJoin
  <1>1. CASE \E status : Settle(c, status) /\ at[c] \in {"permit", "slot", "decode", "run", "kept", "join"}
    BY <1>0, <1>1, SettledQuietly
  <1>2. CASE Depart(c) \/ Cancel(c)
    <2>1. /\ Only(at, at', c) /\ Only(req, req', c) /\ at' = at
          /\ req'[c] \in {[req[c] EXCEPT !.gone = TRUE], [req[c] EXCEPT !.cancelled = TRUE]}
      BY <1>0, <1>2 DEF Depart, Cancel, Set, Only
    <2>2. Keeps(req[c], req'[c])
      BY <1>0, <2>1 DEF Keeps, MediaFields
    <2>3. (Busy(c)' <=> Busy(c)) /\ (Unlisted(c)' <=> Unlisted(c))
      BY <2>1, <2>2 DEF Busy, Unlisted, Stage, Keeps
    <2> QED BY <1>0, <2>1, <2>2, <2>3, Quiet DEF Keeps, HistoryInv, Owned
  <1>3. CASE /\ UNCHANGED req
             /\ \/ at[c] = "permit" /\ Goes(c, "slot")
                \/ at[c] = "decode" /\ Goes(c, "run")
                \/ at[c] = "run" /\ Goes(c, "store")
                \/ at[c] = "store" /\ Goes(c, "rename")
    <2>1. /\ Only(at, at', c) /\ Only(req, req', c)
          /\ \/ at[c] = "permit" /\ at'[c] = "slot"
             \/ at[c] = "decode" /\ at'[c] = "run"
             \/ at[c] = "run" /\ at'[c] = "store"
             \/ at[c] = "store" /\ at'[c] = "rename"
      BY <1>0, <1>3 DEF Goes, Only
    <2>2. Busy(c)' /\ Busy(c) /\ Unlisted(c)
      BY <2>1 DEF Busy, Unlisted, Outside, Stage, Saving
    <2> QED BY <1>0, <1>3, <2>1, <2>2, Quiet DEF HistoryInv, Owned
  <1>4. CASE GetSlot(c)
    <2>1. PICK s : req' = [req EXCEPT ![c] = [req[c] EXCEPT !.slot = s]]
      BY <1>4 DEF GetSlot, Set
    <2>2. /\ Only(at, at', c) /\ Only(req, req', c) /\ at[c] = "slot" /\ at'[c] \in {"decode", "enter", "run"}
          /\ req'[c] = [req[c] EXCEPT !.slot = s]
      BY <1>0, <1>4, <2>1 DEF GetSlot, Goes, Only
    <2>3. Keeps(req[c], req'[c])
      BY <1>0, <2>2 DEF Keeps, MediaFields
    <2>4. Busy(c)' /\ Busy(c) /\ Unlisted(c)
      BY <2>2 DEF Busy, Unlisted, Outside, Stage, Saving
    <2> QED BY <1>0, <2>2, <2>3, <2>4, Quiet DEF Keeps, HistoryInv, Owned
  <1> QED BY <1>1, <1>2, <1>3, <1>4 DEF Permit, NoSlot, Decode, Generate, GenerateVideo, CallFails, Transcribe,
                    SynthesizeWav, WriteFile, Kept, SpeechJoin

\* Asking for the cleanup of a stream.
LEMMA FinishKeeps ==
  ASSUME RouteInv, NEW c \in Medias, NEW m, NEW by, NEW status, Keeps(req[c], m), DOMAIN m = MediaFields,
         Finish(c, m, by, status)
  PROVE  Only(at, at', c) /\ Only(req, req', c) /\ Keeps(req[c], req'[c]) /\ at'[c] = "cleanup"
  <1>0. c \in DOMAIN at /\ c \in DOMAIN req
    BY OneMedia
  <1>1. req'[c] = [m EXCEPT !.last = by, !.status = status]
    BY <1>0 DEF Finish, Move, Set
  <1>2. Keeps(req[c], req'[c])
    BY <1>1 DEF Keeps, MediaFields
  <1> QED BY <1>0, <1>2 DEF Finish, Move, Goes, Set, Only

\* The worker of a stream, its provider and its cleanup; a slot given back.
LEMMA SpeakingQuietly ==
  ASSUME RouteInv, HistoryInv, UNCHANGED <<rig, ses>>, NEW c \in Medias,
         \/ SpeechCall(c) \/ SpeechPush(c) \/ SpeechReturn(c) \/ SpeechWrite(c) \/ SpeechAgain(c)
         \/ SpeechEnd(c) \/ SpeechReleaser(c) \/ SpeechFinish(c) \/ GiveBack(c)
  PROVE  HistoryInv'
  <1> USE DEF Keeps
  <1>0. /\ DOMAIN req[c] = MediaFields /\ c \in DOMAIN at /\ c \in DOMAIN req
        /\ UNCHANGED <<rig, historyVars, orphans>> /\ MediaPart(req[c], at[c], th[c])
    BY OneMedia DEF SpeechCall, SpeechPush, SpeechReturn, SpeechWrite, SpeechAgain, SpeechEnd, SpeechReleaser,
                    SpeechFinish, GiveBack
  <1>1. CASE SpeechCall(c) \/ SpeechPush(c) \/ SpeechReturn(c)
    <2>1. /\ Only(at, at', c) /\ Only(req, req', c) /\ at' = at
      BY <1>0, <1>1 DEF SpeechCall, SpeechPush, SpeechReturn, Set, Only
    <2>2. Keeps(req[c], req'[c])
      <3>1. CASE UNCHANGED req
        BY <3>1
      <3>2. CASE SpeechPush(c)
        BY <1>0, <3>2 DEF SpeechPush, Set, MediaFields
      <3>3. CASE SpeechReturn(c)
        BY <1>0, <3>3 DEF SpeechReturn, Set, MediaFields
      <3> QED BY <1>1, <3>1, <3>2, <3>3 DEF SpeechCall
    <2>3. (Busy(c)' <=> Busy(c)) /\ (Unlisted(c)' <=> Unlisted(c))
      BY <2>1, <2>2 DEF Busy, Unlisted, Stage
    <2> QED BY <1>0, <2>1, <2>2, <2>3, Quiet DEF HistoryInv, Owned
  <1>2. CASE SpeechWrite(c) \/ SpeechAgain(c) \/ SpeechEnd(c) \/ SpeechReleaser(c)
    <2>0. Keeps(req[c], req[c]) /\ Keeps(req[c], [req[c] EXCEPT !.queue = Tail(@)])
          /\ DOMAIN [req[c] EXCEPT !.queue = Tail(@)] = MediaFields
      BY <1>0 DEF MediaFields
    <2>1. /\ Only(at, at', c) /\ Only(req, req', c) /\ at[c] \in {"enter", "again", "releaser"}
          /\ at'[c] \in {"enter", "again", "cleanup"} /\ (at[c] = "releaser" => at'[c] = "cleanup")
          /\ Keeps(req[c], req'[c])
      <3>1. CASE SpeechWrite(c)
        <4>1. CASE Move(c, "again", [[req[c] EXCEPT !.queue = Tail(@)] EXCEPT !.sent = Append(@, Head(req[c].queue))])
          <5>1. Keeps(req[c], req'[c])
            BY <1>0, <4>1 DEF Move, Set, MediaFields
          <5> QED BY <1>0, <3>1, <4>1, <5>1 DEF SpeechWrite, Move, Goes, Set, Only
        <4>2. CASE Finish(c, [req[c] EXCEPT !.queue = Tail(@)], "provider", 499)
          <5> DEFINE m == [req[c] EXCEPT !.queue = Tail(@)]
          <5>1. Keeps(req[c], m) /\ DOMAIN m = MediaFields /\ Finish(c, m, "provider", 499)
            BY <2>0, <4>2
          <5> HIDE DEF m, Keeps
          <5>2. Only(at, at', c) /\ Only(req, req', c) /\ Keeps(req[c], req'[c]) /\ at'[c] = "cleanup"
            BY <5>1, FinishKeeps
          <5> QED BY <3>1, <5>2 DEF SpeechWrite
        <4> QED BY <3>1, <4>1, <4>2 DEF SpeechWrite
      <3>2. CASE SpeechAgain(c)
        BY <1>0, <3>2 DEF SpeechAgain, Goes, Only
      <3>3. CASE SpeechEnd(c)
        BY <1>0, <2>0, <3>3, FinishKeeps DEF SpeechEnd
      <3>4. CASE SpeechReleaser(c)
        BY <1>0, <2>0, <3>4, FinishKeeps DEF SpeechReleaser
      <3> QED BY <1>2, <3>1, <3>2, <3>3, <3>4
    <2>2. (Busy(c)' <=> Busy(c)) /\ ~Unlisted(c)' /\ req[c].files = {}
      BY <1>0, <2>1 DEF Busy, Unlisted, Stage, Saving, Outside, MediaPart, HistoryInv, Owned
    <2> QED BY <1>0, <2>1, <2>2, Quiet
  <1>3. CASE SpeechFinish(c) /\ req[c].cleaned
    <2>1. /\ Only(at, at', c) /\ Only(req, req', c) /\ at[c] = "cleanup" /\ at'[c] = "closed" /\ req' = req
      BY <1>0, <1>3 DEF SpeechFinish, Goes, Only
    <2>2. ~Busy(c)' /\ ~Busy(c) /\ ~Unlisted(c)' /\ req[c].files = {}
      BY <1>3, <2>1 DEF Busy, Unlisted, Stage, Saving, Outside, HistoryInv, Owned
    <2> QED BY <1>0, <2>1, <2>2, Quiet
  <1>4. CASE SpeechFinish(c) /\ ~req[c].cleaned
    <2>1. /\ Only(at, at', c) /\ Only(req, req', c) /\ at[c] = "cleanup" /\ at'[c] = "join"
          /\ req'[c] = [req[c] EXCEPT !.cleaned = TRUE, !.aborted = (req[c].status = 499)]
      BY <1>0, <1>4 DEF SpeechFinish, Move, Goes, Set, Only
    <2>2. req'[c].id = req[c].id /\ req'[c].files = req[c].files
      BY <1>0, <2>1 DEF MediaFields
    <2>3. Busy(c)' /\ Busy(c) /\ ~Unlisted(c)' /\ req[c].files = {}
      BY <1>4, <2>1 DEF Busy, Unlisted, Stage, Saving, Outside, HistoryInv, Owned
    <2> QED BY <1>0, <2>1, <2>2, <2>3, Quiet
  <1>5. CASE GiveBack(c)
    <2>1. /\ Only(at, at', c) /\ Only(req, req', c) /\ at[c] = "leave" /\ at'[c] \in {"releaser", "closed"}
          /\ req' = req
      BY <1>0, <1>5 DEF GiveBack, Goes, Only
    <2>2. ~Busy(c)' /\ ~Busy(c) /\ ~Unlisted(c)' /\ req[c].files = {}
      BY <2>1 DEF Busy, Unlisted, Stage, Saving, Outside, HistoryInv, Owned
    <2> QED BY <1>0, <2>1, <2>2, Quiet
  <1> QED BY <1>1, <1>2, <1>3, <1>4, <1>5

----------------------------------------------------------------------------
(* A job begins, is attached to its outputs, ends. *)

\* begin_job: a new id, a running job that lists nothing.
LEMMA Begins ==
  ASSUME RouteInv, HistoryInv, UNCHANGED <<rig, ses>>, NEW c \in Medias, Begin(c)
  PROVE  HistoryInv'
  <1>0. /\ DOMAIN req[c] = MediaFields /\ c \in DOMAIN at /\ c \in DOMAIN req
    BY OneMedia
  <1>1. PICK then \in {"permit", "slot"} : req'[c] = [[req[c] EXCEPT !.id = nextId] EXCEPT !.then = then]
    BY <1>0 DEF Begin, Persist, Move, Set
  <1>2. /\ Only(at, at', c) /\ Only(req, req', c) /\ at[c] = "idle" /\ at'[c] = "persist"
        /\ UNCHANGED <<saver, saved, retired, disk, orphans>> /\ nextId' = nextId + 1
        /\ jobs' = [i \in DOMAIN jobs \cup {nextId} |->
                      IF i = nextId THEN [state |-> "running", outputs |-> {}] ELSE jobs[i]]
    BY <1>0 DEF Begin, Persist, Move, Goes, Set, Only
  <1>3. req'[c].id = nextId /\ req'[c].then = then /\ req'[c].files = req[c].files /\ req[c].files = {}
    BY <1>0, <1>1, <1>2 DEF MediaFields, HistoryInv, Owned
  <1>4. Busy(c)' /\ Unlisted(c)' /\ ~Busy(c)
    BY <1>2, <1>3 DEF Busy, Unlisted, Outside, Stage, Saving
  <1>5. Medias' = Medias /\ \A r \in Medias \ {c} : /\ req'[r] = req[r] /\ at'[r] = at[r] /\ (Busy(r)' <=> Busy(r))
                                                   /\ (Unlisted(r)' <=> Unlisted(r))
    BY <1>2, OthersStay
  <1>6. /\ nextId \in Nat /\ nextId \notin DOMAIN jobs /\ nextId \notin DOMAIN saved /\ nextId \notin DOMAIN saver.snap
    BY DEF HistoryInv, Histories, Sound
  <1>7. /\ DOMAIN jobs' = DOMAIN jobs \cup {nextId} /\ jobs'[nextId] = [state |-> "running", outputs |-> {}]
        /\ \A i \in DOMAIN jobs : jobs'[i] = jobs[i]
    BY <1>2, <1>6
  <1>8. Listed(jobs') = Listed(jobs) /\ Running(jobs') = Running(jobs) \cup {nextId}
    BY <1>6, <1>7 DEF Listed, Running
  <1>9. Histories'
    <2>1. \A h : Sound(h, nextId) => Sound(h, nextId + 1)
      BY <1>6 DEF Sound
    <2>2. IsFiniteSet(DOMAIN jobs')
      BY <1>7, FS_AddElement DEF HistoryInv, Histories, Sound
    <2>3. Sound(jobs', nextId + 1)
      BY <1>6, <1>7, <2>2 DEF HistoryInv, Histories, Sound, JobFields
    <2> QED BY <1>2, <1>6, <2>1, <2>3 DEF HistoryInv, Histories
  <1>10. HandsOf(Medias)' = HandsOf(Medias) /\ \A r \in Medias : req'[r].files = req[r].files
    <2>1. \A r \in Medias : req'[r].files = req[r].files
      BY <1>3, <1>5
    <2> QED BY <1>5, <2>1 DEF HandsOf
  <1>11. (rig.persist => Existing)' /\ (~rig.persist => disk = {})'
    BY <1>2, <1>5, <1>8, <1>10 DEF HistoryInv, Existing
  <1>12. Discarded'
    BY <1>2, <1>6, <1>7 DEF HistoryInv, Discarded
  <1>17. Accounted'
    BY <1>2, <1>8, <1>10 DEF HistoryInv, Accounted
  <1>13. ASSUME NEW r \in Medias PROVE Owned(r)'
    <2>1. CASE r = c
      BY <1>2, <1>3, <1>4, <1>6, <1>7, <1>8, <2>1 DEF Owned, Bare
    <2>2. CASE r # c
      <3>1. /\ req'[r] = req[r] /\ at'[r] = at[r] /\ (Busy(r)' <=> Busy(r)) /\ (Unlisted(r)' <=> Unlisted(r))
        BY <1>5, <2>2
      <3>2. Bare(jobs, req[r].id) => Bare(jobs', req[r].id)
        BY <1>7 DEF Bare
      <3> QED BY <1>2, <1>8, <3>1, <3>2 DEF HistoryInv, Owned
    <2> QED BY <2>1, <2>2
  <1>14. \A r \in Medias \ {c} : /\ req'[r].id = req[r].id /\ (Busy(r)' <=> Busy(r))
                                /\ Busy(r) => req[r].id # nextId
    BY <1>5, <1>6 DEF HistoryInv, Owned, Running
  <1>15. Apart'
    BY <1>3, <1>5, <1>14 DEF HistoryInv, Apart
  <1>18. Worked'
    BY <1>3, <1>4, <1>5, <1>8, <1>14 DEF HistoryInv, Worked
  <1>16. Bounds'
    <2>1. DOMAIN jobs' \ Running(jobs') = DOMAIN jobs \ Running(jobs)
      BY <1>6, <1>7, <1>8 DEF Running
    <2> QED BY <1>7, <1>8, <2>1 DEF HistoryInv, Bounds
  <1> QED BY <1>5, <1>9, <1>11, <1>12, <1>13, <1>15, <1>16, <1>17, <1>18 DEF HistoryInv

\* prune_jobs_locked after a change of one request's job.
LEMMA Updates ==
  ASSUME RouteInv, HistoryInv, UNCHANGED <<rig, nextId, disk, saved, saver, orphans>>, NEW c \in Medias,
         Only(at, at', c), Only(req, req', c), req'[c].id = req[c].id, req'[c].files = {}, Busy(c), ~Unlisted(c)',
         NEW job, DOMAIN job = JobFields, jobs[req[c].id].outputs \subseteq job.outputs,
         job.outputs = jobs[req[c].id].outputs \cup req[c].files,
         Busy(c)' <=> job.state = "running",
         Update([jobs EXCEPT ![req[c].id] = job]),
         \A f \in job.outputs : f[1] = req[c].id,
         req[c].files # {} => job.state = "running"
  PROVE  HistoryInv'
  <1> DEFINE h == [jobs EXCEPT ![req[c].id] = job]
             g == Pruned(h)
  <1>0. /\ req[c].id \in DOMAIN jobs /\ jobs[req[c].id].state = "running" /\ rig \in Rigs /\ Sound(jobs, nextId)
    BY DEF HistoryInv, Histories, Owned, Running, RouteInv, Shapes
  <1>1. /\ DOMAIN h = DOMAIN jobs /\ h[req[c].id] = job /\ \A i \in DOMAIN jobs \ {req[c].id} : h[i] = jobs[i]
    BY <1>0
  <1> HIDE DEF h
  <1>2. Sound(h, nextId)
    BY <1>0, <1>1 DEF Sound
  <1>3. /\ Sound(g, nextId) /\ DOMAIN g \subseteq DOMAIN jobs /\ Running(g) = Running(h)
        /\ \A i \in DOMAIN g : g[i] = h[i]
        /\ Cardinality(Listed(g)) <= rig.maxBytes \/ DOMAIN g = Running(g)
        /\ Cardinality(DOMAIN g \ Running(g)) <= rig.maxJobs
        /\ Listed(g) \subseteq Listed(h)
        /\ \A f \in Listed(jobs) \ Listed(g) : f[1] \in Nat /\ f[1] < nextId /\ f[1] \notin DOMAIN g
    <2>1. \A i \in DOMAIN h : jobs[i].outputs \subseteq h[i].outputs
      BY <1>1
    <2> QED BY <1>0, <1>1, <1>2, <2>1, UpdateKeeps
  <1> HIDE DEF g
  <1>4. jobs' = g /\ retired' = retired \cup IF rig.persist THEN Listed(jobs) \ Listed(g) ELSE {}
    BY DEF Update, g, h
  <1>5. Medias' = Medias /\ \A r \in Medias \ {c} : /\ req'[r] = req[r] /\ at'[r] = at[r] /\ (Busy(r)' <=> Busy(r))
                                                   /\ (Unlisted(r)' <=> Unlisted(r))
    BY OthersStay
  <1>6. Listed(h) = Listed(jobs) \cup req[c].files
    BY <1>0, <1>1 DEF Listed
  <1>7. req[c].files \subseteq Listed(g)
    <2>1. CASE req[c].files = {}
      BY <2>1
    <2>2. CASE req[c].files # {}
      <3>1. req[c].id \in Running(g)
        BY <1>0, <1>1, <1>3, <2>2 DEF Running
      <3>2. req[c].id \in DOMAIN g /\ g[req[c].id].outputs = job.outputs
        BY <1>1, <1>3, <3>1 DEF Running
      <3> QED BY <3>2, ListedBy
    <2> QED BY <2>1, <2>2
  <1>8. Histories'
    BY <1>3, <1>4 DEF HistoryInv, Histories
  <1>9. (rig.persist => Existing)' /\ (~rig.persist => disk = {})'
    BY <1>3, <1>4, <1>5, <1>6 DEF HistoryInv, Existing
  <1>10. Discarded'
    BY <1>3, <1>4 DEF HistoryInv, Discarded
  <1>11. Accounted'
    <2>1. \A f \in HandsOf(Medias) : f \in Listed(g) \/ f \in HandsOf(Medias)'
      <3>1. \A f : f \in HandsOf(Medias)' <=> \E r \in Medias : f \in req'[r].files
        BY <1>5 DEF HandsOf
      <3> QED BY <1>5, <1>7, <3>1, HandsBy
    <2>2. CASE rig.persist
      BY <1>4, <2>1, <2>2 DEF HistoryInv, Accounted
    <2>3. CASE ~rig.persist
      BY <2>3 DEF HistoryInv, Accounted
    <2> QED BY <2>2, <2>3
  <1>12. Running(jobs') = IF job.state = "running" THEN Running(jobs) ELSE Running(jobs) \ {req[c].id}
    <2>1. Running(h) = IF job.state = "running" THEN Running(jobs) ELSE Running(jobs) \ {req[c].id}
      BY <1>0, <1>1 DEF Running
    <2> QED BY <1>3, <1>4, <2>1
  <1>13. ASSUME NEW r \in Medias PROVE Owned(r)'
    <2>1. CASE r = c
      BY <1>0, <1>12, <2>1 DEF Owned, HistoryInv
    <2>2. CASE r # c
      <3>1. Busy(r) => req[r].id # req[c].id
        BY <2>2 DEF HistoryInv, Apart
      <3>2. Unlisted(r) => Busy(r)
        BY DEF Unlisted, Busy, Stage, Outside, Saving
      <3>3. Unlisted(r) /\ Bare(jobs, req[r].id) => Bare(jobs', req[r].id)
        BY <1>1, <1>3, <1>4, <3>1, <3>2 DEF Bare
      <3> QED BY <1>5, <1>12, <2>2, <3>1, <3>3 DEF HistoryInv, Owned
    <2> QED BY <2>1, <2>2
  <1>14. Apart'
    BY <1>5 DEF HistoryInv, Apart
  <1>15. Worked'
    BY <1>5, <1>12 DEF HistoryInv, Worked
  <1>16. Bounds'
    BY <1>3, <1>4 DEF Bounds
  <1> QED BY <1>5, <1>8, <1>9, <1>10, <1>11, <1>13, <1>14, <1>15, <1>16 DEF HistoryInv

\* store_job_outputs lists the files in the job, which runs; finish_job ends it.
LEMMA AttachesOrEnds ==
  ASSUME RouteInv, HistoryInv, UNCHANGED <<rig, ses>>, NEW c \in Medias, Attach(c) \/ FinishJob(c)
  PROVE  HistoryInv'
  <1>0. /\ DOMAIN req[c] = MediaFields /\ c \in DOMAIN at /\ c \in DOMAIN req
    BY OneMedia
  <1>1. Busy(c)
    BY DEF Attach, FinishJob, Busy, Outside, Stage, Saving
  <1>2. /\ req[c].id \in DOMAIN jobs /\ DOMAIN jobs[req[c].id] = JobFields /\ jobs[req[c].id].state = "running"
        /\ \A f \in req[c].files \cup jobs[req[c].id].outputs : f[1] = req[c].id
    BY <1>1 DEF HistoryInv, Histories, Owned, Running, Sound
  <1>3. CASE Attach(c)
    <2> DEFINE job == [jobs[req[c].id] EXCEPT !.outputs = req[c].files]
    <2>1. /\ UNCHANGED <<rig, nextId, disk, saved, saver, orphans>>
          /\ Only(at, at', c) /\ Only(req, req', c) /\ at[c] = "store" /\ at'[c] = "persist"
          /\ req'[c] = [[req[c] EXCEPT !.files = {}] EXCEPT !.then = "kept"]
      BY <1>0, <1>3 DEF Attach, Persist, Move, Goes, Set, Only
    <2>2. req'[c].id = req[c].id /\ req'[c].files = {} /\ req'[c].then = "kept"
      BY <1>0, <2>1 DEF MediaFields
    <2>3. Busy(c)' /\ ~Unlisted(c)' /\ Unlisted(c)
      BY <2>1, <2>2 DEF Busy, Unlisted, Outside, Stage, Saving
    <2>4. jobs[req[c].id].outputs = {}
      BY <1>2, <2>3 DEF HistoryInv, Owned, Bare
    <2>5. DOMAIN job = JobFields /\ job.outputs = req[c].files /\ job.state = "running"
      BY <1>2 DEF JobFields
    <2>6. [jobs EXCEPT ![req[c].id].outputs = req[c].files] = [jobs EXCEPT ![req[c].id] = job]
      BY <1>2
    <2>7. Update([jobs EXCEPT ![req[c].id] = job])
      BY <1>3, <2>6 DEF Attach
    <2> HIDE DEF job
    <2>8. /\ jobs[req[c].id].outputs \subseteq job.outputs /\ (Busy(c)' <=> job.state = "running")
          /\ job.outputs = jobs[req[c].id].outputs \cup req[c].files /\ \A f \in job.outputs : f[1] = req[c].id
          /\ (req[c].files # {} => job.state = "running")
      BY <1>2, <2>3, <2>4, <2>5
    <2> QED BY <1>1, <2>1, <2>2, <2>3, <2>5, <2>7, <2>8, Updates
  <1>4. CASE FinishJob(c)
    <2> DEFINE job == [jobs[req[c].id] EXCEPT !.state = Outcome(req[c].status)]
    <2>1. /\ UNCHANGED <<rig, nextId, disk, saved, saver, orphans>>
          /\ Only(at, at', c) /\ Only(req, req', c) /\ at[c] = "finish" /\ at'[c] = "persist"
          /\ req'[c] = [req[c] EXCEPT !.then = "leave"]
      BY <1>0, <1>4 DEF FinishJob, Persist, Move, Goes, Set, Only
    <2>2. req'[c].id = req[c].id /\ req'[c].files = {} /\ req'[c].then = "leave" /\ req[c].files = {}
      BY <1>0, <2>1 DEF MediaFields, HistoryInv, Owned
    <2>3. ~Busy(c)' /\ ~Unlisted(c)'
      BY <2>1, <2>2 DEF Busy, Unlisted, Outside, Stage, Saving
    <2>4. Outcome(req[c].status) # "running"
      BY DEF Outcome
    <2>5. DOMAIN job = JobFields /\ job.outputs = jobs[req[c].id].outputs /\ job.state # "running"
      BY <1>2, <2>4 DEF JobFields
    <2>6. [jobs EXCEPT ![req[c].id].state = Outcome(req[c].status)] = [jobs EXCEPT ![req[c].id] = job]
      BY <1>2
    <2>7. Update([jobs EXCEPT ![req[c].id] = job])
      BY <1>4, <2>6 DEF FinishJob
    <2> HIDE DEF job
    <2>8. /\ jobs[req[c].id].outputs \subseteq job.outputs /\ (Busy(c)' <=> job.state = "running")
          /\ job.outputs = jobs[req[c].id].outputs \cup req[c].files /\ \A f \in job.outputs : f[1] = req[c].id
          /\ (req[c].files # {} => job.state = "running")
      BY <1>2, <2>2, <2>3, <2>5
    <2> QED BY <1>1, <2>1, <2>2, <2>3, <2>5, <2>7, <2>8, Updates
  <1> QED BY <1>3, <1>4

\* What std::filesystem::remove leaves of the files it is given is an orphan.
LEMMA DeletedOrKept ==
  ASSUME NEW S, Delete(S)
  PROVE  /\ disk \ S \subseteq disk' /\ disk' \subseteq disk
         /\ disk' \cap S \subseteq orphans' /\ orphans \subseteq orphans'
  BY DEF Delete

\* store_job_outputs puts a file in place, or takes back those it wrote.
LEMMA Stores ==
  ASSUME RouteInv, HistoryInv, UNCHANGED <<rig, ses>>, NEW c \in Medias, Rename(c) \/ WriteFails(c)
  PROVE  HistoryInv'
  <1>0. /\ DOMAIN req[c] = MediaFields /\ c \in DOMAIN at /\ c \in DOMAIN req
    BY OneMedia
  <1>1. /\ UNCHANGED <<jobs, nextId, retired, saved, saver>> /\ at[c] = "rename"
        /\ Only(at, at', c) /\ Only(req, req', c) /\ at'[c] \in {"store", "finish"}
    BY <1>0 DEF Rename, WriteFails, Settle, Move, Goes, Set, Only
  <1>2. Busy(c)' /\ Busy(c) /\ Unlisted(c) /\ (Unlisted(c)' => at'[c] = "store")
    BY <1>1 DEF Busy, Unlisted, Outside, Stage, Saving
  <1>3. Medias' = Medias /\ \A r \in Medias \ {c} : /\ req'[r] = req[r] /\ at'[r] = at[r] /\ (Busy(r)' <=> Busy(r))
                                                   /\ (Unlisted(r)' <=> Unlisted(r))
    BY <1>1, OthersStay
  <1>4. /\ req'[c].id = req[c].id
        /\ \/ /\ req'[c].files = req[c].files \cup {File(c)} /\ at'[c] = "store"
              /\ disk' = IF rig.persist THEN disk \cup {File(c)} ELSE disk
              /\ orphans' = orphans
           \/ /\ req'[c].files = {} /\ disk \ req[c].files \subseteq disk' /\ disk' \subseteq disk
              /\ disk' \cap req[c].files \subseteq orphans' /\ orphans \subseteq orphans'
    <2>1. CASE Rename(c)
      <3>1. /\ at'[c] = "store" /\ req'[c] = [req[c] EXCEPT !.files = @ \cup {File(c)}]
            /\ disk' = IF rig.persist THEN disk \cup {File(c)} ELSE disk
            /\ orphans' = orphans
        BY <1>0, <2>1 DEF Rename, Move, Goes, Set
      <3>2. req'[c].id = req[c].id /\ req'[c].files = req[c].files \cup {File(c)}
        BY <1>0, <3>1 DEF MediaFields
      <3> QED BY <3>1, <3>2
    <2>2. CASE WriteFails(c)
      <3>1. req'[c] = [req[c] EXCEPT !.records = Append(@, 200), !.status = 200, !.files = {}]
        BY <1>0, <2>2 DEF WriteFails, Settle, Move, Set
      <3>2. /\ disk \ req[c].files \subseteq disk' /\ disk' \subseteq disk
            /\ disk' \cap req[c].files \subseteq orphans' /\ orphans \subseteq orphans'
        BY <2>2, DeletedOrKept DEF WriteFails
      <3>3. req'[c].id = req[c].id /\ req'[c].files = {}
        BY <1>0, <3>1 DEF MediaFields
      <3> QED BY <3>2, <3>3
    <2> QED BY <2>1, <2>2
  <1>5. File(c)[1] = req[c].id
    BY DEF File
  <1>6. /\ \A f \in req[c].files : f[1] = req[c].id
        /\ Bare(jobs, req[c].id) /\ Bare(saved, req[c].id) /\ Bare(saver.snap, req[c].id)
        /\ Sound(jobs, nextId) /\ Sound(saved, nextId) /\ Sound(saver.snap, nextId)
    BY <1>2 DEF HistoryInv, Owned, Histories
  <1>7. ASSUME NEW h, Sound(h, nextId), Bare(h, req[c].id) PROVE Listed(h) \cap req[c].files = {}
    <2> SUFFICES ASSUME NEW f \in Listed(h), f \in req[c].files PROVE FALSE
      OBVIOUS
    <2>1. PICK i \in DOMAIN h : f \in h[i].outputs
      BY ListedBy
    <2>2. i = req[c].id
      BY <1>6, <1>7, <2>1 DEF Sound
    <2> QED BY <1>7, <2>1, <2>2 DEF Bare
  <1>8. /\ Listed(jobs) \cap req[c].files = {} /\ Listed(saved) \cap req[c].files = {}
        /\ Listed(saver.snap) \cap req[c].files = {}
    BY <1>6, <1>7
  <1>9. ASSUME NEW r \in Medias, r # c PROVE req[r].files \cap req[c].files = {}
    <2>1. req[r].files # {} => Busy(r)
      BY DEF HistoryInv, Owned, Busy, Outside, Stage, Saving
    <2>2. Busy(r) => req[r].id # req[c].id
      BY <1>2, <1>9 DEF HistoryInv, Apart
    <2>3. \A f \in req[r].files : f[1] = req[r].id
      BY DEF HistoryInv, Owned
    <2> QED BY <1>6, <2>1, <2>2, <2>3
  <1>10. Histories' /\ Discarded' /\ Worked' /\ Bounds'
    <2>1. Histories' /\ Discarded' /\ Bounds'
      BY <1>1 DEF HistoryInv, Histories, Discarded, Bounds
    <2>2. Worked'
      BY <1>1, <1>2, <1>3, <1>4 DEF HistoryInv, Worked
    <2> QED BY <2>1, <2>2
  <1>11. Apart'
    BY <1>2, <1>3, <1>4 DEF HistoryInv, Apart
  <1>12. ASSUME rig.persist PROVE Existing'
    <2>1. Listed(jobs) \subseteq disk' /\ Listed(saved) \subseteq disk'
          /\ (saver.phase = "save" => Listed(saver.snap) \subseteq disk')
      BY <1>4, <1>8, <1>12 DEF HistoryInv, Existing
    <2>2. ASSUME NEW r \in Medias PROVE req'[r].files \subseteq disk'
      BY <1>3, <1>4, <1>9, <1>12 DEF HistoryInv, Existing
    <2> QED BY <1>1, <1>3, <1>12, <2>1, <2>2 DEF HistoryInv, Existing
  <1>13. ~rig.persist => disk' = {}
    BY <1>4 DEF HistoryInv
  <1>14. Accounted'
    <2>1. \A f : f \in HandsOf(Medias)' <=> \E r \in Medias : f \in req'[r].files
      BY <1>3 DEF HandsOf
    <2>2. \A f \in disk' : f \in HandsOf(Medias) => f \in HandsOf(Medias)' \/ f \in orphans'
      BY <1>3, <1>4, <2>1, HandsBy
    <2>3. \A f \in disk' : f \in disk \/ f \in HandsOf(Medias)'
      BY <1>4, <2>1
    <2> QED BY <1>1, <1>4, <2>2, <2>3 DEF HistoryInv, Accounted
  <1>15. ASSUME NEW r \in Medias PROVE Owned(r)'
    <2>1. CASE r = c
      BY <1>1, <1>2, <1>4, <1>5, <1>6, <2>1 DEF HistoryInv, Owned
    <2>2. CASE r # c
      BY <1>1, <1>3, <2>2 DEF HistoryInv, Owned
    <2> QED BY <2>1, <2>2
  <1> QED BY <1>3, <1>10, <1>11, <1>12, <1>13, <1>14, <1>15 DEF HistoryInv

----------------------------------------------------------------------------
(* The history file and a crash. *)

\* Whoever holds the mutex goes on where the save interrupted it.
LEMMA MutexMoves ==
  ASSUME RouteInv, UNCHANGED <<rig, req>>, NEW c \in Medias, Only(at, at', c),
         at[c] \in {"persist"} \cup Saving, at'[c] \in {req[c].then} \cup Saving
  PROVE  /\ Medias' = Medias
         /\ \A r \in Medias : (Busy(r)' <=> Busy(r)) /\ (Unlisted(r)' <=> Unlisted(r))
         /\ \A r \in Medias : at[r] \in {"store", "rename"} => at'[r] = at[r]
  <1>0. req[c].then \in {"permit", "slot", "kept", "leave"}
    BY OneMedia DEF MediaPart
  <1>1. (Busy(c)' <=> Busy(c)) /\ (Unlisted(c)' <=> Unlisted(c))
    BY <1>0 DEF Busy, Unlisted, Stage, Saving, Outside
  <1>2. Only(req, req', c)
    BY DEF Only
  <1>3. Medias' = Medias /\ \A r \in Medias \ {c} : /\ req'[r] = req[r] /\ at'[r] = at[r] /\ (Busy(r)' <=> Busy(r))
                                                   /\ (Unlisted(r)' <=> Unlisted(r))
    BY <1>2, OthersStay
  <1> QED BY <1>1, <1>3 DEF Saving

\* The requests as Save, SaveFails, Sweep and Snapshot leave them.
Resting ==
    /\ Medias' = Medias /\ UNCHANGED <<rig, req>>
    /\ \A r \in Medias : (Busy(r)' <=> Busy(r)) /\ (Unlisted(r)' <=> Unlisted(r))
    /\ \A r \in Medias : at[r] \in {"store", "rename"} => at'[r] = at[r]

\* What follows for the requests when the jobs stay.
LEMMA RestingKeeps ==
  ASSUME HistoryInv, Resting, UNCHANGED jobs, saver'.snap \in {saver.snap, jobs, <<>>}, saved' \in {saved, saver.snap}
  PROVE  (\A r \in Medias : Owned(r)') /\ Apart' /\ Worked' /\ Bounds' /\ HandsOf(Medias)' = HandsOf(Medias)
  <1>1. ASSUME NEW r \in Medias PROVE Owned(r)'
    <2>1. Unlisted(r) => /\ Bare(jobs, req[r].id) /\ Bare(saved', req[r].id)
                         /\ Bare(saver.snap, req[r].id) /\ Bare(saver'.snap, req[r].id)
      BY DEF HistoryInv, Owned, Bare
    <2> QED BY <2>1 DEF HistoryInv, Owned, Resting
  <1>2. Apart' /\ Worked'
    BY DEF HistoryInv, Apart, Worked, Resting
  <1>3. Bounds'
    BY DEF HistoryInv, Bounds, Resting
  <1>4. HandsOf(Medias)' = HandsOf(Medias)
    BY DEF HandsOf, Resting
  <1> QED BY <1>1, <1>2, <1>3, <1>4

\* An empty history is sound.
LEMMA EmptySound ==
  ASSUME NEW n
  PROVE  Sound(<<>>, n)
  BY FS_EmptySet DEF Sound

\* persist_jobs_or_warn takes the mutex and a snapshot.
LEMMA Snaps ==
  ASSUME RouteInv, HistoryInv, UNCHANGED <<rig, ses>>, NEW c \in Medias, Snapshot(c)
  PROVE  HistoryInv'
  <1>1. /\ c \in DOMAIN at /\ at[c] = "persist" /\ saver.who = Nobody /\ c # Nobody
        /\ UNCHANGED <<jobs, nextId, disk, saved, orphans, req, rig>>
        /\ \/ /\ UNCHANGED <<saver, retired>> /\ at' = [at EXCEPT ![c] = req[c].then]
           \/ /\ saver' = [who |-> c, phase |-> "save", snap |-> jobs, retired |-> retired] /\ retired' = {}
              /\ at' = [at EXCEPT ![c] = "saving"]
    BY OneMedia DEF Snapshot, Goes
  <1>2. Resting
    BY <1>1, MutexMoves DEF Resting, Only, Saving
  <1>3. saver'.snap \in {saver.snap, jobs}
    BY <1>1
  <1>4. (\A r \in Medias : Owned(r)') /\ Apart' /\ Worked' /\ Bounds' /\ HandsOf(Medias)' = HandsOf(Medias)
    BY <1>1, <1>2, <1>3, RestingKeeps
  <1>5. Histories'
    BY <1>1, <1>3 DEF HistoryInv, Histories
  <1>6. (rig.persist => Existing)' /\ (~rig.persist => disk = {})'
    BY <1>1, <1>2 DEF HistoryInv, Existing, Resting
  <1>7. Discarded'
    BY <1>1 DEF HistoryInv, Discarded
  <1>8. Accounted'
    BY <1>1, <1>4 DEF HistoryInv, Accounted, Discarded
  <1> QED BY <1>2, <1>4, <1>5, <1>6, <1>7, <1>8 DEF HistoryInv, Resting

\* save_json_file replaces the file or fails; then the retired files go.
LEMMA Saves ==
  ASSUME RouteInv, HistoryInv, UNCHANGED <<rig, ses>>, Save \/ SaveFails \/ Sweep
  PROVE  HistoryInv'
  <1>0. /\ UNCHANGED <<jobs, nextId, req, rig>> /\ Shapes
        /\ DOMAIN saver = {"who", "phase", "snap", "retired"} /\ Medias' = Medias
        /\ Nobody \notin Medias /\ saver.who # Nobody
    BY Everybody DEF Save, SaveFails, Sweep, RouteInv, SaverKnown, Shapes, Medias, AskedFor, HistoryInv, Discarded
  <1>1. /\ \/ saver' = NoSaver /\ Resume
           \/ saver' = [saver EXCEPT !.phase = "sweep"] /\ Holder("sweeping")
    BY DEF Save, SaveFails, Sweep
  <1>2. Resting
    <2>1. CASE saver.who \notin Medias
      <3>1. UNCHANGED at
        BY <1>0, <1>1, <2>1 DEF Resume, Holder, Shapes
      <3> QED BY <1>0, <3>1 DEF Resting, Busy, Unlisted
    <2>2. ASSUME NEW c \in Medias, c = saver.who PROVE Resting
      <3>1. at[c] \in Saving /\ c \in DOMAIN at /\ DOMAIN req = Medias
        BY <2>2, OneMedia DEF RouteInv, SaverKnown, Shapes
      <3>2. at' = [at EXCEPT ![c] = "sweeping"] \/ at' = [at EXCEPT ![c] = req[c].then]
        BY <1>0, <1>1, <2>2, <3>1 DEF Resume, Holder, Goes
      <3> QED BY <1>0, <3>1, <3>2, MutexMoves DEF Resting, Only, Saving
    <2> QED BY <2>1, <2>2
  <1>3. /\ saver' = NoSaver => saver'.snap = <<>> /\ saver'.retired = {} /\ saver'.phase = "none" /\ saver'.who = Nobody
        /\ saver' # NoSaver => /\ saver'.snap = saver.snap /\ saver'.retired = saver.retired
                              /\ saver'.phase = "sweep" /\ saver'.who = saver.who
    BY <1>0, <1>1 DEF NoSaver
  <1>4. (\A r \in Medias : Owned(r)') /\ Apart' /\ Worked' /\ Bounds' /\ HandsOf(Medias)' = HandsOf(Medias)
    <2>1. saved' \in {saved, saver.snap} /\ saver'.snap \in {saver.snap, jobs, <<>>}
      BY <1>3 DEF Save, SaveFails, Sweep
    <2> QED BY <1>0, <1>2, <2>1, RestingKeeps
  <1>5. Histories'
    <2>1. Sound(saver'.snap, nextId) /\ Sound(saved', nextId)
      BY <1>3, EmptySound DEF HistoryInv, Histories, Save, SaveFails, Sweep
    <2> QED BY <1>0, <2>1 DEF HistoryInv, Histories
  <1>6. ASSUME NEW h, Sound(h, nextId), NEW R, \A f \in R : f[1] \notin DOMAIN h PROVE Listed(h) \cap R = {}
    BY <1>6, ListedBy DEF Sound
  <1>7. Listed(jobs) \cap saver.retired = {} /\ Listed(saver.snap) \cap saver.retired = {}
    BY <1>6 DEF HistoryInv, Discarded, Histories
  <1>8. \A r \in Medias : req[r].files \cap saver.retired = {}
    <2> SUFFICES ASSUME NEW r \in Medias, NEW f \in req[r].files PROVE f \notin saver.retired
      OBVIOUS
    <2>1. Busy(r) /\ f[1] = req[r].id
      BY DEF HistoryInv, Owned, Busy, Outside, Stage, Saving
    <2>2. f[1] \in DOMAIN jobs
      BY <2>1 DEF HistoryInv, Owned, Running
    <2> QED BY <2>2 DEF HistoryInv, Discarded
  <1>9. ASSUME rig.persist PROVE Existing'
    <2>1. CASE Save
      BY <1>0, <1>3, <1>9, <2>1 DEF Save, HistoryInv, Existing
    <2>2. CASE SaveFails
      BY <1>0, <1>3, <1>9, <2>2 DEF SaveFails, HistoryInv, Existing
    <2>3. CASE Sweep
      <3>1. saved = saver.snap /\ saved' = saved /\ saver' = NoSaver
        BY <1>9, <2>3 DEF Sweep, HistoryInv, Existing
      <3>2. disk \ saver.retired \subseteq disk'
        BY <2>3, DeletedOrKept DEF Sweep
      <3>3. Listed(jobs) \subseteq disk' /\ Listed(saved) \subseteq disk' /\ \A r \in Medias : req[r].files \subseteq disk'
        BY <1>7, <1>8, <1>9, <3>1, <3>2 DEF HistoryInv, Existing
      <3> QED BY <1>0, <1>3, <3>1, <3>3 DEF Existing
    <2> QED BY <2>1, <2>2, <2>3
  <1>10. ~rig.persist => disk' = {}
    BY DeletedOrKept DEF HistoryInv, Save, SaveFails, Sweep
  <1>11. Discarded'
    <2>1. retired' \cup saver'.retired \subseteq retired \cup saver.retired
      BY <1>3 DEF Save, SaveFails, Sweep
    <2> QED BY <1>0, <1>3, <2>1 DEF HistoryInv, Discarded
  <1>12. Accounted'
    <2>1. CASE Save
      BY <1>0, <1>3, <1>4, <2>1 DEF Save, HistoryInv, Accounted, NoSaver
    <2>2. CASE SaveFails
      BY <1>0, <1>3, <1>4, <2>2 DEF SaveFails, HistoryInv, Accounted
    <2>3. CASE Sweep
      <3>1. disk' \subseteq disk /\ disk' \cap saver.retired \subseteq orphans' /\ orphans \subseteq orphans'
        BY <1>7, <2>3, DeletedOrKept DEF Sweep
      <3> QED BY <1>0, <1>3, <1>4, <2>3, <3>1 DEF Sweep, HistoryInv, Accounted
    <2> QED BY <2>1, <2>2, <2>3
  <1> QED BY <1>0, <1>4, <1>5, <1>9, <1>10, <1>11, <1>12 DEF HistoryInv

\* configure_media_history after a crash: what the file lists and the disk
\* has, with nothing running and new ids above those of the file.
LEMMA Restarts ==
  ASSUME RouteInv, HistoryInv, UNCHANGED <<rig, ses>>, Crash
  PROVE  HistoryInv'
  <1> DEFINE kept == Pruned(Reloaded)
  <1>0. /\ Medias' = Medias /\ rig \in Rigs /\ DOMAIN at = Everyone /\ DOMAIN req = Medias /\ Medias \subseteq Everyone
    BY Everybody DEF RouteInv, Shapes, Medias, AskedFor
  <1>1. /\ at' = [r \in DOMAIN at |-> IF at[r] \in Outside THEN at[r] ELSE "lost"]
        /\ req' = [r \in DOMAIN req |-> IF at[r] \in Outside THEN req[r] ELSE FreshRequest]
        /\ jobs' = kept /\ nextId' = Max({0} \cup DOMAIN saved) + 1
        /\ saver' = (IF kept = saved THEN NoSaver
                     ELSE [who |-> "startup", phase |-> "save", snap |-> kept,
                           retired |-> Listed(Reloaded) \ Listed(kept)])
        /\ orphans' = disk \ Listed(saved) /\ retired' = {} /\ UNCHANGED <<disk, saved>>
    BY DEF Crash
  <1>2. nextId' \in Nat /\ 0 < nextId' /\ Sound(saved, nextId')
    <2>1. IsFiniteSet({0} \cup DOMAIN saved) /\ {0} \cup DOMAIN saved \in SUBSET Nat /\ {0} \cup DOMAIN saved # {}
      BY FS_AddElement DEF HistoryInv, Histories, Sound
    <2>2. /\ Max({0} \cup DOMAIN saved) \in {0} \cup DOMAIN saved
          /\ \A y \in {0} \cup DOMAIN saved : Max({0} \cup DOMAIN saved) >= y
      BY <2>1, Greatest
    <2>3. nextId' \in Nat /\ 0 < nextId' /\ \A i \in DOMAIN saved : i < nextId'
      <3>1. nextId' = Max({0} \cup DOMAIN saved) + 1
        BY <1>1
      <3>2. ASSUME NEW S \in SUBSET Nat, NEW m \in S, \A y \in S : m >= y
            PROVE  m + 1 \in Nat /\ 0 < m + 1 /\ \A i \in S : i < m + 1
        BY <3>2
      <3> QED BY <2>1, <2>2, <3>1, <3>2
    <2> QED BY <2>3 DEF HistoryInv, Histories, Sound
  <1>3. Sound(Reloaded, nextId') /\ Running(Reloaded) = {} /\ Listed(Reloaded) = Listed(saved) \cap disk
    <2>1. /\ DOMAIN Reloaded = DOMAIN saved
          /\ \A i \in DOMAIN saved : /\ DOMAIN Reloaded[i] = JobFields /\ Reloaded[i].state # "running"
                                     /\ Reloaded[i].outputs = saved[i].outputs \cap disk
      BY DEF Reloaded, JobFields
    <2>2. Sound(Reloaded, nextId')
      BY <1>2, <2>1 DEF Sound
    <2>3. Running(Reloaded) = {}
      BY <2>1 DEF Running
    <2>4. Listed(Reloaded) = Listed(saved) \cap disk
      BY <2>1 DEF Listed
    <2> QED BY <2>2, <2>3, <2>4
  <1>4. /\ Sound(kept, nextId') /\ Running(kept) = {}
        /\ Cardinality(Listed(kept)) <= rig.maxBytes \/ DOMAIN kept = Running(kept)
        /\ Cardinality(DOMAIN kept \ Running(kept)) <= rig.maxJobs
        /\ Listed(kept) \subseteq Listed(Reloaded)
        /\ \A f \in Listed(Reloaded) \ Listed(kept) : f[1] \in Nat /\ f[1] < nextId' /\ f[1] \notin DOMAIN kept
    BY <1>0, <1>3, UpdateKeeps
  <1> HIDE DEF kept
  <1>5. \A r \in Medias : at'[r] \in Outside /\ req'[r].files = {}
    BY <1>0, <1>1 DEF Outside, FreshRequest, HistoryInv, Owned
  <1>6. \A r \in Medias : ~Busy(r)' /\ ~Unlisted(r)'
    BY <1>5 DEF Busy, Unlisted, Outside, Stage, Saving
  <1>7. \/ kept = saved /\ saver'.who = Nobody /\ saver'.phase = "none" /\ saver'.snap = <<>> /\ saver'.retired = {}
        \/ /\ saver'.who = "startup" /\ saver'.phase = "save" /\ saver'.snap = kept
           /\ saver'.retired = Listed(Reloaded) \ Listed(kept)
    BY <1>1 DEF NoSaver
  <1>8. Histories'
    BY <1>1, <1>2, <1>4, <1>7, EmptySound DEF Histories
  <1>9. (rig.persist => Existing)' /\ (~rig.persist => disk = {})'
    BY <1>0, <1>1, <1>3, <1>4, <1>5, <1>7 DEF HistoryInv, Existing
  <1>10. Discarded'
    <2>1. Nobody # "startup"
      BY DEF Nobody
    <2> QED BY <1>1, <1>4, <1>7, <2>1 DEF Discarded
  <1>11. Accounted'
    BY <1>1, <1>3, <1>7 DEF Accounted
  <1>12. (\A r \in Medias : Owned(r)') /\ Apart'
    BY <1>0, <1>5, <1>6 DEF Owned, Apart
  <1>13. Worked' /\ Bounds'
    BY <1>1, <1>4 DEF Worked, Bounds
  <1> QED BY <1>0, <1>8, <1>9, <1>10, <1>11, <1>12, <1>13 DEF HistoryInv

----------------------------------------------------------------------------
(* The history, from the first step on. *)

\* Nothing is kept at first.
LEMMA HistoryStarts == Init => HistoryInv
  <1> SUFFICES ASSUME Init PROVE HistoryInv
    OBVIOUS
  <1>1. /\ jobs = <<>> /\ nextId = 1 /\ retired = {} /\ disk = {} /\ saved = <<>> /\ saver = NoSaver /\ orphans = {}
        /\ req = [r \in Medias |-> FreshRequest] /\ at = [r \in DOMAIN rig.ask |-> "idle"] /\ rig \in Rigs
    BY DEF Init, MediaInit, RouteInit
  <1>2. saver.snap = <<>> /\ saver.retired = {} /\ saver.phase = "none" /\ DOMAIN <<>> = {}
    BY <1>1 DEF NoSaver
  <1>3. Listed(<<>>) = {} /\ Running(<<>>) = {}
    BY <1>2 DEF Listed, Running
  <1>4. \A r \in Medias : at[r] = "idle" /\ req[r].files = {}
    BY <1>1 DEF Medias, AskedFor, FreshRequest
  <1>5. \A r \in Medias : ~Busy(r) /\ ~Unlisted(r)
    BY <1>4 DEF Busy, Unlisted, Outside, Stage, Saving
  <1>6. Histories /\ Existing /\ Discarded /\ Accounted
    BY <1>1, <1>2, <1>3, <1>4, EmptySound DEF Histories, Existing, Discarded, Accounted
  <1>7. (\A r \in Medias : Owned(r)) /\ Apart /\ Worked
    BY <1>1, <1>3, <1>4, <1>5 DEF Owned, Apart, Worked
  <1>8. Bounds
    BY <1>1, <1>2, <1>3, RigAssumption, FS_EmptySet DEF Bounds
  <1> QED BY <1>1, <1>6, <1>7, <1>8 DEF HistoryInv

\* A text session has no part in the history.
LEMMA SessionsApart ==
  ASSUME RouteInv, HistoryInv, UNCHANGED <<rig, mediaVars>>, \A r \in Medias : at'[r] = at[r]
  PROVE  HistoryInv'
  <1>1. /\ UNCHANGED <<rig, jobs, nextId, retired, disk, saved, saver, orphans, req>> /\ Medias' = Medias
    BY DEF mediaVars, historyVars, Medias, AskedFor
  <1>2. \A r \in Medias : (Busy(r)' <=> Busy(r)) /\ (Unlisted(r)' <=> Unlisted(r))
    BY <1>1 DEF Busy, Unlisted
  <1>3. Histories' /\ (rig.persist => Existing)' /\ (~rig.persist => disk = {})' /\ Discarded' /\ Accounted'
    BY <1>1 DEF HistoryInv, Histories, Existing, Discarded, Accounted, HandsOf
  <1>4. (\A r \in Medias : Owned(r)') /\ Apart' /\ Worked' /\ Bounds'
    BY <1>1, <1>2 DEF HistoryInv, Owned, Apart, Worked, Bounds
  <1> QED BY <1>1, <1>3, <1>4 DEF HistoryInv

\* A step of a session moves that session.
LEMMA SessionsMove ==
  ASSUME RouteInv, SessionNext, UNCHANGED <<rig, mediaVars>>
  PROVE  \A r \in Medias : at'[r] = at[r]
  <1>1. PICK c \in Sessions :
          \/ Leave(c) \/ Acquire(c) \/ Refuse(c) \/ Callback(c) \/ Push(c) \/ Doze(c) \/ Return(c)
          \/ FinishOnce(c) \/ FinishNotify(c) \/ FinishRecord(c) \/ FinishRelease(c) \/ Releaser(c)
          \/ StartStream(c) \/ Heartbeat(c) \/ Take(c) \/ Write(c) \/ EndStream(c) \/ Dropped(c)
          \/ Poll(c) \/ RunDone(c)
    BY DEF SessionNext
  <1>2. UNCHANGED at \/ \E p : Goes(c, p)
    <2>1. CASE Leave(c) \/ Callback(c) \/ Push(c) \/ Doze(c) \/ Return(c)
      BY <2>1 DEF Leave, Callback, Push, Doze, Return
    <2>2. CASE Acquire(c) \/ Refuse(c) \/ FinishOnce(c) \/ FinishNotify(c) \/ FinishRecord(c) \/ FinishRelease(c)
      BY <2>2 DEF Acquire, Refuse, FinishOnce, FinishNotify, FinishRecord, FinishRelease
    <2>3. CASE Releaser(c) \/ StartStream(c) \/ Heartbeat(c) \/ Take(c) \/ Dropped(c) \/ Poll(c)
      BY <2>3 DEF Releaser, StartStream, Heartbeat, Take, Dropped, Poll, Abort, Cleanup
    <2>4. CASE Write(c) \/ EndStream(c)
      BY <2>4 DEF Write, EndStream, Abort, Cleanup
    <2>5. CASE RunDone(c)
      BY <2>5 DEF RunDone, Cleanup
    <2> QED BY <1>1, <2>1, <2>2, <2>3, <2>4, <2>5
  <1>3. Medias \subseteq DOMAIN at /\ c \notin Medias
    BY Everybody DEF RouteInv, Shapes
  <1> QED BY <1>2, <1>3 DEF Goes

\* Every step keeps the invariant of the history.
LEMMA HistoryNext == RouteInv /\ HistoryInv /\ [Next]_vars => HistoryInv'
  <1> SUFFICES ASSUME RouteInv, HistoryInv, [Next]_vars PROVE HistoryInv'
    OBVIOUS
  <1>1. CASE SessionNext /\ UNCHANGED <<rig, mediaVars>>
    BY <1>1, SessionsMove, SessionsApart
  <1>2. CASE MediaNext /\ UNCHANGED <<rig, ses>>
    BY <1>2, Begins, WaitingQuietly, SpeakingQuietly, AttachesOrEnds, Stores, Snaps, Saves, Restarts DEF MediaNext
  <1>3. CASE UNCHANGED vars
    BY <1>3, SessionsApart DEF vars
  <1> QED BY <1>1, <1>2, <1>3 DEF Next

\* The invariant says what the property asks for.
LEMMA HistoryProperty ==
  ASSUME HistoryInv
  PROVE  HistoryKept
  <1>1. \A i \in Running(jobs) : \E r \in Medias : req[r].id = i /\ at[r] \notin Outside
    BY DEF HistoryInv, Worked, Busy
  <1>2. disk \subseteq Listed(jobs) \cup retired \cup saver.retired \cup orphans \cup UNION {req[r].files : r \in Medias}
    BY DEF HistoryInv, Accounted, HandsOf
  <1>3. /\ Cardinality(Listed(jobs)) <= rig.maxBytes \/ DOMAIN jobs = Running(jobs)
        /\ Cardinality(DOMAIN jobs \ Running(jobs)) <= rig.maxJobs
    BY DEF HistoryInv, Bounds
  <1>4. rig.persist => Listed(saved) \subseteq disk
    BY DEF HistoryInv, Existing
  <1> QED BY <1>1, <1>2, <1>3, <1>4 DEF HistoryKept

\* history.json lists only files that exist, whatever fails and whenever the
\* process dies (persist_jobs_or_warn saves a history without a file before it
\* deletes it); no output is forgotten on disk unless by a crash or a removal
\* that failed; the ended jobs stay within the bounds of prune_jobs_locked; a running job has a handler.
THEOREM HistoryAlwaysKept == Spec => []HistoryKept
  <1>1. Spec => [](RouteInv /\ HistoryInv)
    BY RouteStarts, RouteNext, HistoryStarts, HistoryNext, PTL DEF Spec
  <1> QED BY <1>1, HistoryProperty, PTL

----------------------------------------------------------------------------
(* What waits for a slow client. *)

\* The deltas a runtime makes for a request, as StreamAssumption has them.
Deltas(r) == {d \in Range(Ask(r).script) : d.logprobs \in Nat /\ Charged(d) \in 0..rig.width - 1}

\* A thread that has a delta to queue.
Offering == {"test", "dozing", "asleep"}
\* The value p of a type of width w is load less o, or more by full turns.
Balanced(p, load, o, w) == \E k \in Nat : p = load - o + k * w
\* pending_bytes is what is charged for the queue, less what was taken off too
\* much, modulo its width; nothing wraps upwards.
Filled(r) ==
    LET s == ses[r]
        load == SumOf(s.queue, Charged)
    IN  /\ s.made \in Nat /\ s.queue \in Seq(Deltas(r)) /\ s.over \in Nat /\ s.pending \in 0..rig.width - 1
        /\ ~Chat(r) => s.over = 0
        /\ Balanced(s.pending, load, s.over, rig.width)
        /\ load - s.over < rig.width
        /\ Len(s.queue) <= rig.maxDeltas
        /\ load <= rig.maxBytes + s.over \/ Len(s.queue) = 1
        /\ th[r] \in Offering => s.made < Len(Ask(r).script)
Buffered(r) == /\ req[r].made \in Nat /\ req[r].queue \in Seq(Nat)
               /\ Len(req[r].queue) <= rig.maxChunks
PendingInv == (\A r \in Sessions : Filled(r)) /\ (\A r \in Medias : Buffered(r))

\* The charge of a queue is a sum over its positions.
LEMMA ChargedTotal ==
  ASSUME NEW q
  PROVE  /\ SumOf(q, Charged) = Total([i \in DOMAIN q |-> Charged(q[i])], DOMAIN q)
         /\ SumOf(q, Uncharged) = Total([i \in DOMAIN q |-> Uncharged(q[i])], DOMAIN q)
  BY DEF SumOf, SumFunction, SumFunctionOnSet, FoldFunctionOnSet, Total, MapThenSumSet

LEMMA ChargedNothing == SumOf(<<>>, Charged) = 0
  <1>1. DOMAIN <<>> = {}
    OBVIOUS
  <1> QED BY <1>1, ChargedTotal, TotalEmpty

\* A queue of proper deltas has a proper charge, and no more is charged than
\* the chat provider takes off.
LEMMA ChargedNat ==
  ASSUME NEW D, \A d \in D : Charged(d) \in Nat /\ d.logprobs \in Nat, NEW q \in Seq(D)
  PROVE  /\ SumOf(q, Charged) \in Nat /\ SumOf(q, Uncharged) \in Nat
         /\ SumOf(q, Charged) <= SumOf(q, Uncharged)
  <1> DEFINE g == [i \in DOMAIN q |-> Charged(q[i])]
             h == [i \in DOMAIN q |-> Uncharged(q[i])]
  <1>1. IsFiniteSet(DOMAIN q)
    <2>1. DOMAIN q = 1..Len(q) /\ Len(q) \in Nat
      OBVIOUS
    <2> QED BY <2>1, FS_Interval
  <1>2. \A i \in DOMAIN q : Charged(q[i]) \in Nat /\ q[i].logprobs \in Nat
    OBVIOUS
  <1>3. \A i \in DOMAIN q : g[i] \in Nat /\ h[i] \in Nat /\ g[i] <= h[i]
    BY <1>2 DEF Uncharged
  <1> HIDE DEF g, h
  <1>4. Total(g, DOMAIN q) \in Nat
    BY <1>1, <1>3, TotalNat
  <1>5. Total(h, DOMAIN q) \in Nat
    BY <1>1, <1>3, TotalNat
  <1>6. \A i \in DOMAIN q : g[i] \in Int /\ h[i] \in Int /\ g[i] <= h[i]
    BY <1>3
  <1>7. Total(g, DOMAIN q) <= Total(h, DOMAIN q)
    BY <1>1, <1>6, TotalMonotone
  <1> QED BY <1>4, <1>5, <1>7, ChargedTotal DEF g, h

\* One more delta, one more charge.
LEMMA ChargedMore ==
  ASSUME NEW D, \A d \in D : Charged(d) \in Nat, NEW q \in Seq(D), NEW d \in D
  PROVE  SumOf(Append(q, d), Charged) = SumOf(q, Charged) + Charged(d)
  <1> DEFINE p == Append(q, d)
             n == Len(q)
             g == [i \in DOMAIN q |-> Charged(q[i])]
             h == [i \in DOMAIN p |-> Charged(p[i])]
  <1>1. /\ n \in Nat /\ DOMAIN q = 1..n /\ DOMAIN p = 1..(n + 1) /\ p[n + 1] = d
        /\ \A i \in 1..n : p[i] = q[i] /\ q[i] \in D
    <2>1. n \in Nat /\ DOMAIN q = 1..n /\ \A i \in 1..n : q[i] \in D
      OBVIOUS
    <2>2. p \in Seq(D) /\ Len(p) = n + 1 /\ p[n + 1] = d
      OBVIOUS
    <2>3. \A i \in 1..n : p[i] = q[i]
      OBVIOUS
    <2>4. DOMAIN p = 1..(n + 1)
      BY <2>2
    <2> QED BY <2>1, <2>2, <2>3, <2>4
  <1> HIDE DEF p, n
  <1>2. DOMAIN p = (DOMAIN q) \cup {n + 1} /\ n + 1 \notin DOMAIN q /\ IsFiniteSet(DOMAIN q)
    <2>1. IsFiniteSet(1..n)
      BY <1>1, FS_Interval
    <2>2. 1..(n + 1) = (1..n) \cup {n + 1} /\ n + 1 \notin 1..n
      BY <1>1
    <2> QED BY <1>1, <2>1, <2>2
  <1>3. (\A i \in DOMAIN q : g[i] \in Int /\ h[i] = g[i]) /\ h[n + 1] \in Int /\ h[n + 1] = Charged(d)
    BY <1>1, <1>2
  <1> HIDE DEF g, h
  <1>4. Total(h, (DOMAIN q) \cup {n + 1}) = Total(g, DOMAIN q) + h[n + 1]
    BY <1>2, <1>3, TotalAdd
  <1> QED BY <1>2, <1>3, <1>4, ChargedTotal DEF g, h, p

\* Subtraction in a type of width w.
LEMMA Wraps ==
  ASSUME NEW w \in Nat, 0 < w, NEW z \in Int, z < w
  PROVE  z % w \in 0..w - 1 /\ \E j \in Nat : z % w = z + j * w
  <1> DEFINE q == z \div w
  <1>1. q \in Int /\ z = w * q + (z % w) /\ z % w \in 0..w - 1
    OBVIOUS
  <1> HIDE DEF q
  <1>2. q <= 0
    <2> SUFFICES ASSUME q >= 1 PROVE FALSE
      BY <1>1
    <2>1. w * q >= w
      BY <1>1
    <2> QED BY <1>1, <2>1
  <1>3. 0 - q \in Nat /\ z % w = z + (0 - q) * w
    BY <1>1, <1>2
  <1> QED BY <1>1, <1>3

\* Addition in a type of width w, of two values of the type.
LEMMA WrapsOnce ==
  ASSUME NEW w \in Nat, 0 < w, NEW x \in 0..w - 1, NEW b \in 0..w - 1
  PROVE  (x + b) % w = IF x + b < w THEN x + b ELSE x + b - w
  OBVIOUS

\* pending_bytes after another b bytes, when load bytes are charged for the
\* queue and o bytes were taken off too much; the limit is m.
LEMMA ChargeAdds ==
  ASSUME NEW w \in Nat, NEW m \in Nat, m < w, NEW o \in Nat, NEW p \in 0..w - 1, NEW load \in Nat,
         Balanced(p, load, o, w), NEW b \in 0..w - 1, load = 0 \/ (b <= m /\ p <= m - b)
  PROVE  /\ (p + b) % w \in 0..w - 1 /\ load + b - o < w
         /\ Balanced((p + b) % w, load + b, o, w)
         /\ (b <= m /\ p <= m - b) => load + b <= m + o
  <1> PICK k \in Nat : p = load - o + k * w
    BY DEF Balanced
  <1>0. k * w \in Nat /\ 0 < w
    OBVIOUS
  <1>1. (p + b) % w = IF p + b < w THEN p + b ELSE p + b - w
    BY <1>0, WrapsOnce
  <1>2. (b <= m /\ p <= m - b) => load + b <= m + o
    BY <1>0
  <1>3. load + b - o < w /\ (p + b) % w \in 0..w - 1
    BY <1>0, <1>1
  <1>4. CASE p + b < w
    <2>1. (p + b) % w = (load + b) - o + k * w
      BY <1>0, <1>1, <1>4
    <2> QED BY <1>2, <1>3, <2>1 DEF Balanced
  <1>5. CASE p + b >= w
    <2>1. load = 0
      BY <1>5
    <2>2. k # 0
      BY <1>5, <2>1
    <2>3. k - 1 \in Nat /\ (k - 1) * w = k * w - w
      BY <2>2
    <2>4. (p + b) % w = (load + b) - o + (k - 1) * w
      BY <1>0, <1>1, <1>5, <2>3
    <2> QED BY <1>2, <1>3, <2>3, <2>4 DEF Balanced
  <1> QED BY <1>4, <1>5

\* pending_bytes after the queue was taken and off bytes were taken off it.
LEMMA ChargeEnds ==
  ASSUME NEW w \in Nat, 0 < w, NEW o \in Nat, NEW p \in 0..w - 1, NEW load \in Nat,
         Balanced(p, load, o, w), NEW off \in Nat, load <= off
  PROVE  /\ (p - off) % w \in 0..w - 1 /\ o + off - load \in Nat
         /\ Balanced((p - off) % w, 0, o + off - load, w)
  <1> PICK k \in Nat : p = load - o + k * w
    BY DEF Balanced
  <1>0. k * w \in Nat /\ 0 < w /\ p - off \in Int /\ p - off < w
    OBVIOUS
  <1>1. (p - off) % w \in 0..w - 1 /\ \E j \in Nat : (p - off) % w = (p - off) + j * w
    BY <1>0, Wraps
  <1>2. PICK j \in Nat : (p - off) % w = (p - off) + j * w
    BY <1>1
  <1>3. j + k \in Nat /\ (j + k) * w = j * w + k * w /\ j * w \in Nat
    OBVIOUS
  <1>4. (p - off) % w = 0 - (o + off - load) + (j + k) * w
    BY <1>0, <1>2, <1>3
  <1>5. o + off - load \in Nat
    OBVIOUS
  <1> QED BY <1>1, <1>3, <1>4, <1>5 DEF Balanced

----------------------------------------------------------------------------
(* The sessions. *)

\* What the invariant asks about a session or a stream.
Steady(x, y) == y.made = x.made /\ y.queue = x.queue /\ y.pending = x.pending /\ y.over = x.over

\* What the configuration says of a session.
LEMMA SessionRig ==
  ASSUME RouteInv, NEW c \in Sessions
  PROVE  /\ rig.maxDeltas \in Nat /\ rig.maxBytes \in Nat /\ rig.width \in Nat /\ rig.maxBytes < rig.width
         /\ Ask(c).script \in Seq(Deltas(c))
         /\ \A d \in Deltas(c) : Charged(d) \in 0..rig.width - 1 /\ Charged(d) \in Nat /\ d.logprobs \in Nat
         /\ DOMAIN ses[c] = SessionFields /\ c \in DOMAIN ses
  <1>1. rig \in Rigs /\ c \in DOMAIN rig.ask /\ rig.ask[c].kind \in {"chat", "responses", "plain"}
    BY DEF RouteInv, Shapes, Sessions, AskedFor
  <1>2. DOMAIN ses[c] = SessionFields /\ c \in DOMAIN ses
    BY Everybody DEF RouteInv, Shapes, Part, SessionPart
  <1>3. Ask(c).script \in Seq(Deltas(c))
    BY <1>1, StreamAssumption DEF Ask, Deltas
  <1>4. rig.maxDeltas \in Nat /\ rig.maxBytes \in Nat /\ rig.width \in Nat /\ rig.maxBytes < rig.width
    BY <1>1, StreamAssumption
  <1> QED BY <1>2, <1>3, <1>4 DEF Deltas

\* One session changes and the rest stays.
LEMMA OneFills ==
  ASSUME RouteInv, PendingInv, UNCHANGED <<rig, req>>, NEW c \in Sessions, Only(ses, ses', c), Only(th, th', c),
         Filled(c)'
  PROVE  PendingInv'
  <1>1. /\ Sessions' = Sessions /\ Medias' = Medias /\ DOMAIN ses = Sessions /\ Sessions \subseteq DOMAIN th
    BY Everybody DEF Sessions, Medias, AskedFor, RouteInv, Shapes
  <1>2. ASSUME NEW r \in Sessions, r # c PROVE Filled(r)'
    BY <1>1, <1>2 DEF PendingInv, Filled, Only, Deltas, Ask, Chat
  <1>3. \A r \in Medias : Buffered(r)'
    BY DEF PendingInv, Buffered
  <1> QED BY <1>1, <1>2, <1>3 DEF PendingInv

\* A step that queues and takes nothing.
LEMMA SteadyFills ==
  ASSUME RouteInv, PendingInv, UNCHANGED <<rig, req>>, NEW c \in Sessions, Only(ses, ses', c), Only(th, th', c),
         Steady(ses[c], ses'[c]), th'[c] \in Offering => th[c] \in Offering \/ More(c)
  PROVE  PendingInv'
  <1>1. Filled(c)'
    BY DEF PendingInv, Filled, Steady, Deltas, Ask, Chat, More
  <1> QED BY <1>1, OneFills

\* The callback queues a delta when there is room.
LEMMA PushFills ==
  ASSUME RouteInv, PendingInv, UNCHANGED <<rig, req>>, NEW c \in Sessions, Push(c)
  PROVE  PendingInv'
  <1> DEFINE d == NextDelta(c)
             b == Charged(d)
             q == ses[c].queue
             load == SumOf(q, Charged)
             w == rig.width
             p == ses[c].pending
             m == rig.maxBytes
             o == ses[c].over
  <1>0. /\ rig.maxDeltas \in Nat /\ rig.maxBytes \in Nat /\ w \in Nat /\ rig.maxBytes < w
        /\ Ask(c).script \in Seq(Deltas(c)) /\ DOMAIN ses[c] = SessionFields /\ c \in DOMAIN ses
        /\ \A e \in Deltas(c) : Charged(e) \in 0..w - 1 /\ Charged(e) \in Nat /\ e.logprobs \in Nat
        /\ Filled(c) /\ c \in DOMAIN th
    BY SessionRig, Everybody DEF PendingInv, RouteInv, Shapes
  <1>1. CASE UNCHANGED ses
    <2>1. Steady(ses[c], ses'[c]) /\ Only(ses, ses', c) /\ Only(th, th', c) /\ th[c] \in Offering
      BY <1>0, <1>1 DEF Steady, Only, Push, Runs, Offering
    <2> QED BY <2>1, SteadyFills
  <1>2. CASE /\ Room(c) /\ th[c] = "test" /\ Only(th, th', c) /\ th'[c] = "call"
             /\ Become(c, [ses[c] EXCEPT !.queue = Append(@, d), !.made = @ + 1, !.pending = (@ + b) % w])
    <2>1. /\ Only(ses, ses', c)
          /\ ses'[c] = [ses[c] EXCEPT !.queue = Append(@, d), !.made = @ + 1, !.pending = (@ + b) % w]
      BY <1>0, <1>2 DEF Become, Only
    <2>2. /\ ses'[c].queue = Append(q, d) /\ ses'[c].made = ses[c].made + 1
          /\ ses'[c].pending = (p + b) % w /\ ses'[c].over = o
      <3> HIDE DEF d, b
      <3> QED BY <1>0, <2>1 DEF SessionFields
    <2>3. d \in Deltas(c)
      BY <1>0, <1>2 DEF NextDelta, Filled, Offering
    <2>4. /\ q \in Seq(Deltas(c)) /\ o \in Nat /\ p \in 0..w - 1 /\ ses[c].made \in Nat /\ b \in 0..w - 1
          /\ (~Chat(c) => o = 0)
      BY <1>0, <2>3 DEF Filled
    <2>5. Balanced(p, load, o, w)
      BY <1>0 DEF Filled
    <2>6. Len(q) < rig.maxDeltas /\ (q = <<>> \/ (b <= m /\ p <= m - b))
      BY <1>2 DEF Room
    <2> HIDE DEF d, b
    <2>7. load \in Nat /\ (q = <<>> => load = 0) /\ SumOf(Append(q, d), Charged) = load + b
      <3>1. load \in Nat
        BY <1>0, <2>4, ChargedNat
      <3>2. SumOf(Append(q, d), Charged) = load + b
        BY <1>0, <2>3, <2>4, ChargedMore DEF b
      <3> QED BY <3>1, <3>2, ChargedNothing
    <2>8. /\ Append(q, d) \in Seq(Deltas(c)) /\ Len(Append(q, d)) = Len(q) + 1 /\ Len(q) \in Nat
          /\ (q = <<>> => Len(q) = 0)
      BY <2>3, <2>4
    <2> HIDE DEF q, load, p, o, w, m
    <2>9. /\ (p + b) % w \in 0..w - 1 /\ load + b - o < w
          /\ Balanced((p + b) % w, load + b, o, w)
          /\ (b <= m /\ p <= m - b) => load + b <= m + o
      <3>1. w \in Nat /\ m \in Nat /\ m < w /\ (load = 0 \/ (b <= m /\ p <= m - b))
        BY <1>0, <2>6, <2>7 DEF w, m
      <3> QED BY <2>4, <2>5, <2>7, <3>1, ChargeAdds
    <2>10. load + b <= m + o \/ Len(Append(q, d)) = 1
      BY <2>6, <2>8, <2>9
    <2>11. Len(Append(q, d)) <= rig.maxDeltas
      BY <1>0, <2>6, <2>8
    <2>12. Deltas(c)' = Deltas(c) /\ (Chat(c)' <=> Chat(c)) /\ th'[c] \notin Offering /\ rig' = rig
      BY <1>2 DEF Deltas, Ask, Chat, Offering
    <2>13. SumOf(ses'[c].queue, Charged) = load + b
      BY <2>2, <2>7
    <2> DEFINE s == ses'[c]
    <2>14. /\ s.made \in Nat /\ s.queue \in Seq(Deltas(c)) /\ s.over \in Nat /\ s.pending \in 0..w - 1
           /\ ~Chat(c) => s.over = 0
      BY <2>2, <2>4, <2>8, <2>9
    <2>15. /\ Balanced(s.pending, SumOf(s.queue, Charged), s.over, w)
           /\ SumOf(s.queue, Charged) - s.over < w
      <3>1. s.pending = (p + b) % w /\ s.over = o /\ SumOf(s.queue, Charged) = load + b
        BY <2>2, <2>13
      <3> DEFINE t == load + b
      <3>2. t - o < w
        BY <2>4, <2>7, <2>9
      <3>4. Balanced((p + b) % w, t, o, w)
        BY <2>9
      <3>3. SumOf(s.queue, Charged) = t
        BY <3>1
      <3> HIDE DEF t
      <3> QED BY <3>1, <3>2, <3>3, <3>4, Zenon
    <2>16. /\ Len(s.queue) <= rig.maxDeltas
           /\ SumOf(s.queue, Charged) <= m + s.over \/ Len(s.queue) = 1
      BY <2>2, <2>10, <2>11, <2>13
    <2> HIDE DEF s
    <2>17. Filled(c)'
      BY <2>12, <2>14, <2>15, <2>16 DEF Filled, w, m, s
    <2> QED BY <1>2, <2>1, <2>17, OneFills
  <1>3. CASE ~ses[c].aborted /\ Room(c)
    BY <1>0, <1>2, <1>3 DEF Push, Runs, Only
  <1> QED BY <1>1, <1>3 DEF Push

\* Leaves everything queued alone and lets no thread begin to offer.
LEMMA SessionSteady ==
  ASSUME RouteInv, PendingInv, UNCHANGED <<rig, req>>, NEW c \in Sessions,
         \/ Leave(c) \/ Acquire(c) \/ Refuse(c) \/ Callback(c) \/ Doze(c) \/ Return(c)
         \/ FinishOnce(c) \/ FinishNotify(c) \/ FinishRecord(c) \/ FinishRelease(c) \/ Releaser(c)
         \/ StartStream(c) \/ Heartbeat(c) \/ Write(c) \/ EndStream(c) \/ Dropped(c) \/ Poll(c) \/ RunDone(c)
  PROVE  PendingInv'
  <1>0. DOMAIN ses[c] = SessionFields /\ c \in DOMAIN ses /\ c \in DOMAIN th
    BY SessionRig, Everybody DEF RouteInv, Shapes
  <1> DEFINE calm == Only(ses, ses', c) /\ Steady(ses[c], ses'[c])
             away == Only(th, th', c) /\ (th'[c] \in Offering => th[c] \in Offering \/ More(c))
  <1>1. UNCHANGED ses => calm
    BY <1>0 DEF Only, Steady
  <1>2. UNCHANGED th => away
    BY <1>0 DEF Only
  <1>3. ASSUME NEW p, Runs(c, p), p \in Offering => th[c] \in Offering \/ More(c) PROVE away
    BY <1>0, <1>3 DEF Only, Runs
  <1>4. ASSUME NEW s, Become(c, s), Steady(ses[c], s) PROVE calm
    BY <1>0, <1>4 DEF Only, Become
  <1>5. ASSUME NEW s, NEW by, NEW g, NEW f, Cleanup(c, s, by, g, f), Steady(ses[c], s), DOMAIN s = SessionFields
        PROVE  calm
    BY <1>4, <1>5 DEF Cleanup, Steady, SessionFields
  <1>6. ASSUME NEW f, NEW k PROVE Steady(ses[c], Written(c, f, k)) /\ DOMAIN Written(c, f, k) = SessionFields
    BY <1>0 DEF Written, Steady, SessionFields
  <1>7. Steady(ses[c], ses[c])
    BY DEF Steady
  <1>8. ASSUME NEW v PROVE /\ Steady(ses[c], [ses[c] EXCEPT !.wire = v])
                           /\ DOMAIN [ses[c] EXCEPT !.wire = v] = SessionFields
    BY <1>0 DEF Steady, SessionFields
  <1>9. ASSUME NEW v PROVE Steady(ses[c], [ses[c] EXCEPT !.records = v])
    BY <1>0 DEF Steady, SessionFields
  <1> DEFINE kept(v) == [ses[c] EXCEPT !.wire = v]
  <1> HIDE DEF calm, away, kept
  <1>10. CASE Callback(c) \/ Doze(c) \/ FinishNotify(c)
    <2>1. calm
      BY <1>1, <1>10 DEF Callback, Doze, FinishNotify
    <2>2. away
      BY <1>3, <1>10 DEF Callback, Doze, FinishNotify, Woken, Offering
    <2> QED BY <2>1, <2>2, SteadyFills DEF calm, away
  <1>11. CASE FinishRelease(c)
    BY <1>1, <1>2, <1>11, SteadyFills DEF FinishRelease, calm, away
  <1>12. CASE Leave(c) \/ Poll(c)
    <2>1. Steady(ses[c], [ses[c] EXCEPT !.gone = TRUE]) /\ Steady(ses[c], [ses[c] EXCEPT !.aborted = TRUE])
      BY <1>0 DEF Steady, SessionFields
    <2>2. calm /\ away
      BY <1>2, <1>4, <1>12, <2>1 DEF Leave, Poll
    <2> QED BY <2>2, SteadyFills DEF calm, away
  <1>13. CASE Acquire(c)
    <2>1. \A x : Steady(ses[c], [ses[c] EXCEPT !.slot = x])
      BY <1>0 DEF Steady, SessionFields
    <2>2. calm
      BY <1>4, <1>13, <2>1 DEF Acquire
    <2>3. away
      BY <1>3, <1>13 DEF Acquire, Offering
    <2> QED BY <2>2, <2>3, SteadyFills DEF calm, away
  <1>14. CASE Refuse(c) \/ FinishRecord(c)
    <2>1. \E v : Become(c, [ses[c] EXCEPT !.records = v])
      BY <1>14 DEF Refuse, FinishRecord
    <2>2. calm
      BY <1>4, <1>9, <2>1
    <2>3. away
      BY <1>2, <1>14 DEF Refuse, FinishRecord
    <2> QED BY <2>2, <2>3, SteadyFills DEF calm, away
  <1>15. CASE Return(c)
    <2>1. /\ Steady(ses[c], [ses[c] EXCEPT !.done = TRUE, !.error = TRUE])
          /\ Steady(ses[c], [ses[c] EXCEPT !.done = TRUE])
      BY <1>0 DEF Steady, SessionFields
    <2>2. calm
      BY <1>4, <1>15, <2>1 DEF Return
    <2>3. away
      BY <1>3, <1>15 DEF Return, Offering
    <2> QED BY <2>2, <2>3, SteadyFills DEF calm, away
  <1>16. CASE FinishOnce(c)
    <2>1. Steady(ses[c], Stored(ses[c]))
      BY <1>0 DEF Steady, Stored, SessionFields
    <2>2. calm
      BY <1>4, <1>7, <1>16, <2>1 DEF FinishOnce
    <2>3. away
      BY <1>2, <1>16 DEF FinishOnce
    <2> QED BY <2>2, <2>3, SteadyFills DEF calm, away
  <1>17. CASE Releaser(c) \/ Heartbeat(c) \/ Dropped(c)
    <2>1. \/ \E by : Cleanup(c, ses[c], by, TRUE, 499)
          \/ Cleanup(c, ses[c], "releaser", ses[c].arg, IF ses[c].arg THEN 499 ELSE 200)
      BY <1>17 DEF Releaser, Heartbeat, Dropped, Abort
    <2>2. calm
      BY <1>0, <1>5, <1>7, <2>1
    <2>3. away
      BY <1>2, <1>17 DEF Releaser, Heartbeat, Dropped
    <2> QED BY <2>2, <2>3, SteadyFills DEF calm, away
  <1>18. CASE StartStream(c)
    <2> DEFINE x == [ses[c] EXCEPT !.st.started = TRUE, !.wire = Created(ses[c].st)]
    <2>1. Steady(ses[c], x)
      BY <1>0 DEF Steady, SessionFields
    <2>2. Become(c, x) \/ \E v : Cleanup(c, kept(v), "provider", TRUE, 499)
      BY <1>18 DEF StartStream, Abort, kept
    <2> HIDE DEF x
    <2>3. calm
      BY <1>4, <1>5, <1>8, <2>1, <2>2 DEF kept
    <2>4. away
      BY <1>2, <1>18 DEF StartStream
    <2> QED BY <2>3, <2>4, SteadyFills DEF calm, away
  <1>19. CASE Write(c) \/ EndStream(c)
    <2> DEFINE x(f, k) == Written(c, f, k)
               some(f) == \E k : Become(c, x(f, k)) \/ \E g, n : Cleanup(c, x(f, k), "provider", g, n)
    <2>1. \E f : some(f)
      <3>1. CASE Write(c)
        <4> DEFINE f == Frames(c, ses[c].batch)
        <4>1. some(f)
          <5>1. \/ Become(c, x(f, Len(f.frames)))
                \/ \E k : Cleanup(c, x(f, k), "provider", TRUE, 499)
            BY <3>1 DEF Write, Abort
          <5> HIDE DEF f, x
          <5> QED BY <5>1
        <4> QED BY <4>1
      <3>2. CASE EndStream(c)
        <4> DEFINE f == Framed(c, [buffer |-> NoText, st |-> ses[c].st, frames |-> <<>>], OnFinish(ses[c].buffer))
                   end == IF Chat(c) THEN IF ses[c].error THEN ChatError ELSE ChatDone
                          ELSE IF ses[c].error THEN FailedEvents ELSE Completed(f.st)
                   all == [f EXCEPT !.frames = @ \o end]
                   code == IF ses[c].error THEN 500 ELSE 200
        <4>1. some(all)
          <5>1. \/ Cleanup(c, x(all, Len(all.frames)), "provider", FALSE, code)
                \/ \E k : Cleanup(c, x(all, k), "provider", TRUE, 499)
            BY <3>2 DEF EndStream, Abort
          <5> HIDE DEF all, x, code
          <5> QED BY <5>1
        <4> HIDE DEF all
        <4> QED BY <4>1
      <3> QED BY <1>19, <3>1, <3>2
    <2>2. \A f, k : Steady(ses[c], x(f, k)) /\ DOMAIN x(f, k) = SessionFields
      BY <1>6
    <2> HIDE DEF x
    <2>3. calm
      BY <1>4, <1>5, <2>1, <2>2
    <2>4. away
      BY <1>2, <1>19 DEF Write, EndStream
    <2> QED BY <2>3, <2>4, SteadyFills DEF calm, away
  <1>20. CASE RunDone(c)
    <2>1. \E n : Cleanup(c, ses[c], "provider", FALSE, n) \/ \E v : Cleanup(c, kept(v), "provider", FALSE, n)
      BY <1>20 DEF RunDone, kept
    <2>2. calm
      BY <1>0, <1>5, <1>7, <1>8, <2>1 DEF kept
    <2>3. away
      BY <1>2, <1>20 DEF RunDone
    <2> QED BY <2>2, <2>3, SteadyFills DEF calm, away
  <1> QED BY <1>10, <1>11, <1>12, <1>13, <1>14, <1>15, <1>16, <1>17, <1>18, <1>19, <1>20

\* The provider takes the whole queue; a Responses provider resets the count.
LEMMA TakeFills ==
  ASSUME RouteInv, PendingInv, UNCHANGED <<rig, req>>, NEW c \in Sessions, Take(c)
  PROVE  PendingInv'
  <1> DEFINE q == ses[c].queue
             load == SumOf(q, Charged)
             off == SumOf(q, Uncharged)
             w == rig.width
             p == ses[c].pending
             o == ses[c].over
             p2 == IF Chat(c) THEN (p - off) % w ELSE 0
             o2 == IF Chat(c) THEN o + off - load ELSE o
             s == ses'[c]
  <1>0. /\ rig.maxDeltas \in Nat /\ rig.maxBytes \in Nat /\ w \in Nat /\ rig.maxBytes < w
        /\ DOMAIN ses[c] = SessionFields /\ c \in DOMAIN ses /\ Filled(c) /\ c \in DOMAIN th
        /\ \A e \in Deltas(c) : Charged(e) \in Nat /\ e.logprobs \in Nat
    BY SessionRig, Everybody DEF PendingInv, RouteInv, Shapes
  <1>1. /\ Only(ses, ses', c) /\ Only(th, th', c) /\ th'[c] = Woken(th[c])
        /\ s = [ses[c] EXCEPT !.batch = q, !.queue = <<>>, !.pending = p2, !.over = o2]
    BY <1>0 DEF Take, Become, Runs, Only
  <1>2. /\ q \in Seq(Deltas(c)) /\ o \in Nat /\ p \in 0..w - 1 /\ ses[c].made \in Nat
        /\ (~Chat(c) => o = 0) /\ Balanced(p, load, o, w)
        /\ th[c] \in Offering => ses[c].made < Len(Ask(c).script)
    BY <1>0 DEF Filled
  <1>3. load \in Nat /\ off \in Nat /\ load <= off
    BY <1>0, <1>2, ChargedNat
  <1> HIDE DEF q, load, off, w, p, o
  <1>4. p2 \in 0..w - 1 /\ o2 \in Nat /\ (~Chat(c) => o2 = 0) /\ Balanced(p2, 0, o2, w)
    <2>1. CASE Chat(c)
      <3>1. 0 < w
        BY <1>0
      <3> QED BY <1>0, <1>2, <1>3, <2>1, <3>1, ChargeEnds
    <2>2. CASE ~Chat(c)
      <3>1. p2 = 0 /\ o2 = 0 /\ 0 = 0 - 0 + 0 * w /\ 0 \in 0..w - 1
        BY <1>0, <1>2, <2>2
      <3> QED BY <2>2, <3>1 DEF Balanced
    <2> QED BY <2>1, <2>2
  <1> HIDE DEF p2, o2
  <1>5. s.made = ses[c].made /\ s.queue = <<>> /\ s.pending = p2 /\ s.over = o2
    BY <1>0, <1>1 DEF SessionFields
  <1> HIDE DEF s
  <1>6. SumOf(s.queue, Charged) = 0 /\ Len(s.queue) = 0 /\ s.queue \in Seq(Deltas(c))
    BY <1>5, ChargedNothing
  <1>7. Deltas(c)' = Deltas(c) /\ (Chat(c)' <=> Chat(c)) /\ rig' = rig /\ Ask(c)' = Ask(c)
    BY DEF Deltas, Ask, Chat
  <1>8. th'[c] \in Offering => s.made < Len(Ask(c).script)
    BY <1>1, <1>2, <1>5 DEF Woken, Offering
  <1>9. Balanced(s.pending, SumOf(s.queue, Charged), s.over, w)
    BY <1>4, <1>5, <1>6, Zenon
  <1>10. /\ s.made \in Nat /\ s.over \in Nat /\ s.pending \in 0..w - 1 /\ (~Chat(c) => s.over = 0)
         /\ SumOf(s.queue, Charged) - s.over < w /\ SumOf(s.queue, Charged) <= rig.maxBytes + s.over
    BY <1>0, <1>2, <1>4, <1>5, <1>6
  <1>11. Filled(c)'
    BY <1>0, <1>6, <1>7, <1>8, <1>9, <1>10 DEF Filled, s, w
  <1> QED BY <1>1, <1>11, OneFills

----------------------------------------------------------------------------
(* The speech streams. *)

\* One media request changes and the rest stays.
LEMMA OneBuffers ==
  ASSUME RouteInv, PendingInv, UNCHANGED <<rig, ses>>, NEW c \in Medias, Only(req, req', c), Only(th, th', c),
         Buffered(c)'
  PROVE  PendingInv'
  <1>1. /\ Sessions' = Sessions /\ Medias' = Medias /\ DOMAIN req = Medias /\ Sessions \subseteq DOMAIN th
        /\ c \notin Sessions
    BY Everybody DEF Sessions, Medias, AskedFor, RouteInv, Shapes
  <1>2. ASSUME NEW r \in Sessions PROVE Filled(r)'
    BY <1>1, <1>2 DEF PendingInv, Filled, Only, Deltas, Ask, Chat
  <1>3. ASSUME NEW r \in Medias, r # c PROVE Buffered(r)'
    BY <1>1, <1>3 DEF PendingInv, Buffered, Only
  <1> QED BY <1>1, <1>2, <1>3 DEF PendingInv

\* The worker of a stream queues a chunk, the provider writes one.
LEMMA SpeechFills ==
  ASSUME RouteInv, PendingInv, UNCHANGED <<rig, ses>>, NEW c \in Medias, SpeechPush(c) \/ SpeechWrite(c)
  PROVE  PendingInv'
  <1>0. /\ DOMAIN req[c] = MediaFields /\ c \in DOMAIN req /\ c \in DOMAIN th /\ rig \in Rigs
        /\ req[c].made \in Nat /\ req[c].queue \in Seq(Nat) /\ Len(req[c].queue) <= rig.maxChunks
    BY OneMedia, Everybody DEF RouteInv, Shapes, PendingInv, Buffered
  <1>1. Only(req, req', c) /\ Only(th, th', c)
    BY <1>0 DEF SpeechPush, SpeechWrite, Set, Move, Finish, Runs, Only
  <1>2. \/ req'[c].made = req[c].made /\ req'[c].queue = req[c].queue
        \/ /\ req'[c].made = req[c].made + 1 /\ req'[c].queue = Append(req[c].queue, req[c].made + 1)
           /\ Len(req[c].queue) < rig.maxChunks
        \/ req'[c].made = req[c].made /\ req'[c].queue = Tail(req[c].queue) /\ req[c].queue # <<>>
    <2>1. CASE SpeechPush(c)
      BY <1>0, <2>1 DEF SpeechPush, Set, MediaFields
    <2>2. CASE SpeechWrite(c)
      <3> DEFINE m == [req[c] EXCEPT !.queue = Tail(@)]
      <3>1. DOMAIN m = MediaFields /\ m.made = req[c].made /\ m.queue = Tail(req[c].queue)
        BY <1>0 DEF MediaFields
      <3>2. /\ req[c].queue # <<>>
            /\ req'[c] \in {[m EXCEPT !.sent = Append(@, Head(req[c].queue))],
                             [m EXCEPT !.last = "provider", !.status = 499]}
        BY <1>0, <2>2 DEF SpeechWrite, Move, Finish, Set
      <3> HIDE DEF m
      <3>3. req'[c].made = m.made /\ req'[c].queue = m.queue
        BY <3>1, <3>2 DEF MediaFields
      <3> QED BY <3>1, <3>2, <3>3
    <2> QED BY <2>1, <2>2
  <1>3. rig.maxChunks \in Nat
    BY <1>0, RigAssumption
  <1>4. Buffered(c)'
    <2>1. CASE /\ req'[c].made = req[c].made + 1 /\ req'[c].queue = Append(req[c].queue, req[c].made + 1)
               /\ Len(req[c].queue) < rig.maxChunks
      <3>1. req[c].made + 1 \in Nat /\ Len(req[c].queue) \in Nat
        BY <1>0
      <3>2. /\ Append(req[c].queue, req[c].made + 1) \in Seq(Nat)
            /\ Len(Append(req[c].queue, req[c].made + 1)) = Len(req[c].queue) + 1
        BY <1>0, <3>1
      <3> QED BY <1>3, <2>1, <3>1, <3>2 DEF Buffered
    <2>2. CASE req'[c].made = req[c].made /\ req'[c].queue = Tail(req[c].queue) /\ req[c].queue # <<>>
      <3>1. Tail(req[c].queue) \in Seq(Nat) /\ Len(Tail(req[c].queue)) = Len(req[c].queue) - 1
        BY <1>0, <2>2
      <3> QED BY <1>0, <1>3, <2>2, <3>1 DEF Buffered
    <2> QED BY <1>0, <1>2, <2>1, <2>2 DEF Buffered
  <1> QED BY <1>1, <1>4, OneBuffers

\* Every other step of a handler queues and writes nothing.
LEMMA MediaSteady ==
  ASSUME RouteInv, PendingInv, UNCHANGED <<rig, ses>>, NEW c \in Medias,
         \/ Begin(c) \/ Depart(c) \/ Cancel(c)
         \/ Snapshot(c) \/ Permit(c) \/ GetSlot(c) \/ NoSlot(c) \/ Decode(c)
         \/ Generate(c) \/ GenerateVideo(c) \/ Transcribe(c) \/ SynthesizeWav(c)
         \/ WriteFile(c) \/ Rename(c) \/ WriteFails(c) \/ Attach(c) \/ Kept(c) \/ FinishJob(c) \/ GiveBack(c)
         \/ SpeechCall(c) \/ SpeechReturn(c) \/ SpeechAgain(c)
         \/ SpeechEnd(c) \/ SpeechReleaser(c) \/ SpeechFinish(c) \/ SpeechJoin(c)
  PROVE  PendingInv'
  <1> DEFINE calm == Only(req, req', c) /\ req'[c].made = req[c].made /\ req'[c].queue = req[c].queue
  <1>0. /\ DOMAIN req[c] = MediaFields /\ c \in DOMAIN req /\ c \in DOMAIN th /\ Buffered(c)
    BY OneMedia, Everybody DEF RouteInv, Shapes, PendingInv
  <1>1. UNCHANGED req => calm
    BY <1>0 DEF Only
  <1>2. ASSUME NEW m, Set(c, m), m.made = req[c].made, m.queue = req[c].queue PROVE calm
    BY <1>0, <1>2 DEF Set, Only
  <1>3. ASSUME NEW status, Settle(c, status) PROVE calm
    BY <1>0, <1>2, <1>3 DEF Settle, Move, MediaFields
  <1>4. ASSUME NEW by, NEW status, Finish(c, req[c], by, status) PROVE calm
    BY <1>0, <1>2, <1>4 DEF Finish, Move, MediaFields
  <1>5. ASSUME NEW i
        PROVE  LET m == [req[c] EXCEPT !.id = i]
               IN  m.made = req[c].made /\ m.queue = req[c].queue /\ DOMAIN m = MediaFields
    BY <1>0 DEF MediaFields
  <1>6. ASSUME NEW i
        PROVE  LET m == [req[c] EXCEPT !.files = i]
               IN  m.made = req[c].made /\ m.queue = req[c].queue /\ DOMAIN m = MediaFields
    BY <1>0 DEF MediaFields
  <1>7. ASSUME NEW i PROVE LET m == [req[c] EXCEPT !.slot = i] IN m.made = req[c].made /\ m.queue = req[c].queue
    BY <1>0 DEF MediaFields
  <1>8. ASSUME NEW then, NEW m, Persist(c, then, m), DOMAIN m = MediaFields,
               m.made = req[c].made, m.queue = req[c].queue
        PROVE  calm
    BY <1>2, <1>8 DEF Persist, Move, MediaFields
  <1> HIDE DEF calm
  <1>10. Begin(c) => calm
    BY <1>5, <1>8 DEF Begin
  <1>11. Depart(c) \/ Cancel(c) => calm
    <2>1. /\ [req[c] EXCEPT !.gone = TRUE].made = req[c].made /\ [req[c] EXCEPT !.gone = TRUE].queue = req[c].queue
          /\ [req[c] EXCEPT !.cancelled = TRUE].made = req[c].made
          /\ [req[c] EXCEPT !.cancelled = TRUE].queue = req[c].queue
      BY <1>0 DEF MediaFields
    <2> QED BY <1>2, <2>1 DEF Depart, Cancel
  <1>12. Snapshot(c) \/ WriteFile(c) \/ GiveBack(c) \/ SpeechCall(c) \/ SpeechAgain(c) => calm
    BY <1>1 DEF Snapshot, WriteFile, GiveBack, SpeechCall, SpeechAgain
  <1>13. \/ Permit(c) \/ NoSlot(c) \/ Decode(c) \/ Generate(c) \/ GenerateVideo(c) \/ Transcribe(c)
         \/ SynthesizeWav(c)
         => calm
    BY <1>1, <1>3 DEF Permit, NoSlot, Decode, Generate, GenerateVideo, Transcribe, SynthesizeWav, CallFails
  <1>14. GetSlot(c) => calm
    BY <1>2, <1>7 DEF GetSlot
  <1>15. Rename(c) => calm
    BY <1>2, <1>6 DEF Rename, Move
  <1>16. WriteFails(c) \/ Kept(c) \/ SpeechJoin(c) => calm
    BY <1>3 DEF WriteFails, Kept, SpeechJoin
  <1>17. Attach(c) => calm
    BY <1>6, <1>8 DEF Attach
  <1>18. FinishJob(c) => calm
    BY <1>0, <1>8 DEF FinishJob
  <1>19. SpeechReturn(c) => calm
    <2> DEFINE m == [req[c] EXCEPT !.failed = ~req[c].cancelled, !.aborted = @ \/ req[c].cancelled]
    <2>1. m.made = req[c].made /\ m.queue = req[c].queue
      BY <1>0 DEF MediaFields
    <2>2. SpeechReturn(c) => UNCHANGED req \/ Set(c, m)
      BY DEF SpeechReturn
    <2> HIDE DEF m
    <2> QED BY <1>1, <1>2, <2>1, <2>2
  <1>20. SpeechEnd(c) \/ SpeechReleaser(c) => calm
    BY <1>4 DEF SpeechEnd, SpeechReleaser
  <1>21. SpeechFinish(c) => calm
    <2> DEFINE m == [req[c] EXCEPT !.cleaned = TRUE, !.aborted = (req[c].status = 499)]
    <2>1. m.made = req[c].made /\ m.queue = req[c].queue
      BY <1>0 DEF MediaFields
    <2>2. SpeechFinish(c) => UNCHANGED req \/ Set(c, m)
      BY DEF SpeechFinish, Move
    <2> HIDE DEF m
    <2> QED BY <1>1, <1>2, <2>1, <2>2
  <1>22. calm
    BY <1>10, <1>11, <1>12, <1>13, <1>14, <1>15, <1>16, <1>17, <1>18, <1>19, <1>20, <1>21
  <1>23. Only(th, th', c)
    BY <1>0 DEF Begin, Depart, Cancel, Snapshot, Permit, GetSlot, NoSlot, Decode, Generate, GenerateVideo, Transcribe,
                SynthesizeWav, WriteFile, Rename, WriteFails, Attach, Kept, FinishJob, GiveBack, SpeechCall, SpeechReturn,
                SpeechAgain, SpeechEnd, SpeechReleaser, SpeechFinish, SpeechJoin, Runs, Only
  <1>24. Buffered(c)'
    BY <1>0, <1>22 DEF Buffered, calm
  <1> QED BY <1>22, <1>23, <1>24, OneBuffers DEF calm

\* The history's own steps touch no queue; a crash empties them and leaves no
\* thread.
LEMMA HistorySteady ==
  ASSUME RouteInv, PendingInv, UNCHANGED <<rig, ses>>, Save \/ SaveFails \/ Sweep \/ Crash
  PROVE  PendingInv'
  <1>1. /\ Sessions' = Sessions /\ Medias' = Medias /\ DOMAIN req = Medias /\ Sessions \subseteq DOMAIN th
        /\ rig \in Rigs
    BY Everybody DEF Sessions, Medias, AskedFor, RouteInv, Shapes
  <1>2. ASSUME NEW r \in Sessions PROVE Filled(r)'
    <2>1. th'[r] \in Offering => th[r] \in Offering
      BY <1>1 DEF Save, SaveFails, Sweep, Crash, Offering
    <2> QED BY <2>1 DEF PendingInv, Filled, Deltas, Ask, Chat
  <1>3. ASSUME NEW r \in Medias PROVE Buffered(r)'
    <2>1. req'[r] \in {req[r], FreshRequest}
      BY <1>1 DEF Save, SaveFails, Sweep, Crash
    <2>2. rig.maxChunks \in Nat
      BY <1>1, RigAssumption
    <2>3. FreshRequest.made \in Nat /\ FreshRequest.queue \in Seq(Nat) /\ Len(FreshRequest.queue) <= rig.maxChunks
      BY <2>2 DEF FreshRequest
    <2> QED BY <2>1, <2>3 DEF PendingInv, Buffered
  <1> QED BY <1>1, <1>2, <1>3 DEF PendingInv
----------------------------------------------------------------------------
(* What waits, from the first step on. *)

\* Nothing waits at first.
LEMMA PendingStarts == Init => PendingInv
  <1> SUFFICES ASSUME Init PROVE PendingInv
    OBVIOUS
  <1>1. /\ rig \in Rigs /\ ses = [r \in Sessions |-> FreshSession] /\ req = [r \in Medias |-> FreshRequest]
        /\ th = [r \in DOMAIN rig.ask |-> "none"]
    BY DEF Init, RouteInit, SessionInit, MediaInit
  <1>2. rig.maxChunks \in Nat /\ rig.maxDeltas \in Nat /\ rig.maxBytes \in Nat /\ rig.width \in Nat
        /\ rig.maxBytes < rig.width
    BY <1>1, RigAssumption, StreamAssumption
  <1>3. ASSUME NEW r \in Medias PROVE Buffered(r)
    <2>1. req[r].made = 0 /\ req[r].queue = <<>>
      BY <1>1, <1>3 DEF FreshRequest
    <2> QED BY <1>2, <2>1 DEF Buffered
  <1>4. ASSUME NEW r \in Sessions PROVE Filled(r)
    <2>1. /\ ses[r].made = 0 /\ ses[r].queue = <<>> /\ ses[r].pending = 0 /\ ses[r].over = 0
          /\ th[r] = "none"
      BY <1>1 DEF FreshSession, Sessions, AskedFor
    <2>2. SumOf(ses[r].queue, Charged) = 0 /\ Len(ses[r].queue) = 0 /\ ses[r].queue \in Seq(Deltas(r))
      BY <2>1, ChargedNothing
    <2>3. 0 = 0 - 0 + 0 * rig.width /\ 0 \in 0..rig.width - 1
      BY <1>2
    <2>4. Balanced(ses[r].pending, SumOf(ses[r].queue, Charged), ses[r].over, rig.width)
      BY <2>1, <2>2, <2>3 DEF Balanced
    <2> QED BY <1>2, <2>1, <2>2, <2>3, <2>4 DEF Filled, Offering
  <1> QED BY <1>3, <1>4 DEF PendingInv

\* Every step keeps the invariant of what waits.
LEMMA PendingNext == RouteInv /\ PendingInv /\ [Next]_vars => PendingInv'
  <1> SUFFICES ASSUME RouteInv, PendingInv, [Next]_vars PROVE PendingInv'
    OBVIOUS
  <1>1. CASE SessionNext /\ UNCHANGED <<rig, mediaVars>>
    <2>1. UNCHANGED <<rig, req>>
      BY <1>1 DEF mediaVars
    <2> QED BY <1>1, <2>1, SessionSteady, PushFills, TakeFills DEF SessionNext
  <1>2. CASE MediaNext /\ UNCHANGED <<rig, ses>>
    BY <1>2, MediaSteady, SpeechFills, HistorySteady DEF MediaNext
  <1>3. CASE UNCHANGED vars
    <2>1. UNCHANGED <<rig, ses, req, th>> /\ Sessions' = Sessions /\ Medias' = Medias
      BY <1>3 DEF vars, mediaVars, Sessions, Medias, AskedFor
    <2> QED BY <2>1 DEF PendingInv, Filled, Buffered, Deltas, Ask, Chat
  <1> QED BY <1>1, <1>2, <1>3 DEF Next

\* What waits for a slow client stays within max_pending_stream_deltas, always,
\* and within max_pending_stream_bytes up to what the chat provider took off
\* too much (its delta_size counts log probabilities that the callback of
\* GenerationSession did not charge), unless one delta alone is larger, and
\* although pending_bytes wraps; a speech stream keeps to its chunks.
THEOREM PendingAlwaysBounded == Spec => []PendingBounded
  <1>1. RouteInv /\ PendingInv => PendingBounded
    BY DEF PendingInv, Filled, Buffered, PendingBounded
  <1>2. Spec => [](RouteInv /\ PendingInv)
    BY RouteStarts, RouteNext, PendingStarts, PendingNext, PTL DEF Spec
  <1> QED BY <1>1, <1>2, PTL
=============================================================================
