------------------------------ MODULE MCRoutes ------------------------------
(* Instances of Routes for TLC: two or three requests on one or two slots.    *)
EXTENDS Routes, TLC

Says(text) == Delta(text, <<>>, <<>>, 0)
Thinks(text) == Delta(<<>>, text, <<>>, 0)
Calls(i, head, args) == Delta(<<>>, <<>>, <<[index |-> i, head |-> head, args |-> args]>>, 0)
Text(kind, script) == [kind |-> kind, script |-> script, ends |-> {"ok", "error"}, leaves |-> FALSE]
Media(kind, makes) == [kind |-> kind, makes |-> makes, ends |-> {"ok"}, leaves |-> FALSE, cancels |-> FALSE]
Leaves(a) == [a EXCEPT !.leaves = TRUE]
Base == [slots |-> 1, maxDeltas |-> 2, maxBytes |-> 3, width |-> 1000, persist |-> TRUE, maxJobs |-> 1,
         maxChunks |-> 1, crashes |-> 0, faults |-> {}, ask |-> <<>>]

\* Characters of two and three bytes split over deltas; a slow client.
Slow == [Base EXCEPT !.ask = [r1 |-> Text("chat", <<Says(<<2>>), Says(<<0, 3, 0>>), Says(<<0>>), Says(<<1, 1, 1, 1>>)>>),
                              r2 |-> Text("plain", <<>>)]]
\* More than the queue holds, with log probabilities and a late surplus.
Probabilities == [Base EXCEPT !.ask = [r1 |-> Text("chat",
    <<Delta(<<1>>, <<>>, <<>>, 2), Says(<<1, 1, 1>>), Says(<<1>>), Says(<<1>>)>>)]]
\* Reasoning, a message and two calls whose order is not that of their kinds.
Items4 == [Base EXCEPT !.ask = [r1 |-> Text("responses",
    <<Says(<<1>>), Thinks(<<2, 0>>), Calls(1, TRUE, <<>>), Calls(0, TRUE, <<2>>), Calls(1, FALSE, <<1>>)>>)]]
\* Clients that leave, with no more deltas than the queue takes.
LeavingChat == [Base EXCEPT !.ask = [r1 |-> Leaves(Text("chat", <<Says(<<1>>), Says(<<2>>)>>)),
                                     r2 |-> Text("chat", <<>>)]]
LeavingResponses == [Base EXCEPT !.ask = [r1 |-> Leaves(Text("responses", <<Thinks(<<1>>), Says(<<1>>)>>)),
                                          r2 |-> Leaves(Text("plain", <<>>))]]
\* Generators, a failing disk, a full history, and restarts.
History == [Base EXCEPT !.slots = 2, !.crashes = 1, !.faults = {"save", "write", "remove"},
                        !.ask = [r1 |-> Media("image", 2), r2 |-> Media("music", 1)]]
Restarts == [Base EXCEPT !.crashes = 2, !.faults = {"save"},
                         !.ask = [r1 |-> Media("video", 1), r2 |-> Media("image", 1)]]
Bounded == [Base EXCEPT !.maxBytes = 2, !.maxJobs = 2, !.ask =
    [r1 |-> [Leaves(Media("video", 1)) EXCEPT !.cancels = TRUE], r2 |-> Media("image", 2)]]
Memory == [Base EXCEPT !.persist = FALSE, !.ask = [r1 |-> Media("image", 1), r2 |-> Media("music", 1)]]
\* Speech and transcription.
Voice == [Base EXCEPT !.persist = FALSE, !.ask =
    [r1 |-> [Leaves(Media("speech", 3)) EXCEPT !.cancels = TRUE, !.ends = {"ok", "error"}],
     r2 |-> Leaves(Media("transcription", 0))]]
Decoding == [Base EXCEPT !.persist = FALSE, !.ask =
    [r1 |-> [Media("transcription", 0) EXCEPT !.cancels = TRUE, !.ends = {"ok", "error"}],
     r2 |-> Media("transcription", 0), r3 |-> Media("wav", 0)]]
MCRigs == {Slow, Probabilities, Items4, LeavingChat, LeavingResponses, History, Restarts, Bounded, Memory,
           Voice, Decoding}

\* A client that leaves while the producer waits for room.
PressedRigs == {[Base EXCEPT !.maxDeltas = 1, !.ask = [r1 |-> Leaves(Text("chat", <<Says(<<1>>), Says(<<1>>)>>))]]}
=============================================================================
