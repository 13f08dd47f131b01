------------------------------ MODULE MCBatch ------------------------------
(* Instances of BatchScheduler for TLC: two slots, up to three requests on    *)
(* prompts of up to three tokens over an alphabet of two.                     *)
EXTENDS BatchScheduler, TLC

Asking(prompt, max) == [prompt |-> prompt, capture |-> 0, max |-> max, stopAt |-> 9,
                        leaves |-> FALSE, logprobs |-> FALSE, streams |-> TRUE]
Turns == [slots |-> 2, recurrent |-> FALSE, faults |-> {}, capacity |-> 0, margin |-> 0,
          mtp |-> FALSE, mtpMax |-> 0, batch |-> 3, vocab |-> {1}, silent |-> {},
          remakes |-> 0, asks |-> <<>>]
Two(a, b) == [r1 |-> a, r2 |-> b]
Three(a, b, c) == [r1 |-> a, r2 |-> b, r3 |-> c]

\* Conversations that share a prefix, go on with it, or stop at a string.
Plain == [Turns EXCEPT !.asks = Two(
    [Asking(<<1, 2>>, 3) EXCEPT !.stopAt = 1], Asking(<<1, 2, 1>>, 2))]
\* One client leaves while the other's prompt waits for room in the batch.
Leaving == [Turns EXCEPT !.batch = 2, !.asks = Two(
    [Asking(<<1, 2>>, 3) EXCEPT !.leaves = TRUE], Asking(<<1, 1, 2>>, 2))]
\* A pool of six cells: the third fits beside the first, the second only
\* alone, and what the first leaves behind must go.
Pooled == [Turns EXCEPT !.capacity = 6, !.asks = Three(
    Asking(<<1, 2>>, 2), Asking(<<2, 1, 1>>, 2), Asking(<<1>>, 1))]
TooLarge == [Turns EXCEPT !.capacity = 4, !.asks = Two(Asking(<<1, 2, 1>>, 3), Asking(<<2, 1>>, 1))]
\* Drafting for one request at a time; a second one closes the window.
Drafting == [Turns EXCEPT !.mtp = TRUE, !.mtpMax = 1, !.margin = 1, !.asks = Three(
    Asking(<<1>>, 2), Asking(<<2>>, 1), Asking(<<1, 1>>, 1))]
Resync == [Drafting EXCEPT !.slots = 1, !.asks = Three(
    [Asking(<<1, 1>>, 2) EXCEPT !.logprobs = TRUE], Asking(<<1, 1, 2>>, 2), Asking(<<1, 1, 2>>, 3))]
\* A recurrent model: the cells can only go back to a checkpoint.
Recurrent == [Turns EXCEPT !.recurrent = TRUE, !.slots = 1, !.asks = Three(
    [Asking(<<1, 1, 2>>, 1) EXCEPT !.capture = 2],
    [Asking(<<1, 1, 1>>, 2) EXCEPT !.capture = 2],
    [Asking(<<1, 2, 2>>, 1) EXCEPT !.leaves = TRUE])]
\* Failures of the decoder and of the sampler, and contexts made anew.
Failing == [Turns EXCEPT !.faults = {"decode", "sampler"}, !.remakes = 1,
                         !.asks = Two(Asking(<<1>>, 1), Asking(<<2>>, 2))]
\* Tokens whose piece is empty.  predict keeps them; predict_stream forgets
\* them, and the next prompt is matched against what is left.
Muted == [Turns EXCEPT !.silent = {1}, !.asks = Two(
    [Asking(<<1, 2>>, 2) EXCEPT !.streams = FALSE],
    [Asking(<<1, 2, 1>>, 2) EXCEPT !.streams = FALSE])]
Silent == [Muted EXCEPT !.capacity = 6, !.mtp = TRUE, !.mtpMax = 1, !.margin = 1, !.vocab = {1, 2},
                        !.slots = 1, !.asks = Two(Asking(<<1>>, 3), Asking(<<1, 2, 2>>, 2))]

MCRigs == {Plain, Leaving, Pooled, TooLarge, Drafting, Resync, Recurrent, Failing, Muted, Silent}
============================================================================
