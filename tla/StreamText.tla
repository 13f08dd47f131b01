----------------------------- MODULE StreamText -----------------------------
(***************************************************************************)
(* What happens to the text of a generation between the runtime's callback *)
(* and the wire: the size a delta is charged with, the UTF-8 buffers that  *)
(* keep a character whole, and the events of the Chat and the Responses    *)
(* streams.  A byte is represented by what UTF-8 makes of it: 0 is a       *)
(* continuation byte, n > 0 the first byte of a character of n bytes.      *)
(***************************************************************************)
EXTENDS Integers, Sequences, FiniteSets, FiniteSetsExt, SequencesExt

\* A delta of the runtime: text, reasoning, tool call fragments (the index of
\* the call, whether the id or the name is in it, bytes of its arguments),
\* bytes of log probabilities.
Delta(text, reasoning, tools, logprobs) ==
    [text |-> text, reasoning |-> reasoning, tools |-> tools, logprobs |-> logprobs]
SumOf(s, f(_)) == SumFunction([i \in DOMAIN s |-> f(s[i])])
\* delta_size as the producer charges it, and as the chat provider, which
\* also counts the log probabilities, takes it off again.
Charged(d) == Len(d.text) + Len(d.reasoning) + SumOf(d.tools, LAMBDA t : Len(t.args))
Uncharged(d) == Charged(d) + d.logprobs
----------------------------------------------------------------------------
(* Utf8StreamBuffer                                                        *)

CutNever(bytes) == Len(bytes)
\* incomplete_utf8_suffix: the number of bytes before an unfinished character.
Cut(bytes) ==
    LET n == Len(bytes)
        tail == Max({k \in 0..Min({3, n}) : \A i \in n - k + 1..n : bytes[i] = 0})
    IN  IF tail = n THEN n
        ELSE IF bytes[n - tail] > tail + 1 THEN n - tail - 1 ELSE n
\* on_chunk and finish: what goes out and what is kept.
OnChunk(pending, chunk) ==
    LET all == pending \o chunk
        k == Cut(all)
    IN  [out |-> SubSeq(all, 1, k), keep |-> SubSeq(all, k + 1, Len(all))]

\* InferenceDeltaUtf8Buffer: one buffer per text and per tool call.
NoText == [text |-> <<>>, reasoning |-> <<>>, tools |-> [i \in 0..1 |-> <<>>]]
OnDelta(buffer, d) ==
    LET text == OnChunk(buffer.text, d.text)
        reasoning == OnChunk(buffer.reasoning, d.reasoning)
        step(acc, t) ==
            LET c == OnChunk(acc.keep[t.index], t.args)
            IN  [out |-> IF c.out = <<>> /\ ~t.head THEN acc.out
                         ELSE Append(acc.out, [t EXCEPT !.args = c.out]),
                 keep |-> [acc.keep EXCEPT ![t.index] = c.keep]]
        tools == FoldLeft(step, [out |-> <<>>, keep |-> buffer.tools], d.tools)
    IN  [delta |-> Delta(text.out, reasoning.out, tools.out,
                         IF text.out = d.text THEN d.logprobs ELSE 0),
         buffer |-> [text |-> text.keep, reasoning |-> reasoning.keep, tools |-> tools.keep]]
OnFinish(buffer) ==
    Delta(buffer.text, buffer.reasoning,
          FoldLeft(LAMBDA acc, i : IF buffer.tools[i] = <<>> THEN acc
                                   ELSE Append(acc, [index |-> i, head |-> FALSE, args |-> buffer.tools[i]]),
                   <<>>, <<0, 1>>), 0)
----------------------------------------------------------------------------
(* The Chat stream: one frame per delta that says something.               *)

Nothing(d) == d.text = <<>> /\ d.reasoning = <<>> /\ d.tools = <<>> /\ d.logprobs = 0
ChatFrames(d) == IF Nothing(d) THEN <<>> ELSE <<[type |-> "chunk", delta |-> d]>>
ChatDone == <<[type |-> "done"]>>
ChatError == <<[type |-> "error"]>>
----------------------------------------------------------------------------
(* The Responses stream: ResponsesStreamState and its events.              *)

Call(i) == <<"call0", "call1">>[i + 1]        \* the item of a tool call

FreshResponse == [started |-> FALSE, next |-> 0, index |-> <<>>, said |-> <<>>]
Event(type, item, at, data) == [type |-> type, item |-> item, at |-> at, data |-> data]
Has(st, item) == item \in DOMAIN st.index
Extend(f, x, v) == [y \in DOMAIN f \cup {x} |-> IF y = x THEN v ELSE f[y]]

\* start_response_stream
Created(st) == IF st.started THEN <<>> ELSE <<[type |-> "created"], [type |-> "in_progress"]>>
\* ensure_message_stream, ensure_reasoning_stream, the insertion of a call:
\* the first words of an item give it the next index.
Opened(st, item) ==
    IF Has(st, item) THEN st
    ELSE [st EXCEPT !.index = Extend(@, item, st.next), !.said = Extend(@, item, <<>>),
                    !.next = @ + 1]
OpenEvents(st, item) ==
    IF Has(st, item) THEN <<>> ELSE <<Event("added", item, Opened(st, item).index[item], <<>>)>>
\* Words of an item: a text item opens with its first words, a call with its
\* first fragment.
Say(acc, item, opens, bytes) ==
    LET o == Opened(acc.st, item)
    IN  IF bytes = <<>> /\ ~opens THEN acc
        ELSE [st |-> [o EXCEPT !.said[item] = @ \o bytes],
              events |-> acc.events \o OpenEvents(acc.st, item)
                \o IF bytes = <<>> THEN <<>> ELSE <<Event("delta", item, o.index[item], bytes)>>]
\* apply_sanitized_generation_delta: reasoning, then text, then the calls.
Applied(st, d) ==
    FoldLeft(LAMBDA acc, t : Say(acc, Call(t.index), TRUE, t.args),
             Say(Say([st |-> st, events |-> <<>>], "reasoning", FALSE, d.reasoning),
                 "message", FALSE, d.text),
             d.tools)
\* completed_stream_output: the items in the order of their indices.
Output(st) == [i \in 1..Cardinality(DOMAIN st.index) |->
                 CHOOSE item \in DOMAIN st.index :
                   Cardinality({x \in DOMAIN st.index : st.index[x] < st.index[item]}) = i - 1]
\* finish_response_stream: an item's index is then its position in the output.
Completed(st) ==
    LET items == Output(st)
        text(item) == IF Has(st, item) THEN <<Event("text_done", item, st.index[item], st.said[item])>>
                      ELSE <<>>
    IN  text("reasoning") \o text("message")
        \o [i \in 1..Len(items) |-> Event("item_done", items[i], i - 1, st.said[items[i]])]
        \o <<[type |-> "completed"]>>
\* fail_response_stream
FailedEvents == <<[type |-> "failed"]>>
=============================================================================
