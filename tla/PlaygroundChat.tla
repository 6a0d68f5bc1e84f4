--------------------------- MODULE PlaygroundChat ---------------------------
(***************************************************************************)
(* The chat playground of the dashboard (web/src/features/playground): the *)
(* hooks that keep the conversation, stream or fetch a reply into its last *)
(* message, and save it in localStorage.                                   *)
(*                                                                         *)
(* A step is one callback of the browser: a click, an event of the stream, *)
(* a timer, a promise, or React rendering the component.  State set by a   *)
(* callback is queued until React renders: a message updater runs then,    *)
(* with the generation counter of that moment, unless React computed it at *)
(* once because nothing was queued.  Clicks are rendered with the event;   *)
(* everything else is rendered in a task of its own, so a click can come   *)
(* between an event and its rendering.                                     *)
(*                                                                         *)
(* Data abstraction.  Request i makes the assistant message with key i; a  *)
(* reply is a sequence of Length tokens.  A token is a character, with the *)
(* request and the position it came from for the properties to tell: the   *)
(* code compares the characters only.  An event of the stream brings any   *)
(* number of them.  A server that repeats all it has sent in every event,  *)
(* which the merging of chunks is written for, is left out, as are text of *)
(* user messages, reasoning, versions, timing and the limits on stored     *)
(* messages (100 of them).                                                 *)
(***************************************************************************)
EXTENDS Naturals, Sequences, SequencesExt

CONSTANTS
    Length,      \* tokens in what the model answers
    Says,        \* what it answers to each request
    Modes,       \* "stream", "plain": the values config.stream may take
    MaxRequests, \* bound: chat requests
    Scenarios    \* what may happen; fields:
                 \*   editor  an editor may be open while a reply is generated
                 \*   clicks  bound: stop, edit, delete and clear clicks
                 \*   visits  bound: times the page is left and opened again

ScenarioType == [editor : BOOLEAN, clicks : Nat, visits : Nat]

ASSUME LengthAssumption == Length \in Nat \ {0}
ASSUME ModesAssumption == Modes \subseteq {"stream", "plain"}
ASSUME ScenariosAssumption ==
    /\ MaxRequests \in Nat
    /\ Scenarios \subseteq ScenarioType

VARIABLES
    shown,   \* what is rendered: messages, isRequesting, isStreaming, editing key
    queue,   \* queued message updates
    flags,   \* isRequesting and isStreaming after the next rendering
    gen,     \* requestGenerationRef
    pend,    \* pendingStreamChunksRef
    flush,   \* streamFlushTimerRef is set
    ctl,     \* stream controller: the request it is serving, and its source
    req,     \* the requests made so far
    stored,  \* messages in localStorage
    save,    \* latestMessagesRef, and whether the save timer is set
    may      \* the scenario, with what is left of its bounds

vars == <<shown, queue, flags, gen, pend, flush, ctl, req, stored, save, may>>

Requests == 1..MaxRequests

ASSUME SaysAssumption ==
    DOMAIN Says = Requests /\ \A i \in Requests : DOMAIN Says[i] = 1..Length

Characters == {"typed"} \cup UNION {{Says[i][n] : n \in 1..Length} : i \in Requests}
Tokens == [req : Requests \cup {0}, pos : 1..Length, char : Characters]

\* The reply of request i, and what a user types over a message.
ReplyOf(i) == [n \in 1..Length |-> [req |-> i, pos |-> n, char |-> Says[i][n]]]
Typed == <<[req |-> 0, pos |-> 1, char |-> "typed"]>>

\* by: the updater that made the message complete (history).
User(i) == [from |-> "user", key |-> i, st |-> "none", text |-> Typed, by |-> "none"]
Loading(i) == [from |-> "assistant", key |-> i, st |-> "loading", text |-> <<>>, by |-> "none"]
Messages ==
    [from : {"user", "assistant"}, key : Requests,
     st : {"none", "loading", "streaming", "complete", "error"},
     text : Seq(Tokens), by : {"none", "done", "response", "stop", "load"}]

NoKey == [from |-> "user", key |-> 0]
KeyOf(m) == [from |-> m.from, key |-> m.key]
MessageKeys == [from : {"user", "assistant"}, key : Requests \cup {0}]

Updates ==
    [k : {"set", "remove", "chunks", "complete", "error", "response"}, g : Nat,
     text : Seq(Tokens), msgs : Seq(Messages), key : MessageKeys]

\* The types of the variables.
TypeOK ==
    /\ shown \in [msgs : Seq(Messages), busy : BOOLEAN, streaming : BOOLEAN,
                  edit : MessageKeys]
    /\ queue \in Seq(Updates)
    /\ flags \in [busy : BOOLEAN, streaming : BOOLEAN]
    /\ gen \in Nat
    /\ pend \in [g : Nat, text : Seq(Tokens)]
    /\ flush \in BOOLEAN
    /\ ctl \in [cur : Requests \cup {0}, source : Requests \cup {0}]
    /\ req \in Seq([g : Nat, ph : {"headers", "open", "wait", "cut", "done"}, n : 0..Length])
    /\ Len(req) <= MaxRequests
    /\ stored \in Seq(Messages)
    /\ save \in [latest : Seq(Messages), timer : BOOLEAN]
    /\ may \in ScenarioType

Init ==
    /\ may \in Scenarios
    /\ shown = [msgs |-> <<>>, busy |-> FALSE, streaming |-> FALSE, edit |-> NoKey]
    /\ queue = <<>>
    /\ flags = [busy |-> FALSE, streaming |-> FALSE]
    /\ gen = 0
    /\ pend = [g |-> 0, text |-> <<>>]
    /\ flush = FALSE
    /\ ctl = [cur |-> 0, source |-> 0]
    /\ req = <<>>
    /\ stored = <<>>
    /\ save = [latest |-> <<>>, timer |-> FALSE]

----------------------------------------------------------------------------
\* Messages

Pending(m) == m.from = "assistant" /\ m.st \in {"loading", "streaming"}
HasContent(m) == m.text # <<>>

\* The index of the message with key k, 0 if there is none.
IndexOf(ms, k) == IF \E n \in DOMAIN ms : KeyOf(ms[n]) = k
                  THEN CHOOSE n \in DOMAIN ms : KeyOf(ms[n]) = k ELSE 0

appendUserMessagePair(ms, i) == ms \o <<User(i), Loading(i)>>
\* The messages up to a user message, or before an assistant message.
createRegeneratedMessages(ms, n, i) ==
    Append(SubSeq(ms, 1, IF ms[n].from = "user" THEN n ELSE n - 1), Loading(i))
removeMessageByKey(ms, k) ==
    FoldLeft(LAMBDA s, m : IF KeyOf(m) = k THEN s ELSE Append(s, m), <<>>, ms)

\* chunk.startsWith(text), which compares nothing but characters.
StartsWith(chunk, text) ==
    Len(text) <= Len(chunk) /\ \A n \in DOMAIN text : chunk[n].char = text[n].char

\* getAppendableChunk and mergePendingStreamChunk: a chunk that begins with all
\* the text so far is taken for a snapshot that repeats it.
getAppendableChunk(text, chunk) ==
    IF text # <<>> /\ StartsWith(chunk, text)
    THEN SubSeq(chunk, Len(text) + 1, Len(chunk)) ELSE chunk
mergePendingStreamChunk(text, chunk) == text \o getAppendableChunk(text, chunk)

applyStreamingChunk(m, chunk) ==
    IF m.st = "error" THEN m
    ELSE [m EXCEPT !.text = @ \o getAppendableChunk(@, chunk), !.st = "streaming"]
completeAssistantMessage(m, by) ==
    IF m.st \in {"complete", "error"} THEN m ELSE [m EXCEPT !.st = "complete", !.by = by]

\* normalizeStoredMessageForLoad for each message, then sanitizeMessagesOnLoad
\* for the last one that is still pending: it gets an error text of its own.
Normalized(ms) ==
    [n \in DOMAIN ms |-> IF Pending(ms[n]) /\ HasContent(ms[n])
                         THEN completeAssistantMessage(ms[n], "load") ELSE ms[n]]
\* Mutant of sanitizeMessagesOnLoad: an empty loading message is left alone.
sanitizeNothing(ms) == ms

sanitizeMessagesOnLoad(ms) ==
    LET pending == {n \in DOMAIN ms : Pending(ms[n])}
    IN  IF pending = {} THEN ms
        ELSE [ms EXCEPT ![CHOOSE n \in pending : \A o \in pending : o <= n] =
                [@ EXCEPT !.st = "error", !.text = Typed]]
loadMessages(ms) == sanitizeMessagesOnLoad(Normalized(ms))

----------------------------------------------------------------------------
\* Queued updates

Update(k, g, text) == [k |-> k, g |-> g, text |-> text, msgs |-> <<>>, key |-> NoKey]
SetMessages(ms) == [Update("set", 0, <<>>) EXCEPT !.msgs = ms]
RemoveKey(k) == [Update("remove", 0, <<>>) EXCEPT !.key = k]

\* What an updater makes of the last message; a reply without streaming
\* replaces whatever the message holds.
Patched(u, m) ==
    CASE u.k = "chunks" -> applyStreamingChunk(m, u.text)
      [] u.k = "complete" -> completeAssistantMessage(m, IF u.text = <<>> THEN "stop" ELSE "done")
      [] u.k = "error" -> [m EXCEPT !.st = "error", !.text = Typed]
      [] u.k = "response" -> [m EXCEPT !.st = "complete", !.text = u.text, !.by = "response"]

\* Every updater of the chat handler returns prev if the generation moved on.
UpdaterCurrent(u, g) == u.g = g

\* updateLastAssistantMessage, with the updater's own generation check.
Applied(ms, u, g) ==
    IF u.k = "set" THEN u.msgs
    ELSE IF u.k = "remove" THEN removeMessageByKey(ms, u.key)
    ELSE IF UpdaterCurrent(u, g) /\ ms # <<>> /\ Last(ms).from = "assistant"
    THEN [ms EXCEPT ![Len(ms)] = Patched(u, @)] ELSE ms

\* Queue u: React may compute the first update at once, with the generation of now.
Enqueued(q, u) ==
    {Append(q, u)} \cup
      (IF q = <<>> THEN {<<SetMessages(Applied(shown.msgs, u, gen))>>} ELSE {})

\* Mutant of persistMessages: a save timer that is not set is not started.
persistIfPending(q, ms) == IF q = <<>> THEN save ELSE [save EXCEPT !.latest = ms]

\* Every updater that runs keeps the latest messages and restarts the save timer.
persistMessages(q, ms) == IF q = <<>> THEN save ELSE [latest |-> ms, timer |-> TRUE]

\* What the queued updates make of messages ms, run in generation g.
Drawn(ms, q, g) == FoldLeft(LAMBDA s, u : Applied(s, u, g), ms, q)

\* React renders what is queued in q, with flags f, in generation g.
Rendered(q, f, g, edit) ==
    LET ms == Drawn(shown.msgs, q, g)
    IN  /\ shown' = [msgs |-> ms, busy |-> f.busy, streaming |-> f.streaming, edit |-> edit]
        /\ queue' = <<>>
        /\ flags' = f
        /\ save' = persistMessages(q, ms)

Render ==
    /\ queue # <<>> \/ flags.busy # shown.busy \/ flags.streaming # shown.streaming
    /\ Rendered(queue, flags, gen, shown.edit)
    /\ UNCHANGED <<gen, pend, flush, ctl, req, stored, may>>

----------------------------------------------------------------------------
\* Requests

\* closeActiveSource, or a controller that is told to stop.
Idle == [cur |-> 0, source |-> 0]

\* Mutant of discardPendingStreamUpdates: the chunks of the last generation stay.
discardNothing(g) == [pend EXCEPT !.g = g]

\* The pending chunks are dropped, and the new ones belong to generation g.
discardPendingStreamUpdates(g) == [g |-> g, text |-> <<>>]

\* sendStreamingChat or sendNonStreamingChat as request i: a new generation, the
\* previous request aborted or superseded, pending chunks discarded.
SendChat(i) ==
    \E mode \in Modes :
      /\ gen' = gen + 1
      /\ pend' = discardPendingStreamUpdates(gen + 1)
      /\ flush' = FALSE
      /\ ctl' = IF mode = "stream" THEN [cur |-> i, source |-> 0] ELSE Idle
      /\ req' = Append(req, [g |-> gen + 1, n |-> 0,
                             ph |-> IF mode = "stream" THEN "headers" ELSE "wait"])

SendFlags == [busy |-> TRUE, streaming |-> FALSE]

CanRequest == Len(req) < MaxRequests
isGenerating == shown.busy \/ shown.streaming
Click == may.clicks > 0 /\ may' = [may EXCEPT !.clicks = @ - 1]

\* handleSendMessage from the input, which is disabled while generating.
Send ==
    LET i == Len(req) + 1
    IN  /\ CanRequest /\ ~isGenerating
        /\ SendChat(i)
        /\ Rendered(Append(queue, SetMessages(appendUserMessagePair(shown.msgs, i))),
                    SendFlags, gen + 1, shown.edit)
        /\ UNCHANGED <<stored, may>>

\* handleRegenerateMessage, guarded by isGenerating, and the retry of an error.
Regenerate(n) ==
    LET i == Len(req) + 1
    IN  /\ CanRequest /\ ~isGenerating
        /\ HasContent(shown.msgs[n]) /\ ~Pending(shown.msgs[n])
        /\ SendChat(i)
        /\ Rendered(Append(queue, SetMessages(createRegeneratedMessages(shown.msgs, n, i))),
                    SendFlags, gen + 1, shown.edit)
        /\ UNCHANGED <<stored, may>>

\* Mutant of FlushFirst: stop drops the chunks it has not shown yet.
FlushNothing(g) == {queue}

\* flushStreamUpdates(generation) queues the pending chunks.
FlushFirst(g) ==
    IF pend.g = g /\ pend.text # <<>>
    THEN Enqueued(queue, Update("chunks", g, pend.text)) ELSE {queue}

\* stopGeneration: flush, then move to an idle generation.
Stop ==
    /\ isGenerating /\ Click
    /\ gen' = gen + 1
    /\ pend' = discardPendingStreamUpdates(gen + 1)
    /\ flush' = FALSE
    /\ ctl' = Idle
    /\ \E q \in FlushFirst(gen) :
         Rendered(Append(q, Update("complete", gen + 1, <<>>)),
                  [busy |-> FALSE, streaming |-> FALSE], gen + 1, shown.edit)
    /\ UNCHANGED <<req, stored>>

----------------------------------------------------------------------------
\* Editing and deleting

\* handleEditMessage, guarded by isGenerating.
OpenEditor(n) ==
    /\ may.editor /\ ~isGenerating /\ HasContent(shown.msgs[n]) /\ Click
    /\ Rendered(queue, flags, gen, KeyOf(shown.msgs[n]))
    /\ UNCHANGED <<gen, pend, flush, ctl, req, stored>>

\* applyEdit without submitting: no guard, and the messages of the last rendering.
SaveEdit ==
    LET n == IndexOf(shown.msgs, shown.edit)
    IN  /\ n # 0
        /\ Rendered(Append(queue, SetMessages([shown.msgs EXCEPT ![n].text = Typed])),
                    flags, gen, NoKey)
        /\ UNCHANGED <<gen, pend, flush, ctl, req, stored, may>>

\* applyEdit of a user message with a new request.
SaveEditAndSubmit ==
    LET n == IndexOf(shown.msgs, shown.edit)  i == Len(req) + 1
    IN  /\ n # 0 /\ shown.edit.from = "user" /\ CanRequest
        /\ SendChat(i)
        /\ Rendered(Append(queue, SetMessages(Append(SubSeq(shown.msgs, 1, n), Loading(i)))),
                    SendFlags, gen + 1, NoKey)
        /\ UNCHANGED <<stored, may>>

Delete(n) ==
    /\ ~isGenerating /\ Click
    /\ Rendered(Append(queue, RemoveKey(KeyOf(shown.msgs[n]))), flags, gen, shown.edit)
    /\ UNCHANGED <<gen, pend, flush, ctl, req, stored>>

ClearMessages ==
    /\ ~isGenerating /\ shown.msgs # <<>> /\ Click
    /\ Rendered(Append(queue, SetMessages(<<>>)), flags, gen, NoKey)
    /\ UNCHANGED <<gen, pend, flush, ctl, req, stored>>

----------------------------------------------------------------------------
\* The stream

\* isCurrent of the controller.
IsCurrent(i) == ctl.cur = i /\ ctl.source = i

\* getFreshAuthHeaders resolves: a source is opened unless superseded.
HeadersReady(i) ==
    /\ req[i].ph = "headers"
    /\ \/ /\ ctl.cur = i
          /\ ctl' = [ctl EXCEPT !.source = i]
          /\ flags' = [flags EXCEPT !.streaming = TRUE]
          /\ req' = [req EXCEPT ![i].ph = "open"]
       \/ /\ ctl.cur # i
          /\ req' = [req EXCEPT ![i].ph = "done"]
          /\ UNCHANGED <<ctl, flags>>
    /\ UNCHANGED <<shown, queue, gen, pend, flush, stored, save, may>>

\* The next chunk of source i, of any length: handleStreamUpdate and
\* scheduleStreamFlush.
StreamChunk(i) ==
    /\ req[i].ph = "open"
    /\ \E n \in req[i].n + 1 .. Length :
         /\ req' = [req EXCEPT ![i].n = n]
         /\ \/ /\ IsCurrent(i) /\ req[i].g = gen /\ pend.g = gen
               /\ pend' = [pend EXCEPT !.text =
                      mergePendingStreamChunk(@, SubSeq(ReplyOf(i), req[i].n + 1, n))]
               /\ flush' = TRUE
            \/ /\ ~(IsCurrent(i) /\ req[i].g = gen /\ pend.g = gen)
               /\ UNCHANGED <<pend, flush>>
    /\ UNCHANGED <<shown, queue, flags, gen, ctl, stored, save, may>>

\* The flush timer of 50 ms.
FlushTimer ==
    /\ flush
    /\ flush' = FALSE
    /\ \E q \in FlushFirst(gen) : queue' = q
    /\ pend' = [pend EXCEPT !.text = <<>>]
    /\ UNCHANGED <<shown, flags, gen, ctl, req, stored, save, may>>

\* Mutant of Finish: setIsRequesting(false) is forgotten.
FinishStaysBusy(g, u, f) ==
    LET current == g = gen
    IN  /\ queue' \in IF current THEN UNION {Enqueued(q, u) : q \in FlushFirst(g)} ELSE {queue}
        /\ pend' = IF current THEN [pend EXCEPT !.text = <<>>] ELSE pend
        /\ flush' = (flush /\ ~current)
        /\ flags' = f

\* handleStreamComplete or handleStreamError for generation g, with update u;
\* flags f.  Nothing happens if the generation moved on.
Finish(g, u, f) ==
    LET current == g = gen
    IN  /\ queue' \in IF current THEN UNION {Enqueued(q, u) : q \in FlushFirst(g)} ELSE {queue}
        /\ pend' = IF current THEN [pend EXCEPT !.text = <<>>] ELSE pend
        /\ flush' = (flush /\ ~current)
        /\ flags' = [f EXCEPT !.busy = @ /\ ~current]

\* [DONE], or the error event, the failed status or the unparsable chunk that
\* takes its place; nothing is heard of a source that was superseded.
StreamEnds(i, k) ==
    /\ req[i].ph = "open" /\ k \in {"complete", "error"}
    /\ k = "complete" => req[i].n = Length
    /\ req' = [req EXCEPT ![i].ph = "done"]
    /\ \/ /\ IsCurrent(i)
          /\ ctl' = [ctl EXCEPT !.source = 0]
          /\ Finish(req[i].g, Update(k, req[i].g, ReplyOf(i)), [flags EXCEPT !.streaming = FALSE])
       \/ /\ ~IsCurrent(i)
          /\ UNCHANGED <<queue, flags, pend, flush, ctl>>
    /\ UNCHANGED <<shown, gen, stored, save, may>>

\* getFreshAuthHeaders rejects.
HeadersFail(i) ==
    /\ req[i].ph = "headers"
    /\ req' = [req EXCEPT ![i].ph = "done"]
    /\ \/ /\ ctl.cur = i
          /\ Finish(req[i].g, Update("error", req[i].g, <<>>), flags)
       \/ /\ ctl.cur # i
          /\ UNCHANGED <<queue, flags, pend, flush>>
    /\ UNCHANGED <<shown, gen, ctl, stored, save, may>>

\* The connection closes with status 200 and no [DONE]: readystatechange
\* reports no error, and no handler is called.
StreamTruncated(i) ==
    /\ req[i].ph = "open"
    /\ req' = [req EXCEPT ![i].ph = "cut"]
    /\ UNCHANGED <<shown, queue, flags, gen, pend, flush, ctl, stored, save, may>>

\* An aborted request, or one of an older generation, is ignored.
PlainCurrent(i) == req[i].g = gen

\* sendChatCompletion settles: with a choice, or with an error.
PlainSettles(i, ok) ==
    /\ req[i].ph = "wait"
    /\ req' = [req EXCEPT ![i].ph = "done"]
    /\ \/ /\ PlainCurrent(i) /\ ok
          /\ queue' \in Enqueued(queue, Update("response", req[i].g, ReplyOf(i)))
          /\ flags' = [flags EXCEPT !.busy = FALSE]
          /\ UNCHANGED <<pend, flush>>
       \/ /\ PlainCurrent(i) /\ ~ok
          /\ Finish(req[i].g, Update("error", req[i].g, <<>>), flags)
       \/ /\ ~PlainCurrent(i)
          /\ UNCHANGED <<queue, flags, pend, flush>>
    /\ UNCHANGED <<shown, gen, ctl, stored, save, may>>

----------------------------------------------------------------------------
\* Storage

\* The debounced save of 500 ms.
SaveTimer ==
    /\ save.timer
    /\ stored' = save.latest
    /\ save' = [save EXCEPT !.timer = FALSE]
    /\ UNCHANGED <<shown, queue, flags, gen, pend, flush, ctl, req, may>>

\* The page is left and opened again.  The unmount effects save what waits for
\* the timer, unless the browser itself was closed or reloaded; the hooks start
\* anew from localStorage, which loadMessages rewrites.  The load is a task of
\* its own (setTimeout 0) after the mount; nobody clicks between the two, so
\* they are one step, and persistMessages finds hasLoadedMessagesRef set.
Revisit(closed) ==
    LET kept == IF save.timer /\ ~closed THEN save.latest ELSE stored
        ms == loadMessages(kept)
    IN  /\ may.visits > 0
        /\ may' = [may EXCEPT !.visits = @ - 1]
        /\ stored' = ms
        /\ shown' = [msgs |-> ms, busy |-> FALSE, streaming |-> FALSE, edit |-> NoKey]
        /\ save' = [latest |-> ms, timer |-> FALSE]
        /\ queue' = <<>>
        /\ flags' = [busy |-> FALSE, streaming |-> FALSE]
        /\ pend' = [g |-> gen, text |-> <<>>]
        /\ flush' = FALSE
        /\ ctl' = Idle
        /\ req' = [i \in DOMAIN req |-> [req[i] EXCEPT !.ph = "done"]]
        /\ UNCHANGED gen

----------------------------------------------------------------------------
Ends(i) == \/ HeadersReady(i) \/ HeadersFail(i) \/ StreamTruncated(i)
           \/ \E k \in {"complete", "error"} : StreamEnds(i, k)
           \/ \E ok \in BOOLEAN : PlainSettles(i, ok)

Next ==
    \/ Render \/ FlushTimer \/ SaveTimer
    \/ Send \/ Stop \/ SaveEdit \/ SaveEditAndSubmit \/ ClearMessages
    \/ \E n \in DOMAIN shown.msgs : Regenerate(n) \/ OpenEditor(n) \/ Delete(n)
    \/ \E i \in DOMAIN req : StreamChunk(i) \/ Ends(i)
    \/ \E closed \in BOOLEAN : Revisit(closed)

Spec == Init /\ [][Next]_vars

\* The event loop runs timers and renderings, and the server answers in the end.
Fairness ==
    /\ WF_vars(Render) /\ WF_vars(FlushTimer) /\ WF_vars(SaveTimer)
    /\ \A i \in Requests : WF_vars(i \in DOMAIN req /\ (StreamChunk(i) \/ Ends(i)))

FairSpec == Spec /\ Fairness

----------------------------------------------------------------------------
\* Properties

Assistants == {m \in Range(shown.msgs) : m.from = "assistant"}

\* No cross-talk: what an assistant message shows comes from the reply to its
\* own request, in order and with nothing twice, however requests were
\* superseded, stopped or regenerated in between.  (Tokens of request 0 were
\* typed over the message in an editor.)
OwnReply ==
    \A m \in Assistants : \A a, b \in DOMAIN m.text :
      m.text[a].req # 0 =>
        /\ m.text[a].req = m.key
        /\ a < b /\ m.text[b].req # 0 => m.text[a].pos < m.text[b].pos

\* A message that is still pending is the last one, and the page offers to stop
\* it: none is left loading with nothing at work on it, also after the page was
\* closed in the middle and opened again (sanitizeMessagesOnLoad).  Pages on
\* which an editor may be open during a generation are left out altogether:
\* there applyEdit can write the messages of the last rendering back over the
\* update that ended the reply.
NoStuckMessage ==
    ~may.editor => \A n \in DOMAIN shown.msgs :
      Pending(shown.msgs[n]) => n = Len(shown.msgs) /\ isGenerating

\* Some part of the reply is directly followed by itself.
RepeatsItself(i) ==
    \E a \in 0..Length, b \in 1..Length :
      /\ a < b /\ b + (b - a) <= Length
      /\ \A x \in 1..(b - a) : Says[i][a + x] = Says[i][b + x]

\* What WholeReply asks of a message.
Whole(m) ==
    m.st = "complete" /\ (m.by = "response" \/ (m.by = "done" /\ ~RepeatsItself(m.key)))
      => m.text = ReplyOf(m.key)

\* A reply that ended with [DONE] is shown whole unless it repeats itself, and
\* one that was not streamed is shown whole always: no chunk is lost between
\* the flush timer, the queue and the end of the stream, however the reply was
\* cut into chunks.  A reply with a part that is directly followed by itself
\* ("haha") is the exception: when the two parts reach getAppendableChunk or
\* mergePendingStreamChunk as text and chunk, the second is taken for a
\* snapshot and is lost.  (Without an editor, whose messages of the last
\* rendering replace what is queued.)
WholeReply == ~may.editor => \A m \in Assistants : Whole(m)

\* A generation ends by itself once the server has answered with [DONE] or an
\* error; a stream that just closes leaves the end to the Stop button.
GenerationEnds ==
    isGenerating ~> ~isGenerating \/ (ctl.cur # 0 /\ req[ctl.cur].ph = "cut")

\* In the end localStorage holds the conversation that is shown.
StoredInTheEnd == <>[](stored = shown.msgs)
=============================================================================
