----------------------------- MODULE Playground -----------------------------
(***************************************************************************)
(* The chat playground of the web application                              *)
(* (web/default/src/features/playground): a conversation in the page's     *)
(* state, one streaming or plain request at a time that fills its last     *)
(* message, timers that batch the chunks and debounce the saves, and the   *)
(* copy in localStorage that a reload starts from.  The page runs one      *)
(* handler at a time; what interleaves are the user's clicks, the events   *)
(* of the requests and the timers.                                         *)
(*                                                                         *)
(* The load after mounting (a timer of 0 ms) is part of the step that      *)
(* opens the page.  Text is abstracted to the set of requests it came from.*)
(***************************************************************************)
EXTENDS Integers, SequencesExt

CONSTANTS
    MaxRequests,  \* bound: requests sent in one history of the page
    BusyEdits     \* an editor left open is used while an answer is awaited

ASSUME PlaygroundAssumption ==
    /\ MaxRequests \in Nat \ {0}
    /\ BusyEdits \in BOOLEAN

Requests == 1 .. MaxRequests
NoRequest == 0

VARIABLES
    messages,     \* the conversation
    stored,       \* its copy in localStorage
    saveTimer,    \* messagesSaveTimerRef is set
    stream,       \* config.stream
    conn,         \* the requests
    source,       \* sseSourceRef, and with it isStreaming
    doneSeen,     \* isStreamCompleteRef
    isRequesting,
    abortRef,     \* abortControllerRef
    requestId,    \* requestIdRef
    chunks,       \* pendingStreamChunksRef: the requests its text is from
    flushTimer,   \* streamFlushTimerRef is set
    late,         \* history: requests that brought text after their end
    editing,      \* editingMessageKey
    draft         \* the editor holds unsaved text: hasChanged

vars == <<messages, stored, saveTimer, stream, conn, source, doneSeen,
          isRequesting, abortRef, requestId, chunks, flushTimer, late,
          editing, draft>>

net == <<conn, source, doneSeen, isRequesting, abortRef, requestId>>
batch == <<chunks, flushTimer, late>>
storage == <<stored, saveTimer>>

Status == {"sent", "loading", "streaming", "complete", "error"}

\* A request: not sent, an open stream, a stream the server has closed, a
\* plain request, one that was aborted, one whose handlers have run.
Connection == {"none", "stream", "closed", "fetch", "aborted", "over"}

(* A message is known by its role and the request it was created for; got  *)
(* are the requests its text came from.                                    *)
Message == [from: {"user", "assistant"}, for: Requests, status: Status,
            got: SUBSET Requests]
Key == [from: {"user", "assistant"}, for: Requests \cup {NoRequest}]
NoKey == [from |-> "user", for |-> NoRequest]
KeyOf(m) == [from |-> m.from, for |-> m.for]

isGenerating == source # NoRequest \/ isRequesting

-----------------------------------------------------------------------------
(* lib/message *)

Pending(m) == m.status \in {"loading", "streaming"}
Final(m) == m.status \in {"complete", "error"}

UserMessage(r) ==
    [from |-> "user", for |-> r, status |-> "sent", got |-> {}]
LoadingMessage(r) ==
    [from |-> "assistant", for |-> r, status |-> "loading", got |-> {}]

completeAssistantMessage(m) == [m EXCEPT !.status = "complete"]

\* A failed message takes no more text; a completed one does.
applyStreamingChunk(m, from) ==
    IF m.status = "error" THEN m
    ELSE [m EXCEPT !.status = "streaming", !.got = @ \cup from]

updateLastAssistantMessage(ms, Updater(_)) ==
    IF ms = <<>> \/ Last(ms).from # "assistant" THEN ms
    ELSE Append(Front(ms), Updater(Last(ms)))

\* The text is replaced by the error's.
WithError(ms) ==
    updateLastAssistantMessage(ms,
        LAMBDA m : [m EXCEPT !.status = "error", !.got = {}])

Flushed(ms) ==
    IF chunks = {} THEN ms
    ELSE updateLastAssistantMessage(ms,
            LAMBDA m : applyStreamingChunk(m, chunks))

\* normalizeStoredMessageForLoad completes a message that has text.
Normalized(m) ==
    IF Pending(m) /\ m.got # {} THEN completeAssistantMessage(m) ELSE m

\* The last message that waits for its first text is marked interrupted.
sanitizeMessagesOnLoad(ms) ==
    LET stuck == {i \in 1 .. Len(ms) : Pending(ms[i])}
    IN  IF stuck = {} THEN ms
        ELSE [ms EXCEPT ![Max(stuck)].status = "error"]

loadMessages(ms) ==
    sanitizeMessagesOnLoad([i \in 1 .. Len(ms) |-> Normalized(ms[i])])

-----------------------------------------------------------------------------
Init ==
    /\ messages = <<>>
    /\ stored = <<>>
    /\ saveTimer = FALSE
    /\ stream \in BOOLEAN
    /\ conn = [r \in Requests |-> "none"]
    /\ source = NoRequest
    /\ doneSeen = FALSE
    /\ isRequesting = FALSE
    /\ abortRef = NoRequest
    /\ requestId = NoRequest
    /\ chunks = {}
    /\ flushTimer = FALSE
    /\ late = {}
    /\ editing = NoKey
    /\ draft = FALSE

\* updateMessages, and the effect of playground-chat that resets an open
\* editor to the message whenever the conversation changes.
Update(ms) ==
    /\ messages' = ms
    /\ saveTimer' = TRUE
    /\ draft' = FALSE
    /\ UNCHANGED stored

Close(c, r) == IF r = NoRequest THEN c ELSE [c EXCEPT ![r] = "over"]

\* sendStreamRequest closes the stream it replaces.  The chunks that wait
\* for the timer stay where they are.
sendStreamingChat(r) ==
    /\ conn' = [Close(conn, source) EXCEPT ![r] = "stream"]
    /\ source' = r
    /\ doneSeen' = FALSE
    /\ isRequesting' = TRUE
    /\ UNCHANGED <<abortRef, requestId>>

\* A request that is under way is not aborted.
sendNonStreamingChat(r) ==
    /\ conn' = [conn EXCEPT ![r] = "fetch"]
    /\ requestId' = r
    /\ abortRef' = r
    /\ isRequesting' = TRUE
    /\ UNCHANGED <<source, doneSeen>>

sendChat(r) == IF stream THEN sendStreamingChat(r) ELSE sendNonStreamingChat(r)

\* The next request, unless the bound is reached.
NextRequest ==
    CHOOSE r \in Requests :
        conn[r] = "none" /\ \A q \in 1 .. r - 1 : conn[q] # "none"
MaySend == \E r \in Requests : conn[r] = "none"

\* useMessageActionGuard.  Text may still wait for the timer.
UserReady == ~isGenerating

-----------------------------------------------------------------------------
(* The user *)

handleSendMessage ==
    /\ UserReady
    /\ MaySend
    /\ LET r == NextRequest IN
        /\ Update(messages \o <<UserMessage(r), LoadingMessage(r)>>)
        /\ sendChat(r)
    /\ UNCHANGED <<stream, batch, editing>>

(* Mutant: the answer is reset to loading and keeps its text.              *)
handleRegenerateMessage_KeepsText(i) ==
    /\ UserReady
    /\ MaySend
    /\ LET r == NextRequest
           kept == IF messages[i].from = "user" THEN i ELSE i - 1
           old == messages[i].got
       IN   /\ Update(Append(SubSeq(messages, 1, kept),
                             [LoadingMessage(r) EXCEPT !.got = old]))
            /\ sendChat(r)
    /\ UNCHANGED <<stream, batch, editing>>

\* createRegeneratedMessages: up to the message if it is the user's, before
\* it if it is an answer.
handleRegenerateMessage(i) ==
    /\ UserReady
    /\ MaySend
    /\ LET r == NextRequest
           kept == IF messages[i].from = "user" THEN i ELSE i - 1
       IN   /\ Update(Append(SubSeq(messages, 1, kept), LoadingMessage(r)))
            /\ sendChat(r)
    /\ UNCHANGED <<stream, batch, editing>>

handleDeleteMessage(i) ==
    /\ UserReady
    /\ Update(RemoveAt(messages, i))
    /\ UNCHANGED <<stream, net, batch, editing>>

handleClearMessages ==
    /\ UserReady
    /\ messages # <<>>
    /\ Update(<<>>)
    /\ editing' = NoKey
    /\ UNCHANGED <<stream, net, batch>>

handleEditMessage(i) ==
    /\ UserReady
    /\ editing' = KeyOf(messages[i])
    /\ draft' = FALSE
    /\ UNCHANGED <<messages, storage, stream, net, batch>>

\* The editor of message i is on screen.
Editor(i) == KeyOf(messages[i]) = editing

Type(i) ==
    /\ Editor(i)
    /\ ~draft
    /\ draft' = TRUE
    /\ UNCHANGED <<messages, storage, stream, net, batch, editing>>

\* Leaving an editor that has unsaved text asks first.
CancelEdit(i) ==
    /\ Editor(i)
    /\ editing' = NoKey
    /\ draft' = FALSE
    /\ UNCHANGED <<messages, storage, stream, net, batch>>

MaySave(i) == Editor(i) /\ draft /\ (isGenerating => BusyEdits)

\* applyEdit looks neither at isGenerating nor for a request under way.
SaveEdit(i) ==
    /\ MaySave(i)
    /\ Update(messages)
    /\ editing' = NoKey
    /\ UNCHANGED <<stream, net, batch>>

SaveEditAndSubmit(i) ==
    /\ MaySave(i)
    /\ messages[i].from = "user"
    /\ MaySend
    /\ LET r == NextRequest IN
        /\ Update(Append(SubSeq(messages, 1, i), LoadingMessage(r)))
        /\ sendChat(r)
    /\ editing' = NoKey
    /\ UNCHANGED <<stream, batch>>

\* The controls of the configuration are disabled during a generation.
ToggleStream ==
    /\ UserReady
    /\ stream' = ~stream
    /\ UNCHANGED <<messages, storage, net, batch, editing, draft>>

CompletedLast(ms) ==
    updateLastAssistantMessage(ms,
        LAMBDA m : IF Pending(m) THEN completeAssistantMessage(m) ELSE m)

(* Mutant: the text that waits for the timer is left to it.                *)
stopGeneration_KeepsChunks ==
    /\ isGenerating
    /\ conn' = LET c == Close(conn, source) IN
               IF abortRef = NoRequest THEN c
               ELSE [c EXCEPT ![abortRef] = "aborted"]
    /\ source' = NoRequest
    /\ abortRef' = NoRequest
    /\ isRequesting' = FALSE
    /\ Update(CompletedLast(messages))
    /\ UNCHANGED <<stream, doneSeen, requestId, batch, editing>>

(* Mutant: the request under way is left to itself.                        *)
stopGeneration_NoAbort ==
    /\ isGenerating
    /\ conn' = Close(conn, source)
    /\ source' = NoRequest
    /\ abortRef' = NoRequest
    /\ isRequesting' = FALSE
    /\ Update(CompletedLast(Flushed(messages)))
    /\ chunks' = {}
    /\ flushTimer' = FALSE
    /\ UNCHANGED <<stream, doneSeen, requestId, late, editing>>

stopGeneration ==
    /\ isGenerating
    /\ conn' = LET c == Close(conn, source) IN
               IF abortRef = NoRequest THEN c
               ELSE [c EXCEPT ![abortRef] = "aborted"]
    /\ source' = NoRequest
    /\ abortRef' = NoRequest
    /\ isRequesting' = FALSE
    /\ Update(CompletedLast(Flushed(messages)))
    /\ chunks' = {}
    /\ flushTimer' = FALSE
    /\ UNCHANGED <<stream, doneSeen, requestId, late, editing>>

-----------------------------------------------------------------------------
(* The events of a request, and the timers *)

StreamChunk(r) ==
    /\ conn[r] = "stream"
    /\ chunks' = chunks \cup {r}
    /\ flushTimer' = TRUE
    /\ UNCHANGED <<messages, storage, stream, net, late, editing, draft>>

(* Mutant: the reference to the closed stream is kept.                     *)
CloseActiveStream_KeepsRef(r) ==
    /\ conn' = Close(conn, r)
    /\ UNCHANGED source

\* closeActiveStream(source)
CloseActiveStream(r) ==
    /\ conn' = Close(conn, r)
    /\ source' = IF source = r THEN NoRequest ELSE source

\* The handlers of r's end have emptied the batch.  The events that came in
\* the same read are still delivered, and the listener takes their text.
RestOfRead(r) ==
    \E more \in BOOLEAN :
        /\ chunks' = IF more THEN {r} ELSE {}
        /\ flushTimer' = more
        /\ late' = IF more THEN late \cup {r} ELSE late

\* [DONE]: handleStreamComplete
StreamDone(r) ==
    /\ conn[r] = "stream"
    /\ doneSeen' = TRUE
    /\ CloseActiveStream(r)
    /\ isRequesting' = FALSE
    /\ Update(CompletedLast(Flushed(messages)))
    /\ RestOfRead(r)
    /\ UNCHANGED <<stream, abortRef, requestId, editing>>

\* handleStreamError: a failed connection, or a chunk that cannot be parsed.
StreamError(r) ==
    /\ conn[r] = "stream"
    /\ ~doneSeen
    /\ CloseActiveStream(r)
    /\ isRequesting' = FALSE
    /\ Update(WithError(Flushed(messages)))
    /\ RestOfRead(r)
    /\ UNCHANGED <<stream, doneSeen, abortRef, requestId, editing>>

\* The server closes the stream with status 200 and no [DONE]:
\* getStreamReadyStateError finds no error, so that no handler runs and
\* sseSourceRef, isStreaming and isRequesting stay set.
StreamCloses(r) ==
    /\ conn[r] = "stream"
    /\ conn' = [conn EXCEPT ![r] = "closed"]
    /\ UNCHANGED <<messages, storage, stream, source, doneSeen, isRequesting,
                   abortRef, requestId, batch, editing, draft>>

\* The finally clause of sendNonStreamingChat.
Finally(r) ==
    /\ conn' = [conn EXCEPT ![r] = "over"]
    /\ IF requestId = r
       THEN abortRef' = NoRequest /\ isRequesting' = FALSE
       ELSE UNCHANGED <<abortRef, isRequesting>>
    /\ UNCHANGED <<source, doneSeen, requestId>>

FetchResponds(r) ==
    /\ conn[r] = "fetch"
    /\ Update(updateLastAssistantMessage(messages,
            LAMBDA m : [m EXCEPT !.status = "complete", !.got = {r}]))
    /\ Finally(r)
    /\ UNCHANGED <<stream, batch, editing>>

\* An error, or an answer without a choice: handleStreamError.
FetchFails(r) ==
    /\ conn[r] = "fetch"
    /\ Update(WithError(Flushed(messages)))
    /\ chunks' = {}
    /\ flushTimer' = FALSE
    /\ conn' = [conn EXCEPT ![r] = "over"]
    /\ isRequesting' = FALSE
    /\ abortRef' = IF requestId = r THEN NoRequest ELSE abortRef
    /\ UNCHANGED <<stream, source, doneSeen, requestId, late, editing>>

AbortSettles(r) ==
    /\ conn[r] = "aborted"
    /\ Finally(r)
    /\ UNCHANGED <<messages, storage, stream, batch, editing, draft>>

flushStreamUpdates ==
    /\ flushTimer
    /\ flushTimer' = FALSE
    /\ chunks' = {}
    /\ Update(Flushed(messages))
    /\ UNCHANGED <<stream, net, late, editing>>

SaveTimer ==
    /\ saveTimer
    /\ saveTimer' = FALSE
    /\ stored' = messages
    /\ UNCHANGED <<messages, stream, net, batch, editing, draft>>

\* The page is opened again: reloaded, which loses what the timer has not
\* saved, or left and entered, which saves it.  Leaving it inside the
\* application closes no stream (there is no cleanup on unmount): it is over
\* for this page, as its handlers update the state of a page that is gone.
OpenPage ==
    \E kept \in {stored, IF saveTimer THEN messages ELSE stored} :
        /\ messages' = loadMessages(kept)
        /\ stored' = loadMessages(kept)
        /\ saveTimer' = FALSE
        /\ conn' = [r \in Requests |->
                        IF conn[r] = "none" THEN "none" ELSE "over"]
        /\ source' = NoRequest
        /\ doneSeen' = FALSE
        /\ isRequesting' = FALSE
        /\ abortRef' = NoRequest
        /\ requestId' = NoRequest
        /\ chunks' = {}
        /\ flushTimer' = FALSE
        /\ editing' = NoKey
        /\ draft' = FALSE
        /\ UNCHANGED <<stream, late>>

UserStep ==
    \/ handleSendMessage \/ handleClearMessages \/ ToggleStream
    \/ stopGeneration \/ OpenPage
    \/ \E i \in 1 .. Len(messages) :
        \/ handleRegenerateMessage(i) \/ handleDeleteMessage(i)
        \/ handleEditMessage(i) \/ Type(i) \/ CancelEdit(i)
        \/ SaveEdit(i) \/ SaveEditAndSubmit(i)

RequestEnds(r) ==
    \/ StreamDone(r) \/ StreamError(r)
    \/ FetchResponds(r) \/ FetchFails(r) \/ AbortSettles(r)

Next ==
    \/ UserStep
    \/ \E r \in Requests : StreamChunk(r) \/ StreamCloses(r) \/ RequestEnds(r)
    \/ flushStreamUpdates
    \/ SaveTimer

Spec == Init /\ [][Next]_vars

(* A request ends with [DONE], an answer, an error or its abort, unless    *)
(* its stream is closed without any of them.  Timers fire.  Nothing is     *)
(* assumed of the user.                                                    *)
Fairness ==
    /\ \A r \in Requests : WF_vars(RequestEnds(r))
    /\ WF_vars(flushStreamUpdates)
    /\ WF_vars(SaveTimer)

FairSpec == Spec /\ Fairness

-----------------------------------------------------------------------------
(* Properties *)

\* The state of the page stays in its types; the stream that sseSourceRef
\* names, on which isStreaming depends, was not closed by the page.
TypeOK ==
    /\ messages \in Seq(Message)
    /\ stored \in Seq(Message)
    /\ {saveTimer, stream, doneSeen, isRequesting, flushTimer, draft}
            \subseteq BOOLEAN
    /\ conn \in [Requests -> Connection]
    /\ {source, abortRef, requestId} \subseteq Requests \cup {NoRequest}
    /\ chunks \subseteq Requests
    /\ late \subseteq Requests
    /\ editing \in Key
    /\ source # NoRequest => conn[source] \in {"stream", "closed"}

\* An answer holds text of its own request only, whatever was stopped,
\* failed, regenerated, deleted or reloaded before; the one text that strays
\* is what a stream delivered after its end.
OwnAnswer ==
    \A i \in 1 .. Len(messages) :
        messages[i].got \subseteq {messages[i].for} \cup late

\* A message that is shown as loading or streaming is the last one and a
\* generation is under way that will end it: no spinner is left behind by a
\* stop, an error, a reload or a late timer, unless the message took text
\* that a stream delivered after its end.
PendingIsLive ==
    \A i \in 1 .. Len(messages) :
        Pending(messages[i]) =>
            \/ i = Len(messages) /\ isGenerating
            \/ messages[i].got \cap late # {}

\* All the text that waits for the timer is of streams that have ended, and
\* n is the completed message m with it.
TakesLateText(m, n) ==
    /\ m.status = "complete"
    /\ chunks # {} /\ chunks \subseteq late
    /\ n = [m EXCEPT !.status = "streaming", !.got = @ \cup chunks]

\* An answer that was completed, stopped or failed is not written again by
\* the events that arrive late; only the text a stream delivers after its
\* end reopens a completed one, and never a failed one.  (Opening the page
\* goes back to the copy.)
FinalStays ==
    [][\/ OpenPage
       \/ \A i \in 1 .. Len(messages), j \in 1 .. Len(messages') :
            Final(messages[i]) /\ KeyOf(messages'[j]) = KeyOf(messages[i]) =>
                \/ messages'[j] = messages[i]
                \/ TakesLateText(messages[i], messages'[j])]_vars

\* A generation ends, so that the user may send again, unless the server
\* closed its stream without [DONE] (then only the stop button ends it).
GenerationEnds ==
    isGenerating ~>
        \/ ~isGenerating
        \/ source # NoRequest /\ conn[source] = "closed"

-----------------------------------------------------------------------------
\* A promise the code does not keep, and so no part of a passing run (see
\* the README).

\* Unsaved text in an editor is only dropped when the user saves, leaves
\* the editor or the page, or changes the conversation.
DraftKept ==
    [][draft /\ ~draft' => UserStep]_vars
=============================================================================
