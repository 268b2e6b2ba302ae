---------------------------- MODULE SamosaServe ----------------------------
(***************************************************************************)
(* Serve mode of src/qwen36b.c on top of src/samosa_http.h: one thread per *)
(* connection runs a handler; handlers share the cancel flag, the image    *)
(* buffer, the context settings and the saved conversations, and the       *)
(* scheduler (ServeScheduler) serialises those that use the model.         *)
(*                                                                         *)
(* Left out: sampling and token text, what a response says, and the        *)
(* handlers that only read (healthz, models, static files).                *)
(***************************************************************************)
EXTENDS ServeScheduler, ContextPolicy, Integers

CONSTANTS
    Conversations,
    NoConversation,   \* a chat without conversation_id saves nothing
    NoThread, NoSession,
    Requests,         \* the requests clients may send
    MaxConnections,   \* bound of the model: connections accepted
    DeafClients,      \* bound of the model: threads whose clients may stop reading
    ModelLimit,       \* model_context_limit
    FirstLimit        \* context_limit at start-up

\* What a handler reads from a request body.  "fields" are the settings given.
RequestType ==
    [op : {"chat"}, conversation : Conversations \cup {NoConversation},
     extra : Nat \ {0}, max_tokens : Nat \ {0}, image : BOOLEAN]
    \cup [op : {"compact"}, conversation : Conversations]
    \cup [op : {"settings"}, fields : SUBSET {"limit", "auto", "threshold"},
          limit : Nat, auto : BOOLEAN, threshold : 50 .. 90]
    \cup [op : {"cancel", "shutdown"}]

ASSUME ServeAssumption ==
    /\ Requests \subseteq RequestType
    /\ MaxConnections \in Nat /\ DeafClients \subseteq Threads
    /\ ModelLimit \in Nat /\ FirstLimit \in 2 .. ModelLimit
    /\ NoConversation \notin Conversations
    /\ NoThread \notin Threads
    /\ NoSession \notin [len : Nat, turns : Nat]

VARIABLES
    server,         \* the server's thread: accepting, counting, starting, draining,
                    \* waiting, exited
    clean,          \* samosa_http_server_run returned 1
    http_stopping,  \* server->stopping
    signal,         \* samosa_serve_signal: none, cancelled, handled
    accepted,       \* connections so far (bounded)
    active_connections,
    blocked,        \* the threads that send() to a client that does not read
    phase,          \* where the handler of connection t is
    request,        \* what connection t asked for
    resume,         \* the local resume_session: is there a snapshot?
    base,           \* the snapshot the handler works from, once it is read
    cancel, pixels, \* ctx->cancel; whose image model->vision_pixels holds
    context_limit, auto_compact, compact_threshold_percent,
    session,        \* session.qws of each conversation
    saved,          \* history: turns written to each conversation
    asked           \* history: a cancel came while t's turn was under way

connectionVars == <<accepted, active_connections, blocked>>
serverVars == <<server, clean, http_stopping, signal, connectionVars>>
settingsVars == <<context_limit, auto_compact, compact_threshold_percent>>
storeVars == <<session, saved>>
localVars == <<request, resume, base>>
serveVars == <<schedVars, serverVars, phase, localVars, cancel, pixels,
               settingsVars, storeVars, asked>>

Phases == {"none", "handle", "check", "acquire", "queued", "work", "summarize",
           "recheck", "ready", "prefill", "decode", "leave", "hand_back", "dispose",
           "stop", "close_listener", "close"}

Snapshots == [len : 2 .. ModelLimit, turns : Nat]

Init ==
    /\ SchedInit
    /\ server = "accepting" /\ clean = FALSE /\ http_stopping = FALSE
    /\ signal = "none"
    /\ accepted = 0 /\ active_connections = 0 /\ blocked = {}
    /\ phase = [t \in Threads |-> "none"]
    /\ request = [t \in Threads |-> [op |-> "cancel"]]
    /\ resume = [t \in Threads |-> FALSE]
    /\ base = [t \in Threads |-> NoSession]
    /\ cancel = FALSE /\ pixels = NoThread
    /\ context_limit = FirstLimit
    /\ auto_compact = TRUE /\ compact_threshold_percent = 80
    /\ session = [c \in Conversations |-> NoSession]
    /\ saved = [c \in Conversations |-> 0]
    /\ asked = [t \in Threads |-> FALSE]

Goto(t, place) == phase' = [phase EXCEPT ![t] = place]
Asks(t, op) == request[t].op = op

\* The phases in which a cancel is meant for t's own work.
UnderWay(t) == phase[t] \in {"summarize", "prefill", "decode"}
SetCancel ==
    /\ cancel' = TRUE
    /\ asked' = [t \in Threads |-> asked[t] \/ UnderWay(t)]

-----------------------------------------------------------------------------
(* Context policy: what a turn may occupy.                                 *)

\* access(session_path, R_OK).
HasSnapshot(t) ==
    /\ request[t].conversation \in Conversations
    /\ session[request[t].conversation] # NoSession

Existing(t) == IF HasSnapshot(t) THEN session[request[t].conversation].len ELSE 0

\* session_peek refuses a snapshot longer than the limit in force.
Peekable(t) == HasSnapshot(t) => Existing(t) <= context_limit

ContextFits(existing, extra, generated) ==
    FitsIn(context_limit, existing, extra, generated)

TurnFitsContext(t) == ContextFits(Existing(t), request[t].extra, request[t].max_tokens)

\* compaction_should_run, asked only of a resumed conversation.
AutoCandidate(t) ==
    /\ auto_compact /\ HasSnapshot(t)
    /\ ShouldCompact(Existing(t), request[t].extra, request[t].max_tokens,
                     context_limit, compact_threshold_percent)

-----------------------------------------------------------------------------
(* The server's thread and the signal handler.                             *)

\* accept returns a connection.
Accept ==
    /\ server = "accepting" /\ ~http_stopping
    /\ accepted < MaxConnections /\ \E t \in Threads : phase[t] = "none"
    /\ server' = "counting" /\ accepted' = accepted + 1
    /\ UNCHANGED <<schedVars, clean, http_stopping, signal, active_connections, blocked,
                   phase, localVars, cancel, pixels, settingsVars, storeVars, asked>>

\* It is counted before its thread exists.
Count ==
    /\ server = "counting"
    /\ server' = "starting" /\ active_connections' = active_connections + 1
    /\ UNCHANGED <<schedVars, clean, http_stopping, signal, accepted, blocked, phase,
                   localVars, cancel, pixels, settingsVars, storeVars, asked>>

\* Its thread t starts and reads request r, also when a stop has come between.
Connect(t, r) ==
    /\ server = "starting" /\ phase[t] = "none"
    /\ server' = "accepting"
    /\ request' = [request EXCEPT ![t] = r]
    /\ Goto(t, "handle")
    /\ UNCHANGED <<schedVars, clean, http_stopping, signal, connectionVars, resume, base,
                   cancel, pixels, settingsVars, storeVars, asked>>

\* Fault: a connection that is dropped for want of memory is taken off the count too.
CountedAlways == TRUE
Counted == server = "starting"

\* There is no memory for the connection, or no thread, and it is dropped.
ConnectFails ==
    /\ server \in {"counting", "starting"}
    /\ server' = "accepting"
    /\ active_connections' = IF Counted THEN active_connections - 1 ELSE active_connections
    /\ UNCHANGED <<schedVars, clean, http_stopping, signal, accepted, blocked, phase,
                   localVars, cancel, pixels, settingsVars, storeVars, asked>>

StopAccepting ==
    /\ server = "accepting" /\ http_stopping
    /\ server' = "draining"
    /\ UNCHANGED <<schedVars, clean, http_stopping, signal, connectionVars, phase,
                   localVars, cancel, pixels, settingsVars, storeVars, asked>>

\* accept fails for another reason: the run returns 0, and the process ends
\* with whatever is under way.
AcceptFails ==
    /\ server = "accepting" /\ ~http_stopping
    /\ server' = "exited"
    /\ UNCHANGED <<schedVars, clean, http_stopping, signal, connectionVars, phase,
                   localVars, cancel, pixels, settingsVars, storeVars, asked>>

\* The drain: it sleeps on connection_cv until the count is zero.
Drain ==
    /\ server = "draining"
    /\ IF active_connections > 0
       THEN server' = "waiting" /\ clean' = clean
       ELSE server' = "exited" /\ clean' = TRUE
    /\ UNCHANGED <<schedVars, http_stopping, signal, connectionVars, phase, localVars,
                   cancel, pixels, settingsVars, storeVars, asked>>

\* SIGINT or SIGTERM: the cancel flag, then the listener; not the scheduler.
SignalCancels ==
    /\ server # "exited" /\ signal = "none"
    /\ signal' = "cancelled"
    /\ SetCancel
    /\ UNCHANGED <<schedVars, server, clean, http_stopping, connectionVars, phase,
                   localVars, pixels, settingsVars, storeVars>>

SignalStops ==
    /\ server # "exited" /\ signal = "cancelled"
    /\ signal' = "handled" /\ http_stopping' = TRUE
    /\ UNCHANGED <<schedVars, server, clean, connectionVars, phase, localVars, cancel,
                   pixels, settingsVars, storeVars, asked>>

-----------------------------------------------------------------------------
(* Handlers, before they have the model.                                   *)

\* serve_last_user: the shared image buffer is freed, then holds this
\* request's image, if it has one.  No lock is taken.
ParseMessages(t) ==
    /\ phase[t] = "handle" /\ Asks(t, "chat")
    /\ pixels' = IF request[t].image THEN t ELSE NoThread
    /\ Goto(t, "check")
    /\ UNCHANGED <<schedVars, serverVars, localVars, cancel, settingsVars,
                   storeVars, asked>>

\* The parameters, the measure and the preflight before the queue.  A refusal
\* answers 400, 409 or 503; short memory or a malformed field may cause it any
\* time.
CheckTurn(t) ==
    /\ phase[t] = "check"
    /\ resume' = [resume EXCEPT ![t] = HasSnapshot(t)]
    /\ \/ /\ Peekable(t) /\ (AutoCandidate(t) \/ TurnFitsContext(t))
          /\ Goto(t, "acquire")
       \/ Goto(t, "close")
    /\ UNCHANGED <<schedVars, serverVars, request, base, cancel, pixels,
                   settingsVars, storeVars, asked>>

\* A compaction without a snapshot, and settings without a field, are refused.
FirstPhase(t) ==
    IF \/ Asks(t, "compact") /\ ~HasSnapshot(t)
       \/ Asks(t, "settings") /\ request[t].fields = {}
    THEN "close" ELSE "acquire"

HandlePosted(t) ==
    /\ phase[t] = "handle" /\ request[t].op \in {"compact", "settings"}
    /\ Goto(t, FirstPhase(t))
    /\ UNCHANGED <<schedVars, serverVars, localVars, cancel, pixels, settingsVars,
                   storeVars, asked>>

\* Where the answer of serve_scheduler_acquire sends a handler.
AfterAcquire(answer) ==
    IF answer = "admitted" THEN "work"
    ELSE IF answer \in {"full", "shutdown"} THEN "close" ELSE "queued"

Enter(t) ==
    /\ \/ phase[t] = "acquire" /\ Acquire(t)
       \/ phase[t] = "queued" /\ Recheck(t)
    /\ Goto(t, AfterAcquire(at'[t]))
    /\ UNCHANGED <<serverVars, localVars, cancel, pixels, settingsVars, storeVars,
                   asked>>

WakeUp(t) ==
    /\ SpuriousWake(t)
    /\ UNCHANGED <<serverVars, phase, localVars, cancel, pixels, settingsVars,
                   storeVars, asked>>

-----------------------------------------------------------------------------
(* Handlers that have the model.                                           *)

\* Fault: the verdict reached before the queue is kept.
AdmittedFitsAlready(t) == TRUE
AdmittedFits(t) == TurnFitsContext(t)

\* Fault: the snapshot found before the queue is kept.
RefreshedNever(t) == resume[t]
Refreshed(t) == HasSnapshot(t)

\* A compaction starts: its own cancel flag, and the snapshot it reads.
StartSummary(t) ==
    /\ cancel' = FALSE
    /\ asked' = [asked EXCEPT ![t] = FALSE]
    /\ base' = [base EXCEPT ![t] = session[request[t].conversation]]
    /\ Goto(t, "summarize")

\* After admission samosa_serve_chat measures again.
Remeasure(t) ==
    /\ phase[t] = "work" /\ Asks(t, "chat")
    /\ resume' = [resume EXCEPT ![t] = Refreshed(t)]
    /\ \/ /\ Peekable(t) /\ AutoCandidate(t)
          /\ StartSummary(t)
       \/ /\ Peekable(t) /\ ~AutoCandidate(t) /\ AdmittedFits(t)
          /\ Goto(t, "ready")
          /\ UNCHANGED <<cancel, asked, base>>
       \/ /\ Goto(t, "hand_back")
          /\ UNCHANGED <<cancel, asked, base>>
    /\ UNCHANGED <<schedVars, serverVars, request, pixels, settingsVars, storeVars>>

StartCompact(t) ==
    /\ phase[t] = "work" /\ Asks(t, "compact")
    /\ IF HasSnapshot(t)
       THEN StartSummary(t)
       ELSE Goto(t, "hand_back") /\ UNCHANGED <<cancel, asked, base>>
    /\ UNCHANGED <<schedVars, serverVars, request, resume, pixels, settingsVars,
                   storeVars>>

\* compact_session can succeed only with room for an instruction and a summary.
SummaryHasRoom(t) == base[t].len + 2 <= context_limit

\* compact_session ends.  It fails when a cancel is seen or anything else goes
\* wrong; a success replaces the snapshot by a shorter one that remembers the
\* same turns, even when a cancel came too late to be seen.
EndSummary(t) ==
    /\ phase[t] = "summarize"
    /\ \/ /\ Goto(t, "hand_back")
          /\ UNCHANGED session
       \/ /\ SummaryHasRoom(t)
          /\ \E after \in 2 .. base[t].len - 1 :
                session' = [session EXCEPT ![request[t].conversation] =
                                [base[t] EXCEPT !.len = after]]
          /\ Goto(t, IF Asks(t, "chat") THEN "recheck" ELSE "hand_back")
    /\ UNCHANGED <<schedVars, serverVars, localVars, cancel, pixels, settingsVars,
                   saved, asked>>

\* The preflight that follows a compaction inside a chat.
RecheckContext(t) ==
    /\ phase[t] = "recheck"
    /\ \/ AdmittedFits(t) /\ Goto(t, "ready")
       \/ Goto(t, "hand_back")
    /\ UNCHANGED <<schedVars, serverVars, localVars, cancel, pixels, settingsVars,
                   storeVars, asked>>

\* A limit beyond the model's refuses the other fields too.
ChangeSettings(t) ==
    LET r == request[t]
        ok == "limit" \in r.fields => r.limit \in 2 .. ModelLimit
    IN  /\ phase[t] = "work" /\ Asks(t, "settings")
        /\ context_limit' = IF ok /\ "limit" \in r.fields THEN r.limit
                            ELSE context_limit
        /\ auto_compact' = IF ok /\ "auto" \in r.fields THEN r.auto ELSE auto_compact
        /\ compact_threshold_percent' =
                IF ok /\ "threshold" \in r.fields THEN r.threshold
                ELSE compact_threshold_percent
        /\ Goto(t, "hand_back")
        /\ UNCHANGED <<schedVars, serverVars, localVars, cancel, pixels, storeVars, asked>>

\* Fault: the flag is not cleared, and an old cancel stops the new turn.
ClearedFlagKept == cancel
ClearedFlag == FALSE

\* The turn starts: the flag is cleared, run_chat checks the context again and
\* loads the snapshot.  It may still fail (headers not sent, memory short), and
\* then the connection closes without an answer.
BeginTurn(t) ==
    /\ phase[t] = "ready"
    /\ cancel' = ClearedFlag
    /\ asked' = [asked EXCEPT ![t] = FALSE]
    /\ \/ /\ ContextFits(IF resume[t] THEN Existing(t) ELSE 0,
                         request[t].extra, request[t].max_tokens)
          /\ base' = [base EXCEPT ![t] =
                          IF resume[t] THEN session[request[t].conversation] ELSE NoSession]
          /\ Goto(t, "prefill")
       \/ /\ Goto(t, "leave")
          /\ UNCHANGED base
    /\ UNCHANGED <<schedVars, serverVars, request, resume, pixels, settingsVars,
                   storeVars>>

\* The prompt, with the image in the shared buffer, has been evaluated.
EndPrefill(t) ==
    /\ phase[t] = "prefill"
    /\ Goto(t, "decode")
    /\ UNCHANGED <<schedVars, serverVars, localVars, cancel, pixels, settingsVars,
                   storeVars, asked>>

BaseLength(t) == IF base[t] = NoSession THEN 0 ELSE base[t].len
BaseTurns(t) == IF base[t] = NoSession THEN 0 ELSE base[t].turns

\* session_save of n answer tokens: one rename.
SaveTurn(t, n) ==
    LET c == request[t].conversation
    IN  IF c = NoConversation THEN UNCHANGED storeVars
        ELSE /\ session' = [session EXCEPT ![c] =
                    [len |-> BaseLength(t) + request[t].extra + n,
                     turns |-> BaseTurns(t) + 1]]
             /\ saved' = [saved EXCEPT ![c] = @ + 1]

\* The answer ends by itself, after at least one token.
TurnCompletes(t) ==
    /\ \E n \in 1 .. request[t].max_tokens : SaveTurn(t, n)
    /\ UNCHANGED <<cancel, asked>>

\* The flag is seen between two tokens, or the client is gone and the sink sets
\* it: the answer is saved up to a sentence, if it has one.
TurnCancelled(t) ==
    /\ IF cancel THEN UNCHANGED <<cancel, asked>> ELSE SetCancel
    /\ \/ \E n \in 1 .. request[t].max_tokens : SaveTurn(t, n)
       \/ UNCHANGED storeVars

\* The answer ends, but the snapshot cannot be written.
TurnNotSaved(t) == UNCHANGED <<storeVars, cancel, asked>>

EndTurn(t) ==
    /\ phase[t] = "decode"
    /\ TurnCompletes(t) \/ TurnCancelled(t) \/ TurnNotSaved(t)
    /\ Goto(t, "leave")
    /\ UNCHANGED <<schedVars, serverVars, localVars, pixels, settingsVars>>

-----------------------------------------------------------------------------
(* Handlers giving the model back, and those that never need it.           *)

\* Fault: an error return forgets serve_scheduler_release.
ReturnsModelAfterTurn(t) == phase[t] = "leave"
ReturnsModel(t) == phase[t] \in {"leave", "hand_back"}

\* serve_scheduler_release, on the way out; only a turn that got as far as
\* generating frees the image buffer afterwards.
GiveBack(t) ==
    /\ phase[t] \in {"leave", "hand_back"}
    /\ IF ReturnsModel(t) THEN Release(t) ELSE UNCHANGED schedVars
    /\ Goto(t, IF phase[t] = "leave" THEN "dispose" ELSE "close")
    /\ UNCHANGED <<serverVars, localVars, cancel, pixels, settingsVars, storeVars,
                   asked>>

DisposeImage(t) ==
    /\ phase[t] = "dispose"
    /\ pixels' = NoThread
    /\ Goto(t, "close")
    /\ UNCHANGED <<schedVars, serverVars, localVars, cancel, settingsVars, storeVars,
                   asked>>

\* POST /v1/cancel, and the first step of POST /v1/shutdown.
RaiseCancel(t) ==
    /\ phase[t] = "handle" /\ request[t].op \in {"cancel", "shutdown"}
    /\ SetCancel
    /\ Goto(t, IF Asks(t, "shutdown") THEN "stop" ELSE "close")
    /\ UNCHANGED <<schedVars, serverVars, localVars, pixels, settingsVars, storeVars>>

StopScheduler(t) ==
    /\ phase[t] = "stop"
    /\ Stop
    /\ Goto(t, "close_listener")
    /\ UNCHANGED <<serverVars, localVars, cancel, pixels, settingsVars, storeVars,
                   asked>>

\* samosa_http_server_stop.
CloseListener(t) ==
    /\ phase[t] = "close_listener"
    /\ http_stopping' = TRUE
    /\ Goto(t, "close")
    /\ UNCHANGED <<schedVars, server, clean, signal, connectionVars, localVars, cancel,
                   pixels, settingsVars, storeVars, asked>>

\* The end of samosa_http_connection_main: the count, and a broadcast for the drain.
Disconnect(t) ==
    /\ phase[t] = "close"
    /\ Goto(t, "none")
    /\ active_connections' = active_connections - 1
    /\ server' = IF server = "waiting" THEN "draining" ELSE server
    /\ UNCHANGED <<schedVars, clean, http_stopping, signal, accepted, blocked, localVars,
                   cancel, pixels, settingsVars, storeVars, asked>>

\* A handler takes no step while send() waits for its client.
Handler(t) ==
    /\ server # "exited" /\ t \notin blocked
    /\ \/ ParseMessages(t) \/ CheckTurn(t) \/ HandlePosted(t) \/ Enter(t)
       \/ Remeasure(t) \/ StartCompact(t) \/ EndSummary(t) \/ RecheckContext(t)
       \/ ChangeSettings(t) \/ BeginTurn(t) \/ EndPrefill(t) \/ EndTurn(t)
       \/ GiveBack(t) \/ DisposeImage(t)
       \/ RaiseCancel(t) \/ StopScheduler(t) \/ CloseListener(t) \/ Disconnect(t)

-----------------------------------------------------------------------------
(* The clients.                                                            *)

\* A handler is writing: stream headers, tokens, the end of an answer (the model is
\* given back after it), or any other response.
Writes(t) ==
    \/ phase[t] \in {"prefill", "decode", "leave", "close_listener"}
    \/ phase[t] = "close" /\ ~Asks(t, "shutdown")

\* The client keeps its connection but reads nothing: samosa_send_all fills the
\* socket and blocks.  There is no timeout, and neither a cancel nor a stop is seen.
ClientStopsReading(t) ==
    /\ server # "exited" /\ t \in DeafClients \ blocked /\ Writes(t)
    /\ blocked' = blocked \cup {t}

\* It reads on, or goes away.
ClientReadsOn(t) ==
    /\ t \in blocked
    /\ blocked' = blocked \ {t}

Client(t) ==
    /\ ClientStopsReading(t) \/ ClientReadsOn(t)
    /\ UNCHANGED <<schedVars, server, clean, http_stopping, signal, accepted,
                   active_connections, phase, localVars, cancel, pixels, settingsVars,
                   storeVars, asked>>

Main == Count \/ ConnectFails \/ StopAccepting \/ Drain

Next ==
    \/ \E t \in Threads, r \in Requests : Connect(t, r)
    \/ \E t \in Threads : Handler(t) \/ Client(t) \/ (server # "exited" /\ WakeUp(t))
    \/ Main \/ Accept \/ AcceptFails \/ SignalCancels \/ SignalStops

Spec == Init /\ [][Next]_serveVars

\* A handler that is not blocked runs on (a turn is bounded by max_tokens, a read by
\* its timeout), and so do the accept loop and a signal handler that has begun.
\* Clients, who connect, stop reading and read on as they like, signals and accept
\* errors owe nothing.
FairSpec ==
    /\ Spec
    /\ \A t \in Threads : WF_serveVars(Handler(t))
    /\ WF_serveVars(Main \/ \E t \in Threads, r \in Requests : Connect(t, r))
    /\ WF_serveVars(SignalStops)

-----------------------------------------------------------------------------
(* Properties.                                                             *)

\* Every variable keeps its type; no snapshot outgrows the model.
ServeTypeOK ==
    /\ SchedTypeOK
    /\ server \in {"accepting", "counting", "starting", "draining", "waiting", "exited"}
    /\ clean \in BOOLEAN /\ http_stopping \in BOOLEAN
    /\ signal \in {"none", "cancelled", "handled"}
    /\ accepted \in 0 .. MaxConnections /\ active_connections \in Int
    /\ blocked \subseteq DeafClients
    /\ phase \in [Threads -> Phases]
    /\ request \in [Threads -> RequestType]
    /\ resume \in [Threads -> BOOLEAN]
    /\ base \in [Threads -> Snapshots \cup {NoSession}]
    /\ cancel \in BOOLEAN /\ pixels \in Threads \cup {NoThread}
    /\ context_limit \in 2 .. ModelLimit
    /\ auto_compact \in BOOLEAN /\ compact_threshold_percent \in 50 .. 90
    /\ session \in [Conversations -> Snapshots \cup {NoSession}]
    /\ saved \in [Conversations -> Nat]
    /\ asked \in [Threads -> BOOLEAN]

\* The phases in which a handler has the model.
Holding == {"work", "summarize", "recheck", "ready", "prefill", "decode", "leave",
            "hand_back"}

\* Every path of a handler, the error returns included, gives the model back
\* exactly once, and none works on the model without it.
HandlersReturnModel == \A t \in Threads : at[t] = "admitted" <=> phase[t] \in Holding

\* Two connections never work on the model, or on a conversation, at once.
TurnsAreSerial ==
    \A s, t \in Threads : phase[s] \in Holding /\ phase[t] \in Holding => s = t

\* A turn about to start, or under way, fits the context limit in force now: a
\* settings change or another turn while it was queued does not slip past.
TurnKeepsToLimit ==
    \A t \in Threads :
        /\ phase[t] = "ready" => TurnFitsContext(t)
        /\ phase[t] \in {"prefill", "decode"} =>
               ContextFits(BaseLength(t), request[t].extra, request[t].max_tokens)

\* The snapshot of a conversation remembers every turn that was saved to it: no
\* turn is overwritten by one that started from an older snapshot.
NoTurnLost ==
    \A c \in Conversations :
        saved[c] = IF session[c] = NoSession THEN 0 ELSE session[c].turns

\* While a turn or a compaction runs, the flag says exactly whether a cancel was
\* asked since it began: an older cancel does not stop it, and no other handler
\* takes a cancel back.
CancelIsForThisTurn ==
    \A t \in Threads : UnderWay(t) => (cancel <=> asked[t])

\* The run that ends well has served every connection it accepted: the count it
\* waits for never falls short of the threads that are there, whichever failures to
\* start one came between.
CleanExitIsDrained ==
    clean => \A t \in Threads : phase[t] = "none" /\ at[t] # "admitted"

\* If the clients read what they are sent, a server whose listener is stopped, at any
\* point of any handler, gets to its exit: no connection is left waiting for the
\* model or with it, and no end of one is missed by the drain.
StopLeadsToExit == <>[](blocked = {}) => (http_stopping ~> server = "exited")

\* Without that condition it does not hold: one client that stops reading keeps the
\* server, and the model, for as long as it likes.
StopAlwaysLeadsToExit == http_stopping ~> server = "exited"

\* What docs/APP_TASKS.md says of shutdown: the flag the engine checks between
\* tokens is set, so no turn decodes on with a clear flag after it.
ShutdownCancelsTurn ==
    \A t \in Threads : stopping /\ phase[t] = "decode" => cancel

\* What docs/APP_TASKS.md says of a server that shuts down: requests get 503.
\* Here: once the signal handler is done, no request is admitted any more.
NoAdmissionAfterSignal ==
    [][signal = "handled" => \A t \in Threads : at'[t] = "admitted" => at[t] = "admitted"]_serveVars

\* What docs/TASKS_JOBS.md says of the image buffer (one image, freed after
\* every turn) and docs/APP_TASKS.md of turns (strictly serialised, no locks):
\* a prompt is evaluated with its own image, or with none if it has none.
PromptSeesOwnImage ==
    \A t \in Threads : phase[t] = "prefill" =>
        pixels = (IF request[t].image THEN t ELSE NoThread)
=============================================================================
