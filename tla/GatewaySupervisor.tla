------------------------- MODULE GatewaySupervisor -------------------------
(***************************************************************************)
(* The supervisor of the gateway (tools/samosa_gateway.py): the threads of *)
(* the HTTP server start, stop, select and cancel the one child process    *)
(* that runs a model, while chat turns stream through it.  A step is what  *)
(* a thread does in one hold of supervisor.lock, or one call outside it    *)
(* that waits for a child or for another program.                          *)
(***************************************************************************)
EXTENDS Naturals, FiniteSets

CONSTANTS Threads,        \* threads that serve requests and finished downloads
          Helpers,        \* threads that a cancel starts
          Main,           \* the thread of main()
          Children,       \* child processes that can be known at one time
          Backends,       \* models that are installed
          Qwen,           \* the model of Samosa's own engine
          Serves,         \* the requests each thread may have been started for
          MaxToolRounds,  \* MAX_TOOL_ROUNDS
          None            \* Python's None

RequestKinds == {"select", "completed", "context", "shutdown", "chat", "compact", "proxy", "cancel"}

ASSUME ActorsAssumption ==
    /\ IsFiniteSet(Threads) /\ IsFiniteSet(Helpers)
    /\ Threads \cap Helpers = {} /\ Main \notin Threads \cup Helpers
ASSUME ValuesAssumption ==
    /\ Children \subseteq Nat /\ 1 \in Children /\ Serves \in [Threads -> SUBSET RequestKinds]
    /\ None \notin Children \cup Backends \cup Threads
    /\ MaxToolRounds \in Nat

VARIABLES process,     \* supervisor.process: a child or None
          backend,     \* supervisor.backend, and SELECTION_FILE with it
          generating,  \* supervisor.generating
          upstream,    \* supervisor.upstream: the thread of the connection
          stopping,    \* supervisor.stopping
          serving,     \* serve_forever has not been told to end
          up,          \* the gateway process exists
          child,       \* the model that each child process runs, None when it has ended
          pc,          \* where each thread is
          held,        \* the child a thread in stop() has taken
          want,        \* the model a thread is selecting
          turn,        \* the chat turn or compaction a thread runs
          ledger,      \* the models whose messages a model's ledgers hold
          raced        \* two threads were in lifecycle operations at once

\* ledger and raced are history: they record what was saved and who met, and no step reads them.
sup     == <<process, backend, generating, upstream, stopping>>
threads == <<pc, held, want, turn>>
vars    == <<sup, serving, up, child, threads, ledger, raced>>

Actors == Threads \cup Helpers \cup {Main}

\* cut says how a cancel that answered "cancelled" left the pass that was being read.
NoTurn == [of |-> None, stream |-> FALSE, by |-> None, cut |-> "no",
           round |-> 0, tool |-> FALSE]

Live(c)   == c # None /\ child[c] # None
LiveOnes  == {c \in Children : Live(c)}
Spare     == {c \in Children : child[c] = None /\ c # process
                               /\ \A a \in Actors : held[a] # c
                               /\ \A t \in Threads : turn[t].by # c}

\* Names of ended children are used again, the smallest first.
NewChild  == CHOOSE c \in Spare : \A d \in Spare : c <= d

\* Where a thread is inside stop(), start() or an operation made of them.
Lifecycle == {"stop", "wait", "set", "start", "exit"}
Busy(at)  == {a \in Actors : at[a] \in Lifecycle}

TurnPlaces == {"prepare", "open", "ask", "read", "close", "compact", "summary", "save", "finish"}
Places == Lifecycle \cup TurnPlaces \cup
          {"idle", "admit", "proxy", "cancel", "cancel_alone", "completed", "restart", "unserve",
           "done", "ended"}

Goto(a, where) ==
    /\ pc' = [pc EXCEPT ![a] = where]
    /\ raced' = (raced \/ Cardinality({b \in Actors : pc'[b] \in Lifecycle}) > 1)

-----------------------------------------------------------------------------
(* stop(): takes the child under the lock, then waits for its end outside. *)

\* What follows stop() in the operation that called it.
AfterStop(a) ==
    IF a = Main THEN "exit"
    ELSE IF a \in Helpers THEN "restart"
    ELSE CASE want[a] = "restart"  -> "start"
           [] want[a] = "shutdown" -> "unserve"
           [] OTHER                -> "set"

StopTake(a) ==
    /\ pc[a] = "stop"
    /\ process' = None /\ upstream' = None /\ generating' = FALSE
    /\ IF Live(process)
         THEN held' = [held EXCEPT ![a] = process] /\ Goto(a, "wait")
         ELSE Goto(a, AfterStop(a)) /\ UNCHANGED held
    /\ UNCHANGED <<backend, stopping, serving, up, child, want, turn, ledger>>

\* Fault: a child that does not end in time is left.
AfterWaitUnkilled(a) == child

\* After terminate(), wait() returns: the child has ended, or kill() ends it after 8 seconds.
AfterWait(a) == [child EXCEPT ![held[a]] = None]

StopWait(a) ==
    /\ pc[a] = "wait"
    /\ child' = AfterWait(a)
    /\ held' = [held EXCEPT ![a] = None]
    /\ Goto(a, AfterStop(a))
    /\ UNCHANGED <<sup, serving, up, want, turn, ledger>>

(* start(): under the lock, nothing when a child runs. *)

\* Fault: the test for a running child is dropped.
MayStartAlways == TRUE
MayStart == ~Live(process)

StartChild(a) ==
    /\ pc[a] = "start"
    /\ \/ ~MayStart /\ UNCHANGED <<process, child>>
       \/ /\ MayStart /\ Spare # {}
          /\ process' = NewChild
          /\ child' = [child EXCEPT ![NewChild] = backend]
    /\ Goto(a, IF a \in Threads THEN "done" ELSE "idle")
    /\ want' = [want EXCEPT ![a] = None]
    /\ UNCHANGED <<backend, generating, upstream, stopping, serving, up, held, turn,
                   ledger>>

-----------------------------------------------------------------------------
(* The operations made of stop() and start(). *)

\* select(): refused while a response is generated; nothing when the model already runs.
SelectCheck(t, b) ==
    /\ ~generating
    /\ ~(b = backend /\ Live(process))
    /\ want' = [want EXCEPT ![t] = b]
    /\ Goto(t, "stop")
    /\ UNCHANGED <<sup, serving, up, child, held, turn, ledger>>

Select(t, b) == up /\ pc[t] = "idle" /\ SelectCheck(t, b)

SelectSet(t) ==
    /\ pc[t] = "set"
    /\ backend' = want[t]
    /\ Goto(t, "start")
    /\ UNCHANGED <<process, generating, upstream, stopping, serving, up, child, held, want,
                   turn, ledger>>

\* _download_completed(): is a child running?  If not, the new model is selected, outside that lock.
DownloadCompleted(t, b) ==
    /\ up /\ pc[t] = "idle"
    /\ ~Live(process)
    /\ want' = [want EXCEPT ![t] = b]
    /\ Goto(t, "completed")
    /\ UNCHANGED <<sup, serving, up, child, held, turn, ledger>>

DownloadSelects(t) ==
    /\ pc[t] = "completed"
    /\ \/ SelectCheck(t, want[t])
       \/ /\ generating \/ (want[t] = backend /\ Live(process))
          /\ want' = [want EXCEPT ![t] = None]
          /\ Goto(t, "done")
          /\ UNCHANGED <<sup, serving, up, child, held, turn, ledger>>

\* restart_for_context(), after new context settings: Prism's server is started again.
RestartForContext(t) ==
    /\ up /\ pc[t] = "idle"
    /\ ~generating /\ backend # Qwen
    /\ want' = [want EXCEPT ![t] = "restart"]
    /\ Goto(t, "stop")
    /\ UNCHANGED <<sup, serving, up, child, held, turn, ledger>>

\* _restart_cancelled_backend() after its stop(): it looks at stopping, then starts.
HelperRestart(h) ==
    /\ pc[h] = "restart"
    /\ Goto(h, IF stopping THEN "idle" ELSE "start")
    /\ UNCHANGED <<sup, serving, up, child, held, want, turn, ledger>>

\* shutdown_all(), and the end of main() once serve_forever has returned.
ShutdownAll(t) ==
    /\ up /\ pc[t] = "idle"
    /\ stopping' = TRUE
    /\ want' = [want EXCEPT ![t] = "shutdown"]
    /\ Goto(t, "stop")
    /\ UNCHANGED <<process, backend, generating, upstream, serving, up, child, held, turn,
                   ledger>>

ServerShutdown(t) ==
    /\ pc[t] = "unserve"
    /\ serving' = FALSE
    /\ want' = [want EXCEPT ![t] = None]
    /\ Goto(t, "done")
    /\ UNCHANGED <<sup, up, child, held, turn, ledger>>

Terminate ==
    /\ up /\ serving
    /\ serving' = FALSE
    /\ UNCHANGED <<sup, up, child, threads, ledger, raced>>

MainStops ==
    /\ ~serving /\ pc[Main] = "idle"
    /\ Goto(Main, "stop")
    /\ UNCHANGED <<sup, serving, up, child, held, want, turn, ledger>>

\* main() returns: the other threads are daemons and end wherever they are.
MainExits ==
    /\ pc[Main] = "exit"
    /\ up' = FALSE
    /\ pc' = [a \in Actors |-> "ended"]
    /\ held' = [a \in Actors |-> None]
    /\ want' = [a \in Actors |-> None]
    /\ turn' = [t \in Threads |-> NoTurn]
    /\ UNCHANGED <<sup, serving, child, ledger, raced>>

-----------------------------------------------------------------------------
(* Chat turns. *)

\* chat_proxy(): the model must answer, then the turn claims the flag under the lock.
ChatAsk(t) ==
    /\ up /\ pc[t] = "idle"
    /\ Live(process)
    /\ \E s \in BOOLEAN : turn' = [turn EXCEPT ![t] = [NoTurn EXCEPT !.stream = s]]
    /\ Goto(t, "admit")
    /\ UNCHANGED <<sup, serving, up, child, held, want, ledger>>

ChatAdmit(t) ==
    /\ pc[t] = "admit"
    /\ IF generating
         THEN turn' = [turn EXCEPT ![t] = NoTurn] /\ Goto(t, "done") /\ UNCHANGED generating
         ELSE generating' = TRUE /\ Goto(t, "prepare") /\ UNCHANGED turn
    /\ UNCHANGED <<process, backend, upstream, stopping, serving, up, child, held, want,
                   ledger>>

\* Fault: an exception leaves without giving the flag back.
FailedUnclaimed == "done"

\* An exception after the claim still runs the clause that gives the flag back.
Failed == "finish"

\* Prism's models get their messages from the ledger of the model that is selected now.
ChatPrepare(t) ==
    /\ pc[t] = "prepare"
    /\ \/ /\ turn' = [turn EXCEPT ![t].of = IF backend = Qwen THEN None ELSE backend]
          /\ Goto(t, "open")
       \/ /\ backend # Qwen        \* the ledger is unreadable or the context is exceeded
          /\ Goto(t, Failed) /\ UNCHANGED turn
    /\ UNCHANGED <<sup, serving, up, child, held, want, ledger>>

\* backend_chat(): registers the connection, then waits for whichever child answers the port.
PassOpen(t) ==
    /\ pc[t] = "open"
    /\ upstream' = t
    /\ Goto(t, "ask")
    /\ UNCHANGED <<process, backend, generating, stopping, serving, up, child, held, want,
                   turn, ledger>>

PassAnswered(t) ==
    /\ pc[t] = "ask"
    /\ \/ \E c \in LiveOnes :
             /\ turn' = [turn EXCEPT ![t].by = c, ![t].cut = "no"]
             /\ Goto(t, "read")
       \/ Goto(t, Failed) /\ UNCHANGED turn      \* refused or reset
    /\ UNCHANGED <<sup, serving, up, child, held, want, ledger>>

\* persist_assistant(): saved under the model that is selected when the answer ends.
Persist(t) ==
    ledger' = IF turn[t].of = None THEN ledger
              ELSE [ledger EXCEPT ![backend] = @ \cup {turn[t].of}]

\* A pass ends when the model has answered, or when its child is gone: a stream then keeps what
\* had come, a plain reply fails.  A client that left ends it without an answer.
PassEnds(t, answers, tool) ==
    /\ pc[t] = "read"
    /\ answers => Live(turn[t].by) \/ turn[t].stream
    /\ tool => answers /\ Live(turn[t].by) /\ turn[t].round < MaxToolRounds
    /\ IF answers /\ ~tool THEN Persist(t) ELSE UNCHANGED ledger
    /\ turn' = [turn EXCEPT ![t].by = None, ![t].cut = "no", ![t].tool = tool]
    /\ Goto(t, "close")
    /\ UNCHANGED <<sup, serving, up, child, held, want>>

PassRead(t) == \E answers, tool \in BOOLEAN : PassEnds(t, answers, tool)

\* The clause after a streamed pass takes its own connection back; a plain reply leaves it.
PassClose(t) ==
    /\ pc[t] = "close"
    /\ upstream' = IF turn[t].stream /\ upstream = t THEN None ELSE upstream
    /\ turn' = [turn EXCEPT ![t].tool = FALSE,
                            ![t].round = IF turn[t].tool THEN @ + 1 ELSE @]
    /\ Goto(t, IF turn[t].tool THEN "open" ELSE "finish")
    /\ UNCHANGED <<process, backend, generating, stopping, serving, up, child, held, want,
                   ledger>>

ChatFinish(t) ==
    /\ pc[t] = "finish"
    /\ generating' = FALSE
    /\ turn' = [turn EXCEPT ![t] = NoTurn]
    /\ Goto(t, "done")
    /\ UNCHANGED <<process, backend, upstream, stopping, serving, up, child, held, want,
                   ledger>>

\* POST /v1/compact for a Prism model: loads a ledger, has it summarised, saves the summary.
CompactStart(t) ==
    /\ up /\ pc[t] = "idle"
    /\ backend # Qwen /\ ~generating
    /\ generating' = TRUE
    /\ Goto(t, "compact")
    /\ UNCHANGED <<process, backend, upstream, stopping, serving, up, child, held, want, turn,
                   ledger>>

CompactLoad(t) ==
    /\ pc[t] = "compact"
    /\ turn' = [turn EXCEPT ![t].of = backend]
    /\ Goto(t, "summary")
    /\ UNCHANGED <<sup, serving, up, child, held, want, ledger>>

CompactSummarise(t) ==
    /\ pc[t] = "summary"
    /\ \/ LiveOnes # {} /\ Goto(t, "save")
       \/ Goto(t, Failed)                 \* the model failed, or its summary did not shrink
    /\ UNCHANGED <<sup, serving, up, child, held, want, turn, ledger>>

CompactSave(t) ==
    /\ pc[t] = "save"
    /\ Persist(t)
    /\ Goto(t, "finish")
    /\ UNCHANGED <<sup, serving, up, child, held, want, turn>>

\* proxy() registers its connection too, over that of a turn that may be running.
ProxyOpen(t) ==
    /\ up /\ pc[t] = "idle"
    /\ Live(process)
    /\ upstream' = t
    /\ Goto(t, "proxy")
    /\ UNCHANGED <<process, backend, generating, stopping, serving, up, child, held, want,
                   turn, ledger>>

ProxyClose(t) ==
    /\ pc[t] = "proxy"
    /\ upstream' = IF upstream = t THEN None ELSE upstream
    /\ Goto(t, "done")
    /\ UNCHANGED <<process, backend, generating, stopping, serving, up, child, held, want,
                   turn, ledger>>

-----------------------------------------------------------------------------
(* cancel(): looks under the lock, acts outside it. *)

CancelLook(t) ==
    /\ up /\ pc[t] = "idle"
    /\ generating
    /\ want' = [want EXCEPT ![t] = backend]
    /\ Goto(t, IF upstream = None THEN "cancel_alone" ELSE "cancel")
    /\ UNCHANGED <<sup, serving, up, child, held, turn, ledger>>

CancelOver(t) ==
    /\ want' = [want EXCEPT ![t] = None]
    /\ UNCHANGED <<sup, serving, up, child, held, ledger>>

\* Samosa's engine is asked to cancel, and whatever listens at the port answers within 3 seconds:
\* cancel() returns.  What the engine does then is in SamosaServe.
CancelEngine(t) ==
    /\ pc[t] \in {"cancel", "cancel_alone"} /\ want[t] = Qwen
    /\ LiveOnes # {}
    /\ Goto(t, "done")
    /\ CancelOver(t)
    /\ UNCHANGED turn

\* Fault: the child is left to itself after the close.
RestartsAfterNever(model) == FALSE

\* Otherwise, and also when the request to the engine fails, be the engine dead, slow to answer
\* or without memory for the connection, the response and the connection are closed.  That need
\* not reach a reader: the response may be that of a health probe (ready), the connection that of
\* a proxied request, and the socket is often detached.  So a Prism server is restarted, by a
\* thread of its own; the engine is not.
RestartsAfter(model) == model # Qwen

\* What the close leaves of the passes that are being read.
CutBy(model) == IF model = Qwen THEN "closed" ELSE "restarting"
Cut(model) == [u \in Threads |->
    IF pc[u] = "read" THEN [turn[u] EXCEPT !.cut = CutBy(model)] ELSE turn[u]]

CancelClose(t) ==
    /\ pc[t] = "cancel"
    /\ IF RestartsAfter(want[t])
         THEN \E h \in Helpers :
                 /\ pc[h] = "idle"
                 /\ pc' = [pc EXCEPT ![t] = "done", ![h] = "stop"]
                 /\ raced' = (raced \/ Busy(pc) # {})
         ELSE Goto(t, "done")
    /\ turn' = Cut(want[t])
    /\ CancelOver(t)

\* With no connection registered upstream.close() raises: nothing is restarted, nothing answered.
CancelRaises(t) ==
    /\ pc[t] = "cancel_alone"
    /\ Goto(t, "done")
    /\ CancelOver(t)
    /\ UNCHANGED turn

-----------------------------------------------------------------------------
(* A child may end at any time: it crashes, or cannot have the port. *)
ChildEnds(c) ==
    /\ Live(c)
    /\ child' = [child EXCEPT ![c] = None]
    /\ UNCHANGED <<sup, serving, up, threads, ledger, raced>>

Init ==
    /\ backend \in Backends
    /\ process = 1
    /\ child = [c \in Children |-> IF c = process THEN backend ELSE None]
    /\ generating = FALSE /\ upstream = None /\ stopping = FALSE
    /\ serving = TRUE /\ up = TRUE /\ raced = FALSE
    /\ pc = [a \in Actors |-> "idle"]
    /\ held = [a \in Actors |-> None]
    /\ want = [a \in Actors |-> None]
    /\ turn = [t \in Threads |-> NoTurn]
    /\ ledger = [b \in Backends |-> {b} \ {Qwen}]

\* The steps of a thread that is in the middle of an operation.
Stops(a) == StopTake(a) \/ StopWait(a) \/ StartChild(a)

Turns(t) == \/ ChatAdmit(t) \/ ChatPrepare(t) \/ PassOpen(t) \/ PassAnswered(t)
            \/ PassClose(t) \/ ChatFinish(t) \/ CompactLoad(t) \/ CompactSummarise(t)
            \/ CompactSave(t) \/ ProxyClose(t)

Request(t) ==
    \/ "select" \in Serves[t] /\ \E b \in Backends : Select(t, b)
    \/ "completed" \in Serves[t] /\ \E b \in Backends : DownloadCompleted(t, b)
    \/ "context" \in Serves[t] /\ RestartForContext(t)
    \/ "shutdown" \in Serves[t] /\ ShutdownAll(t)
    \/ "chat" \in Serves[t] /\ ChatAsk(t)
    \/ "compact" \in Serves[t] /\ CompactStart(t)
    \/ "proxy" \in Serves[t] /\ ProxyOpen(t)
    \/ "cancel" \in Serves[t] /\ CancelLook(t)

Cancels(t) == CancelEngine(t) \/ CancelClose(t) \/ CancelRaises(t)

Next ==
    \/ \E a \in Actors : Stops(a)
    \/ \E t \in Threads : \/ Request(t) \/ SelectSet(t) \/ DownloadSelects(t)
                          \/ ServerShutdown(t) \/ Turns(t) \/ PassRead(t) \/ Cancels(t)
    \/ \E h \in Helpers : HelperRestart(h)
    \/ Terminate \/ MainStops \/ MainExits
    \/ \E c \in Children : ChildEnds(c)

(***************************************************************************)
(* A thread that stops or starts a child goes on: stop() waits 8 seconds,  *)
(* then kills, and holds no lock meanwhile.  Nothing is assumed of models, *)
(* which may generate for as long as they like, nor of the browsers that   *)
(* the threads of turns write to.                                          *)
(***************************************************************************)
Fairness == \A a \in Actors : WF_vars(Stops(a))

Spec == Init /\ [][Next]_vars /\ Fairness

-----------------------------------------------------------------------------
(* What is promised. *)

\* Every child process that runs is the one a request can reach, or some thread in stop() is
\* waiting for its end and will kill it: none is forgotten while the gateway exists.
ChildrenAccounted ==
    up => \A c \in LiveOnes : c = process \/ \E a \in Actors : pc[a] = "wait" /\ held[a] = c

\* "another response is already generating" is only answered while a thread that will take the
\* flag back is in its turn: no refusal, failure, cancel or restart leaves it set behind.
FlagHasItsTurn == up /\ generating => \E t \in Threads : pc[t] \in TurnPlaces

\* As long as no two threads select, restart or shut down at the same time, one model at most is
\* in memory, it is the one that is selected, and none outlives the gateway.
OneOperationOneModel ==
    ~raced => /\ Cardinality(LiveOnes) <= 1
              /\ Busy(pc) = {} /\ Live(process) => child[process] = backend
              /\ ~up => LiveOnes = {}

\* README.md:25 "Only one model is loaded in memory at a time": does not hold when operations race.
OneModelInMemory == Cardinality(LiveOnes) <= 1

\* Nor does this: a helper that has looked at stopping may start its child after main() has
\* stopped the last one.
NoneOutlivesGateway == ~up => ~Live(process)

\* A Prism server that generates a pass when a cancel answers "cancelled" is ended, unless the
\* pass ends by itself: whatever the close reached, and whoever else stops, selects or restarts
\* in the meantime.
CancelledServerEnds ==
    \A t \in Threads :
        turn[t].cut = "restarting" ~> ~(turn[t].cut = "restarting" /\ Live(turn[t].by))

\* The same of Samosa's engine, which does not hold: a request to cancel that fails leaves a live
\* engine generating, and cancel() answers "cancelled" all the same (samosa_gateway.py:414-435).
CancelledEngineEnds ==
    \A t \in Threads :
        turn[t].cut = "closed" ~> ~(turn[t].cut = "closed" /\ Live(turn[t].by))

\* samosa_gateway.py:569 "Do not interrupt an already-running model when the user downloads
\* another one in the background": does not hold, the model may be started after the test.
DownloadInterruptsNothing ==
    [][\A t \in Threads : pc[t] = "completed" /\ pc'[t] = "stop" => ~Live(process)]_vars

\* docs/MODELS_AND_INTERNET.md:63 "Each GGUF conversation ledger is keyed by both chat ID and
\* backend, preventing Bonsai and Ornith from silently sharing incompatible model-facing state."
LedgerOfOneModel == \A b \in Backends : ledger[b] \subseteq {b}
=============================================================================
