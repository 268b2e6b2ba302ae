---------------------- MODULE GatewaySupervisorProofs ----------------------
(***************************************************************************)
(* What the supervisor's lock is worth, for every number of threads,       *)
(* children and models: no child process is forgotten, the generating flag *)
(* is never left behind, and operations that do not meet keep one model.   *)
(***************************************************************************)
EXTENDS GatewaySupervisor, FiniteSetTheorems, WellFoundedInduction, TLAPS

-----------------------------------------------------------------------------
(* Types.                                                                  *)

TurnRecords == [of : Backends \cup {None}, stream : BOOLEAN, by : Children \cup {None},
                cut : {"no", "closed", "restarting"}, round : 0 .. MaxToolRounds, tool : BOOLEAN]

\* What a thread may be selecting, by where it is.
WantOK ==
    /\ want \in [Actors -> Backends \cup {"restart", "shutdown", None}]
    /\ \A t \in Threads :
         /\ pc[t] \in {"stop", "wait"} => want[t] \in Backends \cup {"restart", "shutdown"}
         /\ pc[t] \in {"set", "completed"} => want[t] \in Backends

\* Another round of tools is only begun below MAX_TOOL_ROUNDS.
TurnOK ==
    /\ turn \in [Threads -> TurnRecords]
    /\ \A t \in Threads : turn[t].tool => turn[t].round < MaxToolRounds

PlacesOK ==
    /\ process \in Children \cup {None}
    /\ backend \in Backends
    /\ upstream \in Threads \cup {None}
    /\ generating \in BOOLEAN /\ stopping \in BOOLEAN /\ serving \in BOOLEAN
    /\ up \in BOOLEAN /\ raced \in BOOLEAN
    /\ child \in [Children -> Backends \cup {None}]
    /\ pc \in [Actors -> Places]
    /\ held \in [Actors -> Children \cup {None}]
    /\ ledger \in [Backends -> SUBSET Backends]
    /\ ~up => \A a \in Actors : pc[a] = "ended"

TypeOK == PlacesOK /\ WantOK /\ TurnOK

\* What OneOperationOneModel needs beyond what it says.
OneAtATime ==
    ~raced =>
      /\ \A a, b \in Busy(pc) : a = b
      /\ (\E a \in Actors : pc[a] = "wait") => ~Live(process)
      /\ (\E a \in Actors : pc[a] \in {"set", "exit"}) => LiveOnes = {}
      /\ Live(process) => child[process] = backend
      /\ ~up => LiveOnes = {}

\* What Goto says of the place it goes to.
LEMMA GotoTypes ==
    ASSUME PlacesOK, NEW a \in Actors, NEW where \in Places, Goto(a, where)
    PROVE  /\ pc' = [pc EXCEPT ![a] = where]
           /\ pc' \in [Actors -> Places]
           /\ raced' \in BOOLEAN
  BY DEF PlacesOK, Goto

LEMMA AfterStopPlaces ==
    ASSUME NEW a \in Actors
    PROVE  /\ AfterStop(a) \in {"exit", "restart", "start", "unserve", "set"}
           /\ AfterStop(a) \in Places
  BY DEF AfterStop, Places, Lifecycle

\* A nonempty set of naturals has a least element.
LEMMA LeastNatural ==
    ASSUME NEW T \in SUBSET Nat, T # {}
    PROVE  \E m \in T : \A k \in T : m <= k
<1>1. PICK m \in T : \A k \in T : ~(<<k, m>> \in OpToRel(<, Nat))
  BY NatLessThanWellFounded, WFMin
<1>2. \A k \in T : ~(k < m)
  BY <1>1 DEF OpToRel
<1> QED
  BY <1>2

LEMMA NewChildIsSpare ==
    ASSUME Spare # {}
    PROVE  NewChild \in Spare
<1>1. Spare \in SUBSET Nat
  BY ValuesAssumption DEF Spare
<1>2. \E c \in Spare : \A d \in Spare : c <= d
  BY <1>1, LeastNatural
<1> QED
  BY <1>2 DEF NewChild

LEMMA AfterStopWants ==
    ASSUME NEW t \in Threads, AfterStop(t) \in {"set", "completed"},
           want[t] \in Backends \cup {"restart", "shutdown"}
    PROVE  want[t] \in Backends
<1>1. t \notin Helpers /\ t # Main
  BY ActorsAssumption
<1>2. CASE want[t] = "restart"
  BY <1>1, <1>2 DEF AfterStop
<1>3. CASE want[t] = "shutdown" /\ want[t] # "restart"
  BY <1>1, <1>3 DEF AfterStop
<1> QED
  BY <1>2, <1>3

LEMMA PersistTypes ==
    ASSUME PlacesOK, TurnOK, NEW t \in Threads, Persist(t)
    PROVE  ledger' \in [Backends -> SUBSET Backends]
<1>1. turn[t] \in TurnRecords
  BY DEF TurnOK
<1>2. turn[t].of \in Backends \cup {None}
  BY <1>1 DEF TurnRecords
<1>3. CASE turn[t].of = None
  BY <1>3 DEF Persist, PlacesOK
<1>4. CASE turn[t].of # None
  BY <1>2, <1>4 DEF Persist, PlacesOK
<1> QED
  BY <1>3, <1>4

\* A thread may change its turn to any record in which a tool call leaves a round.
LEMMA TurnReplaced ==
    ASSUME TurnOK, NEW t \in Threads, NEW r \in TurnRecords, r.tool => r.round < MaxToolRounds,
           turn' = [turn EXCEPT ![t] = r]
    PROVE  TurnOK'
  BY DEF TurnOK

LEMMA NoTurnIsTurn == NoTurn \in TurnRecords /\ ~NoTurn.tool
  BY ValuesAssumption DEF NoTurn, TurnRecords

\* Every step keeps the types of the supervisor, the children and the places.
LEMMA PlacesStep ==
    ASSUME TypeOK, [Next]_vars
    PROVE  PlacesOK'
<1> USE DEF TypeOK, Actors
<1>1. ASSUME NEW a \in Actors, StopTake(a) PROVE PlacesOK'
  <2>1. AfterStop(a) # "ended" /\ AfterStop(a) \in Places /\ "wait" \in Places
    BY AfterStopPlaces DEF Places, Lifecycle
  <2>2. CASE Live(process)
    BY <1>1, <2>1, <2>2 DEF StopTake, PlacesOK, Goto, Live
  <2>3. CASE ~Live(process)
    BY <1>1, <2>1, <2>3 DEF StopTake, PlacesOK, Goto
  <2> QED
    BY <2>2, <2>3
<1>2. ASSUME NEW a \in Actors, StopWait(a) PROVE PlacesOK'
  BY <1>2, AfterStopPlaces DEF StopWait, PlacesOK, Goto, Places, AfterWait, sup
<1>3. ASSUME NEW a \in Actors, StartChild(a) PROVE PlacesOK'
  BY <1>3, NewChildIsSpare DEF StartChild, PlacesOK, Goto, Places, Spare, Lifecycle
<1>4. ASSUME NEW t \in Threads, NEW b \in Backends,
             pc[t] \in {"idle", "completed"}, SelectCheck(t, b) PROVE PlacesOK'
  BY <1>4 DEF SelectCheck, PlacesOK, Goto, Places, sup, Lifecycle
<1>5. ASSUME NEW t \in Threads, SelectSet(t) PROVE PlacesOK'
  <2>1. want[t] \in Backends
    BY <1>5 DEF SelectSet, WantOK
  <2> QED
    BY <1>5, <2>1, ActorsAssumption DEF SelectSet, PlacesOK, Goto, Places, Lifecycle
<1>6. ASSUME NEW t \in Threads, NEW b \in Backends, DownloadCompleted(t, b) PROVE PlacesOK'
  BY <1>6 DEF DownloadCompleted, PlacesOK, Goto, Places, sup
<1>7. ASSUME NEW t \in Threads, DownloadSelects(t) PROVE PlacesOK'
  BY <1>7 DEF DownloadSelects, PlacesOK, Goto, Places, SelectCheck, sup, Lifecycle
<1>8. ASSUME NEW t \in Threads, RestartForContext(t) PROVE PlacesOK'
  BY <1>8 DEF RestartForContext, PlacesOK, Goto, Places, sup, Lifecycle
<1>9. ASSUME NEW h \in Helpers, HelperRestart(h) PROVE PlacesOK'
  BY <1>9 DEF HelperRestart, PlacesOK, Goto, Places, sup, Lifecycle
<1>10. ASSUME NEW t \in Threads, ShutdownAll(t) PROVE PlacesOK'
  BY <1>10 DEF ShutdownAll, PlacesOK, Goto, Places, Lifecycle
<1>11. ASSUME NEW t \in Threads, ServerShutdown(t) PROVE PlacesOK'
  BY <1>11 DEF ServerShutdown, PlacesOK, Goto, Places, sup
<1>12. ASSUME Terminate PROVE PlacesOK'
  BY <1>12 DEF Terminate, PlacesOK, sup, threads
<1>13. ASSUME MainStops PROVE PlacesOK'
  BY <1>13 DEF MainStops, PlacesOK, Goto, Places, sup, Lifecycle
<1>14. ASSUME MainExits PROVE PlacesOK'
  BY <1>14 DEF MainExits, PlacesOK, Places, sup
<1>15. ASSUME NEW t \in Threads, ChatAsk(t) PROVE PlacesOK'
  BY <1>15 DEF ChatAsk, PlacesOK, Goto, Places, sup
<1>16. ASSUME NEW t \in Threads, ChatAdmit(t) PROVE PlacesOK'
  BY <1>16 DEF ChatAdmit, PlacesOK, Goto, Places, TurnPlaces
<1>17. ASSUME NEW t \in Threads, ChatPrepare(t) PROVE PlacesOK'
  BY <1>17 DEF ChatPrepare, PlacesOK, Goto, Places, Failed, TurnPlaces, sup
<1>18. ASSUME NEW t \in Threads, PassOpen(t) PROVE PlacesOK'
  BY <1>18 DEF PassOpen, PlacesOK, Goto, Places, TurnPlaces
<1>19. ASSUME NEW t \in Threads, PassAnswered(t) PROVE PlacesOK'
  BY <1>19 DEF PassAnswered, PlacesOK, Goto, Places, Failed, TurnPlaces, sup
<1>20. ASSUME NEW t \in Threads,
             NEW answers \in BOOLEAN, NEW tool \in BOOLEAN, PassEnds(t, answers, tool) PROVE PlacesOK'
  <2>1. ledger' \in [Backends -> SUBSET Backends]
    BY <1>20, PersistTypes DEF PassEnds, PlacesOK
  <2> QED
    BY <1>20, <2>1 DEF PassEnds, PlacesOK, Goto, Places, TurnPlaces, sup
<1>21. ASSUME NEW t \in Threads, PassClose(t) PROVE PlacesOK'
  BY <1>21 DEF PassClose, PlacesOK, Goto, Places, TurnPlaces
<1>22. ASSUME NEW t \in Threads, ChatFinish(t) PROVE PlacesOK'
  BY <1>22 DEF ChatFinish, PlacesOK, Goto, Places
<1>23. ASSUME NEW t \in Threads, CompactStart(t) PROVE PlacesOK'
  BY <1>23 DEF CompactStart, PlacesOK, Goto, Places, TurnPlaces
<1>24. ASSUME NEW t \in Threads, CompactLoad(t) PROVE PlacesOK'
  BY <1>24 DEF CompactLoad, PlacesOK, Goto, Places, TurnPlaces, sup
<1>25. ASSUME NEW t \in Threads, CompactSummarise(t) PROVE PlacesOK'
  BY <1>25 DEF CompactSummarise, PlacesOK, Goto, Places, Failed, TurnPlaces, sup
<1>26. ASSUME NEW t \in Threads, CompactSave(t) PROVE PlacesOK'
  <2>1. ledger' \in [Backends -> SUBSET Backends]
    BY <1>26, PersistTypes DEF CompactSave, PlacesOK
  <2> QED
    BY <1>26, <2>1 DEF CompactSave, PlacesOK, Goto, Places, TurnPlaces, sup
<1>27. ASSUME NEW t \in Threads, ProxyOpen(t) PROVE PlacesOK'
  BY <1>27 DEF ProxyOpen, PlacesOK, Goto, Places
<1>28. ASSUME NEW t \in Threads, ProxyClose(t) PROVE PlacesOK'
  BY <1>28 DEF ProxyClose, PlacesOK, Goto, Places
<1>29. ASSUME NEW t \in Threads, CancelLook(t) PROVE PlacesOK'
  BY <1>29 DEF CancelLook, PlacesOK, Goto, Places, sup
<1>30. ASSUME NEW t \in Threads, CancelEngine(t) PROVE PlacesOK'
  BY <1>30 DEF CancelEngine, PlacesOK, Goto, Places, CancelOver, sup
<1>31. ASSUME NEW t \in Threads, CancelClose(t) PROVE PlacesOK'
  BY <1>31 DEF CancelClose, PlacesOK, Goto, Places, CancelOver, Lifecycle, sup
<1>32. ASSUME NEW t \in Threads, CancelRaises(t) PROVE PlacesOK'
  BY <1>32 DEF CancelRaises, PlacesOK, Goto, Places, CancelOver, sup
<1>33. ASSUME NEW c \in Children, ChildEnds(c) PROVE PlacesOK'
  BY <1>33 DEF ChildEnds, PlacesOK, Live, sup, threads
<1>34. ASSUME UNCHANGED vars PROVE PlacesOK'
  BY <1>34 DEF vars, PlacesOK, sup, threads
<1>35. ASSUME NEW a \in Actors, Stops(a) PROVE PlacesOK'
  BY ONLY <1>35, <1>1, <1>2, <1>3 DEF Stops
<1>36. ASSUME NEW t \in Threads, Request(t) PROVE PlacesOK'
  BY ONLY <1>36, <1>4, <1>6, <1>8, <1>10, <1>15, <1>23, <1>27, <1>29 DEF Request, Select
<1>37. ASSUME NEW t \in Threads, Turns(t) PROVE PlacesOK'
  BY ONLY <1>37, <1>16, <1>17, <1>18, <1>19, <1>21, <1>22, <1>24, <1>25, <1>26, <1>28 DEF Turns
<1>38. ASSUME NEW t \in Threads, PassRead(t) PROVE PlacesOK'
  BY ONLY <1>38, <1>20 DEF PassRead
<1>39. ASSUME NEW t \in Threads, Cancels(t) PROVE PlacesOK'
  BY ONLY <1>39, <1>31, <1>32, <1>30 DEF Cancels
<1> QED
  BY ONLY [Next]_vars, <1>35, <1>36, <1>37, <1>38, <1>39,
     <1>5, <1>7, <1>11, <1>9, <1>12, <1>13, <1>14, <1>33, <1>34 DEF Next

\* A thread only goes on to set a model that it was given to select.
LEMMA WantStep ==
    ASSUME TypeOK, [Next]_vars
    PROVE  WantOK'
<1> USE DEF TypeOK, Actors
<1>1. ASSUME NEW a \in Actors, StopTake(a) PROVE WantOK'
  <2>1. /\ want' = want
        /\ \A t \in Threads : pc'[t] # pc[t] => /\ t = a /\ pc[t] = "stop"
                                                /\ pc'[t] \in {"wait", AfterStop(t)}
    BY <1>1 DEF StopTake, PlacesOK, Goto
  <2> QED
    BY <2>1, AfterStopWants, AfterStopPlaces DEF WantOK
<1>2. ASSUME NEW a \in Actors, StopWait(a) PROVE WantOK'
  <2>1. /\ want' = want
        /\ \A t \in Threads : pc'[t] # pc[t] => /\ t = a /\ pc[t] = "wait"
                                                /\ pc'[t] = AfterStop(t)
    BY <1>2 DEF StopWait, PlacesOK, Goto
  <2> QED
    BY <2>1, AfterStopWants, AfterStopPlaces DEF WantOK
<1>3. ASSUME NEW a \in Actors, StartChild(a) PROVE WantOK'
  BY <1>3 DEF StartChild, PlacesOK, WantOK, Goto
<1>4. ASSUME NEW t \in Threads, NEW b \in Backends,
             pc[t] \in {"idle", "completed"}, SelectCheck(t, b) PROVE WantOK'
  BY <1>4 DEF SelectCheck, PlacesOK, WantOK, Goto
<1>5. ASSUME NEW t \in Threads, SelectSet(t) PROVE WantOK'
  BY <1>5 DEF SelectSet, PlacesOK, WantOK, Goto
<1>6. ASSUME NEW t \in Threads, NEW b \in Backends, DownloadCompleted(t, b) PROVE WantOK'
  BY <1>6 DEF DownloadCompleted, PlacesOK, WantOK, Goto
<1>7. ASSUME NEW t \in Threads, DownloadSelects(t) PROVE WantOK'
  BY <1>7 DEF DownloadSelects, PlacesOK, WantOK, Goto, SelectCheck
<1>8. ASSUME NEW t \in Threads, RestartForContext(t) PROVE WantOK'
  BY <1>8 DEF RestartForContext, PlacesOK, WantOK, Goto
<1>9. ASSUME NEW h \in Helpers, HelperRestart(h) PROVE WantOK'
  BY <1>9, ActorsAssumption DEF HelperRestart, PlacesOK, WantOK, Goto
<1>10. ASSUME NEW t \in Threads, ShutdownAll(t) PROVE WantOK'
  BY <1>10 DEF ShutdownAll, PlacesOK, WantOK, Goto
<1>11. ASSUME NEW t \in Threads, ServerShutdown(t) PROVE WantOK'
  BY <1>11 DEF ServerShutdown, PlacesOK, WantOK, Goto
<1>12. ASSUME Terminate PROVE WantOK'
  BY <1>12 DEF Terminate, PlacesOK, WantOK, threads
<1>13. ASSUME MainStops PROVE WantOK'
  BY <1>13, ActorsAssumption DEF MainStops, PlacesOK, WantOK, Goto
<1>14. ASSUME MainExits PROVE WantOK'
  BY <1>14 DEF MainExits, PlacesOK, WantOK
<1>15. ASSUME NEW t \in Threads, ChatAsk(t) PROVE WantOK'
  BY <1>15 DEF ChatAsk, PlacesOK, WantOK, Goto
<1>16. ASSUME NEW t \in Threads, ChatAdmit(t) PROVE WantOK'
  BY <1>16 DEF ChatAdmit, PlacesOK, WantOK, Goto
<1>17. ASSUME NEW t \in Threads, ChatPrepare(t) PROVE WantOK'
  BY <1>17 DEF ChatPrepare, PlacesOK, WantOK, Goto, Failed
<1>18. ASSUME NEW t \in Threads, PassOpen(t) PROVE WantOK'
  BY <1>18 DEF PassOpen, PlacesOK, WantOK, Goto
<1>19. ASSUME NEW t \in Threads, PassAnswered(t) PROVE WantOK'
  BY <1>19 DEF PassAnswered, PlacesOK, WantOK, Goto, Failed
<1>20. ASSUME NEW t \in Threads,
             NEW answers \in BOOLEAN, NEW tool \in BOOLEAN, PassEnds(t, answers, tool) PROVE WantOK'
  BY <1>20 DEF PassEnds, PlacesOK, WantOK, Goto
<1>21. ASSUME NEW t \in Threads, PassClose(t) PROVE WantOK'
  BY <1>21 DEF PassClose, PlacesOK, WantOK, Goto
<1>22. ASSUME NEW t \in Threads, ChatFinish(t) PROVE WantOK'
  BY <1>22 DEF ChatFinish, PlacesOK, WantOK, Goto
<1>23. ASSUME NEW t \in Threads, CompactStart(t) PROVE WantOK'
  BY <1>23 DEF CompactStart, PlacesOK, WantOK, Goto
<1>24. ASSUME NEW t \in Threads, CompactLoad(t) PROVE WantOK'
  BY <1>24 DEF CompactLoad, PlacesOK, WantOK, Goto
<1>25. ASSUME NEW t \in Threads, CompactSummarise(t) PROVE WantOK'
  BY <1>25 DEF CompactSummarise, PlacesOK, WantOK, Goto, Failed
<1>26. ASSUME NEW t \in Threads, CompactSave(t) PROVE WantOK'
  BY <1>26 DEF CompactSave, PlacesOK, WantOK, Goto
<1>27. ASSUME NEW t \in Threads, ProxyOpen(t) PROVE WantOK'
  BY <1>27 DEF ProxyOpen, PlacesOK, WantOK, Goto
<1>28. ASSUME NEW t \in Threads, ProxyClose(t) PROVE WantOK'
  BY <1>28 DEF ProxyClose, PlacesOK, WantOK, Goto
<1>29. ASSUME NEW t \in Threads, CancelLook(t) PROVE WantOK'
  BY <1>29 DEF CancelLook, PlacesOK, WantOK, Goto
<1>30. ASSUME NEW t \in Threads, CancelEngine(t) PROVE WantOK'
  BY <1>30 DEF CancelEngine, PlacesOK, WantOK, Goto, CancelOver
<1>31. ASSUME NEW t \in Threads, CancelClose(t) PROVE WantOK'
  BY <1>31, ActorsAssumption DEF CancelClose, PlacesOK, WantOK, Goto, CancelOver
<1>32. ASSUME NEW t \in Threads, CancelRaises(t) PROVE WantOK'
  BY <1>32 DEF CancelRaises, PlacesOK, WantOK, Goto, CancelOver
<1>33. ASSUME NEW c \in Children, ChildEnds(c) PROVE WantOK'
  BY <1>33 DEF ChildEnds, PlacesOK, WantOK, threads
<1>34. ASSUME UNCHANGED vars PROVE WantOK'
  BY <1>34 DEF vars, PlacesOK, WantOK, threads
<1>35. ASSUME NEW a \in Actors, Stops(a) PROVE WantOK'
  BY ONLY <1>35, <1>1, <1>2, <1>3 DEF Stops
<1>36. ASSUME NEW t \in Threads, Request(t) PROVE WantOK'
  BY ONLY <1>36, <1>4, <1>6, <1>8, <1>10, <1>15, <1>23, <1>27, <1>29 DEF Request, Select
<1>37. ASSUME NEW t \in Threads, Turns(t) PROVE WantOK'
  BY ONLY <1>37, <1>16, <1>17, <1>18, <1>19, <1>21, <1>22, <1>24, <1>25, <1>26, <1>28 DEF Turns
<1>38. ASSUME NEW t \in Threads, PassRead(t) PROVE WantOK'
  BY ONLY <1>38, <1>20 DEF PassRead
<1>39. ASSUME NEW t \in Threads, Cancels(t) PROVE WantOK'
  BY ONLY <1>39, <1>31, <1>32, <1>30 DEF Cancels
<1> QED
  BY ONLY [Next]_vars, <1>35, <1>36, <1>37, <1>38, <1>39,
     <1>5, <1>7, <1>11, <1>9, <1>12, <1>13, <1>14, <1>33, <1>34 DEF Next

\* Turns keep their types, and no tool call is begun past the last round.
LEMMA TurnStep ==
    ASSUME TypeOK, [Next]_vars
    PROVE  TurnOK'
<1> USE DEF TypeOK, Actors
<1>1. ASSUME NEW a \in Actors, StopTake(a) PROVE TurnOK'
  BY <1>1 DEF StopTake, TurnOK
<1>2. ASSUME NEW a \in Actors, StopWait(a) PROVE TurnOK'
  BY <1>2 DEF StopWait, TurnOK
<1>3. ASSUME NEW a \in Actors, StartChild(a) PROVE TurnOK'
  BY <1>3 DEF StartChild, TurnOK
<1>4. ASSUME NEW t \in Threads, NEW b \in Backends,
             pc[t] \in {"idle", "completed"}, SelectCheck(t, b) PROVE TurnOK'
  BY <1>4 DEF SelectCheck, TurnOK
<1>5. ASSUME NEW t \in Threads, SelectSet(t) PROVE TurnOK'
  BY <1>5 DEF SelectSet, TurnOK
<1>6. ASSUME NEW t \in Threads, NEW b \in Backends, DownloadCompleted(t, b) PROVE TurnOK'
  BY <1>6 DEF DownloadCompleted, TurnOK
<1>7. ASSUME NEW t \in Threads, DownloadSelects(t) PROVE TurnOK'
  BY <1>7 DEF DownloadSelects, TurnOK, SelectCheck
<1>8. ASSUME NEW t \in Threads, RestartForContext(t) PROVE TurnOK'
  BY <1>8 DEF RestartForContext, TurnOK
<1>9. ASSUME NEW h \in Helpers, HelperRestart(h) PROVE TurnOK'
  BY <1>9 DEF HelperRestart, TurnOK
<1>10. ASSUME NEW t \in Threads, ShutdownAll(t) PROVE TurnOK'
  BY <1>10 DEF ShutdownAll, TurnOK
<1>11. ASSUME NEW t \in Threads, ServerShutdown(t) PROVE TurnOK'
  BY <1>11 DEF ServerShutdown, TurnOK
<1>12. ASSUME Terminate PROVE TurnOK'
  BY <1>12 DEF Terminate, TurnOK, threads
<1>13. ASSUME MainStops PROVE TurnOK'
  BY <1>13 DEF MainStops, TurnOK
<1>14. ASSUME MainExits PROVE TurnOK'
  BY <1>14, NoTurnIsTurn DEF MainExits, TurnOK
<1>15. ASSUME NEW t \in Threads, ChatAsk(t) PROVE TurnOK'
  <2>1. PICK s \in BOOLEAN : turn' = [turn EXCEPT ![t] = [NoTurn EXCEPT !.stream = s]]
    BY <1>15 DEF ChatAsk
  <2>2. [NoTurn EXCEPT !.stream = s] \in TurnRecords
    BY NoTurnIsTurn DEF TurnRecords
  <2>3. ~[NoTurn EXCEPT !.stream = s].tool
    BY DEF NoTurn
  <2> QED
    BY <2>1, <2>2, <2>3, TurnReplaced
<1>16. ASSUME NEW t \in Threads, ChatAdmit(t) PROVE TurnOK'
  <2>1. turn' = [turn EXCEPT ![t] = NoTurn] \/ turn' = turn
    BY <1>16 DEF ChatAdmit
  <2>2. CASE turn' = turn
    BY <2>2 DEF TurnOK
  <2>3. CASE turn' = [turn EXCEPT ![t] = NoTurn]
    BY <2>3, NoTurnIsTurn, TurnReplaced
  <2> QED
    BY <2>1, <2>2, <2>3
<1>17. ASSUME NEW t \in Threads, ChatPrepare(t) PROVE TurnOK'
  <2> DEFINE r == [turn[t] EXCEPT !.of = IF backend = Qwen THEN None ELSE backend]
  <2>1. turn' = [turn EXCEPT ![t] = r] \/ turn' = turn
    BY <1>17 DEF ChatPrepare, TurnOK
  <2>2. turn[t] \in TurnRecords /\ (turn[t].tool => turn[t].round < MaxToolRounds)
    BY DEF TurnOK
  <2>3. r \in TurnRecords
    BY <2>2 DEF TurnRecords, PlacesOK
  <2>4. r.tool => r.round < MaxToolRounds
    BY <2>2 DEF TurnRecords
  <2>5. CASE turn' = turn
    BY <2>5 DEF TurnOK
  <2>6. CASE turn' = [turn EXCEPT ![t] = r]
    BY <2>3, <2>4, <2>6, TurnReplaced
  <2> QED
    BY <2>1, <2>5, <2>6
<1>18. ASSUME NEW t \in Threads, PassOpen(t) PROVE TurnOK'
  BY <1>18 DEF PassOpen, TurnOK
<1>19. ASSUME NEW t \in Threads, PassAnswered(t) PROVE TurnOK'
  <2>1. CASE turn' = turn
    BY <2>1 DEF TurnOK
  <2>2. CASE \E c \in Children : turn' = [turn EXCEPT ![t].by = c, ![t].cut = "no"]
    <3>1. PICK c \in Children : turn' = [turn EXCEPT ![t].by = c, ![t].cut = "no"]
      BY <2>2
    <3> DEFINE r == [turn[t] EXCEPT !.by = c, !.cut = "no"]
    <3>2. turn' = [turn EXCEPT ![t] = r]
      BY <3>1 DEF TurnOK
    <3>3. turn[t] \in TurnRecords /\ (turn[t].tool => turn[t].round < MaxToolRounds)
      BY DEF TurnOK
    <3>4. r \in TurnRecords
      BY <3>3 DEF TurnRecords
    <3>5. r.tool => r.round < MaxToolRounds
      BY <3>3 DEF TurnRecords
    <3> QED
      BY <3>2, <3>4, <3>5, TurnReplaced
  <2> QED
    BY <1>19, <2>1, <2>2 DEF PassAnswered, LiveOnes
<1>20. ASSUME NEW t \in Threads,
             NEW answers \in BOOLEAN, NEW tool \in BOOLEAN, PassEnds(t, answers, tool) PROVE TurnOK'
  <2> DEFINE r == [turn[t] EXCEPT !.by = None, !.cut = "no", !.tool = tool]
  <2>1. turn' = [turn EXCEPT ![t] = r]
    BY <1>20 DEF PassEnds, TurnOK
  <2>2. turn[t] \in TurnRecords /\ (tool => turn[t].round < MaxToolRounds)
    BY <1>20 DEF PassEnds, TurnOK
  <2>3. r \in TurnRecords
    BY <2>2 DEF TurnRecords
  <2>4. r.tool => r.round < MaxToolRounds
    BY <2>2 DEF TurnRecords
  <2> QED
    BY <2>1, <2>3, <2>4, TurnReplaced
<1>21. ASSUME NEW t \in Threads, PassClose(t) PROVE TurnOK'
  <2> DEFINE n == IF turn[t].tool THEN turn[t].round + 1 ELSE turn[t].round
             r == [turn[t] EXCEPT !.tool = FALSE, !.round = n]
  <2>1. turn' = [turn EXCEPT ![t] = r]
    BY <1>21 DEF PassClose, TurnOK
  <2>2. turn[t] \in TurnRecords /\ (turn[t].tool => turn[t].round < MaxToolRounds)
    BY DEF TurnOK
  <2>3. n \in 0 .. MaxToolRounds
    BY <2>2, ValuesAssumption DEF TurnRecords
  <2> HIDE DEF n
  <2>4. r \in TurnRecords /\ ~r.tool
    BY <2>2, <2>3 DEF TurnRecords
  <2> QED
    BY <2>1, <2>4, TurnReplaced
<1>22. ASSUME NEW t \in Threads, ChatFinish(t) PROVE TurnOK'
  BY <1>22, NoTurnIsTurn, TurnReplaced DEF ChatFinish
<1>23. ASSUME NEW t \in Threads, CompactStart(t) PROVE TurnOK'
  BY <1>23 DEF CompactStart, TurnOK
<1>24. ASSUME NEW t \in Threads, CompactLoad(t) PROVE TurnOK'
  <2> DEFINE r == [turn[t] EXCEPT !.of = backend]
  <2>1. turn' = [turn EXCEPT ![t] = r]
    BY <1>24 DEF CompactLoad, TurnOK
  <2>2. turn[t] \in TurnRecords /\ (turn[t].tool => turn[t].round < MaxToolRounds)
    BY DEF TurnOK
  <2>3. r \in TurnRecords
    BY <2>2, ValuesAssumption DEF TurnRecords, PlacesOK
  <2>4. r.tool => r.round < MaxToolRounds
    BY <2>2 DEF TurnRecords
  <2> QED
    BY <2>1, <2>3, <2>4, TurnReplaced
<1>25. ASSUME NEW t \in Threads, CompactSummarise(t) PROVE TurnOK'
  BY <1>25 DEF CompactSummarise, TurnOK
<1>26. ASSUME NEW t \in Threads, CompactSave(t) PROVE TurnOK'
  BY <1>26 DEF CompactSave, TurnOK
<1>27. ASSUME NEW t \in Threads, ProxyOpen(t) PROVE TurnOK'
  BY <1>27 DEF ProxyOpen, TurnOK
<1>28. ASSUME NEW t \in Threads, ProxyClose(t) PROVE TurnOK'
  BY <1>28 DEF ProxyClose, TurnOK
<1>29. ASSUME NEW t \in Threads, CancelLook(t) PROVE TurnOK'
  BY <1>29 DEF CancelLook, TurnOK
<1>30. ASSUME NEW t \in Threads, CancelEngine(t) PROVE TurnOK'
  BY <1>30 DEF CancelEngine, TurnOK
<1>31. ASSUME NEW t \in Threads, CancelClose(t) PROVE TurnOK'
  <2> DEFINE r(u) == Cut(want[t])[u]
  <2>1. turn' = [u \in Threads |-> r(u)]
    BY <1>31 DEF CancelClose, Cut
  <2>2. \A u \in Threads : r(u) \in TurnRecords /\ r(u).tool = turn[u].tool /\ r(u).round = turn[u].round
    <3>1. TAKE u \in Threads
    <3>2. turn[u] \in TurnRecords
      BY DEF TurnOK
    <3>3. r(u) = turn[u] \/ r(u) = [turn[u] EXCEPT !.cut = CutBy(want[t])]
      BY DEF Cut
    <3>4. CutBy(want[t]) \in {"closed", "restarting"}
      BY DEF CutBy
    <3> HIDE DEF r
    <3>5. r(u) \in TurnRecords
      BY <3>2, <3>3, <3>4 DEF TurnRecords
    <3>6. r(u).tool = turn[u].tool /\ r(u).round = turn[u].round
      BY <3>2, <3>3 DEF TurnRecords
    <3> QED
      BY <3>5, <3>6
  <2> HIDE DEF r
  <2> QED
    BY <2>1, <2>2 DEF TurnOK
<1>32. ASSUME NEW t \in Threads, CancelRaises(t) PROVE TurnOK'
  BY <1>32 DEF CancelRaises, TurnOK
<1>33. ASSUME NEW c \in Children, ChildEnds(c) PROVE TurnOK'
  BY <1>33 DEF ChildEnds, TurnOK, threads
<1>34. ASSUME UNCHANGED vars PROVE TurnOK'
  BY <1>34 DEF vars, TurnOK, threads
<1>35. ASSUME NEW a \in Actors, Stops(a) PROVE TurnOK'
  BY ONLY <1>35, <1>1, <1>2, <1>3 DEF Stops
<1>36. ASSUME NEW t \in Threads, Request(t) PROVE TurnOK'
  BY ONLY <1>36, <1>4, <1>6, <1>8, <1>10, <1>15, <1>23, <1>27, <1>29 DEF Request, Select
<1>37. ASSUME NEW t \in Threads, Turns(t) PROVE TurnOK'
  BY ONLY <1>37, <1>16, <1>17, <1>18, <1>19, <1>21, <1>22, <1>24, <1>25, <1>26, <1>28 DEF Turns
<1>38. ASSUME NEW t \in Threads, PassRead(t) PROVE TurnOK'
  BY ONLY <1>38, <1>20 DEF PassRead
<1>39. ASSUME NEW t \in Threads, Cancels(t) PROVE TurnOK'
  BY ONLY <1>39, <1>31, <1>32, <1>30 DEF Cancels
<1> QED
  BY ONLY [Next]_vars, <1>35, <1>36, <1>37, <1>38, <1>39,
     <1>5, <1>7, <1>11, <1>9, <1>12, <1>13, <1>14, <1>33, <1>34 DEF Next

\* Every variable keeps its type, for any threads, models, children and number of them.
THEOREM TypeCorrect == Spec => []TypeOK
<1>1. Init => TypeOK
  <2> SUFFICES ASSUME Init PROVE TypeOK
    OBVIOUS
  <2>1. PlacesOK
    BY ValuesAssumption DEF Init, PlacesOK, Places
  <2>2. WantOK
    BY DEF Init, WantOK, Actors
  <2>3. TurnOK
    BY NoTurnIsTurn DEF Init, TurnOK
  <2> QED
    BY <2>1, <2>2, <2>3 DEF TypeOK
<1>2. TypeOK /\ [Next]_vars => TypeOK'
  BY PlacesStep, WantStep, TurnStep DEF TypeOK
<1> QED
  BY <1>1, <1>2, PTL DEF Spec

-----------------------------------------------------------------------------
(* Who is in a lifecycle operation.                                        *)

\* The elements of a finite set of at most one are equal, and conversely.
LEMMA AtMostOne ==
    ASSUME NEW S, IsFiniteSet(S)
    PROVE  (\A x, y \in S : x = y) <=> Cardinality(S) <= 1
<1>1. ASSUME NEW x \in S, NEW y \in S, x # y PROVE Cardinality(S) > 1
  <2>1. /\ IsFiniteSet(S \ {x}) /\ Cardinality(S \ {x}) = Cardinality(S) - 1
        /\ Cardinality(S) \in Nat
    BY FS_RemoveElement, FS_CardinalityType
  <2>2. S \ {x} # {}
    BY <1>1
  <2>3. Cardinality(S \ {x}) \in Nat /\ Cardinality(S \ {x}) # 0
    BY <2>1, <2>2, FS_CardinalityType, FS_EmptySet
  <2> QED
    BY <2>1, <2>3
<1>2. ASSUME \A x, y \in S : x = y PROVE Cardinality(S) <= 1
  <2>1. CASE S = {}
    BY <2>1, FS_EmptySet
  <2>2. CASE S # {}
    <3>1. PICK x \in S : TRUE
      BY <2>2
    <3>2. S = {x}
      BY <1>2, <3>1
    <3> QED
      BY <3>2, FS_Singleton
  <2> QED
    BY <2>1, <2>2
<1>3. Cardinality(S) \in Nat
  BY FS_CardinalityType
<1> QED
  BY <1>1, <1>2, <1>3

LEMMA ActorsFinite == IsFiniteSet(Actors)
<1>1. IsFiniteSet(Threads \cup Helpers)
  BY ActorsAssumption, FS_Union
<1> QED
  BY <1>1, FS_AddElement DEF Actors

\* Without a race, a step that moves one thread leaves one of them busy at most.
LEMMA OneBusy ==
    ASSUME NEW a, NEW where, Goto(a, where), ~raced'
    PROVE  ~raced /\ \A b, c \in Busy(pc') : b = c
<1>1. ~raced /\ ~(Cardinality(Busy(pc')) > 1)
  BY DEF Goto, Busy
<1>2. IsFiniteSet(Busy(pc'))
  BY ActorsFinite, FS_Subset DEF Busy
<1> QED
  BY <1>1, <1>2, AtMostOne, FS_CardinalityType

\* What the steps outside stop(), start() and the setting of the model leave alone.
Elsewhere ==
    /\ UNCHANGED <<process, backend, child, held, up>>
    /\ \A a \in Actors : pc'[a] # pc[a] => /\ pc[a] \notin Lifecycle /\ pc[a] # "ended"
                                           /\ pc'[a] \notin Lifecycle \ {"stop", "start"}
    /\ ~raced' => ~raced
    /\ (~raced' /\ \A b, c \in Busy(pc) : b = c) => \A b, c \in Busy(pc') : b = c

\* The steps of stop(), start() and the setting of the model, and the ends of processes.
Changes ==
    \/ \E a \in Actors : Stops(a)
    \/ \E t \in Threads : SelectSet(t)
    \/ MainExits
    \/ \E c \in Children : ChildEnds(c)

\* No other step touches a child, or what a thread in a lifecycle operation has found.
LEMMA ChangesElsewhere ==
    ASSUME TypeOK, [Next]_vars
    PROVE  Changes \/ Elsewhere
<1> USE DEF TypeOK, Actors
<1>1. ASSUME NEW t \in Threads, NEW b \in Backends,
             pc[t] \in {"idle", "completed"}, SelectCheck(t, b) PROVE Elsewhere
  BY <1>1, OneBusy DEF SelectCheck, Elsewhere, PlacesOK, Goto, Lifecycle, sup
<1>2. ASSUME NEW t \in Threads, NEW b \in Backends, DownloadCompleted(t, b) PROVE Elsewhere
  BY <1>2, OneBusy DEF DownloadCompleted, Elsewhere, PlacesOK, Goto, Lifecycle, sup
<1>3. ASSUME NEW t \in Threads, DownloadSelects(t) PROVE Elsewhere
  BY <1>3, OneBusy DEF DownloadSelects, Elsewhere, PlacesOK, Goto, Lifecycle, SelectCheck, sup
<1>4. ASSUME NEW t \in Threads, RestartForContext(t) PROVE Elsewhere
  BY <1>4, OneBusy DEF RestartForContext, Elsewhere, PlacesOK, Goto, Lifecycle, sup
<1>5. ASSUME NEW h \in Helpers, HelperRestart(h) PROVE Elsewhere
  BY <1>5, OneBusy DEF HelperRestart, Elsewhere, PlacesOK, Goto, Lifecycle, sup
<1>6. ASSUME NEW t \in Threads, ShutdownAll(t) PROVE Elsewhere
  BY <1>6, OneBusy DEF ShutdownAll, Elsewhere, PlacesOK, Goto, Lifecycle
<1>7. ASSUME NEW t \in Threads, ServerShutdown(t) PROVE Elsewhere
  BY <1>7, OneBusy DEF ServerShutdown, Elsewhere, PlacesOK, Goto, Lifecycle, sup
<1>8. ASSUME Terminate PROVE Elsewhere
  BY <1>8 DEF Terminate, Elsewhere, Busy, sup, threads
<1>9. ASSUME MainStops PROVE Elsewhere
  BY <1>9, OneBusy DEF MainStops, Elsewhere, PlacesOK, Goto, Lifecycle, sup
<1>10. ASSUME NEW t \in Threads, ChatAsk(t) PROVE Elsewhere
  BY <1>10, OneBusy DEF ChatAsk, Elsewhere, PlacesOK, Goto, Lifecycle, sup
<1>11. ASSUME NEW t \in Threads, ChatAdmit(t) PROVE Elsewhere
  BY <1>11, OneBusy DEF ChatAdmit, Elsewhere, PlacesOK, Goto, Lifecycle
<1>12. ASSUME NEW t \in Threads, ChatPrepare(t) PROVE Elsewhere
  BY <1>12, OneBusy DEF ChatPrepare, Elsewhere, PlacesOK, Goto, Lifecycle, Failed, sup
<1>13. ASSUME NEW t \in Threads, PassOpen(t) PROVE Elsewhere
  BY <1>13, OneBusy DEF PassOpen, Elsewhere, PlacesOK, Goto, Lifecycle
<1>14. ASSUME NEW t \in Threads, PassAnswered(t) PROVE Elsewhere
  BY <1>14, OneBusy DEF PassAnswered, Elsewhere, PlacesOK, Goto, Lifecycle, Failed, sup
<1>15. ASSUME NEW t \in Threads,
             NEW answers \in BOOLEAN, NEW tool \in BOOLEAN, PassEnds(t, answers, tool) PROVE Elsewhere
  BY <1>15, OneBusy DEF PassEnds, Elsewhere, PlacesOK, Goto, Lifecycle, sup
<1>16. ASSUME NEW t \in Threads, PassClose(t) PROVE Elsewhere
  BY <1>16, OneBusy DEF PassClose, Elsewhere, PlacesOK, Goto, Lifecycle
<1>17. ASSUME NEW t \in Threads, ChatFinish(t) PROVE Elsewhere
  BY <1>17, OneBusy DEF ChatFinish, Elsewhere, PlacesOK, Goto, Lifecycle
<1>18. ASSUME NEW t \in Threads, CompactStart(t) PROVE Elsewhere
  BY <1>18, OneBusy DEF CompactStart, Elsewhere, PlacesOK, Goto, Lifecycle
<1>19. ASSUME NEW t \in Threads, CompactLoad(t) PROVE Elsewhere
  BY <1>19, OneBusy DEF CompactLoad, Elsewhere, PlacesOK, Goto, Lifecycle, sup
<1>20. ASSUME NEW t \in Threads, CompactSummarise(t) PROVE Elsewhere
  BY <1>20, OneBusy DEF CompactSummarise, Elsewhere, PlacesOK, Goto, Lifecycle, Failed, sup
<1>21. ASSUME NEW t \in Threads, CompactSave(t) PROVE Elsewhere
  BY <1>21, OneBusy DEF CompactSave, Elsewhere, PlacesOK, Goto, Lifecycle, sup
<1>22. ASSUME NEW t \in Threads, ProxyOpen(t) PROVE Elsewhere
  BY <1>22, OneBusy DEF ProxyOpen, Elsewhere, PlacesOK, Goto, Lifecycle
<1>23. ASSUME NEW t \in Threads, ProxyClose(t) PROVE Elsewhere
  BY <1>23, OneBusy DEF ProxyClose, Elsewhere, PlacesOK, Goto, Lifecycle
<1>24. ASSUME NEW t \in Threads, CancelLook(t) PROVE Elsewhere
  BY <1>24, OneBusy DEF CancelLook, Elsewhere, PlacesOK, Goto, Lifecycle, sup
<1>25. ASSUME NEW t \in Threads, CancelEngine(t) PROVE Elsewhere
  BY <1>25, OneBusy DEF CancelEngine, Elsewhere, PlacesOK, Goto, Lifecycle, CancelOver, sup
<1>26. ASSUME NEW t \in Threads, CancelClose(t) PROVE Elsewhere
  <2>1. CASE Goto(t, "done")
    BY <1>26, <2>1, OneBusy DEF CancelClose, CancelOver, Elsewhere, PlacesOK, Goto, Lifecycle, sup
  <2>2. CASE ~Goto(t, "done")
    <3>1. PICK h \in Helpers : /\ pc[h] = "idle"
                               /\ pc' = [pc EXCEPT ![t] = "done", ![h] = "stop"]
                               /\ raced' = (raced \/ Busy(pc) # {})
      BY <1>26, <2>2 DEF CancelClose
    <3>2. ~raced' => ~raced /\ \A b \in Busy(pc') : b = h
      BY <3>1 DEF Busy, PlacesOK, Lifecycle
    <3> QED
      BY <1>26, <3>1, <3>2 DEF CancelClose, CancelOver, Elsewhere, PlacesOK, Lifecycle, sup
  <2> QED
    BY <2>1, <2>2
<1>27. ASSUME NEW t \in Threads, CancelRaises(t) PROVE Elsewhere
  BY <1>27, OneBusy DEF CancelRaises, Elsewhere, PlacesOK, Goto, Lifecycle, CancelOver, sup
<1>28. ASSUME UNCHANGED vars PROVE Elsewhere
  BY <1>28 DEF vars, Elsewhere, Busy, sup, threads
<1>29. ASSUME NEW t \in Threads, Request(t) PROVE Changes \/ Elsewhere
  BY ONLY <1>29, <1>1, <1>2, <1>4, <1>6, <1>10, <1>18, <1>22, <1>24 DEF Request, Select
<1>30. ASSUME NEW t \in Threads, Turns(t) PROVE Changes \/ Elsewhere
  BY ONLY <1>30, <1>11, <1>12, <1>13, <1>14, <1>16, <1>17, <1>19, <1>20, <1>21, <1>23 DEF Turns, Changes
<1>31. ASSUME NEW t \in Threads, PassRead(t) PROVE Changes \/ Elsewhere
  BY ONLY <1>31, <1>15 DEF PassRead
<1>32. ASSUME NEW t \in Threads, Cancels(t) PROVE Changes \/ Elsewhere
  BY ONLY <1>32, <1>26, <1>27, <1>25 DEF Cancels
<1> QED
  BY ONLY [Next]_vars, <1>29, <1>30, <1>31, <1>32,
     <1>3, <1>7, <1>5, <1>8, <1>9, <1>28 DEF Next, Changes

-----------------------------------------------------------------------------
(* No child is forgotten.                                                  *)

\* A step that leaves the children, and the threads that wait for one, alone.
LEMMA ElsewhereAccounts ==
    ASSUME TypeOK, ChildrenAccounted, Elsewhere
    PROVE  ChildrenAccounted'
  BY DEF TypeOK, PlacesOK, ChildrenAccounted, Elsewhere, LiveOnes, Live, Lifecycle

\* Every child process that runs can be reached by a request, or is waited for: start() replaces
\* no running child, and what stop() takes from the supervisor it keeps until it has ended.
THEOREM NoChildForgotten == Spec => []ChildrenAccounted
<1>1. Init => ChildrenAccounted
  BY DEF Init, ChildrenAccounted, LiveOnes, Live
<1>2. ASSUME TypeOK, ChildrenAccounted, [Next]_vars PROVE ChildrenAccounted'
  <2> USE DEF TypeOK, PlacesOK
  <2>1. ASSUME NEW a \in Actors, StopTake(a) PROVE ChildrenAccounted'
    <3>1. UNCHANGED <<child, up>> /\ process' = None
          /\ \A b \in Actors : pc[b] = "wait" => pc'[b] = "wait" /\ held'[b] = held[b]
      BY <1>2, <2>1 DEF StopTake, Goto
    <3>2. Live(process) => held'[a] = process /\ pc'[a] = "wait"
      BY <1>2, <2>1 DEF StopTake, Goto
    <3> QED
      BY <1>2, <3>1, <3>2 DEF ChildrenAccounted, LiveOnes, Live
  <2>2. ASSUME NEW a \in Actors, StopWait(a) PROVE ChildrenAccounted'
    <3>1. /\ UNCHANGED <<process, up>> /\ child' = [child EXCEPT ![held[a]] = None]
          /\ \A b \in Actors : pc[b] = "wait" /\ b # a => pc'[b] = "wait" /\ held'[b] = held[b]
      BY <1>2, <2>2 DEF StopWait, AfterWait, Goto, sup
    <3> QED
      BY <1>2, <3>1 DEF ChildrenAccounted, LiveOnes, Live
  <2>3. ASSUME NEW a \in Actors, StartChild(a) PROVE ChildrenAccounted'
    <3>1. UNCHANGED <<held, up>> /\ \A b \in Actors : pc[b] = "wait" => pc'[b] = "wait"
      BY <1>2, <2>3 DEF StartChild, Goto
    <3>2. CASE ~Live(process) /\ process' = NewChild /\ child' = [child EXCEPT ![NewChild] = backend]
      BY <1>2, <3>1, <3>2 DEF ChildrenAccounted, LiveOnes, Live
    <3>3. CASE UNCHANGED <<process, child>>
      BY <1>2, <3>1, <3>3 DEF ChildrenAccounted, LiveOnes, Live
    <3> QED
      BY <2>3, <3>2, <3>3 DEF StartChild, MayStart
  <2>4. ASSUME NEW t \in Threads, SelectSet(t) PROVE ChildrenAccounted'
    BY <1>2, <2>4 DEF SelectSet, Goto, ChildrenAccounted, LiveOnes, Live
  <2>5. ASSUME MainExits PROVE ChildrenAccounted'
    BY <2>5 DEF MainExits, ChildrenAccounted
  <2>6. ASSUME NEW c \in Children, ChildEnds(c) PROVE ChildrenAccounted'
    BY <1>2, <2>6 DEF ChildEnds, ChildrenAccounted, LiveOnes, Live, sup, threads
  <2>7. ASSUME Elsewhere PROVE ChildrenAccounted'
    BY <1>2, <2>7, ElsewhereAccounts
  <2> QED
    BY <1>2, <2>1, <2>2, <2>3, <2>4, <2>5, <2>6, <2>7, ChangesElsewhere DEF Changes, Stops
<1> QED
  BY <1>1, <1>2, TypeCorrect, PTL DEF Spec

-----------------------------------------------------------------------------
(* One operation at a time keeps one model.                                *)

LEMMA LiveInChildren ==
    ASSUME PlacesOK
    PROVE  /\ LiveOnes \in SUBSET Children
           /\ Live(process) => process \in LiveOnes
           /\ \A c \in LiveOnes : Live(c) /\ c # None
  BY DEF PlacesOK, LiveOnes, Live

\* The inductive invariant implies what the runs check.
LEMMA OneAtATimeImplies ==
    ASSUME TypeOK, ChildrenAccounted, OneAtATime
    PROVE  OneOperationOneModel
<1> SUFFICES ASSUME ~raced PROVE /\ Cardinality(LiveOnes) <= 1
                                 /\ Busy(pc) = {} /\ Live(process) => child[process] = backend
                                 /\ ~up => LiveOnes = {}
  BY DEF OneOperationOneModel
<1>1. \A c, d \in LiveOnes : c = d
  <2> SUFFICES ASSUME NEW c \in LiveOnes, NEW d \in LiveOnes PROVE c = d
    OBVIOUS
  <2>1. up
    BY DEF OneAtATime
  <2>2. CASE \E a \in Actors : pc[a] = "wait"
    <3>1. PICK a \in Actors : pc[a] = "wait"
      BY <2>2
    <3>2. \A b \in Actors : pc[b] = "wait" => b = a
      BY <3>1 DEF OneAtATime, Busy, Lifecycle
    <3>3. ~Live(process)
      BY <2>2 DEF OneAtATime
    <3> QED
      BY <2>1, <3>2, <3>3 DEF ChildrenAccounted, LiveOnes
  <2>3. CASE ~ \E a \in Actors : pc[a] = "wait"
    BY <2>1, <2>3 DEF ChildrenAccounted
  <2> QED
    BY <2>2, <2>3
<1>2. Cardinality(LiveOnes) <= 1
  <2>1. CASE LiveOnes = {}
    BY <2>1, FS_EmptySet
  <2>2. CASE LiveOnes # {}
    <3>1. PICK c \in LiveOnes : TRUE
      BY <2>2
    <3>2. LiveOnes = {c}
      BY <1>1, <3>1
    <3>3. Cardinality({c}) = 1
      BY FS_Singleton
    <3> QED
      BY ONLY <3>2, <3>3
  <2> QED
    BY <2>1, <2>2
<1> QED
  BY <1>2 DEF OneAtATime

\* A thread that alone is in a lifecycle operation, and not waiting, finds no other child.
LEMMA AloneNothingElse ==
    ASSUME TypeOK, ChildrenAccounted, OneAtATime, ~raced, up,
           NEW a \in Actors, pc[a] \in Lifecycle \ {"wait"}
    PROVE  \A c \in LiveOnes : c = process
<1>1. \A b \in Actors : pc[b] # "wait"
  BY DEF OneAtATime, Busy, Lifecycle
<1> QED
  BY <1>1 DEF ChildrenAccounted

LEMMA OneAtATimeStep ==
    ASSUME TypeOK, ChildrenAccounted, OneAtATime, [Next]_vars
    PROVE  OneAtATime'
<1> SUFFICES ASSUME ~raced' PROVE OneAtATime'
  BY DEF OneAtATime
<1> USE DEF TypeOK, PlacesOK
<1>1. ASSUME NEW a \in Actors, StopTake(a) PROVE OneAtATime'
  <2>1. ~raced /\ up /\ \A b, c \in Busy(pc') : b = c
    BY <1>1, OneBusy DEF StopTake
  <2>2. /\ process' = None /\ child' = child /\ up' = up
        /\ \A b \in Actors : b # a => pc'[b] = pc[b]
    BY <1>1 DEF StopTake, Goto
  <2>3. \A b \in Actors : pc[b] \in Lifecycle => b = a
    BY <1>1, <2>1 DEF StopTake, OneAtATime, Busy, Lifecycle
  <2>4. pc'[a] \in {"set", "exit"} => LiveOnes = {}
    <3>1. \A c \in LiveOnes : c = process
      BY <1>1, <2>1, AloneNothingElse DEF StopTake, Lifecycle
    <3>2. Live(process) => pc'[a] = "wait"
      BY <1>1 DEF StopTake, Goto
    <3> QED
      BY <3>1, <3>2 DEF LiveOnes
  <2>5. LiveOnes' = LiveOnes /\ ~Live(process)'
    BY <2>2 DEF LiveOnes, Live
  <2>6. \A b \in Actors : pc'[b] \in {"set", "exit"} => b = a
    BY <2>2, <2>3 DEF Lifecycle
  <2> QED
    BY <2>1, <2>2, <2>4, <2>5, <2>6 DEF OneAtATime
<1>2. ASSUME NEW a \in Actors, StopWait(a) PROVE OneAtATime'
  <2>1. ~raced /\ up /\ \A b, c \in Busy(pc') : b = c
    BY <1>2, OneBusy DEF StopWait
  <2>2. /\ process' = process /\ backend' = backend /\ child' = [child EXCEPT ![held[a]] = None] /\ up' = up
    BY <1>2 DEF StopWait, AfterWait, sup
  <2>3. ~Live(process)
    BY <1>2, <2>1 DEF StopWait, OneAtATime
  <2>4. \A b \in Actors : pc[b] = "wait" => b = a
    BY <1>2, <2>1 DEF StopWait, OneAtATime, Busy, Lifecycle
  <2>5. LiveOnes' = {}
    BY <2>1, <2>2, <2>3, <2>4 DEF ChildrenAccounted, LiveOnes, Live
  <2>6. ~Live(process)'
    BY <2>2, <2>3 DEF Live
  <2> QED
    BY <2>1, <2>2, <2>5, <2>6 DEF OneAtATime
<1>3. ASSUME NEW a \in Actors, StartChild(a) PROVE OneAtATime'
  <2>1. ~raced /\ up /\ \A b, c \in Busy(pc') : b = c
    BY <1>3, OneBusy DEF StartChild
  <2>2. /\ backend' = backend /\ up' = up
        /\ pc' = [pc EXCEPT ![a] = IF a \in Threads THEN "done" ELSE "idle"]
    BY <1>3 DEF StartChild, Goto
  <2>3. \A b \in Actors : pc[b] \in Lifecycle => b = a
    BY <1>3, <2>1 DEF StartChild, OneAtATime, Busy, Lifecycle
  <2>4. \A b \in Actors : pc'[b] \notin Lifecycle
    BY <2>2, <2>3 DEF Lifecycle
  <2>5. CASE UNCHANGED <<process, child>>
    BY <2>1, <2>2, <2>4, <2>5 DEF OneAtATime, Lifecycle, LiveOnes, Live
  <2>6. CASE Spare # {} /\ process' = NewChild /\ child' = [child EXCEPT ![NewChild] = backend]
    <3>1. NewChild \in Children
      BY <2>6, NewChildIsSpare DEF Spare
    <3>2. child'[process'] = backend'
      BY <2>2, <2>6, <3>1
    <3> QED
      BY <2>1, <2>2, <2>4, <3>2 DEF OneAtATime, Lifecycle
  <2> QED
    BY <1>3, <2>5, <2>6 DEF StartChild
<1>4. ASSUME NEW t \in Threads, SelectSet(t) PROVE OneAtATime'
  <2>1. ~raced /\ up /\ \A b, c \in Busy(pc') : b = c
    BY <1>4, OneBusy DEF SelectSet, Actors
  <2>2. /\ UNCHANGED <<process, child, up>>
        /\ pc' = [pc EXCEPT ![t] = "start"]
    BY <1>4 DEF SelectSet, Goto
  <2>3. LiveOnes = {}
    BY <1>4, <2>1 DEF SelectSet, OneAtATime, Actors
  <2>4. LiveOnes' = {} /\ ~Live(process)'
    BY <2>2, <2>3 DEF LiveOnes, Live
  <2> QED
    BY <2>1, <2>2, <2>4 DEF OneAtATime
<1>5. ASSUME MainExits PROVE OneAtATime'
  <2>1. /\ UNCHANGED <<process, backend, child, raced>> /\ up' = FALSE
        /\ \A a \in Actors : pc'[a] = "ended"
    BY <1>5 DEF MainExits, sup
  <2>2. LiveOnes = {}
    BY <1>5, <2>1 DEF MainExits, OneAtATime, Actors
  <2>3. LiveOnes' = {} /\ ~Live(process)' /\ Busy(pc') = {}
    BY <2>1, <2>2 DEF LiveOnes, Live, Busy, Lifecycle
  <2> QED
    BY <2>1, <2>3 DEF OneAtATime
<1>6. ASSUME NEW c \in Children, ChildEnds(c) PROVE OneAtATime'
  <2>1. /\ UNCHANGED <<process, backend, pc, raced, up>> /\ child' = [child EXCEPT ![c] = None]
    BY <1>6 DEF ChildEnds, sup, threads
  <2>2. LiveOnes' \subseteq LiveOnes /\ (Live(process)' => Live(process) /\ process # c)
    BY <2>1 DEF LiveOnes, Live
  <2>3. Busy(pc') = Busy(pc)
    BY <2>1
  <2> QED
    BY <2>1, <2>2, <2>3 DEF OneAtATime
<1>7. ASSUME Elsewhere PROVE OneAtATime'
  <2>1. ~raced /\ UNCHANGED <<process, backend, child, up, LiveOnes, Live(process)>>
    BY <1>7 DEF Elsewhere, LiveOnes, Live
  <2>2. \A b, c \in Busy(pc') : b = c
    BY <1>7, <2>1 DEF Elsewhere, OneAtATime
  <2>3. \A a \in Actors : pc'[a] \in {"wait", "set", "exit"} => pc'[a] = pc[a]
    BY <1>7 DEF Elsewhere, Lifecycle
  <2> QED
    BY <2>1, <2>2, <2>3 DEF OneAtATime
<1> QED
  BY <1>1, <1>2, <1>3, <1>4, <1>5, <1>6, <1>7, ChangesElsewhere DEF Changes, Stops

\* As long as no two lifecycle operations meet, one model at most is in memory, it is the one
\* that is selected once the operation is over, and none outlives the gateway.
THEOREM OneModel == Spec => []OneOperationOneModel
<1>1. Init => OneAtATime
  BY ValuesAssumption DEF Init, OneAtATime, Busy, Lifecycle, Live
<1>2. TypeOK /\ ChildrenAccounted /\ OneAtATime /\ [Next]_vars => OneAtATime'
  BY OneAtATimeStep
<1>3. TypeOK /\ ChildrenAccounted /\ OneAtATime => OneOperationOneModel
  BY OneAtATimeImplies
<1> QED
  BY <1>1, <1>2, <1>3, TypeCorrect, NoChildForgotten, PTL DEF Spec

-----------------------------------------------------------------------------
(* The flag that is given back.                                            *)

\* The flag is only taken by a thread that begins a turn, and no thread is put out of its turn.
TurnsKept ==
    /\ up' => up
    /\ generating' => generating \/ \E t \in Threads : pc'[t] \in TurnPlaces
    /\ \A t \in Threads : pc[t] \in TurnPlaces => pc'[t] \in TurnPlaces

\* Only the end of a turn, and that of the gateway, put a thread out of its turn.
LEMMA FlagSteps ==
    ASSUME TypeOK, [Next]_vars
    PROVE  (\E t \in Threads : ChatFinish(t)) \/ MainExits \/ TurnsKept
<1> USE DEF TypeOK, Actors
<1>1. ASSUME NEW a \in Actors, StopTake(a) PROVE TurnsKept
  BY <1>1 DEF StopTake, TurnsKept, PlacesOK, Goto, TurnPlaces, Lifecycle
<1>2. ASSUME NEW a \in Actors, StopWait(a) PROVE TurnsKept
  BY <1>2 DEF StopWait, TurnsKept, PlacesOK, Goto, TurnPlaces, Lifecycle, sup
<1>3. ASSUME NEW a \in Actors, StartChild(a) PROVE TurnsKept
  BY <1>3 DEF StartChild, TurnsKept, PlacesOK, Goto, TurnPlaces, Lifecycle
<1>4. ASSUME NEW t \in Threads, NEW b \in Backends,
             pc[t] \in {"idle", "completed"}, SelectCheck(t, b) PROVE TurnsKept
  BY <1>4 DEF SelectCheck, TurnsKept, PlacesOK, Goto, TurnPlaces, sup
<1>5. ASSUME NEW t \in Threads, SelectSet(t) PROVE TurnsKept
  BY <1>5 DEF SelectSet, TurnsKept, PlacesOK, Goto, TurnPlaces, Lifecycle
<1>6. ASSUME NEW t \in Threads, NEW b \in Backends, DownloadCompleted(t, b) PROVE TurnsKept
  BY <1>6 DEF DownloadCompleted, TurnsKept, PlacesOK, Goto, TurnPlaces, sup
<1>7. ASSUME NEW t \in Threads, DownloadSelects(t) PROVE TurnsKept
  BY <1>7 DEF DownloadSelects, TurnsKept, PlacesOK, Goto, TurnPlaces, SelectCheck, sup
<1>8. ASSUME NEW t \in Threads, RestartForContext(t) PROVE TurnsKept
  BY <1>8 DEF RestartForContext, TurnsKept, PlacesOK, Goto, TurnPlaces, sup
<1>9. ASSUME NEW h \in Helpers, HelperRestart(h) PROVE TurnsKept
  BY <1>9 DEF HelperRestart, TurnsKept, PlacesOK, Goto, TurnPlaces, sup
<1>10. ASSUME NEW t \in Threads, ShutdownAll(t) PROVE TurnsKept
  BY <1>10 DEF ShutdownAll, TurnsKept, PlacesOK, Goto, TurnPlaces
<1>11. ASSUME NEW t \in Threads, ServerShutdown(t) PROVE TurnsKept
  BY <1>11 DEF ServerShutdown, TurnsKept, PlacesOK, Goto, TurnPlaces, sup
<1>12. ASSUME Terminate PROVE TurnsKept
  BY <1>12 DEF Terminate, TurnsKept, PlacesOK, Goto, TurnPlaces, sup, threads
<1>13. ASSUME MainStops PROVE TurnsKept
  BY <1>13 DEF MainStops, TurnsKept, PlacesOK, Goto, TurnPlaces, sup
<1>14. ASSUME NEW t \in Threads, ChatAsk(t) PROVE TurnsKept
  BY <1>14 DEF ChatAsk, TurnsKept, PlacesOK, Goto, TurnPlaces, sup
<1>15. ASSUME NEW t \in Threads, ChatAdmit(t) PROVE TurnsKept
  BY <1>15 DEF ChatAdmit, TurnsKept, PlacesOK, Goto, TurnPlaces
<1>16. ASSUME NEW t \in Threads, ChatPrepare(t) PROVE TurnsKept
  BY <1>16 DEF ChatPrepare, TurnsKept, PlacesOK, Goto, TurnPlaces, Failed, sup
<1>17. ASSUME NEW t \in Threads, PassOpen(t) PROVE TurnsKept
  BY <1>17 DEF PassOpen, TurnsKept, PlacesOK, Goto, TurnPlaces
<1>18. ASSUME NEW t \in Threads, PassAnswered(t) PROVE TurnsKept
  BY <1>18 DEF PassAnswered, TurnsKept, PlacesOK, Goto, TurnPlaces, Failed, sup
<1>19. ASSUME NEW t \in Threads,
             NEW answers \in BOOLEAN, NEW tool \in BOOLEAN, PassEnds(t, answers, tool) PROVE TurnsKept
  BY <1>19 DEF PassEnds, TurnsKept, PlacesOK, Goto, TurnPlaces, sup
<1>20. ASSUME NEW t \in Threads, PassClose(t) PROVE TurnsKept
  BY <1>20 DEF PassClose, TurnsKept, PlacesOK, Goto, TurnPlaces
<1>21. ASSUME NEW t \in Threads, CompactStart(t) PROVE TurnsKept
  BY <1>21 DEF CompactStart, TurnsKept, PlacesOK, Goto, TurnPlaces
<1>22. ASSUME NEW t \in Threads, CompactLoad(t) PROVE TurnsKept
  BY <1>22 DEF CompactLoad, TurnsKept, PlacesOK, Goto, TurnPlaces, sup
<1>23. ASSUME NEW t \in Threads, CompactSummarise(t) PROVE TurnsKept
  BY <1>23 DEF CompactSummarise, TurnsKept, PlacesOK, Goto, TurnPlaces, Failed, sup
<1>24. ASSUME NEW t \in Threads, CompactSave(t) PROVE TurnsKept
  BY <1>24 DEF CompactSave, TurnsKept, PlacesOK, Goto, TurnPlaces, sup
<1>25. ASSUME NEW t \in Threads, ProxyOpen(t) PROVE TurnsKept
  BY <1>25 DEF ProxyOpen, TurnsKept, PlacesOK, Goto, TurnPlaces
<1>26. ASSUME NEW t \in Threads, ProxyClose(t) PROVE TurnsKept
  BY <1>26 DEF ProxyClose, TurnsKept, PlacesOK, Goto, TurnPlaces
<1>27. ASSUME NEW t \in Threads, CancelLook(t) PROVE TurnsKept
  BY <1>27 DEF CancelLook, TurnsKept, PlacesOK, Goto, TurnPlaces, sup
<1>28. ASSUME NEW t \in Threads, CancelEngine(t) PROVE TurnsKept
  BY <1>28 DEF CancelEngine, TurnsKept, PlacesOK, Goto, TurnPlaces, CancelOver, sup
<1>29. ASSUME NEW t \in Threads, CancelClose(t) PROVE TurnsKept
  BY <1>29 DEF CancelClose, TurnsKept, PlacesOK, Goto, TurnPlaces, CancelOver, sup
<1>30. ASSUME NEW t \in Threads, CancelRaises(t) PROVE TurnsKept
  BY <1>30 DEF CancelRaises, TurnsKept, PlacesOK, Goto, TurnPlaces, CancelOver, sup
<1>31. ASSUME NEW c \in Children, ChildEnds(c) PROVE TurnsKept
  BY <1>31 DEF ChildEnds, TurnsKept, PlacesOK, Goto, TurnPlaces, sup, threads
<1>32. ASSUME UNCHANGED vars PROVE TurnsKept
  BY <1>32 DEF vars, TurnsKept, PlacesOK, Goto, TurnPlaces, sup, threads
<1>33. ASSUME NEW a \in Actors, Stops(a) PROVE (\E u \in Threads : ChatFinish(u)) \/ MainExits \/ TurnsKept
  BY ONLY <1>33, <1>1, <1>2, <1>3 DEF Stops
<1>34. ASSUME NEW t \in Threads, Request(t) PROVE (\E u \in Threads : ChatFinish(u)) \/ MainExits \/ TurnsKept
  BY ONLY <1>34, <1>4, <1>6, <1>8, <1>10, <1>14, <1>21, <1>25, <1>27 DEF Request, Select
<1>35. ASSUME NEW t \in Threads, Turns(t) PROVE (\E u \in Threads : ChatFinish(u)) \/ MainExits \/ TurnsKept
  BY ONLY <1>35, <1>15, <1>16, <1>17, <1>18, <1>20, <1>22, <1>23, <1>24, <1>26 DEF Turns
<1>36. ASSUME NEW t \in Threads, PassRead(t) PROVE (\E u \in Threads : ChatFinish(u)) \/ MainExits \/ TurnsKept
  BY ONLY <1>36, <1>19 DEF PassRead
<1>37. ASSUME NEW t \in Threads, Cancels(t) PROVE (\E u \in Threads : ChatFinish(u)) \/ MainExits \/ TurnsKept
  BY ONLY <1>37, <1>29, <1>30, <1>28 DEF Cancels
<1> QED
  BY ONLY [Next]_vars, <1>33, <1>34, <1>35, <1>36, <1>37,
     <1>5, <1>7, <1>11, <1>9, <1>12, <1>13, <1>31, <1>32 DEF Next

\* "another response is already generating" is only answered while a thread that will take the
\* flag back is in its turn.
THEOREM FlagReturns == Spec => []FlagHasItsTurn
<1>1. Init => FlagHasItsTurn
  BY DEF Init, FlagHasItsTurn
<1>2. ASSUME TypeOK, FlagHasItsTurn, [Next]_vars PROVE FlagHasItsTurn'
  <2>1. ASSUME NEW t \in Threads, ChatFinish(t) PROVE FlagHasItsTurn'
    BY <2>1 DEF ChatFinish, FlagHasItsTurn
  <2>2. ASSUME MainExits PROVE FlagHasItsTurn'
    BY <2>2 DEF MainExits, FlagHasItsTurn
  <2>3. ASSUME TurnsKept PROVE FlagHasItsTurn'
    BY <1>2, <2>3 DEF TurnsKept, FlagHasItsTurn
  <2> QED
    BY <1>2, <2>1, <2>2, <2>3, FlagSteps
<1> QED
  BY <1>1, <1>2, TypeCorrect, PTL DEF Spec
=============================================================================
