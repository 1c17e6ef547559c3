---------------------------- MODULE RpaGui_proofs ----------------------------
(***************************************************************************)
(* Proofs about RpaGui, for any number of attempts, message boxes and      *)
(* failures, and whatever Tk has not handled yet.                          *)
(***************************************************************************)
EXTENDS RpaGui, SequenceTheorems, FiniteSetTheorems, TLAPS

Connects == {"CLICK_CONNECT", "SELECT_CONNECTION_MODE"}

\* the user waits for what was clicked, and there is an attempt left for it
OneClick ==
  /\ \A j, k \in DOMAIN events : events[j].name \in Clicks /\ events[k].name \in Clicks => j = k
  /\ \A k \in DOMAIN events : events[k].name \in Connects => attempt < MaxAttempts

IInv == TypeOK /\ OneClick /\ NeverBlocks

\* the states in which nothing is connected, nor being connected
Idle == {"INITIALISATION", "MAIN_SCREEN", "ALREADY_LOCKED"}

NobodyAsks == \A i \in Attempts : ~Asking(i)

\* A thread that is about to start a lock process is the latest one, and alone; in an
\* idle state there is none, and no process.
OneCalls ==
  ~overtaken =>
    /\ \A i \in Attempts : connect[i] = "call" => i = attempt /\ NobodyAsks /\ ui.state \notin Idle
    /\ ui.state \in Idle => NobodyAsks

-----------------------------------------------------------------------------
(***************************************************************************)
(* The events that take a message, counted.                                *)
(***************************************************************************)
Blocking(s) == {k \in DOMAIN s : TakesMessage(s[k].name)}

LEMMA BlockingFinite ==
  ASSUME NEW S, NEW s \in Seq(S)
  PROVE  IsFiniteSet(Blocking(s)) /\ Cardinality(Blocking(s)) \in Nat
  <1>1. IsFiniteSet(1 .. Len(s))
    BY FS_Interval, LenProperties
  <1>2. Blocking(s) \in SUBSET (1 .. Len(s))
    BY LenProperties DEF Blocking
  <1> QED
    BY <1>1, <1>2, FS_Subset, FS_CardinalityType

LEMMA BlockingAppend ==
  ASSUME NEW S, NEW s \in Seq(S), NEW e \in S
  PROVE  /\ TakesMessage(e.name) => Cardinality(Blocking(Append(s, e))) = Cardinality(Blocking(s)) + 1
         /\ ~TakesMessage(e.name) => Blocking(Append(s, e)) = Blocking(s)
  <1>1. /\ DOMAIN Append(s, e) = 1 .. Len(s) + 1 /\ DOMAIN s = 1 .. Len(s) /\ Len(s) \in Nat
        /\ \A k \in 1 .. Len(s) : Append(s, e)[k] = s[k]
        /\ Append(s, e)[Len(s) + 1] = e
    BY AppendProperties, LenProperties
  <1>2. Len(s) + 1 \notin Blocking(s)
    BY <1>1 DEF Blocking
  <1>3. ~TakesMessage(e.name) => Blocking(Append(s, e)) = Blocking(s)
    BY <1>1 DEF Blocking
  <1>4. TakesMessage(e.name) => Blocking(Append(s, e)) = Blocking(s) \cup {Len(s) + 1}
    BY <1>1 DEF Blocking
  <1> QED
    BY <1>2, <1>3, <1>4, BlockingFinite, FS_AddElement

LEMMA BlockingTail ==
  ASSUME NEW S, NEW s \in Seq(S), s # << >>
  PROVE  /\ Cardinality(Blocking(Tail(s))) <= Cardinality(Blocking(s))
         /\ TakesMessage(Head(s).name) => Cardinality(Blocking(Tail(s))) <= Cardinality(Blocking(s)) - 1
  <1>1. /\ Tail(s) \in Seq(S) /\ DOMAIN s = 1 .. Len(s) /\ Len(s) \in Nat /\ Len(s) > 0
        /\ DOMAIN Tail(s) = 1 .. Len(s) - 1 /\ Head(s) = s[1]
        /\ \A k \in 1 .. Len(s) - 1 : Tail(s)[k] = s[k + 1]
    BY HeadTailProperties, LenProperties, EmptySeq
  <1> DEFINE f == [k \in Blocking(Tail(s)) |-> k + 1]
             T == Blocking(s) \ {1}
  <1>2. f \in Injection(Blocking(Tail(s)), T)
    <2>1. \A k \in Blocking(Tail(s)) : k \in Nat /\ k + 1 \in T
      BY <1>1 DEF Blocking
    <2> QED
      BY <2>1 DEF Injection, IsInjective
  <1>3. IsFiniteSet(Blocking(s)) /\ Cardinality(Blocking(s)) \in Nat /\ Cardinality(Blocking(Tail(s))) \in Nat
    BY <1>1, BlockingFinite
  <1>4. /\ IsFiniteSet(T)
        /\ Cardinality(T) = IF 1 \in Blocking(s) THEN Cardinality(Blocking(s)) - 1 ELSE Cardinality(Blocking(s))
    BY <1>3, FS_RemoveElement
  <1>5. Cardinality(Blocking(Tail(s))) <= Cardinality(T)
    <2> HIDE DEF f, T
    <2> QED
      BY <1>2, <1>4, FS_Injection
  <1>6. TakesMessage(Head(s).name) <=> 1 \in Blocking(s)
    BY <1>1 DEF Blocking
  <1> QED
    BY <1>3, <1>4, <1>5, <1>6

-----------------------------------------------------------------------------
(***************************************************************************)
(* The types, by groups of variables that change together.                 *)
(***************************************************************************)
Screens  == [state : States, after : BOOLEAN, settings : BOOLEAN, header : BOOLEAN, cancel : BOOLEAN,
             frame : {"Initialisation", "NewConnection", "AlreadyLocked", "Progress", "Connected"}]
Events   == [name : Names, arg : {"", "own", "use"}]
Outcomes == [set : BOOLEAN, r : {"None", "Popen", "ASSIGNED", "WAITING", "REPLACE", "REFUSE", "BYE"}]
Webs     == [Attempts -> {"none", "start", "up", "killed", "done"}]

WindowTypes == ui \in Screens /\ locked_connect \in BOOLEAN
BoxTypes == boxes \in Seq({"MAIN_SCREEN", "SETTINGS"}) /\ Len(boxes) <= MaxBoxes /\ grab \in BOOLEAN
QueueTypes == events \in Seq(Events) /\ exc_queue \in Nat
RefreshTypes == refresh \in Results \cup {"query", "wait", "clear"} /\ failures \in 0 .. MaxFailures
SignalTypes == refresh_exc_processed \in BOOLEAN /\ stopped \in BOOLEAN
ThreadTypes == /\ attempt \in 0 .. MaxAttempts
               /\ connect \in [Attempts -> {"none", "call", "ask", "wait", "replaced", "done"}]
               /\ prepare \in [Attempts -> {"none", "pip", "started", "done"}]
WebTypes == web \in Webs /\ runner \in 0 .. MaxAttempts
LockTypes == /\ t_rpa \in 0 .. MaxAttempts /\ locked \in {"None", "True", "False"}
             /\ process \in [Attempts -> {"none", "asked", "waiting", "assigned", "over", "dead"}]
             /\ lock \in 0 .. Other /\ rpa_outcome \in Outcomes
PlaceTypes == p \in 0 .. MaxAttempts /\ place \in BOOLEAN
ClientTypes == rpa_main \in BOOLEAN /\ overtaken \in BOOLEAN /\ rpa_msg_queue \in Seq({"ASSIGNED", "WAITING"})

LEMMA TypeParts ==
  TypeOK <=> /\ WindowTypes /\ BoxTypes /\ QueueTypes /\ RefreshTypes /\ SignalTypes /\ ThreadTypes
             /\ WebTypes /\ LockTypes /\ PlaceTypes /\ ClientTypes
  BY DEF TypeOK, WindowTypes, BoxTypes, QueueTypes, RefreshTypes, SignalTypes, ThreadTypes,
         WebTypes, LockTypes, PlaceTypes, ClientTypes, Screens, Events, Outcomes, Webs

LEMMA TypePartsNext ==
  WindowTypes' /\ BoxTypes' /\ QueueTypes' /\ RefreshTypes' /\ SignalTypes' /\ ThreadTypes'
    /\ WebTypes' /\ LockTypes' /\ PlaceTypes' /\ ClientTypes'
  => TypeOK'
  BY DEF TypeOK, WindowTypes, BoxTypes, QueueTypes, RefreshTypes, SignalTypes, ThreadTypes,
         WebTypes, LockTypes, PlaceTypes, ClientTypes, Screens, Events, Outcomes, Webs

LEMMA Numbers ==
  /\ MaxAttempts \in Nat /\ MaxBoxes \in Nat /\ MaxFailures \in Nat /\ Backlog \in Nat
  /\ NoOne \in 0 .. MaxAttempts /\ NoOne \in 0 .. Other /\ Other \in 0 .. Other
  /\ \A i \in Attempts : i \in 0 .. MaxAttempts /\ i \in 0 .. Other
  <1>1. MaxAttempts \in Nat /\ MaxBoxes \in Nat /\ MaxFailures \in Nat /\ Backlog \in Nat
    BY GuiAssumption
  <1> QED
    BY <1>1 DEF NoOne, Other, Attempts

\* What a step leaves alone keeps its type.
LEMMA Frames ==
  ASSUME TypeOK
  PROVE  /\ UNCHANGED tkVars => WindowTypes' /\ BoxTypes'
         /\ UNCHANGED refreshVars => RefreshTypes' /\ refresh_exc_processed' \in BOOLEAN
         /\ UNCHANGED << attempt, connect, prepare >> => ThreadTypes'
         /\ UNCHANGED webVars => WebTypes'
         /\ UNCHANGED lockVars => LockTypes'
         /\ UNCHANGED << p, place >> => PlaceTypes'
         /\ UNCHANGED << rpa_main, overtaken, rpa_msg_queue >> => ClientTypes'
         /\ UNCHANGED << refresh_exc_processed, stopped >> => SignalTypes'
  <1>1. UNCHANGED tkVars => WindowTypes' /\ BoxTypes'
    BY TypeParts DEF tkVars, WindowTypes, BoxTypes
  <1>2. UNCHANGED refreshVars => RefreshTypes' /\ refresh_exc_processed' \in BOOLEAN
    BY TypeParts DEF refreshVars, RefreshTypes, SignalTypes
  <1>3. UNCHANGED << attempt, connect, prepare >> => ThreadTypes'
    BY TypeParts DEF ThreadTypes
  <1>4. UNCHANGED webVars => WebTypes'
    BY TypeParts DEF webVars, WebTypes
  <1>5. UNCHANGED lockVars => LockTypes'
    BY TypeParts DEF lockVars, LockTypes
  <1>6. UNCHANGED << p, place >> => PlaceTypes'
    BY TypeParts DEF PlaceTypes
  <1>7. UNCHANGED << rpa_main, overtaken, rpa_msg_queue >> => ClientTypes'
    BY TypeParts DEF ClientTypes
  <1>8. UNCHANGED << refresh_exc_processed, stopped >> => SignalTypes'
    BY TypeParts DEF SignalTypes
  <1> QED
    BY <1>1, <1>2, <1>3, <1>4, <1>5, <1>6, <1>7, <1>8

LEMMA ReleaseTypes ==
  ASSUME LockTypes, releasePlace
  PROVE  LockTypes'
  <1>1. t_rpa' \in 0 .. MaxAttempts /\ locked' \in {"None", "True", "False"}
    BY Numbers DEF releasePlace
  <1>2. CASE t_rpa # NoOne /\ process[t_rpa] # "dead"
    <2>1. /\ process' = [process EXCEPT ![t_rpa] = "dead"] /\ rpa_outcome' = Outcome(TRUE, "Popen")
          /\ lock' = IF lock = t_rpa THEN NoOne ELSE lock
      BY <1>2 DEF releasePlace
    <2>2. lock' \in 0 .. Other
      BY <2>1, Numbers DEF LockTypes
    <2>3. rpa_outcome' \in Outcomes
      BY <2>1 DEF Outcome, Outcomes
    <2> QED
      BY <1>1, <2>1, <2>2, <2>3 DEF LockTypes
  <1>3. CASE ~(t_rpa # NoOne /\ process[t_rpa] # "dead")
    <2>1. UNCHANGED << process, rpa_outcome, lock >>
      BY <1>3 DEF releasePlace
    <2> QED
      BY <1>1, <2>1 DEF LockTypes
  <1> QED
    BY <1>2, <1>3

LEMMA WebserverTypes ==
  ASSUME WebTypes, terminateWebserver
  PROVE  WebTypes'
  BY DEF WebTypes, Webs, terminateWebserver

LEMMA ScreenType ==
  ASSUME WindowTypes, NEW dst \in States, NEW name
  PROVE  Screen(dst, name) \in Screens
  <1>1. SideFrame(dst) \in {"Initialisation", "NewConnection", "AlreadyLocked", "Progress", "Connected"}
    BY DEF SideFrame, WindowTypes, Screens
  <1>2. ui.header \in BOOLEAN /\ ui.settings \in BOOLEAN /\ ui.cancel \in BOOLEAN
    BY DEF WindowTypes, Screens
  <1>3. SettingsShown(dst, name) \in BOOLEAN
    BY <1>2 DEF SettingsShown
  <1>4. ShowButton(dst) \in BOOLEAN
    BY <1>2 DEF ShowButton
  <1>5. QueueCancellable(dst) \in BOOLEAN
    BY <1>2 DEF QueueCancellable
  <1>6. (name = "SELECT_CONNECTION_MODE") \in BOOLEAN
    OBVIOUS
  <1> QED
    BY <1>1, <1>3, <1>4, <1>5, <1>6 DEF Screen, Screens

\* what is done when a state is entered
LEMMA EnterTypes ==
  ASSUME TypeOK, NEW dst \in States, NEW name, NEW arg, Enter(dst, name, arg),
         dst = "CONNECTING" => attempt < MaxAttempts
  PROVE  /\ ui' \in Screens /\ ThreadTypes' /\ WebTypes' /\ LockTypes' /\ rpa_main' \in BOOLEAN
         /\ refresh_exc_processed' \in BOOLEAN /\ overtaken' \in BOOLEAN
         /\ dst # "CONNECTING" => attempt' = attempt
  <1>1. /\ WindowTypes /\ ThreadTypes /\ WebTypes /\ LockTypes /\ rpa_main \in BOOLEAN
        /\ overtaken \in BOOLEAN /\ SignalTypes
    BY TypeParts DEF ClientTypes
  <1>2. ui' \in Screens
    BY <1>1, ScreenType DEF Enter
  <1>3. CASE dst = "MAIN_SCREEN"
    <2>1. MainScreen
      BY <1>3 DEF Enter
    <2>2. WebTypes' /\ LockTypes'
      BY <1>1, <2>1, ReleaseTypes, WebserverTypes DEF MainScreen
    <2>3. UNCHANGED << attempt, connect, prepare, rpa_main >>
      BY <2>1 DEF MainScreen, GivenUp
    <2>4. refresh_exc_processed' \in BOOLEAN /\ overtaken' \in BOOLEAN
      BY <1>1, <2>1 DEF MainScreen, GivenUp
    <2> QED
      BY <1>1, <1>2, <2>2, <2>3, <2>4 DEF ThreadTypes
  <1>4. CASE dst = "CONNECTING"
    <2>1. Connecting(arg)
      BY <1>4 DEF Enter
    <2>2. /\ attempt' = attempt + 1 /\ connect' = [connect EXCEPT ![attempt + 1] = "call"]
          /\ UNCHANGED << prepare, overtaken, web, runner, t_rpa, locked, rpa_outcome, process, lock, refresh_exc_processed >>
          /\ rpa_main' = (arg # "use")
      BY <2>1 DEF Connecting, webVars, lockVars
    <2>3. ThreadTypes'
      <3>1. attempt \in 0 .. MaxAttempts /\ attempt < MaxAttempts
        BY <1>1, <1>4 DEF ThreadTypes
      <3>2. attempt' \in 0 .. MaxAttempts
        BY <2>2, <3>1, Numbers
      <3>3. connect' \in [Attempts -> {"none", "call", "ask", "wait", "replaced", "done"}]
        BY <1>1, <2>2 DEF ThreadTypes
      <3> QED
        BY <1>1, <2>2, <3>2, <3>3 DEF ThreadTypes
    <2>4. rpa_main' \in BOOLEAN
      BY <2>2
    <2> QED
      BY <1>1, <1>2, <1>4, <2>2, <2>3, <2>4 DEF WebTypes, LockTypes, SignalTypes
  <1>5. CASE dst = "PREPARING"
    <2>1. Preparing
      BY <1>5 DEF Enter
    <2>2. /\ prepare' = [prepare EXCEPT ![attempt] = "pip"]
          /\ UNCHANGED << attempt, connect, overtaken, web, runner, t_rpa, locked, rpa_outcome, process, lock, rpa_main,
                          refresh_exc_processed >>
      BY <2>1 DEF Preparing, webVars, lockVars
    <2> QED
      BY <1>1, <1>2, <2>2 DEF ThreadTypes, WebTypes, LockTypes, SignalTypes
  <1>6. CASE dst \notin {"MAIN_SCREEN", "CONNECTING", "PREPARING"}
    <2>1. UNCHANGED << attempt, connect, prepare, overtaken, web, runner, t_rpa, locked, rpa_outcome, process, lock,
                       rpa_main, refresh_exc_processed >>
      BY <1>6 DEF Enter, threadVars, webVars, lockVars
    <2> QED
      BY <1>1, <1>2, <2>1 DEF ThreadTypes, WebTypes, LockTypes, SignalTypes
  <1> QED
    BY <1>3, <1>4, <1>5, <1>6

\* An event is sent that is no click, and takes as many messages as come with it.
LEMMA EmitStep ==
  ASSUME TypeOK, NeverBlocks, OneClick, NEW name \in Names \ Clicks, Emit(name),
         exc_queue' \in Nat,
         exc_queue' >= IF TakesMessage(name) /\ ~stopped THEN exc_queue + 1 ELSE exc_queue,
         attempt' = attempt
  PROVE  QueueTypes' /\ NeverBlocks' /\ OneClick'
  <1>1. events \in Seq(Events) /\ exc_queue \in Nat
    BY TypeParts DEF QueueTypes
  <1>2. CASE stopped
    <2>1. events' = events
      BY <1>2 DEF Emit
    <2>2. Cardinality(Blocking(events)) \in Nat
      BY <1>1, BlockingFinite
    <2>3. NeverBlocks'
      BY <1>1, <1>2, <2>1, <2>2 DEF NeverBlocks, Blocking
    <2> QED
      BY <1>1, <2>1, <2>3 DEF QueueTypes, OneClick
  <1>3. CASE ~stopped
    <2>1. events' = Append(events, Event(name, "")) /\ Event(name, "") \in Events /\ Event(name, "").name = name
      BY <1>3 DEF Emit, Event, Events
    <2>2. events' \in Seq(Events)
      BY <1>1, <2>1, AppendProperties
    <2>3. Cardinality(Blocking(events)) \in Nat /\ Cardinality(Blocking(events')) \in Nat
      BY <1>1, <2>2, BlockingFinite
    <2>4. Cardinality(Blocking(events')) <= IF TakesMessage(name) THEN Cardinality(Blocking(events)) + 1 ELSE Cardinality(Blocking(events))
      <3> DEFINE e == Event(name, "")
      <3>1. events' = Append(events, e) /\ e \in Events /\ e.name = name
        BY <2>1
      <3> HIDE DEF e
      <3>2. /\ TakesMessage(name) => Cardinality(Blocking(events')) = Cardinality(Blocking(events)) + 1
            /\ ~TakesMessage(name) => Cardinality(Blocking(events')) = Cardinality(Blocking(events))
        BY <1>1, <3>1, BlockingAppend
      <3> QED
        BY <2>3, <3>2
    <2>5. NeverBlocks'
      <3>1. Cardinality(Blocking(events)) <= exc_queue
        BY DEF NeverBlocks, Blocking
      <3>2. Cardinality(Blocking(events')) <= exc_queue'
        BY <1>1, <1>3, <2>3, <2>4, <3>1
      <3> QED
        BY <3>2 DEF NeverBlocks, Blocking
    <2>6. OneClick'
      <3> DEFINE e == Event(name, "")
      <3>0. events' = Append(events, e) /\ e \in Events /\ e.name = name
        BY <2>1
      <3> HIDE DEF e
      <3>1. /\ DOMAIN events = 1 .. Len(events) /\ DOMAIN events' = 1 .. Len(events) + 1 /\ Len(events) \in Nat
            /\ \A k \in 1 .. Len(events) : events'[k] = events[k]
            /\ events'[Len(events) + 1] = e
        BY <1>1, <3>0, AppendProperties, LenProperties
      <3>2. \A k \in DOMAIN events' : events'[k].name \in Clicks => k \in DOMAIN events /\ events'[k] = events[k]
        BY <3>0, <3>1
      <3>3. Connects \subseteq Clicks
        BY DEF Connects, Clicks
      <3> QED
        BY <3>2, <3>3 DEF OneClick
    <2> QED
      BY <2>2, <2>5, <2>6 DEF QueueTypes
  <1> QED
    BY <1>2, <1>3

LEMMA QueueStays ==
  ASSUME IInv, UNCHANGED << events, exc_queue, attempt >>
  PROVE  QueueTypes' /\ NeverBlocks' /\ OneClick'
  BY TypeParts DEF IInv, QueueTypes, NeverBlocks, OneClick

-----------------------------------------------------------------------------
(***************************************************************************)
(* Tk's thread.                                                            *)
(***************************************************************************)
LEMMA TargetFacts ==
  ASSUME NEW name, NEW dst \in Target(name)
  PROVE  /\ dst \in States
         /\ dst = "CONNECTING" => name \in Connects
         /\ Boxed(name) => dst \in {"MAIN_SCREEN", "SETTINGS"}
         /\ dst \in {"CONNECTING", "ALREADY_LOCKED"} => ui.state \in Idle
         /\ dst = "WAITING" => ui.state = "CONNECTING"
         /\ dst = "PREPARING" => ui.state \in {"CONNECTING", "WAITING"}
         /\ dst # "INITIALISATION"
  <1>1. PICK t \in transitions : t.src = ui.state /\ t.on = name /\ t.dst = dst
    BY DEF Target
  <1> DEFINE Fits(r) == /\ r.dst \in States
                        /\ r.dst = "CONNECTING" => r.on \in Connects
                        /\ r.on \in {"CONNECT_EXCEPTION", "PREPARE_EXCEPTION", "REMOTE_WEBSERVER_DOWN", "REFRESH_EXCEPTION"} \/
                           (r.on = "RPA_QUERY_UNASSIGNED" /\ r.src \in {"CONNECTING", "PREPARING"})
                             => r.dst \in {"MAIN_SCREEN", "SETTINGS"}
                        /\ r.dst \in {"CONNECTING", "ALREADY_LOCKED"} => r.src \in Idle
                        /\ r.dst = "WAITING" => r.src = "CONNECTING"
                        /\ r.dst = "PREPARING" => r.src \in {"CONNECTING", "WAITING"}
                        /\ r.dst # "INITIALISATION"
  <1>2. \A s \in States : Fits(Row(s, "REFRESH_EXCEPTION", "SETTINGS"))
    BY DEF Row, States, Idle
  <1>3. \A s \in States : Fits(Row(s, "RPA_QUERY_UNASSIGNED", "MAIN_SCREEN"))
    BY DEF Row, States, Idle
  <1>4. /\ Fits(Row("INITIALISATION", "RPA_QUERY_UNASSIGNED", "MAIN_SCREEN"))
        /\ Fits(Row("INITIALISATION", "RPA_QUERY_ASSIGNED", "ALREADY_LOCKED"))
        /\ Fits(Row("MAIN_SCREEN", "CLICK_CONNECT", "CONNECTING"))
        /\ Fits(Row("MAIN_SCREEN", "CLICK_SETTINGS", "SETTINGS"))
        /\ Fits(Row("MAIN_SCREEN", "RPA_QUERY_ASSIGNED", "ALREADY_LOCKED"))
        /\ Fits(Row("SETTINGS", "CLICK_SETTINGS_EXIT", "MAIN_SCREEN"))
        /\ Fits(Row("ALREADY_LOCKED", "RPA_QUERY_UNASSIGNED", "MAIN_SCREEN"))
        /\ Fits(Row("ALREADY_LOCKED", "SELECT_CONNECTION_MODE", "CONNECTING"))
        /\ Fits(Row("CONNECTING", "RPA_LOCKED", "PREPARING"))
        /\ Fits(Row("CONNECTING", "RPA_QUEUED", "WAITING"))
    BY DEF Row, States, Connects, Idle
  <1>5. /\ Fits(Row("CONNECTING", "CONNECT_EXCEPTION", "MAIN_SCREEN"))
        /\ Fits(Row("WAITING", "RPA_LOCKED", "PREPARING"))
        /\ Fits(Row("WAITING", "CLICK_DISCONNECT", "MAIN_SCREEN"))
        /\ Fits(Row("PREPARING", "RPA_PREPARED", "CONNECTED"))
        /\ Fits(Row("PREPARING", "PREPARE_EXCEPTION", "MAIN_SCREEN"))
        /\ Fits(Row("PREPARING", "REMOTE_WEBSERVER_DOWN", "MAIN_SCREEN"))
        /\ Fits(Row("CONNECTED", "CLICK_DISCONNECT", "MAIN_SCREEN"))
        /\ Fits(Row("CONNECTED", "RPA_QUERY_UNASSIGNED", "MAIN_SCREEN"))
        /\ Fits(Row("CONNECTED", "REMOTE_WEBSERVER_DOWN", "MAIN_SCREEN"))
    BY DEF Row, States, Connects, Idle
  <1>6. Fits(t)
    <2> HIDE DEF Fits
    <2>1. {s \in {"CONNECTING", "PREPARING"} : locked_connect} \subseteq States
      BY DEF States
    <2> QED
      BY <1>1, <1>2, <1>3, <1>4, <1>5, <2>1 DEF transitions
  <1> QED
    BY <1>1, <1>6 DEF Boxed

LEMMA TailStep ==
  ASSUME IInv, events # << >>, events' = Tail(events)
  PROVE  /\ Head(events) \in Events /\ events' \in Seq(Events)
         /\ Cardinality(Blocking(events')) \in Nat /\ Cardinality(Blocking(events')) <= exc_queue
         /\ TakesMessage(Head(events).name) => Cardinality(Blocking(events')) <= exc_queue - 1
         /\ attempt' = attempt => OneClick'
         /\ Head(events).name \in Connects => OneClick' /\ attempt < MaxAttempts
  <1>1. events \in Seq(Events) /\ exc_queue \in Nat
    BY TypeParts DEF IInv, QueueTypes
  <1>2. /\ Tail(events) \in Seq(Events) /\ Head(events) \in Events /\ Head(events) = events[1]
        /\ DOMAIN events = 1 .. Len(events) /\ Len(events) \in Nat /\ Len(events) > 0
        /\ DOMAIN Tail(events) = 1 .. Len(events) - 1
        /\ \A k \in 1 .. Len(events) - 1 : Tail(events)[k] = events[k + 1]
    BY <1>1, HeadTailProperties, LenProperties, EmptySeq
  <1>3. Cardinality(Blocking(events)) \in Nat /\ Cardinality(Blocking(Tail(events))) \in Nat
    BY <1>1, <1>2, BlockingFinite
  <1>4. Cardinality(Blocking(events)) <= exc_queue
    BY DEF IInv, NeverBlocks, Blocking
  <1>5. /\ Cardinality(Blocking(Tail(events))) <= Cardinality(Blocking(events))
        /\ TakesMessage(Head(events).name) => Cardinality(Blocking(Tail(events))) <= Cardinality(Blocking(events)) - 1
    BY <1>1, BlockingTail
  <1>6. \A k \in DOMAIN events' : k \in 1 .. Len(events) - 1 /\ k + 1 \in DOMAIN events /\ events'[k] = events[k + 1]
    BY <1>2
  <1>7. \A j, k \in DOMAIN events' : events'[j].name \in Clicks /\ events'[k].name \in Clicks => j = k
    <2> SUFFICES ASSUME NEW j \in DOMAIN events', NEW k \in DOMAIN events', events'[j].name \in Clicks, events'[k].name \in Clicks
                 PROVE  j = k
      OBVIOUS
    <2>1. j + 1 = k + 1
      BY <1>6 DEF IInv, OneClick
    <2> QED
      BY <1>6, <2>1
  <1>8. attempt' = attempt => OneClick'
    BY <1>6, <1>7 DEF IInv, OneClick
  <1>9. Head(events).name \in Connects => OneClick' /\ attempt < MaxAttempts
    <2> SUFFICES ASSUME Head(events).name \in Connects PROVE OneClick' /\ attempt < MaxAttempts
      OBVIOUS
    <2>1. 1 \in DOMAIN events /\ events[1].name \in Connects /\ Connects \subseteq Clicks
      BY <1>2 DEF Connects, Clicks
    <2>2. \A k \in DOMAIN events' : events'[k].name \notin Clicks
      <3> SUFFICES ASSUME NEW k \in DOMAIN events', events'[k].name \in Clicks PROVE FALSE
        OBVIOUS
      <3>1. k + 1 = 1
        BY <1>6, <2>1 DEF IInv, OneClick
      <3> QED
        BY <1>6, <3>1
    <2> QED
      BY <1>7, <2>1, <2>2 DEF IInv, OneClick
  <1>10. Cardinality(Blocking(events')) = Cardinality(Blocking(Tail(events)))
    OBVIOUS
  <1>11. /\ Cardinality(Blocking(events')) \in Nat /\ Cardinality(Blocking(events')) <= exc_queue
         /\ TakesMessage(Head(events).name) => Cardinality(Blocking(events')) <= exc_queue - 1
    <2>1. Cardinality(Blocking(events')) \in Nat
      BY <1>3, <1>10
    <2>2. Cardinality(Blocking(events')) <= exc_queue
      BY <1>1, <1>3, <1>4, <1>5, <1>10
    <2>3. ASSUME TakesMessage(Head(events).name) PROVE Cardinality(Blocking(events')) <= exc_queue - 1
      <3>1. Cardinality(Blocking(Tail(events))) <= Cardinality(Blocking(events)) - 1
        BY <1>5, <2>3
      <3> QED
        BY <1>1, <1>3, <1>4, <1>10, <3>1
    <2> QED
      BY <2>1, <2>2, <2>3
  <1>12. Head(events) \in Events /\ events' \in Seq(Events)
    BY <1>2
  <1> QED
    BY <1>8, <1>9, <1>11, <1>12

LEMMA ProcessInv ==
  ASSUME IInv, Process
  PROVE  IInv'
  <1> DEFINE e == Head(events)
  <1>1. /\ events # << >> /\ events' = Tail(events)
        /\ UNCHANGED << refresh, failures, place, p, rpa_msg_queue, stopped >>
    BY DEF Process
  <1>2. /\ WindowTypes /\ BoxTypes /\ QueueTypes /\ RefreshTypes /\ SignalTypes /\ ThreadTypes
        /\ WebTypes /\ LockTypes /\ PlaceTypes /\ ClientTypes
    BY TypeParts DEF IInv
  <1>3. RefreshTypes' /\ PlaceTypes' /\ stopped' \in BOOLEAN /\ rpa_msg_queue' \in Seq({"ASSIGNED", "WAITING"})
    BY <1>1, <1>2 DEF RefreshTypes, PlaceTypes, SignalTypes, ClientTypes
  <1>4. exc_queue' = exc_queue => QueueTypes' /\ NeverBlocks'
    <2> SUFFICES ASSUME exc_queue' = exc_queue PROVE QueueTypes' /\ NeverBlocks'
      OBVIOUS
    <2>1. Cardinality(Blocking(events')) <= exc_queue' /\ exc_queue' \in Nat
      BY <1>1, <1>2, TailStep DEF QueueTypes
    <2> QED
      BY <1>1, <2>1, TailStep DEF QueueTypes, NeverBlocks, Blocking
  <1>5. CASE Target(e.name) = {} /\ UNCHANGED << tkVars, exc_queue, refresh_exc_processed, threadVars, webVars, lockVars, rpa_main >>
    <2>1. /\ UNCHANGED << ui, locked_connect, boxes, grab, exc_queue, refresh_exc_processed, attempt, connect, prepare, overtaken,
                          web, runner, t_rpa, locked, rpa_outcome, process, lock, rpa_main >>
      BY <1>5 DEF tkVars, threadVars, webVars, lockVars
    <2>2. /\ WindowTypes' /\ BoxTypes' /\ ThreadTypes' /\ WebTypes' /\ LockTypes'
      BY <1>2, <2>1 DEF WindowTypes, BoxTypes, ThreadTypes, WebTypes, LockTypes
    <2>3. SignalTypes' /\ ClientTypes'
      BY <1>2, <1>3, <2>1 DEF SignalTypes, ClientTypes
    <2>4. OneClick' /\ QueueTypes' /\ NeverBlocks'
      BY <1>1, <1>4, <2>1, TailStep
    <2>5. TypeOK'
      BY <1>3, <2>2, <2>3, <2>4, TypePartsNext
    <2> QED
      BY <2>4, <2>5 DEF IInv
  <1>6. ASSUME NEW dst \in Target(e.name), locked_connect' = ((locked_connect \/ ui.after) /\ e.name # "CLICK_CONNECT"),
               Boxed(e.name), Open(e.name, dst)
        PROVE  IInv'
    <2>1. locked_connect' \in BOOLEAN
      BY <1>2, <1>6 DEF WindowTypes, Screens
    <2>2. UNCHANGED << ui, attempt, connect, prepare, overtaken, rpa_main, refresh_exc_processed >>
      BY <1>6 DEF Open, threadVars
    <2>3. BoxTypes'
      <3>1. boxes' = Append(boxes, dst) /\ grab' = TRUE /\ Len(boxes) < MaxBoxes /\ dst \in {"MAIN_SCREEN", "SETTINGS"}
        BY <1>6, TargetFacts DEF Open
      <3>2. boxes \in Seq({"MAIN_SCREEN", "SETTINGS"}) /\ Len(boxes) \in Nat
        BY <1>2, LenProperties DEF BoxTypes
      <3>3. boxes' \in Seq({"MAIN_SCREEN", "SETTINGS"}) /\ Len(boxes') = Len(boxes) + 1
        BY <3>1, <3>2, AppendProperties
      <3>4. Len(boxes') <= MaxBoxes
        BY <3>1, <3>2, <3>3, Numbers
      <3>5. grab' \in BOOLEAN
        BY <3>1
      <3> QED
        BY <3>3, <3>4, <3>5 DEF BoxTypes
    <2>4. WebTypes' /\ LockTypes'
      <3>1. CASE e.name = "REFRESH_EXCEPTION"
        BY <1>2, <1>6, <3>1, ReleaseTypes, WebserverTypes DEF Open
      <3>2. CASE e.name # "REFRESH_EXCEPTION"
        <4>1. UNCHANGED << web, runner, t_rpa, locked, rpa_outcome, process, lock >>
          BY <1>6, <3>2 DEF Open, webVars, lockVars
        <4> QED
          BY <1>2, <4>1 DEF WebTypes, LockTypes
      <3> QED
        BY <3>1, <3>2
    <2>5. QueueTypes' /\ NeverBlocks'
      <3>1. CASE TakesMessage(e.name)
        <4>1. exc_queue' = exc_queue - 1 /\ exc_queue > 0
          BY <1>6, <3>1 DEF Open
        <4>2. exc_queue' \in Nat
          BY <1>2, <4>1 DEF QueueTypes
        <4>3. Cardinality(Blocking(events')) <= exc_queue'
          BY <1>1, <3>1, <4>1, TailStep
        <4> QED
          BY <1>1, <4>2, <4>3, TailStep DEF QueueTypes, NeverBlocks, Blocking
      <3>2. CASE ~TakesMessage(e.name)
        BY <1>4, <1>6, <3>2 DEF Open
      <3> QED
        BY <3>1, <3>2
    <2>6. OneClick'
      BY <1>1, <2>2, TailStep
    <2>7. WindowTypes' /\ ThreadTypes'
      BY <1>2, <2>1, <2>2 DEF WindowTypes, ThreadTypes
    <2>8. SignalTypes' /\ ClientTypes'
      BY <1>2, <1>3, <2>2 DEF SignalTypes, ClientTypes
    <2>9. TypeOK'
      BY <1>3, <2>3, <2>4, <2>5, <2>7, <2>8, TypePartsNext
    <2> QED
      BY <2>5, <2>6, <2>9 DEF IInv
  <1>7. ASSUME NEW dst \in Target(e.name), locked_connect' = ((locked_connect \/ ui.after) /\ e.name # "CLICK_CONNECT"),
               Enter(dst, e.name, e.arg), UNCHANGED << boxes, grab, exc_queue >>
        PROVE  IInv'
    <2>1. locked_connect' \in BOOLEAN
      BY <1>2, <1>7 DEF WindowTypes, Screens
    <2>2. dst \in States /\ (dst = "CONNECTING" => e.name \in Connects)
      BY <1>7, TargetFacts
    <2>3. dst = "CONNECTING" => attempt < MaxAttempts
      BY <1>1, <2>2, TailStep
    <2>4. /\ ui' \in Screens /\ ThreadTypes' /\ WebTypes' /\ LockTypes' /\ rpa_main' \in BOOLEAN
          /\ refresh_exc_processed' \in BOOLEAN /\ overtaken' \in BOOLEAN /\ (dst # "CONNECTING" => attempt' = attempt)
      BY <1>7, <2>2, <2>3, EnterTypes DEF IInv
    <2>5. OneClick'
      BY <1>1, <2>2, <2>4, TailStep
    <2>6. QueueTypes' /\ NeverBlocks'
      BY <1>4, <1>7
    <2>7. WindowTypes' /\ BoxTypes'
      BY <1>2, <1>7, <2>1, <2>4 DEF WindowTypes, BoxTypes
    <2>8. SignalTypes' /\ ClientTypes'
      BY <1>2, <1>3, <2>4 DEF SignalTypes, ClientTypes
    <2>9. TypeOK'
      BY <1>3, <2>4, <2>6, <2>7, <2>8, TypePartsNext
    <2> QED
      BY <2>5, <2>6, <2>9 DEF IInv
  <1> QED
    BY <1>5, <1>6, <1>7 DEF Process

LEMMA LastBox ==
  ASSUME IInv, boxes # << >>
  PROVE  /\ Front(boxes) \in Seq({"MAIN_SCREEN", "SETTINGS"}) /\ Len(Front(boxes)) <= MaxBoxes
         /\ Last(boxes) \in {"MAIN_SCREEN", "SETTINGS"}
  <1>1. boxes \in Seq({"MAIN_SCREEN", "SETTINGS"}) /\ Len(boxes) <= MaxBoxes
    BY TypeParts DEF IInv, BoxTypes
  <1> DEFINE S == {"MAIN_SCREEN", "SETTINGS"}
  <1>2. boxes \in Seq(S)
    BY <1>1
  <1> HIDE DEF S
  <1>3. Len(boxes) \in Nat /\ DOMAIN boxes = 1 .. Len(boxes) /\ boxes \in [1 .. Len(boxes) -> S]
    BY <1>2, LenProperties
  <1>4. Len(boxes) # 0
    BY <1>2, EmptySeq
  <1>5. /\ Len(boxes) - 1 \in Int
        /\ \A k \in 1 .. Len(boxes) - 1 : boxes[k] \in S
        /\ boxes[Len(boxes)] \in S
    BY <1>3, <1>4
  <1>6. /\ SubSeq(boxes, 1, Len(boxes) - 1) \in Seq(S)
        /\ Len(SubSeq(boxes, 1, Len(boxes) - 1)) = IF 1 <= Len(boxes) - 1 THEN (Len(boxes) - 1) - 1 + 1 ELSE 0
    <2>1. 1 \in Int
      OBVIOUS
    <2> QED
      BY <1>5, <2>1, SubSeqProperties
  <1>7. Len(SubSeq(boxes, 1, Len(boxes) - 1)) <= MaxBoxes
    BY <1>1, <1>3, <1>4, <1>6, Numbers
  <1> QED
    BY <1>5, <1>6, <1>7 DEF Front, Last, S

LEMMA CloseInv ==
  ASSUME IInv, Close
  PROVE  IInv'
  <1> DEFINE dst == Last(boxes)
  <1>1. /\ boxes # << >> /\ boxes' = Front(boxes) /\ grab' = FALSE /\ Enter(dst, "", "")
        /\ UNCHANGED << locked_connect, queueVars, refresh, failures, place, p, rpa_msg_queue, stopped >>
    BY DEF Close
  <1>2. TypeOK /\ WindowTypes /\ BoxTypes /\ RefreshTypes /\ SignalTypes /\ ClientTypes
    BY TypeParts DEF IInv
  <1>3. /\ boxes' \in Seq({"MAIN_SCREEN", "SETTINGS"}) /\ Len(boxes') <= MaxBoxes
        /\ dst \in {"MAIN_SCREEN", "SETTINGS"}
    BY <1>1, LastBox
  <1>4. dst \in States /\ dst # "CONNECTING"
    BY <1>3 DEF States
  <1> HIDE DEF dst
  <1>5. /\ ui' \in Screens /\ ThreadTypes' /\ WebTypes' /\ LockTypes' /\ rpa_main' \in BOOLEAN
        /\ refresh_exc_processed' \in BOOLEAN /\ overtaken' \in BOOLEAN /\ attempt' = attempt
    BY <1>1, <1>2, <1>4, EnterTypes
  <1>6. WindowTypes' /\ BoxTypes'
    BY <1>1, <1>2, <1>3, <1>5 DEF WindowTypes, BoxTypes
  <1>7. UNCHANGED << events, exc_queue, refresh, failures, place, p, rpa_msg_queue, stopped >>
    BY <1>1 DEF queueVars
  <1>8. QueueTypes' /\ NeverBlocks' /\ OneClick'
    BY <1>5, <1>7, QueueStays
  <1>9. RefreshTypes' /\ SignalTypes' /\ ClientTypes' /\ PlaceTypes'
    BY <1>2, <1>5, <1>7, Frames DEF RefreshTypes, SignalTypes, ClientTypes
  <1>10. TypeOK'
    BY <1>5, <1>6, <1>8, <1>9, TypePartsNext
  <1> QED
    BY <1>8, <1>10 DEF IInv

-----------------------------------------------------------------------------
(***************************************************************************)
(* The user.                                                               *)
(***************************************************************************)
LEMMA ClickInv ==
  ASSUME IInv, NEW name \in Clicks, Click(name)
  PROVE  IInv'
  <1>1. /\ ~Pending(Clicks) /\ (name \in Connects => attempt < MaxAttempts)
        /\ UNCHANGED << tkVars, exc_queue, refreshVars, threadVars, webVars, lockVars, clientVars, stopped >>
    BY DEF Click, Connects
  <1>2. PICK arg \in Args(name) : events' = Append(events, Event(name, arg))
    BY DEF Click
  <1> DEFINE e == Event(name, arg)
  <1>3. e \in Events /\ e.name = name /\ ~TakesMessage(name)
    BY DEF Event, Events, Names, Clicks, TakesMessage, Args
  <1> HIDE DEF e
  <1>4. events' = Append(events, e)
    BY <1>2 DEF e
  <1>5. events \in Seq(Events) /\ exc_queue \in Nat /\ exc_queue' = exc_queue /\ attempt' = attempt
    BY <1>1, TypeParts DEF IInv, QueueTypes, threadVars
  <1>6. QueueTypes'
    BY <1>3, <1>4, <1>5, AppendProperties DEF QueueTypes
  <1>7. NeverBlocks'
    <2>1. Blocking(events') = Blocking(events)
      BY <1>3, <1>4, <1>5, BlockingAppend
    <2> QED
      BY <1>5, <2>1 DEF IInv, NeverBlocks, Blocking
  <1>8. OneClick'
    <2>1. /\ DOMAIN events = 1 .. Len(events) /\ DOMAIN events' = 1 .. Len(events) + 1 /\ Len(events) \in Nat
          /\ \A k \in 1 .. Len(events) : events'[k] = events[k]
          /\ events'[Len(events) + 1] = e
      BY <1>3, <1>4, <1>5, AppendProperties, LenProperties
    <2>2. \A k \in DOMAIN events : events[k].name \notin Clicks
      BY <1>1 DEF Pending
    <2>3. \A k \in DOMAIN events' : events'[k].name \in Clicks => k = Len(events) + 1
      BY <2>1, <2>2
    <2>4. Connects \subseteq Clicks
      BY DEF Connects, Clicks
    <2> QED
      BY <1>1, <1>3, <1>5, <2>1, <2>3, <2>4 DEF OneClick
  <1>9. /\ UNCHANGED tkVars /\ UNCHANGED refreshVars /\ UNCHANGED << attempt, connect, prepare >> /\ UNCHANGED webVars
        /\ UNCHANGED lockVars /\ UNCHANGED << p, place >> /\ UNCHANGED << rpa_main, overtaken, rpa_msg_queue >>
        /\ UNCHANGED << refresh_exc_processed, stopped >>
    BY <1>1 DEF threadVars, clientVars, refreshVars
  <1>10. TypeOK'
    BY <1>6, <1>9, Frames, TypePartsNext DEF IInv
  <1> QED
    BY <1>7, <1>8, <1>10 DEF IInv

LEMMA StopInv ==
  ASSUME IInv, Stop
  PROVE  IInv'
  <1>1. /\ stopped' = TRUE /\ releasePlace
        /\ UNCHANGED << tkVars, queueVars, refreshVars, threadVars, webVars, clientVars >>
    BY DEF Stop
  <1>2. UNCHANGED << events, exc_queue, attempt, connect, prepare, overtaken, refresh_exc_processed >>
    BY <1>1 DEF queueVars, threadVars, refreshVars
  <1>3. QueueTypes' /\ NeverBlocks' /\ OneClick'
    BY <1>2, QueueStays
  <1>4. LockTypes'
    BY <1>1, ReleaseTypes, TypeParts DEF IInv
  <1>5. SignalTypes'
    BY <1>1, <1>2, TypeParts DEF IInv, SignalTypes
  <1>6. /\ UNCHANGED tkVars /\ UNCHANGED refreshVars /\ UNCHANGED << attempt, connect, prepare >> /\ UNCHANGED webVars
        /\ UNCHANGED << p, place >> /\ UNCHANGED << rpa_main, overtaken, rpa_msg_queue >>
    BY <1>1 DEF threadVars, clientVars
  <1>7. TypeOK'
    BY <1>3, <1>4, <1>5, <1>6, Frames, TypePartsNext DEF IInv
  <1> QED
    BY <1>3, <1>7 DEF IInv

-----------------------------------------------------------------------------
(***************************************************************************)
(* The refresh thread.                                                     *)
(***************************************************************************)
LEMMA RefreshInv ==
  ASSUME IInv, Refresh
  PROVE  IInv'
  <1>1. TypeOK /\ RefreshTypes /\ SignalTypes
    BY TypeParts DEF IInv
  <1>2. /\ UNCHANGED tkVars /\ UNCHANGED << attempt, connect, prepare >> /\ UNCHANGED webVars
        /\ UNCHANGED lockVars /\ UNCHANGED << p, place >> /\ UNCHANGED << rpa_main, overtaken, rpa_msg_queue >>
        /\ UNCHANGED << exc_queue, stopped >>
    BY DEF Refresh, Query, Result, QueryFails, Wait, Clear, threadVars, clientVars, queueVars
  <1>3. QueueTypes' /\ NeverBlocks' /\ OneClick'
    <2>1. CASE Query \/ Wait \/ Clear
      <3>1. UNCHANGED << events, exc_queue, attempt >>
        BY <1>2, <2>1 DEF Query, Wait, Clear, queueVars
      <3> QED
        BY <3>1, QueueStays
    <2>2. CASE Result \/ QueryFails
      <3>1. PICK name \in Results \cup {"REFRESH_EXCEPTION"} : Emit(name)
        BY <2>2 DEF Result, QueryFails
      <3>2. name \in Names \ Clicks /\ ~TakesMessage(name)
        BY DEF Names, Clicks, Results, TakesMessage
      <3>3. exc_queue \in Nat
        BY <1>1, TypeParts DEF QueueTypes
      <3>4. exc_queue' \in Nat /\ exc_queue' >= IF TakesMessage(name) /\ ~stopped THEN exc_queue + 1 ELSE exc_queue
        BY <1>2, <3>2, <3>3
      <3> QED
        BY <1>2, <3>1, <3>2, <3>4, EmitStep DEF IInv
    <2> QED
      BY <2>1, <2>2 DEF Refresh
  <1>4. RefreshTypes' /\ refresh_exc_processed' \in BOOLEAN
    <2>1. CASE Query
      BY <1>1, <2>1 DEF Query, RefreshTypes, SignalTypes, Results
    <2>2. CASE Result
      BY <1>1, <2>2 DEF Result, RefreshTypes, SignalTypes
    <2>3. CASE QueryFails
      <3>1. /\ refresh' = "wait" /\ failures' = failures + 1 /\ failures < MaxFailures
            /\ refresh_exc_processed' = refresh_exc_processed
        BY <2>3 DEF QueryFails
      <3>2. failures' \in 0 .. MaxFailures
        BY <1>1, <3>1, Numbers DEF RefreshTypes
      <3> QED
        BY <1>1, <3>1, <3>2 DEF RefreshTypes, SignalTypes
    <2>4. CASE Wait
      BY <1>1, <2>4 DEF Wait, RefreshTypes, SignalTypes
    <2>5. CASE Clear
      BY <1>1, <2>5 DEF Clear, RefreshTypes
    <2> QED
      BY <2>1, <2>2, <2>3, <2>4, <2>5 DEF Refresh
  <1>5. SignalTypes'
    BY <1>1, <1>2, <1>4 DEF SignalTypes
  <1>6. TypeOK'
    BY <1>1, <1>2, <1>3, <1>4, <1>5, Frames, TypePartsNext
  <1> QED
    BY <1>3, <1>6 DEF IInv

-----------------------------------------------------------------------------
(***************************************************************************)
(* The threads of an attempt.                                              *)
(***************************************************************************)
\* what a connect thread may do to the queue, the lock and the place
Connected(i) ==
  /\ QueueTypes' /\ NeverBlocks' /\ OneClick' /\ ThreadTypes' /\ LockTypes' /\ PlaceTypes'

LEMMA GoOnTypes ==
  ASSUME TypeOK, NEW i \in Attempts,
         NEW to \in {"none", "call", "ask", "wait", "replaced", "done"}, GoOn(i, to)
  PROVE  ThreadTypes' /\ attempt' = attempt
  BY TypeParts DEF GoOn, ThreadTypes

LEMMA FailStep ==
  ASSUME IInv, NEW i \in Attempts, Fail(i)
  PROVE  Connected(i)
  <1>1. /\ GoOn(i, "done") /\ releasePlace /\ exc_queue' = exc_queue + 1 /\ Emit("CONNECT_EXCEPTION")
        /\ UNCHANGED << p, place >>
    BY DEF Fail
  <1>2. ThreadTypes' /\ attempt' = attempt
    BY <1>1, GoOnTypes DEF IInv
  <1>3. LockTypes' /\ PlaceTypes'
    BY <1>1, ReleaseTypes, Frames, TypeParts DEF IInv
  <1>4. exc_queue \in Nat
    BY TypeParts DEF IInv, QueueTypes
  <1>5. "CONNECT_EXCEPTION" \in Names \ Clicks
    BY DEF Names, Clicks
  <1>6. exc_queue' \in Nat /\ exc_queue' >= IF TakesMessage("CONNECT_EXCEPTION") /\ ~stopped THEN exc_queue + 1 ELSE exc_queue
    BY <1>1, <1>4
  <1>7. QueueTypes' /\ NeverBlocks' /\ OneClick'
    BY <1>1, <1>2, <1>5, <1>6, EmitStep DEF IInv
  <1> QED
    BY <1>2, <1>3, <1>7 DEF Connected

LEMMA SucceedStep ==
  ASSUME IInv, NEW i \in Attempts, Succeed(i)
  PROVE  Connected(i)
  <1>1. /\ GoOn(i, "done") /\ p' = i /\ place' = TRUE /\ exc_queue' = exc_queue /\ Emit("RPA_LOCKED")
    BY DEF Succeed
  <1>2. ThreadTypes' /\ attempt' = attempt
    BY <1>1, GoOnTypes DEF IInv
  <1>3. LockTypes'
    BY ReleaseTypes, Frames, TypeParts DEF IInv, Succeed
  <1>4. PlaceTypes'
    BY <1>1, Numbers DEF PlaceTypes
  <1>5. exc_queue \in Nat
    BY TypeParts DEF IInv, QueueTypes
  <1>6. "RPA_LOCKED" \in Names \ Clicks /\ ~TakesMessage("RPA_LOCKED")
    BY DEF Names, Clicks, Results, TakesMessage
  <1>7. exc_queue' \in Nat /\ exc_queue' >= IF TakesMessage("RPA_LOCKED") /\ ~stopped THEN exc_queue + 1 ELSE exc_queue
    BY <1>1, <1>5, <1>6
  <1>8. QueueTypes' /\ NeverBlocks' /\ OneClick'
    BY <1>1, <1>2, <1>6, <1>7, EmitStep DEF IInv
  <1> QED
    BY <1>2, <1>3, <1>4, <1>8 DEF Connected

LEMMA QueuedStep ==
  ASSUME IInv, NEW i \in Attempts, Queued(i)
  PROVE  Connected(i)
  <1>1. /\ GoOn(i, "done") /\ exc_queue' = exc_queue /\ Emit("RPA_QUEUED") /\ UNCHANGED lockVars
        /\ UNCHANGED << p, place >>
    BY DEF Queued
  <1>2. ThreadTypes' /\ attempt' = attempt
    BY <1>1, GoOnTypes DEF IInv
  <1>3. LockTypes' /\ PlaceTypes'
    BY <1>1, Frames DEF IInv
  <1>4. exc_queue \in Nat
    BY TypeParts DEF IInv, QueueTypes
  <1>5. "RPA_QUEUED" \in Names \ Clicks /\ ~TakesMessage("RPA_QUEUED")
    BY DEF Names, Clicks, Results, TakesMessage
  <1>6. exc_queue' \in Nat /\ exc_queue' >= IF TakesMessage("RPA_QUEUED") /\ ~stopped THEN exc_queue + 1 ELSE exc_queue
    BY <1>1, <1>4, <1>5
  <1>7. QueueTypes' /\ NeverBlocks' /\ OneClick'
    BY <1>1, <1>2, <1>5, <1>6, EmitStep DEF IInv
  <1> QED
    BY <1>2, <1>3, <1>7 DEF Connected

LEMMA ConstructStep ==
  ASSUME IInv, NEW i \in Attempts, Construct(i)
  PROVE  Connected(i)
  <1>1. GoOn(i, "wait") /\ t_rpa' = i /\ locked' = "None" /\ UNCHANGED << events, exc_queue, p, place, lock >>
    BY DEF Construct, queueVars
  <1>2. ThreadTypes' /\ attempt' = attempt
    BY <1>1, GoOnTypes DEF IInv
  <1>3. QueueTypes' /\ NeverBlocks' /\ OneClick'
    BY <1>1, <1>2, QueueStays
  <1>4. PlaceTypes'
    BY <1>1, Frames DEF IInv
  <1>5. LockTypes
    BY TypeParts DEF IInv
  <1>6. rpa_outcome' \in Outcomes
    <2>1. Outcome(FALSE, "None") \in Outcomes /\ Outcome(TRUE, "None") \in Outcomes
      BY DEF Outcome, Outcomes
    <2> QED
      BY <2>1 DEF Construct
  <1>7. process' \in [Attempts -> {"none", "asked", "waiting", "assigned", "over", "dead"}]
    BY <1>5 DEF Construct, LockTypes
  <1>8. LockTypes'
    BY <1>1, <1>5, <1>6, <1>7, Numbers DEF LockTypes
  <1> QED
    BY <1>2, <1>3, <1>4, <1>8 DEF Connected

\* the thread only goes on to its next step
LEMMA GoOnStep ==
  ASSUME IInv, NEW i \in Attempts, NEW to \in {"ask", "replaced"}, GoOn(i, to),
         UNCHANGED << queueVars, lockVars, place, p >>
  PROVE  Connected(i)
  <1>1. ThreadTypes' /\ attempt' = attempt
    BY GoOnTypes DEF IInv
  <1>2. QueueTypes' /\ NeverBlocks' /\ OneClick'
    BY <1>1, QueueStays DEF queueVars
  <1>3. LockTypes' /\ PlaceTypes'
    BY Frames DEF IInv
  <1> QED
    BY <1>1, <1>2, <1>3 DEF Connected

LEMMA ConnectInv ==
  ASSUME IInv, NEW i \in Attempts, Connect(i)
  PROVE  IInv'
  <1>1. /\ overtaken' = (overtaken \/ (connect[i] = "ask" /\ t_rpa' = i))
        /\ UNCHANGED << tkVars, refreshVars, webVars, rpa_main, rpa_msg_queue, stopped >>
    BY DEF Connect
  <1>2. \/ Fail(i) \/ Succeed(i) \/ Queued(i) \/ Construct(i)
        \/ \E to \in {"ask", "replaced"} : GoOn(i, to) /\ UNCHANGED << queueVars, lockVars, place, p >>
    BY DEF Connect, Call, Ask, ReadOutcome, AskReplaced
  <1>3. Connected(i)
    BY <1>2, FailStep, SucceedStep, QueuedStep, ConstructStep, GoOnStep
  <1>4. ClientTypes'
    <2>1. overtaken' \in BOOLEAN
      BY <1>1, TypeParts DEF IInv, ClientTypes
    <2> QED
      BY <1>1, <2>1, TypeParts DEF IInv, ClientTypes
  <1>5. UNCHANGED tkVars /\ UNCHANGED refreshVars /\ UNCHANGED webVars /\ UNCHANGED << refresh_exc_processed, stopped >>
    BY <1>1 DEF refreshVars
  <1>6. TypeOK'
    BY <1>3, <1>4, <1>5, Frames, TypePartsNext DEF IInv, Connected
  <1> QED
    BY <1>3, <1>6 DEF IInv, Connected

LEMMA PrepareInv ==
  ASSUME IInv, NEW i \in Attempts, Prepare(i)
  PROVE  IInv'
  <1>1. /\ UNCHANGED tkVars /\ UNCHANGED refreshVars /\ UNCHANGED lockVars /\ UNCHANGED << p, place >>
        /\ UNCHANGED << rpa_main, rpa_msg_queue >> /\ UNCHANGED << refresh_exc_processed, stopped >>
    BY DEF Prepare, clientVars, refreshVars
  <1>2. ThreadTypes /\ WebTypes /\ exc_queue \in Nat /\ stopped \in BOOLEAN
    BY TypeParts DEF IInv, QueueTypes, SignalTypes
  <1>3. PICK to \in {"started", "done"} : PrepareTo(i, to)
    BY DEF Prepare, PrepareFails, Prepared
  <1>4. ThreadTypes' /\ UNCHANGED << attempt, overtaken >>
    BY <1>2, <1>3 DEF PrepareTo, ThreadTypes
  <1>5. WebTypes'
    <2>1. UNCHANGED webVars \/ (web' = [web EXCEPT ![i] = "start"] /\ UNCHANGED runner)
      BY DEF Prepare, PrepareFails, Prepared, webVars
    <2> QED
      BY <1>2, <2>1 DEF WebTypes, Webs, webVars
  <1>6. QueueTypes' /\ NeverBlocks' /\ OneClick'
    <2>1. CASE PrepareFails(i)
      <3>1. exc_queue' = exc_queue + (IF stopped THEN 0 ELSE 1) /\ Emit("PREPARE_EXCEPTION")
        BY <2>1 DEF PrepareFails
      <3>2. "PREPARE_EXCEPTION" \in Names \ Clicks
        BY DEF Names, Clicks
      <3>3. /\ exc_queue' \in Nat
            /\ exc_queue' >= IF TakesMessage("PREPARE_EXCEPTION") /\ ~stopped THEN exc_queue + 1 ELSE exc_queue
        BY <1>2, <3>1
      <3> QED
        BY <1>4, <3>1, <3>2, <3>3, EmitStep DEF IInv
    <2>2. CASE Prepared(i) /\ Emit("RPA_PREPARED") /\ exc_queue' = exc_queue
      <3>1. "RPA_PREPARED" \in Names \ Clicks /\ ~TakesMessage("RPA_PREPARED")
        BY DEF Names, Clicks, Results, TakesMessage
      <3>2. exc_queue' \in Nat /\ exc_queue' >= IF TakesMessage("RPA_PREPARED") /\ ~stopped THEN exc_queue + 1 ELSE exc_queue
        BY <1>2, <2>2, <3>1
      <3> QED
        BY <1>4, <2>2, <3>1, <3>2, EmitStep DEF IInv
    <2>3. CASE UNCHANGED queueVars
      BY <1>4, <2>3, QueueStays DEF queueVars
    <2> QED
      BY <2>1, <2>2, <2>3 DEF Prepare, Prepared
  <1>7. UNCHANGED << rpa_main, overtaken, rpa_msg_queue >>
    BY <1>1, <1>4
  <1>8. TypeOK'
    BY <1>1, <1>4, <1>5, <1>6, <1>7, Frames, TypePartsNext DEF IInv
  <1> QED
    BY <1>6, <1>8 DEF IInv

LEMMA WebserverInv ==
  ASSUME IInv, NEW i \in Attempts, Webserver(i)
  PROVE  IInv'
  <1>1. /\ UNCHANGED tkVars /\ UNCHANGED refreshVars /\ UNCHANGED lockVars /\ UNCHANGED << p, place >>
        /\ UNCHANGED << rpa_main, overtaken, rpa_msg_queue >> /\ UNCHANGED << refresh_exc_processed, stopped >>
        /\ UNCHANGED << attempt, connect, prepare >>
    BY DEF Webserver, RunWebserver, WebserverEnds, clientVars, refreshVars, threadVars
  <1>2. WebTypes /\ exc_queue \in Nat
    BY TypeParts DEF IInv, QueueTypes
  <1>3. CASE RunWebserver(i)
    <2>1. web' = [web EXCEPT ![i] = "up"] /\ runner' = i /\ UNCHANGED << events, exc_queue >>
      BY <1>3 DEF RunWebserver, queueVars
    <2>2. WebTypes'
      BY <1>2, <2>1, Numbers DEF WebTypes, Webs
    <2>3. QueueTypes' /\ NeverBlocks' /\ OneClick'
      BY <1>1, <2>1, QueueStays
    <2>4. TypeOK'
      BY <1>1, <2>2, <2>3, Frames, TypePartsNext DEF IInv
    <2> QED
      BY <2>3, <2>4 DEF IInv
  <1>4. CASE WebserverEnds(i)
    <2>1. web' = [web EXCEPT ![i] = "done"] /\ runner' = runner /\ Emit("REMOTE_WEBSERVER_DOWN") /\ exc_queue' = exc_queue
      BY <1>4 DEF WebserverEnds
    <2>2. WebTypes'
      BY <1>2, <2>1 DEF WebTypes, Webs
    <2>3. "REMOTE_WEBSERVER_DOWN" \in Names \ Clicks /\ ~TakesMessage("REMOTE_WEBSERVER_DOWN")
      BY DEF Names, Clicks, Results, TakesMessage
    <2>4. /\ exc_queue' \in Nat
          /\ exc_queue' >= IF TakesMessage("REMOTE_WEBSERVER_DOWN") /\ ~stopped THEN exc_queue + 1 ELSE exc_queue
      BY <1>2, <2>1, <2>3
    <2>5. QueueTypes' /\ NeverBlocks' /\ OneClick'
      BY <1>1, <2>1, <2>3, <2>4, EmitStep DEF IInv
    <2>6. TypeOK'
      BY <1>1, <2>2, <2>5, Frames, TypePartsNext DEF IInv
    <2> QED
      BY <2>5, <2>6 DEF IInv
  <1> QED
    BY <1>3, <1>4 DEF Webserver

-----------------------------------------------------------------------------
(***************************************************************************)
(* The lock processes, the server and the thread that hands messages on.   *)
(***************************************************************************)
LEMMA SaysTypes ==
  ASSUME LockTypes, rpa_msg_queue \in Seq({"ASSIGNED", "WAITING"}), NEW i \in Attempts,
         NEW status \in {"ASSIGNED", "WAITING", "REPLACE", "REFUSE", "BYE"}, Says(i, status)
  PROVE  /\ rpa_outcome' \in Outcomes /\ locked' \in {"None", "True", "False"}
         /\ rpa_msg_queue' \in Seq({"ASSIGNED", "WAITING"})
  <1>1. rpa_outcome' \in Outcomes
    BY DEF Says, Outcome, Outcomes
  <1>2. locked' \in {"None", "True", "False"}
    BY DEF Says, LockTypes
  <1>3. rpa_msg_queue' \in Seq({"ASSIGNED", "WAITING"})
    BY AppendProperties DEF Says
  <1> QED
    BY <1>1, <1>2, <1>3

LEMMA LockProcessInv ==
  ASSUME IInv, NEW i \in Attempts, LockProcess(i)
  PROVE  IInv'
  <1>1. /\ UNCHANGED tkVars /\ UNCHANGED << events, exc_queue, attempt >> /\ UNCHANGED refreshVars
        /\ UNCHANGED << attempt, connect, prepare >> /\ UNCHANGED webVars /\ UNCHANGED << p, place >>
        /\ UNCHANGED << refresh_exc_processed, stopped >> /\ UNCHANGED << t_rpa, rpa_main, overtaken >>
    BY DEF LockProcess, queueVars, refreshVars, threadVars
  <1>2. LockTypes /\ ClientTypes /\ rpa_msg_queue \in Seq({"ASSIGNED", "WAITING"})
    BY TypeParts DEF IInv, ClientTypes
  <1>3. /\ process' \in [Attempts -> {"none", "asked", "waiting", "assigned", "over", "dead"}]
        /\ lock' \in 0 .. Other
    <2>1. \E to \in {"waiting", "assigned", "over", "dead"} :
            \/ process' = [process EXCEPT ![i] = to]
            \/ process' = [process EXCEPT ![i] = to, ![lock] = "over"]
      BY DEF LockProcess, Answer, ReplacesOwn, IsReplaced, Die, Becomes
    <2>2. lock' \in {lock, i, Other, NoOne}
      BY DEF LockProcess, Answer, ReplacesOwn, IsReplaced, Die
    <2>3. process' \in [Attempts -> {"none", "asked", "waiting", "assigned", "over", "dead"}]
      BY <1>2, <2>1 DEF LockTypes
    <2> QED
      BY <1>2, <2>2, <2>3, Numbers DEF LockTypes
  <1>4. /\ rpa_outcome' \in Outcomes /\ locked' \in {"None", "True", "False"}
        /\ rpa_msg_queue' \in Seq({"ASSIGNED", "WAITING"})
    <2>1. CASE Die(i)
      BY <1>2, <2>1 DEF Die, Outcome, Outcomes, LockTypes
    <2>2. CASE Answer(i) \/ IsReplaced(i)
      <3>1. PICK status \in {"ASSIGNED", "WAITING", "REPLACE", "REFUSE", "BYE"} : Says(i, status)
        BY <2>2 DEF Answer, IsReplaced
      <3> QED
        BY <1>2, <3>1, SaysTypes
    <2>3. CASE ReplacesOwn(i)
      <3>1. rpa_outcome' \in {Outcome(TRUE, "REPLACE"), Outcome(TRUE, "BYE")}
        BY <2>3 DEF ReplacesOwn
      <3>2. Outcome(TRUE, "REPLACE") \in Outcomes /\ Outcome(TRUE, "BYE") \in Outcomes
        BY DEF Outcome, Outcomes
      <3>4. rpa_outcome' \in Outcomes
        BY <3>1, <3>2
      <3>3. locked' \in {"True", "False", locked} /\ rpa_msg_queue' = rpa_msg_queue
        BY <2>3 DEF ReplacesOwn
      <3> QED
        BY <1>2, <3>4, <3>3 DEF LockTypes
    <2> QED
      BY <2>1, <2>2, <2>3 DEF LockProcess
  <1>5. LockTypes'
    BY <1>1, <1>2, <1>3, <1>4 DEF LockTypes
  <1>6. ClientTypes'
    BY <1>1, <1>2, <1>4 DEF ClientTypes
  <1>7. QueueTypes' /\ NeverBlocks' /\ OneClick'
    BY <1>1, QueueStays
  <1>8. TypeOK'
    BY <1>1, <1>5, <1>6, <1>7, Frames, TypePartsNext DEF IInv
  <1> QED
    BY <1>7, <1>8 DEF IInv

LEMMA OtherInstanceInv ==
  ASSUME IInv, OtherInstance
  PROVE  IInv'
  <1>1. /\ UNCHANGED tkVars /\ UNCHANGED << events, exc_queue, attempt >> /\ UNCHANGED refreshVars
        /\ UNCHANGED << attempt, connect, prepare >> /\ UNCHANGED webVars /\ UNCHANGED << p, place >>
        /\ UNCHANGED << refresh_exc_processed, stopped >> /\ UNCHANGED << rpa_main, overtaken, rpa_msg_queue >>
        /\ UNCHANGED << t_rpa, locked, rpa_outcome, process >>
    BY DEF OtherInstance, queueVars, refreshVars, threadVars, clientVars
  <1>2. LockTypes'
    <2>1. lock' \in {NoOne, Other}
      BY DEF OtherInstance
    <2> QED
      BY <1>1, <2>1, TypeParts, Numbers DEF IInv, LockTypes
  <1>3. QueueTypes' /\ NeverBlocks' /\ OneClick'
    BY <1>1, QueueStays
  <1>4. TypeOK'
    BY <1>1, <1>2, <1>3, Frames, TypePartsNext DEF IInv
  <1> QED
    BY <1>3, <1>4 DEF IInv

LEMMA HandOnInv ==
  ASSUME IInv, RPAEventHandlerThread
  PROVE  IInv'
  <1>1. /\ rpa_msg_queue # << >> /\ rpa_msg_queue' = Tail(rpa_msg_queue)
        /\ UNCHANGED tkVars /\ UNCHANGED refreshVars /\ UNCHANGED << attempt, connect, prepare >> /\ UNCHANGED webVars
        /\ UNCHANGED lockVars /\ UNCHANGED << p, place >> /\ UNCHANGED << refresh_exc_processed, stopped >>
        /\ UNCHANGED << rpa_main, overtaken, exc_queue >>
    BY DEF RPAEventHandlerThread, refreshVars, threadVars
  <1>2. ClientTypes /\ exc_queue \in Nat
    BY TypeParts DEF IInv, QueueTypes
  <1>3. ClientTypes'
    BY <1>1, <1>2, HeadTailProperties DEF ClientTypes
  <1>4. PICK name \in {"RPA_QUEUED", "RPA_LOCKED"} : Emit(name)
    BY DEF RPAEventHandlerThread
  <1>5. name \in Names \ Clicks /\ ~TakesMessage(name)
    BY DEF Names, Clicks, Results, TakesMessage
  <1>6. exc_queue' \in Nat /\ exc_queue' >= IF TakesMessage(name) /\ ~stopped THEN exc_queue + 1 ELSE exc_queue
    BY <1>1, <1>2, <1>5
  <1>7. QueueTypes' /\ NeverBlocks' /\ OneClick'
    BY <1>1, <1>4, <1>5, <1>6, EmitStep DEF IInv
  <1>8. TypeOK'
    BY <1>1, <1>3, <1>7, Frames, TypePartsNext DEF IInv
  <1> QED
    BY <1>7, <1>8 DEF IInv

-----------------------------------------------------------------------------
LEMMA InitInv == Init => IInv
  <1> SUFFICES ASSUME Init PROVE IInv
    OBVIOUS
  <1>1. events = << >> /\ exc_queue = 0 /\ DOMAIN events = {}
    BY DEF Init
  <1>2. WindowTypes /\ BoxTypes
    <2>1. /\ ui = [state |-> "INITIALISATION", after |-> FALSE, frame |-> "Initialisation",
                   settings |-> FALSE, header |-> FALSE, cancel |-> FALSE]
          /\ locked_connect = FALSE /\ boxes = << >> /\ grab = FALSE
      BY DEF Init
    <2>2. ui \in Screens
      BY <2>1 DEF Screens, States
    <2>3. boxes \in Seq({"MAIN_SCREEN", "SETTINGS"}) /\ Len(boxes) = 0
      BY <2>1
    <2>4. Len(boxes) <= MaxBoxes
      BY <2>3, Numbers
    <2>5. locked_connect \in BOOLEAN /\ grab \in BOOLEAN
      BY <2>1
    <2> QED
      BY <2>2, <2>3, <2>4, <2>5 DEF WindowTypes, BoxTypes
  <1>3. QueueTypes /\ RefreshTypes /\ SignalTypes
    <2>1. QueueTypes
      BY <1>1 DEF QueueTypes
    <2>2. refresh \in Results \cup {"query", "wait", "clear"}
      BY DEF Init
    <2>3. failures \in 0 .. MaxFailures
      BY Numbers DEF Init
    <2>4. refresh_exc_processed \in BOOLEAN /\ stopped \in BOOLEAN
      BY DEF Init
    <2> QED
      BY <2>1, <2>2, <2>3, <2>4 DEF RefreshTypes, SignalTypes
  <1>4. ThreadTypes /\ WebTypes
    BY Numbers DEF Init, ThreadTypes, WebTypes, Webs
  <1>5. LockTypes
    <2>1. lock \in 0 .. Other /\ t_rpa \in 0 .. MaxAttempts
      BY Numbers DEF Init
    <2>2. rpa_outcome \in Outcomes
      BY DEF Init, Outcome, Outcomes
    <2> QED
      BY <2>1, <2>2 DEF Init, LockTypes
  <1>6. PlaceTypes /\ ClientTypes
    <2>1. p \in 0 .. MaxAttempts
      BY Numbers DEF Init
    <2>2. place \in BOOLEAN /\ rpa_main \in BOOLEAN /\ overtaken \in BOOLEAN
      BY DEF Init
    <2>3. rpa_msg_queue \in Seq({"ASSIGNED", "WAITING"})
      BY DEF Init
    <2> QED
      BY <2>1, <2>2, <2>3 DEF PlaceTypes, ClientTypes
  <1>7. TypeOK
    BY <1>2, <1>3, <1>4, <1>5, <1>6, TypeParts
  <1>8. OneClick
    BY <1>1 DEF OneClick
  <1>9. NeverBlocks
    <2>1. {k \in DOMAIN events : TakesMessage(events[k].name)} = {}
      BY <1>1
    <2> QED
      BY <1>1, <2>1, FS_EmptySet DEF NeverBlocks
  <1> QED
    BY <1>7, <1>8, <1>9 DEF IInv

LEMMA NextInv == IInv /\ [Next]_vars => IInv'
  <1> SUFFICES ASSUME IInv, [Next]_vars PROVE IInv'
    OBVIOUS
  <1>1. CASE UNCHANGED vars
    <2>1. /\ UNCHANGED << tkVars, queueVars, refreshVars, threadVars, webVars, lockVars, clientVars, stopped >>
      BY <1>1 DEF vars
    <2>2. /\ UNCHANGED tkVars /\ UNCHANGED << events, exc_queue, attempt >> /\ UNCHANGED refreshVars
          /\ UNCHANGED << attempt, connect, prepare >> /\ UNCHANGED webVars /\ UNCHANGED lockVars /\ UNCHANGED << p, place >>
          /\ UNCHANGED << refresh_exc_processed, stopped >> /\ UNCHANGED << rpa_main, overtaken, rpa_msg_queue >>
      BY <2>1 DEF queueVars, refreshVars, threadVars, clientVars
    <2>3. QueueTypes' /\ NeverBlocks' /\ OneClick'
      BY <2>2, QueueStays
    <2>4. TypeOK'
      BY <2>2, <2>3, Frames, TypePartsNext DEF IInv
    <2> QED
      BY <2>3, <2>4 DEF IInv
  <1>2. CASE Process \/ Close \/ Stop \/ Refresh
    BY <1>2, ProcessInv, CloseInv, StopInv, RefreshInv
  <1>3. CASE \E name \in Clicks : Click(name)
    BY <1>3, ClickInv
  <1>4. CASE \E i \in Attempts : Connect(i) \/ Prepare(i) \/ Webserver(i) \/ LockProcess(i)
    BY <1>4, ConnectInv, PrepareInv, WebserverInv, LockProcessInv
  <1>5. CASE OtherInstance \/ RPAEventHandlerThread
    BY <1>5, OtherInstanceInv, HandOnInv
  <1> QED
    BY <1>1, <1>2, <1>3, <1>4, <1>5 DEF Next

\* The invariant, for any number of attempts, boxes and failures and any backlog of
\* events: what the queues hold is what the threads that send the events have put
\* there (rpa_gui.py:310-355).
THEOREM Invariance == Spec => []IInv
  <1> QED
    BY InitInv, NextInv, PTL DEF Spec

\* Every variable keeps its type; among others no attempt is started that the user
\* has not clicked for (rpa_gui.py:290-324).
THEOREM TypeCorrect == Spec => []TypeOK
  <1>1. IInv => TypeOK
    BY DEF IInv
  <1> QED
    BY <1>1, Invariance, PTL

\* Tk's thread never takes a message from an empty queue (rpa_gui.py:198, 201),
\* however many threads of former attempts fail while it has not yet shown what
\* failed before, and however many boxes are open.
THEOREM WindowNeverBlocks == Spec => []NeverBlocks
  <1>1. IInv => NeverBlocks
    BY DEF IInv
  <1> QED
    BY <1>1, Invariance, PTL

-----------------------------------------------------------------------------
(***************************************************************************)
(* Whose lock process there is.  Only a thread that has just been called   *)
(* starts one, or one that comes too late.                                 *)
(***************************************************************************)
Owned == NoOrphan /\ OneCalls

LEMMA Released ==
  ASSUME LockTypes, NoOrphan, ~overtaken, releasePlace
  PROVE  NobodyAsks'
  <1> SUFFICES ASSUME NEW i \in Attempts, Asking(i)' PROVE FALSE
    BY DEF NobodyAsks
  <1>1. process'[i] \in {"asked", "waiting", "assigned"}
    BY DEF Asking
  <1>2. CASE t_rpa # NoOne /\ process[t_rpa] # "dead"
    <2>1. process' = [process EXCEPT ![t_rpa] = "dead"]
      BY <1>2 DEF releasePlace
    <2>2. i # t_rpa /\ process'[i] = process[i]
      BY <1>1, <2>1 DEF LockTypes
    <2> QED
      BY <1>1, <2>2 DEF NoOrphan, Asking
  <1>3. CASE ~(t_rpa # NoOne /\ process[t_rpa] # "dead")
    <2>1. process' = process
      BY <1>3 DEF releasePlace
    <2>2. t_rpa = i
      BY <1>1, <2>1 DEF NoOrphan, Asking
    <2>3. i # NoOne
      BY Numbers DEF Attempts, NoOne
    <2> QED
      BY <1>1, <1>3, <2>1, <2>2, <2>3
  <1> QED
    BY <1>2, <1>3

\* No process more, no thread more that is to start one.
LEMMA NoMore ==
  ASSUME Owned, overtaken => overtaken', attempt' = attempt,
         ~overtaken' => \A i \in Attempts : Asking(i)' => Asking(i) /\ t_rpa' = t_rpa,
         \A i \in Attempts : connect'[i] = "call" => connect[i] = "call",
         ui'.state \in Idle => ui.state \in Idle
  PROVE  Owned'
  <1> SUFFICES ASSUME ~overtaken' PROVE Owned'
    BY DEF Owned, NoOrphan, OneCalls
  <1>1. ~overtaken
    OBVIOUS
  <1>2. \A i \in Attempts : Asking(i)' => t_rpa' = i
    BY <1>1 DEF Owned, NoOrphan
  <1>3. NobodyAsks => NobodyAsks'
    BY DEF NobodyAsks
  <1>4. OneCalls'
    BY <1>1, <1>3 DEF Owned, OneCalls
  <1> QED
    BY <1>2, <1>4 DEF Owned, NoOrphan

\* the main screen gives the place back
LEMMA MainScreenOwned ==
  ASSUME LockTypes, Owned, MainScreen, ui'.state = "MAIN_SCREEN"
  PROVE  Owned'
  <1> SUFFICES ASSUME ~overtaken' PROVE Owned'
    BY DEF Owned, NoOrphan, OneCalls
  <1>1. releasePlace /\ overtaken' = (overtaken \/ \E i \in Attempts : connect[i] = "call") /\ connect' = connect
    BY DEF MainScreen, GivenUp
  <1>2. ~overtaken /\ \A i \in Attempts : connect'[i] # "call"
    BY <1>1
  <1>3. NobodyAsks'
    BY <1>1, <1>2, Released DEF Owned
  <1> QED
    BY <1>2, <1>3 DEF Owned, NoOrphan, OneCalls, NobodyAsks

\* an attempt is made when nobody asks
LEMMA ConnectingOwned ==
  ASSUME ThreadTypes, Owned, NEW arg, Connecting(arg), ui'.state = "CONNECTING", ui.state \in Idle
  PROVE  Owned'
  <1> SUFFICES ASSUME ~overtaken' PROVE Owned'
    BY DEF Owned, NoOrphan, OneCalls
  <1>1. /\ attempt' = attempt + 1 /\ connect' = [connect EXCEPT ![attempt + 1] = "call"]
        /\ UNCHANGED << overtaken, t_rpa, process >>
    BY DEF Connecting, lockVars
  <1>2. ~overtaken /\ NobodyAsks /\ \A i \in Attempts : connect[i] # "call"
    BY <1>1 DEF Owned, OneCalls
  <1>3. NobodyAsks'
    BY <1>1, <1>2 DEF NobodyAsks, Asking
  <1>4. ui'.state \notin Idle
    BY DEF Idle
  <1>5. \A i \in Attempts : connect'[i] = "call" => i = attempt'
    BY <1>1, <1>2 DEF ThreadTypes
  <1> QED
    BY <1>3, <1>4, <1>5 DEF Owned, NoOrphan, OneCalls, NobodyAsks

\* the other states start and end no process
LEMMA EnterOwned ==
  ASSUME IInv, Owned, NEW dst \in States, NEW name, NEW arg, Enter(dst, name, arg),
         dst \in {"CONNECTING", "ALREADY_LOCKED"} => ui.state \in Idle, dst # "INITIALISATION"
  PROVE  Owned'
  <1>1. ui'.state = dst
    BY DEF Enter, Screen
  <1>2. LockTypes /\ ThreadTypes
    BY TypeParts DEF IInv
  <1>3. CASE dst = "MAIN_SCREEN"
    BY <1>1, <1>2, <1>3, MainScreenOwned DEF Enter
  <1>4. CASE dst = "CONNECTING"
    BY <1>1, <1>2, <1>4, ConnectingOwned DEF Enter
  <1>5. CASE dst \notin {"MAIN_SCREEN", "CONNECTING"}
    <2>1. UNCHANGED << attempt, connect, overtaken, t_rpa, process >>
      BY <1>5 DEF Enter, Preparing, threadVars, lockVars
    <2>2. \A i \in Attempts : Asking(i)' => Asking(i) /\ t_rpa' = t_rpa
      BY <2>1 DEF Asking
    <2>3. ui'.state \in Idle => ui.state \in Idle
      BY <1>1, <1>5 DEF Idle
    <2> QED
      BY <2>1, <2>2, <2>3, NoMore
  <1> QED
    BY <1>3, <1>4, <1>5

LEMMA ProcessOwned ==
  ASSUME IInv, Owned, Process
  PROVE  Owned'
  <1> DEFINE e == Head(events)
  <1>1. CASE UNCHANGED << tkVars, threadVars, lockVars >>
    <2>1. UNCHANGED << ui, attempt, connect, overtaken, t_rpa, process >>
      BY <1>1 DEF tkVars, threadVars, lockVars
    <2>2. \A i \in Attempts : Asking(i)' => Asking(i) /\ t_rpa' = t_rpa
      BY <2>1 DEF Asking
    <2> QED
      BY <2>1, <2>2, NoMore
  <1>2. ASSUME NEW dst \in Target(e.name), Open(e.name, dst) PROVE Owned'
    <2>1. UNCHANGED << ui, attempt, connect, overtaken >>
      BY <1>2 DEF Open, threadVars
    <2>2. ~overtaken' => \A i \in Attempts : Asking(i)' => Asking(i) /\ t_rpa' = t_rpa
      <3>1. CASE releasePlace
        BY <2>1, <3>1, Released, TypeParts DEF IInv, Owned, NobodyAsks
      <3>2. CASE UNCHANGED lockVars
        BY <3>2 DEF lockVars, Asking
      <3> QED
        BY <1>2, <3>1, <3>2 DEF Open
    <2> QED
      BY <2>1, <2>2, NoMore
  <1>3. ASSUME NEW dst \in Target(e.name), Enter(dst, e.name, e.arg) PROVE Owned'
    <2>1. /\ dst \in States /\ dst # "INITIALISATION"
          /\ dst \in {"CONNECTING", "ALREADY_LOCKED"} => ui.state \in Idle
      BY <1>3, TargetFacts
    <2> QED
      BY <1>3, <2>1, EnterOwned
  <1> QED
    BY <1>1, <1>2, <1>3 DEF Process

LEMMA CloseOwned ==
  ASSUME IInv, Owned, Close, Last(boxes) \in {"MAIN_SCREEN", "SETTINGS"}
  PROVE  Owned'
  <1>1. Enter(Last(boxes), "", "")
    BY DEF Close
  <1>2. Last(boxes) \in States
    BY DEF States
  <1> QED
    BY <1>1, <1>2, EnterOwned

\* A connect thread ends what there is, or starts a process when there is none.
LEMMA ConnectOwned ==
  ASSUME IInv, Owned, NEW i \in Attempts, Connect(i)
  PROVE  Owned'
  <1>1. /\ overtaken' = (overtaken \/ (connect[i] = "ask" /\ t_rpa' = i)) /\ UNCHANGED ui
    BY DEF Connect, tkVars
  <1>2. LockTypes /\ ThreadTypes
    BY TypeParts DEF IInv
  <1>3. CASE \E to \in {"ask", "replaced", "done"} : GoOn(i, to) /\ (releasePlace \/ UNCHANGED lockVars)
    <2>1. attempt' = attempt /\ \A j \in Attempts : connect'[j] = "call" => connect[j] = "call"
      BY <1>2, <1>3 DEF GoOn, ThreadTypes
    <2>2. ~overtaken' => \A j \in Attempts : Asking(j)' => Asking(j) /\ t_rpa' = t_rpa
      <3>1. CASE releasePlace
        BY <1>1, <1>2, <3>1, Released DEF Owned, NobodyAsks
      <3>2. CASE UNCHANGED lockVars
        BY <3>2 DEF lockVars, Asking
      <3> QED
        BY <1>3, <3>1, <3>2
    <2> QED
      BY <1>1, <2>1, <2>2, NoMore
  <1>4. CASE Construct(i) /\ connect[i] \in {"call", "ask"}
    <2> SUFFICES ASSUME ~overtaken' PROVE Owned'
      BY DEF Owned, NoOrphan, OneCalls
    <2>1. /\ t_rpa' = i /\ connect' = [connect EXCEPT ![i] = "wait"] /\ attempt' = attempt
          /\ \E to \in {"asked", "dead"} : process' = [process EXCEPT ![i] = to]
      BY <1>4 DEF Construct, GoOn
    <2>2. ~overtaken /\ connect[i] = "call"
      BY <1>1, <1>4, <2>1
    <2>3. NobodyAsks /\ ui.state \notin Idle /\ \A j \in Attempts : connect[j] = "call" => j = i
      BY <2>2 DEF Owned, OneCalls
    <2>4. \A j \in Attempts : connect'[j] # "call"
      BY <1>2, <2>1, <2>3 DEF ThreadTypes
    <2>5. \A j \in Attempts : Asking(j)' => j = i
      BY <1>2, <2>1, <2>3 DEF LockTypes, NobodyAsks, Asking
    <2> QED
      BY <1>1, <2>1, <2>3, <2>4, <2>5 DEF Owned, NoOrphan, OneCalls
  <1> QED
    BY <1>3, <1>4 DEF Connect, Call, Ask, ReadOutcome, AskReplaced, Fail, Succeed, Queued

LEMMA LockProcessOwned ==
  ASSUME IInv, Owned, NEW i \in Attempts, LockProcess(i)
  PROVE  Owned'
  <1>1. UNCHANGED << ui, attempt, connect, overtaken, t_rpa >>
    BY DEF LockProcess, tkVars, threadVars
  <1>2. LockTypes
    BY TypeParts DEF IInv
  <1>3. \A j \in Attempts : Asking(j)' => Asking(j)
    <2>1. CASE ReplacesOwn(i)
      <3>1. process' = [process EXCEPT ![i] = "assigned", ![lock] = "over"] /\ process[i] = "asked"
        BY <2>1 DEF ReplacesOwn
      <3>2. \A j \in Attempts : process'[j] \in {process[j], "over"} \/ (j = i /\ process[i] = "asked")
        BY <1>2, <3>1 DEF LockTypes
      <3> QED
        BY <1>1, <3>2 DEF Asking
    <2>2. CASE Answer(i) \/ IsReplaced(i) \/ Die(i)
      <3>1. PICK to \in {"waiting", "assigned", "over", "dead"} : process' = [process EXCEPT ![i] = to]
        BY <2>2 DEF Answer, IsReplaced, Die, Becomes
      <3>2. /\ \A j \in Attempts : j # i => process'[j] = process[j]
            /\ process'[i] = to
        BY <1>2, <3>1 DEF LockTypes
      <3>3. CASE Answer(i)
        <4>1. process[i] \in {"asked", "waiting"}
          BY <3>3 DEF Answer
        <4> QED
          BY <1>1, <3>2, <4>1 DEF Asking
      <3>4. CASE IsReplaced(i) \/ Die(i)
        <4>1. process' = [process EXCEPT ![i] = "over"] \/ process' = [process EXCEPT ![i] = "dead"]
          BY <3>4 DEF IsReplaced, Die, Becomes
        <4>2. process'[i] \in {"over", "dead"}
          BY <1>2, <4>1 DEF LockTypes
        <4> QED
          BY <1>1, <3>2, <4>2 DEF Asking
      <3> QED
        BY <2>2, <3>3, <3>4
    <2> QED
      BY <2>1, <2>2 DEF LockProcess
  <1> QED
    BY <1>1, <1>3, NoMore

\* what neither starts nor ends a process
LEMMA OthersOwned ==
  ASSUME Owned, UNCHANGED << ui, attempt, connect, overtaken, t_rpa, process >>
  PROVE  Owned'
  <1>1. \A i \in Attempts : Asking(i)' => Asking(i) /\ t_rpa' = t_rpa
    BY DEF Asking
  <1> QED
    BY <1>1, NoMore

LEMMA StopOwned ==
  ASSUME IInv, Owned, Stop
  PROVE  Owned'
  <1>1. releasePlace /\ UNCHANGED << ui, attempt, connect, overtaken >>
    BY DEF Stop, tkVars, threadVars
  <1>2. ~overtaken' => \A i \in Attempts : Asking(i)' => Asking(i) /\ t_rpa' = t_rpa
    BY <1>1, Released, TypeParts DEF IInv, Owned, NobodyAsks
  <1> QED
    BY <1>1, <1>2, NoMore

LEMMA NextOwned == IInv /\ Owned /\ [Next]_vars => Owned'
  <1> SUFFICES ASSUME IInv, Owned, [Next]_vars PROVE Owned'
    OBVIOUS
  <1>1. CASE UNCHANGED vars
    BY <1>1, OthersOwned DEF vars, tkVars, threadVars, lockVars
  <1>2. CASE Close
    BY <1>2, LastBox, CloseOwned DEF Close
  <1>3. CASE Process \/ Stop
    BY <1>3, ProcessOwned, StopOwned
  <1>4. CASE Refresh
    <2>1. UNCHANGED << tkVars, threadVars, lockVars >>
      BY <1>4 DEF Refresh, Query, Result, QueryFails, Wait, Clear
    <2> QED
      BY <2>1, OthersOwned DEF tkVars, threadVars, lockVars
  <1>5. CASE \E name \in Clicks : Click(name)
    <2>1. UNCHANGED << tkVars, threadVars, lockVars >>
      BY <1>5 DEF Click
    <2> QED
      BY <2>1, OthersOwned DEF tkVars, threadVars, lockVars
  <1>6. CASE \E i \in Attempts : Connect(i) \/ LockProcess(i)
    BY <1>6, ConnectOwned, LockProcessOwned
  <1>7. CASE \E i \in Attempts : Prepare(i) \/ Webserver(i)
    <2>1. UNCHANGED << ui, attempt, connect, overtaken, t_rpa, process >>
      BY <1>7 DEF Prepare, PrepareFails, Prepared, PrepareTo, Webserver, RunWebserver, WebserverEnds,
                  tkVars, threadVars, lockVars
    <2> QED
      BY <2>1, OthersOwned
  <1>8. CASE OtherInstance \/ RPAEventHandlerThread
    <2>1. UNCHANGED << ui, attempt, connect, overtaken, t_rpa, process >>
      BY <1>8 DEF OtherInstance, RPAEventHandlerThread, tkVars, threadVars, lockVars
    <2> QED
      BY <2>1, OthersOwned
  <1> QED
    BY <1>1, <1>2, <1>3, <1>4, <1>5, <1>6, <1>7, <1>8 DEF Next

LEMMA InitOwned == Init => Owned
  <1> SUFFICES ASSUME Init PROVE Owned
    OBVIOUS
  <1>1. \A i \in Attempts : process[i] = "none" /\ connect[i] = "none"
    BY DEF Init
  <1> QED
    BY <1>1 DEF Owned, NoOrphan, OneCalls, NobodyAsks, Asking

LEMMA AlwaysOwned == Spec => []Owned
  <1> QED
    BY InitOwned, NextOwned, Invariance, PTL DEF Spec

\* However many attempts are made, fail, and go on in the background: the process that
\* has the user's lock, or may get it, is the one the next releasePlace ends, unless a
\* thread has come too late (librpa.py:330-361, rpa_gui.py:144-147).
THEOREM NoProcessForgotten == Spec => []NoOrphan
  <1>1. Owned => NoOrphan
    BY DEF Owned
  <1> QED
    BY <1>1, AlwaysOwned, PTL

\* The main screen is shown with the place given back, whatever led to it: a click, a
\* failure, the webserver's end, the server's answer, in whatever order their events
\* came, unless a thread has come too late (rpa_gui.py:284-288).
THEOREM MainScreenIsFree == Spec => []MainScreenFree
  <1>1. Owned => MainScreenFree
    BY DEF Owned, OneCalls, NobodyAsks, Idle, MainScreenFree
  <1> QED
    BY <1>1, AlwaysOwned, PTL

-----------------------------------------------------------------------------
(***************************************************************************)
(* What the window waits for is on its way.                                *)
(***************************************************************************)
Answers == {"RPA_LOCKED", "RPA_QUEUED", "CONNECT_EXCEPTION"}
Reports == {"RPA_PREPARED", "PREPARE_EXCEPTION"}

Calls(i) == connect[i] \notin {"none", "done"}
Prepares(i) == prepare[i] \notin {"none", "done"}

FrameFits ==
  /\ ui.state = "MAIN_SCREEN" => ui.frame = "NewConnection"
  /\ ui.state = "ALREADY_LOCKED" => ui.frame = "AlreadyLocked"
  /\ ui.state = "CONNECTED" => ui.frame = "Connected"
  /\ ui.state \in {"CONNECTING", "WAITING"} => ui.frame = "Progress" /\ attempt \in Attempts
  /\ ui.state = "WAITING" => ui.cancel
  /\ ui.state = "SETTINGS" => ui.settings

ConnectGoesOn ==
  ~stopped /\ ui.state = "CONNECTING" => boxes # << >> \/ (\E i \in Attempts : Calls(i)) \/ Pending(Answers)
PrepareGoesOn ==
  ~stopped /\ ui.state = "PREPARING" => boxes # << >> \/ (\E i \in Attempts : Prepares(i)) \/ Pending(Reports)

GoesOn == FrameFits /\ ConnectGoesOn /\ PrepareGoesOn

LEMMA EmitPending ==
  ASSUME TypeOK, NEW name \in Names, Emit(name), ~stopped, NEW names
  PROVE  (name \in names => Pending(names)') /\ (Pending(names) => Pending(names)')
  <1> DEFINE e == Event(name, "")
  <1>1. e \in Events /\ e.name = name
    BY DEF Event, Events
  <1>2. events' = Append(events, e) /\ events \in Seq(Events)
    BY TypeParts DEF Emit, QueueTypes
  <1> HIDE DEF e
  <1>3. /\ DOMAIN events = 1 .. Len(events) /\ DOMAIN events' = 1 .. Len(events) + 1 /\ Len(events) \in Nat
        /\ \A k \in 1 .. Len(events) : events'[k] = events[k]
        /\ events'[Len(events) + 1] = e
    BY <1>1, <1>2, AppendProperties, LenProperties
  <1> QED
    BY <1>1, <1>3 DEF Pending

LEMMA TailPending ==
  ASSUME TypeOK, events # << >>, events' = Tail(events), NEW names, Pending(names), Head(events).name \notin names
  PROVE  Pending(names)'
  <1>1. events \in Seq(Events)
    BY TypeParts DEF QueueTypes
  <1>2. /\ Head(events) = events[1] /\ DOMAIN events = 1 .. Len(events) /\ Len(events) \in Nat
        /\ DOMAIN events' = 1 .. Len(events) - 1
        /\ \A k \in 1 .. Len(events) - 1 : events'[k] = events[k + 1]
    BY <1>1, HeadTailProperties, LenProperties, EmptySeq
  <1>3. PICK k \in DOMAIN events : events[k].name \in names
    BY DEF Pending
  <1>4. k # 1 /\ k - 1 \in DOMAIN events' /\ events'[k - 1] = events[k]
    BY <1>2, <1>3
  <1> QED
    BY <1>3, <1>4 DEF Pending

\* Nothing is taken from the queue, and a thread that ends has reported it.
LEMMA StillGoesOn ==
  ASSUME GoesOn, UNCHANGED << ui, boxes, attempt >>, stopped => stopped',
         ~stopped' => /\ \A names : Pending(names) => Pending(names)'
                      /\ \A i \in Attempts : Calls(i) => Calls(i)' \/ Pending(Answers)'
                      /\ \A i \in Attempts : Prepares(i) => Prepares(i)' \/ Pending(Reports)'
  PROVE  GoesOn'
  <1>1. FrameFits'
    BY DEF GoesOn, FrameFits
  <1>2. ConnectGoesOn'
    BY DEF GoesOn, ConnectGoesOn
  <1>3. PrepareGoesOn'
    BY DEF GoesOn, PrepareGoesOn
  <1> QED
    BY <1>1, <1>2, <1>3 DEF GoesOn

LEMMA EnterGoesOn ==
  ASSUME TypeOK, GoesOn, NEW dst \in States, NEW name, NEW arg, Enter(dst, name, arg),
         dst = "CONNECTING" => attempt < MaxAttempts,
         dst = "WAITING" => ui.state = "CONNECTING",
         dst = "PREPARING" => ui.state \in {"CONNECTING", "WAITING"}
  PROVE  GoesOn'
  <1>1. /\ ui'.state = dst /\ ui'.frame = SideFrame(dst) /\ ui'.settings = SettingsShown(dst, name)
        /\ ui'.cancel = QueueCancellable(dst)
    BY DEF Enter, Screen
  <1>2. ThreadTypes
    BY TypeParts
  <1>3. dst = "CONNECTING" => attempt' \in Attempts /\ Calls(attempt)'
    <2> SUFFICES ASSUME dst = "CONNECTING" PROVE attempt' \in Attempts /\ Calls(attempt)'
      OBVIOUS
    <2>1. attempt' = attempt + 1 /\ connect' = [connect EXCEPT ![attempt + 1] = "call"]
      BY DEF Enter, Connecting
    <2>2. attempt + 1 \in Attempts
      BY <1>2, Numbers DEF ThreadTypes, Attempts
    <2>3. connect'[attempt + 1] = "call"
      BY <1>2, <2>1, <2>2 DEF ThreadTypes
    <2> QED
      BY <2>1, <2>2, <2>3 DEF Calls
  <1>4. dst = "PREPARING" => attempt' \in Attempts /\ Prepares(attempt)'
    <2> SUFFICES ASSUME dst = "PREPARING" PROVE attempt' \in Attempts /\ Prepares(attempt)'
      OBVIOUS
    <2>1. prepare' = [prepare EXCEPT ![attempt] = "pip"] /\ attempt' = attempt
      BY DEF Enter, Preparing
    <2>2. attempt \in Attempts
      BY DEF GoesOn, FrameFits
    <2>3. prepare'[attempt] = "pip"
      BY <1>2, <2>1, <2>2 DEF ThreadTypes
    <2> QED
      BY <2>1, <2>2, <2>3 DEF Prepares
  <1>5. dst = "WAITING" => attempt' \in Attempts /\ ui'.frame = "Progress"
    <2>1. dst = "WAITING" => attempt' = attempt
      BY DEF Enter, threadVars
    <2>2. dst = "WAITING" => ui.frame = "Progress" /\ attempt \in Attempts
      BY DEF GoesOn, FrameFits
    <2> QED
      BY <1>1, <2>1, <2>2 DEF SideFrame
  <1>6. FrameFits'
    BY <1>1, <1>3, <1>5 DEF FrameFits, SideFrame, SettingsShown, QueueCancellable
  <1>7. ConnectGoesOn'
    BY <1>1, <1>3 DEF ConnectGoesOn
  <1>8. PrepareGoesOn'
    BY <1>1, <1>4 DEF PrepareGoesOn
  <1> QED
    BY <1>6, <1>7, <1>8 DEF GoesOn

LEMMA ProcessGoesOn ==
  ASSUME IInv, GoesOn, Process
  PROVE  GoesOn'
  <1> DEFINE e == Head(events)
  <1>1. events # << >> /\ events' = Tail(events) /\ TypeOK /\ stopped' = stopped
    BY DEF Process, IInv
  <1>2. CASE Target(e.name) = {} /\ UNCHANGED << tkVars, threadVars >>
    <2>1. UNCHANGED << ui, boxes, attempt, connect, prepare >>
      BY <1>2 DEF tkVars, threadVars
    <2>2. FrameFits'
      BY <2>1 DEF GoesOn, FrameFits
    <2>3. ConnectGoesOn'
      <3>1. ui.state = "CONNECTING" => e.name \notin Answers
        <4>1. \A name \in Answers : \E t \in transitions : t.src = "CONNECTING" /\ t.on = name
          <5>1. /\ Row("CONNECTING", "RPA_LOCKED", "PREPARING") \in transitions
                /\ Row("CONNECTING", "RPA_QUEUED", "WAITING") \in transitions
                /\ Row("CONNECTING", "CONNECT_EXCEPTION", "MAIN_SCREEN") \in transitions
            BY DEF transitions
          <5> QED
            BY <5>1 DEF Answers, Row
        <4> QED
          BY <1>2, <4>1 DEF Target
      <3>2. ui.state = "CONNECTING" /\ Pending(Answers) => Pending(Answers)'
        BY <1>1, <3>1, TailPending
      <3> QED
        BY <1>1, <2>1, <3>2 DEF GoesOn, ConnectGoesOn, Calls
    <2>4. PrepareGoesOn'
      <3>1. ui.state = "PREPARING" => e.name \notin Reports
        <4>1. \A name \in Reports : \E t \in transitions : t.src = "PREPARING" /\ t.on = name
          <5>1. /\ Row("PREPARING", "RPA_PREPARED", "CONNECTED") \in transitions
                /\ Row("PREPARING", "PREPARE_EXCEPTION", "MAIN_SCREEN") \in transitions
            BY DEF transitions
          <5> QED
            BY <5>1 DEF Reports, Row
        <4> QED
          BY <1>2, <4>1 DEF Target
      <3>2. ui.state = "PREPARING" /\ Pending(Reports) => Pending(Reports)'
        BY <1>1, <3>1, TailPending
      <3> QED
        BY <1>1, <2>1, <3>2 DEF GoesOn, PrepareGoesOn, Prepares
    <2> QED
      BY <2>2, <2>3, <2>4 DEF GoesOn
  <1>3. ASSUME NEW dst \in Target(e.name), Open(e.name, dst) PROVE GoesOn'
    <2>1. UNCHANGED << ui, attempt >> /\ boxes' = Append(boxes, dst)
      BY <1>3 DEF Open, threadVars
    <2>2. boxes' # << >>
      <3>1. boxes \in Seq({"MAIN_SCREEN", "SETTINGS"})
        BY TypeParts DEF IInv, BoxTypes
      <3>2. boxes \in Seq({"MAIN_SCREEN", "SETTINGS"} \cup {dst})
        BY <3>1
      <3>3. Len(boxes') = Len(boxes) + 1 /\ Len(boxes) \in Nat
        BY <2>1, <3>2, AppendProperties, LenProperties
      <3> QED
        BY <3>3
    <2>3. FrameFits'
      BY <2>1 DEF GoesOn, FrameFits
    <2> QED
      BY <2>2, <2>3 DEF GoesOn, ConnectGoesOn, PrepareGoesOn
  <1>4. ASSUME NEW dst \in Target(e.name), Enter(dst, e.name, e.arg) PROVE GoesOn'
    <2>1. /\ dst \in States /\ (dst = "CONNECTING" => e.name \in Connects)
          /\ dst = "WAITING" => ui.state = "CONNECTING"
          /\ dst = "PREPARING" => ui.state \in {"CONNECTING", "WAITING"}
      BY <1>4, TargetFacts
    <2>2. dst = "CONNECTING" => attempt < MaxAttempts
      BY <1>1, <2>1, TailStep
    <2> QED
      BY <1>1, <1>4, <2>1, <2>2, EnterGoesOn
  <1> QED
    BY <1>2, <1>3, <1>4 DEF Process

LEMMA CloseGoesOn ==
  ASSUME IInv, GoesOn, Close
  PROVE  GoesOn'
  <1>1. boxes # << >> /\ Enter(Last(boxes), "", "")
    BY DEF Close
  <1>2. Last(boxes) \in {"MAIN_SCREEN", "SETTINGS"} /\ Last(boxes) \in States
    BY <1>1, LastBox DEF States
  <1> QED
    BY <1>1, <1>2, EnterGoesOn DEF IInv

LEMMA ClickGoesOn ==
  ASSUME IInv, GoesOn, NEW name \in Clicks, Click(name)
  PROVE  GoesOn'
  <1>1. UNCHANGED << ui, boxes, attempt, connect, prepare, stopped >>
    BY DEF Click, tkVars, threadVars
  <1>2. PICK arg \in Args(name) : events' = Append(events, Event(name, arg))
    BY DEF Click
  <1> DEFINE e == Event(name, arg)
  <1>3. e \in Events
    BY DEF Event, Events, Names, Clicks, Args
  <1> HIDE DEF e
  <1>4. events' = Append(events, e) /\ events \in Seq(Events)
    BY <1>2, TypeParts DEF e, IInv, QueueTypes
  <1>5. /\ DOMAIN events = 1 .. Len(events) /\ DOMAIN events' = 1 .. Len(events) + 1 /\ Len(events) \in Nat
        /\ \A k \in 1 .. Len(events) : events'[k] = events[k]
    BY <1>3, <1>4, AppendProperties, LenProperties
  <1>6. \A names : Pending(names) => Pending(names)'
    BY <1>5 DEF Pending
  <1> QED
    BY <1>1, <1>6, StillGoesOn DEF Calls, Prepares

\* Everything else leaves the queue alone or sends an event.
LEMMA SendsOrNot ==
  ASSUME TypeOK, UNCHANGED events \/ \E name \in Names : Emit(name), ~stopped
  PROVE  \A names : Pending(names) => Pending(names)'
  <1>1. CASE UNCHANGED events
    BY <1>1 DEF Pending
  <1>2. CASE \E name \in Names : Emit(name)
    BY <1>2, EmitPending
  <1> QED
    BY <1>1, <1>2

LEMMA ConnectStepGoesOn ==
  ASSUME IInv, GoesOn, NEW i \in Attempts, Connect(i)
  PROVE  GoesOn'
  <1>1. UNCHANGED << ui, boxes, attempt, prepare, stopped >>
    BY DEF Connect, Call, Ask, ReadOutcome, AskReplaced, Fail, Succeed, Queued, Construct, GoOn, tkVars
  <1>2. TypeOK /\ ThreadTypes
    BY TypeParts DEF IInv
  <1>3. \/ GoOn(i, "done") /\ \E name \in Answers : Emit(name)
        \/ (\E to \in {"ask", "wait", "replaced"} : GoOn(i, to)) /\ UNCHANGED events
    BY DEF Connect, Call, Ask, ReadOutcome, AskReplaced, Fail, Succeed, Queued, Construct, Answers, queueVars
  <1> SUFFICES ASSUME ~stopped PROVE GoesOn'
    BY <1>1, StillGoesOn
  <1>4. Answers \subseteq Names
    BY DEF Answers, Names
  <1>5. \A names : Pending(names) => Pending(names)'
    BY <1>2, <1>3, <1>4, SendsOrNot
  <1>6. \A j \in Attempts : Calls(j) => Calls(j)' \/ Pending(Answers)'
    <2>1. CASE \E name \in Answers : Emit(name)
      BY <1>2, <1>4, <2>1, EmitPending
    <2>2. CASE \E to \in {"ask", "wait", "replaced"} : GoOn(i, to)
      BY <1>2, <2>2 DEF GoOn, Calls, ThreadTypes
    <2> QED
      BY <1>3, <2>1, <2>2
  <1> QED
    BY <1>1, <1>5, <1>6, StillGoesOn DEF Prepares

LEMMA PrepareStepGoesOn ==
  ASSUME IInv, GoesOn, NEW i \in Attempts, Prepare(i)
  PROVE  GoesOn'
  <1>1. UNCHANGED << ui, boxes, attempt, connect, stopped >>
    BY DEF Prepare, PrepareFails, Prepared, PrepareTo, tkVars
  <1>2. TypeOK /\ ThreadTypes
    BY TypeParts DEF IInv
  <1>3. \/ PrepareTo(i, "done") /\ \E name \in Reports : Emit(name)
        \/ PrepareTo(i, "started") /\ UNCHANGED events
    BY DEF Prepare, PrepareFails, Prepared, Reports, queueVars
  <1> SUFFICES ASSUME ~stopped PROVE GoesOn'
    BY <1>1, StillGoesOn
  <1>4. Reports \subseteq Names
    BY DEF Reports, Names
  <1>5. \A names : Pending(names) => Pending(names)'
    BY <1>2, <1>3, <1>4, SendsOrNot
  <1>6. \A j \in Attempts : Prepares(j) => Prepares(j)' \/ Pending(Reports)'
    <2>1. CASE \E name \in Reports : Emit(name)
      BY <1>2, <1>4, <2>1, EmitPending
    <2>2. CASE PrepareTo(i, "started")
      BY <1>2, <2>2 DEF PrepareTo, Prepares, ThreadTypes
    <2> QED
      BY <1>3, <2>1, <2>2
  <1> QED
    BY <1>1, <1>5, <1>6, StillGoesOn DEF Calls

\* what leaves window, threads and boxes alone
LEMMA OthersGoOn ==
  ASSUME IInv, GoesOn, UNCHANGED << ui, boxes, attempt, connect, prepare >>, stopped => stopped',
         UNCHANGED events \/ \E name \in Names : Emit(name)
  PROVE  GoesOn'
  <1>1. ~stopped' => \A names : Pending(names) => Pending(names)'
    BY SendsOrNot DEF IInv
  <1> QED
    BY <1>1, StillGoesOn DEF Calls, Prepares

LEMMA NextGoesOn == IInv /\ GoesOn /\ [Next]_vars => GoesOn'
  <1> SUFFICES ASSUME IInv, GoesOn, [Next]_vars PROVE GoesOn'
    OBVIOUS
  <1>1. CASE UNCHANGED vars
    BY <1>1, OthersGoOn DEF vars, tkVars, threadVars, queueVars
  <1>2. CASE Process \/ Close
    BY <1>2, ProcessGoesOn, CloseGoesOn
  <1>3. CASE \E name \in Clicks : Click(name)
    BY <1>3, ClickGoesOn
  <1>4. CASE \E i \in Attempts : Connect(i) \/ Prepare(i)
    BY <1>4, ConnectStepGoesOn, PrepareStepGoesOn
  <1>5. CASE Stop
    BY <1>5, OthersGoOn DEF Stop, tkVars, threadVars, queueVars
  <1>6. CASE Refresh
    <2>1. UNCHANGED << ui, boxes, attempt, connect, prepare, stopped >>
      BY <1>6 DEF Refresh, Query, Result, QueryFails, Wait, Clear, tkVars, threadVars
    <2>2. UNCHANGED events \/ \E name \in Results \cup {"REFRESH_EXCEPTION"} : Emit(name)
      BY <1>6 DEF Refresh, Query, Result, QueryFails, Wait, Clear, queueVars
    <2>3. Results \cup {"REFRESH_EXCEPTION"} \subseteq Names
      BY DEF Names
    <2> QED
      BY <2>1, <2>2, <2>3, OthersGoOn
  <1>7. CASE \E i \in Attempts : Webserver(i) \/ LockProcess(i)
    <2>1. UNCHANGED << ui, boxes, attempt, connect, prepare, stopped >>
      BY <1>7 DEF Webserver, RunWebserver, WebserverEnds, LockProcess, tkVars, threadVars
    <2>2. UNCHANGED events \/ Emit("REMOTE_WEBSERVER_DOWN")
      BY <1>7 DEF Webserver, RunWebserver, WebserverEnds, LockProcess, queueVars
    <2>3. "REMOTE_WEBSERVER_DOWN" \in Names
      BY DEF Names
    <2> QED
      BY <2>1, <2>2, <2>3, OthersGoOn
  <1>8. CASE OtherInstance \/ RPAEventHandlerThread
    <2>1. UNCHANGED << ui, boxes, attempt, connect, prepare, stopped >>
      BY <1>8 DEF OtherInstance, RPAEventHandlerThread, tkVars, threadVars
    <2>2. UNCHANGED events \/ \E name \in {"RPA_QUEUED", "RPA_LOCKED"} : Emit(name)
      BY <1>8 DEF OtherInstance, RPAEventHandlerThread, queueVars
    <2>3. {"RPA_QUEUED", "RPA_LOCKED"} \subseteq Names
      BY DEF Names
    <2> QED
      BY <2>1, <2>2, <2>3, OthersGoOn
  <1> QED
    BY <1>1, <1>2, <1>3, <1>4, <1>5, <1>6, <1>7, <1>8 DEF Next

LEMMA InitGoesOn == Init => GoesOn
  <1> SUFFICES ASSUME Init PROVE GoesOn
    OBVIOUS
  <1>1. ui.state = "INITIALISATION"
    BY DEF Init
  <1> QED
    BY <1>1 DEF GoesOn, FrameFits, ConnectGoesOn, PrepareGoesOn

\* A window at rest shows a button that the state machine has a transition for, or a
\* thread is at work that will change what it shows; the settings left behind by a box
\* under the one of a refresh exception are the one exception (rpa_gui.py:181-209).
\* It is so for any number of attempts and boxes, in whatever order they are closed.
THEOREM WindowNeverStuck == Spec => []NeverStuck
  <1>1. IInv /\ GoesOn => NeverStuck
    <2> SUFFICES ASSUME IInv, GoesOn, boxes = << >>, events = << >>, ~stopped, ui.state # "INITIALISATION",
                        ~(ui.settings /\ ui.state # "SETTINGS")
                 PROVE  \/ \E name \in Clicks : Button(name) /\ Target(name) # {}
                        \/ \E i \in Attempts : connect[i] \notin {"none", "done"} \/ prepare[i] \notin {"none", "done"}
      BY DEF NeverStuck
    <2>1. ui.state \in States
      BY TypeParts DEF IInv, WindowTypes, Screens
    <2>2. \A names : ~Pending(names)
      BY DEF Pending
    <2>3. CASE ui.state \in {"CONNECTING", "PREPARING"}
      BY <2>2, <2>3 DEF GoesOn, ConnectGoesOn, PrepareGoesOn, Calls, Prepares
    <2>4. ASSUME NEW src \in States, NEW name \in Clicks, NEW dst, Row(src, name, dst) \in transitions,
                 ui.state = src, Button(name)
          PROVE  \E n \in Clicks : Button(n) /\ Target(n) # {}
      <3>1. dst \in Target(name)
        BY <2>4 DEF Target, Row
      <3> QED
        BY <2>4, <3>1
    <2>5. /\ Row("MAIN_SCREEN", "CLICK_CONNECT", "CONNECTING") \in transitions
          /\ Row("SETTINGS", "CLICK_SETTINGS_EXIT", "MAIN_SCREEN") \in transitions
          /\ Row("ALREADY_LOCKED", "SELECT_CONNECTION_MODE", "CONNECTING") \in transitions
          /\ Row("WAITING", "CLICK_DISCONNECT", "MAIN_SCREEN") \in transitions
          /\ Row("CONNECTED", "CLICK_DISCONNECT", "MAIN_SCREEN") \in transitions
      BY DEF transitions
    <2>6. /\ ui.state = "MAIN_SCREEN" => Button("CLICK_CONNECT")
          /\ ui.state = "SETTINGS" => Button("CLICK_SETTINGS_EXIT")
          /\ ui.state = "ALREADY_LOCKED" => Button("SELECT_CONNECTION_MODE")
          /\ ui.state \in {"WAITING", "CONNECTED"} => Button("CLICK_DISCONNECT")
      BY DEF GoesOn, FrameFits, Button, FrameButton
    <2>7. {"CLICK_CONNECT", "CLICK_SETTINGS_EXIT", "SELECT_CONNECTION_MODE", "CLICK_DISCONNECT"} \subseteq Clicks
      BY DEF Clicks
    <2> QED
      BY <2>1, <2>3, <2>4, <2>5, <2>6, <2>7 DEF States
  <1>2. Spec => []GoesOn
    BY InitGoesOn, NextGoesOn, Invariance, PTL DEF Spec
  <1> QED
    BY <1>1, <1>2, Invariance, PTL

=============================================================================
