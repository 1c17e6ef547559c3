------------------------------- MODULE RpaGui -------------------------------
(***************************************************************************)
(* The graphical front end: the state machine of the thread "tk", which    *)
(* takes one event after the other, and the threads that send it events:   *)
(* the one that asks the server for the user's lock again and again, one   *)
(* that connects and one that prepares the place for each attempt, one per *)
(* remote webserver, and one that hands on the messages of the lock        *)
(* processes.  PlaceLock has the steps of the lock one by one; here what   *)
(* releasePlace does is one step, and so is a message from the server to   *)
(* the client.  The user clicks what can be seen.                          *)
(***************************************************************************)
EXTENDS Naturals, SequencesExt

CONSTANTS MaxAttempts,  \* bound on the attempts to connect
          MaxBoxes,     \* bound on the message boxes that are open at a time
          MaxFailures,  \* bound on the failures of the refresh thread
          Backlog       \* bound on the events Tk has not handled when another comes from outside

ASSUME GuiAssumption == {MaxAttempts, MaxBoxes, MaxFailures, Backlog} \subseteq Nat

VARIABLES
  ui, locked_connect, boxes, grab,         \* the machine, its window and its boxes
  events, exc_queue,                       \* Tk's events, and how many messages wait
  refresh, refresh_exc_processed, failures,  \* the refresh thread
  attempt, connect, prepare,               \* the threads of each attempt
  overtaken,                               \* history: a thread of an attempt has come too late
  web, runner,                             \* the remote webservers
  t_rpa, locked, rpa_main, place, rpa_outcome, p,  \* RPAClient, what t_rpa has, and the model's p
  process, lock, rpa_msg_queue,            \* the lock processes and the server
  stopped                                  \* event_tk_stopped and event_shutdown

tkVars      == << ui, locked_connect, boxes, grab >>
queueVars   == << events, exc_queue >>
refreshVars == << refresh, refresh_exc_processed, failures >>
threadVars  == << attempt, connect, prepare, overtaken >>
webVars     == << web, runner >>
lockVars    == << t_rpa, locked, rpa_outcome, process, lock >>   \* what releasePlace changes
clientVars  == << rpa_main, place, p, rpa_msg_queue >>
vars == << tkVars, queueVars, refreshVars, threadVars, webVars, lockVars, clientVars, stopped >>

Attempts == 1 .. MaxAttempts
NoOne  == 0               \* no thread, no place, or a lock that nobody has
Other  == MaxAttempts + 1 \* another instance of the program

Event(name, arg) == [name |-> name, arg |-> arg]
Pending(names) == \E k \in DOMAIN events : events[k].name \in names
Outcome(set, r) == [set |-> set, r |-> r]

\* What comes from outside, from the user, the server or ssh, takes longer than what
\* the threads do without waiting for it.
Settled ==
  /\ rpa_msg_queue = << >>
  /\ refresh # "clear" /\ ~(refresh = "wait" /\ refresh_exc_processed)
  /\ \A i \in Attempts : /\ connect[i] # "call" /\ ~(connect[i] = "wait" /\ rpa_outcome.set)
                         /\ prepare[i] # "started" /\ web[i] \notin {"start", "killed"}

Quiet == Settled /\ Len(events) <= Backlog

-----------------------------------------------------------------------------
(***************************************************************************)
(* The transitions.  RPA_UPDATE_ASSIGNED and RPA_UPDATE_UNASSIGNED are     *)
(* left out: nothing in the program sends them, nor <<StatusUpdate>>.      *)
(***************************************************************************)
Clicks  == {"CLICK_CONNECT", "CLICK_DISCONNECT", "CLICK_SETTINGS", "CLICK_SETTINGS_EXIT",
            "SELECT_CONNECTION_MODE"}
Results == {"RPA_QUERY_ASSIGNED", "RPA_QUERY_UNASSIGNED"}
States  == {"INITIALISATION", "SETTINGS", "MAIN_SCREEN", "ALREADY_LOCKED", "CONNECTING",
            "WAITING", "PREPARING", "CONNECTED"}

Row(src, name, dst) == [src |-> src, on |-> name, dst |-> dst]

transitions ==
  { Row("INITIALISATION", "RPA_QUERY_UNASSIGNED", "MAIN_SCREEN"),
    Row("INITIALISATION", "RPA_QUERY_ASSIGNED", "ALREADY_LOCKED"),
    Row("MAIN_SCREEN", "CLICK_CONNECT", "CONNECTING"),
    Row("MAIN_SCREEN", "CLICK_SETTINGS", "SETTINGS"),
    Row("MAIN_SCREEN", "RPA_QUERY_ASSIGNED", "ALREADY_LOCKED"),
    Row("SETTINGS", "CLICK_SETTINGS_EXIT", "MAIN_SCREEN"),
    Row("ALREADY_LOCKED", "RPA_QUERY_UNASSIGNED", "MAIN_SCREEN"),
    Row("ALREADY_LOCKED", "SELECT_CONNECTION_MODE", "CONNECTING"),
    Row("CONNECTING", "RPA_LOCKED", "PREPARING"),
    Row("CONNECTING", "RPA_QUEUED", "WAITING"),
    Row("CONNECTING", "CONNECT_EXCEPTION", "MAIN_SCREEN"),
    Row("WAITING", "RPA_LOCKED", "PREPARING"),
    Row("WAITING", "CLICK_DISCONNECT", "MAIN_SCREEN"),
    Row("PREPARING", "RPA_PREPARED", "CONNECTED"),
    Row("PREPARING", "PREPARE_EXCEPTION", "MAIN_SCREEN"),
    Row("PREPARING", "REMOTE_WEBSERVER_DOWN", "MAIN_SCREEN"),
    Row("CONNECTED", "CLICK_DISCONNECT", "MAIN_SCREEN"),
    Row("CONNECTED", "RPA_QUERY_UNASSIGNED", "MAIN_SCREEN"),
    Row("CONNECTED", "REMOTE_WEBSERVER_DOWN", "MAIN_SCREEN") }
  \cup { Row(s, "RPA_QUERY_UNASSIGNED", "MAIN_SCREEN") :
           s \in {s \in {"CONNECTING", "PREPARING"} : locked_connect} }
  \cup { Row(s, "REFRESH_EXCEPTION", "SETTINGS") : s \in States }

\* where an event leads to; no more than one transition ever applies
Target(name) == {t.dst : t \in {t \in transitions : t.src = ui.state /\ t.on = name}}

\* the transitions that wait for a message box before they do anything else
Boxed(name) ==
  \/ name \in {"CONNECT_EXCEPTION", "PREPARE_EXCEPTION", "REMOTE_WEBSERVER_DOWN", "REFRESH_EXCEPTION"}
  \/ name = "RPA_QUERY_UNASSIGNED" /\ ui.state \in {"CONNECTING", "PREPARING"}

\* those whose message comes out of exc_queue
TakesMessage(name) == name \in {"CONNECT_EXCEPTION", "PREPARE_EXCEPTION"}

Init == /\ ui = [state |-> "INITIALISATION", after |-> FALSE, frame |-> "Initialisation",
                 settings |-> FALSE, header |-> FALSE, cancel |-> FALSE]
        /\ locked_connect = FALSE /\ boxes = << >> /\ grab = FALSE
        /\ events = << >> /\ exc_queue = 0
        /\ refresh = "query" /\ refresh_exc_processed = FALSE /\ failures = 0
        /\ attempt = 0 /\ overtaken = FALSE
        /\ connect = [i \in Attempts |-> "none"] /\ prepare = [i \in Attempts |-> "none"]
        /\ web = [i \in Attempts |-> "none"] /\ runner = NoOne
        /\ t_rpa = NoOne /\ rpa_main = TRUE /\ place = FALSE /\ p = NoOne
        /\ rpa_outcome = Outcome(FALSE, "None")
        /\ process = [i \in Attempts |-> "none"] /\ locked = "None"
        /\ lock \in {NoOne, Other} /\ rpa_msg_queue = << >>
        /\ stopped = FALSE

-----------------------------------------------------------------------------
(***************************************************************************)
(* What the states do when they are entered.                               *)
(***************************************************************************)
\* a mutant: the thread is forgotten, not terminated
releaseForgets ==
  t_rpa' = NoOne /\ locked' = "None" /\ UNCHANGED << process, rpa_outcome, lock >>

\* the process of t_rpa ends, and with it its lock; its thread leaves the
\* process as the outcome
releasePlace ==
  /\ t_rpa' = NoOne /\ locked' = "None"
  /\ IF t_rpa # NoOne /\ process[t_rpa] # "dead"
       THEN /\ process' = [process EXCEPT ![t_rpa] = "dead"]
            /\ rpa_outcome' = Outcome(TRUE, "Popen")
            /\ lock' = IF lock = t_rpa THEN NoOne ELSE lock
       ELSE UNCHANGED << process, rpa_outcome, lock >>

\* runner has the last process that was started, also when it has ended
terminateWebserver ==
  /\ web' = [i \in Attempts |-> IF i = runner /\ web[i] = "up" THEN "killed" ELSE web[i]]
  /\ UNCHANGED runner

\* a mutant: the wait cannot be cancelled
NotCancellable(dst) == FALSE

\* whether the button to leave the wait queue is shown
QueueCancellable(dst) ==
  IF dst \in {"CONNECTING", "WAITING", "PREPARING"} THEN dst = "WAITING" ELSE ui.cancel

SideFrame(dst) ==
  CASE dst = "MAIN_SCREEN"    -> "NewConnection"
    [] dst = "ALREADY_LOCKED" -> "AlreadyLocked"
    [] dst = "CONNECTING"     -> "Progress"
    [] dst = "CONNECTED"      -> "Connected"
    [] OTHER                  -> ui.frame

\* the settings lie over the frames
SettingsShown(dst, name) == dst = "SETTINGS" \/ (ui.settings /\ name # "CLICK_SETTINGS_EXIT")

\* the button in the header goes with the frame, until the settings are shown or hidden
ShowButton(dst) ==
  CASE dst \in {"MAIN_SCREEN", "ALREADY_LOCKED"} -> TRUE
    [] dst \in {"CONNECTING", "CONNECTED"}       -> FALSE
    [] dst = "SETTINGS"                          -> ui.settings /\ ui.header
    [] OTHER                                     -> ui.header

Screen(dst, name) ==
  [state |-> dst, after |-> name = "SELECT_CONNECTION_MODE", frame |-> SideFrame(dst),
   settings |-> SettingsShown(dst, name), header |-> ShowButton(dst), cancel |-> QueueCancellable(dst)]

\* what is released comes too early for a thread that has not yet begun to ask for it
GivenUp ==
  /\ overtaken' = (overtaken \/ \E i \in Attempts : connect[i] = "call")
  /\ UNCHANGED << attempt, connect, prepare >>

\* a mutant: the place is not given back
MainScreenKeeps ==
  /\ terminateWebserver /\ refresh_exc_processed' = TRUE /\ GivenUp
  /\ UNCHANGED << lockVars, rpa_main >>

\* a mutant: the refresh thread is not told
MainScreenSilent ==
  /\ terminateWebserver /\ releasePlace /\ GivenUp
  /\ UNCHANGED << rpa_main, refresh_exc_processed >>

MainScreen ==
  /\ terminateWebserver /\ releasePlace /\ refresh_exc_processed' = TRUE /\ GivenUp
  /\ UNCHANGED rpa_main

Connecting(arg) ==
  /\ rpa_main' = (arg # "use")
  /\ attempt' = attempt + 1 /\ connect' = [connect EXCEPT ![attempt + 1] = "call"]
  /\ UNCHANGED << prepare, overtaken, webVars, lockVars, refresh_exc_processed >>

Preparing ==
  /\ prepare' = [prepare EXCEPT ![attempt] = "pip"]
  /\ UNCHANGED << attempt, connect, overtaken, webVars, lockVars, rpa_main, refresh_exc_processed >>

Enter(dst, name, arg) ==
  /\ ui' = Screen(dst, name)
  /\ CASE dst = "MAIN_SCREEN" -> MainScreen
       [] dst = "CONNECTING"  -> Connecting(arg)
       [] dst = "PREPARING"   -> Preparing
       [] OTHER -> UNCHANGED << threadVars, webVars, lockVars, rpa_main, refresh_exc_processed >>

\* infoBox runs Tk's loop until the box is closed: the transition stays half done
Open(name, dst) ==
  /\ Len(boxes) < MaxBoxes
  /\ boxes' = Append(boxes, dst) /\ grab' = TRUE
  /\ IF TakesMessage(name) THEN exc_queue > 0 /\ exc_queue' = exc_queue - 1 ELSE UNCHANGED exc_queue
  /\ IF name = "REFRESH_EXCEPTION" THEN terminateWebserver /\ releasePlace ELSE UNCHANGED << webVars, lockVars >>
  /\ UNCHANGED << ui, threadVars, rpa_main, refresh_exc_processed >>

\* one event, also while a box is open
Process ==
  /\ ~stopped /\ events # << >> /\ events' = Tail(events)
  /\ LET e == Head(events) IN
       \/ /\ Target(e.name) = {}
          /\ UNCHANGED << tkVars, exc_queue, refresh_exc_processed, threadVars, webVars, lockVars, rpa_main >>
       \/ /\ locked_connect' = ((locked_connect \/ ui.after) /\ e.name # "CLICK_CONNECT")
          /\ \E dst \in Target(e.name) :
               \/ Boxed(e.name) /\ Open(e.name, dst)
               \/ ~Boxed(e.name) /\ Enter(dst, e.name, e.arg) /\ UNCHANGED << boxes, grab, exc_queue >>
  /\ UNCHANGED << refresh, failures, place, p, rpa_msg_queue, stopped >>

\* The user closes the box on top; the transition it has held up goes on from
\* whatever state the machine is in by now.
Close ==
  /\ ~stopped /\ boxes # << >> /\ Settled
  /\ boxes' = Front(boxes) /\ grab' = FALSE
  /\ Enter(Last(boxes), "", "")
  /\ UNCHANGED << locked_connect, queueVars, refresh, failures, place, p, rpa_msg_queue, stopped >>

-----------------------------------------------------------------------------
(***************************************************************************)
(* The user.                                                               *)
(***************************************************************************)
FrameButton(name) ==
  CASE name = "CLICK_CONNECT"          -> ui.frame = "NewConnection"
    [] name = "SELECT_CONNECTION_MODE" -> ui.frame = "AlreadyLocked"
    [] name = "CLICK_DISCONNECT"       -> ui.frame = "Connected" \/ (ui.frame = "Progress" /\ ui.cancel)
    [] OTHER                           -> FALSE

Button(name) == \/ ~ui.settings /\ FrameButton(name)
                \/ name = "CLICK_SETTINGS" /\ ui.header
                \/ name = "CLICK_SETTINGS_EXIT" /\ ui.settings

Args(name) == IF name = "SELECT_CONNECTION_MODE" THEN {"own", "use"} ELSE {""}

Click(name) ==
  /\ ~stopped /\ ~grab /\ Quiet /\ ~Pending(Clicks)
  /\ (name \in {"CLICK_CONNECT", "SELECT_CONNECTION_MODE"} => attempt < MaxAttempts)
  /\ Button(name) /\ \E arg \in Args(name) : events' = Append(events, Event(name, arg))
  /\ UNCHANGED << tkVars, exc_queue, refreshVars, threadVars, webVars, lockVars, clientVars, stopped >>

\* the window is closed, or the program interrupted; bound: not while a box is open
Stop ==
  /\ ~stopped /\ boxes = << >> /\ Quiet
  /\ stopped' = TRUE /\ releasePlace
  /\ UNCHANGED << tkVars, queueVars, refreshVars, threadVars, webVars, clientVars >>

-----------------------------------------------------------------------------
(***************************************************************************)
(* The refresh thread.  Bound: at most one result is on its way.           *)
(***************************************************************************)
Emit(name) == events' = IF stopped THEN events ELSE Append(events, Event(name, ""))

\* the answer is the server's, and old when it arrives
Query ==
  /\ refresh = "query" /\ ~stopped /\ Quiet /\ ~Pending(Results)
  /\ \/ lock # NoOne /\ refresh' = "RPA_QUERY_ASSIGNED"
     \/ lock = NoOne /\ (\A i \in Attempts : process[i] # "waiting") /\ refresh' = "RPA_QUERY_UNASSIGNED"
  /\ UNCHANGED << tkVars, queueVars, refresh_exc_processed, failures, threadVars, webVars, lockVars, clientVars, stopped >>

Result ==
  /\ refresh \in Results /\ Quiet /\ Emit(refresh) /\ refresh' = "query"
  /\ UNCHANGED << tkVars, exc_queue, refresh_exc_processed, failures, threadVars, webVars, lockVars, clientVars, stopped >>

QueryFails ==
  /\ refresh = "query" /\ ~stopped /\ Quiet /\ failures < MaxFailures
  /\ refresh' = "wait" /\ failures' = failures + 1 /\ Emit("REFRESH_EXCEPTION")
  /\ UNCHANGED << tkVars, exc_queue, refresh_exc_processed, threadVars, webVars, lockVars, clientVars, stopped >>

\* the event may be set already, since the main screen was entered last
Wait ==
  /\ refresh = "wait" /\ refresh_exc_processed /\ refresh' = "clear"
  /\ UNCHANGED << tkVars, queueVars, refresh_exc_processed, failures, threadVars, webVars, lockVars, clientVars, stopped >>

Clear ==
  /\ refresh = "clear" /\ refresh' = "query" /\ refresh_exc_processed' = FALSE
  /\ UNCHANGED << tkVars, queueVars, failures, threadVars, webVars, lockVars, clientVars, stopped >>

Refresh == Query \/ Result \/ QueryFails \/ Wait \/ Clear

-----------------------------------------------------------------------------
(***************************************************************************)
(* The thread "connect".                                                   *)
(***************************************************************************)
GoOn(i, to) == connect' = [connect EXCEPT ![i] = to] /\ UNCHANGED << attempt, prepare >>

\* a mutant: the failure leaves no message
FailUnexplained(i) ==
  /\ GoOn(i, "done") /\ releasePlace /\ Emit("CONNECT_EXCEPTION")
  /\ UNCHANGED << exc_queue, place, p >>

\* a mutant: the failure is not reported
FailSilent(i) ==
  /\ GoOn(i, "done") /\ releasePlace /\ exc_queue' = exc_queue + 1
  /\ UNCHANGED << events, place, p >>

\* getPlace raises; if the loop of Tk has ended, so does the event
Fail(i) ==
  /\ GoOn(i, "done") /\ releasePlace
  /\ exc_queue' = exc_queue + 1 /\ Emit("CONNECT_EXCEPTION")
  /\ UNCHANGED << place, p >>

\* getPlace returns; when the event cannot be sent, the place is given back
Succeed(i) ==
  /\ GoOn(i, "done") /\ p' = i /\ place' = TRUE
  /\ Emit("RPA_LOCKED") /\ UNCHANGED exc_queue
  /\ IF stopped THEN releasePlace ELSE UNCHANGED lockVars

Queued(i) ==
  /\ GoOn(i, "done") /\ Emit("RPA_QUEUED")
  /\ UNCHANGED << exc_queue, lockVars, place, p >>

\* a lock thread is started, and its process, if ssh can be
Construct(i) ==
  /\ GoOn(i, "wait") /\ t_rpa' = i /\ locked' = "None"
  /\ \/ process' = [process EXCEPT ![i] = "asked"] /\ rpa_outcome' = Outcome(FALSE, "None")
     \/ process' = [process EXCEPT ![i] = "dead"] /\ rpa_outcome' = Outcome(TRUE, "None")
  /\ UNCHANGED << queueVars, place, p, lock >>

\* the lock is known to be there, and what place it is
Reuses == place /\ t_rpa # NoOne /\ locked # "False"

Call(i) ==
  /\ connect[i] = "call"
  /\ \/ rpa_main /\ Reuses /\ Succeed(i)
     \/ rpa_main /\ ~Reuses /\ Construct(i)
     \/ ~rpa_main /\ GoOn(i, "ask") /\ UNCHANGED << queueVars, lockVars, place, p >>

\* rpa_main is read again when the server has answered
Ask(i) ==
  /\ connect[i] = "ask" /\ Quiet
  /\ \/ Fail(i)
     \/ lock # NoOne /\ (place \/ ~rpa_main) /\ Succeed(i)
     \/ lock = NoOne /\ ~rpa_main /\ Fail(i)
     \/ ~(lock # NoOne /\ place) /\ rpa_main /\ Construct(i)

ReadOutcome(i) ==
  /\ connect[i] = "wait" /\ rpa_outcome.set
  /\ CASE rpa_outcome.r = "ASSIGNED" -> Succeed(i)
       [] rpa_outcome.r = "WAITING"  -> Queued(i)
       [] rpa_outcome.r = "REPLACE"  -> GoOn(i, "replaced") /\ UNCHANGED << queueVars, lockVars, place, p >>
       [] OTHER                      -> Fail(i)

\* the place that was taken over is asked for
AskReplaced(i) == connect[i] = "replaced" /\ Quiet /\ (Fail(i) \/ Succeed(i))

Connect(i) ==
  /\ Call(i) \/ Ask(i) \/ ReadOutcome(i) \/ AskReplaced(i)
  /\ overtaken' = (overtaken \/ (connect[i] = "ask" /\ t_rpa' = i))
  /\ UNCHANGED << tkVars, refreshVars, webVars, rpa_main, rpa_msg_queue, stopped >>

-----------------------------------------------------------------------------
(***************************************************************************)
(* The thread "prepare place", and the remote webserver it starts.         *)
(***************************************************************************)
PrepareTo(i, to) == prepare' = [prepare EXCEPT ![i] = to] /\ UNCHANGED << attempt, connect, overtaken >>

\* the software is installed on the place the model has now, if it has one
PrepareFails(i) ==
  /\ prepare[i] = "pip" /\ Quiet /\ PrepareTo(i, "done")
  /\ exc_queue' = exc_queue + (IF stopped THEN 0 ELSE 1) /\ Emit("PREPARE_EXCEPTION")
  /\ UNCHANGED webVars

Prepared(i) ==
  \/ /\ prepare[i] = "pip" /\ Quiet /\ p # NoOne /\ lock # NoOne
     /\ PrepareTo(i, "started") /\ web' = [web EXCEPT ![i] = "start"]
     /\ UNCHANGED << queueVars, runner >>
  \/ /\ prepare[i] = "started" /\ PrepareTo(i, "done") /\ Emit("RPA_PREPARED")
     /\ UNCHANGED << exc_queue, webVars >>

RunWebserver(i) ==
  /\ web[i] = "start" /\ web' = [web EXCEPT ![i] = "up"] /\ runner' = i
  /\ UNCHANGED << queueVars, threadVars >>

\* a mutant: only an end that was asked for is reported
WebserverEndsSilently(i) ==
  /\ web[i] \in {"start", "killed"} \/ (web[i] = "up" /\ Quiet)
  /\ web' = [web EXCEPT ![i] = "done"]
  /\ IF web[i] = "killed" THEN Emit("REMOTE_WEBSERVER_DOWN") ELSE UNCHANGED events
  /\ UNCHANGED << exc_queue, runner, threadVars >>

\* Its end is reported, however it comes: runCommand returns nothing that can
\* be used as a context.
WebserverEnds(i) ==
  /\ web[i] \in {"start", "killed"} \/ (web[i] = "up" /\ Quiet)
  /\ web' = [web EXCEPT ![i] = "done"]
  /\ Emit("REMOTE_WEBSERVER_DOWN")
  /\ UNCHANGED << exc_queue, runner, threadVars >>

Prepare(i) ==
  /\ PrepareFails(i) \/ Prepared(i)
  /\ UNCHANGED << tkVars, refreshVars, lockVars, clientVars, stopped >>

Webserver(i) ==
  /\ RunWebserver(i) \/ WebserverEnds(i)
  /\ UNCHANGED << tkVars, refreshVars, lockVars, clientVars, stopped >>

-----------------------------------------------------------------------------
(***************************************************************************)
(* The lock processes and the server (external), with the thread that      *)
(* reads what a process says; and the thread that hands it on to Tk.       *)
(***************************************************************************)
Says(i, status) ==
  /\ rpa_outcome' = Outcome(TRUE, status)
  /\ locked' = IF i # t_rpa THEN locked ELSE IF status \in {"ASSIGNED", "REPLACE"} THEN "True" ELSE "False"
  /\ rpa_msg_queue' = IF status \in {"ASSIGNED", "WAITING"} THEN Append(rpa_msg_queue, status) ELSE rpa_msg_queue

Becomes(i, to) == process' = [process EXCEPT ![i] = to]

Answer(i) ==
  \/ process[i] = "asked" /\ lock = NoOne /\ Becomes(i, "waiting") /\ Says(i, "WAITING") /\ UNCHANGED lock
  \/ process[i] \in {"asked", "waiting"} /\ lock = NoOne /\ Becomes(i, "assigned") /\ Says(i, "ASSIGNED") /\ lock' = i
  \/ process[i] = "asked" /\ lock = Other /\ Becomes(i, "assigned") /\ Says(i, "REPLACE") /\ lock' = i
  \/ process[i] = "asked" /\ Becomes(i, "dead") /\ Says(i, "REFUSE") /\ UNCHANGED lock

\* two threads have locked: the one holds the place, the other one takes it over
ReplacesOwn(i) ==
  /\ process[i] = "asked" /\ lock \in Attempts \ {i} /\ lock' = i
  /\ process' = [process EXCEPT ![i] = "assigned", ![lock] = "over"]
  /\ rpa_outcome' \in {Outcome(TRUE, "REPLACE"), Outcome(TRUE, "BYE")}
  /\ locked' = IF i = t_rpa THEN "True" ELSE IF lock = t_rpa THEN "False" ELSE locked
  /\ UNCHANGED rpa_msg_queue

IsReplaced(i) == Quiet /\ lock = i /\ lock' = Other /\ Becomes(i, "over") /\ Says(i, "BYE")

\* "broken pipe, stopping exec thread"
Die(i) ==
  /\ process[i] \in {"asked", "waiting", "assigned", "over"} /\ Quiet /\ Becomes(i, "dead")
  /\ rpa_outcome' = Outcome(TRUE, "Popen") /\ lock' = IF lock = i THEN NoOne ELSE lock
  /\ UNCHANGED << locked, rpa_msg_queue >>

LockProcess(i) ==
  /\ Answer(i) \/ ReplacesOwn(i) \/ IsReplaced(i) \/ Die(i)
  /\ UNCHANGED << tkVars, queueVars, refreshVars, threadVars, webVars, t_rpa, rpa_main, place, p, stopped >>

\* bound: no other instance asks while one of this client's does
OtherInstance ==
  /\ Quiet
  /\ \/ lock = Other /\ lock' = NoOne
     \/ lock = NoOne /\ (\A i \in Attempts : process[i] \notin {"asked", "waiting"}) /\ lock' = Other
  /\ UNCHANGED << tkVars, queueVars, refreshVars, threadVars, webVars, t_rpa, locked, rpa_outcome, process, clientVars, stopped >>

\* a mutant: only the wait is handed on
RPAEventHandlerThreadWaits ==
  /\ rpa_msg_queue # << >> /\ rpa_msg_queue' = Tail(rpa_msg_queue)
  /\ IF Head(rpa_msg_queue) = "WAITING" THEN Emit("RPA_QUEUED") ELSE UNCHANGED events
  /\ UNCHANGED << tkVars, exc_queue, refreshVars, threadVars, webVars, lockVars, rpa_main, place, p, stopped >>

RPAEventHandlerThread ==
  /\ rpa_msg_queue # << >> /\ rpa_msg_queue' = Tail(rpa_msg_queue)
  /\ Emit(IF Head(rpa_msg_queue) = "WAITING" THEN "RPA_QUEUED" ELSE "RPA_LOCKED")
  /\ UNCHANGED << tkVars, exc_queue, refreshVars, threadVars, webVars, lockVars, rpa_main, place, p, stopped >>

-----------------------------------------------------------------------------
Next == \/ Process \/ Close \/ Stop \/ Refresh
        \/ \E name \in Clicks : Click(name)
        \/ \E i \in Attempts : Connect(i) \/ Prepare(i) \/ Webserver(i) \/ LockProcess(i)
        \/ OtherInstance \/ RPAEventHandlerThread
        \/ (stopped /\ UNCHANGED vars)

\* Every thread goes on, ssh answers or fails, and the user closes the boxes and leaves
\* the settings; strong where Quiet holds a step back now and then.
Fairness ==
  /\ WF_vars(Process) /\ WF_vars(Close) /\ WF_vars(Click("CLICK_SETTINGS_EXIT"))
  /\ WF_vars(Query \/ QueryFails) /\ WF_vars(Result) /\ WF_vars(Wait) /\ WF_vars(Clear)
  /\ WF_vars(RPAEventHandlerThread)
  /\ \A i \in Attempts :
       /\ SF_vars(Connect(i)) /\ WF_vars(Prepare(i))
       /\ WF_vars(Webserver(i) /\ (web[i] # "up" \/ lock = NoOne))
       /\ WF_vars(LockProcess(i) /\ process[i] = "asked")

Spec == Init /\ [][Next]_vars /\ Fairness

-----------------------------------------------------------------------------
Names == Clicks \cup Results \cup
         {"RPA_LOCKED", "RPA_QUEUED", "RPA_PREPARED", "CONNECT_EXCEPTION", "PREPARE_EXCEPTION",
          "REFRESH_EXCEPTION", "REMOTE_WEBSERVER_DOWN"}

\* The values the variables take.
TypeOK ==
  /\ ui \in [state : States, after : BOOLEAN, settings : BOOLEAN, header : BOOLEAN, cancel : BOOLEAN,
             frame : {"Initialisation", "NewConnection", "AlreadyLocked", "Progress", "Connected"}]
  /\ locked_connect \in BOOLEAN /\ grab \in BOOLEAN /\ stopped \in BOOLEAN
  /\ events \in Seq([name : Names, arg : {"", "own", "use"}])
  /\ boxes \in Seq({"MAIN_SCREEN", "SETTINGS"}) /\ Len(boxes) <= MaxBoxes
  /\ exc_queue \in Nat /\ failures \in 0 .. MaxFailures
  /\ refresh \in Results \cup {"query", "wait", "clear"} /\ refresh_exc_processed \in BOOLEAN
  /\ attempt \in 0 .. MaxAttempts
  /\ connect \in [Attempts -> {"none", "call", "ask", "wait", "replaced", "done"}]
  /\ prepare \in [Attempts -> {"none", "pip", "started", "done"}]
  /\ web \in [Attempts -> {"none", "start", "up", "killed", "done"}]
  /\ runner \in 0 .. MaxAttempts /\ t_rpa \in 0 .. MaxAttempts /\ p \in 0 .. MaxAttempts
  /\ rpa_main \in BOOLEAN /\ place \in BOOLEAN
  /\ process \in [Attempts -> {"none", "asked", "waiting", "assigned", "over", "dead"}]
  /\ lock \in 0 .. Other /\ locked \in {"None", "True", "False"} /\ overtaken \in BOOLEAN
  /\ rpa_outcome \in [set : BOOLEAN, r : {"None", "Popen", "ASSIGNED", "WAITING", "REPLACE", "REFUSE", "BYE"}]
  /\ rpa_msg_queue \in Seq({"ASSIGNED", "WAITING"})

\* Tk's thread never takes a message from an empty queue, which would block the
\* window for good (rpa_gui.py:198, 201): there is one for each exception in its
\* queue of events, whichever threads have put them there and in what order.
NeverBlocks == Cardinality({k \in DOMAIN events : TakesMessage(events[k].name)}) <= exc_queue

Asking(i) == process[i] \in {"asked", "waiting", "assigned"}

\* A process that has the user's lock, or may get it, is the one that t_rpa stands
\* for, which the next releasePlace ends; after the program has stopped there is none
\* (rpa_gui.py:144-147).  It is so unless a thread comes too late.  One that was to use
\* the lock of another instance locks as well when a later attempt to own one has set
\* rpa_main before the server has answered (librpa.py:348, 357).  And one may not yet
\* have begun when messages of former attempts, which Tk takes for its own, have led
\* the window past it to the main screen: it locks there, for nobody.
NoOrphan == ~overtaken => \A i \in Attempts : Asking(i) => t_rpa = i

\* On the main screen the place is free again, though connect threads of former
\* attempts may still be at work (rpa_gui.py:286-287), unless one has come too late.
MainScreenFree ==
  ui.state = "MAIN_SCREEN" /\ ~overtaken => \A i \in Attempts : ~Asking(i)

\* When nothing is under way, some button that can be seen does something
\* (rpa_gui.py:181-209 against 717-723, 941-945, 974-991), whatever order boxes were
\* opened and closed in.  The exception: a box that was open under that of a refresh
\* exception leaves the settings shown in another state, which ignores their buttons.
NeverStuck ==
  boxes = << >> /\ events = << >> /\ rpa_msg_queue = << >> /\ ~stopped =>
    \/ \E name \in Clicks : Button(name) /\ Target(name) # {}
    \/ \E i \in Attempts : \/ connect[i] \notin {"none", "done"} \/ prepare[i] \notin {"none", "done"}
                           \/ web[i] \in {"start", "killed"}
    \/ ui.state = "INITIALISATION"
    \/ ui.settings /\ ui.state # "SETTINGS"

\* "Connecting" is not shown for ever: an answer, a failure or the loss of the process
\* reaches the window (rpa_gui.py:310-324).
EveryAttemptEnds == ui.state = "CONNECTING" ~> (ui.state # "CONNECTING" \/ stopped)

\* After a failure the refresh thread asks again, once the user has seen it; no step
\* of another thread between its wait and its clear stops it for good
\* (rpa_gui.py:265-269, 288).
RefreshResumes == refresh = "wait" ~> (refresh # "wait" \/ stopped)

\* Who waits in the queue and gets a place leaves the wait (rpa_gui.py:211).
WaitingServed == \A i \in Attempts :
   (ui.state = "WAITING" /\ process[i] = "assigned") ~> (ui.state # "WAITING" \/ stopped)

\* "Connected" is not shown for ever when no webserver is left, even if its end was
\* reported while the place was still being prepared (rpa_gui.py:205-206).
Serving == \E i \in Attempts : web[i] \in {"start", "up"}

ConnectedServed == (ui.state = "CONNECTED" /\ ~Serving) ~> (ui.state # "CONNECTED" \/ stopped)

\* "do nothing so far, wait for connection to be confirmed" (rpa_gui.py:315): once it
\* is confirmed, the preparation has a place to prepare.  It has not: getPlace has
\* raised before it could set p, and nothing sets it later.
PreparesAPlace == \A i \in Attempts : prepare[i] = "pip" /\ connect[i] = "done" => p # NoOne
=============================================================================
