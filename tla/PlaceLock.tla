------------------------------ MODULE PlaceLock ------------------------------
(***************************************************************************)
(* Locking a place of the remote lab: RPAClient and the threads it starts, *)
(* each of which runs one "rpa lock" process and reads what it prints.     *)
(*                                                                         *)
(* Two programs use the client.  In rpa_gui the thread "connect" calls     *)
(* Place, once, and releasePlace if it raises; the thread "tk" calls       *)
(* releasePlace at any time, and starts no connection before it is done    *)
(* with that.  In rpa_shell the main thread calls Place, then, when it has *)
(* a place, the thread that fetches the state does; "tk" stands for the    *)
(* main thread when it ends the program.  A step ends where another thread *)
(* can see a difference.                                                   *)
(***************************************************************************)
EXTENDS Naturals, Sequences

CONSTANTS Hosts,        \* the places
          Nobody,       \* holder of a lock that is free
          Elsewhere,    \* another instance of the program, of the same user
          MaxThreads,   \* bound on the threads started
          MaxNotes,     \* bound on the notes of a process
          Wishes,       \* the places that are asked for, and None
          Notes         \* the messages a holder gets while it holds its place

ASSUME LockAssumption == /\ {Nobody, Elsewhere} \cap (0 .. MaxThreads) = {}
                         /\ MaxThreads \in Nat /\ MaxNotes \in Nat
                         /\ Notes \subseteq {"EXTENDED", "INFO"}
                         /\ Wishes \subseteq Hosts \cup {"None"}

VARIABLES
  t_rpa, rpa_main, place, rpa_outcome,  \* RPAClient
  program,                              \* the one that uses the client
  at, want, result, joining,            \* its threads: where they are, and their locals
  thread, rpa_cmd, locked, r,        \* RPAExecThreads: where they are, and their attributes
  process, stdout, notes,               \* the processes
  lock                                  \* the user's lock at the server

clientVars  == << t_rpa, rpa_main, place, rpa_outcome >>
userVars    == << program, at, want, result, joining >>
threadVars  == << thread, rpa_cmd, locked, r >>
processVars == << process, stdout, notes >>
vars == << clientVars, userVars, threadVars, processVars, lock >>

None    == "None"
Unnamed == "Unnamed"   \* the name of an RPAPlace whose host is None
NoThread == 0
Threads  == 1 .. MaxThreads
Users    == {"connect", "tk"}

Statuses == {"ASSIGNED", "WAITING", "EXTENDED", "INFO", "REPLACE", "BYE", "REFUSE"}

\* what a process prints, and what rpa_outcome.r may be: None, a response, or
\* the process itself, each with the thread that has put it there
Message(status, host) == [status |-> status, host |-> host]
Outcome(i, status, host) == [thread |-> i, status |-> status, host |-> host]

Alive(i) == process[i] \notin {"none", "dead"}

Init == /\ t_rpa = NoThread /\ rpa_main = TRUE /\ place = None
        /\ rpa_outcome = [set |-> FALSE, r |-> Outcome(NoThread, None, None)]
        /\ program \in {"rpa_gui", "rpa_shell"}
        /\ at = [u \in Users |-> "idle"] /\ joining = [u \in Users |-> NoThread]
        /\ want = None /\ result = None
        /\ thread = [i \in Threads |-> "unused"] /\ rpa_cmd = [i \in Threads |-> None]
        /\ locked = [i \in Threads |-> None]
        /\ r = [i \in Threads |-> Message(None, None)]
        /\ process = [i \in Threads |-> "none"] /\ stdout = [i \in Threads |-> << >>]
        /\ notes = [i \in Threads |-> 0]
        /\ lock \in {[by |-> Nobody, host |-> None]}
                    \cup [by : {Elsewhere}, host : Hosts]

-----------------------------------------------------------------------------
(***************************************************************************)
(* Place, with the decorator require_place_connection.                     *)
(***************************************************************************)
GoOn(u, from, to) == at[u] = from /\ at' = [at EXCEPT ![u] = to]

\* the call is over: with a place, or with an exception, after which "connect"
\* calls releasePlace in rpa_gui, unless it is a QueuedException
Return(value, to) ==
  /\ at' = [at EXCEPT !["connect"] = to]
  /\ result' = value /\ want' = None

Raise(exception) ==
  Return(exception, IF program = "rpa_gui" /\ exception # "QueuedException" THEN "release" ELSE "idle")

Continue(from, to) == GoOn("connect", from, to) /\ UNCHANGED << result, want >>

\* The property LockState asks the server, or fails like any query.
LockState == IF lock.by = Nobody THEN Message("INFO", None) ELSE Message("ASSIGNED", lock.host)

\* rpa_gui connects from the main screen only, and rpa_shell ends when a call has
\* failed and when it has released the place
Call(h, main) ==
  /\ at["tk"] = "idle" /\ GoOn("connect", "idle", "is_locked")
  /\ \/ program = "rpa_gui" /\ t_rpa = NoThread
     \/ program = "rpa_shell" /\ result = None
     \/ /\ program = "rpa_shell" /\ result \in Hosts /\ h = None
        /\ main = rpa_main /\ (main => t_rpa # NoThread)
  /\ \E i \in Threads : thread[i] = "unused"
  /\ want' = h /\ rpa_main' = main /\ result' = None
  /\ UNCHANGED << t_rpa, place, rpa_outcome, program, joining, threadVars, processVars, lock >>

\* "if self._rpa_is_locked is False", "elif self.place is None"
IsLocked ==
  /\ \E isLocked \in IF ~rpa_main THEN {LockState.status = "ASSIGNED"}
                     ELSE IF t_rpa = NoThread THEN {FALSE} ELSE {locked[t_rpa] # "False"} :
       Continue("is_locked",
                IF isLocked /\ place # None THEN "check" ELSE IF rpa_main THEN "construct" ELSE "query")
  /\ UNCHANGED << clientVars, program, joining, threadVars, processVars, lock >>

IsLockedFails ==
  /\ at["connect"] = "is_locked" /\ ~rpa_main /\ Raise("ExecutorTerminatedException")
  /\ UNCHANGED << clientVars, program, joining, threadVars, processVars, lock >>

\* a mutant: the event is not cleared
ConstructKeeps ==
  /\ Continue("construct", "start")
  /\ \E i \in Threads :
       /\ thread[i] = "unused" /\ \A j \in 1 .. i - 1 : thread[j] # "unused"
       /\ thread' = [thread EXCEPT ![i] = "new"]
       /\ t_rpa' = i /\ rpa_cmd' = [rpa_cmd EXCEPT ![i] = want]
  /\ UNCHANGED << rpa_main, place, rpa_outcome, program, joining, locked, r, processVars, lock >>

\* the constructor of RPAExecThread clears the event; its thread is not started
Construct ==
  /\ Continue("construct", "start")
  /\ \E i \in Threads :
       /\ thread[i] = "unused" /\ \A j \in 1 .. i - 1 : thread[j] # "unused"
       /\ thread' = [thread EXCEPT ![i] = "new"]
       /\ t_rpa' = i /\ rpa_cmd' = [rpa_cmd EXCEPT ![i] = want]
  /\ rpa_outcome' = [rpa_outcome EXCEPT !.set = FALSE]
  /\ UNCHANGED << rpa_main, place, program, joining, locked, r, processVars, lock >>

\* "self.t_rpa.start()", if nobody has forgotten the thread
Start ==
  /\ \/ t_rpa = NoThread /\ at["connect"] = "start" /\ Raise("AttributeError") /\ UNCHANGED thread
     \/ t_rpa # NoThread /\ Continue("start", "wait") /\ thread' = [thread EXCEPT ![t_rpa] = "run"]
  /\ UNCHANGED << clientVars, program, joining, rpa_cmd, locked, r, processVars, lock >>

\* a mutant: REPLACE handled like ASSIGNED
ReadReplaced ==
  /\ at["connect"] = "wait" /\ rpa_outcome.set
  /\ \/ /\ rpa_outcome.r.status \in {"ASSIGNED", "REPLACE"}
        /\ Continue("wait", "check") /\ place' = rpa_outcome.r.host
     \/ /\ rpa_outcome.r.status \notin {"ASSIGNED", "REPLACE"}
        /\ Raise("ValueError") /\ UNCHANGED place
  /\ UNCHANGED << t_rpa, rpa_main, rpa_outcome, program, joining, threadVars, processVars, lock >>

\* The event stays set once it is: what is read is the latest outcome, not the
\* one that has woken the caller.  A Popen has no attribute "status".
ReadOutcome ==
  /\ at["connect"] = "wait" /\ rpa_outcome.set
  /\ CASE rpa_outcome.r.status = "ASSIGNED" -> Continue("wait", "check") /\ place' = rpa_outcome.r.host
       [] rpa_outcome.r.status = "REPLACE"  -> Continue("wait", "query") /\ UNCHANGED place
       [] rpa_outcome.r.status = "WAITING"  -> Raise("QueuedException") /\ UNCHANGED place
       [] rpa_outcome.r.status = "Popen"    -> Raise("AttributeError") /\ UNCHANGED place
       [] OTHER                             -> Raise("ValueError") /\ UNCHANGED place
  /\ UNCHANGED << t_rpa, rpa_main, rpa_outcome, program, joining, threadVars, processVars, lock >>

\* asked by the main instance after a REPLACE, and by any other in _rpa_connect;
\* only the latter looks at the status of the answer
Query ==
  /\ at["connect"] = "query"
  /\ \/ Raise("ExecutorTerminatedException") /\ UNCHANGED place
     \/ /\ ~rpa_main /\ LockState.status # "ASSIGNED"
        /\ Raise("ValueError") /\ UNCHANGED place
     \/ /\ rpa_main \/ LockState.status = "ASSIGNED"
        /\ place' = IF LockState.host = None THEN Unnamed ELSE LockState.host
        /\ Continue("query", "check")
  /\ UNCHANGED << t_rpa, rpa_main, rpa_outcome, program, joining, threadVars, processVars, lock >>

\* is it the place that was asked for?
Check ==
  /\ at["connect"] = "check"
  /\ \/ want \in {None, place} /\ Return(place, "idle")
     \/ want \notin {None, place} /\ Raise(IF place = Unnamed THEN "AttributeError" ELSE "ValueError")
  /\ UNCHANGED << clientVars, program, joining, threadVars, processVars, lock >>

\* SIGINT in the main thread of rpa_shell, whose handler releases the place and exits
HandleSigint ==
  /\ program = "rpa_shell" /\ at["connect"] # "idle" /\ at["tk"] = "idle" /\ Raise("SystemExit")
  /\ UNCHANGED << clientVars, program, joining, threadVars, processVars, lock >>

Place == \/ \E h \in Wishes, main \in BOOLEAN : Call(h, main)
         \/ IsLocked \/ IsLockedFails \/ Construct \/ Start \/ ReadOutcome \/ Query \/ Check

-----------------------------------------------------------------------------
(***************************************************************************)
(* releasePlace, which looks at t_rpa four times.  An exception ends it.   *)
(***************************************************************************)
Release(u) ==
  /\ \/ u = "tk" /\ t_rpa # NoThread /\ GoOn(u, "idle", "terminate")
        /\ (program = "rpa_gui" \/ at["connect"] = "idle" \/ place # None)
     \/ u = "connect" /\ GoOn(u, "release", IF t_rpa = NoThread THEN "idle" ELSE "terminate")
  /\ UNCHANGED << clientVars, program, want, result, joining, threadVars, processVars, lock >>

\* a process ends, and with it the lock it has
Kill(i) == /\ process' = [process EXCEPT ![i] = "dead"] /\ notes' = [notes EXCEPT ![i] = 0]
           /\ lock' = IF lock.by = i THEN [by |-> Nobody, host |-> None] ELSE lock

\* nothing happens if the thread has no process yet
Terminate(u) ==
  /\ GoOn(u, "terminate", IF t_rpa = NoThread THEN "idle" ELSE "join")
  /\ IF t_rpa # NoThread /\ process[t_rpa] # "none"
       THEN Kill(t_rpa) ELSE UNCHANGED << process, notes, lock >>
  /\ UNCHANGED << clientVars, program, want, result, joining, threadVars, stdout >>

\* None cannot be joined, nor a thread that was not started
Join(u) ==
  /\ GoOn(u, "join", IF t_rpa = NoThread \/ thread[t_rpa] = "new" THEN "idle" ELSE "joining")
  /\ joining' = [joining EXCEPT ![u] = t_rpa]
  /\ UNCHANGED << clientVars, program, want, result, threadVars, processVars, lock >>

\* a mutant: the thread is terminated but not joined
ForgetUnjoined(u) ==
  /\ GoOn(u, "joining", "idle")
  /\ t_rpa' = NoThread /\ joining' = [joining EXCEPT ![u] = NoThread]
  /\ UNCHANGED << rpa_main, place, rpa_outcome, program, want, result, threadVars, processVars, lock >>

Forget(u) ==
  /\ GoOn(u, "joining", "idle") /\ thread[joining[u]] = "done"
  /\ t_rpa' = NoThread /\ joining' = [joining EXCEPT ![u] = NoThread]
  /\ UNCHANGED << rpa_main, place, rpa_outcome, program, want, result, threadVars, processVars, lock >>

ReleasePlace(u) == Release(u) \/ Terminate(u) \/ Join(u) \/ Forget(u)

-----------------------------------------------------------------------------
(***************************************************************************)
(* RPAExecThread.                                                          *)
(***************************************************************************)
Step(i, from, to) == thread[i] = from /\ thread' = [thread EXCEPT ![i] = to]

Run(i) ==
  /\ Step(i, "run", "popen")
  /\ rpa_outcome' = [rpa_outcome EXCEPT !.r = Outcome(i, None, None)]
  /\ UNCHANGED << t_rpa, rpa_main, place, userVars, rpa_cmd, locked, r, processVars, lock >>

Popen(i) ==
  /\ Step(i, "popen", "reading") /\ process' = [process EXCEPT ![i] = "asked"]
  /\ UNCHANGED << clientVars, userVars, rpa_cmd, locked, r, stdout, notes, lock >>

\* a mutant: the callers are not woken
PopenFailsSilently(i) ==
  /\ Step(i, "popen", "done")
  /\ UNCHANGED << clientVars, userVars, rpa_cmd, locked, r, processVars, lock >>

PopenFails(i) ==
  /\ Step(i, "popen", "done") /\ rpa_outcome' = [rpa_outcome EXCEPT !.set = TRUE]
  /\ UNCHANGED << t_rpa, rpa_main, place, userVars, rpa_cmd, locked, r, processVars, lock >>

\* a mutant: an extension of the deadline counts as the loss of the place
ReadMessageStrict(i) ==
  LET m == Head(stdout[i])
      host == IF m.host = None THEN r[i].host ELSE m.host
  IN /\ stdout[i] # << >> /\ Step(i, "reading", "publish")
     /\ stdout' = [stdout EXCEPT ![i] = Tail(@)]
     /\ r' = [r EXCEPT ![i] = Message(m.status, host)]
     /\ locked' = [locked EXCEPT ![i] =
                     IF m.status \in {"ASSIGNED", "REPLACE"} THEN "True" ELSE "False"]
     /\ UNCHANGED << clientVars, userVars, rpa_cmd, process, notes, lock >>

\* yml_lines is never emptied: the host of an earlier message stays in force
ReadMessage(i) ==
  LET m == Head(stdout[i])
      host == IF m.host = None THEN r[i].host ELSE m.host
  IN /\ stdout[i] # << >> /\ Step(i, "reading", "publish")
     /\ stdout' = [stdout EXCEPT ![i] = Tail(@)]
     /\ r' = [r EXCEPT ![i] = Message(m.status, host)]
     /\ locked' = [locked EXCEPT ![i] =
                     IF m.status \in {"ASSIGNED", "REPLACE", "EXTENDED"} THEN "True" ELSE "False"]
     /\ UNCHANGED << clientVars, userVars, rpa_cmd, process, notes, lock >>

\* the outcome, the event, and the message for the event thread of the program,
\* which is not modelled
Publish(i) ==
  /\ Step(i, "publish", "reading")
  /\ rpa_outcome' = [set |-> TRUE, r |-> Outcome(i, r[i].status, r[i].host)]
  /\ UNCHANGED << t_rpa, rpa_main, place, userVars, rpa_cmd, locked, r, processVars, lock >>

\* "broken pipe, stopping exec thread"; what wakes the callers is the process
Eof(i) ==
  /\ Step(i, "reading", "done") /\ stdout[i] = << >> /\ process[i] = "dead"
  /\ rpa_outcome' = [set |-> TRUE, r |-> Outcome(i, "Popen", None)]
  /\ r' = [r EXCEPT ![i] = Message(None, None)]
  /\ UNCHANGED << t_rpa, rpa_main, place, userVars, rpa_cmd, locked, processVars, lock >>

RPAExecThread(i) == Run(i) \/ Popen(i) \/ PopenFails(i) \/ ReadMessage(i) \/ Publish(i) \/ Eof(i)

-----------------------------------------------------------------------------
(***************************************************************************)
(* The processes and the server (external).  A user has at most one lock;  *)
(* a process that asks for a second one takes over the first.              *)
(***************************************************************************)
Says(i, status, host) == stdout' = [stdout EXCEPT ![i] = Append(@, Message(status, host))]

Enqueue(i) ==
  /\ process[i] = "asked" /\ lock.by = Nobody
  /\ process' = [process EXCEPT ![i] = "waiting"] /\ Says(i, "WAITING", None)
  /\ UNCHANGED << clientVars, userVars, threadVars, notes, lock >>

Assign(i) ==
  /\ process[i] \in {"asked", "waiting"} /\ lock.by = Nobody
  /\ process' = [process EXCEPT ![i] = "assigned"]
  /\ \E h \in IF rpa_cmd[i] = None THEN Hosts ELSE {rpa_cmd[i]} :
       lock' = [by |-> i, host |-> h] /\ Says(i, "ASSIGNED", h)
  /\ UNCHANGED << clientVars, userVars, threadVars, notes >>

Refuse(i) ==
  /\ process[i] = "asked" /\ process' = [process EXCEPT ![i] = "dead"]
  /\ Says(i, "REFUSE", None)
  /\ UNCHANGED << clientVars, userVars, threadVars, notes, lock >>

\* the process that is replaced goes on without the lock
Replace(i) ==
  /\ process[i] = "asked" /\ lock.by # Nobody /\ lock' = [lock EXCEPT !.by = i]
  /\ process' = [j \in Threads |-> IF j = i THEN "assigned" ELSE IF j = lock.by THEN "over" ELSE process[j]]
  /\ stdout' = [j \in Threads |-> IF j = i THEN Append(stdout[j], Message("REPLACE", None))
                                  ELSE IF j = lock.by THEN Append(stdout[j], Message("BYE", None))
                                  ELSE stdout[j]]
  /\ UNCHANGED << clientVars, userVars, threadVars, notes >>

IsReplaced(i) ==
  /\ lock.by = i /\ lock' = [lock EXCEPT !.by = Elsewhere]
  /\ process' = [process EXCEPT ![i] = "over"] /\ Says(i, "BYE", None)
  /\ UNCHANGED << clientVars, userVars, threadVars, notes >>

Note(i) ==
  /\ process[i] = "assigned" /\ notes[i] < MaxNotes
  /\ notes' = [notes EXCEPT ![i] = @ + 1]
  /\ \E status \in Notes : Says(i, status, None)
  /\ UNCHANGED << clientVars, userVars, threadVars, process, lock >>

Die(i) ==
  /\ Alive(i) /\ Kill(i)
  /\ UNCHANGED << clientVars, userVars, threadVars, stdout >>

\* the other instance gives its place back; bounds: it asks for none that is free, and not
\* while a process lives that has lost it
GiveBack ==
  /\ lock.by = Elsewhere /\ (\A i \in Threads : process[i] # "over")
  /\ lock' = [by |-> Nobody, host |-> None]
  /\ UNCHANGED << clientVars, userVars, threadVars, processVars >>

Answer(i) == Enqueue(i) \/ Assign(i) \/ Refuse(i) \/ Replace(i)
Server(i) == Answer(i) \/ IsReplaced(i) \/ Note(i) \/ Die(i)

-----------------------------------------------------------------------------
Next == \/ Place \/ HandleSigint
        \/ \E u \in Users : ReleasePlace(u)
        \/ \E i \in Threads : RPAExecThread(i) \/ Server(i)
        \/ GiveBack

InPlace == at["connect"] \notin {"idle", "release", "terminate", "join", "joining"}

Fairness == /\ WF_vars(InPlace /\ Place)
            /\ \A i \in Threads : WF_vars(RPAExecThread(i)) /\ WF_vars(Answer(i) \/ (process[i] = "asked" /\ Die(i)))

Spec == Init /\ [][Next]_vars /\ Fairness

-----------------------------------------------------------------------------
Exceptions == {"QueuedException", "ValueError", "AttributeError", "ExecutorTerminatedException", "SystemExit"}

ASSUME NamesAssumption == Hosts \cap (Exceptions \cup {None, Unnamed}) = {}

Responses == [status : Statuses \cup {None}, host : Hosts \cup {None}]

\* Types; and a thread that waits for another knows for which.
TypeOK ==
  /\ t_rpa \in {NoThread} \cup Threads /\ rpa_main \in BOOLEAN
  /\ place \in Hosts \cup {None, Unnamed}
  /\ rpa_outcome \in [set : BOOLEAN, r : [thread : {NoThread} \cup Threads,
                                         status : Statuses \cup {None, "Popen"}, host : Hosts \cup {None}]]
  /\ program \in {"rpa_gui", "rpa_shell"}
  /\ at \in [Users -> {"idle", "is_locked", "construct", "start", "wait", "query", "check",
                       "release", "terminate", "join", "joining"}]
  /\ want \in Hosts \cup {None} /\ result \in Hosts \cup Exceptions \cup {None, Unnamed}
  /\ joining \in [Users -> {NoThread} \cup Threads]
  /\ \A u \in Users : at[u] = "joining" => joining[u] \in Threads
  /\ thread \in [Threads -> {"unused", "new", "run", "popen", "reading", "publish", "done"}]
  /\ rpa_cmd \in [Threads -> Hosts \cup {None}] /\ locked \in [Threads -> {None, "True", "False"}]
  /\ r \in [Threads -> Responses]
  /\ process \in [Threads -> {"none", "asked", "waiting", "assigned", "over", "dead"}]
  /\ stdout \in [Threads -> Seq(Responses)] /\ notes \in [Threads -> 0 .. MaxNotes]
  /\ lock \in [by : {Nobody, Elsewhere} \cup Threads, host : Hosts \cup {None}]

\* Whoever calls Place gets an answer, a place or an exception, if only ssh says
\* anything at all or ends: "don't starve waiting threads" (librpa.py:314).
EveryPlaceCallEnds == InPlace ~> ~InPlace

\* One process at a time asks for the user's lock or has it, as the server wants
\* it (rpa_shell.py:299).  In rpa_shell, which calls Place again and again, this
\* rests on what the thread thinks of its lock; in rpa_gui, where an answer, a
\* failure and a click may coincide, on releasePlace.
Asking(i) == process[i] \in {"asked", "waiting", "assigned"}

OneProcess == \A i, j \in Threads : Asking(i) /\ Asking(j) => i = j

\* When the client has no thread any more and nobody connects, no process is left
\* that has the place or may still get it, not even one that was starting when
\* releasePlace was called (librpa.py:483-491).  In rpa_shell it may be that the
\* state's thread was starting a new one while the main thread joined the old.
ReleaseStops ==
  t_rpa = NoThread /\ at["connect"] = "idle" =>
    \A i \in Threads : Asking(i) => program = "rpa_shell" /\ i > 1

\* All threads share one event and one outcome (librpa.py:244).  A caller is never
\* woken by the thread of a lock that was released; in rpa_shell it may be by the
\* thread of one that was lost, which lives on, but not with a place.
Latest == CHOOSE i \in Threads : thread[i] # "unused" /\ \A j \in i + 1 .. MaxThreads : thread[j] = "unused"

OwnOutcome ==
  at["connect"] = "wait" /\ rpa_outcome.set =>
    LET i == rpa_outcome.r.thread
    IN i = Latest \/ (program = "rpa_shell" /\ locked[i] = "False" /\ rpa_outcome.r.status # "ASSIGNED")

\* If the lock is this client's when Place returns, the place returned is the one
\* that is locked, also when it was taken over from another instance and the
\* message had no host in it (librpa.py:379-382).
RightPlace ==
  [][at["connect"] = "check" /\ at'["connect"] # "check" /\ lock.by \in Threads
       => result' \in Exceptions \cup {lock.host}]_vars

=============================================================================
