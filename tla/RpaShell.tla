------------------------------ MODULE RpaShell ------------------------------
(***************************************************************************)
(* rpa_shell, run several times by the same user, on one machine or on     *)
(* several: each run asks the server whether the user has a place, and     *)
(* becomes the master, which runs a lock process, or a client of the       *)
(* master there is.  The lock is followed from run to run; PlaceLock has   *)
(* the threads of one run step by step, with the notes a holder gets.      *)
(*                                                                         *)
(* A run calls Place once in main and, in the menu, twice more: in         *)
(* interactive_ui and in the thread it starts.  No two of these calls      *)
(* overlap, so one variable has them all.                                  *)
(***************************************************************************)
EXTENDS Naturals

CONSTANTS Shells,  \* the terminals
          NoOne,   \* holder of a lock that is free
          Options  \* the command lines that are used

CommandLines == [mode : {"", "take-over", "no-master"}, run : {"-t", "--scp", "-n", "shell"}]

\* a terminal without a run, or whose run is ending, has none
NoCommandLine == [mode |-> "", run |-> "none"]

ASSUME ShellAssumption == Options \subseteq CommandLines /\ NoOne \notin Shells

VARIABLES
  at, options, is_main_process,  \* a run: where it is, and what it is
  call,                          \* the call of Place
  stateFetcher, assignmentLost,  \* the thread of interactive_ui
  process, locked, rpa_outcome,  \* the lock process and what has come from it
  forgotten,                     \* a thread of an earlier lock process still reads
  lock                           \* the user's lock at the server

runVars     == << at, options, is_main_process >>
fetcherVars == << stateFetcher, assignmentLost >>
lockVars    == << process, locked, rpa_outcome, forgotten, lock >>
vars == << runVars, call, fetcherVars, lockVars >>

Running(i) == at[i] # "ended"
Asking(i)  == process[i] \in {"starting", "asked", "waiting", "assigned"}

Init == /\ at = [i \in Shells |-> "ended"] /\ options = [i \in Shells |-> NoCommandLine]
        /\ is_main_process = [i \in Shells |-> FALSE] /\ call = [i \in Shells |-> "none"]
        /\ stateFetcher = [i \in Shells |-> "none"] /\ assignmentLost = [i \in Shells |-> FALSE]
        /\ process = [i \in Shells |-> "none"] /\ locked = [i \in Shells |-> "None"]
        /\ rpa_outcome = [i \in Shells |-> "None"] /\ forgotten = [i \in Shells |-> FALSE]
        /\ lock = NoOne

GoOn(i, to) ==
  /\ at' = [at EXCEPT ![i] = to]
  /\ UNCHANGED << options, is_main_process, call, fetcherVars, lockVars >>

-----------------------------------------------------------------------------
(***************************************************************************)
(* How a run ends.  Whatever ends it, main leaves the "with" statement,    *)
(* which releases the place; an exception is shown as a message or as a    *)
(* traceback.  Python waits for the thread that reads from the lock        *)
(* process, and for those of earlier ones, but not for stateFetcher.       *)
(***************************************************************************)
\* a process that is not started yet is not terminated, only waited for
releasePlace(i) ==
  /\ process' = [process EXCEPT ![i] = IF @ \in {"none", "starting"} THEN @ ELSE "dead"]
  /\ rpa_outcome' = [rpa_outcome EXCEPT ![i] = IF process[i] \in {"none", "starting"} THEN @ ELSE "Popen"]
  /\ lock' = IF lock = i THEN NoOne ELSE lock
  /\ UNCHANGED locked

Terminated(i) == process[i] \in {"none", "dead"}

End(i) ==
  /\ at' = [at EXCEPT ![i] = "ending"] /\ releasePlace(i) /\ UNCHANGED forgotten
  /\ call' = [call EXCEPT ![i] = IF stateFetcher[i] = "place" THEN @ ELSE "none"]
  /\ options' = [options EXCEPT ![i] = NoCommandLine]
  /\ UNCHANGED << is_main_process, fetcherVars >>

\* nothing of a run is left but its terminal
Forget(i) ==
  /\ at' = [at EXCEPT ![i] = "ended"] /\ is_main_process' = [is_main_process EXCEPT ![i] = FALSE]
  /\ call' = [call EXCEPT ![i] = "none"]
  /\ stateFetcher' = [stateFetcher EXCEPT ![i] = "none"]
  /\ assignmentLost' = [assignmentLost EXCEPT ![i] = FALSE]
  /\ process' = [process EXCEPT ![i] = IF @ = "dead" THEN "none" ELSE @]
  /\ locked' = [locked EXCEPT ![i] = "None"] /\ rpa_outcome' = [rpa_outcome EXCEPT ![i] = "None"]
  /\ forgotten' = [forgotten EXCEPT ![i] = FALSE]

\* a mutant: the thread that reads is a daemon, too
LeaveAtOnce(i) ==
  /\ at[i] \in {"ending", "held"}
  /\ Forget(i) /\ UNCHANGED << options, lock >>

Leave(i) ==
  /\ at[i] \in {"ending", "held"} /\ Terminated(i) /\ ~forgotten[i]
  /\ Forget(i) /\ UNCHANGED << options, lock >>

\* a mutant: the thread is forgotten before it is waited for
handle_sigint_once(i) == at[i] \notin {"ended", "ending", "held"} /\ End(i)

\* main may be interrupted again while it waits: in releasePlace, or at the exit of the
\* interpreter, which then waits for no thread any more; a run that is held waits for a
\* thread it has forgotten, and is not interrupted here
handle_sigint(i) ==
  \/ at[i] \notin {"ended", "ending", "held"} /\ End(i)
  \/ /\ at[i] = "ending" /\ releasePlace(i)
     /\ forgotten' = [forgotten EXCEPT ![i] = @ /\ ~Terminated(i)]
     /\ UNCHANGED << runVars, call, fetcherVars >>

-----------------------------------------------------------------------------
(***************************************************************************)
(* main, up to the lock.                                                   *)
(***************************************************************************)
Start(i) ==
  /\ at[i] = "ended" /\ at' = [at EXCEPT ![i] = "start"]
  /\ options' \in {[options EXCEPT ![i] = o] : o \in Options}
  /\ UNCHANGED << is_main_process, call, fetcherVars, lockVars >>

\* the list of the places, or scp, whose code is not looked at
StatusOrScp(i) == at[i] = "start" /\ options[i].run \in {"-t", "--scp"} /\ End(i)

\* ConnectionStatus, as the server answers: INFO has a reason, and stands for two
ConnectionStatus ==
  IF lock # NoOne THEN "ASSIGNED"
  ELSE IF \E j \in Shells : process[j] = "waiting" THEN "QUEUED" ELSE "UNASSIGNED"

\* the query fails with the executor that carries it, or its answer decides; the mode
\* has no say in anything after it
evaluate_status(i) ==
  /\ at[i] = "start" /\ options[i].run \notin {"-t", "--scp"}
  /\ \/ End(i)
     \/ /\ \/ ConnectionStatus = "UNASSIGNED" /\ options[i].mode # "no-master"
           \/ ConnectionStatus = "ASSIGNED"
        /\ is_main_process' = [is_main_process EXCEPT
                                 ![i] = ConnectionStatus = "UNASSIGNED" \/ options[i].mode = "take-over"]
        /\ at' = [at EXCEPT ![i] = "place"] /\ call' = [call EXCEPT ![i] = "place"]
        /\ options' = [options EXCEPT ![i] = [mode |-> "", run |-> @.run]]
        /\ UNCHANGED << fetcherVars, lockVars >>

-----------------------------------------------------------------------------
(***************************************************************************)
(* Place: the master has a lock process started if it has no lock, the     *)
(* client asks the server.                                                 *)
(***************************************************************************)
CallTo(i, to) == call' = [call EXCEPT ![i] = to] /\ UNCHANGED << runVars, fetcherVars, lockVars >>

\* an exception ends main, but only the thread if stateFetcher calls, and nobody is told
Raise(i) ==
  \/ stateFetcher[i] # "place" /\ End(i)
  \/ /\ stateFetcher[i] = "place" /\ stateFetcher' = [stateFetcher EXCEPT ![i] = "failed"]
     /\ call' = [call EXCEPT ![i] = "none"] /\ UNCHANGED << runVars, assignmentLost, lockVars >>

Unlocked(i) == process[i] = "none" \/ locked[i] = "False"

\* a mutant: a client locks, as if rpa_main were left as it is
PlaceAny(i) ==
  /\ call[i] = "place" /\ Unlocked(i)
  /\ call' = [call EXCEPT ![i] = "locking"] /\ process' = [process EXCEPT ![i] = "starting"]
  /\ locked' = [locked EXCEPT ![i] = "None"] /\ rpa_outcome' = [rpa_outcome EXCEPT ![i] = "None"]
  /\ UNCHANGED << runVars, fetcherVars, forgotten, lock >>

\* A process that is locked over is forgotten, with its thread, which reads as long as
\* the process lives; it has lost the place (LocksOnce).  When main has given
\* the place back, stateFetcher may still see a lock or none at all; what it locks then
\* is not given back any more.
Place(i) ==
  /\ call[i] = "place"
  /\ \/ ~is_main_process[i] /\ CallTo(i, "query")
     \/ is_main_process[i] /\ ~Unlocked(i) /\ CallTo(i, "done")
     \/ /\ is_main_process[i] /\ (Unlocked(i) \/ at[i] = "ending")
        /\ call' = [call EXCEPT ![i] = "locking"] /\ process' = [process EXCEPT ![i] = "starting"]
        /\ locked' = [locked EXCEPT ![i] = "None"] /\ rpa_outcome' = [rpa_outcome EXCEPT ![i] = "None"]
        /\ forgotten' = [forgotten EXCEPT ![i] = @ \/ ~Terminated(i)]
        /\ at' = [at EXCEPT ![i] = IF @ = "ending" THEN "held" ELSE @]
        /\ UNCHANGED << options, is_main_process, fetcherVars, lock >>

\* a mutant: the end of the process is no outcome
ConnectedStarves(i) ==
  /\ call[i] = "locking" /\ rpa_outcome[i] \notin {"None", "Popen"}
  /\ \/ rpa_outcome[i] = "ASSIGNED" /\ CallTo(i, "done")
     \/ rpa_outcome[i] = "REPLACE" /\ CallTo(i, "query")
     \/ rpa_outcome[i] \notin {"ASSIGNED", "REPLACE"} /\ Raise(i)

\* a mutant: who has to wait goes on
ConnectedQueued(i) ==
  /\ call[i] = "locking" /\ rpa_outcome[i] # "None"
  /\ \/ rpa_outcome[i] \in {"ASSIGNED", "WAITING"} /\ CallTo(i, "done")
     \/ rpa_outcome[i] = "REPLACE" /\ CallTo(i, "query")
     \/ rpa_outcome[i] \notin {"ASSIGNED", "WAITING", "REPLACE"} /\ Raise(i)

\* the queue, too, is an exception that ends the run; a Popen has no status
Connected(i) ==
  /\ call[i] = "locking" /\ rpa_outcome[i] # "None"
  /\ \/ rpa_outcome[i] = "ASSIGNED" /\ CallTo(i, "done")
     \/ rpa_outcome[i] = "REPLACE" /\ CallTo(i, "query")
     \/ rpa_outcome[i] \notin {"ASSIGNED", "REPLACE"} /\ Raise(i)

\* a client must find a place, a master takes what the server answers
LockState(i) ==
  /\ call[i] = "query"
  /\ \/ Raise(i)
     \/ (is_main_process[i] \/ lock # NoOne) /\ CallTo(i, "done")

-----------------------------------------------------------------------------
(***************************************************************************)
(* main, when it has a place, and interactive_ui.                          *)
(***************************************************************************)
\* Place may have found another host than the one -c names, and programming may fail;
\* a copy that fails is not noticed
Prepare(i) ==
  /\ at[i] = "place" /\ call[i] = "done"
  /\ \/ End(i)
     \/ at' = [at EXCEPT ![i] = "open"] /\ call' = [call EXCEPT ![i] = "none"]
        /\ UNCHANGED << options, is_main_process, fetcherVars, lockVars >>

\* a mutant: a client shows the menu
OpenAny(i) ==
  /\ at[i] = "open"
  /\ \/ options[i].run = "shell" /\ GoOn(i, "shell")
     \/ /\ options[i].run = "-n"
        /\ at' = [at EXCEPT ![i] = "menu"] /\ call' = [call EXCEPT ![i] = "place"]
        /\ UNCHANGED << options, is_main_process, fetcherVars, lockVars >>

\* the shell or the command, or the menu, which a client does not show
Open(i) ==
  /\ at[i] = "open"
  /\ \/ options[i].run = "shell" /\ GoOn(i, "shell")
     \/ options[i].run = "-n" /\ ~is_main_process[i] /\ End(i)
     \/ /\ options[i].run = "-n" /\ is_main_process[i]
        /\ at' = [at EXCEPT ![i] = "menu"] /\ call' = [call EXCEPT ![i] = "place"]
        /\ UNCHANGED << options, is_main_process, fetcherVars, lockVars >>

\* the user leaves it, or ssh ends
CloseShell(i) == at[i] = "shell" /\ End(i)

StartFetcher(i) ==
  /\ at[i] = "menu" /\ call[i] = "done"
  /\ at' = [at EXCEPT ![i] = "wait"] /\ call' = [call EXCEPT ![i] = "place"]
  /\ stateFetcher' = [stateFetcher EXCEPT ![i] = "place"]
  /\ UNCHANGED << options, is_main_process, assignmentLost, lockVars >>

\* "place.set()"
FetcherPlaced(i) ==
  /\ stateFetcher[i] = "place" /\ call[i] = "done"
  /\ stateFetcher' = [stateFetcher EXCEPT ![i] = "watch"] /\ call' = [call EXCEPT ![i] = "none"]
  /\ UNCHANGED << runVars, assignmentLost, lockVars >>

\* "if not place.wait(5)"
MenuOpens(i) ==
  /\ at[i] = "wait"
  /\ \/ stateFetcher[i] \in {"place", "failed"} /\ End(i)
     \/ stateFetcher[i] \in {"watch", "dead"} /\ GoOn(i, "ui")

\* every other second
FetchState(i) ==
  /\ stateFetcher[i] = "watch"
  /\ assignmentLost' = [assignmentLost EXCEPT ![i] = @ \/ lock = NoOne]
  /\ UNCHANGED << runVars, call, stateFetcher, lockVars >>

FetchStateFails(i) ==
  /\ stateFetcher[i] = "watch" /\ stateFetcher' = [stateFetcher EXCEPT ![i] = "dead"]
  /\ UNCHANGED << runVars, call, assignmentLost, lockVars >>

\* "Lost rpa host assignment, quitting!", looked at every second, and before the key is
Quit(i) == at[i] = "ui" /\ assignmentLost[i] /\ End(i)

\* a mutant: the key is looked at first
KeyFirst(i) == \/ at[i] = "ui" /\ (End(i) \/ GoOn(i, "ui_shell"))
               \/ at[i] = "ui_shell" /\ GoOn(i, "ui")

Key(i) == \/ at[i] = "ui" /\ ~assignmentLost[i] /\ (End(i) \/ GoOn(i, "ui_shell"))
          \/ at[i] = "ui_shell" /\ GoOn(i, "ui")

-----------------------------------------------------------------------------
(***************************************************************************)
(* The lock processes and the server (external), as in PlaceLock, with the *)
(* thread that starts a process and reads what it says.                    *)
(***************************************************************************)
Popen(i) == /\ process[i] = "starting" /\ process' = [process EXCEPT ![i] = "asked"]
            /\ UNCHANGED << locked, rpa_outcome, forgotten, lock >>

Says(i, to, status) ==
  /\ process' = [process EXCEPT ![i] = to] /\ rpa_outcome' = [rpa_outcome EXCEPT ![i] = status]
  /\ locked' = [locked EXCEPT ![i] = IF status = "Popen" THEN @
                                     ELSE IF status = "ASSIGNED" THEN "True" ELSE "False"]
  /\ UNCHANGED forgotten

Enqueue(i) == process[i] = "asked" /\ lock = NoOne /\ Says(i, "waiting", "WAITING") /\ UNCHANGED lock
Assign(i)  == process[i] \in {"asked", "waiting"} /\ lock = NoOne /\ Says(i, "assigned", "ASSIGNED") /\ lock' = i
Refuse(i)  == process[i] = "asked" /\ Says(i, "over", "REFUSE") /\ UNCHANGED lock

\* the process that has the lock goes on without it
Replace(i) ==
  /\ process[i] = "asked" /\ lock \notin {NoOne, i} /\ lock' = i
  /\ process' = [process EXCEPT ![i] = "assigned", ![lock] = "over"]
  /\ rpa_outcome' = [rpa_outcome EXCEPT ![i] = "REPLACE", ![lock] = "BYE"]
  /\ locked' = [locked EXCEPT ![i] = "True", ![lock] = "False"] /\ UNCHANGED forgotten

Die(i) ==
  /\ process[i] \in {"starting", "asked", "waiting", "assigned", "over"} /\ Says(i, "dead", "Popen")
  /\ lock' = IF lock = i THEN NoOne ELSE lock

\* the processes that Place has forgotten, the last of them
ForgottenDies(i) ==
  /\ forgotten[i] /\ forgotten' = [forgotten EXCEPT ![i] = FALSE]
  /\ UNCHANGED << process, locked, rpa_outcome, lock >>

Answer(i) == Enqueue(i) \/ Assign(i) \/ Refuse(i) \/ Replace(i)
Server(i) == (Popen(i) \/ Answer(i) \/ Die(i) \/ ForgottenDies(i)) /\ UNCHANGED << runVars, call, fetcherVars >>

-----------------------------------------------------------------------------
CallOfPlace(i) == Place(i) \/ Connected(i) \/ LockState(i)

Main(i) == \/ StatusOrScp(i) \/ evaluate_status(i) \/ Prepare(i) \/ Open(i)
           \/ StartFetcher(i) \/ MenuOpens(i) \/ Quit(i) \/ Leave(i)

User(i) == Start(i) \/ CloseShell(i) \/ Key(i) \/ handle_sigint(i)

Fetcher(i) == FetcherPlaced(i) \/ FetchState(i) \/ FetchStateFails(i)

Next == \E i \in Shells : CallOfPlace(i) \/ Main(i) \/ User(i) \/ Fetcher(i) \/ Server(i)

\* The threads go on if they can, a process that is started and has asked gets an
\* answer, and the user interrupts a run that does not end once more.
Fairness ==
  \A i \in Shells :
    /\ WF_vars(CallOfPlace(i)) /\ WF_vars(Main(i)) /\ WF_vars(FetcherPlaced(i) \/ FetchState(i))
    /\ WF_vars(Server(i) /\ process[i] \in {"starting", "asked"} /\ UNCHANGED forgotten)
    /\ WF_vars(handle_sigint(i) /\ at[i] = "ending")

Spec == Init /\ [][Next]_vars /\ Fairness

-----------------------------------------------------------------------------
(***************************************************************************)
(* Properties.                                                             *)
(***************************************************************************)
\* The values the variables take; only a master shows the menu and watches its
\* lock, and only while it runs (rpa_shell.py:338-344 and :144).
TypeOK ==
  /\ at \in [Shells -> {"ended", "start", "place", "open", "shell", "menu", "wait", "ui", "ui_shell",
                        "ending", "held"}]
  /\ options \in [Shells -> CommandLines \cup {NoCommandLine}] /\ is_main_process \in [Shells -> BOOLEAN]
  /\ call \in [Shells -> {"none", "place", "locking", "query", "done"}]
  /\ stateFetcher \in [Shells -> {"none", "place", "failed", "watch", "dead"}]
  /\ assignmentLost \in [Shells -> BOOLEAN]
  /\ process \in [Shells -> {"none", "starting", "asked", "waiting", "assigned", "over", "dead"}]
  /\ locked \in [Shells -> {"None", "True", "False"}]
  /\ rpa_outcome \in [Shells -> {"None", "ASSIGNED", "WAITING", "REPLACE", "REFUSE", "BYE", "Popen"}]
  /\ lock \in Shells \cup {NoOne} /\ forgotten \in [Shells -> BOOLEAN]
  /\ \A i \in Shells : stateFetcher[i] # "none" => Running(i) /\ is_main_process[i]

\* A run that is over leaves no lock behind, nor a process that may still get one,
\* wherever it was interrupted: while its process was being started, in the queue, or
\* while stateFetcher was locking once more (librpa.py:483-491, rpa_shell.py:256-261).
EndReleases == \A i \in Shells : ~Running(i) => ~Asking(i) /\ lock # i

\* A run starts a second lock process only when the first can no longer get the lock:
\* though _locked is False in the queue as well, no call of Place finds it there, since
\* the one before has ended the run or the thread (librpa.py:405-406, :383-385).
LocksOnce ==
  [][\A i \in Shells : process'[i] = "starting" /\ process[i] # "starting" => ~Asking(i)]_vars

\* What a client does, and its end above all, leaves the lock alone: its master keeps
\* it (rpa_shell.py:303, librpa.py:393-399).
ClientsLeaveTheLock ==
  [][\A i \in Shells : at'[i] # at[i] /\ ~is_main_process[i] => lock' = lock]_vars

\* A run gets to its shell or its menu, or ends: no outcome of the lock process, and no
\* failure of the thread that calls Place, has it wait forever (librpa.py:311-315,
\* rpa_shell.py:147-149).
EveryRunStarts == \A i \in Shells :
  at[i] \in {"start", "place", "open", "menu", "wait"} ~> at[i] \in {"shell", "ui", "ending", "ended"}

\* A run that is to end does, if need be interrupted twice, unless stateFetcher has
\* locked once more behind its back (librpa.py:487-491).
EndsWhenAsked == \A i \in Shells : at[i] = "ending" ~> at[i] \in {"ended", "held"}

\* The menu of a run whose place is lost for good is not shown again and again, as
\* long as the thread that watches lives (rpa_shell.py:136-142, :168-171).
LossNoticed == \A i \in Shells :
  <>[](lock = NoOne /\ stateFetcher[i] = "watch") => <>[](at[i] # "ui")
=============================================================================
