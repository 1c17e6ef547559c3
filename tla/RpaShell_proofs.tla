--------------------------- MODULE RpaShell_proofs ---------------------------
(***************************************************************************)
(* Proofs about RpaShell, for any number of terminals and any set of       *)
(* command lines.                                                          *)
(***************************************************************************)
EXTENDS RpaShell, TLAPS

(***************************************************************************)
(* The inductive invariant.  Who has the lock runs a process that has been *)
(* assigned it, and knows; only a master runs a process; a run that has    *)
(* not asked yet or is over has neither process nor call; a process is     *)
(* started within a call of Place, and a call that begins when the run is  *)
(* ending finds none that lives; the menu and its thread are a master's,   *)
(* and the thread starts when the menu is waiting for it.  While a process *)
(* may still get the lock, the call that has started it is under way, or   *)
(* was the last one: the outcome tells that call that it has to wait.      *)
(***************************************************************************)
HolderIsAssigned == \A i \in Shells : lock = i => process[i] = "assigned" /\ locked[i] = "True"

OnlyMastersLock == \A i \in Shells : process[i] # "none" => is_main_process[i]

FreshOrOver == \A i \in Shells :
  at[i] \in {"ended", "start"} => process[i] = "none" /\ call[i] = "none"

StartedInCall == \A i \in Shells :
  /\ process[i] = "starting" => call[i] \in {"locking", "none"}
  /\ process[i] = "starting" /\ call[i] = "none" => at[i] \in {"ending", "held"}
  /\ call[i] = "place" /\ at[i] = "ending" => process[i] \in {"none", "dead"}
  /\ at[i] = "open" => call[i] = "none"

MenuOfMaster == \A i \in Shells :
  /\ at[i] \in {"menu", "wait", "ui", "ui_shell"} => is_main_process[i]
  /\ stateFetcher[i] # "none" => at[i] \in {"wait", "ui", "ui_shell", "ending", "held"}

OutcomeTells == \A i \in Shells :
  /\ process[i] \in {"starting", "asked"} => rpa_outcome[i] = "None"
  /\ process[i] = "waiting" => rpa_outcome[i] = "WAITING"
  /\ process[i] = "assigned" => locked[i] = "True"

AsksInCall == \A i \in Shells :
  process[i] \in {"starting", "asked", "waiting"} =>
    \/ call[i] = "locking"
    \/ call[i] = "none" /\ (at[i] \in {"ending", "held"} \/ stateFetcher[i] = "failed")

IInv ==
  /\ TypeOK /\ HolderIsAssigned /\ OnlyMastersLock /\ FreshOrOver /\ StartedInCall /\ MenuOfMaster
  /\ OutcomeTells /\ AsksInCall

LEMMA InitInv == Init => IInv
  BY ShellAssumption
  DEF Init, IInv, TypeOK, HolderIsAssigned, OnlyMastersLock, FreshOrOver, StartedInCall, MenuOfMaster, OutcomeTells,
      AsksInCall

-----------------------------------------------------------------------------
(***************************************************************************)
(* Every way a run ends releases the place; the ways it goes on.           *)
(***************************************************************************)
LEMMA ReleaseInv ==
  ASSUME IInv, NEW i \in Shells, releasePlace(i), UNCHANGED << runVars, call, fetcherVars >>,
         forgotten' \in [Shells -> BOOLEAN]
  PROVE  IInv'
  <1> USE DEF releasePlace, runVars, fetcherVars, IInv, TypeOK
  <1>1. TypeOK'
    BY ShellAssumption DEF Running
  <1>2. HolderIsAssigned' /\ OnlyMastersLock' /\ FreshOrOver'
    BY ShellAssumption DEF HolderIsAssigned, OnlyMastersLock, FreshOrOver
  <1>3. StartedInCall' /\ MenuOfMaster'
    BY DEF StartedInCall, MenuOfMaster
  <1>4. OutcomeTells' /\ AsksInCall'
    BY DEF OutcomeTells, AsksInCall
  <1> QED
    BY <1>1, <1>2, <1>3, <1>4

LEMMA EndInv ==
  ASSUME IInv, NEW i \in Shells, End(i)
  PROVE  IInv'
  BY ShellAssumption
  DEF End, releasePlace, fetcherVars, IInv, TypeOK, HolderIsAssigned, OnlyMastersLock, FreshOrOver,
      StartedInCall, MenuOfMaster, OutcomeTells, AsksInCall, Terminated, Running

LEMMA LeaveInv ==
  ASSUME IInv, NEW i \in Shells, Leave(i)
  PROVE  IInv'
  BY ShellAssumption
  DEF Leave, Forget, IInv, TypeOK, HolderIsAssigned, OnlyMastersLock, FreshOrOver,
      StartedInCall, MenuOfMaster, OutcomeTells, AsksInCall, Terminated, Running

LEMMA CallInv ==
  ASSUME IInv, NEW i \in Shells, NEW to \in {"query", "done"}, CallTo(i, to), call[i] # "none",
         process[i] \notin {"starting", "asked", "waiting"}
  PROVE  IInv'
  BY DEF CallTo, runVars, fetcherVars, lockVars, IInv, TypeOK, HolderIsAssigned, OnlyMastersLock,
         FreshOrOver,
      StartedInCall, MenuOfMaster, OutcomeTells, AsksInCall, Terminated, Running

LEMMA RaiseInv ==
  ASSUME IInv, NEW i \in Shells, Raise(i), process[i] \notin {"starting", "asked"}
  PROVE  IInv'
  <1>1. CASE End(i)
    BY <1>1, EndInv
  <1>2. CASE stateFetcher[i] = "place" /\ ~End(i)
    BY <1>2 DEF Raise, runVars, lockVars, IInv, TypeOK, HolderIsAssigned, OnlyMastersLock, FreshOrOver,
                StartedInCall, MenuOfMaster, OutcomeTells, AsksInCall, Terminated, Running
  <1> QED
    BY <1>1, <1>2 DEF Raise

LEMMA GoOnInv ==
  ASSUME IInv, NEW i \in Shells, NEW to \in {"shell", "ui", "ui_shell"}, GoOn(i, to),
         at[i] \in {"open", "wait", "ui", "ui_shell"},
         at[i] = "open" => to = "shell", at[i] # "open" => to # "shell"
  PROVE  IInv'
  BY DEF GoOn, fetcherVars, lockVars, IInv, TypeOK, HolderIsAssigned, OnlyMastersLock, FreshOrOver,
         StartedInCall, MenuOfMaster, OutcomeTells, AsksInCall, Terminated, Running

-----------------------------------------------------------------------------
LEMMA CallOfPlaceInv ==
  ASSUME IInv, NEW i \in Shells, CallOfPlace(i)
  PROVE  IInv'
  <1>1. ASSUME Place(i) PROVE IInv'
    <2>1. ASSUME is_main_process[i], call[i] = "place",
                 call' = [call EXCEPT ![i] = "locking"], process' = [process EXCEPT ![i] = "starting"],
                 locked' = [locked EXCEPT ![i] = "None"], rpa_outcome' = [rpa_outcome EXCEPT ![i] = "None"],
                 at' = [at EXCEPT ![i] = IF @ = "ending" THEN "held" ELSE @],
                 UNCHANGED << options, is_main_process, fetcherVars, lock >>,
                 forgotten' \in [Shells -> BOOLEAN], Unlocked(i) \/ at[i] = "ending"
          PROVE  IInv'
      BY <2>1, ShellAssumption
      DEF Unlocked, fetcherVars, IInv, TypeOK, HolderIsAssigned, OnlyMastersLock, FreshOrOver,
      StartedInCall, MenuOfMaster, OutcomeTells, AsksInCall, Terminated, Running
    <2> QED
      <3>1. (forgotten' = [forgotten EXCEPT ![i] = @ \/ ~Terminated(i)]) => forgotten' \in [Shells -> BOOLEAN]
        BY DEF IInv, TypeOK
      <3>2. call[i] = "place" => process[i] \notin {"starting", "asked", "waiting"}
        BY DEF IInv, AsksInCall
      <3> QED
        BY <1>1, <2>1, <3>1, <3>2, CallInv DEF Place
  <1>2. ASSUME Connected(i) PROVE IInv'
    BY <1>2, CallInv, RaiseInv DEF Connected, IInv, OutcomeTells
  <1>3. ASSUME LockState(i) PROVE IInv'
    BY <1>3, CallInv, RaiseInv DEF LockState, IInv, AsksInCall
  <1> QED
    BY <1>1, <1>2, <1>3 DEF CallOfPlace

LEMMA WithoutMode ==
  ASSUME NEW c \in CommandLines \cup {NoCommandLine}
  PROVE  [mode |-> "", run |-> c.run] \in CommandLines \cup {NoCommandLine}
  <1>1. CASE c \in CommandLines
    <2>1. c.run \in {"-t", "--scp", "-n", "shell"}
      BY <1>1 DEF CommandLines
    <2> QED
      BY <2>1 DEF CommandLines
  <1>2. CASE c = NoCommandLine
    <2>1. c.run = "none"
      BY <1>2 DEF NoCommandLine
    <2> QED
      BY <2>1 DEF NoCommandLine
  <1> QED
    BY <1>1, <1>2

LEMMA MainInv ==
  ASSUME IInv, NEW i \in Shells, Main(i)
  PROVE  IInv'
  <1>1. ASSUME StatusOrScp(i) PROVE IInv'
    BY <1>1, EndInv DEF StatusOrScp
  <1>2. ASSUME evaluate_status(i) PROVE IInv'
    <2>1. ASSUME NEW main \in BOOLEAN, at[i] = "start",
                 is_main_process' = [is_main_process EXCEPT ![i] = main],
                 at' = [at EXCEPT ![i] = "place"], call' = [call EXCEPT ![i] = "place"],
                 options' \in [Shells -> CommandLines \cup {NoCommandLine}],
                 UNCHANGED << fetcherVars, lockVars >>
          PROVE  IInv'
      BY <2>1
      DEF fetcherVars, lockVars, IInv, TypeOK, HolderIsAssigned, OnlyMastersLock, FreshOrOver, StartedInCall,
          MenuOfMaster, OutcomeTells, AsksInCall, Terminated, Running
    <2>2. [options EXCEPT ![i] = [mode |-> "", run |-> options[i].run]]
            \in [Shells -> CommandLines \cup {NoCommandLine}]
      BY WithoutMode DEF IInv, TypeOK
    <2>3. (ConnectionStatus = "UNASSIGNED" \/ options[i].mode = "take-over") \in BOOLEAN
      OBVIOUS
    <2> QED
      BY <1>2, <2>1, <2>2, <2>3, EndInv DEF evaluate_status
  <1>3. ASSUME Prepare(i) PROVE IInv'
    <2>1. ASSUME ~End(i) PROVE IInv'
      BY <1>3, <2>1
      DEF Prepare, fetcherVars, lockVars, IInv, TypeOK, HolderIsAssigned, OnlyMastersLock, FreshOrOver,
          StartedInCall, MenuOfMaster, OutcomeTells, AsksInCall, Terminated, Running
    <2> QED
      BY <2>1, EndInv
  <1>4. ASSUME Open(i) PROVE IInv'
    <2>1. ASSUME at[i] = "open", is_main_process[i], at' = [at EXCEPT ![i] = "menu"],
                 call' = [call EXCEPT ![i] = "place"],
                 UNCHANGED << options, is_main_process, fetcherVars, lockVars >>
          PROVE  IInv'
      BY <2>1
      DEF fetcherVars, lockVars, IInv, TypeOK, HolderIsAssigned, OnlyMastersLock, FreshOrOver, StartedInCall,
          MenuOfMaster, OutcomeTells, AsksInCall, Terminated, Running
    <2> QED
      BY <1>4, <2>1, EndInv, GoOnInv DEF Open
  <1>5. ASSUME StartFetcher(i) PROVE IInv'
    BY <1>5
    DEF StartFetcher, lockVars, IInv, TypeOK, HolderIsAssigned, OnlyMastersLock, FreshOrOver, StartedInCall,
        MenuOfMaster, OutcomeTells, AsksInCall, Terminated, Running
  <1>6. ASSUME MenuOpens(i) PROVE IInv'
    BY <1>6, EndInv, GoOnInv DEF MenuOpens
  <1>7. ASSUME Quit(i) PROVE IInv'
    BY <1>7, EndInv DEF Quit
  <1> QED
    BY <1>1, <1>2, <1>3, <1>4, <1>5, <1>6, <1>7, LeaveInv DEF Main

LEMMA UserInv ==
  ASSUME IInv, NEW i \in Shells, User(i)
  PROVE  IInv'
  <1>1. ASSUME Start(i) PROVE IInv'
    BY <1>1, ShellAssumption
    DEF Start, fetcherVars, lockVars, IInv, TypeOK, HolderIsAssigned, OnlyMastersLock, FreshOrOver, StartedInCall,
        MenuOfMaster, OutcomeTells, AsksInCall, Terminated, Running
  <1>2. ASSUME CloseShell(i) PROVE IInv'
    BY <1>2, EndInv DEF CloseShell
  <1>3. ASSUME Key(i) PROVE IInv'
    BY <1>3, EndInv, GoOnInv DEF Key
  <1>4. ASSUME handle_sigint(i) PROVE IInv'
    <2>1. (forgotten' = [forgotten EXCEPT ![i] = @ /\ ~Terminated(i)]) => forgotten' \in [Shells -> BOOLEAN]
      BY DEF IInv, TypeOK
    <2> QED
      BY <1>4, <2>1, EndInv, ReleaseInv DEF handle_sigint
  <1> QED
    BY <1>1, <1>2, <1>3, <1>4 DEF User

LEMMA FetcherInv ==
  ASSUME IInv, NEW i \in Shells, Fetcher(i)
  PROVE  IInv'
  BY DEF Fetcher, FetcherPlaced, FetchState, FetchStateFails, runVars, lockVars, IInv, TypeOK, HolderIsAssigned,
         OnlyMastersLock, FreshOrOver,
      StartedInCall, MenuOfMaster, OutcomeTells, AsksInCall, Terminated, Running

LEMMA ServerInv ==
  ASSUME IInv, NEW i \in Shells, Server(i)
  PROVE  IInv'
  <1> USE ShellAssumption
      DEF Says, runVars, fetcherVars, IInv, TypeOK, HolderIsAssigned, OnlyMastersLock, FreshOrOver, StartedInCall,
          MenuOfMaster, OutcomeTells, AsksInCall, Terminated, Running
  <1>1. UNCHANGED << runVars, call, fetcherVars >>
    BY DEF Server
  <1>2. ASSUME Popen(i) PROVE IInv'
    BY <1>1, <1>2 DEF Popen
  <1>3. ASSUME Enqueue(i) PROVE IInv'
    BY <1>1, <1>3 DEF Enqueue
  <1>4. ASSUME Assign(i) PROVE IInv'
    BY <1>1, <1>4 DEF Assign
  <1>5. ASSUME Refuse(i) PROVE IInv'
    BY <1>1, <1>5 DEF Refuse
  <1>6. ASSUME Replace(i) PROVE IInv'
    BY <1>1, <1>6 DEF Replace
  <1>7. ASSUME Die(i) PROVE IInv'
    BY <1>1, <1>7 DEF Die
  <1>8. ASSUME ForgottenDies(i) PROVE IInv'
    BY <1>1, <1>8 DEF ForgottenDies
  <1> QED
    BY <1>2, <1>3, <1>4, <1>5, <1>6, <1>7, <1>8 DEF Server, Answer

LEMMA StepInv == IInv /\ [Next]_vars => IInv'
  <1>1. ASSUME IInv, UNCHANGED vars PROVE IInv'
    BY <1>1
    DEF vars, runVars, fetcherVars, lockVars, IInv, TypeOK, HolderIsAssigned, OnlyMastersLock, FreshOrOver,
        StartedInCall, MenuOfMaster, OutcomeTells, AsksInCall, Terminated, Running
  <1> QED
    BY <1>1, CallOfPlaceInv, MainInv, UserInv, FetcherInv, ServerInv DEF Next

-----------------------------------------------------------------------------
(***************************************************************************)
(* The values the variables take; the menu is shown, and the lock watched, *)
(* by a master only, and only while it runs.                               *)
(***************************************************************************)
THEOREM TypeCorrect == Spec => []TypeOK
  <1>1. IInv => TypeOK
    BY DEF IInv
  <1> QED
    BY InitInv, StepInv, <1>1, PTL DEF Spec

(***************************************************************************)
(* However many terminals there are, and wherever each was interrupted: a  *)
(* run that is over has no lock, and no process that may still get one.    *)
(***************************************************************************)
THEOREM EndedRunsHaveNoLock == Spec => []EndReleases
  <1>1. IInv => EndReleases
    BY DEF IInv, HolderIsAssigned, FreshOrOver, EndReleases, Running, Asking
  <1> QED
    BY InitInv, StepInv, <1>1, PTL DEF Spec

(***************************************************************************)
(* No step of a run that is a client, its end included, changes who has    *)
(* the user's lock.                                                        *)
(***************************************************************************)
THEOREM ClientsHaveNoLock == Spec => ClientsLeaveTheLock
  <1>1. ASSUME IInv, NEW i \in Shells, NEW j \in Shells,
               CallOfPlace(j) \/ Main(j) \/ User(j) \/ Fetcher(j) \/ Server(j),
               at'[i] # at[i], ~is_main_process[i]
        PROVE  lock' = lock
    <2>1. lock # i
      BY <1>1 DEF IInv, HolderIsAssigned, OnlyMastersLock
    <2>2. ASSUME releasePlace(i) PROVE lock' = lock
      BY <2>1, <2>2 DEF releasePlace
    <2>3. ASSUME End(i) PROVE lock' = lock
      BY <2>2, <2>3 DEF End
    <2>4. j = i /\ ~Fetcher(j) /\ ~Server(j)
      BY <1>1
      DEF CallOfPlace, Place, Connected, LockState, CallTo, Raise, End, Main, StatusOrScp, evaluate_status, Prepare,
          Open, StartFetcher, MenuOpens, Quit, Leave, Forget, GoOn, User, Start, CloseShell, Key, handle_sigint,
          Fetcher, FetcherPlaced, FetchState, FetchStateFails, Server, runVars, IInv, TypeOK
    <2>5. CASE CallOfPlace(i)
      BY <2>3, <2>5 DEF CallOfPlace, Place, Connected, LockState, CallTo, Raise, lockVars
    <2>6. CASE Main(i)
      BY <2>3, <2>6
      DEF Main, StatusOrScp, evaluate_status, Prepare, Open, StartFetcher, MenuOpens, Quit, Leave, GoOn, lockVars
    <2>7. CASE User(i)
      BY <2>2, <2>3, <2>7 DEF User, Start, CloseShell, Key, handle_sigint, GoOn, lockVars
    <2> QED
      BY <1>1, <2>4, <2>5, <2>6, <2>7
  <1>2. IInv /\ [Next]_vars => [\A i \in Shells : at'[i] # at[i] /\ ~is_main_process[i] => lock' = lock]_vars
    BY <1>1 DEF Next
  <1> QED
    BY <1>2, InitInv, StepInv, PTL DEF Spec, ClientsLeaveTheLock

(***************************************************************************)
(* However many terminals there are: a run never starts a lock process     *)
(* while an earlier one of it waits for the lock or has it, so none that   *)
(* may get the lock is forgotten.                                          *)
(***************************************************************************)
THEOREM RunsLockOnce == Spec => LocksOnce
  <1>1. ASSUME IInv, NEW i \in Shells, NEW j \in Shells,
               CallOfPlace(j) \/ Main(j) \/ User(j) \/ Fetcher(j) \/ Server(j),
               process'[i] = "starting", process[i] # "starting"
        PROVE  ~Asking(i)
    <2>1. ~evaluate_status(j)
      <3>1. ASSUME evaluate_status(j), ~End(j) PROVE process' = process
        BY <3>1 DEF evaluate_status, lockVars
      <3>2. ASSUME End(j) PROVE FALSE
        BY <1>1, <3>2 DEF End, releasePlace, IInv, TypeOK
      <3> QED
        BY <1>1, <3>1, <3>2
    <2>2. Place(i)
      BY <1>1, <2>1
      DEF CallOfPlace, Place, Connected, LockState, CallTo, Raise, End, releasePlace, Main, StatusOrScp,
          Prepare, Open, StartFetcher, MenuOpens, Quit, Leave, Forget, GoOn, User, Start,
          CloseShell, Key, handle_sigint, Fetcher, FetcherPlaced, FetchState, FetchStateFails, Server, Popen,
          Answer, Enqueue, Assign, Refuse, Replace, Die, ForgottenDies, Says, runVars, lockVars, IInv, TypeOK
    <2>3. call[i] = "place" /\ (Unlocked(i) \/ at[i] = "ending")
      BY <1>1, <2>2 DEF Place, CallTo, lockVars
    <2>4. process[i] \notin {"starting", "asked", "waiting"}
      BY <1>1, <2>3 DEF IInv, AsksInCall
    <2>5. process[i] # "assigned"
      BY <1>1, <2>3 DEF Unlocked, IInv, StartedInCall, OutcomeTells
    <2> QED
      BY <2>4, <2>5 DEF Asking
  <1>2. IInv /\ [Next]_vars =>
          [\A i \in Shells : process'[i] = "starting" /\ process[i] # "starting" => ~Asking(i)]_vars
    BY <1>1 DEF Next
  <1> QED
    BY <1>2, InitInv, StepInv, PTL DEF Spec, LocksOnce
=============================================================================
