--------------------------- MODULE PlaceLock_proofs ---------------------------
(***************************************************************************)
(* Proofs about PlaceLock, for any number of threads, places and notes.    *)
(***************************************************************************)
EXTENDS PlaceLock, SequenceTheorems, TLAPS

-----------------------------------------------------------------------------
(***************************************************************************)
(* What a process says.  A holder is told of an extension or of the end;   *)
(* what is read last and what is still to be read are one conversation.    *)
(***************************************************************************)
Holding == {"ASSIGNED", "REPLACE", "EXTENDED"}

Follows(a, b) ==
  \/ a = None /\ b \in {"WAITING", "ASSIGNED", "REPLACE", "REFUSE"}
  \/ a = "WAITING" /\ b = "ASSIGNED"
  \/ a \in Holding /\ b \in {"EXTENDED", "BYE"}

InOrder(out, read) ==
  /\ \A k \in 1 .. Len(out) - 1 : Follows(out[k].status, out[k + 1].status)
  /\ out # << >> => Follows(read, out[1].status)

LastSaid(out, read) == IF out = << >> THEN read ELSE out[Len(out)].status

\* what the process has said to the thread tells where it is
Conversation(i) ==
  /\ InOrder(stdout[i], r[i].status)
  /\ LET last == LastSaid(stdout[i], r[i].status)
     IN /\ process[i] \in {"none", "asked"} => last = None
        /\ process[i] = "waiting"  => last = "WAITING"
        /\ process[i] = "assigned" => last \in Holding
        /\ process[i] = "over"     => last = "BYE"

\* the process of a thread lives while the thread reads, and locked tells
\* what was read last
ThreadOfProcess(i) ==
  /\ thread[i] \in {"unused", "new", "run", "popen"} => process[i] = "none" /\ stdout[i] = << >> /\ locked[i] = None
  /\ thread[i] \in {"reading", "publish"} =>
       /\ process[i] # "none"
       /\ locked[i] = "False" <=> r[i].status \in {"WAITING", "BYE", "REFUSE"}
  /\ thread[i] = "done" => process[i] \in {"none", "dead"} /\ stdout[i] = << >>

Talk == \A i \in Threads : Conversation(i) /\ ThreadOfProcess(i)

-----------------------------------------------------------------------------
(***************************************************************************)
(* Which threads there are.  They are started in order; all but the latest *)
(* are settled: they have ended, or in rpa_shell have read that their place is *)
(* lost.                                                                   *)
(***************************************************************************)
Used(i)     == thread[i] # "unused"
IsLatest(i) == Used(i) /\ \A j \in Threads : j > i => ~Used(j)
Settled(i)  == thread[i] = "done" \/ (program = "rpa_shell" /\ r[i].status = "BYE")
Past(i)     == thread[i] = "done" \/ r[i].status \in Holding \cup {"BYE"}

InPlaceBefore == at["connect"] \in {"is_locked", "construct"}
HasPlace      == program = "rpa_shell" /\ at["connect"] = "idle" /\ result \in Hosts

ThreadsInOrder ==
  /\ \A i, j \in Threads : i < j /\ Used(j) => Used(i) /\ Settled(i)
  /\ \A i \in Threads : t_rpa = i => IsLatest(i)

\* no thread may get a place when another one is constructed, or when it is
\* forgotten: in rpa_shell another one may be left behind, not the first
SettledFirst ==
  /\ at["connect"] = "construct" => rpa_main /\ \A i \in Threads : Used(i) => Settled(i)
  /\ t_rpa = NoThread /\ (program = "rpa_gui" \/ at["connect"] = "is_locked") =>
       \A i \in Threads : Used(i) => Settled(i)
  /\ t_rpa = NoThread => \A i \in Threads : i = 1 /\ Used(i) => Settled(i)

\* a caller that has been given a place has been given that of every thread
PastGrant ==
  InPlaceBefore \/ at["connect"] \in {"query", "check"} \/ HasPlace =>
    \A i \in Threads : Used(i) => Past(i)

\* who is in which step of Place and of releasePlace
Phases ==
  /\ program = "rpa_shell" =>
       /\ at["connect"] \notin {"release", "terminate", "join", "joining"}
       /\ (result = None /\ at["connect"] = "idle") \/ ~rpa_main => \A i \in Threads : ~Used(i)
  /\ program = "rpa_gui" =>
       /\ InPlaceBefore => t_rpa = NoThread /\ at["tk"] = "idle"
       /\ at["connect"] = "start" => t_rpa # NoThread
       /\ \A u \in Users : at[u] = "joining" => t_rpa \in {NoThread, joining[u]}
  /\ at["connect"] = "start" /\ t_rpa # NoThread => thread[t_rpa] = "new"
  /\ at["connect"] \in {"start", "wait"} => rpa_main /\ \E i \in Threads : Used(i)
  /\ \A u \in Users : at[u] = "joining" => thread[joining[u]] \notin {"unused", "new"}
  /\ InPlaceBefore /\ at["tk"] = "joining" => \A i \in Threads : joining["tk"] = i => IsLatest(i)

-----------------------------------------------------------------------------
(***************************************************************************)
(* The outcome is the latest thread's, or that of one that says goodbye.   *)
(***************************************************************************)
OutcomeOfLatest == \E i \in Threads :
  /\ rpa_outcome.r.thread = i
  /\ \/ IsLatest(i)
     \/ program = "rpa_shell" /\ Used(i) /\ locked[i] = "False" /\ rpa_outcome.r.status \in {"BYE", "Popen"}

Outcomes ==
  /\ at["connect"] \in {"start", "wait"} /\ rpa_outcome.set => OutcomeOfLatest
  /\ at["connect"] \in {"start", "wait"} =>
       \A i \in Threads : IsLatest(i) /\ thread[i] \notin {"new", "run"} => OutcomeOfLatest
  /\ rpa_outcome.r.status \in {"ASSIGNED", "REPLACE"} =>
       \E i \in Threads : rpa_outcome.r.thread = i /\ Used(i) /\ Past(i)

(***************************************************************************)
(* The lock and the place.                                                 *)
(***************************************************************************)
LockHeld ==
  /\ lock.by # Nobody => lock.host \in Hosts
  /\ \A i \in Threads : lock.by = i => process[i] = "assigned"

AssignedHost(m, i, l) == m.status = "ASSIGNED" => m.host \in Hosts /\ (l.by = i => m.host = l.host)

HostsSaid ==
  /\ \A i \in Threads : /\ AssignedHost(r[i], i, lock)
                        /\ \A k \in DOMAIN stdout[i] : AssignedHost(stdout[i][k], i, lock)
  /\ AssignedHost(rpa_outcome.r, rpa_outcome.r.thread, lock)

PlaceKnown ==
  /\ at["connect"] = "check" \/ HasPlace \/ (at["connect"] = "is_locked" /\ t_rpa # NoThread) => place # None
  /\ (at["connect"] \in {"is_locked", "check"} \/ HasPlace) /\ lock.by \in Threads => place = lock.host

IInv == /\ TypeOK /\ Talk /\ ThreadsInOrder /\ SettledFirst /\ PastGrant /\ Phases
        /\ Outcomes /\ LockHeld /\ HostsSaid /\ PlaceKnown

-----------------------------------------------------------------------------
LEMMA Names ==
  /\ Threads \subseteq Nat /\ NoThread \notin Threads
  /\ Nobody \notin {NoThread} \cup Threads /\ Elsewhere \notin {NoThread} \cup Threads
  /\ Users = {"connect", "tk"} /\ NoThread = 0 /\ None = "None"
  /\ None \notin Hosts /\ Unnamed \notin Hosts /\ None # Unnamed
  /\ \A x \in Exceptions : x \notin Hosts /\ x # None
  BY LockAssumption, NamesAssumption DEF Threads, NoThread, Users, None, Unnamed, Exceptions

(***************************************************************************)
(* The initial states.                                                     *)
(***************************************************************************)
LEMMA InitInv == Init => IInv
  <1> SUFFICES ASSUME Init PROVE IInv
    OBVIOUS
  <1>1. TypeOK
    BY LockAssumption, NamesAssumption DEF Init, TypeOK, Message, Outcome, Responses, Statuses, Users
  <1>2. Talk
    BY DEF Init, Talk, Conversation, ThreadOfProcess, InOrder, LastSaid, Message
  <1>3. ThreadsInOrder /\ SettledFirst /\ PastGrant /\ Phases /\ Outcomes
    BY DEF Init, ThreadsInOrder, SettledFirst, PastGrant, Phases, Outcomes, IsLatest, Used, HasPlace,
           InPlaceBefore, Users, Threads, NoThread, Outcome, None
  <1>4. LockHeld /\ PlaceKnown
    BY Names DEF Init, LockHeld, PlaceKnown, HasPlace
  <1>5. HostsSaid
    <2>1. ASSUME NEW i \in Threads PROVE r[i].status # "ASSIGNED" /\ stdout[i] = << >> /\ DOMAIN stdout[i] = {}
      BY Names DEF Init, Message
    <2>2. rpa_outcome.r.status # "ASSIGNED"
      BY Names DEF Init, Outcome
    <2> QED
      BY <2>1, <2>2 DEF HostsSaid, AssignedHost
  <1> QED
    BY <1>1, <1>2, <1>3, <1>4, <1>5 DEF IInv

-----------------------------------------------------------------------------
(***************************************************************************)
(* What the invariant says of processes.                                   *)
(***************************************************************************)
LEMMA SettledIsQuiet ==
  ASSUME IInv, NEW i \in Threads, Used(i) => Settled(i)
  PROVE  ~Asking(i)
  <1>1. stdout[i] \in Seq(Responses) /\ Conversation(i) /\ ThreadOfProcess(i)
    BY DEF IInv, TypeOK, Talk
  <1>2. CASE ~Used(i) \/ thread[i] = "done"
    BY <1>1, <1>2 DEF ThreadOfProcess, Used, Asking
  <1>3. CASE r[i].status = "BYE"
    BY <1>1, <1>3 DEF Conversation, InOrder, LastSaid, Follows, Holding, Asking, None
  <1> QED
    BY <1>2, <1>3 DEF Settled

LEMMA SettledPast == \A i : Settled(i) => Past(i)
  BY DEF Settled, Past

\* whoever has not been answered has said nothing that a place follows from
LEMMA Unanswered ==
  ASSUME IInv, NEW i \in Threads, process[i] \in {"asked", "waiting"}
  PROVE  /\ r[i].status \in {None, "WAITING"} /\ \A k \in DOMAIN stdout[i] : stdout[i][k].status = "WAITING"
         /\ thread[i] \in {"reading", "publish"} /\ ~Past(i)
  <1>1. /\ stdout[i] \in Seq(Responses) /\ Conversation(i) /\ ThreadOfProcess(i)
        /\ thread[i] \in {"unused", "new", "run", "popen", "reading", "publish", "done"}
    BY DEF IInv, TypeOK, Talk
  <1> DEFINE n == Len(stdout[i])
  <1>2. n \in Nat /\ DOMAIN stdout[i] = 1 .. n /\ (stdout[i] # << >> => n > 0)
    BY <1>1
  <1>6. /\ \A k \in 1 .. n - 1 : Follows(stdout[i][k].status, stdout[i][k + 1].status)
        /\ n > 0 => Follows(r[i].status, stdout[i][1].status) /\ stdout[i][n].status \in {None, "WAITING"}
        /\ stdout[i] = << >> => r[i].status \in {None, "WAITING"}
    BY <1>1, <1>2 DEF Conversation, InOrder, LastSaid
  <1>7. \A a : /\ ~Follows(a, None)
               /\ Follows(a, "WAITING") => a = None
    BY DEF Follows, None, Holding
  <1> HIDE DEF n
  <1>3. n <= 1
    <2> SUFFICES ASSUME n > 1 PROVE FALSE
      BY <1>2
    <2>1. Follows(stdout[i][n - 1].status, stdout[i][n].status)
      <3>1. n - 1 \in 1 .. n - 1 /\ n - 1 + 1 = n
        BY <1>2
      <3> QED
        BY <1>6, <3>1
    <2>2. stdout[i][n - 1].status = None
      BY <1>2, <1>6, <1>7, <2>1
    <2>3. CASE n = 2
      BY <1>6, <1>7, <2>2, <2>3
    <2>4. CASE n # 2
      <3>1. n - 2 \in 1 .. n - 1 /\ n - 2 + 1 = n - 1
        BY <1>2, <2>4
      <3>2. Follows(stdout[i][n - 2].status, stdout[i][n - 1].status)
        BY <1>6, <3>1
      <3> QED
        BY <1>7, <2>2, <3>2
    <2> QED
      BY <2>3, <2>4
  <1>4. r[i].status \in {None, "WAITING"} /\ \A k \in DOMAIN stdout[i] : stdout[i][k].status = "WAITING"
    <2>1. CASE stdout[i] = << >>
      <3>1. DOMAIN stdout[i] = {}
        BY <2>1
      <3> QED
        BY <1>6, <2>1, <3>1
    <2>2. CASE stdout[i] # << >>
      BY <1>2, <1>3, <1>6, <1>7, <2>2
    <2> QED
      BY <2>1, <2>2
  <1>5. thread[i] \in {"reading", "publish"}
    BY <1>1 DEF ThreadOfProcess
  <1> QED
    BY <1>4, <1>5 DEF Past, Holding, None

\* only the latest thread has a process that has the lock or asks for it
LEMMA LatestAsks ==
  ASSUME IInv, NEW i \in Threads, Asking(i) \/ lock.by = i \/ (Used(i) /\ ~Settled(i))
  PROVE  IsLatest(i) /\ Used(i) /\ ~Settled(i)
  <1>1. Used(i) /\ ~Settled(i)
    BY SettledIsQuiet DEF Asking, IInv, LockHeld
  <1> QED
    BY <1>1, Names DEF IsLatest, IInv, ThreadsInOrder

LEMMA UpToLatest ==
  ASSUME IInv, NEW i \in Threads, IsLatest(i)
  PROVE  \A j \in Threads : Used(j) => j = i \/ Settled(j)
  <1> SUFFICES ASSUME NEW j \in Threads, Used(j), j # i PROVE Settled(j)
    OBVIOUS
  <1>1. j < i
    BY Names DEF IsLatest
  <1> QED
    BY <1>1 DEF IsLatest, IInv, ThreadsInOrder

LEMMA OneLatest ==
  ASSUME NEW i \in Threads, NEW j \in Threads, IsLatest(i), IsLatest(j)
  PROVE  i = j
  BY Names DEF IsLatest

-----------------------------------------------------------------------------
(***************************************************************************)
(* Place and releasePlace.  They leave threads and processes alone, so the *)
(* conversations go on.                                                    *)
(***************************************************************************)
UserSteps == {"idle", "is_locked", "construct", "start", "wait", "query", "check",
              "release", "terminate", "join", "joining"}

LEMMA UserTypes ==
  ASSUME IInv, UNCHANGED << rpa_outcome, threadVars, processVars, lock, program >>,
         t_rpa' \in {NoThread} \cup Threads, rpa_main' \in BOOLEAN, place' \in Hosts \cup {None, Unnamed},
         want' \in Hosts \cup {None}, result' \in Hosts \cup Exceptions \cup {None, Unnamed},
         at' \in [Users -> UserSteps], joining' \in [Users -> {NoThread} \cup Threads],
         \A u \in Users : at'[u] = "joining" => joining'[u] \in Threads
  PROVE  TypeOK'
  BY DEF IInv, TypeOK, UserSteps, threadVars, processVars

LEMMA UserFrame ==
  ASSUME IInv, UNCHANGED << rpa_outcome, threadVars, processVars, lock, program >>
  PROVE  /\ Talk' /\ LockHeld' /\ HostsSaid'
         /\ \A i : /\ Used(i)' <=> Used(i)
                   /\ IsLatest(i)' <=> IsLatest(i)
                   /\ Settled(i)' <=> Settled(i)
                   /\ Past(i)' <=> Past(i)
         /\ OutcomeOfLatest' <=> OutcomeOfLatest
  BY DEF IInv, threadVars, processVars, Talk, Conversation, ThreadOfProcess, LockHeld, HostsSaid, AssignedHost,
         Used, IsLatest, Settled, Past, OutcomeOfLatest

LEMMA CallInv ==
  ASSUME IInv, NEW h \in Wishes, NEW main \in BOOLEAN, Call(h, main)
  PROVE  IInv'
  <1>1. /\ at["connect"] = "idle" /\ at["tk"] = "idle" /\ at'["connect"] = "is_locked" /\ at'["tk"] = "idle"
        /\ want' = h /\ rpa_main' = main /\ result' = None
        /\ UNCHANGED << t_rpa, place, rpa_outcome, program, joining, threadVars, processVars, lock >>
        /\ h \in Hosts \cup {None}
    BY Names, LockAssumption DEF Call, GoOn, IInv, TypeOK
  <1>2. TypeOK'
    BY <1>1, Names DEF Call, GoOn, IInv, TypeOK, threadVars, processVars
  <1>3. \/ program = "rpa_gui" /\ t_rpa = NoThread
        \/ program = "rpa_shell" /\ \A i \in Threads : ~Used(i)
        \/ program = "rpa_shell" /\ HasPlace /\ main = rpa_main /\ (main => t_rpa # NoThread)
    BY <1>1 DEF Call, IInv, Phases, HasPlace
  <1>4. Talk' /\ LockHeld' /\ HostsSaid'
    BY <1>1, UserFrame
  <1>5. ThreadsInOrder' /\ SettledFirst' /\ Outcomes'
    BY <1>1, <1>3, UserFrame, Names DEF IInv, ThreadsInOrder, SettledFirst, Outcomes, Phases
  <1>6. PastGrant'
    BY <1>1, <1>3, UserFrame, SettledPast DEF IInv, SettledFirst, PastGrant, HasPlace, InPlaceBefore
  <1>7. Phases'
    BY <1>1, <1>3, UserFrame, Names DEF threadVars, IInv, Phases, HasPlace, InPlaceBefore
  <1>8. PlaceKnown'
    <2>1. CASE (program = "rpa_gui" /\ t_rpa = NoThread) \/ (program = "rpa_shell" /\ \A i \in Threads : ~Used(i))
      <3>1. lock.by \notin Threads
        BY <2>1, LatestAsks DEF IInv, SettledFirst
      <3>2. t_rpa = NoThread
        BY <2>1, Names DEF IInv, TypeOK, ThreadsInOrder, IsLatest
      <3> QED
        BY <1>1, <3>1, <3>2 DEF PlaceKnown, HasPlace
    <2>2. CASE HasPlace
      BY <1>1, <2>2 DEF PlaceKnown, HasPlace, IInv
    <2> QED
      BY <1>3, <2>1, <2>2
  <1> QED
    BY <1>2, <1>4, <1>5, <1>6, <1>7, <1>8 DEF IInv

\* a step within the call of Place, by which it does not end
LEMMA ContinueTo ==
  ASSUME TypeOK, NEW from, NEW to, Continue(from, to)
  PROVE  /\ at["connect"] = from /\ at'["connect"] = to /\ at'["tk"] = at["tk"] /\ UNCHANGED << result, want >>
         /\ to \in UserSteps => at' \in [Users -> UserSteps]
  BY Names DEF Continue, GoOn, TypeOK, UserSteps

\* the call of Place ends with an exception
LEMMA RaiseInv ==
  ASSUME IInv, NEW x \in Exceptions, Raise(x),
         UNCHANGED << clientVars, program, joining, threadVars, processVars, lock >>
  PROVE  IInv'
  <1>1. /\ at'["connect"] \in {"idle", "release"} /\ at'["tk"] = at["tk"]
        /\ program = "rpa_shell" => at'["connect"] = "idle"
        /\ result' = x /\ x # None /\ x \notin Hosts /\ want' = None
        /\ UNCHANGED << t_rpa, rpa_main, place, rpa_outcome, program, joining, threadVars, processVars, lock >>
    BY Names DEF Raise, Return, IInv, TypeOK, clientVars
  <1>2. TypeOK'
    BY <1>1, Names DEF Raise, Return, IInv, TypeOK, threadVars, processVars
  <1>3. Talk' /\ LockHeld' /\ HostsSaid'
    BY <1>1, UserFrame
  <1>4. ThreadsInOrder' /\ SettledFirst' /\ Outcomes'
    BY <1>1, UserFrame, Names DEF IInv, ThreadsInOrder, SettledFirst, Outcomes
  <1>5. PastGrant' /\ PlaceKnown'
    BY <1>1 DEF PastGrant, PlaceKnown, HasPlace, InPlaceBefore
  <1>6. Phases'
    BY <1>1, UserFrame, Names DEF threadVars, IInv, Phases, InPlaceBefore
  <1> QED
    BY <1>2, <1>3, <1>4, <1>5, <1>6 DEF IInv

LEMMA IsLockedInv ==
  ASSUME IInv, IsLocked
  PROVE  IInv'
  <1>1. PICK isLocked \in IF ~rpa_main THEN {LockState.status = "ASSIGNED"}
                          ELSE IF t_rpa = NoThread THEN {FALSE} ELSE {locked[t_rpa] # "False"} :
          Continue("is_locked", IF isLocked /\ place # None THEN "check" ELSE IF rpa_main THEN "construct" ELSE "query")
    BY DEF IsLocked
  <1>2. /\ at["connect"] = "is_locked" /\ at'["tk"] = at["tk"]
        /\ at'["connect"] = IF isLocked /\ place # None THEN "check" ELSE IF rpa_main THEN "construct" ELSE "query"
        /\ UNCHANGED << result, want, t_rpa, rpa_main, place, rpa_outcome, program, joining, threadVars, processVars, lock >>
    BY <1>1, ContinueTo DEF IsLocked, clientVars, IInv
  <1>3. TypeOK'
    <2>1. at' \in [Users -> UserSteps]
      BY <1>1, ContinueTo DEF IInv, UserSteps
    <2>2. \A u \in Users : at'[u] = "joining" => joining'[u] \in Threads
      BY <1>2, Names DEF IInv, TypeOK
    <2> QED
      BY <1>2, <2>1, <2>2, UserTypes DEF IInv, TypeOK
  <1>4. Talk' /\ LockHeld' /\ HostsSaid'
    BY <1>2, UserFrame
  <1>5. at'["connect"] = "construct" => \A i \in Threads : Used(i) => Settled(i)
    <2>1. CASE t_rpa = NoThread
      BY <1>2, <2>1 DEF IInv, SettledFirst
    <2>2. CASE t_rpa # NoThread
      <3> SUFFICES ASSUME at'["connect"] = "construct" PROVE \A i \in Threads : Used(i) => Settled(i)
        OBVIOUS
      <3>1. t_rpa \in Threads /\ IsLatest(t_rpa) /\ Past(t_rpa) /\ program = "rpa_shell"
        BY <1>2, <2>2 DEF IInv, TypeOK, ThreadsInOrder, PastGrant, Phases, InPlaceBefore, IsLatest
      <3>2. place # None /\ rpa_main /\ locked[t_rpa] = "False"
        BY <1>1, <1>2, <2>2 DEF IInv, PlaceKnown
      <3>3. Settled(t_rpa)
        BY <3>1, <3>2 DEF IInv, TypeOK, Talk, ThreadOfProcess, Past, Settled, Holding, None
      <3> QED
        BY <3>1, <3>3, UpToLatest
    <2> QED
      BY <2>1, <2>2
  <1>6. ThreadsInOrder' /\ SettledFirst' /\ Outcomes'
    BY <1>2, <1>5, UserFrame, Names DEF IInv, ThreadsInOrder, SettledFirst, Outcomes
  <1>7. PastGrant'
    BY <1>2, UserFrame DEF IInv, PastGrant, HasPlace, InPlaceBefore
  <1>8. Phases'
    BY <1>2, UserFrame, Names DEF threadVars, IInv, Phases, InPlaceBefore
  <1>9. PlaceKnown'
    BY <1>2 DEF IInv, PlaceKnown, HasPlace
  <1> QED
    BY <1>3, <1>4, <1>6, <1>7, <1>8, <1>9 DEF IInv

LEMMA ConstructInv ==
  ASSUME IInv, Construct
  PROVE  IInv'
  <1>1. PICK i \in Threads :
          /\ thread[i] = "unused" /\ \A j \in 1 .. i - 1 : thread[j] # "unused"
          /\ thread' = [thread EXCEPT ![i] = "new"]
          /\ t_rpa' = i /\ rpa_cmd' = [rpa_cmd EXCEPT ![i] = want]
    BY DEF Construct
  <1>2. /\ at["connect"] = "construct" /\ at'["connect"] = "start" /\ at'["tk"] = at["tk"]
        /\ rpa_outcome' = [rpa_outcome EXCEPT !.set = FALSE] /\ rpa_outcome'.r = rpa_outcome.r /\ ~rpa_outcome'.set
        /\ UNCHANGED << result, want, rpa_main, place, program, joining, locked, r, processVars, lock >>
    BY ContinueTo DEF Construct, IInv, TypeOK
  <1>3. TypeOK'
    <2>1. at' \in [Users -> UserSteps]
      BY ContinueTo DEF Construct, IInv, UserSteps
    <2>2. rpa_outcome' \in [set : BOOLEAN, r : [thread : {NoThread} \cup Threads,
                                         status : Statuses \cup {None, "Popen"}, host : Hosts \cup {None}]]
      BY <1>2 DEF IInv, TypeOK
    <2> QED
      BY <1>1, <1>2, <2>1, <2>2, Names DEF IInv, TypeOK, UserSteps, processVars
  <1>4. /\ thread'[i] = "new" /\ ~Settled(i)' /\ \A j \in Threads \ {i} : thread'[j] = thread[j]
        /\ \A j \in Threads : (Used(j)' <=> Used(j) \/ j = i) /\ (j # i => Settled(j)' = Settled(j) /\ Past(j)' = Past(j))
    BY <1>1, <1>2 DEF IInv, TypeOK, Talk, Conversation, ThreadOfProcess, LastSaid, Used, Settled, Past, None
  <1>5. IsLatest(i)' /\ \A j \in Threads : IsLatest(j)' => j = i
    BY <1>1, <1>4, Names DEF IsLatest, IInv, ThreadsInOrder, Used
  <1>6. ThreadsInOrder'
    <2>1. \A j \in Threads : j < i => Used(j) /\ Settled(j)
      BY <1>1, <1>2, Names DEF Used, IInv, SettledFirst, Threads
    <2>2. \A j, k \in Threads : j < k /\ Used(k)' => Used(j)' /\ Settled(j)'
      BY <1>4, <1>5, <2>1, Names DEF IInv, ThreadsInOrder, IsLatest
    <2> QED
      BY <1>1, <1>5, <2>2 DEF ThreadsInOrder
  <1>7. SettledFirst' /\ PastGrant' /\ PlaceKnown'
    BY <1>1, <1>2, Names DEF SettledFirst, PastGrant, PlaceKnown, HasPlace, InPlaceBefore, IInv, Phases
  <1>8. Phases'
    <2>1. ASSUME NEW u \in Users, at'[u] = "joining" PROVE thread'[joining'[u]] \notin {"unused", "new"} /\ u = "tk" /\ program = "rpa_shell"
      BY <1>1, <1>2, <1>4, <2>1, Names DEF IInv, TypeOK, Phases, InPlaceBefore
    <2> QED
      BY <1>1, <1>2, <1>4, <2>1, Names DEF IInv, SettledFirst, Phases, InPlaceBefore, TypeOK
  <1>9. Outcomes'
    <2>1. rpa_outcome'.r.status \in {"ASSIGNED", "REPLACE"} =>
            \E j \in Threads : rpa_outcome'.r.thread = j /\ Used(j)' /\ Past(j)'
      BY <1>1, <1>2, <1>4 DEF IInv, Outcomes, Used
    <2> QED
      BY <1>2, <1>4, <1>5, <2>1 DEF Outcomes
  <1>10. Talk'
    BY <1>1, <1>2, <1>4 DEF processVars, IInv, Talk, Conversation, ThreadOfProcess, TypeOK
  <1>11. LockHeld' /\ HostsSaid'
    BY <1>2 DEF processVars, IInv, LockHeld, HostsSaid, AssignedHost
  <1> QED
    BY <1>3, <1>6, <1>7, <1>8, <1>9, <1>10, <1>11 DEF IInv

LEMMA StartInv ==
  ASSUME IInv, Start
  PROVE  IInv'
  <1>1. CASE t_rpa = NoThread
    BY <1>1, RaiseInv DEF Start, threadVars, Exceptions
  <1>2. CASE t_rpa # NoThread
    <2>1. /\ at["connect"] = "start" /\ at'["connect"] = "wait" /\ at'["tk"] = at["tk"]
          /\ thread[t_rpa] = "new" /\ thread' = [thread EXCEPT ![t_rpa] = "run"] /\ t_rpa \in Threads /\ IsLatest(t_rpa)
          /\ UNCHANGED << t_rpa, rpa_main, place, rpa_outcome, result, want, program, joining, rpa_cmd, locked, r, processVars, lock >>
      BY <1>2, ContinueTo DEF Start, clientVars, IInv, TypeOK, Phases, ThreadsInOrder
    <2>2. TypeOK'
      <3>1. at' \in [Users -> UserSteps]
        BY <1>2, ContinueTo DEF Start, IInv, UserSteps
      <3>2. \A u \in Users : at'[u] = "joining" => joining'[u] \in Threads
        BY <2>1, Names DEF IInv, TypeOK
      <3>3. thread' \in [Threads -> {"unused", "new", "run", "popen", "reading", "publish", "done"}]
        BY <2>1 DEF IInv, TypeOK
      <3> QED
        BY <2>1, <3>1, <3>2, <3>3 DEF processVars, IInv, TypeOK, UserSteps
    <2>3. /\ thread'[t_rpa] = "run" /\ \A i \in Threads \ {t_rpa} : thread'[i] = thread[i]
          /\ \A i \in Threads : Used(i)' = Used(i) /\ Settled(i)' = Settled(i) /\ Past(i)' = Past(i)
      BY <2>1 DEF IInv, TypeOK, Used, Settled, Past
    <2>4. (\A i \in Threads : IsLatest(i)' = IsLatest(i)) /\ (OutcomeOfLatest => OutcomeOfLatest')
      BY <2>1, <2>3 DEF IsLatest, OutcomeOfLatest
    <2>5. ThreadsInOrder' /\ SettledFirst' /\ PastGrant' /\ PlaceKnown'
      BY <1>2, <2>1, <2>3, <2>4 DEF IInv, ThreadsInOrder, SettledFirst, PastGrant, PlaceKnown, HasPlace, InPlaceBefore
    <2>6. Phases'
      <3>1. ASSUME NEW u \in Users, at'[u] = "joining" PROVE thread'[joining'[u]] \notin {"unused", "new"}
        BY <2>1, <2>3, <3>1, Names DEF IInv, Phases, TypeOK
      <3> QED
        BY <2>1, <2>3, <3>1, Names DEF IInv, Phases, InPlaceBefore, IsLatest
    <2>7. Outcomes'
      <3>1. \A i \in Threads : IsLatest(i) => i = t_rpa
        BY <2>1, OneLatest
      <3> QED
        BY <2>1, <2>3, <2>4, <3>1 DEF IInv, Outcomes
    <2>8. Talk' /\ LockHeld' /\ HostsSaid'
      BY <2>1, <2>3 DEF processVars, IInv, Talk, Conversation, ThreadOfProcess, LockHeld, HostsSaid, AssignedHost
    <2> QED
      BY <2>2, <2>5, <2>6, <2>7, <2>8 DEF IInv
  <1> QED
    BY <1>1, <1>2

LEMMA ReadOutcomeInv ==
  ASSUME IInv, ReadOutcome
  PROVE  IInv'
  <1>1. /\ at["connect"] = "wait" /\ rpa_outcome.set /\ rpa_main /\ OutcomeOfLatest
        /\ UNCHANGED << t_rpa, rpa_main, rpa_outcome, program, joining, threadVars, processVars, lock >>
    BY DEF ReadOutcome, IInv, Outcomes, Phases
  <1>2. CASE rpa_outcome.r.status \notin {"ASSIGNED", "REPLACE"}
    <2>1. \E x \in Exceptions : Raise(x) /\ UNCHANGED place
      BY <1>2 DEF ReadOutcome, Exceptions
    <2> QED
      BY <1>1, <2>1, RaiseInv DEF clientVars
  <1>3. CASE rpa_outcome.r.status \in {"ASSIGNED", "REPLACE"}
    <2>1. PICK to \in {"check", "query"} :
            /\ Continue("wait", to)
            /\ to = "check" => rpa_outcome.r.status = "ASSIGNED" /\ place' = rpa_outcome.r.host
            /\ to = "query" => UNCHANGED place
      BY <1>3 DEF ReadOutcome
    <2>2. /\ at'["connect"] = to /\ at'["tk"] = at["tk"] /\ UNCHANGED << result, want >>
          /\ at' \in [Users -> UserSteps]
      BY <2>1, ContinueTo DEF IInv, UserSteps
    <2>3. PICK i \in Threads : rpa_outcome.r.thread = i /\ IsLatest(i) /\ Used(i) /\ Past(i)
      BY <1>1, <1>3 DEF OutcomeOfLatest, IInv, Outcomes
    <2>4. \A j \in Threads : Used(j) => Past(j)
      BY <2>3, SettledPast, UpToLatest
    <2>5. to = "check" => place' \in Hosts /\ (lock.by \in Threads => place' = lock.host)
      <3>1. to = "check" => place' \in Hosts /\ (lock.by = i => place' = lock.host)
        BY <2>1, <2>3 DEF IInv, HostsSaid, AssignedHost
      <3>2. lock.by \in Threads => lock.by = i
        BY <2>3, LatestAsks, OneLatest
      <3> QED
        BY <3>1, <3>2
    <2>6. TypeOK'
      <3>1. place' \in Hosts \cup {None, Unnamed}
        BY <2>1, <2>5 DEF IInv, TypeOK
      <3>2. \A u \in Users : at'[u] = "joining" => joining'[u] \in Threads
        BY <1>1, <2>2, Names DEF IInv, TypeOK
      <3> QED
        BY <1>1, <2>2, <3>1, <3>2, UserTypes DEF IInv, TypeOK
    <2>7. Talk' /\ LockHeld' /\ HostsSaid'
      BY <1>1, UserFrame
    <2>8. ThreadsInOrder' /\ SettledFirst' /\ Outcomes'
      BY <1>1, <2>2, UserFrame, Names DEF IInv, ThreadsInOrder, SettledFirst, Outcomes
    <2>9. PastGrant'
      BY <1>1, <2>4, UserFrame DEF PastGrant
    <2>10. PlaceKnown'
      BY <1>1, <2>2, <2>5, Names DEF PlaceKnown, HasPlace
    <2>11. Phases'
      BY <1>1, <2>2, UserFrame, Names DEF threadVars, IInv, Phases, InPlaceBefore
    <2> QED
      BY <2>6, <2>7, <2>8, <2>9, <2>10, <2>11 DEF IInv
  <1> QED
    BY <1>2, <1>3

LEMMA QueryInv ==
  ASSUME IInv, Query
  PROVE  IInv'
  <1>1. /\ at["connect"] = "query"
        /\ UNCHANGED << t_rpa, rpa_main, rpa_outcome, program, joining, threadVars, processVars, lock >>
    BY DEF Query
  <1>2. CASE \E x \in Exceptions : Raise(x) /\ UNCHANGED place
    BY <1>1, <1>2, RaiseInv DEF clientVars
  <1>3. CASE place' = (IF LockState.host = None THEN Unnamed ELSE LockState.host) /\ Continue("query", "check")
    <2>1. /\ at'["connect"] = "check" /\ at'["tk"] = at["tk"] /\ UNCHANGED << result, want >>
          /\ at' \in [Users -> UserSteps]
      BY <1>3, ContinueTo DEF IInv, UserSteps
    <2>2. /\ place' \in Hosts \cup {Unnamed} /\ place' # None
          /\ lock.by \in Threads => place' = lock.host
      BY <1>3, Names DEF LockState, Message, IInv, LockHeld
    <2>3. TypeOK'
      <3>1. \A u \in Users : at'[u] = "joining" => joining'[u] \in Threads
        BY <1>1, <2>1, Names DEF IInv, TypeOK
      <3> QED
        BY <1>1, <2>1, <2>2, <3>1, UserTypes DEF IInv, TypeOK
    <2>4. Talk' /\ LockHeld' /\ HostsSaid'
      BY <1>1, UserFrame
    <2>5. ThreadsInOrder' /\ SettledFirst' /\ Outcomes'
      BY <1>1, <2>1, UserFrame, Names DEF IInv, ThreadsInOrder, SettledFirst, Outcomes
    <2>6. PastGrant'
      BY <1>1, UserFrame DEF IInv, PastGrant
    <2>7. PlaceKnown'
      BY <1>1, <2>1, <2>2 DEF PlaceKnown
    <2>8. Phases'
      BY <1>1, <2>1, UserFrame, Names DEF threadVars, IInv, Phases, InPlaceBefore
    <2> QED
      BY <2>3, <2>4, <2>5, <2>6, <2>7, <2>8 DEF IInv
  <1> QED
    BY <1>2, <1>3 DEF Query, Exceptions

LEMMA CheckInv ==
  ASSUME IInv, Check
  PROVE  IInv'
  <1>1. at["connect"] = "check" /\ UNCHANGED << clientVars, program, joining, threadVars, processVars, lock >>
    BY DEF Check
  <1>2. CASE \E x \in Exceptions : Raise(x)
    BY <1>1, <1>2, RaiseInv
  <1>3. CASE Return(place, "idle")
    <2>1. /\ at'["connect"] = "idle" /\ at'["tk"] = at["tk"] /\ result' = place /\ want' = None /\ place # None
          /\ UNCHANGED << t_rpa, rpa_main, place, rpa_outcome, program, joining, threadVars, processVars, lock >>
      BY <1>1, <1>3, Names DEF Return, clientVars, IInv, TypeOK, PlaceKnown
    <2>2. TypeOK'
      BY <1>3, <2>1, Names DEF Return, IInv, TypeOK, threadVars, processVars
    <2>3. Talk' /\ LockHeld' /\ HostsSaid'
      BY <2>1, UserFrame
    <2>4. ThreadsInOrder' /\ SettledFirst' /\ Outcomes'
      BY <1>1, <2>1, UserFrame, Names DEF IInv, ThreadsInOrder, SettledFirst, Outcomes
    <2>5. PastGrant' /\ PlaceKnown'
      BY <1>1, <2>1, UserFrame DEF IInv, PastGrant, PlaceKnown
    <2>6. Phases'
      BY <1>1, <2>1, UserFrame, Names DEF threadVars, IInv, Phases, InPlaceBefore
    <2> QED
      BY <2>2, <2>3, <2>4, <2>5, <2>6 DEF IInv
  <1> QED
    BY <1>2, <1>3 DEF Check, Exceptions

LEMMA PlaceInv ==
  ASSUME IInv, Place \/ HandleSigint
  PROVE  IInv'
  <1>1. ASSUME IsLockedFails PROVE IInv'
    BY <1>1, RaiseInv DEF IsLockedFails, Exceptions
  <1>2. ASSUME HandleSigint PROVE IInv'
    BY <1>2, RaiseInv DEF HandleSigint, Exceptions
  <1> QED
    BY <1>1, <1>2, CallInv, IsLockedInv, ConstructInv, StartInv, ReadOutcomeInv, QueryInv, CheckInv DEF Place

-----------------------------------------------------------------------------
LEMMA ReleaseInv ==
  ASSUME IInv, NEW u \in Users, Release(u)
  PROVE  IInv'
  <1>1. /\ UNCHANGED << t_rpa, rpa_main, place, rpa_outcome, program, want, result, joining, threadVars, processVars, lock >>
        /\ \/ u = "tk" /\ t_rpa # NoThread /\ at["tk"] = "idle" /\ at'["tk"] = "terminate" /\ at'["connect"] = at["connect"]
           \/ u = "connect" /\ at["connect"] = "release" /\ at'["connect"] \in {"idle", "terminate"} /\ at'["tk"] = at["tk"]
    BY Names DEF Release, GoOn, clientVars, IInv, TypeOK
  <1>2. TypeOK'
    <2>1. at' \in [Users -> UserSteps]
      <3>1. \A to \in UserSteps : [at EXCEPT ![u] = to] \in [Users -> UserSteps]
        BY DEF IInv, TypeOK, UserSteps
      <3>2. \E to \in {"idle", "terminate"} : at' = [at EXCEPT ![u] = to]
        BY DEF Release, GoOn
      <3> QED
        BY <3>1, <3>2 DEF UserSteps
    <2>2. \A v \in Users : at'[v] = "joining" => joining'[v] \in Threads
      BY <1>1, Names DEF IInv, TypeOK
    <2> QED
      BY <1>1, <2>1, <2>2, UserTypes DEF IInv, TypeOK
  <1>3. Talk' /\ LockHeld' /\ HostsSaid'
    BY <1>1, UserFrame
  <1>4. ThreadsInOrder' /\ SettledFirst' /\ Outcomes'
    <2>1. /\ at'["connect"] = "is_locked" <=> at["connect"] = "is_locked"
          /\ at'["connect"] = "construct" <=> at["connect"] = "construct"
          /\ at'["connect"] \in {"start", "wait"} <=> at["connect"] \in {"start", "wait"}
      BY <1>1
    <2>2. ThreadsInOrder'
      BY <1>1, UserFrame DEF IInv, ThreadsInOrder
    <2>3. SettledFirst'
      BY <1>1, <2>1, UserFrame DEF IInv, SettledFirst
    <2>4. Outcomes'
      BY <1>1, <2>1, UserFrame DEF threadVars, IInv, Outcomes
    <2> QED
      BY <2>2, <2>3, <2>4
  <1>5. program = "rpa_shell" => u = "tk"
    BY <1>1 DEF IInv, Phases
  <1>6. PastGrant' /\ PlaceKnown'
    BY <1>1, <1>5, UserFrame DEF IInv, PastGrant, PlaceKnown, HasPlace, InPlaceBefore
  <1>7. Phases'
    BY <1>1, <1>5, UserFrame, Names DEF threadVars, IInv, Phases, InPlaceBefore
  <1> QED
    BY <1>2, <1>3, <1>4, <1>6, <1>7 DEF IInv

LEMMA HostsKept ==
  ASSUME IInv, UNCHANGED << r, rpa_outcome, stdout >>, lock' = lock \/ lock'.by = Nobody
  PROVE  HostsSaid'
  <1>1. \A m, j : j \in {NoThread} \cup Threads /\ AssignedHost(m, j, lock) => AssignedHost(m, j, lock')
    BY Names DEF AssignedHost
  <1>2. rpa_outcome.r.thread \in {NoThread} \cup Threads
    BY DEF IInv, TypeOK
  <1> QED
    BY <1>1, <1>2 DEF IInv, HostsSaid

\* the end of a process leaves nobody in possession of its lock
LEMMA KillFrame ==
  ASSUME IInv, NEW i \in Threads, process[i] # "none", Kill(i),
         UNCHANGED << rpa_outcome, threadVars, stdout >>
  PROVE  /\ Talk' /\ LockHeld' /\ HostsSaid'
         /\ process' \in [Threads -> {"none", "asked", "waiting", "assigned", "over", "dead"}]
         /\ notes' \in [Threads -> 0 .. MaxNotes]
         /\ lock' \in {lock, [by |-> Nobody, host |-> None]} /\ (lock'.by \in Threads => lock' = lock)
         /\ lock' \in [by : {Nobody, Elsewhere} \cup Threads, host : Hosts \cup {None}]
  <1>1. /\ process' \in [Threads -> {"none", "asked", "waiting", "assigned", "over", "dead"}]
        /\ notes' \in [Threads -> 0 .. MaxNotes]
    BY LockAssumption DEF Kill, IInv, TypeOK
  <1>2. process'[i] = "dead" /\ \A j \in Threads \ {i} : process'[j] = process[j]
    BY DEF Kill, IInv, TypeOK
  <1>3. /\ lock' \in {lock, [by |-> Nobody, host |-> None]} /\ (lock'.by \in Threads => lock' = lock /\ lock.by # i)
        /\ lock' \in [by : {Nobody, Elsewhere} \cup Threads, host : Hosts \cup {None}]
    BY Names DEF Kill, IInv, TypeOK
  <1>4. Talk'
    BY <1>2 DEF threadVars, IInv, Talk, Conversation, ThreadOfProcess
  <1>5. LockHeld'
    BY <1>2, <1>3 DEF IInv, LockHeld
  <1>6. HostsSaid'
    BY <1>3, HostsKept DEF threadVars
  <1> QED
    BY <1>1, <1>3, <1>4, <1>5, <1>6

LEMMA TerminateInv ==
  ASSUME IInv, NEW u \in Users, Terminate(u)
  PROVE  IInv'
  <1>1. /\ UNCHANGED << t_rpa, rpa_main, place, rpa_outcome, program, want, result, joining, threadVars, stdout >>
        /\ at[u] = "terminate" /\ at'[u] \in {"idle", "join"} /\ \A v \in Users \ {u} : at'[v] = at[v]
        /\ at' \in [Users -> UserSteps]
    BY DEF Terminate, GoOn, clientVars, IInv, TypeOK, UserSteps
  <1>2. /\ Talk' /\ LockHeld' /\ HostsSaid'
        /\ process' \in [Threads -> {"none", "asked", "waiting", "assigned", "over", "dead"}]
        /\ notes' \in [Threads -> 0 .. MaxNotes]
        /\ lock' \in [by : {Nobody, Elsewhere} \cup Threads, host : Hosts \cup {None}]
        /\ lock'.by \in Threads => lock' = lock
    <2>1. CASE t_rpa # NoThread /\ process[t_rpa] # "none"
      <3>1. t_rpa \in Threads /\ Kill(t_rpa)
        BY <2>1 DEF Terminate, IInv, TypeOK
      <3> QED
        BY <1>1, <2>1, <3>1, KillFrame
    <2>2. CASE ~(t_rpa # NoThread /\ process[t_rpa] # "none")
      <3>1. UNCHANGED << process, notes, lock, stdout, threadVars, program, rpa_outcome >>
        BY <1>1, <2>2 DEF Terminate
      <3> QED
        BY <3>1, UserFrame DEF processVars, IInv, TypeOK
    <2> QED
      BY <2>1, <2>2
  <1>3. TypeOK'
    <2>1. \A v \in Users : at'[v] = "joining" => joining'[v] \in Threads
      BY <1>1 DEF IInv, TypeOK
    <2> QED
      BY <1>1, <1>2, <2>1 DEF IInv, TypeOK, UserSteps, threadVars
  <1>4. /\ \A i : /\ Used(i)' <=> Used(i)
                  /\ IsLatest(i)' <=> IsLatest(i)
                  /\ Settled(i)' <=> Settled(i)
                  /\ Past(i)' <=> Past(i)
        /\ OutcomeOfLatest' <=> OutcomeOfLatest
    BY <1>1 DEF threadVars, Used, IsLatest, Settled, Past, OutcomeOfLatest
  <1>5. program = "rpa_shell" => u = "tk"
    BY <1>1, Names DEF IInv, Phases
  <1>6. /\ at'["connect"] = "is_locked" <=> at["connect"] = "is_locked"
        /\ at'["connect"] = "construct" <=> at["connect"] = "construct"
        /\ at'["connect"] \in {"start", "wait"} <=> at["connect"] \in {"start", "wait"}
    BY <1>1, Names
  <1>7. ThreadsInOrder'
    BY <1>1, <1>4 DEF IInv, ThreadsInOrder
  <1>8. SettledFirst'
    BY <1>1, <1>4, <1>6 DEF IInv, SettledFirst
  <1>9. Outcomes'
    BY <1>1, <1>4, <1>6 DEF threadVars, IInv, Outcomes
  <1>10. PastGrant' /\ PlaceKnown'
    BY <1>1, <1>2, <1>4, <1>5, Names DEF IInv, PastGrant, PlaceKnown, HasPlace, InPlaceBefore
  <1>11. Phases'
    BY <1>1, <1>4, <1>5, Names DEF threadVars, IInv, Phases, InPlaceBefore
  <1> QED
    BY <1>2, <1>3, <1>7, <1>8, <1>9, <1>10, <1>11 DEF IInv

LEMMA JoinInv ==
  ASSUME IInv, NEW u \in Users, Join(u)
  PROVE  IInv'
  <1>1. /\ UNCHANGED << t_rpa, rpa_main, place, rpa_outcome, program, want, result, threadVars, processVars, lock >>
        /\ at[u] = "join" /\ at'[u] \in {"idle", "joining"} /\ \A v \in Users \ {u} : at'[v] = at[v]
        /\ joining'[u] = t_rpa /\ \A v \in Users \ {u} : joining'[v] = joining[v]
        /\ at'[u] = "joining" => t_rpa \in Threads /\ thread[t_rpa] # "new"
    BY DEF Join, GoOn, clientVars, IInv, TypeOK
  <1>2. TypeOK'
    <2>1. /\ at' \in [Users -> UserSteps]
          /\ joining' \in [Users -> {NoThread} \cup Threads]
      BY DEF Join, GoOn, IInv, TypeOK, UserSteps
    <2>2. \A v \in Users : at'[v] = "joining" => joining'[v] \in Threads
      BY <1>1 DEF IInv, TypeOK
    <2> QED
      BY <1>1, <2>1, <2>2, UserTypes DEF IInv, TypeOK
  <1>3. Talk' /\ LockHeld' /\ HostsSaid'
    BY <1>1, UserFrame
  <1>4. program = "rpa_shell" => u = "tk"
    BY <1>1, Names DEF IInv, Phases
  <1>5. ThreadsInOrder' /\ SettledFirst' /\ Outcomes'
    <2>1. /\ at'["connect"] = "is_locked" <=> at["connect"] = "is_locked"
          /\ at'["connect"] = "construct" <=> at["connect"] = "construct"
          /\ at'["connect"] \in {"start", "wait"} <=> at["connect"] \in {"start", "wait"}
      BY <1>1, Names
    <2>2. ThreadsInOrder'
      BY <1>1, UserFrame DEF IInv, ThreadsInOrder
    <2>3. SettledFirst'
      BY <1>1, <2>1, UserFrame DEF IInv, SettledFirst
    <2>4. Outcomes'
      BY <1>1, <2>1, UserFrame DEF threadVars, IInv, Outcomes
    <2> QED
      BY <2>2, <2>3, <2>4
  <1>6. PastGrant' /\ PlaceKnown'
    BY <1>1, <1>4, UserFrame, Names DEF IInv, PastGrant, PlaceKnown, HasPlace, InPlaceBefore
  <1>7. Phases'
    <2>1. at'[u] = "joining" => thread[t_rpa] # "unused" /\ \A i \in Threads : t_rpa = i => IsLatest(i)
      BY <1>1 DEF IInv, ThreadsInOrder, IsLatest, Used
    <2> QED
      BY <1>1, <1>4, <2>1, UserFrame, Names DEF threadVars, IInv, Phases, InPlaceBefore
  <1> QED
    BY <1>2, <1>3, <1>5, <1>6, <1>7 DEF IInv

LEMMA ForgetInv ==
  ASSUME IInv, NEW u \in Users, Forget(u)
  PROVE  IInv'
  <1>1. PICK k \in Threads : k = joining[u]
    BY DEF Forget, GoOn, IInv, TypeOK
  <1>2. /\ UNCHANGED << rpa_main, place, rpa_outcome, program, want, result, threadVars, processVars, lock >>
        /\ t_rpa' = NoThread /\ thread[k] = "done" /\ Used(k) /\ Settled(k)
        /\ at[u] = "joining" /\ at'[u] = "idle" /\ \A v \in Users \ {u} : at'[v] = at[v] /\ joining'[v] = joining[v]
    BY <1>1 DEF Forget, GoOn, IInv, TypeOK, Used, Settled
  <1>3. TypeOK'
    <2>1. /\ at' \in [Users -> UserSteps]
          /\ joining' \in [Users -> {NoThread} \cup Threads]
      BY DEF Forget, GoOn, IInv, TypeOK, UserSteps
    <2>2. \A v \in Users : at'[v] = "joining" => joining'[v] \in Threads
      BY <1>2 DEF IInv, TypeOK
    <2> QED
      BY <1>2, <2>1, <2>2, UserTypes DEF IInv, TypeOK
  <1>4. Talk' /\ LockHeld' /\ HostsSaid'
    BY <1>2, UserFrame
  <1>5. IsLatest(k) => \A i \in Threads : Used(i) => Settled(i)
    BY <1>2, UpToLatest
  <1>6. program = "rpa_shell" => u = "tk"
    BY <1>2, Names DEF IInv, Phases
  <1>7. program = "rpa_gui" => t_rpa = NoThread \/ IsLatest(k)
    BY <1>1, <1>2 DEF IInv, Phases, ThreadsInOrder
  <1>8. at'["connect"] = "is_locked" /\ program = "rpa_shell" => IsLatest(k)
    BY <1>1, <1>2, <1>6, Names DEF IInv, Phases, InPlaceBefore
  <1>9. ThreadsInOrder' /\ Outcomes'
    <2>1. at'["connect"] \in {"start", "wait"} <=> at["connect"] \in {"start", "wait"}
      BY <1>2, Names
    <2>2. ThreadsInOrder'
      BY <1>2, UserFrame, Names DEF IInv, ThreadsInOrder
    <2>3. Outcomes'
      BY <1>2, <2>1, UserFrame DEF threadVars, IInv, Outcomes
    <2> QED
      BY <2>2, <2>3
  <1>10. SettledFirst'
    <2>1. program = "rpa_gui" \/ at'["connect"] = "is_locked" => \A i \in Threads : Used(i) => Settled(i)
      BY <1>5, <1>7, <1>8 DEF IInv, SettledFirst, TypeOK
    <2>2. \A i \in Threads : i = 1 /\ Used(i) => Settled(i)
      BY <1>2, Names DEF IInv, ThreadsInOrder, Threads
    <2>3. at'["connect"] = "construct" => at["connect"] = "construct"
      BY <1>2, Names
    <2> QED
      BY <1>2, <2>1, <2>2, <2>3, UserFrame DEF IInv, SettledFirst
  <1>11. PastGrant' /\ PlaceKnown'
    BY <1>2, <1>6, UserFrame, Names DEF IInv, PastGrant, PlaceKnown, HasPlace, InPlaceBefore
  <1>12. Phases'
    <2>1. program = "rpa_gui" => at'["connect"] # "start"
      BY <1>1, <1>2, Names DEF IInv, Phases
    <2> QED
      BY <1>2, <1>6, <2>1, UserFrame, Names DEF threadVars, IInv, Phases, InPlaceBefore
  <1> QED
    BY <1>3, <1>4, <1>9, <1>10, <1>11, <1>12 DEF IInv

-----------------------------------------------------------------------------
(***************************************************************************)
(* What is said and what is heard.                                         *)
(***************************************************************************)
LEMMA Said ==
  ASSUME NEW out \in Seq(Responses), NEW read, NEW m \in Responses,
         InOrder(out, read), Follows(LastSaid(out, read), m.status)
  PROVE  /\ Append(out, m) \in Seq(Responses) /\ InOrder(Append(out, m), read)
         /\ LastSaid(Append(out, m), read) = m.status
         /\ \A k \in DOMAIN Append(out, m) : Append(out, m)[k] = m \/ \E l \in DOMAIN out : Append(out, m)[k] = out[l]
  <1> DEFINE n == Len(out)  new == Append(out, m)
  <1>1. /\ n \in Nat /\ DOMAIN out = 1 .. n /\ new \in Seq(Responses) /\ Len(new) = n + 1
        /\ DOMAIN new = 1 .. n + 1 /\ new # << >> /\ new[n + 1] = m /\ \A k \in 1 .. n : new[k] = out[k]
        /\ out = << >> <=> n = 0
    OBVIOUS
  <1>7. n \in Nat
    OBVIOUS
  <1>2. \A k \in 1 .. n : Follows(new[k].status, new[k + 1].status)
    <2> SUFFICES ASSUME NEW k \in 1 .. n PROVE Follows(new[k].status, new[k + 1].status)
      OBVIOUS
    <2>1. CASE k = n
      BY <1>1, <2>1 DEF LastSaid
    <2>2. CASE k # n
      <3>1. k \in 1 .. n - 1 /\ k + 1 \in 1 .. n
        <4>1. k \in Nat /\ 1 <= k /\ k <= n /\ k # n /\ n \in Nat
          BY <1>7, <2>2
        <4> QED
          BY <4>1
      <3>2. Follows(out[k].status, out[k + 1].status)
        BY <3>1 DEF InOrder
      <3> QED
        BY <1>1, <3>1, <3>2
    <2> QED
      BY <2>1, <2>2
  <1>3. Follows(read, new[1].status)
    BY <1>1 DEF InOrder, LastSaid
  <1> HIDE DEF n, new
  <1>4. InOrder(new, read)
    BY <1>1, <1>2, <1>3 DEF InOrder
  <1>5. LastSaid(new, read) = m.status
    BY <1>1 DEF LastSaid
  <1>6. \A k \in DOMAIN new : new[k] = m \/ \E l \in DOMAIN out : new[k] = out[l]
    BY <1>1
  <1> QED
    BY <1>1, <1>4, <1>5, <1>6 DEF new

LEMMA Heard ==
  ASSUME NEW out \in Seq(Responses), NEW read, out # << >>, InOrder(out, read)
  PROVE  /\ Head(out) \in Responses /\ Tail(out) \in Seq(Responses) /\ Follows(read, Head(out).status)
         /\ InOrder(Tail(out), Head(out).status)
         /\ LastSaid(Tail(out), Head(out).status) = LastSaid(out, read)
         /\ \E l \in DOMAIN out : Head(out) = out[l]
         /\ \A k \in DOMAIN Tail(out) : \E l \in DOMAIN out : Tail(out)[k] = out[l]
         /\ Head(out).status = "BYE" => Tail(out) = << >>
  <1> DEFINE n == Len(out)  rest == Tail(out)  m == Head(out)
  <1>1. /\ n \in Nat /\ n > 0 /\ DOMAIN out = 1 .. n /\ rest \in Seq(Responses) /\ Len(rest) = n - 1
        /\ DOMAIN rest = 1 .. n - 1 /\ \A k \in 1 .. n - 1 : rest[k] = out[k + 1]
        /\ rest = << >> <=> n = 1
        /\ m = out[1] /\ m \in Responses
    <2>1. /\ Head(out) \in Responses /\ Tail(out) \in Seq(Responses) /\ Len(Tail(out)) = Len(out) - 1
          /\ \A k \in 1 .. Len(Tail(out)) : Tail(out)[k] = out[k + 1]
      BY HeadTailProperties
    <2>2. Len(out) \in Nat /\ Len(out) > 0 /\ DOMAIN out = 1 .. Len(out) /\ Head(out) = out[1]
      BY EmptySeq
    <2>3. Tail(out) = << >> <=> Len(Tail(out)) = 0
      BY <2>1, EmptySeq
    <2>4. DOMAIN Tail(out) = 1 .. Len(Tail(out))
      BY <2>1
    <2> QED
      BY <2>1, <2>2, <2>3, <2>4
  <1>2. Follows(read, m.status) /\ \A k \in 1 .. n - 1 : Follows(out[k].status, out[k + 1].status)
    BY <1>1 DEF InOrder
  <1> HIDE DEF n, rest, m
  <1>3. InOrder(rest, m.status)
    <2>1. \A k \in 1 .. (n - 1) - 1 : Follows(rest[k].status, rest[k + 1].status)
      BY <1>1, <1>2
    <2>2. rest # << >> => Follows(m.status, rest[1].status)
      BY <1>1, <1>2
    <2> QED
      BY <1>1, <2>1, <2>2 DEF InOrder
  <1>4. LastSaid(rest, m.status) = LastSaid(out, read)
    BY <1>1 DEF LastSaid, n
  <1>5. m.status = "BYE" => rest = << >>
    <2>1. \A b : ~Follows("BYE", b)
      BY DEF Follows, Holding, None
    <2> QED
      BY <1>1, <1>2, <2>1
  <1>6. /\ \E l \in DOMAIN out : m = out[l]
        /\ \A k \in DOMAIN rest : \E l \in DOMAIN out : rest[k] = out[l]
    BY <1>1
  <1> QED
    BY <1>1, <1>2, <1>3, <1>4, <1>5, <1>6 DEF rest, m

-----------------------------------------------------------------------------
(***************************************************************************)
(* The processes and the server.  They leave the client alone.             *)
(***************************************************************************)
LEMMA ServerFrame ==
  ASSUME IInv, UNCHANGED << clientVars, userVars, threadVars >>
  PROVE  /\ ThreadsInOrder' /\ SettledFirst' /\ PastGrant' /\ Phases' /\ Outcomes'
         /\ (/\ process' \in [Threads -> {"none", "asked", "waiting", "assigned", "over", "dead"}]
             /\ stdout' \in [Threads -> Seq(Responses)] /\ notes' \in [Threads -> 0 .. MaxNotes]
             /\ lock' \in [by : {Nobody, Elsewhere} \cup Threads, host : Hosts \cup {None}]) => TypeOK'
         /\ lock'.by \in Threads /\ lock.by \in Threads /\ lock'.host = lock.host => PlaceKnown'
         /\ lock'.by \notin Threads => PlaceKnown'
  <1>1. /\ \A i : /\ Used(i)' <=> Used(i)
                  /\ IsLatest(i)' <=> IsLatest(i)
                  /\ Settled(i)' <=> Settled(i)
                  /\ Past(i)' <=> Past(i)
        /\ OutcomeOfLatest' <=> OutcomeOfLatest
    BY DEF clientVars, userVars, threadVars, Used, IsLatest, Settled, Past, OutcomeOfLatest
  <1>2. ThreadsInOrder' /\ SettledFirst'
    BY <1>1 DEF clientVars, userVars, IInv, ThreadsInOrder, SettledFirst
  <1>3. PastGrant' /\ Phases'
    BY <1>1 DEF clientVars, userVars, threadVars, IInv, PastGrant, Phases, InPlaceBefore, HasPlace
  <1>4. Outcomes'
    BY <1>1 DEF clientVars, userVars, threadVars, IInv, Outcomes
  <1>5. (/\ process' \in [Threads -> {"none", "asked", "waiting", "assigned", "over", "dead"}]
         /\ stdout' \in [Threads -> Seq(Responses)] /\ notes' \in [Threads -> 0 .. MaxNotes]
         /\ lock' \in [by : {Nobody, Elsewhere} \cup Threads, host : Hosts \cup {None}]) => TypeOK'
    BY DEF clientVars, userVars, threadVars, IInv, TypeOK
  <1>6. /\ lock'.by \in Threads /\ lock.by \in Threads /\ lock'.host = lock.host => PlaceKnown'
        /\ lock'.by \notin Threads => PlaceKnown'
    BY DEF clientVars, userVars, IInv, PlaceKnown, HasPlace
  <1> QED
    BY <1>2, <1>3, <1>4, <1>5, <1>6

\* a process says something, and becomes what fits it
LEMMA SaysTalk ==
  ASSUME IInv, UNCHANGED threadVars, NEW i \in Threads, process[i] \in {"asked", "waiting", "assigned", "over"},
         NEW status \in Statuses, NEW h \in Hosts \cup {None}, Follows(LastSaid(stdout[i], r[i].status), status),
         Says(i, status, h),
         process'[i] \in {"waiting", "assigned", "over", "dead"},
         process'[i] = "waiting" => status = "WAITING",
         process'[i] = "assigned" => status \in Holding,
         process'[i] = "over" => status = "BYE",
         \A j \in Threads \ {i} : process'[j] = process[j]
  PROVE  /\ Talk' /\ stdout' \in [Threads -> Seq(Responses)]
         /\ \A j \in Threads \ {i} : stdout'[j] = stdout[j]
         /\ \A k \in DOMAIN stdout'[i] : \/ stdout'[i][k] = Message(status, h)
                                         \/ \E l \in DOMAIN stdout[i] : stdout'[i][k] = stdout[i][l]
  <1> DEFINE m == Message(status, h)
  <1>1. m \in Responses /\ m.status = status
    BY DEF Message, Responses
  <1>2. /\ stdout \in [Threads -> Seq(Responses)] /\ stdout[i] \in Seq(Responses) /\ Conversation(i) /\ ThreadOfProcess(i)
        /\ thread[i] \in {"unused", "new", "run", "popen", "reading", "publish", "done"}
    BY DEF IInv, TypeOK, Talk
  <1>3. stdout'[i] = Append(stdout[i], m) /\ \A j \in Threads \ {i} : stdout'[j] = stdout[j]
    BY <1>2 DEF Says
  <1>4. /\ Append(stdout[i], m) \in Seq(Responses) /\ InOrder(Append(stdout[i], m), r[i].status)
        /\ LastSaid(Append(stdout[i], m), r[i].status) = m.status
        /\ \A k \in DOMAIN Append(stdout[i], m) :
             Append(stdout[i], m)[k] = m \/ \E l \in DOMAIN stdout[i] : Append(stdout[i], m)[k] = stdout[i][l]
    BY <1>1, <1>2, Said DEF Conversation
  <1> HIDE DEF m
  <1>5. stdout' \in [Threads -> Seq(Responses)]
    BY <1>2, <1>4 DEF Says, m
  <1>6. Conversation(i)'
    BY <1>1, <1>3, <1>4 DEF threadVars, Conversation
  <1>7. ThreadOfProcess(i)'
    BY <1>2 DEF threadVars, ThreadOfProcess
  <1>8. \A j \in Threads \ {i} : Conversation(j)' /\ ThreadOfProcess(j)'
    BY <1>3 DEF threadVars, Conversation, ThreadOfProcess, IInv, Talk
  <1>9. Talk'
    BY <1>6, <1>7, <1>8 DEF Talk
  <1> QED
    BY <1>3, <1>4, <1>5, <1>9 DEF m

\* and if it is not which place it has got, nobody else has got the lock
LEMMA SaysHosts ==
  ASSUME IInv, UNCHANGED << clientVars, threadVars >>, NEW i \in Threads, NEW status \in Statuses \ {"ASSIGNED"},
         \A j \in Threads \ {i} : stdout'[j] = stdout[j],
         \A k \in DOMAIN stdout'[i] : \/ stdout'[i][k] = Message(status, None)
                                      \/ \E l \in DOMAIN stdout[i] : stdout'[i][k] = stdout[i][l],
         lock' = lock \/ lock'.by = Elsewhere
  PROVE  HostsSaid'
  <1>1. \A m, j : j \in {NoThread} \cup Threads /\ AssignedHost(m, j, lock) => AssignedHost(m, j, lock')
    BY Names DEF AssignedHost
  <1>2. UNCHANGED << r, rpa_outcome >>
    BY DEF clientVars, threadVars
  <1>3. ASSUME NEW j \in Threads \ {i}
        PROVE  AssignedHost(r'[j], j, lock') /\ \A k \in DOMAIN stdout'[j] : AssignedHost(stdout'[j][k], j, lock')
    BY <1>1, <1>2 DEF IInv, HostsSaid
  <1>4. AssignedHost(r'[i], i, lock')
    BY <1>1, <1>2 DEF IInv, HostsSaid
  <1>5. ASSUME NEW k \in DOMAIN stdout'[i] PROVE AssignedHost(stdout'[i][k], i, lock')
    <2>1. CASE stdout'[i][k] = Message(status, None)
      BY <2>1 DEF AssignedHost, Message
    <2>2. CASE \E l \in DOMAIN stdout[i] : stdout'[i][k] = stdout[i][l]
      BY <1>1, <2>2 DEF IInv, HostsSaid
    <2> QED
      BY <2>1, <2>2
  <1>6. AssignedHost(rpa_outcome'.r, rpa_outcome'.r.thread, lock')
    BY <1>1, <1>2 DEF IInv, HostsSaid, TypeOK
  <1> QED
    BY <1>3, <1>4, <1>5, <1>6 DEF HostsSaid

LEMMA EnqueueInv ==
  ASSUME IInv, NEW i \in Threads, Enqueue(i)
  PROVE  IInv'
  <1>1. /\ UNCHANGED << clientVars, userVars, threadVars, notes, lock >> /\ lock.by = Nobody
        /\ process[i] = "asked" /\ process'[i] = "waiting" /\ Says(i, "WAITING", None)
        /\ \A j \in Threads \ {i} : process'[j] = process[j]
        /\ process' \in [Threads -> {"none", "asked", "waiting", "assigned", "over", "dead"}]
    BY DEF Enqueue, IInv, TypeOK
  <1>2. Follows(LastSaid(stdout[i], r[i].status), "WAITING")
    BY <1>1 DEF IInv, Talk, Conversation, Follows
  <1>3. /\ Talk' /\ stdout' \in [Threads -> Seq(Responses)]
        /\ \A j \in Threads \ {i} : stdout'[j] = stdout[j]
        /\ \A k \in DOMAIN stdout'[i] : \/ stdout'[i][k] = Message("WAITING", None)
                                        \/ \E l \in DOMAIN stdout[i] : stdout'[i][k] = stdout[i][l]
    BY <1>1, <1>2, SaysTalk DEF Statuses
  <1>4. LockHeld'
    BY <1>1, Names DEF IInv, LockHeld
  <1>5. HostsSaid'
    <2>1. "WAITING" \in Statuses \ {"ASSIGNED"}
      BY DEF Statuses
    <2>2. lock' = lock \/ lock'.by = Elsewhere
      BY <1>1
    <2> QED
      BY <1>1, <1>3, <2>1, <2>2, SaysHosts
  <1>6. TypeOK' /\ PlaceKnown'
    BY <1>1, <1>3, Names, ServerFrame DEF IInv, TypeOK
  <1> QED
    BY <1>1, <1>3, <1>4, <1>5, <1>6, ServerFrame DEF IInv

LEMMA AssignInv ==
  ASSUME IInv, NEW i \in Threads, Assign(i)
  PROVE  IInv'
  <1>1. PICK h \in IF rpa_cmd[i] = None THEN Hosts ELSE {rpa_cmd[i]} :
          lock' = [by |-> i, host |-> h] /\ Says(i, "ASSIGNED", h)
    BY DEF Assign
  <1>2. /\ UNCHANGED << clientVars, userVars, threadVars, notes >> /\ h \in Hosts
        /\ process[i] \in {"asked", "waiting"} /\ process'[i] = "assigned"
        /\ \A j \in Threads \ {i} : process'[j] = process[j]
        /\ process' \in [Threads -> {"none", "asked", "waiting", "assigned", "over", "dead"}]
    BY <1>1 DEF Assign, IInv, TypeOK
  <1>3. Follows(LastSaid(stdout[i], r[i].status), "ASSIGNED")
    BY <1>2 DEF IInv, Talk, Conversation, Follows
  <1>4. /\ Talk' /\ stdout' \in [Threads -> Seq(Responses)]
        /\ \A j \in Threads \ {i} : stdout'[j] = stdout[j]
        /\ \A k \in DOMAIN stdout'[i] : \/ stdout'[i][k] = Message("ASSIGNED", h)
                                        \/ \E l \in DOMAIN stdout[i] : stdout'[i][k] = stdout[i][l]
    BY <1>1, <1>2, <1>3, SaysTalk DEF Statuses, Holding
  <1>5. LockHeld'
    BY <1>1, <1>2, Names DEF LockHeld
  <1>6. /\ r[i].status # "ASSIGNED" /\ (\A k \in DOMAIN stdout[i] : stdout[i][k].status # "ASSIGNED")
        /\ Used(i) /\ ~Past(i)
    BY <1>2, Unanswered DEF None, Used
  <1>7. HostsSaid'
    <2>1. ASSUME NEW j \in Threads \ {i}
          PROVE  AssignedHost(r'[j], j, lock') /\ \A k \in DOMAIN stdout'[j] : AssignedHost(stdout'[j][k], j, lock')
      <3>1. \A m : AssignedHost(m, j, lock) => AssignedHost(m, j, lock')
        BY <1>1 DEF AssignedHost
      <3>2. r'[j] = r[j] /\ stdout'[j] = stdout[j]
        BY <1>2, <1>4 DEF threadVars
      <3> QED
        BY <3>1, <3>2 DEF IInv, HostsSaid
    <2>2. AssignedHost(r'[i], i, lock') /\ \A k \in DOMAIN stdout'[i] : AssignedHost(stdout'[i][k], i, lock')
      BY <1>1, <1>2, <1>4, <1>6 DEF threadVars, AssignedHost, Message
    <2>3. AssignedHost(rpa_outcome'.r, rpa_outcome'.r.thread, lock')
      <3>1. rpa_outcome.r.status = "ASSIGNED" => rpa_outcome.r.thread # i
        BY <1>6 DEF IInv, Outcomes
      <3> QED
        BY <1>1, <1>2, <3>1 DEF clientVars, IInv, HostsSaid, AssignedHost
    <2> QED
      BY <2>1, <2>2, <2>3 DEF HostsSaid
  <1>8. PlaceKnown'
    BY <1>2, <1>6 DEF clientVars, userVars, IInv, PlaceKnown, PastGrant, HasPlace, InPlaceBefore
  <1>9. TypeOK'
    BY <1>1, <1>2, <1>4, ServerFrame DEF IInv, TypeOK
  <1> QED
    BY <1>2, <1>4, <1>5, <1>7, <1>8, <1>9, ServerFrame DEF IInv

LEMMA RefuseInv ==
  ASSUME IInv, NEW i \in Threads, Refuse(i)
  PROVE  IInv'
  <1>1. /\ UNCHANGED << clientVars, userVars, threadVars, notes, lock >>
        /\ process[i] = "asked" /\ process'[i] = "dead" /\ Says(i, "REFUSE", None)
        /\ \A j \in Threads \ {i} : process'[j] = process[j]
        /\ process' \in [Threads -> {"none", "asked", "waiting", "assigned", "over", "dead"}]
    BY DEF Refuse, IInv, TypeOK
  <1>2. Follows(LastSaid(stdout[i], r[i].status), "REFUSE")
    BY <1>1 DEF IInv, Talk, Conversation, Follows
  <1>3. /\ Talk' /\ stdout' \in [Threads -> Seq(Responses)]
        /\ \A j \in Threads \ {i} : stdout'[j] = stdout[j]
        /\ \A k \in DOMAIN stdout'[i] : \/ stdout'[i][k] = Message("REFUSE", None)
                                        \/ \E l \in DOMAIN stdout[i] : stdout'[i][k] = stdout[i][l]
    BY <1>1, <1>2, SaysTalk DEF Statuses
  <1>4. LockHeld'
    BY <1>1, Names DEF IInv, LockHeld
  <1>5. HostsSaid'
    <2>1. "REFUSE" \in Statuses \ {"ASSIGNED"}
      BY DEF Statuses
    <2>2. lock' = lock \/ lock'.by = Elsewhere
      BY <1>1
    <2> QED
      BY <1>1, <1>3, <2>1, <2>2, SaysHosts
  <1>6. TypeOK' /\ PlaceKnown'
    BY <1>1, <1>3, Names, ServerFrame DEF IInv, TypeOK
  <1> QED
    BY <1>1, <1>3, <1>4, <1>5, <1>6, ServerFrame DEF IInv

LEMMA ReplaceInv ==
  ASSUME IInv, NEW i \in Threads, Replace(i)
  PROVE  IInv'
  <1>1. lock.by = Elsewhere
    <2>1. process[i] = "asked" /\ lock.by # Nobody /\ IsLatest(i)
      BY LatestAsks DEF Replace, Asking
    <2>2. lock.by \notin Threads
      BY <2>1, LatestAsks, OneLatest DEF IInv, LockHeld
    <2> QED
      BY <2>1, <2>2 DEF IInv, TypeOK
  <1>2. /\ UNCHANGED << clientVars, userVars, threadVars, notes >>
        /\ process[i] = "asked" /\ process'[i] = "assigned" /\ Says(i, "REPLACE", None)
        /\ \A j \in Threads \ {i} : process'[j] = process[j]
        /\ process' \in [Threads -> {"none", "asked", "waiting", "assigned", "over", "dead"}]
        /\ lock'.by = i /\ lock'.host = lock.host /\ lock.host \in Hosts
        /\ lock' \in [by : {Nobody, Elsewhere} \cup Threads, host : Hosts \cup {None}]
    <2>1. \A j \in Threads : j # lock.by
      BY <1>1, Names
    <2>3. process' = [process EXCEPT ![i] = "assigned"]
      BY <2>1 DEF Replace, IInv, TypeOK
    <2>4. stdout' = [stdout EXCEPT ![i] = Append(@, Message("REPLACE", None))]
      BY <2>1 DEF Replace, IInv, TypeOK
    <2>2. lock' = [lock EXCEPT !.by = i] /\ lock.host \in Hosts
      BY <1>1, Names DEF Replace, IInv, LockHeld
    <2> QED
      <3>1. /\ lock'.by = i /\ lock'.host = lock.host
            /\ lock' \in [by : {Nobody, Elsewhere} \cup Threads, host : Hosts \cup {None}]
        BY <2>2 DEF IInv, TypeOK
      <3>2. /\ process'[i] = "assigned" /\ \A j \in Threads \ {i} : process'[j] = process[j]
            /\ process' \in [Threads -> {"none", "asked", "waiting", "assigned", "over", "dead"}]
        BY <2>3 DEF IInv, TypeOK
      <3>3. Says(i, "REPLACE", None)
        BY <2>4 DEF Says
      <3> QED
        BY <2>2, <3>1, <3>2, <3>3 DEF Replace
  <1>3. Follows(LastSaid(stdout[i], r[i].status), "REPLACE")
    BY <1>2 DEF IInv, Talk, Conversation, Follows
  <1>4. /\ Talk' /\ stdout' \in [Threads -> Seq(Responses)]
        /\ \A j \in Threads \ {i} : stdout'[j] = stdout[j]
        /\ \A k \in DOMAIN stdout'[i] : \/ stdout'[i][k] = Message("REPLACE", None)
                                        \/ \E l \in DOMAIN stdout[i] : stdout'[i][k] = stdout[i][l]
    BY <1>2, <1>3, SaysTalk DEF Statuses, Holding
  <1>5. LockHeld'
    BY <1>2, Names DEF LockHeld
  <1>6. /\ r[i].status # "ASSIGNED" /\ (\A k \in DOMAIN stdout[i] : stdout[i][k].status # "ASSIGNED")
        /\ Used(i) /\ ~Past(i)
    BY <1>2, Unanswered DEF None, Used
  <1>7. HostsSaid'
    <2>1. ASSUME NEW j \in Threads \ {i}
          PROVE  AssignedHost(r'[j], j, lock') /\ \A k \in DOMAIN stdout'[j] : AssignedHost(stdout'[j][k], j, lock')
      <3>1. \A m : AssignedHost(m, j, lock) => AssignedHost(m, j, lock')
        BY <1>2 DEF AssignedHost
      <3>2. r'[j] = r[j] /\ stdout'[j] = stdout[j]
        BY <1>2, <1>4 DEF threadVars
      <3> QED
        BY <3>1, <3>2 DEF IInv, HostsSaid
    <2>2. AssignedHost(r'[i], i, lock') /\ \A k \in DOMAIN stdout'[i] : AssignedHost(stdout'[i][k], i, lock')
      BY <1>2, <1>4, <1>6 DEF threadVars, AssignedHost, Message
    <2>3. AssignedHost(rpa_outcome'.r, rpa_outcome'.r.thread, lock')
      <3>1. rpa_outcome.r.status = "ASSIGNED" => rpa_outcome.r.thread # i
        BY <1>6 DEF IInv, Outcomes
      <3> QED
        BY <1>2, <3>1 DEF clientVars, IInv, HostsSaid, AssignedHost
    <2> QED
      BY <2>1, <2>2, <2>3 DEF HostsSaid
  <1>8. PlaceKnown'
    BY <1>2, <1>6 DEF clientVars, userVars, IInv, PlaceKnown, PastGrant, HasPlace, InPlaceBefore
  <1>9. TypeOK'
    BY <1>2, <1>4, ServerFrame DEF IInv, TypeOK
  <1> QED
    BY <1>2, <1>4, <1>5, <1>7, <1>8, <1>9, ServerFrame DEF IInv

LEMMA IsReplacedInv ==
  ASSUME IInv, NEW i \in Threads, IsReplaced(i)
  PROVE  IInv'
  <1>1. /\ UNCHANGED << clientVars, userVars, threadVars, notes >> /\ lock.by = i
        /\ process[i] = "assigned" /\ process'[i] = "over" /\ Says(i, "BYE", None)
        /\ \A j \in Threads \ {i} : process'[j] = process[j]
        /\ process' \in [Threads -> {"none", "asked", "waiting", "assigned", "over", "dead"}]
        /\ lock'.by = Elsewhere /\ lock'.host = lock.host
        /\ lock' \in [by : {Nobody, Elsewhere} \cup Threads, host : Hosts \cup {None}]
    <2>1. process[i] = "assigned" /\ lock.by = i
      BY DEF IsReplaced, IInv, LockHeld
    <2>2. /\ process'[i] = "over" /\ \A j \in Threads \ {i} : process'[j] = process[j]
          /\ process' \in [Threads -> {"none", "asked", "waiting", "assigned", "over", "dead"}]
      BY DEF IsReplaced, IInv, TypeOK
    <2>3. /\ lock'.by = Elsewhere /\ lock'.host = lock.host
          /\ lock' \in [by : {Nobody, Elsewhere} \cup Threads, host : Hosts \cup {None}]
      BY DEF IsReplaced, IInv, TypeOK
    <2> QED
      BY <2>1, <2>2, <2>3 DEF IsReplaced
  <1>2. Follows(LastSaid(stdout[i], r[i].status), "BYE")
    BY <1>1 DEF IInv, Talk, Conversation, Follows
  <1>3. /\ Talk' /\ stdout' \in [Threads -> Seq(Responses)]
        /\ \A j \in Threads \ {i} : stdout'[j] = stdout[j]
        /\ \A k \in DOMAIN stdout'[i] : \/ stdout'[i][k] = Message("BYE", None)
                                        \/ \E l \in DOMAIN stdout[i] : stdout'[i][k] = stdout[i][l]
    BY <1>1, <1>2, SaysTalk DEF Statuses
  <1>4. LockHeld'
    BY <1>1, Names DEF IInv, LockHeld
  <1>5. HostsSaid'
    <2>1. "BYE" \in Statuses \ {"ASSIGNED"}
      BY DEF Statuses
    <2>2. lock' = lock \/ lock'.by = Elsewhere
      BY <1>1
    <2> QED
      BY <1>1, <1>3, <2>1, <2>2, SaysHosts
  <1>6. TypeOK' /\ PlaceKnown'
    BY <1>1, <1>3, Names, ServerFrame DEF IInv, TypeOK
  <1> QED
    BY <1>1, <1>3, <1>4, <1>5, <1>6, ServerFrame DEF IInv

LEMMA NoteInv ==
  ASSUME IInv, NEW i \in Threads, Note(i), "INFO" \notin Notes
  PROVE  IInv'
  <1>1. /\ UNCHANGED << clientVars, userVars, threadVars, process, lock >>
        /\ process[i] = "assigned" /\ Says(i, "EXTENDED", None)
        /\ notes' \in [Threads -> 0 .. MaxNotes]
    <2>1. PICK status \in Notes : Says(i, status, None)
      BY DEF Note
    <2>2. status = "EXTENDED"
      BY LockAssumption
    <2>3. notes[i] + 1 \in 0 .. MaxNotes
      BY LockAssumption DEF Note, IInv, TypeOK
    <2> QED
      BY <2>1, <2>2, <2>3 DEF Note, IInv, TypeOK
  <1>2. Follows(LastSaid(stdout[i], r[i].status), "EXTENDED")
    BY <1>1 DEF IInv, Talk, Conversation, Follows
  <1>3. /\ Talk' /\ stdout' \in [Threads -> Seq(Responses)]
        /\ \A j \in Threads \ {i} : stdout'[j] = stdout[j]
        /\ \A k \in DOMAIN stdout'[i] : \/ stdout'[i][k] = Message("EXTENDED", None)
                                        \/ \E l \in DOMAIN stdout[i] : stdout'[i][k] = stdout[i][l]
    BY <1>1, <1>2, SaysTalk DEF Statuses, Holding
  <1>4. LockHeld'
    BY <1>1 DEF IInv, LockHeld
  <1>5. HostsSaid'
    <2>1. "EXTENDED" \in Statuses \ {"ASSIGNED"}
      BY DEF Statuses
    <2>2. lock' = lock \/ lock'.by = Elsewhere
      BY <1>1
    <2> QED
      BY <1>1, <1>3, <2>1, <2>2, SaysHosts
  <1>6. TypeOK'
    BY <1>1, <1>3, ServerFrame DEF IInv, TypeOK
  <1>7. PlaceKnown'
    BY <1>1 DEF clientVars, userVars, IInv, PlaceKnown, HasPlace
  <1> QED
    BY <1>1, <1>3, <1>4, <1>5, <1>6, <1>7, ServerFrame DEF IInv

LEMMA DieInv ==
  ASSUME IInv, NEW i \in Threads, Die(i)
  PROVE  IInv'
  <1>1. /\ UNCHANGED << clientVars, userVars, threadVars, stdout >> /\ Kill(i) /\ process[i] # "none"
    BY DEF Die, Alive
  <1>2. UNCHANGED rpa_outcome
    BY <1>1 DEF clientVars
  <1>3. TypeOK' /\ PlaceKnown' /\ Talk' /\ LockHeld' /\ HostsSaid'
    BY <1>1, <1>2, KillFrame, ServerFrame DEF IInv, TypeOK
  <1> QED
    BY <1>1, <1>3, ServerFrame DEF IInv

LEMMA GiveBackInv ==
  ASSUME IInv, GiveBack
  PROVE  IInv'
  <1>1. UNCHANGED << clientVars, userVars, threadVars, processVars >> /\ lock' = [by |-> Nobody, host |-> None]
    BY DEF GiveBack
  <1>2. Talk'
    BY <1>1 DEF threadVars, processVars, IInv, Talk, Conversation, ThreadOfProcess
  <1>3. LockHeld'
    BY <1>1, Names DEF LockHeld
  <1>4. HostsSaid'
    BY <1>1, HostsKept DEF clientVars, threadVars, processVars
  <1>5. TypeOK' /\ PlaceKnown'
    BY <1>1, Names, ServerFrame DEF processVars, IInv, TypeOK
  <1> QED
    BY <1>1, <1>2, <1>3, <1>4, <1>5, ServerFrame DEF IInv

-----------------------------------------------------------------------------
(***************************************************************************)
(* RPAExecThread.  A thread settles and gets past its grant, but never     *)
(* comes back.                                                             *)
(***************************************************************************)
LEMMA ThreadStep ==
  ASSUME IInv, NEW i \in Threads, NEW from,
         NEW to \in {"popen", "reading", "publish", "done"}, Step(i, from, to)
  PROVE  /\ thread[i] = from /\ thread'[i] = to /\ \A j \in Threads \ {i} : thread'[j] = thread[j]
         /\ thread' \in [Threads -> {"unused", "new", "run", "popen", "reading", "publish", "done"}]
  BY DEF Step, IInv, TypeOK

LEMMA ThreadFrame ==
  ASSUME IInv, UNCHANGED << t_rpa, rpa_main, place, userVars, lock >>,
         \A i \in Threads : /\ Used(i)' <=> Used(i)
                            /\ Settled(i) => Settled(i)'
                            /\ Past(i) => Past(i)'
                            /\ thread'[i] = "new" <=> thread[i] = "new"
  PROVE  /\ ThreadsInOrder' /\ SettledFirst' /\ PastGrant' /\ Phases' /\ PlaceKnown'
         /\ \A i \in Threads : IsLatest(i)' <=> IsLatest(i)
  <1>1. \A i \in Threads : IsLatest(i)' <=> IsLatest(i)
    BY DEF IsLatest
  <1>2. ThreadsInOrder' /\ SettledFirst'
    BY <1>1 DEF userVars, IInv, ThreadsInOrder, SettledFirst
  <1>3. PastGrant' /\ PlaceKnown'
    BY DEF userVars, IInv, PastGrant, PlaceKnown, HasPlace, InPlaceBefore
  <1>4. Phases'
    <2>1. \A u \in Users : at'[u] = "joining" => thread'[joining'[u]] \notin {"unused", "new"}
      BY DEF userVars, IInv, TypeOK, Phases, Used
    <2>2. at'["connect"] = "start" /\ t_rpa' # NoThread => thread'[t_rpa'] = "new"
      BY DEF userVars, IInv, TypeOK, Phases
    <2> QED
      BY <1>1, <2>1, <2>2 DEF userVars, IInv, Phases, InPlaceBefore
  <1> QED
    BY <1>1, <1>2, <1>3, <1>4

LEMMA RunInv ==
  ASSUME IInv, NEW i \in Threads, Run(i)
  PROVE  IInv'
  <1>1. /\ thread[i] = "run" /\ thread'[i] = "popen" /\ \A j \in Threads \ {i} : thread'[j] = thread[j]
        /\ thread' \in [Threads -> {"unused", "new", "run", "popen", "reading", "publish", "done"}]
    BY ThreadStep DEF Run
  <1>2. /\ UNCHANGED << t_rpa, rpa_main, place, userVars, rpa_cmd, locked, r, processVars, lock >>
        /\ rpa_outcome'.set = rpa_outcome.set /\ rpa_outcome'.r = Outcome(i, None, None)
        /\ rpa_outcome' = [rpa_outcome EXCEPT !.r = Outcome(i, None, None)]
    BY DEF Run, IInv, TypeOK
  <1>3. IsLatest(i)
    <2>1. ~Settled(i)
      BY <1>1 DEF IInv, Talk, Conversation, ThreadOfProcess, LastSaid, Settled, None
    <2> QED
      BY <1>1, <2>1, LatestAsks DEF Used
  <1>4. \A j \in Threads : /\ Used(j)' <=> Used(j)
                           /\ Settled(j) => Settled(j)'
                           /\ Past(j) => Past(j)'
                           /\ thread'[j] = "new" <=> thread[j] = "new"
    BY <1>1, <1>2 DEF userVars, Used, Settled, Past
  <1>5. /\ ThreadsInOrder' /\ SettledFirst' /\ PastGrant' /\ Phases' /\ PlaceKnown' /\ IsLatest(i)'
    BY <1>2, <1>3, <1>4, ThreadFrame
  <1>6. rpa_outcome'.r.thread = i /\ rpa_outcome'.r.status = "None"
    BY <1>2 DEF Outcome, None
  <1>7. Outcomes'
    <2>1. OutcomeOfLatest'
      BY <1>5, <1>6 DEF OutcomeOfLatest
    <2> QED
      BY <1>6, <2>1 DEF Outcomes
  <1>8. Talk'
    BY <1>1, <1>2 DEF processVars, IInv, Talk, Conversation, ThreadOfProcess
  <1>9. LockHeld' /\ HostsSaid'
    BY <1>2, <1>6 DEF processVars, IInv, LockHeld, HostsSaid, AssignedHost
  <1>10. TypeOK'
    <2>1. rpa_outcome' \in [set : BOOLEAN, r : [thread : {NoThread} \cup Threads,
                                         status : Statuses \cup {None, "Popen"}, host : Hosts \cup {None}]]
      BY <1>2 DEF Outcome, IInv, TypeOK
    <2> QED
      BY <1>1, <1>2, <2>1 DEF userVars, processVars, IInv, TypeOK
  <1> QED
    BY <1>5, <1>7, <1>8, <1>9, <1>10 DEF IInv

LEMMA PopenInv ==
  ASSUME IInv, NEW i \in Threads, Popen(i)
  PROVE  IInv'
  <1>1. /\ thread[i] = "popen" /\ thread'[i] = "reading" /\ \A j \in Threads \ {i} : thread'[j] = thread[j]
        /\ thread' \in [Threads -> {"unused", "new", "run", "popen", "reading", "publish", "done"}]
    BY ThreadStep DEF Popen
  <1>2. /\ UNCHANGED << clientVars, userVars, rpa_cmd, locked, r, stdout, notes, lock >>
        /\ process'[i] = "asked" /\ \A j \in Threads \ {i} : process'[j] = process[j]
        /\ process' \in [Threads -> {"none", "asked", "waiting", "assigned", "over", "dead"}]
    BY DEF Popen, IInv, TypeOK
  <1>3. /\ process[i] = "none" /\ stdout[i] = << >> /\ locked[i] = None /\ r[i].status = None /\ lock.by # i
    BY <1>1 DEF IInv, Talk, Conversation, ThreadOfProcess, LastSaid, LockHeld
  <1>4. \A j \in Threads : /\ Used(j)' <=> Used(j)
                           /\ Settled(j) => Settled(j)'
                           /\ Past(j) => Past(j)'
                           /\ thread'[j] = "new" <=> thread[j] = "new"
    BY <1>1, <1>2 DEF userVars, Used, Settled, Past
  <1>5. /\ ThreadsInOrder' /\ SettledFirst' /\ PastGrant' /\ Phases' /\ PlaceKnown'
        /\ \A j \in Threads : IsLatest(j)' <=> IsLatest(j)
    BY <1>2, <1>4, ThreadFrame DEF clientVars
  <1>6. Outcomes'
    <2>1. OutcomeOfLatest => OutcomeOfLatest'
      BY <1>2, <1>4, <1>5 DEF clientVars, userVars, OutcomeOfLatest
    <2>2. \A j \in Threads : thread'[j] \notin {"new", "run"} => thread[j] \notin {"new", "run"}
      BY <1>1
    <2> QED
      BY <1>2, <1>4, <1>5, <2>1, <2>2 DEF clientVars, userVars, IInv, Outcomes
  <1>7. Talk'
    <2>1. Conversation(i)' /\ ThreadOfProcess(i)'
      BY <1>1, <1>2, <1>3 DEF Conversation, ThreadOfProcess, InOrder, LastSaid, None
    <2>2. \A j \in Threads \ {i} : Conversation(j)' /\ ThreadOfProcess(j)'
      BY <1>1, <1>2 DEF IInv, Talk, Conversation, ThreadOfProcess
    <2> QED
      BY <2>1, <2>2 DEF Talk
  <1>8. LockHeld' /\ HostsSaid'
    BY <1>2, <1>3 DEF clientVars, IInv, LockHeld, HostsSaid
  <1>9. TypeOK'
    BY <1>1, <1>2 DEF clientVars, userVars, IInv, TypeOK
  <1> QED
    BY <1>5, <1>6, <1>7, <1>8, <1>9 DEF IInv

LEMMA PopenFailsInv ==
  ASSUME IInv, NEW i \in Threads, PopenFails(i)
  PROVE  IInv'
  <1>1. /\ thread[i] = "popen" /\ thread'[i] = "done" /\ \A j \in Threads \ {i} : thread'[j] = thread[j]
        /\ thread' \in [Threads -> {"unused", "new", "run", "popen", "reading", "publish", "done"}]
    BY ThreadStep DEF PopenFails
  <1>2. /\ UNCHANGED << t_rpa, rpa_main, place, userVars, rpa_cmd, locked, r, processVars, lock >>
        /\ rpa_outcome' = [rpa_outcome EXCEPT !.set = TRUE] /\ rpa_outcome'.r = rpa_outcome.r
    BY DEF PopenFails, IInv, TypeOK
  <1>3. IsLatest(i)
    <2>1. ~Settled(i)
      BY <1>1 DEF IInv, Talk, Conversation, ThreadOfProcess, LastSaid, Settled, None
    <2> QED
      BY <1>1, <2>1, LatestAsks DEF Used
  <1>4. \A j \in Threads : /\ Used(j)' <=> Used(j)
                           /\ Settled(j) => Settled(j)'
                           /\ Past(j) => Past(j)'
                           /\ thread'[j] = "new" <=> thread[j] = "new"
    BY <1>1, <1>2 DEF userVars, Used, Settled, Past
  <1>5. /\ ThreadsInOrder' /\ SettledFirst' /\ PastGrant' /\ Phases' /\ PlaceKnown'
        /\ \A j \in Threads : IsLatest(j)' <=> IsLatest(j)
    BY <1>2, <1>4, ThreadFrame
  <1>6. Outcomes'
    <2>1. OutcomeOfLatest => OutcomeOfLatest'
      BY <1>2, <1>4, <1>5 DEF userVars, OutcomeOfLatest
    <2>2. at["connect"] \in {"start", "wait"} => OutcomeOfLatest
      BY <1>1, <1>3 DEF IInv, Outcomes
    <2> QED
      BY <1>2, <1>4, <2>1, <2>2 DEF userVars, IInv, Outcomes
  <1>7. Talk'
    BY <1>1, <1>2 DEF processVars, IInv, Talk, Conversation, ThreadOfProcess
  <1>8. LockHeld' /\ HostsSaid'
    BY <1>2 DEF processVars, IInv, LockHeld, HostsSaid
  <1>9. TypeOK'
    <2>1. rpa_outcome' \in [set : BOOLEAN, r : [thread : {NoThread} \cup Threads,
                                         status : Statuses \cup {None, "Popen"}, host : Hosts \cup {None}]]
      BY <1>2 DEF IInv, TypeOK
    <2> QED
      BY <1>1, <1>2, <2>1 DEF userVars, processVars, IInv, TypeOK
  <1> QED
    BY <1>5, <1>6, <1>7, <1>8, <1>9 DEF IInv

LEMMA ReadMessageInv ==
  ASSUME IInv, NEW i \in Threads, ReadMessage(i)
  PROVE  IInv'
  <1> DEFINE m == Head(stdout[i])
             host == IF m.host = None THEN r[i].host ELSE m.host
  <1>1. /\ thread[i] = "reading" /\ thread'[i] = "publish" /\ \A j \in Threads \ {i} : thread'[j] = thread[j]
        /\ thread' \in [Threads -> {"unused", "new", "run", "popen", "reading", "publish", "done"}]
    BY ThreadStep DEF ReadMessage
  <1>2. /\ UNCHANGED << clientVars, userVars, rpa_cmd, process, notes, lock >> /\ stdout[i] # << >>
        /\ stdout' = [stdout EXCEPT ![i] = Tail(@)]
        /\ r' = [r EXCEPT ![i] = Message(m.status, host)]
        /\ locked' = [locked EXCEPT ![i] = IF m.status \in Holding THEN "True" ELSE "False"]
    BY DEF ReadMessage, Holding
  <1>3. /\ Conversation(i) /\ ThreadOfProcess(i) /\ stdout[i] \in Seq(Responses)
        /\ r[i] \in Responses /\ stdout \in [Threads -> Seq(Responses)]
        /\ r \in [Threads -> Responses] /\ locked \in [Threads -> {None, "True", "False"}]
    BY DEF IInv, Talk, TypeOK
  <1>4. /\ m \in Responses /\ Tail(stdout[i]) \in Seq(Responses) /\ Follows(r[i].status, m.status)
        /\ InOrder(Tail(stdout[i]), m.status)
        /\ LastSaid(Tail(stdout[i]), m.status) = LastSaid(stdout[i], r[i].status)
        /\ \E l \in DOMAIN stdout[i] : m = stdout[i][l]
        /\ \A k \in DOMAIN Tail(stdout[i]) : \E l \in DOMAIN stdout[i] : Tail(stdout[i])[k] = stdout[i][l]
    BY <1>2, <1>3, Heard DEF Conversation
  <1>5. AssignedHost(m, i, lock) /\ \A k \in DOMAIN Tail(stdout[i]) : AssignedHost(Tail(stdout[i])[k], i, lock)
    BY <1>4 DEF IInv, HostsSaid
  <1> HIDE DEF m
  <1>6. /\ r' \in [Threads -> Responses] /\ r'[i].status = m.status /\ (m.host # None => r'[i].host = m.host)
        /\ \A j \in Threads \ {i} : r'[j] = r[j]
    BY <1>2, <1>3, <1>4 DEF Message, Responses
  <1>7. /\ stdout' \in [Threads -> Seq(Responses)] /\ stdout'[i] = Tail(stdout[i])
        /\ \A j \in Threads \ {i} : stdout'[j] = stdout[j]
    BY <1>2, <1>3, <1>4
  <1>8. /\ locked' \in [Threads -> {None, "True", "False"}]
        /\ locked'[i] = IF m.status \in Holding THEN "True" ELSE "False"
        /\ \A j \in Threads \ {i} : locked'[j] = locked[j]
    BY <1>2, <1>3
  <1> HIDE DEF host
  <1>9. /\ r[i].status # "BYE" /\ m.status \in {"WAITING", "ASSIGNED", "REPLACE", "REFUSE", "EXTENDED", "BYE"}
        /\ r[i].status \in Holding => m.status \in {"EXTENDED", "BYE"}
    BY <1>4 DEF Follows, Holding, None
  <1>10. IsLatest(i)
    BY <1>1, <1>9, LatestAsks DEF Settled, Used
  <1>11. \A j \in Threads : /\ Used(j)' <=> Used(j)
                            /\ Settled(j) => Settled(j)'
                            /\ Past(j) => Past(j)'
                            /\ thread'[j] = "new" <=> thread[j] = "new"
    <2>1. /\ Used(i)' /\ Used(i) /\ ~Settled(i) /\ (Past(i) => Past(i)') /\ thread'[i] # "new" /\ thread[i] # "new"
      BY <1>1, <1>6, <1>9 DEF Used, Settled, Past, Holding
    <2>2. \A j \in Threads \ {i} : /\ Used(j)' <=> Used(j)
                                   /\ Settled(j) => Settled(j)'
                                   /\ Past(j) => Past(j)'
                                   /\ thread'[j] = "new" <=> thread[j] = "new"
      BY <1>1, <1>2, <1>6 DEF userVars, Used, Settled, Past
    <2> QED
      BY <2>1, <2>2
  <1>12. /\ ThreadsInOrder' /\ SettledFirst' /\ PastGrant' /\ Phases' /\ PlaceKnown'
         /\ \A j \in Threads : IsLatest(j)' <=> IsLatest(j)
    BY <1>2, <1>11, ThreadFrame DEF clientVars
  <1>13. Outcomes'
    <2>1. OutcomeOfLatest => OutcomeOfLatest'
      BY <1>2, <1>8, <1>10, <1>11, <1>12 DEF clientVars, userVars, OutcomeOfLatest
    <2>2. \A j \in Threads : thread'[j] \notin {"new", "run"} => thread[j] \notin {"new", "run"}
      BY <1>1
    <2> QED
      BY <1>2, <1>11, <1>12, <2>1, <2>2 DEF clientVars, userVars, IInv, Outcomes
  <1>14. Talk'
    <2>1. Conversation(i)'
      BY <1>2, <1>3, <1>4, <1>6, <1>7 DEF Conversation
    <2>2. ThreadOfProcess(i)'
      BY <1>1, <1>2, <1>3, <1>6, <1>8, <1>9 DEF ThreadOfProcess, Holding
    <2>3. \A j \in Threads \ {i} : Conversation(j)' /\ ThreadOfProcess(j)'
      <3> TAKE j \in Threads \ {i}
      <3>1. UNCHANGED << thread[j], process[j], stdout[j], r[j], locked[j] >>
        BY <1>1, <1>2, <1>6, <1>7, <1>8
      <3>2. Conversation(j)'
        BY <3>1 DEF IInv, Talk, Conversation
      <3>3. ThreadOfProcess(j)'
        BY <3>1 DEF IInv, Talk, ThreadOfProcess
      <3> QED
        BY <3>2, <3>3
    <2> QED
      BY <2>1, <2>2, <2>3 DEF Talk
  <1>15. LockHeld'
    BY <1>2 DEF IInv, LockHeld
  <1>16. HostsSaid'
    <2>1. AssignedHost(r'[i], i, lock')
      BY <1>2, <1>5, <1>6, Names DEF AssignedHost
    <2>2. \A k \in DOMAIN stdout'[i] : AssignedHost(stdout'[i][k], i, lock')
      BY <1>2, <1>5, <1>7
    <2>3. ASSUME NEW j \in Threads \ {i}
          PROVE  AssignedHost(r'[j], j, lock') /\ \A k \in DOMAIN stdout'[j] : AssignedHost(stdout'[j][k], j, lock')
      BY <1>2, <1>6, <1>7 DEF IInv, HostsSaid
    <2>4. AssignedHost(rpa_outcome'.r, rpa_outcome'.r.thread, lock')
      BY <1>2 DEF clientVars, IInv, HostsSaid
    <2> QED
      BY <2>1, <2>2, <2>3, <2>4 DEF HostsSaid
  <1>17. TypeOK'
    BY <1>1, <1>2, <1>6, <1>7, <1>8 DEF clientVars, userVars, IInv, TypeOK
  <1> QED
    BY <1>12, <1>13, <1>14, <1>15, <1>16, <1>17 DEF IInv

LEMMA PublishInv ==
  ASSUME IInv, NEW i \in Threads, Publish(i)
  PROVE  IInv'
  <1>1. /\ thread[i] = "publish" /\ thread'[i] = "reading" /\ \A j \in Threads \ {i} : thread'[j] = thread[j]
        /\ thread' \in [Threads -> {"unused", "new", "run", "popen", "reading", "publish", "done"}]
    BY ThreadStep DEF Publish
  <1>2. /\ UNCHANGED << t_rpa, rpa_main, place, userVars, rpa_cmd, locked, r, processVars, lock >>
        /\ rpa_outcome'.set /\ rpa_outcome'.r.thread = i
        /\ rpa_outcome'.r.status = r[i].status /\ rpa_outcome'.r.host = r[i].host
        /\ rpa_outcome' \in [set : BOOLEAN, r : [thread : {NoThread} \cup Threads,
                                         status : Statuses \cup {None, "Popen"}, host : Hosts \cup {None}]]
    <2>1. r[i].status \in Statuses \cup {None, "Popen"} /\ r[i].host \in Hosts \cup {None}
      BY DEF IInv, TypeOK, Responses
    <2> QED
      BY <2>1 DEF Publish, Outcome
  <1>3. \A j \in Threads : /\ Used(j)' <=> Used(j)
                           /\ Settled(j) => Settled(j)'
                           /\ Past(j) => Past(j)'
                           /\ thread'[j] = "new" <=> thread[j] = "new"
    BY <1>1, <1>2 DEF userVars, Used, Settled, Past
  <1>4. /\ ThreadsInOrder' /\ SettledFirst' /\ PastGrant' /\ Phases' /\ PlaceKnown'
        /\ \A j \in Threads : IsLatest(j)' <=> IsLatest(j)
    BY <1>2, <1>3, ThreadFrame
  <1>5. IsLatest(i) \/ (program = "rpa_shell" /\ r[i].status = "BYE" /\ locked[i] = "False")
    BY <1>1, LatestAsks DEF Settled, Used, IInv, Talk, ThreadOfProcess
  <1>6. Outcomes'
    <2>1. OutcomeOfLatest'
      BY <1>1, <1>2, <1>4, <1>5 DEF userVars, OutcomeOfLatest, Used
    <2>2. rpa_outcome'.r.status \in {"ASSIGNED", "REPLACE"} => Used(i)' /\ Past(i)'
      BY <1>1, <1>2 DEF Used, Past, Holding
    <2> QED
      BY <1>2, <2>1, <2>2 DEF Outcomes
  <1>7. Talk'
    BY <1>1, <1>2 DEF processVars, IInv, Talk, Conversation, ThreadOfProcess
  <1>8. LockHeld' /\ HostsSaid'
    BY <1>2 DEF processVars, IInv, LockHeld, HostsSaid, AssignedHost
  <1>9. TypeOK'
    BY <1>1, <1>2 DEF userVars, processVars, IInv, TypeOK
  <1> QED
    BY <1>4, <1>6, <1>7, <1>8, <1>9 DEF IInv

LEMMA EofInv ==
  ASSUME IInv, NEW i \in Threads, Eof(i)
  PROVE  IInv'
  <1>1. /\ thread[i] = "reading" /\ thread'[i] = "done" /\ \A j \in Threads \ {i} : thread'[j] = thread[j]
        /\ thread' \in [Threads -> {"unused", "new", "run", "popen", "reading", "publish", "done"}]
    BY ThreadStep DEF Eof
  <1>2. /\ UNCHANGED << t_rpa, rpa_main, place, userVars, rpa_cmd, locked, processVars, lock >>
        /\ stdout[i] = << >> /\ process[i] = "dead"
        /\ rpa_outcome' = [set |-> TRUE, r |-> Outcome(i, "Popen", None)]
        /\ rpa_outcome'.r.thread = i /\ rpa_outcome'.r.status = "Popen"
        /\ r' = [r EXCEPT ![i] = Message(None, None)]
    BY DEF Eof, Outcome
  <1>3. /\ r' \in [Threads -> Responses] /\ r'[i].status = None /\ \A j \in Threads \ {i} : r'[j] = r[j]
    BY <1>2 DEF Message, Responses, IInv, TypeOK
  <1>4. \A j \in Threads : /\ Used(j)' <=> Used(j)
                           /\ Settled(j) => Settled(j)'
                           /\ Past(j) => Past(j)'
                           /\ thread'[j] = "new" <=> thread[j] = "new"
    BY <1>1, <1>2, <1>3 DEF userVars, Used, Settled, Past
  <1>5. /\ ThreadsInOrder' /\ SettledFirst' /\ PastGrant' /\ Phases' /\ PlaceKnown'
        /\ \A j \in Threads : IsLatest(j)' <=> IsLatest(j)
    BY <1>2, <1>4, ThreadFrame
  <1>6. IsLatest(i) \/ (program = "rpa_shell" /\ r[i].status = "BYE" /\ locked[i] = "False")
    BY <1>1, LatestAsks DEF Settled, Used, IInv, Talk, ThreadOfProcess
  <1>7. Outcomes'
    <2>1. OutcomeOfLatest'
      BY <1>1, <1>2, <1>5, <1>6 DEF userVars, OutcomeOfLatest, Used
    <2> QED
      BY <1>2, <2>1 DEF Outcomes
  <1>8. Talk'
    <2>1. Conversation(i)' /\ ThreadOfProcess(i)'
      BY <1>1, <1>2 DEF processVars, Conversation, ThreadOfProcess, InOrder, LastSaid
    <2>2. \A j \in Threads \ {i} : Conversation(j)' /\ ThreadOfProcess(j)'
      BY <1>1, <1>2, <1>3 DEF processVars, IInv, Talk, Conversation, ThreadOfProcess
    <2> QED
      BY <2>1, <2>2 DEF Talk
  <1>9. LockHeld'
    BY <1>2 DEF processVars, IInv, LockHeld
  <1>10. HostsSaid'
    <2>1. AssignedHost(r'[i], i, lock') /\ AssignedHost(rpa_outcome'.r, rpa_outcome'.r.thread, lock')
      BY <1>2, <1>3 DEF AssignedHost, None
    <2> QED
      BY <1>2, <1>3, <2>1 DEF processVars, IInv, HostsSaid
  <1>11. TypeOK'
    <2>1. rpa_outcome' \in [set : BOOLEAN, r : [thread : {NoThread} \cup Threads,
                                         status : Statuses \cup {None, "Popen"}, host : Hosts \cup {None}]]
      BY <1>2 DEF Outcome
    <2> QED
      BY <1>1, <1>2, <1>3, <2>1 DEF userVars, processVars, IInv, TypeOK
  <1> QED
    BY <1>5, <1>7, <1>8, <1>9, <1>10, <1>11 DEF IInv

-----------------------------------------------------------------------------
(***************************************************************************)
(* The theorems.  None of them holds if a holder may be sent a message     *)
(* with the status INFO: the client takes it for the loss of its place.    *)
(***************************************************************************)

\* The next-state relation preserves the inductive invariant.
LEMMA NextInv ==
  ASSUME IInv, [Next]_vars, "INFO" \notin Notes
  PROVE  IInv'
  <1>1. CASE UNCHANGED vars
    BY <1>1 DEF vars, clientVars, userVars, threadVars, processVars, IInv, TypeOK, Talk, Conversation, ThreadOfProcess,
         ThreadsInOrder, SettledFirst, PastGrant, Phases, Outcomes, OutcomeOfLatest, IsLatest, Used, Settled, Past,
         InPlaceBefore, HasPlace, LockHeld, HostsSaid, PlaceKnown
  <1>2. ASSUME NEW u \in Users, ReleasePlace(u) PROVE IInv'
    BY <1>2, ReleaseInv, TerminateInv, JoinInv, ForgetInv DEF ReleasePlace
  <1>3. ASSUME NEW i \in Threads, RPAExecThread(i) PROVE IInv'
    BY <1>3, RunInv, PopenInv, PopenFailsInv, ReadMessageInv, PublishInv, EofInv DEF RPAExecThread
  <1>4. ASSUME NEW i \in Threads, Server(i) PROVE IInv'
    BY <1>4, EnqueueInv, AssignInv, RefuseInv, ReplaceInv, IsReplacedInv, NoteInv, DieInv DEF Server, Answer
  <1> QED
    BY <1>1, <1>2, <1>3, <1>4, PlaceInv, GiveBackInv DEF Next

\* The inductive invariant holds in every reachable state.
THEOREM Invariance ==
  ASSUME "INFO" \notin Notes
  PROVE  Spec => []IInv
  <1>1. IInv /\ [Next]_vars => IInv'
    BY NextInv
  <1> QED
    BY <1>1, InitInv, PTL DEF Spec

\* The variables of client, threads, processes and server keep their types.
THEOREM TypeCorrect ==
  ASSUME "INFO" \notin Notes
  PROVE  Spec => []TypeOK
  <1>1. IInv => TypeOK
    BY DEF IInv
  <1> QED
    BY <1>1, Invariance, PTL

\* One process at a time asks for the lock or has it, however many threads the
\* client has started: whoever asks is the latest (librpa.py:377-389, 478-491).
THEOREM OneAsks ==
  ASSUME "INFO" \notin Notes
  PROVE  Spec => []OneProcess
  <1>1. IInv => OneProcess
    BY LatestAsks, OneLatest DEF OneProcess
  <1> QED
    BY <1>1, Invariance, PTL

\* A client without a thread leaves no process behind that has the place or may
\* get it, but for the one that rpa_shell's state thread has just started.
THEOREM NothingLeftBehind ==
  ASSUME "INFO" \notin Notes
  PROVE  Spec => []ReleaseStops
  <1>1. IInv => ReleaseStops
    <2> SUFFICES ASSUME IInv, t_rpa = NoThread, at["connect"] = "idle", NEW i \in Threads, Asking(i)
                 PROVE  program = "rpa_shell" /\ i > 1
      BY DEF ReleaseStops
    <2>1. Used(i) /\ ~Settled(i)
      BY LatestAsks
    <2>2. program # "rpa_gui" /\ i # 1
      BY <2>1 DEF IInv, SettledFirst
    <2> QED
      BY <2>2, LockAssumption DEF IInv, TypeOK, Threads
  <1> QED
    BY <1>1, Invariance, PTL

\* Who waits for an outcome reads that of the latest thread, or learns that a
\* place is lost, never that one was assigned to an earlier thread.
THEOREM OutcomeIsOwn ==
  ASSUME "INFO" \notin Notes
  PROVE  Spec => []OwnOutcome
  <1>1. IInv => OwnOutcome
    <2> SUFFICES ASSUME IInv, at["connect"] = "wait", rpa_outcome.set
                 PROVE  LET i == rpa_outcome.r.thread
                        IN i = Latest \/ (program = "rpa_shell" /\ locked[i] = "False" /\ rpa_outcome.r.status # "ASSIGNED")
      BY DEF OwnOutcome
    <2>1. PICK i \in Threads :
            /\ rpa_outcome.r.thread = i
            /\ \/ IsLatest(i)
               \/ program = "rpa_shell" /\ Used(i) /\ locked[i] = "False" /\ rpa_outcome.r.status \in {"BYE", "Popen"}
      BY DEF IInv, Outcomes, OutcomeOfLatest
    <2>2. ASSUME IsLatest(i) PROVE i = Latest
      <3>1. \A j \in Threads :
              (thread[j] # "unused" /\ \A k \in j + 1 .. MaxThreads : thread[k] = "unused") <=> IsLatest(j)
        BY LockAssumption DEF IsLatest, Used, Threads
      <3>2. \A j \in Threads : IsLatest(j) => j = i
        BY <2>2, OneLatest
      <3> QED
        BY <2>2, <3>1, <3>2 DEF Latest
    <2> QED
      BY <2>1, <2>2
  <1> QED
    BY <1>1, Invariance, PTL

\* The place that Place returns is the one that the client has locked, unless it
\* has lost the lock again.
THEOREM PlaceIsRight ==
  ASSUME "INFO" \notin Notes
  PROVE  Spec => RightPlace
  <1>1. IInv /\ [Next]_vars
          => [at["connect"] = "check" /\ at'["connect"] # "check" /\ lock.by \in Threads
                => result' \in Exceptions \cup {lock.host}]_vars
    <2> SUFFICES ASSUME IInv, Next, at["connect"] = "check", at'["connect"] # "check", lock.by \in Threads
                 PROVE  result' \in Exceptions \cup {lock.host}
      OBVIOUS
    <2>1. place = lock.host
      BY DEF IInv, PlaceKnown
    <2>2. CASE \E value, to : Return(value, to) /\ value \in Exceptions \cup {place}
      BY <2>1, <2>2 DEF Return
    <2>3. Check \/ HandleSigint
      <3>1. ASSUME NEW u \in Users, ReleasePlace(u) PROVE at'["connect"] = at["connect"]
        BY <3>1, Names DEF ReleasePlace, Release, Terminate, Join, Forget, GoOn, IInv, TypeOK
      <3>2. ASSUME NEW i \in Threads, RPAExecThread(i) \/ Server(i) PROVE at' = at
        BY <3>2 DEF RPAExecThread, Run, Popen, PopenFails, ReadMessage, Publish, Eof, Server, Answer, Enqueue,
             Assign, Refuse, Replace, IsReplaced, Note, Die, userVars
      <3>3. ASSUME Place PROVE Check
        BY <3>3 DEF Place, Call, IsLocked, IsLockedFails, Construct, Start, ReadOutcome, Query, Continue, GoOn
      <3> QED
        BY <3>1, <3>2, <3>3 DEF Next, GiveBack, userVars
    <2> QED
      BY <2>2, <2>3 DEF Check, HandleSigint, Raise, Exceptions
  <1> QED
    BY <1>1, Invariance, PTL DEF Spec, RightPlace

=============================================================================
