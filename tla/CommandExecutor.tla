--------------------------- MODULE CommandExecutor ----------------------------
(***************************************************************************)
(* The command executor of rpa_tools: threads of the program that call     *)
(* RPAClient.Places or RPAClient.LockState (librpa.py), the                *)
(* CommandExecutorThreads those calls start (ssh.py), and the remote shell *)
(* behind every executor's ssh process, which answers in its own time and  *)
(* may die at any moment.                                                  *)
(*                                                                         *)
(* A step ends where a thread can be preempted with an effect: at a lock,  *)
(* a queue, an event, a pipe or a read of RPAClient.t_cmd_executor.        *)
(***************************************************************************)
EXTENDS Naturals, Sequences

CONSTANTS Clients,     \* the threads that execute commands
          MaxCalls,    \* bound: calls of each client
          MaxExecutors,\* bound: executors started in the lifetime of the RPAClient
          Separator,   \* the line that ends an answer
          Banner,      \* the status output of a login
          None

ASSUME BoundsAssumption == MaxCalls \in Nat /\ MaxExecutors \in Nat

Executors == 1 .. MaxExecutors
Commands  == Clients \X (1 .. MaxCalls)
Lines     == Commands \cup {Separator, Banner}

\* a command prints other lines than the separator, as a login does
ASSUME LinesAssumption ==
  /\ Separator # Banner /\ \A cmd \in Commands : cmd \notin {Separator, None}
  /\ None \notin Executors

VARIABLES
  t_cmd_executor,  \* RPAClient's executor or None
  pc, calls, mine, \* of a client: next step, calls so far, executor it has read
  events,          \* the ExecutorCommands whose event is set
  response,        \* ExecutorCommand._response: the lines of the answer or None
  thread,          \* of an executor: next step,
  cmd_queue,       \*   waiting commands,
  ec,              \*   command in work or None,
  answer,          \*   lines read so far, None at the end of the pipe,
  alive,           \*   whether its ssh process runs,
  stdin, stdout    \*   and the pipes to and from it

clientVars   == << pc, calls, mine >>
executorVars == << thread, cmd_queue, ec, answer >>
sshVars      == << alive, stdin, stdout >>
vars == << t_cmd_executor, clientVars, events, response, executorVars, sshVars >>

\* the ExecutorCommand of the client's latest call
Call(c) == << c, calls[c] >>

At(c, here)          == pc[c] = here
GoOn(c, next)        == pc' = [pc EXCEPT ![c] = next]
Step(e, here, next)  == thread[e] = here /\ thread' = [thread EXCEPT ![e] = next]

-----------------------------------------------------------------------------
(***************************************************************************)
(* Clients.                                                                *)
(***************************************************************************)
\* _require_command_executor, under lockCommandExecutor
Require(c) ==
  /\ At(c, "idle") /\ calls[c] < MaxCalls
  /\ calls' = [calls EXCEPT ![c] = @ + 1]
  /\ GoOn(c, "read")
  /\ \/ t_cmd_executor # None /\ UNCHANGED << t_cmd_executor, thread >>
     \/ /\ t_cmd_executor = None
        /\ \E e \in Executors :
             /\ thread[e] = "unused" /\ \A d \in 1 .. e - 1 : thread[d] # "unused"
             /\ thread' = [thread EXCEPT ![e] = "popen"]
             /\ t_cmd_executor' = e
  /\ UNCHANGED << mine, events, response, cmd_queue, ec, answer, sshVars >>

\* "self.t_cmd_executor.queueCommand" has no lock; on None it is an
\* AttributeError, which no handler of _execute_command catches
ReadExecutor(c) ==
  /\ At(c, "read")
  /\ mine' = [mine EXCEPT ![c] = t_cmd_executor]
  /\ GoOn(c, IF t_cmd_executor = None THEN "idle" ELSE "queue")
  /\ UNCHANGED << t_cmd_executor, calls, events, response, executorVars, sshVars >>

\* cmd_queue is a Queue, hence true: the other branch is never taken
QueueCommand(c) ==
  /\ At(c, "queue")
  /\ cmd_queue' = [cmd_queue EXCEPT ![mine[c]] = Append(@, Call(c))]
  /\ GoOn(c, "wait")
  /\ UNCHANGED << t_cmd_executor, calls, mine, events, response, thread, ec, answer, sshVars >>

\* ec.wait returns; an empty answer counts as none
Wake(c) ==
  /\ At(c, "wait") /\ Call(c) \in events
  /\ GoOn(c, IF response[Call(c)] \in {None, << >>} THEN "drop" ELSE "idle")
  /\ UNCHANGED << t_cmd_executor, calls, mine, events, response, executorVars, sshVars >>

\* ExecutorTerminatedException, handled under lockCommandExecutor
DropExecutor(c) ==
  /\ At(c, "drop")
  /\ t_cmd_executor' = None
  /\ GoOn(c, "idle")
  /\ UNCHANGED << calls, mine, events, response, executorVars, sshVars >>

Client(c) == Require(c) \/ ReadExecutor(c) \/ QueueCommand(c) \/ Wake(c) \/ DropExecutor(c)

-----------------------------------------------------------------------------
(***************************************************************************)
(* Executors.  An exception anywhere in threadLoop leads to "finalize".    *)
(***************************************************************************)
PopenFails(e) ==
  /\ Step(e, "popen", "finalize")
  /\ UNCHANGED << t_cmd_executor, clientVars, events, response, cmd_queue, ec, answer, sshVars >>

Popen(e) ==
  /\ Step(e, "popen", "greet")
  /\ alive' = [alive EXCEPT ![e] = TRUE]
  /\ \E status \in {<< >>, << Banner >>} : stdout' = [stdout EXCEPT ![e] = status]
  /\ UNCHANGED << t_cmd_executor, clientVars, events, response, cmd_queue, ec, answer, stdin >>

\* a write to a dead process is a BrokenPipeError
WriteFails(e) ==
  /\ ~alive[e]
  /\ Step(e, "greet", "finalize") \/ Step(e, "write", "finalize")
  /\ UNCHANGED << t_cmd_executor, clientVars, events, response, cmd_queue, ec, answer, sshVars >>

SendLines(e, lines) ==
  /\ alive[e]
  /\ stdin' = [stdin EXCEPT ![e] = @ \o lines]
  /\ answer' = [answer EXCEPT ![e] = << >>]

\* a mutant: the status output is not consumed
GreetOnly(e) ==
  /\ Step(e, "greet", "get")
  /\ SendLines(e, << Separator >>)
  /\ UNCHANGED << t_cmd_executor, clientVars, events, response, cmd_queue, ec, alive, stdout >>

\* consume status output
Greet(e) ==
  /\ Step(e, "greet", "status")
  /\ SendLines(e, << Separator >>)
  /\ UNCHANGED << t_cmd_executor, clientVars, events, response, cmd_queue, ec, alive, stdout >>

GetCommand(e) ==
  /\ Step(e, "get", "write")
  /\ cmd_queue[e] # << >>
  /\ ec' = [ec EXCEPT ![e] = Head(cmd_queue[e])]
  /\ cmd_queue' = [cmd_queue EXCEPT ![e] = Tail(@)]
  /\ UNCHANGED << t_cmd_executor, clientVars, events, response, answer, sshVars >>

\* a mutant: the client is woken before its answer is there
ExecuteAndSet(e) ==
  /\ Step(e, "write", "result")
  /\ SendLines(e, << ec[e], Separator >>)
  /\ events' = events \cup {ec[e]}
  /\ UNCHANGED << t_cmd_executor, clientVars, response, cmd_queue, ec, alive, stdout >>

ExecuteCommand(e) ==
  /\ Step(e, "write", "result")
  /\ SendLines(e, << ec[e], Separator >>)
  /\ UNCHANGED << t_cmd_executor, clientVars, events, response, cmd_queue, ec, alive, stdout >>

\* one turn of _get_result: a line, the separator, or the end of a dead
\* process's output; the status output is thrown away whatever its end
GetResult(e) ==
  /\ thread[e] \in {"status", "result"}
  /\ LET done == thread' = [thread EXCEPT ![e] = IF @ = "status" THEN "get" ELSE "respond"]
     IN \/ /\ stdout[e] # << >>
           /\ stdout' = [stdout EXCEPT ![e] = Tail(@)]
           /\ IF Head(stdout[e]) = Separator
                THEN done /\ UNCHANGED answer
                ELSE /\ answer' = [answer EXCEPT ![e] = Append(@, Head(stdout[e]))]
                     /\ UNCHANGED thread
        \/ /\ stdout[e] = << >> /\ ~alive[e]
           /\ answer' = [answer EXCEPT ![e] = None]
           /\ done /\ UNCHANGED stdout
  /\ UNCHANGED << t_cmd_executor, clientVars, events, response, cmd_queue, ec, alive, stdin >>

Respond(e) ==
  /\ Step(e, "respond", "set")
  /\ response' = [response EXCEPT ![ec[e]] = answer[e]]
  /\ UNCHANGED << t_cmd_executor, clientVars, events, cmd_queue, ec, answer, sshVars >>

SetEvent(e) ==
  /\ Step(e, "set", "get")
  /\ events' = events \cup {ec[e]}
  /\ UNCHANGED << t_cmd_executor, clientVars, response, cmd_queue, ec, answer, sshVars >>

\* finalizeQueue sets an attribute that nobody reads, so the queue stays open
FinalizeQueue(e) ==
  /\ Step(e, "finalize", "release")
  /\ UNCHANGED << t_cmd_executor, clientVars, events, response, cmd_queue, ec, answer, sshVars >>

\* a mutant: the command in work is forgotten
ReleaseNobody(e) ==
  /\ Step(e, "release", "drain")
  /\ UNCHANGED << t_cmd_executor, clientVars, events, response, cmd_queue, ec, answer, sshVars >>

ReleaseCurrent(e) ==
  /\ Step(e, "release", "drain")
  /\ events' = IF ec[e] = None THEN events ELSE events \cup {ec[e]}
  /\ UNCHANGED << t_cmd_executor, clientVars, response, cmd_queue, ec, answer, sshVars >>

\* a mutant: a queued command is dropped
ForgetQueued(e) ==
  /\ thread[e] = "drain" /\ cmd_queue[e] # << >>
  /\ cmd_queue' = [cmd_queue EXCEPT ![e] = Tail(@)]
  /\ UNCHANGED << t_cmd_executor, clientVars, events, response, thread, ec, answer, sshVars >>

ReleaseQueued(e) ==
  /\ thread[e] = "drain" /\ cmd_queue[e] # << >>
  /\ events' = events \cup {Head(cmd_queue[e])}
  /\ cmd_queue' = [cmd_queue EXCEPT ![e] = Tail(@)]
  /\ UNCHANGED << t_cmd_executor, clientVars, response, thread, ec, answer, sshVars >>

Exit(e) ==
  /\ Step(e, "drain", "exit")
  /\ cmd_queue[e] = << >>
  /\ UNCHANGED << t_cmd_executor, clientVars, events, response, cmd_queue, ec, answer, sshVars >>

Executor(e) ==
  \/ PopenFails(e) \/ Popen(e) \/ WriteFails(e) \/ Greet(e)
  \/ GetCommand(e) \/ ExecuteCommand(e) \/ GetResult(e) \/ Respond(e) \/ SetEvent(e)
  \/ FinalizeQueue(e) \/ ReleaseCurrent(e) \/ ReleaseQueued(e) \/ Exit(e)

-----------------------------------------------------------------------------
(***************************************************************************)
(* The ssh process and the remote shell.  A command may print nothing.     *)
(***************************************************************************)
RemoteShell(e) ==
  /\ alive[e] /\ stdin[e] # << >>
  /\ stdin' = [stdin EXCEPT ![e] = Tail(@)]
  /\ \/ stdout' = [stdout EXCEPT ![e] = Append(@, Head(stdin[e]))]
     \/ Head(stdin[e]) # Separator /\ UNCHANGED stdout
  /\ UNCHANGED << t_cmd_executor, clientVars, events, response, executorVars, alive >>

\* what it has printed can still be read
Die(e) ==
  /\ alive[e]
  /\ alive' = [alive EXCEPT ![e] = FALSE]
  /\ stdin' = [stdin EXCEPT ![e] = << >>]
  /\ UNCHANGED << t_cmd_executor, clientVars, events, response, executorVars, stdout >>

Init ==
  /\ t_cmd_executor = None
  /\ pc = [c \in Clients |-> "idle"] /\ calls = [c \in Clients |-> 0]
  /\ mine = [c \in Clients |-> None]
  /\ events = {} /\ response = [cmd \in Commands |-> None]
  /\ thread = [e \in Executors |-> "unused"] /\ ec = [e \in Executors |-> None]
  /\ cmd_queue = [e \in Executors |-> << >>] /\ answer = [e \in Executors |-> << >>]
  /\ alive = [e \in Executors |-> FALSE]
  /\ stdin = [e \in Executors |-> << >>] /\ stdout = [e \in Executors |-> << >>]

Next == \/ \E c \in Clients : Client(c)
        \/ \E e \in Executors : Executor(e) \/ RemoteShell(e) \/ Die(e)

(***************************************************************************)
(* Threads are scheduled, and a remote shell works through its input as    *)
(* long as its connection lasts.  Nobody has to call, and nothing dies     *)
(* because it must.                                                        *)
(***************************************************************************)
Fairness ==
  /\ \A c \in Clients : WF_vars(ReadExecutor(c) \/ QueueCommand(c) \/ Wake(c) \/ DropExecutor(c))
  /\ \A e \in Executors : WF_vars(Executor(e)) /\ WF_vars(RemoteShell(e))

Spec == Init /\ [][Next]_vars /\ Fairness

-----------------------------------------------------------------------------
TypeOK ==
  /\ t_cmd_executor \in Executors \cup {None}
  /\ pc \in [Clients -> {"idle", "read", "queue", "wait", "drop"}]
  /\ calls \in [Clients -> 0 .. MaxCalls]
  /\ mine \in [Clients -> Executors \cup {None}]
  /\ events \subseteq Commands
  /\ response \in [Commands -> Seq(Lines) \cup {None}]
  /\ thread \in [Executors -> {"unused", "popen", "greet", "status", "get", "write", "result",
                               "respond", "set", "finalize", "release", "drain", "exit"}]
  /\ cmd_queue \in [Executors -> Seq(Commands)]
  /\ ec \in [Executors -> Commands \cup {None}]
  /\ answer \in [Executors -> Seq(Lines) \cup {None}]
  /\ alive \in [Executors -> BOOLEAN]
  /\ stdin \in [Executors -> Seq(Lines)] /\ stdout \in [Executors -> Seq(Lines)]

(***************************************************************************)
(* Nobody gets another command's output or the login banner, although all  *)
(* answers of an executor come down one pipe, told apart by separators     *)
(* only: a response is the output of its own command.                      *)
(***************************************************************************)
OwnResponse ==
  \A cmd \in Commands : response[cmd] \in {None, << >>, << cmd >>}

(***************************************************************************)
(* A client that wakes up finds the final response: once the event of a    *)
(* command is set its response never changes, whatever the executor that   *)
(* still refers to it does later.                                          *)
(***************************************************************************)
ResponseFinal == [][\A cmd \in events : response'[cmd] = response[cmd]]_vars

(***************************************************************************)
(* One thread answers for a command: it waits in one queue or is in *)
(* work at one executor that has not set its event yet.                    *)
(***************************************************************************)
Queued(cmd, e) == \E i \in DOMAIN cmd_queue[e] : cmd_queue[e][i] = cmd
InWork(cmd, e) ==
  ec[e] = cmd /\ thread[e] \in {"write", "result", "respond", "set", "finalize", "release"}

PendingOnce ==
  \A c \in Clients : At(c, "wait") /\ Call(c) \notin events =>
    \E e \in Executors :
      /\ mine[c] = e
      /\ Queued(Call(c), e) # InWork(Call(c), e)
      /\ \A d \in Executors \ {e} : ~Queued(Call(c), d) /\ ~InWork(Call(c), d)

(***************************************************************************)
(* Whatever dies, a waiting client is woken, by the answer or by the       *)
(* executor's end, unless its command came into the queue after the        *)
(* executor had emptied it for the last time.                              *)
(***************************************************************************)
Stranded(c) == \E e \in Executors : thread[e] = "exit" /\ Queued(Call(c), e)

WokenOrStranded == \A c \in Clients : At(c, "wait") ~> ~At(c, "wait") \/ Stranded(c)

=============================================================================
