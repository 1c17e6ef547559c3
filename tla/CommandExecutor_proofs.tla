------------------------ MODULE CommandExecutor_proofs ------------------------
(***************************************************************************)
(* Proofs about CommandExecutor, for any set of clients and any number of  *)
(* calls and executors.                                                    *)
(***************************************************************************)
EXTENDS CommandExecutor, SequenceTheorems, TLAPS

-----------------------------------------------------------------------------
(***************************************************************************)
(* The pipes never hold more than two lines.                               *)
(***************************************************************************)
LEMMA OneLine ==
  ASSUME NEW a
  PROVE  /\ << a >> # << >> /\ Head(<< a >>) = a /\ Tail(<< a >>) = << >>
         /\ Append(<< >>, a) = << a >> /\ << >> \o << a >> = << a >>
  OBVIOUS
LEMMA TwoLines ==
  ASSUME NEW a, NEW b
  PROVE  /\ << a, b >> # << >> /\ Head(<< a, b >>) = a /\ Tail(<< a, b >>) = << b >>
         /\ Append(<< a >>, b) = << a, b >> /\ << >> \o << a, b >> = << a, b >>
  <1>1. << a, b >> # << >> /\ Head(<< a, b >>) = a
    OBVIOUS
  <1>2. Tail(<< a, b >>) = << b >>
    OBVIOUS
  <1>3. Append(<< a >>, b) = << a, b >>
    <2>1. << a >> \in Seq({a, b}) /\ << a, b >> \in Seq({a, b}) /\ Append(<< a >>, b) \in Seq({a, b})
      OBVIOUS
    <2>2. Len(Append(<< a >>, b)) = 2 /\ Len(<< a, b >>) = 2
      OBVIOUS
    <2>3. \A i \in 1 .. 2 : Append(<< a >>, b)[i] = << a, b >>[i]
      OBVIOUS
    <2> QED
      BY <2>1, <2>2, <2>3, SeqEqual
  <1>4. << >> \o << a, b >> = << a, b >>
    OBVIOUS
  <1> QED BY <1>1, <1>2, <1>3, <1>4

-----------------------------------------------------------------------------
(***************************************************************************)
(* The inductive invariant.                                                *)
(*                                                                         *)
(* What is on its way through the pipes of an executor, and has been read  *)
(* of the answer, follows from what its thread has sent: one command and   *)
(* the separator behind it, or the separator alone.                        *)
(***************************************************************************)
WorkOf(e) ==
  /\ thread[e] \in {"unused", "popen", "greet", "status"} => ec[e] = None
  /\ thread[e] \in {"write", "result", "respond", "set"} => ec[e] \in Commands

\* the input of the remote shell, its output and what is read of it, while a
\* line and the separator behind it arrive: the line may be left out, and
\* when the process dies, what has not arrived is lost
Arriving(input, output, read, line) ==
  \/ /\ input \in {<< Separator >>, << >>}
     /\ \/ output = << >> /\ read \in {<< >>, << line >>}
        \/ output = << line >> /\ read = << >>
  \/ /\ input = << >>
     /\ \/ output = << Separator >> /\ read \in {<< >>, << line >>}
        \/ output = << line, Separator >> /\ read = << >>

Greeting(e) == Arriving(stdin[e], stdout[e], answer[e], Banner)

Answering(e) ==
  \/ stdin[e] = << ec[e], Separator >> /\ stdout[e] = << >> /\ answer[e] = << >>
  \/ Arriving(stdin[e], stdout[e], answer[e], ec[e])

PipesOf(e) ==
  /\ ~alive[e] => stdin[e] = << >>
  /\ thread[e] \in {"unused", "popen", "greet", "get", "write", "respond", "set"} => stdin[e] = << >>
  /\ thread[e] \in {"unused", "popen", "get", "write", "respond", "set"} => stdout[e] = << >>
  /\ thread[e] = "greet" => stdout[e] \in {<< >>, << Banner >>}
  /\ thread[e] = "status" => Greeting(e)
  /\ thread[e] = "result" => Answering(e)
  /\ thread[e] = "respond" => answer[e] \in {None, << >>, << ec[e] >>}

WorkAndPipes == \A e \in Executors : WorkOf(e) /\ PipesOf(e)

PipesInv == TypeOK /\ WorkAndPipes /\ OwnResponse

(***************************************************************************)
(* A command is in one place at a time: nowhere before its client queues   *)
(* it, nowhere once its event is set, and in the queue or the hands of the *)
(* executor its client has read while the client waits.                    *)
(***************************************************************************)
Has(s, x)   == \E i \in DOMAIN s : s[i] = x
Distinct(s) == \A i, j \in DOMAIN s : s[i] = s[j] => i = j

LEMMA AppendHas ==
  ASSUME NEW S, NEW s \in Seq(S), NEW x \in S
  PROVE  /\ Append(s, x) \in Seq(S)
         /\ \A y : Has(Append(s, x), y) <=> Has(s, y) \/ y = x
         /\ Distinct(s) /\ ~Has(s, x) => Distinct(Append(s, x))
  BY DEF Has, Distinct
LEMMA TailHas ==
  ASSUME NEW S, NEW s \in Seq(S), s # << >>
  PROVE  /\ Head(s) \in S /\ Tail(s) \in Seq(S) /\ Has(s, Head(s))
         /\ \A y : Has(s, y) <=> y = Head(s) \/ Has(Tail(s), y)
         /\ Distinct(s) => Distinct(Tail(s)) /\ ~Has(Tail(s), Head(s))
  <1>1. /\ Head(s) = s[1] /\ Head(s) \in S /\ Tail(s) \in Seq(S)
        /\ Len(s) \in Nat /\ Len(s) > 0 /\ DOMAIN s = 1 .. Len(s) 
        /\ DOMAIN Tail(s) = 1 .. Len(s) - 1
        /\ \A i \in 1 .. Len(s) - 1 : Tail(s)[i] = s[i + 1]
    OBVIOUS
  <1>2. ASSUME NEW y PROVE Has(s, y) <=> y = Head(s) \/ Has(Tail(s), y)
    <2>1. ASSUME NEW i \in DOMAIN s, s[i] = y, i # 1 PROVE Tail(s)[i - 1] = y /\ i - 1 \in DOMAIN Tail(s)
      BY <1>1, <2>1
    <2>2. ASSUME NEW i \in DOMAIN Tail(s), Tail(s)[i] = y PROVE s[i + 1] = y /\ i + 1 \in DOMAIN s
      BY <1>1, <2>2
    <2> QED
      BY <1>1, <2>1, <2>2 DEF Has
  <1>3. ASSUME Distinct(s) PROVE Distinct(Tail(s)) /\ ~Has(Tail(s), Head(s))
    BY <1>1, <1>3 DEF Has, Distinct
  <1> QED
    BY <1>1, <1>2, <1>3

Held(cmd, e) == Queued(cmd, e) \/ InWork(cmd, e)

HeldOnce == \A cmd \in Commands : \A e \in Executors :
  /\ ~(Queued(cmd, e) /\ InWork(cmd, e))
  /\ Held(cmd, e) => cmd \notin events /\ \A d \in Executors \ {e} : ~Held(cmd, d)

QueuedOnce == \A e \in Executors : Distinct(cmd_queue[e])

NotYet(c, k) == k > calls[c] \/ (k = calls[c] /\ pc[c] \in {"read", "queue"})

NewIsNowhere == \A c \in Clients : \A k \in 1 .. MaxCalls :
  NotYet(c, k) => << c, k >> \notin events /\ \A e \in Executors : ~Held(<< c, k >>, e)

CallUnderWay == \A c \in Clients :
  /\ pc[c] # "idle" => calls[c] > 0
  /\ pc[c] = "queue" => mine[c] # None
  /\ \A cmd \in Commands : pc[c] = "wait" /\ cmd = Call(c) /\ cmd \notin events =>
       \E e \in Executors : mine[c] = e /\ Held(cmd, e)

PlaceInv == HeldOnce /\ QueuedOnce /\ NewIsNowhere /\ CallUnderWay

IInv == PipesInv /\ PlaceInv

-----------------------------------------------------------------------------
(***************************************************************************)
(* The initial states.                                                     *)
(***************************************************************************)
LEMMA InitInv == Init => IInv
  <1> SUFFICES ASSUME Init PROVE IInv
    OBVIOUS
  <1>1. TypeOK
    BY BoundsAssumption DEF Init, TypeOK
  <1>2. WorkAndPipes /\ OwnResponse
    BY DEF Init, WorkAndPipes, WorkOf, PipesOf, OwnResponse
  <1>3. PlaceInv
    BY BoundsAssumption, LinesAssumption
    DEF Init, PlaceInv, HeldOnce, QueuedOnce, Distinct, NewIsNowhere, CallUnderWay, Held, Queued, InWork, Commands
  <1> QED
    BY <1>1, <1>2, <1>3 DEF IInv, PipesInv

-----------------------------------------------------------------------------
(***************************************************************************)
(* The pipes: clients, then the steps of an executor, then its process.    *)
(***************************************************************************)
LEMMA CallInCommands ==
  ASSUME TypeOK, NEW c \in Clients, calls[c] > 0
  PROVE  Call(c) \in Commands
  BY BoundsAssumption DEF TypeOK, Call, Commands

\* a step of one executor: the others keep what they have
OnlyOf(e) == \A d \in Executors \ {e} :
  /\ thread'[d] = thread[d] /\ ec'[d] = ec[d] /\ answer'[d] = answer[d]
  /\ alive'[d] = alive[d] /\ stdin'[d] = stdin[d] /\ stdout'[d] = stdout[d]

LEMMA OnePipe ==
  ASSUME PipesInv, TypeOK', OwnResponse', NEW e \in Executors, OnlyOf(e), WorkOf(e)', PipesOf(e)'
  PROVE  PipesInv'
  <1>1. ASSUME NEW d \in Executors, d # e PROVE WorkOf(d)' /\ PipesOf(d)'
    BY <1>1 DEF OnlyOf, PipesInv, WorkAndPipes, WorkOf, PipesOf, Greeting, Answering
  <1> QED
    BY <1>1 DEF PipesInv, WorkAndPipes

LEMMA SamePipes ==
  ASSUME PipesInv, TypeOK', UNCHANGED << response, thread, ec, answer, sshVars >>
  PROVE  PipesInv'
  BY DEF sshVars, PipesInv, WorkAndPipes, WorkOf, PipesOf, Greeting, Answering, OwnResponse

LEMMA ClientPipes ==
  ASSUME PipesInv, CallUnderWay, NEW c \in Clients, Client(c)
  PROVE  PipesInv'
  <1>1. CASE Require(c)
    <2>1. TypeOK'
      <3>1. calls' \in [Clients -> 0 .. MaxCalls]
        BY <1>1, BoundsAssumption DEF Require, PipesInv, TypeOK
      <3>2. t_cmd_executor' \in Executors \cup {None} /\ pc' \in [Clients -> {"idle", "read", "queue", "wait", "drop"}]
        BY <1>1 DEF Require, GoOn, PipesInv, TypeOK
      <3>3. thread' \in [Executors -> {"unused", "popen", "greet", "status", "get", "write", "result",
                                       "respond", "set", "finalize", "release", "drain", "exit"}]
        BY <1>1 DEF Require, PipesInv, TypeOK
      <3> QED
        BY <1>1, <3>1, <3>2, <3>3 DEF Require, PipesInv, TypeOK, sshVars
    <2>2. CASE UNCHANGED thread
      BY <1>1, <2>1, <2>2, SamePipes DEF Require, sshVars
    <2>3. ASSUME NEW e \in Executors, thread[e] = "unused", thread' = [thread EXCEPT ![e] = "popen"]
          PROVE  PipesInv'
      <3>1. OnlyOf(e) /\ OwnResponse' /\ thread'[e] = "popen"
        BY <1>1, <2>3 DEF Require, OnlyOf, PipesInv, TypeOK, OwnResponse, sshVars
      <3>2. WorkOf(e)' /\ PipesOf(e)'
        BY <1>1, <2>3, <3>1 DEF Require, PipesInv, WorkAndPipes, WorkOf, PipesOf, sshVars
      <3> QED
        BY <2>1, <3>1, <3>2, OnePipe
    <2> QED
      BY <1>1, <2>2, <2>3 DEF Require
  <1>2. CASE QueueCommand(c)
    <2>1. Append(cmd_queue[mine[c]], Call(c)) \in Seq(Commands) /\ mine[c] \in Executors
      <3>1. mine[c] \in Executors /\ calls[c] > 0
        BY <1>2 DEF QueueCommand, At, CallUnderWay, PipesInv, TypeOK
      <3>2. Call(c) \in Commands /\ cmd_queue[mine[c]] \in Seq(Commands)
        BY <3>1, CallInCommands DEF PipesInv, TypeOK
      <3> QED
        BY <3>1, <3>2
    <2>2. TypeOK'
      BY <1>2, <2>1 DEF QueueCommand, GoOn, PipesInv, TypeOK, sshVars
    <2> QED
      BY <1>2, <2>2, SamePipes DEF QueueCommand
  <1>3. CASE ReadExecutor(c) \/ Wake(c) \/ DropExecutor(c)
    <2>1. UNCHANGED << calls, events, response, executorVars, sshVars >>
      BY <1>3 DEF ReadExecutor, Wake, DropExecutor
    <2>2. t_cmd_executor' \in Executors \cup {None} /\ mine' \in [Clients -> Executors \cup {None}]
      BY <1>3 DEF ReadExecutor, Wake, DropExecutor, PipesInv, TypeOK
    <2>3. \E next \in {"idle", "read", "queue", "wait", "drop"} : GoOn(c, next)
      BY <1>3 DEF ReadExecutor, Wake, DropExecutor
    <2>4. TypeOK'
      BY <2>1, <2>2, <2>3 DEF GoOn, PipesInv, TypeOK, executorVars, sshVars
    <2> QED
      BY <2>1, <2>4, SamePipes DEF executorVars
  <1> QED
    BY <1>1, <1>2, <1>3 DEF Client

LEMMA FailPipes ==
  ASSUME PipesInv, NEW e \in Executors, PopenFails(e) \/ WriteFails(e) \/ FinalizeQueue(e) \/ ReleaseCurrent(e) \/ Exit(e)
  PROVE  PipesInv'
  <1>2. TypeOK'
    BY DEF PopenFails, WriteFails, FinalizeQueue, ReleaseCurrent, Exit, Step, clientVars, sshVars, PipesInv, TypeOK, WorkAndPipes, WorkOf, PipesOf, Greeting, Answering
  <1>3. OnlyOf(e)
    BY DEF PopenFails, WriteFails, FinalizeQueue, ReleaseCurrent, Exit, Step, clientVars, sshVars, OnlyOf, PipesInv, TypeOK
  <1>4. OwnResponse'
    BY DEF PopenFails, WriteFails, FinalizeQueue, ReleaseCurrent, Exit, Step, clientVars, sshVars, PipesInv, TypeOK, OwnResponse, WorkAndPipes, WorkOf, PipesOf
  <1>5. WorkOf(e)' /\ PipesOf(e)'
    BY DEF PopenFails, WriteFails, FinalizeQueue, ReleaseCurrent, Exit, Step, clientVars, sshVars, PipesInv, TypeOK, WorkAndPipes, WorkOf, PipesOf, Greeting, Answering
  <1> QED
    BY <1>2, <1>3, <1>4, <1>5, OnePipe

LEMMA PopenPipes ==
  ASSUME PipesInv, NEW e \in Executors, Popen(e)
  PROVE  PipesInv'
  <1>1. PICK status \in {<< >>, << Banner >>} : stdout' = [stdout EXCEPT ![e] = status]
    BY DEF Popen
  <1>2. status \in Seq(Lines)
    <2>1. Banner \in Lines
      BY DEF Lines
    <2>2. << >> \in Seq(Lines) /\ << Banner >> \in Seq(Lines)
      BY <2>1
    <2> QED
      BY <1>1, <2>2
  <1>3. TypeOK'
    BY <1>1, <1>2 DEF Popen, Step, clientVars, PipesInv, TypeOK
  <1>4. OnlyOf(e) /\ OwnResponse'
    BY <1>1 DEF Popen, Step, clientVars, OnlyOf, PipesInv, TypeOK, OwnResponse
  <1>5. WorkOf(e)' /\ PipesOf(e)'
    BY <1>1 DEF Popen, Step, clientVars, PipesInv, TypeOK, WorkAndPipes, WorkOf, PipesOf
  <1> QED
    BY <1>3, <1>4, <1>5, OnePipe

LEMMA SendPipes ==
  ASSUME PipesInv, NEW e \in Executors, NEW lines \in Seq(Lines), SendLines(e, lines), stdin[e] = << >>
  PROVE  /\ answer' \in [Executors -> Seq(Lines) \cup {None}] /\ stdin' \in [Executors -> Seq(Lines)]
         /\ answer'[e] = << >> /\ stdin'[e] = lines
         /\ \A d \in Executors \ {e} : answer'[d] = answer[d] /\ stdin'[d] = stdin[d]
  <1>1. << >> \o lines = lines /\ << >> \in Seq(Lines)
    OBVIOUS
  <1> QED
    BY <1>1 DEF SendLines, PipesInv, TypeOK

LEMMA GreetPipes ==
  ASSUME PipesInv, NEW e \in Executors, Greet(e)
  PROVE  PipesInv'
  <1>1. << Separator >> \in Seq(Lines) /\ stdin[e] = << >> /\ SendLines(e, << Separator >>)
    BY DEF Greet, Step, Lines, PipesInv, WorkAndPipes, PipesOf
  <1>2. TypeOK'
    BY <1>1, SendPipes DEF Greet, Step, clientVars, PipesInv, TypeOK
  <1>3. OnlyOf(e) /\ OwnResponse'
    BY <1>1, SendPipes DEF Greet, Step, clientVars, OnlyOf, PipesInv, TypeOK, OwnResponse
  <1>4. WorkOf(e)' /\ PipesOf(e)'
    BY <1>1, SendPipes DEF Greet, SendLines, Step, clientVars, PipesInv, TypeOK, WorkAndPipes, WorkOf, PipesOf, Greeting, Arriving
  <1> QED
    BY <1>2, <1>3, <1>4, OnePipe

LEMMA ExecutePipes ==
  ASSUME PipesInv, NEW e \in Executors, ExecuteCommand(e)
  PROVE  PipesInv'
  <1>1. << ec[e], Separator >> \in Seq(Lines) /\ stdin[e] = << >> /\ SendLines(e, << ec[e], Separator >>)
    BY DEF ExecuteCommand, Step, Lines, PipesInv, WorkAndPipes, WorkOf, PipesOf
  <1>2. TypeOK'
    BY <1>1, SendPipes DEF ExecuteCommand, Step, clientVars, PipesInv, TypeOK
  <1>3. OnlyOf(e) /\ OwnResponse'
    BY <1>1, SendPipes DEF ExecuteCommand, Step, clientVars, OnlyOf, PipesInv, TypeOK, OwnResponse
  <1>4. WorkOf(e)' /\ PipesOf(e)'
    BY <1>1, SendPipes DEF ExecuteCommand, SendLines, Step, clientVars, PipesInv, TypeOK, WorkAndPipes, WorkOf, PipesOf, Answering
  <1> QED
    BY <1>2, <1>3, <1>4, OnePipe

LEMMA GetCommandPipes ==
  ASSUME PipesInv, NEW e \in Executors, GetCommand(e)
  PROVE  PipesInv'
  <1>1. cmd_queue[e] \in Seq(Commands) /\ cmd_queue[e] # << >>
    BY DEF GetCommand, PipesInv, TypeOK
  <1>2. Head(cmd_queue[e]) \in Commands /\ Tail(cmd_queue[e]) \in Seq(Commands)
    BY <1>1, TailHas
  <1>3. TypeOK'
    BY <1>2 DEF GetCommand, Step, clientVars, sshVars, PipesInv, TypeOK
  <1>4. OnlyOf(e) /\ OwnResponse'
    BY DEF GetCommand, Step, clientVars, sshVars, OnlyOf, PipesInv, TypeOK, OwnResponse
  <1>5. WorkOf(e)' /\ PipesOf(e)'
    BY <1>2 DEF GetCommand, Step, clientVars, sshVars, PipesInv, TypeOK, WorkAndPipes, WorkOf, PipesOf
  <1> QED
    BY <1>3, <1>4, <1>5, OnePipe

LEMMA ReleaseQueuedPipes ==
  ASSUME PipesInv, NEW e \in Executors, ReleaseQueued(e)
  PROVE  PipesInv'
  <1>1. cmd_queue[e] \in Seq(Commands) /\ cmd_queue[e] # << >>
    BY DEF ReleaseQueued, PipesInv, TypeOK
  <1>2. Head(cmd_queue[e]) \in Commands /\ Tail(cmd_queue[e]) \in Seq(Commands)
    BY <1>1, TailHas
  <1>3. TypeOK'
    BY <1>2 DEF ReleaseQueued, clientVars, sshVars, PipesInv, TypeOK
  <1> QED
    BY <1>3, SamePipes DEF ReleaseQueued

LEMMA RespondPipes ==
  ASSUME PipesInv, NEW e \in Executors, Respond(e) \/ SetEvent(e)
  PROVE  PipesInv'
  <1>1. TypeOK'
    BY DEF Respond, SetEvent, Step, clientVars, sshVars, PipesInv, TypeOK, WorkAndPipes, WorkOf
  <1>2. OnlyOf(e) /\ OwnResponse'
    BY DEF Respond, SetEvent, Step, clientVars, sshVars, OnlyOf, PipesInv, TypeOK, OwnResponse, WorkAndPipes, WorkOf, PipesOf
  <1>3. WorkOf(e)' /\ PipesOf(e)'
    BY DEF Respond, SetEvent, Step, clientVars, sshVars, PipesInv, TypeOK, WorkAndPipes, WorkOf, PipesOf
  <1> QED
    BY <1>1, <1>2, <1>3, OnePipe

\* the separator ends what arrives, any other line goes on with it
LEMMA ArrivingEnds ==
  ASSUME NEW input, NEW output, NEW read, NEW line, line # Separator, Arriving(input, output, read, line),
         output # << >>, Head(output) = Separator
  PROVE  input = << >> /\ output = << Separator >> /\ read \in {<< >>, << line >>}
  <1>1. Head(<< line >>) = line /\ Head(<< line, Separator >>) = line
    OBVIOUS
  <1> QED
    BY <1>1 DEF Arriving

LEMMA ArrivingGoesOn ==
  ASSUME NEW input, NEW output, NEW read, NEW line, Arriving(input, output, read, line),
         output # << >>, Head(output) # Separator
  PROVE  Arriving(input, Tail(output), Append(read, Head(output)), line)
  <1>1. /\ Head(<< Separator >>) = Separator
        /\ Head(<< line >>) = line /\ Tail(<< line >>) = << >>
        /\ Head(<< line, Separator >>) = line /\ Tail(<< line, Separator >>) = << Separator >>
        /\ Append(<< >>, line) = << line >>
    BY OneLine, TwoLines
  <1> QED
    BY <1>1 DEF Arriving

\* the remote shell prints the separator, which has not come out yet
LEMMA ShellArrives ==
  ASSUME NEW input, NEW output, NEW read, NEW line, Arriving(input, output, read, line), input # << >>
  PROVE  /\ Head(input) = Separator
         /\ Arriving(Tail(input), Append(output, Head(input)), read, line)
  <1>1. /\ Head(<< Separator >>) = Separator /\ Tail(<< Separator >>) = << >>
        /\ Append(<< >>, Separator) = << Separator >>
        /\ Append(<< line >>, Separator) = << line, Separator >>
    BY OneLine, TwoLines
  <1> QED
    BY <1>1 DEF Arriving

\* a turn of _get_result at the end of the answer, with a line, or at the end of the pipe
LEMMA GetResultPipes ==
  ASSUME PipesInv, NEW e \in Executors, GetResult(e)
  PROVE  PipesInv'
  <1> DEFINE done == thread' = [thread EXCEPT ![e] = IF @ = "status" THEN "get" ELSE "respond"]
  <1>1. /\ thread[e] \in {"status", "result"}
        /\ UNCHANGED << t_cmd_executor, pc, calls, mine, events, response, cmd_queue, ec, alive, stdin >>
        /\ stdout[e] \in Seq(Lines) /\ answer[e] \in Seq(Lines)
    <2>1. /\ thread[e] \in {"status", "result"} /\ stdout[e] \in Seq(Lines)
          /\ UNCHANGED << t_cmd_executor, pc, calls, mine, events, response, cmd_queue, ec, alive, stdin >>
      BY DEF GetResult, clientVars, PipesInv, TypeOK
    <2>2. answer[e] \in {<< >>, << Banner >>} \/ (ec[e] \in Commands /\ answer[e] \in {<< >>, << ec[e] >>})
      BY <2>1 DEF PipesInv, WorkAndPipes, WorkOf, PipesOf, Greeting, Answering, Arriving
    <2>3. Banner \in Lines /\ Commands \subseteq Lines
      BY DEF Lines
    <2>4. << >> \in Seq(Lines) /\ \A l \in Lines : << l >> \in Seq(Lines)
      OBVIOUS
    <2> QED
      BY <2>1, <2>2, <2>3, <2>4
  <1>2. CASE stdout[e] # << >> /\ Head(stdout[e]) = Separator
    <2>1. /\ done /\ stdout' = [stdout EXCEPT ![e] = Tail(@)] /\ UNCHANGED answer
          /\ Tail(stdout[e]) \in Seq(Lines)
      BY <1>1, <1>2 DEF GetResult
    <2>2. TypeOK' /\ OnlyOf(e) /\ OwnResponse'
      BY <1>1, <2>1 DEF OnlyOf, PipesInv, TypeOK, OwnResponse
    <2>3. stdin[e] = << >> /\ stdout[e] = << Separator >> /\ (thread[e] = "result" => answer[e] \in {<< >>, << ec[e] >>})
      <3>1. CASE thread[e] = "status"
        BY <1>2, <3>1, ArrivingEnds, LinesAssumption DEF PipesInv, WorkAndPipes, PipesOf, Greeting
      <3>2. CASE thread[e] = "result"
        BY <1>2, <3>2, ArrivingEnds, LinesAssumption DEF PipesInv, WorkAndPipes, WorkOf, PipesOf, Answering
      <3> QED
        BY <1>1, <3>1, <3>2
    <2>4. Tail(stdout[e]) = << >>
      BY <2>3, OneLine
    <2>5. WorkOf(e)' /\ PipesOf(e)'
      BY <1>1, <2>1, <2>3, <2>4 DEF PipesInv, TypeOK, WorkAndPipes, WorkOf, PipesOf
    <2> QED
      BY <2>2, <2>5, OnePipe
  <1>3. CASE stdout[e] # << >> /\ Head(stdout[e]) # Separator
    <2>1. /\ stdout' = [stdout EXCEPT ![e] = Tail(@)] /\ UNCHANGED thread
          /\ answer' = [answer EXCEPT ![e] = Append(@, Head(stdout[e]))]
      BY <1>1, <1>3 DEF GetResult
    <2>2. Tail(stdout[e]) \in Seq(Lines) /\ Head(stdout[e]) \in Lines /\ Append(answer[e], Head(stdout[e])) \in Seq(Lines)
      BY <1>1, <1>3
    <2>3. TypeOK' /\ OnlyOf(e) /\ OwnResponse'
      BY <1>1, <2>1, <2>2 DEF OnlyOf, PipesInv, TypeOK, OwnResponse
    <2>4. /\ answer'[e] = Append(answer[e], Head(stdout[e])) /\ stdout'[e] = Tail(stdout[e])
          /\ stdin'[e] = stdin[e] /\ ec'[e] = ec[e] /\ thread'[e] = thread[e]
      BY <1>1, <2>1 DEF PipesInv, TypeOK
    <2>5. thread[e] = "status" => Greeting(e)'
      BY <1>3, <2>4, ArrivingGoesOn DEF PipesInv, WorkAndPipes, PipesOf, Greeting
    <2>6. thread[e] = "result" => Answering(e)'
      BY <1>3, <2>4, ArrivingGoesOn DEF PipesInv, WorkAndPipes, PipesOf, Answering
    <2>7. WorkOf(e)' /\ PipesOf(e)'
      BY <1>1, <2>4, <2>5, <2>6 DEF PipesInv, WorkAndPipes, WorkOf, PipesOf
    <2> QED
      BY <2>3, <2>7, OnePipe
  <1>4. CASE stdout[e] = << >>
    <2>1. done /\ answer' = [answer EXCEPT ![e] = None] /\ UNCHANGED stdout /\ ~alive[e]
      BY <1>1, <1>4 DEF GetResult
    <2>2. TypeOK' /\ OnlyOf(e) /\ OwnResponse'
      BY <1>1, <2>1 DEF OnlyOf, PipesInv, TypeOK, OwnResponse
    <2>3. WorkOf(e)' /\ PipesOf(e)'
      BY <1>1, <1>4, <2>1 DEF PipesInv, TypeOK, WorkAndPipes, WorkOf, PipesOf
    <2> QED
      BY <2>2, <2>3, OnePipe
  <1> QED
    BY <1>2, <1>3, <1>4

LEMMA RemotePipes ==
  ASSUME PipesInv, NEW e \in Executors, RemoteShell(e)
  PROVE  PipesInv'
  <1>1. /\ UNCHANGED << t_cmd_executor, pc, calls, mine, events, response, thread, cmd_queue, ec, answer, alive >>
        /\ stdin[e] # << >> /\ stdin' = [stdin EXCEPT ![e] = Tail(@)]
        /\ stdin[e] \in Seq(Lines) /\ stdout[e] \in Seq(Lines)
        /\ alive[e]
    BY DEF RemoteShell, clientVars, executorVars, PipesInv, TypeOK
  <1>2. Tail(stdin[e]) \in Seq(Lines) /\ Head(stdin[e]) \in Lines /\ Append(stdout[e], Head(stdin[e])) \in Seq(Lines)
    BY <1>1
  <1>3. stdin[e] = << ec[e], Separator >> => Tail(stdin[e]) = << Separator >> /\ Head(stdin[e]) = ec[e]
    BY TwoLines
  <1>4. thread[e] \in {"status", "result", "finalize", "release", "drain", "exit"}
    BY <1>1 DEF PipesInv, TypeOK, WorkAndPipes, PipesOf
  <1>5. CASE stdout' = [stdout EXCEPT ![e] = Append(@, Head(stdin[e]))]
    <2>1. TypeOK' /\ OnlyOf(e) /\ OwnResponse'
      BY <1>1, <1>2, <1>5 DEF OnlyOf, PipesInv, TypeOK, OwnResponse
    <2>2. stdout'[e] = Append(stdout[e], Head(stdin[e])) /\ stdin'[e] = Tail(stdin[e])
      BY <1>1, <1>5 DEF PipesInv, TypeOK
    <2>3. thread[e] = "status" => Greeting(e)'
      BY <1>1, <2>2, ShellArrives DEF PipesInv, WorkAndPipes, PipesOf, Greeting
    <2>4. thread[e] = "result" => Answering(e)'
      <3>1. CASE stdin[e] = << ec[e], Separator >> /\ stdout[e] = << >> /\ answer[e] = << >>
        <4>1. Append(stdout[e], Head(stdin[e])) = << ec[e] >>
          BY <1>3, <3>1, OneLine
        <4> QED
          BY <1>1, <1>3, <2>2, <3>1, <4>1 DEF Answering, Arriving
      <3>2. CASE Arriving(stdin[e], stdout[e], answer[e], ec[e])
        BY <1>1, <2>2, <3>2, ShellArrives DEF Answering
      <3> QED
        BY <3>1, <3>2 DEF PipesInv, WorkAndPipes, PipesOf, Answering
    <2>5. WorkOf(e)' /\ PipesOf(e)'
      BY <1>1, <1>4, <2>3, <2>4 DEF PipesInv, WorkAndPipes, WorkOf, PipesOf
    <2> QED
      BY <2>1, <2>5, OnePipe
  <1>6. CASE Head(stdin[e]) # Separator /\ UNCHANGED stdout
    <2>1. TypeOK' /\ OnlyOf(e) /\ OwnResponse'
      BY <1>1, <1>2, <1>6 DEF OnlyOf, PipesInv, TypeOK, OwnResponse
    <2>2. stdout'[e] = stdout[e] /\ stdin'[e] = Tail(stdin[e])
      BY <1>1, <1>6 DEF PipesInv, TypeOK
    <2>3. thread[e] = "status" => Greeting(e)'
      BY <1>1, <1>6, ShellArrives DEF PipesInv, WorkAndPipes, PipesOf, Greeting
    <2>4. thread[e] = "result" => Answering(e)'
      BY <1>1, <1>3, <1>6, <2>2, ShellArrives DEF PipesInv, WorkAndPipes, PipesOf, Answering, Arriving
    <2>5. WorkOf(e)' /\ PipesOf(e)'
      BY <1>1, <1>4, <2>3, <2>4 DEF PipesInv, WorkAndPipes, WorkOf, PipesOf
    <2> QED
      BY <2>1, <2>5, OnePipe
  <1> QED
    BY <1>5, <1>6 DEF RemoteShell

LEMMA DiePipes ==
  ASSUME PipesInv, NEW e \in Executors, Die(e)
  PROVE  PipesInv'
  <1>2. TypeOK'
    BY DEF Die, clientVars, executorVars, PipesInv, TypeOK, WorkAndPipes, WorkOf, PipesOf, Greeting, Answering, Arriving
  <1>3. OnlyOf(e)
    BY DEF Die, clientVars, executorVars, OnlyOf, PipesInv, TypeOK
  <1>4. OwnResponse'
    BY DEF Die, clientVars, executorVars, PipesInv, TypeOK, OwnResponse, WorkAndPipes, WorkOf, PipesOf
  <1>5. WorkOf(e)' /\ PipesOf(e)'
    BY DEF Die, clientVars, executorVars, PipesInv, TypeOK, WorkAndPipes, WorkOf, PipesOf, Greeting, Answering, Arriving
  <1> QED
    BY <1>2, <1>3, <1>4, <1>5, OnePipe

-----------------------------------------------------------------------------
(***************************************************************************)
(* The place of a command.                                                 *)
(***************************************************************************)
\* the other client's calls are other commands
LEMMA CallsDiffer ==
  /\ \A c, d \in Clients : \A k, l : << c, k >> = << d, l >> <=> c = d /\ k = l
  /\ \A c \in Clients : \A k \in 1 .. MaxCalls : << c, k >> \in Commands
  /\ \A cmd \in Commands : \E c \in Clients : \E k \in 1 .. MaxCalls : cmd = << c, k >>
  BY DEF Commands

LEMMA QueuedIsHas ==
  \A cmd, e : Queued(cmd, e) <=> Has(cmd_queue[e], cmd)
  BY DEF Queued, Has

\* what is nowhere stays there unless its client goes on
LEMMA NewStaysNowhere ==
  ASSUME IInv,
         \A c \in Clients : \A k \in 1 .. MaxCalls : NotYet(c, k)' => NotYet(c, k),
         \A cmd \in Commands :
           /\ cmd \in events' => cmd \in events \/ \E e \in Executors : Held(cmd, e)
           /\ \A e \in Executors : Held(cmd, e)' => \E d \in Executors : Held(cmd, d)
  PROVE  NewIsNowhere'
  <1> SUFFICES ASSUME NEW c \in Clients, NEW k \in 1 .. MaxCalls, NotYet(c, k)'
               PROVE  << c, k >> \notin events' /\ \A e \in Executors : ~Held(<< c, k >>, e)'
    BY DEF NewIsNowhere
  <1> DEFINE cmd == << c, k >>
  <1>1. cmd \in Commands
    BY CallsDiffer
  <1>2. cmd \notin events /\ \A e \in Executors : ~Held(cmd, e)
    BY DEF IInv, PlaceInv, NewIsNowhere
  <1> HIDE DEF cmd
  <1>3. cmd \notin events' /\ \A e \in Executors : ~Held(cmd, e)'
    BY <1>1, <1>2
  <1> QED
    BY <1>3 DEF cmd

\* a step by which no command changes its place
LEMMA SamePlace ==
  ASSUME IInv, UNCHANGED << clientVars, events, cmd_queue >>,
         \A cmd \in Commands : \A e \in Executors : InWork(cmd, e)' <=> InWork(cmd, e)
  PROVE  PlaceInv'
  <1>1. \A cmd, e : Queued(cmd, e)' <=> Queued(cmd, e)
    BY DEF Queued
  <1>2. \A cmd \in Commands : \A e \in Executors : Held(cmd, e)' <=> Held(cmd, e)
    BY <1>1 DEF Held
  <1>3. HeldOnce' /\ QueuedOnce'
    BY <1>1, <1>2 DEF IInv, PlaceInv, HeldOnce, QueuedOnce, Distinct
  <1>4. NewIsNowhere'
    BY <1>2, NewStaysNowhere DEF NotYet, clientVars
  <1>5. CallUnderWay'
    <2>1. \A c \in Clients : pc[c] = "wait" => Call(c) \in Commands
      BY CallInCommands DEF IInv, PipesInv, PlaceInv, CallUnderWay
    <2> QED
      BY <1>2, <2>1 DEF IInv, PlaceInv, CallUnderWay, Call, clientVars
  <1> QED
    BY <1>3, <1>4, <1>5 DEF PlaceInv

LEMMA RequirePlace ==
  ASSUME IInv, NEW c \in Clients, Require(c)
  PROVE  PlaceInv'
  <1>1. /\ pc[c] = "idle" /\ calls[c] \in Nat /\ calls[c] < MaxCalls
        /\ calls' = [calls EXCEPT ![c] = @ + 1] /\ pc' = [pc EXCEPT ![c] = "read"]
        /\ UNCHANGED << mine, events, cmd_queue, ec >>
    BY BoundsAssumption DEF Require, At, GoOn, IInv, PipesInv, TypeOK
  <1>2. \A cmd \in Commands : \A e \in Executors : InWork(cmd, e)' <=> InWork(cmd, e)
    BY <1>1 DEF Require, InWork, IInv, PipesInv, TypeOK, WorkAndPipes, WorkOf
  <1>3. \A cmd, e : Queued(cmd, e)' <=> Queued(cmd, e)
    BY <1>1 DEF Queued
  <1>4. \A cmd \in Commands : \A e \in Executors : Held(cmd, e)' <=> Held(cmd, e)
    BY <1>2, <1>3 DEF Held
  <1>5. HeldOnce' /\ QueuedOnce'
    BY <1>1, <1>2, <1>3, <1>4 DEF IInv, PlaceInv, HeldOnce, QueuedOnce, Distinct
  <1>6. NewIsNowhere'
    <2>1. ASSUME NEW d \in Clients, NEW k \in 1 .. MaxCalls, NotYet(d, k)' PROVE NotYet(d, k)
      BY <1>1, <2>1 DEF NotYet, IInv, PipesInv, TypeOK
    <2> QED
      BY <1>1, <1>4, <2>1, NewStaysNowhere
  <1>7. CallUnderWay'
    <2>1. ASSUME NEW d \in Clients, d # c PROVE pc'[d] = pc[d] /\ calls'[d] = calls[d] /\ Call(d)' = Call(d)
      BY <1>1, <2>1 DEF Call, IInv, PipesInv, TypeOK
    <2>2. pc'[c] = "read" /\ calls'[c] = calls[c] + 1
      BY <1>1 DEF IInv, PipesInv, TypeOK
    <2>3. \A d \in Clients : pc[d] = "wait" => Call(d) \in Commands
      BY CallInCommands DEF IInv, PipesInv, PlaceInv, CallUnderWay
    <2> QED
      BY <1>1, <1>4, <2>1, <2>2, <2>3 DEF IInv, PlaceInv, CallUnderWay
  <1> QED
    BY <1>5, <1>6, <1>7 DEF PlaceInv

\* a step of a client between its calls and its waiting
LEMMA GoOnPlace ==
  ASSUME IInv, NEW c \in Clients, ReadExecutor(c) \/ Wake(c) \/ DropExecutor(c)
  PROVE  PlaceInv'
  <1>1. /\ UNCHANGED << calls, events, executorVars >>
        /\ pc[c] \in {"wait", "drop"} => UNCHANGED mine
        /\ pc[c] = "read" => pc'[c] \in {"idle", "queue"} /\ mine'[c] = t_cmd_executor
        /\ pc[c] # "read" => pc'[c] \in {"idle", "drop"}
        /\ pc[c] \in {"read", "wait", "drop"}
        /\ t_cmd_executor = None => pc'[c] # "queue"
        /\ \A d \in Clients \ {c} : pc'[d] = pc[d] /\ mine'[d] = mine[d]
    BY DEF ReadExecutor, Wake, DropExecutor, GoOn, At, executorVars, IInv, PipesInv, TypeOK
  <1>2. \A cmd, e : (Queued(cmd, e)' <=> Queued(cmd, e)) /\ (InWork(cmd, e)' <=> InWork(cmd, e)) /\ (Held(cmd, e)' <=> Held(cmd, e))
    BY <1>1 DEF Queued, InWork, Held, executorVars
  <1>3. HeldOnce' /\ QueuedOnce'
    BY <1>1, <1>2 DEF IInv, PlaceInv, HeldOnce, QueuedOnce, Distinct, executorVars
  <1>4. NewIsNowhere'
    BY <1>1, <1>2 DEF IInv, PlaceInv, NewIsNowhere, NotYet
  <1>5. CallUnderWay'
    <2>1. \A d \in Clients : Call(d)' = Call(d)
      BY <1>1 DEF Call
    <2> QED
      BY <1>1, <1>2, <2>1 DEF IInv, PlaceInv, CallUnderWay
  <1> QED
    BY <1>3, <1>4, <1>5 DEF PlaceInv

LEMMA QueuePlace ==
  ASSUME IInv, NEW c \in Clients, QueueCommand(c)
  PROVE  PlaceInv'
  <1>1. mine[c] \in Executors /\ Call(c) \in Commands /\ calls[c] \in 1 .. MaxCalls
    BY CallInCommands, BoundsAssumption DEF QueueCommand, At, IInv, PipesInv, TypeOK, PlaceInv, CallUnderWay
  <1>2. PICK f \in Executors : f = mine[c]
    BY <1>1
  <1>3. PICK cmd \in Commands : cmd = Call(c)
    BY <1>1
  <1>4. /\ pc[c] = "queue" /\ f \in Executors /\ cmd \in Commands /\ calls[c] \in 1 .. MaxCalls
        /\ pc' = [pc EXCEPT ![c] = "wait"] /\ UNCHANGED << calls, mine, events, thread, ec >>
        /\ cmd_queue[f] \in Seq(Commands) /\ cmd_queue' = [cmd_queue EXCEPT ![f] = Append(@, cmd)]
    BY <1>1, <1>2, <1>3 DEF QueueCommand, At, GoOn, IInv, PipesInv, TypeOK
  <1>5. /\ cmd \notin events /\ \A e \in Executors : ~Held(cmd, e)
        /\ \A d \in Clients, k \in 1 .. MaxCalls : NotYet(d, k)' => NotYet(d, k) /\ << d, k >> # cmd
    <2>1. NotYet(c, calls[c]) /\ cmd = << c, calls[c] >>
      BY <1>4, <1>3 DEF NotYet, Call
    <2>2. ASSUME NEW d \in Clients, NEW k \in 1 .. MaxCalls, NotYet(d, k)' PROVE NotYet(d, k) /\ << d, k >> # cmd
      BY <1>4, <2>1, <2>2, CallsDiffer DEF NotYet, IInv, PipesInv, TypeOK
    <2> QED
      BY <1>4, <2>1, <2>2 DEF IInv, PlaceInv, NewIsNowhere
  <1>6. Call(c)' = cmd /\ \A d \in Clients : Call(d)' = Call(d)
    BY <1>4, <1>3 DEF Call
  <1>7. \A d \in Clients : pc[d] = "wait" => Call(d) \in Commands
    BY CallInCommands DEF IInv, PipesInv, PlaceInv, CallUnderWay
  <1>8. /\ cmd_queue'[f] = Append(cmd_queue[f], cmd) /\ \A e \in Executors \ {f} : cmd_queue'[e] = cmd_queue[e]
        /\ pc'[c] = "wait" /\ \A d \in Clients \ {c} : pc'[d] = pc[d]
    BY <1>4 DEF IInv, PipesInv, TypeOK
  <1>9. /\ \A x : Queued(x, f)' <=> Queued(x, f) \/ x = cmd
        /\ Distinct(cmd_queue[f]) /\ ~Queued(cmd, f) => Distinct(cmd_queue'[f])
    <2>1. /\ \A x : Has(cmd_queue'[f], x) <=> Has(cmd_queue[f], x) \/ x = cmd
          /\ Distinct(cmd_queue[f]) /\ ~Has(cmd_queue[f], cmd) => Distinct(cmd_queue'[f])
      BY <1>4, <1>8, AppendHas
    <2>2. \A x : (Queued(x, f) <=> Has(cmd_queue[f], x)) /\ (Queued(x, f)' <=> Has(cmd_queue'[f], x))
      BY <1>4 DEF Queued, Has
    <2> QED
      BY <2>1, <2>2
  <1>10. \A e \in Executors \ {f} : \A x : Queued(x, e)' <=> Queued(x, e)
    BY <1>8 DEF Queued
  <1>11. \A x, e : InWork(x, e)' <=> InWork(x, e)
    BY <1>4 DEF InWork
  <1>12. \A x \in Commands : \A e \in Executors : Held(x, e)' <=> Held(x, e) \/ (x = cmd /\ e = f)
    BY <1>9, <1>10, <1>11 DEF Held
  <1>13. HeldOnce'
    <2> SUFFICES ASSUME NEW x \in Commands, NEW e \in Executors
                 PROVE  /\ ~(Queued(x, e)' /\ InWork(x, e)')
                        /\ Held(x, e)' => x \notin events' /\ \A d \in Executors \ {e} : ~Held(x, d)'
      BY DEF HeldOnce
    <2>1. /\ ~(Queued(x, e) /\ InWork(x, e))
          /\ Held(x, e) => x \notin events /\ \A d \in Executors \ {e} : ~Held(x, d)
      BY DEF IInv, PlaceInv, HeldOnce
    <2>2. x = cmd => ~InWork(x, e) /\ ~Queued(x, e)
      BY <1>5 DEF Held
    <2> QED
      BY <1>4, <1>5, <1>9, <1>10, <1>11, <1>12, <2>1, <2>2
  <1>14. QueuedOnce'
    BY <1>4, <1>5, <1>8, <1>9 DEF Held, IInv, PlaceInv, QueuedOnce
  <1>15. NewIsNowhere'
    <2> SUFFICES ASSUME NEW d \in Clients, NEW k \in 1 .. MaxCalls, NotYet(d, k)'
                 PROVE  << d, k >> \notin events' /\ \A e \in Executors : ~Held(<< d, k >>, e)'
      BY DEF NewIsNowhere
    <2> DEFINE new == << d, k >>
    <2>1. new \in Commands /\ new # cmd
      BY <1>5, CallsDiffer
    <2>2. new \notin events /\ \A e \in Executors : ~Held(new, e)
      BY <1>5 DEF IInv, PlaceInv, NewIsNowhere
    <2> HIDE DEF new
    <2>3. new \notin events' /\ \A e \in Executors : ~Held(new, e)'
      BY <1>4, <1>12, <2>1, <2>2
    <2> QED
      BY <2>3 DEF new
  <1>16. CallUnderWay'
    <2> SUFFICES ASSUME NEW d \in Clients
                 PROVE  /\ pc'[d] # "idle" => calls'[d] > 0
                        /\ pc'[d] = "queue" => mine'[d] # None
                        /\ \A x \in Commands : pc'[d] = "wait" /\ x = Call(d) /\ x \notin events' =>
                             \E e \in Executors : mine'[d] = e /\ Held(x, e)'
      BY <1>6 DEF CallUnderWay, Call
    <2>1. CASE d = c
      BY <1>4, <1>1, <1>2, <1>3, <1>6, <1>8, <1>12, <2>1
    <2>2. CASE d # c
      BY <1>4, <1>6, <1>7, <1>8, <1>12, <2>2 DEF IInv, PlaceInv, CallUnderWay
    <2> QED
      BY <2>1, <2>2
  <1> QED
    BY <1>13, <1>14, <1>15, <1>16 DEF PlaceInv

\* a step of an executor that keeps its queue and the command in work
LEMMA StagePlace ==
  ASSUME IInv, NEW e \in Executors,
         \/ PopenFails(e) \/ Popen(e) \/ WriteFails(e) \/ Greet(e) \/ ExecuteCommand(e)
         \/ GetResult(e) \/ Respond(e) \/ FinalizeQueue(e) \/ Exit(e) \/ RemoteShell(e) \/ Die(e)
  PROVE  PlaceInv'
  <1>1. UNCHANGED << clientVars, events, cmd_queue >>
    BY DEF PopenFails, Popen, WriteFails, Greet, ExecuteCommand, GetResult, Respond, FinalizeQueue, Exit,
           RemoteShell, Die, executorVars
  <1>2. \A cmd \in Commands : \A d \in Executors : InWork(cmd, d)' <=> InWork(cmd, d)
    BY LinesAssumption
    DEF PopenFails, Popen, WriteFails, Greet, ExecuteCommand, GetResult, Respond, FinalizeQueue, Exit,
        RemoteShell, Die, executorVars, Step, InWork, IInv, PipesInv, TypeOK, WorkAndPipes, WorkOf
  <1> QED
    BY <1>1, <1>2, SamePlace

\* a step of an executor that sets the event of a command it has, and gives it up
LEMMA DonePlace ==
  ASSUME IInv, NEW e \in Executors, NEW cmd \in Commands, Held(cmd, e), events' = events \cup {cmd},
         UNCHANGED clientVars, QueuedOnce',
         \A c \in Commands : \A d \in Executors :
           /\ Queued(c, d)' => Queued(c, d)
           /\ InWork(c, d)' => InWork(c, d)
           /\ Held(c, d)' <=> Held(c, d) /\ c # cmd
  PROVE  PlaceInv'
  <1>1. HeldOnce'
    <2> SUFFICES ASSUME NEW c \in Commands, NEW d \in Executors
                 PROVE  /\ ~(Queued(c, d)' /\ InWork(c, d)')
                        /\ Held(c, d)' => c \notin events' /\ \A x \in Executors \ {d} : ~Held(c, x)'
      BY DEF HeldOnce
    <2>1. /\ ~(Queued(c, d) /\ InWork(c, d))
          /\ Held(c, d) => c \notin events /\ \A x \in Executors \ {d} : ~Held(c, x)
      BY DEF IInv, PlaceInv, HeldOnce
    <2> QED
      BY <2>1
  <1>2. NewIsNowhere'
    BY NewStaysNowhere DEF NotYet, clientVars
  <1>3. CallUnderWay'
    <2>1. \A c \in Clients : Call(c)' = Call(c)
      BY DEF Call, clientVars
    <2>2. \A c \in Clients : pc[c] = "wait" => Call(c) \in Commands
      BY CallInCommands DEF IInv, PipesInv, PlaceInv, CallUnderWay
    <2> QED
      BY <2>1, <2>2 DEF IInv, PlaceInv, CallUnderWay, clientVars
  <1> QED
    BY <1>1, <1>2, <1>3 DEF PlaceInv

LEMMA SetEventPlace ==
  ASSUME IInv, NEW e \in Executors, SetEvent(e)
  PROVE  PlaceInv'
  <1>1. ec[e] \in Commands /\ InWork(ec[e], e)
    BY DEF SetEvent, Step, InWork, IInv, PipesInv, WorkAndPipes, WorkOf
  <1>2. \A c, d : Queued(c, d)' <=> Queued(c, d)
    BY DEF SetEvent, Queued
  <1>3. \A c \in Commands : \A d \in Executors : InWork(c, d)' <=> InWork(c, d) /\ d # e
    BY DEF SetEvent, Step, InWork, IInv, PipesInv, TypeOK
  <1>4. \A c \in Commands : InWork(c, e) => c = ec[e]
    BY DEF InWork
  <1>5. QueuedOnce'
    BY DEF SetEvent, IInv, PlaceInv, QueuedOnce
  <1>6. \A c \in Commands : \A d \in Executors : Held(c, d)' <=> Held(c, d) /\ c # ec[e]
    BY <1>1, <1>2, <1>3, <1>4 DEF Held, IInv, PlaceInv, HeldOnce
  <1> QED
    BY <1>1, <1>2, <1>3, <1>5, <1>6, DonePlace DEF SetEvent, Held

LEMMA ReleaseCurrentPlace ==
  ASSUME IInv, NEW e \in Executors, ReleaseCurrent(e)
  PROVE  PlaceInv'
  <1>1. CASE ec[e] = None
    <2>1. \A cmd \in Commands : \A d \in Executors : InWork(cmd, d)' <=> InWork(cmd, d)
      BY <1>1, LinesAssumption DEF ReleaseCurrent, Step, InWork, IInv, PipesInv, TypeOK
    <2> QED
      BY <1>1, <2>1, SamePlace DEF ReleaseCurrent
  <1>2. CASE ec[e] # None
    <2>1. ec[e] \in Commands /\ InWork(ec[e], e)
      BY <1>2 DEF ReleaseCurrent, Step, InWork, IInv, PipesInv, TypeOK
    <2>2. \A c, d : Queued(c, d)' <=> Queued(c, d)
      BY DEF ReleaseCurrent, Queued
    <2>3. \A c \in Commands : \A d \in Executors : InWork(c, d)' <=> InWork(c, d) /\ d # e
      BY DEF ReleaseCurrent, Step, InWork, IInv, PipesInv, TypeOK
    <2>4. \A c \in Commands : InWork(c, e) => c = ec[e]
      BY DEF InWork
    <2>5. QueuedOnce'
      BY DEF ReleaseCurrent, IInv, PlaceInv, QueuedOnce
    <2>6. \A c \in Commands : \A d \in Executors : Held(c, d)' <=> Held(c, d) /\ c # ec[e]
      BY <2>1, <2>2, <2>3, <2>4 DEF Held, IInv, PlaceInv, HeldOnce
    <2> QED
      BY <1>2, <2>1, <2>2, <2>3, <2>5, <2>6, DonePlace DEF ReleaseCurrent, Held
  <1> QED
    BY <1>1, <1>2

\* what is taken from a queue is not in it any more
LEMMA TakenFromQueue ==
  ASSUME IInv, NEW e \in Executors, cmd_queue[e] # << >>, cmd_queue' = [cmd_queue EXCEPT ![e] = Tail(@)]
  PROVE  /\ Head(cmd_queue[e]) \in Commands /\ Queued(Head(cmd_queue[e]), e) /\ QueuedOnce'
         /\ \A c : Queued(c, e)' <=> Queued(c, e) /\ c # Head(cmd_queue[e])
         /\ \A d \in Executors \ {e} : \A c : Queued(c, d)' <=> Queued(c, d)
  <1>1. /\ cmd_queue[e] \in Seq(Commands) /\ Distinct(cmd_queue[e])
        /\ cmd_queue'[e] = Tail(cmd_queue[e]) /\ \A d \in Executors \ {e} : cmd_queue'[d] = cmd_queue[d]
    BY DEF IInv, PipesInv, TypeOK, PlaceInv, QueuedOnce
  <1>2. /\ Head(cmd_queue[e]) \in Commands /\ Has(cmd_queue[e], Head(cmd_queue[e]))
        /\ \A c : Has(cmd_queue[e], c) <=> c = Head(cmd_queue[e]) \/ Has(Tail(cmd_queue[e]), c)
        /\ Distinct(Tail(cmd_queue[e])) /\ ~Has(Tail(cmd_queue[e]), Head(cmd_queue[e]))
    BY <1>1, TailHas
  <1>3. \A c : (Queued(c, e)' <=> Has(Tail(cmd_queue[e]), c)) /\ (Queued(c, e) <=> Has(cmd_queue[e], c))
    BY <1>1 DEF Queued, Has
  <1>4. \A d \in Executors \ {e} : \A c : Queued(c, d)' <=> Queued(c, d)
    BY <1>1 DEF Queued
  <1>5. QueuedOnce'
    BY <1>1, <1>2 DEF IInv, PlaceInv, QueuedOnce
  <1> QED
    BY <1>2, <1>3, <1>4, <1>5

LEMMA ReleaseQueuedPlace ==
  ASSUME IInv, NEW e \in Executors, ReleaseQueued(e)
  PROVE  PlaceInv'
  <1> DEFINE cmd == Head(cmd_queue[e])
  <1>1. /\ cmd \in Commands /\ Queued(cmd, e) /\ QueuedOnce'
        /\ \A c : Queued(c, e)' <=> Queued(c, e) /\ c # cmd
        /\ \A d \in Executors \ {e} : \A c : Queued(c, d)' <=> Queued(c, d)
    BY TakenFromQueue DEF ReleaseQueued
  <1>2. \A c, d : InWork(c, d)' <=> InWork(c, d)
    BY DEF ReleaseQueued, InWork
  <1>3. \A c \in Commands : \A d \in Executors : Held(c, d)' <=> Held(c, d) /\ c # cmd
    BY <1>1, <1>2 DEF Held, IInv, PlaceInv, HeldOnce
  <1> HIDE DEF cmd
  <1>4. events' = events \cup {cmd} /\ UNCHANGED clientVars /\ Held(cmd, e)
    BY <1>1 DEF ReleaseQueued, Held, cmd
  <1> QED
    BY <1>1, <1>2, <1>3, <1>4, DonePlace

LEMMA GetCommandPlace ==
  ASSUME IInv, NEW e \in Executors, GetCommand(e)
  PROVE  PlaceInv'
  <1> DEFINE cmd == Head(cmd_queue[e])
  <1>1. /\ cmd \in Commands /\ Queued(cmd, e) /\ QueuedOnce'
        /\ \A c : Queued(c, e)' <=> Queued(c, e) /\ c # cmd
        /\ \A d \in Executors \ {e} : \A c : Queued(c, d)' <=> Queued(c, d)
    BY TakenFromQueue DEF GetCommand
  <1>2. /\ \A c : ~InWork(c, e) /\ (InWork(c, e)' <=> c = cmd)
        /\ \A d \in Executors \ {e} : \A c : InWork(c, d)' <=> InWork(c, d)
    BY DEF GetCommand, Step, InWork, IInv, PipesInv, TypeOK
  <1> HIDE DEF cmd
  <1>3. \A c \in Commands : \A d \in Executors : Held(c, d)' <=> Held(c, d)
    BY <1>1, <1>2 DEF Held
  <1>4. UNCHANGED << clientVars, events >>
    BY DEF GetCommand
  <1>5. HeldOnce'
    BY <1>1, <1>2, <1>3, <1>4 DEF IInv, PlaceInv, HeldOnce, Held
  <1>6. NewIsNowhere'
    BY <1>3, <1>4, NewStaysNowhere DEF NotYet, clientVars
  <1>7. CallUnderWay'
    <2>1. \A c \in Clients : Call(c)' = Call(c)
      BY <1>4 DEF Call, clientVars
    <2>2. \A c \in Clients : pc[c] = "wait" => Call(c) \in Commands
      BY CallInCommands DEF IInv, PipesInv, PlaceInv, CallUnderWay
    <2> QED
      BY <1>3, <1>4, <2>1, <2>2 DEF IInv, PlaceInv, CallUnderWay, clientVars
  <1> QED
    BY <1>1, <1>5, <1>6, <1>7 DEF PlaceInv

-----------------------------------------------------------------------------
LEMMA StepInv == IInv /\ [Next]_vars => IInv'
  <1> SUFFICES ASSUME IInv, [Next]_vars PROVE IInv'
    OBVIOUS
  <1>1. ASSUME NEW c \in Clients, Client(c) PROVE IInv'
    <2>1. PipesInv'
      BY <1>1, ClientPipes DEF IInv, PlaceInv
    <2>2. PlaceInv'
      BY <1>1, RequirePlace, GoOnPlace, QueuePlace DEF Client
    <2> QED
      BY <2>1, <2>2 DEF IInv
  <1>2. ASSUME NEW e \in Executors, Executor(e) \/ RemoteShell(e) \/ Die(e) PROVE IInv'
    <2>1. PipesInv'
      BY <1>2, FailPipes, PopenPipes, GreetPipes, ExecutePipes, GetCommandPipes, ReleaseQueuedPipes, RespondPipes,
         GetResultPipes, RemotePipes, DiePipes
      DEF Executor, IInv
    <2>2. PlaceInv'
      BY <1>2, StagePlace, SetEventPlace, ReleaseCurrentPlace, ReleaseQueuedPlace, GetCommandPlace DEF Executor
    <2> QED
      BY <2>1, <2>2 DEF IInv
  <1>3. CASE UNCHANGED vars
    BY <1>3 DEF vars, clientVars, executorVars, sshVars, IInv, PipesInv, TypeOK, WorkAndPipes, WorkOf, PipesOf,
       Greeting, Answering, OwnResponse, PlaceInv, HeldOnce, QueuedOnce, NewIsNowhere, NotYet, CallUnderWay,
       Held, Queued, InWork, Call
  <1> QED
    BY <1>1, <1>2, <1>3 DEF Next

\* The inductive invariant holds in every reachable state.
THEOREM Invariance == Spec => []IInv
  BY InitInv, StepInv, PTL DEF Spec

-----------------------------------------------------------------------------
(***************************************************************************)
(* The states of clients, executors and pipes are the ones declared: in    *)
(* particular no response is ever read beyond the end of a pipe.           *)
(***************************************************************************)
THEOREM TypeCorrect == Spec => []TypeOK
  <1>1. IInv => TypeOK
    BY DEF IInv, PipesInv
  <1> QED
    BY <1>1, Invariance, PTL

(***************************************************************************)
(* A response is the output of its own command: never the banner of the    *)
(* login, and never what another command has left in the pipe, whenever    *)
(* the process behind it dies.                                             *)
(***************************************************************************)
THEOREM ResponsesAreOwn == Spec => []OwnResponse
  <1>1. IInv => OwnResponse
    BY DEF IInv, PipesInv
  <1> QED
    BY <1>1, Invariance, PTL

(***************************************************************************)
(* The command of a waiting client is in the queue or the hands of exactly *)
(* one executor, the one its client has read, until its event is set.      *)
(***************************************************************************)
THEOREM PendingCommandsOnce == Spec => []PendingOnce
  <1>1. ASSUME IInv PROVE PendingOnce
    <2>1. \A c \in Clients : pc[c] = "wait" => Call(c) \in Commands
      BY <1>1, CallInCommands DEF IInv, PipesInv, PlaceInv, CallUnderWay
    <2> QED
      BY <1>1, <2>1 DEF PendingOnce, At, IInv, PlaceInv, HeldOnce, CallUnderWay, Held
  <1> QED
    BY <1>1, Invariance, PTL

(***************************************************************************)
(* A response is final once its event is set: the executor that writes it  *)
(* has the command in work, and no command in work has its event set.      *)
(***************************************************************************)
THEOREM ResponsesAreFinal == Spec => ResponseFinal
  <1>1. ASSUME IInv, [Next]_vars PROVE [\A cmd \in events : response'[cmd] = response[cmd]]_vars
    <2>1. ASSUME NEW e \in Executors, Respond(e) PROVE \A cmd \in events : response'[cmd] = response[cmd]
      <3>1. ec[e] \notin events
        BY <1>1, <2>1 DEF Respond, Step, InWork, Held, IInv, PipesInv, WorkAndPipes, WorkOf, PlaceInv, HeldOnce
      <3> QED
        BY <1>1, <2>1, <3>1 DEF Respond, IInv, PipesInv, TypeOK
    <2>2. CASE UNCHANGED response
      BY <2>2
    <2>3. UNCHANGED response \/ \E e \in Executors : Respond(e)
      BY <1>1 DEF Next, vars, Client, Require, ReadExecutor, QueueCommand, Wake, DropExecutor, Executor, PopenFails,
         Popen, WriteFails, Greet, GetCommand, ExecuteCommand, GetResult, SetEvent, FinalizeQueue,
         ReleaseCurrent, ReleaseQueued, Exit, RemoteShell, Die
    <2> QED
      BY <2>1, <2>2, <2>3
  <1> QED
    BY <1>1, Invariance, PTL DEF Spec, ResponseFinal
=============================================================================
