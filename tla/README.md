# Specifications of Embedded-Programming

The repository holds three programs: a RISC-V processor in VHDL (`ca/miriv`), a Space
Invaders machine in VHDL (`dd/vhdl`), and the Python tools that give access to the remote
lab the two run in (`rpa_tools`). This directory specifies parts of them in TLA+. All paths
below are relative to `src/`.

    tlasany M.tla                      parse
    tlc -config X.cfg M                check a run (the list is in section 4)
    tlapm M_proofs.tla                 check the proofs

## 1. Inventory

### ca/miriv: a five-stage RISC-V processor

| part | state | operations | what makes it correct |
|---|---|---|---|
| `fetch`, `decode`+`regfile`, `exec`+`alu`+2x`fwd`, `mem`+`memu`, `wb` | a stage register each, the registers, the registered read addresses | a clock edge with `stall` and `flush` | every program runs as on a machine that executes one instruction after the other |
| `ctrl` | none | global stall, then branch flush, then load-use stall | it never loses or repeats an instruction, and never holds the pipeline for good |
| `cache`, `mgmt_st`, `data_st`, RAM | line state, tags, words, state machine, saved address | hit, miss, eviction, bypass for devices | the processor sees one atomic memory; every stall ends |
| `repl`, `data_st_1w` for two ways, `bypass` | - | - | unused in the configuration of `core.vhd` |
| memory and UART (precompiled, not in the repository) | words, a busy time | read, write | external |

The stages communicate by registers at a clock edge, and backwards (forwarding, `pcsrc`,
`reg_write`, `stall`) by combinational signals. The hard part is time: an operand is read up
to three instructions before the write it depends on has arrived, a stall can come in any
cycle and with a branch, a store is sent on its way and nobody waits for it, a request is on
the bus for one cycle only and the word of a load as well.

### dd/vhdl: the game

| part | state | what makes it correct |
|---|---|---|
| `fifo_1c1r1w`, `dp_ram_1c1r1w` | pointers, flags, fill counter, RAM | a FIFO of Size words; flags that never mislead |
| `fifo_1c1r1w_fwft` | `rd_valid` and the above | every word is shown once, in order, until acknowledged |
| `dualshock_ctrl` | bit, byte and clock counters, the command, mode, what was received | it ends a packet where the controller does, in every mode; the game is shown one packet at a time; after any interruption the controller is polled in analog mode again |
| `ssd_ctrl` | digits, animation state | a conversion always ends and shows the number |
| `shot_ctrl`, `sifield` | field of invaders, shots | lookups hit what is there, moves turn at the edge |
| `game_ex1`, `game_ex2` | frame state machine, graphics FIFO protocol | every command gets into the FIFO once; every frame ends |
| `gfx_cmd_pkg`, `interpreter_pkg` | - | encodings only |
| `sync` | a chain of registers | - |
| top, debug port, audio, VGA, PLL, decimal printer | mostly precompiled netlists | - |

### rpa_tools: the remote lab client

| part | state | operations | what makes it correct |
|---|---|---|---|
| `CommandExecutorThread`, `RPAClient._execute_command` | the executor in use, its queue, the command in work, two pipes to a remote shell | require, queue, wait; run, read to the separator, respond, finalize | every command gets its own answer; every waiting caller is released |
| `RPAExecThread`, `RPAClient` place locking | the lock process, its outcome, parsed messages | connect, wait for the lock, release, terminate | one lock process at a time; the place returned is the locked one; a release leaves no process behind; every call ends |
| `rpa_gui.py`: state machine, refresh, connect, prepare, webserver and event threads | UI state, what the window shows, Tk's events, messages of failures, `t_rpa`, the model's place | an event, a click, closing a box; connect, prepare, refresh, hand on a lock message, end | the window never blocks and never gets stuck; no lock process is forgotten; no screen is shown for ever without what it stands for |
| `rpa_shell.py` | where the run is, master or client, the call of `Place`, the menu and its thread | query, lock or use the lock, prepare, shell or menu, SIGINT | a run that ends gives back what it has locked, and only that; every run starts or ends |
| ssh channels, web server, configuration | - | - | - |

Threads meet in a queue, events, a few locks, and in attributes of `RPAClient` that are read
without one. The ssh process can die in any step.

`PROJECT.json` lists every component with its status, and under `hazards` the places where
this code can go wrong in a way a test would hardly reach, with the property that covers it
or the reason why none does yet.

## 2. Modules

| module | specifies |
|---|---|
| `Miriv` | words, program counters and instructions of the processor |
| `Isa` | abstract: the sequential machine a program may rely on |
| `Pipeline` | the five stages, forwarding, register file, hazard control; implements `Isa` |
| `AtomicMemory` | abstract: loads and stores one at a time |
| `Cache` | MEM stage, cache and memory; implements `AtomicMemory` |
| `BoundedFifo` | abstract: a FIFO of bounded capacity |
| `Fifo1c1r1w` | the single-clock FIFO; implements `BoundedFifo` |
| `FifoFwft` | the first-word-fall-through FIFO around it; implements a `BoundedFifo` one word larger |
| `DualShock` | the controller interface and a controller on its wires |
| `CommandExecutor` | client threads, executor threads, remote shells |
| `PlaceLock` | `RPAClient.Place` and `releasePlace`, lock threads, lock processes, server |
| `RpaGui` | `rpa_gui`: state machine, window and boxes, the threads, lock processes and server |
| `RpaShell` | several runs of `rpa_shell` by one user, and the lock between them |
| `*_proofs` | the theorems about a component (`Fifo_proofs`: about both FIFOs) and their proofs, section 5 |
| `MC*` | the constants of the runs |

Some definitions have a sibling marked "a mutant": the same operation with a plausible mistake
in it. They are not part of any specification. Put in the place of the original, each makes
TLC report the property it is listed with in `PROJECT.json`, which shows that the property
depends on that line of the code.

### Pipeline

A step is a rising clock edge. The variables are the registers of the stages: `pc_out` and
`first` (fetch), `dec` and `rdaddr` (decode and the read addresses of the register file),
`regfile`, `ex`, `mem`, `wb`. Every stage has an operator (`Fetch`, `Decode`, `Exec`, `Mem`,
`Writeback`) that takes the stall and flush bits the code gives it; the combinational signals
(`instr`, `pcsrc`, `pc_next`, `Fwd`, `alu_r`, `alu_z`, `pc_new`, `LoadUse`, `RdData`) are
definitions. The four actions are the branches of `ctrl_logic`: `Wait` (a memory stalls),
`Redirect` (taken branch), `HoldForLoad` (load-use) and `Flow`.

- The program is not fixed: an entry of `imem` is chosen when it is first fetched, and stays.
  So a run covers all programs of `Pcs` instructions out of a set, wrong paths included, and
  they run for ever, the program counter being of bounded width.
- The memory behind the MEM stage is atomic: a store takes effect at the first edge, a load
  takes its word at the edge that ends the stall. That this is what the cache offers is
  `IsAtomicMemory` of `Cache`, and that stalls end is its `NeverStallsForGood`. A stall may
  come in any cycle, from either memory; a load costs at least one.
- `first` stands for the two flags `first` and `instr_nop` of fetch, which are equal, because
  `flush_fetch` is constant 0. In the cycle after the reset fetch advances even when stalled,
  but requests no word; the model assumes that no stall comes in that cycle, as is the case
  with the instruction memory of the test bench.
- `valid` in `dec`, `ex` and `mem` is a history bit: it tells an instruction of the program
  from the NOP of a flush. Nothing depends on it but the refinement mapping.
- Abstractions: words and program counters have a small width (`% Words`, `% Pcs`) and a
  program counter counts instructions; of the ALU, addition, subtraction and the two
  comparisons are there; loads and stores move whole words (lanes are in `Cache`); encodings
  that raise `exc_dec`, which nothing listens to, are "NOP".

Refinement mapping: an instruction has happened once it is in the MEM stage. Registers are the
register file with the pending writes of WB and then of MEM on top, memory is the memory with a
pending store, and the program counter is the branch target if MEM holds a taken branch, else
the address of the oldest instruction that MEM has yet to receive.

### Cache

A step is a rising clock edge, an action a branch of the process `logic` in `cache.vhd`; each
gives all registers their next value, those of the MEM and WB stages included, since what is
requested next depends on the stall the cache causes. `Stall` is `memu`'s busy or fetch's. A
stalled MEM stage withdraws its request and keeps its address. The memory (external) is busy
for up to `ReadDelay`/`WriteDelay` cycles; instruction fetches add up to `FetchDelay`.

What the design needs of its surroundings is the assumption `TimingAssumption`. The code checks
none of it: `WRITE_MEM` of a missed store is not waited for, `READ_MEM_START` does not look at
`busy`. With a memory that needs three cycles after a write, a fetch that is two cycles late,
or a device with any write delay at all, TLC loses a read or a loaded word. Within these
bounds the design is right.

`AtomicMemory` sees the request in the MEM stage, the words and the results of loads. A store
changes the bytes its request names and no other, a load is not left before its word is there,
and nothing else changes a word. Refinement mapping: the word at an address is the line's if
the address is cached, the word on its way out during an eviction, the memory's otherwise.

### FIFO

`Tick` is a clock edge with its inputs. `Legal` is what the two assertions of the code demand of
the user: no write when full, no read when empty. `FifoFwft` extends it with the register of the
wrapper and with the read request that the wrapper derives; nothing is assumed of `rd_ack`.

### DualShock

`Attention` is `PACKET_TIMEOUT` to `WAIT_TIMEOUT`, `Exchange` a whole byte (`SET_COMMAND` and eight
times `CLK_LOW`, `SAMPLE`, `CLK_HIGH`), `Ack`, `AckTimeout` and `AckAtTimeout` leave `WAIT_ACK`,
`NextByte` leaves `WAIT_BEFORE_NEXT_BYTE`, `Update` is the cycle of `PACKET_TIMEOUT` that shows the
packet to the game.

- A byte of data is its number in its packet, or one of the tags `Zero` (reset), `Answer` (of the
  configuration), `Old` (an earlier packet) and `Lost` (nobody has sent it), so that a value shown to
  the game says where it comes from. The second byte is a mode and a length; if the controller does
  not drive the line it is any.
- The controller is external, modelled from the commands and the answers the code counts on: it
  takes its place in a packet from the attention line, knows 42 and 43, and in its configuration 44
  and 4D as well, acknowledges what it knows, but not the last byte, and does what a command says
  when its argument comes. A packet that is broken off leaves its state as it is.
- Faults, `MaxFaults` of them: an acknowledge that does not come or comes in the cycle of the timeout,
  and pulling the plug. The plug goes in again, with the controller's state lost, after a
  packet has been missed: a hand is slower than a packet.
- Abstracted: `clk_cnt` and `bit_cnt`, whose counts end before their state is left, the pin `ds_clk`,
  the motors' values. After a reset of the interface alone, the controller may be in any state.

### CommandExecutor

A step of a client or an executor thread ends where another thread can see a difference: at a
lock, the queue, the event, a pipe, or a read of `t_cmd_executor`. Calls are numbered per
client, executors in the order of their start; `MaxCalls` and `MaxExecutors` bound both. A line
of output is the command it answers, the banner of a login or the separator; a command prints
at most one line. `Die` ends an ssh process at any time: what it has printed can still be read,
what it has not read is lost, and the next write fails.

### PlaceLock

`Place` with its decorator is a sequence of steps of the thread "connect" (`Call`, `IsLocked`,
`Construct`, `Start`, `ReadOutcome`, `Query`, `Check`), `releasePlace` one of the threads "tk"
and "connect" (`Release`, `Terminate`, `Join`, `Forget`, each of which reads `t_rpa` again), and
an `RPAExecThread` runs from `Run` to `Eof` or `PopenFails`. All lock threads share one event
and one outcome, `rpa_outcome`; `r[i]` is what thread i has parsed so far: `yml_lines` is never
emptied, so a message without a host inherits that of an earlier one. The outcome is a response,
None, or, at the end, the process (status "Popen").

- The users. In `rpa_gui` "connect" is the thread of that name, which calls `Place` and, if it
  raises anything but `QueuedException`, `releasePlace`; "tk" is the window's thread, which
  releases whenever the state machine or a click makes it, and starts no connection while it
  does or before the last one is over. In `rpa_shell` "connect" is the main thread and, from the
  second call on, the thread that fetches the state; "tk" is the main thread when it ends the
  program, which it may do during such a later call. `HandleSigint` is SIGINT in a call of the
  main thread.
- Server and lock process are external, modelled from the messages that `RPAStatus` names and
  the comments on them: a user has one lock; a new process waits, is assigned a place, is refused,
  or replaces the holder, who gets BYE and lives on without the lock; a holder gets notes; a
  process may die at any time, and its lock with it.
- Bounds: `MaxThreads` lock threads, `MaxNotes` notes per holder, the `Wishes` that are asked
  for. Another instance of the user (`Elsewhere`) may have a place, take it over and give it
  back, but asks for none that is free, and gives none back while a process lives that lost it.
- Abstractions: the answer to `LockState` is one step (how it comes about is `CommandExecutor`);
  the messages put into `rpa_msg_queue` are not followed any further; a place is its host.

### RpaGui

The thread "tk" takes Tk's events one after the other (`Process`): the rows of `transitions` are
those of `UIStateMachine.run`, `Target` is the choice `process` makes, `Enter` what `state_map`
calls. The other threads only append events (`Emit`), which does nothing once Tk has stopped.

- A message box runs Tk's loop inside a transition. `boxes` is the stack of the transitions that
  are half done, each with the state it leads to: `Open` does what comes before the box
  (`exc_queue.get()`, or the first half of a refresh exception), `Close` enters the state, whatever
  the state is by then. A box grabs the mouse (`grab`) until a box is closed.
- The window is `ui`: the frame beside the list, the settings on top of it, the button in the
  header, the button that leaves the queue. `Click` is allowed where `Button` shows one, so a click
  meets a state machine that need not be in the state the button belongs to.
- The threads of an attempt are `connect[i]`, `prepare[i]` and `web[i]`, and its lock thread and
  process `process[i]`; `attempt` is the last one. Nothing stops the threads of an attempt that was
  given up. `t_rpa`, `rpa_main`, `place`, `rpa_outcome` and `p` are shared as in the code.
  `overtaken` is a history: such a thread has come too late, either of the two ways the disagreements
  in section 4 tell of. No action reads it.
- The lock is that of `PlaceLock` with coarser steps: `releasePlace` is one (that its parts
  interleave well is `ReleaseStops`), a message and the thread that reads it are one, and a
  failing ssh counts as a lock process that is dead from the start; a held place is taken to be the
  one asked for. `Other` is another instance of the program, which may lock, take over and release;
  `ReplacesOwn` is a second lock process of the program itself, which only an overtaken thread starts.
- `Quiet` and `Settled` state how fast things are: what needs a person, the server or ssh happens
  when the threads have done what they can do without waiting, and Tk is at most `Backlog` events
  behind. Between the threads themselves every order is possible.
- Left out: the names of places and the choice of one, reading and writing of settings, streams,
  the browser, `RPA_UPDATE_*` (no one sends them), `infoBox` when Tk is being destroyed.

### RpaShell

A run is a terminal (`at`), from `Start` to `Leave`. `evaluate_status` asks for the status and makes
the run master or client, `Place` to `LockState` are the call of `Place` (one variable `call`, since
main, `interactive_ui` and `stateFetcher` call it one after the other), `Open` is the choice between
shell, command and menu, `StartFetcher` to `Quit` the menu.

- Every way a run ends is `End`: the exceptions of `main` and of `__main__` differ in what they
  print only, and leave the `with` statement, which releases. `Leave` is the interpreter's exit, which
  waits for the lock thread because it is no daemon; `handle_sigint` may come anywhere, and again
  while a run is ending.
- "held" is a run that has ended for the user but waits for a lock thread that `stateFetcher` has
  started after `releasePlace` had read `t_rpa`. Nothing further is said of it.
- The lock processes are those of `PlaceLock`, without notes; `process` is that of the run's latest
  lock thread. A thread that was locked over, because its process had lost the place, is `forgotten`
  until that process ends (one flag for all of them): nobody terminates it, and `Leave` waits for it.
- `lock` is the server's. A run keeps of its command line (`options`) what it will look at again.
- Left out: `--debug-log`, the configuration file and `ask_for_username`, which end before a lock is
  asked for; `-p`, `-a`, `-s` beyond their success or failure; the event thread, which prints.

## 3. Fairness

- `Cache` and `Pipeline`: weak fairness of the next-state relation. The clock does not stop.
  `Pipeline` adds that stalls end, which is what `Cache` guarantees. The FIFOs need none: that a
  word falls through is a statement about one edge. `DualShock` has weak fairness of the steps of the
  clock; plug and faults have none, and the plug's owner need not put it in again.
- `CommandExecutor`: weak fairness of every executor thread, of every client within a call
  (`ReadExecutor`, `QueueCommand`, `Wake`, `DropExecutor`), and of every live remote shell:
  the operating system schedules threads, and a shell works through its input while the
  connection lasts. No client has to call (`Require`), no process has to die.
- `PlaceLock`: weak fairness of a call of `Place` under way, of every lock thread, and of a lock
  process that was asked: it says something or ends, or else `Place`, which waits without a
  timeout, would wait for ever. No process that waits has to be assigned a place.
- `RpaGui`: weak fairness of Tk's loop and of every thread, of a lock process that was asked, of an
  ssh that answers or fails, and of a webserver whose lock is gone. It is strong for the connect
  threads, whose requests `Quiet` holds back now and then: a request on the network is not put off for
  ever by what goes on in the window. The user closes the boxes and leaves the settings, and does
  nothing else for certain.
- `RpaShell`: weak fairness of main, of a call of `Place`, of `stateFetcher` and of a lock process
  that was started or asked; the user interrupts a run that does not end once more.

## 4. Runs

| run | instance | shows |
|---|---|---|
| pipeline_data | 4 instructions out of 13: ADDI, ADD, loads, stores over x1 and x0; 1-bit words, all memory contents | `IsSequential`: every instruction that is kept has the operands and the effect it has on the sequential machine |
| pipeline_control | 3 instructions out of 27: JAL, JALR, all branches, all modelled ALU operations, loads; 2-bit words, two registers | `IsSequential` across taken and untaken jumps, backward, to themselves and into a branch shadow, and signed and unsigned conditions; `KeepsRetiring`: neither flushes nor load-use stalls starve the program |
| cache_device | 2 tags, 1 set, a device, 2 byte lanes, all byte enables, up to 2 busy cycles after a read, instruction fetches up to 1 cycle late | `IsAtomicMemory`, `RequestHeld` with cached and device accesses of bytes and words mixed; lanes and tags are symmetric |
| cache_sets | 2 tags, 2 sets, 2 busy cycles after a write | `CleanLinesCoherent` in both sets; no read is lost with the slowest memory tolerated (`ReadsFindMemoryIdle`); `NeverStallsForGood` |
| fifo | 4 words of 2 values, read through the wrapper | `IsFifo`, `FlagsSafe` of the FIFO inside; `IsShowAheadFifo`, `NothingLeavesUnacked`, `FallsThrough` of the wrapper |
| dualshock | a controller in any mode and state, 3 faults | `PacketsComplete`: both ends count alike; `ShowsOnePacket`: buttons and sticks are of one packet, each in its place; `BecomesAnalog`: the configuration succeeds in the end, wherever it was interrupted |
| executor | 2 clients, 2 calls each, 2 executors | `OwnResponse`, `PendingOnce`, `ResponseFinal`, `WokenOrStranded` |
| place_lock | 2 lock threads, 2 hosts, one note, any place or a certain one asked for | `OneProcess`, `ReleaseStops`, `OwnOutcome`, `RightPlace`, `EveryPlaceCallEnds` |
| gui | 2 attempts, 1 box | `NeverBlocks`, `NoOrphan`, `MainScreenFree`; `EveryAttemptEnds` and `ConnectedServed`, whatever an attempt that was given up still does |
| gui_progress | 1 attempt, 2 boxes, 1 failure of the refresh thread | `NeverStuck`, `RefreshResumes`, `WaitingServed` |
| shell | 2 terminals; take over, no master or neither; the status, the menu or a shell | `EndReleases`, `ClientsLeaveTheLock`, `LocksOnce`, `EveryRunStarts`, `EndsWhenAsked`, `LossNoticed` |
| gui_queued | 1 attempt | violated: `PreparesAPlace` |

Why the bounds are enough: what the runs show of safety, the refinements included, is proved for
all values of the bounds (section 5). The bounds therefore matter for the liveness properties, and for
the other properties only as a check of the model and of its mutants.

- Pipeline. A write reaches the register file three instructions later, so loops of three and
  four instructions put every distance between a producer and its consumers, with every
  instruction between them, and a flush kills three. One register besides x0 lets any two
  instructions depend on each other; the control run has two, so that operands differ. Values
  only have to tell an old word from a new one.
- Cache. Two addresses that compete for a line, one that does not, one device: a miss involves
  the line's old and new address and nothing else. The state machine holds one request at a
  time.
- FIFO. Four is the least power of two with distinct full, half-full and empty. The wrapper reads
  whenever it may and has nothing to show, or is acknowledged; for any other legal reader
  the flags and the refinement of the FIFO are proved.
- DualShock. Three faults interrupt the configuration, interrupt the attempt to repeat it, and
  strike once more while the game is being shown data; after each the interface is in one of the few
  states that differ in what was left behind.
- Executor. Two clients queue behind each other and race for the start and the end of an
  executor; two calls let a client come back after a failure, two executors let an old one
  finish beside a new one. Deadlock is not
  checked there: when all calls are made the program is at rest.
- Place lock. Two threads are a lock and the one that follows it, which is where the shared
  event, the shared outcome and `t_rpa` can be mistaken for one another; two hosts are the one
  asked for and another. One note is enough to change what the thread thinks of its lock. Here
  too the program comes to rest, or waits for a place.
- GUI. Two attempts are one that was given up and the one that follows, with threads of both at
  work: what the shared attributes can be mistaken for. Boxes over boxes and a refresh that fails
  matter for what boxes do to each other and to the refresh thread; one attempt is enough to open them.
  The second way a thread can
  come too late (`overtaken`) needs three attempts and a window three events behind, more than a
  run can search; that it is the last one is a result of the proof, not of the runs.
- Shell. Two terminals are a master and a client, or two that want to be master; a run that has
  ended starts again, so there is no bound on how many there are.

### Disagreements with comments and messages

With a run:

- `PreparesAPlace`: when the user had to wait for a place, `Place` has raised `QueuedException` before
  `getPlace` could set the model's `p`, and nothing sets it when the place is assigned: "do nothing
  so far, wait for connection to be confirmed" (`rpa_tools/rpa_gui.py:315`). The preparation then
  fails on None, or prepares the place of an earlier lock.

Seen in the behaviours of the other runs:

- `finalizeQueue` sets an attribute nobody reads, so a command can come into the queue of an executor
  that has ended; its caller waits for ever, against "release all waiting clients"
  (`rpa_tools/ssh.py:131`, `:134`). `WokenOrStranded` shows that this is the only way.
- An empty answer, or the handler of an earlier failure that runs late, makes the client forget a
  live executor as if it had crashed (`rpa_tools/librpa.py:463`, `:466`).
- The lock process dies before its first message, or before the caller has read it; the outcome is
  then a `Popen` and `Place` raises `AttributeError`, not ValueError (`rpa_tools/librpa.py:307`,
  docstring `:527`).
- `_locked` survives the lock process, so `Place` returns the place of before and locks none
  (`rpa_tools/librpa.py:350`, docstring `:525`).
- An attempt to use the lock of another instance, given up for one to own it while it waits for the
  server's answer, finds `rpa_main` changed and locks, too (`rpa_tools/librpa.py:348`, `:357`); the lock
  thread of the other attempt is forgotten (`overtaken`, the first way). `releasePlace`, "stop thread which
  locked the place" (`:484`), then finds one thread or none, and the way back to the main screen leaves a
  process that holds the place; nor is it true that "disconnect won't influence other instances"
  (`rpa_tools/rpa_gui.py:460`).
- `RPA_LOCKED`, `RPA_PREPARED` and `RPA_QUERY_UNASSIGNED` do not say which attempt they are about
  (`rpa_tools/rpa_gui.py:309`, `:349`). Left over from two earlier attempts, and behind the click that
  begins a third, they take the window from "connecting" to the main screen before the thread of that
  attempt has begun to call `Place`; it then locks a place while the window says there is none
  (`overtaken`, the second way). `NoProcessForgotten` shows that there is no third way.
- A box for a failed connection that is open under one for a failed refresh leaves the settings shown
  when the state is the main screen, and their buttons do nothing; `NeverStuck` excepts it.
- Nobody generates `RPA_DISCONNECTED`, so a lock process that dies in the queue leaves the window
  in "in wait queue" until the user cancels.
- `rpa_shell` tells who has to wait "you have been added to the waiting queue!"
  (`rpa_tools/rpa_shell.py:216`) and ends with the traceback of `QueuedException`, leaving the queue.
- "You may close this terminal without losing your lock" (`rpa_tools/rpa_shell.py:225`) holds unless the
  menu's `Place` comes after the BYE: `locked` is False then, and it takes the lock back.
- A run without `--take-over` that was told the user has no place takes over from a run that has
  locked one in the meantime (`rpa_tools/rpa_shell.py:100`).

- An acknowledge in the very cycle of the timeout resets the interface but not its state, and a packet
  goes on from its first byte while the controller is in the middle of one
  (`dd/vhdl/dualshock_ctrl/src/dualshock_ctrl.vhd:330`, `:336`); a timeout after the second byte stores the
  mode and the length of the packet over the reset values (`:342` to `:357`). `BecomesAnalog` shows that
  neither lasts.
- A controller whose configuration was broken off answers "enter config" with an answer of the
  configuration, which is shown as the state of the buttons until the next poll.

Smaller ones, without a run: a FIFO write together with a read can set `full` with a word still
free (`dd/vhdl/mem/src/fifo_1c1r1w.vhd:126`), which costs capacity, not data; an executor that
logs "stopping exec thread" goes back to its queue (`rpa_tools/ssh.py:79`); `CLEAR_SCREEN` of the game
goes on whether or not the graphics FIFO has taken its command (`dd/vhdl/game/src/game_ex2.vhd:332`).

What `PlaceLock` shows besides: in `rpa_shell` a lock thread may be left behind when the program
ends while its state thread is connecting anew, which `ReleaseStops` excepts; and `OneProcess`
rests on the server not sending INFO to a holder (add "INFO" to `Notes` and it fails), since any
status but ASSIGNED, REPLACE and EXTENDED counts as not locked (`rpa_tools/librpa.py:258`).

## 5. Proofs

For every value of the constants, from the named assumptions of the modules:

| module | theorem | property | says |
|---|---|---|---|
| `Fifo_proofs` | `FlagsCorrect`, `FillLevelCorrect` | `FlagsSafe` | the flags never mislead, and the fill counter is exact |
| | `ReadsInOrder`, `Refinement` | `IsFifo` | the FIFO implements `BoundedFifo`, for any legal user |
| | `WrapperObeys` | | the first-word-fall-through wrapper is a legal user |
| | `ShowAheadRefinement` | `IsShowAheadFifo` | the wrapper implements a `BoundedFifo` one word larger |
| | `UnackedStay`, `WordsFallThrough` | `NothingLeavesUnacked`, `FallsThrough` | what it shows stays; what is stored gets shown |
| `Cache_proofs` | `Refinement` | `IsAtomicMemory` | MEM stage, cache and memory are one atomic memory |
| | `CleanLines`, `Held`, `NoReadLost` | `CleanLinesCoherent`, `RequestHeld`, `ReadsFindMemoryIdle` | what its state machine relies on |
| `Pipeline_proofs` | `PipelineIsSequential` | `IsSequential` | every program runs as on the sequential machine, wherever memories stall |
| `DualShock_proofs` | `PacketsAreComplete`, `OnePacketShown` | `PacketsComplete`, `ShowsOnePacket` | both ends count alike; the game sees one packet at a time; for any number of faults |
| `CommandExecutor_proofs` | `ResponsesAreOwn`, `ResponsesAreFinal` | `OwnResponse`, `ResponseFinal` | a response is that of its command, and stays |
| | `PendingCommandsOnce` | `PendingOnce` | a pending command is in one place |
| `PlaceLock_proofs` | `OneAsks`, `NothingLeftBehind` | `OneProcess`, `ReleaseStops` | one lock process at a time; a release leaves none |
| | `OutcomeIsOwn`, `PlaceIsRight` | `OwnOutcome`, `RightPlace` | the outcome is the caller's own, and the place the locked one |
| `RpaShell_proofs` | `EndedRunsHaveNoLock`, `ClientsHaveNoLock` | `EndReleases`, `ClientsLeaveTheLock` | who has ended has no lock; clients do not touch it |
| | `RunsLockOnce` | `LocksOnce` | a run locks anew only when its last process can no longer get the lock |
| `RpaGui_proofs` | `WindowNeverBlocks` | `NeverBlocks` | Tk never waits for a message that does not come |
| | `NoProcessForgotten`, `MainScreenIsFree` | `NoOrphan`, `MainScreenFree` | no lock process is forgotten, unless a thread comes too late |
| | `WindowNeverStuck` | `NeverStuck` | something can be clicked, or something goes on |

Each module also has `TypeCorrect`, and the lemmas on sequences and counting that it needs.
These are all the safety invariants and action properties of the runs and all refinements.

What the proofs assume. Of the constants, the `ASSUME`s of the modules: sizes are natural numbers,
sets are disjoint where the code compares their members, and two that say something:
`TimingAssumption` of `Cache` (see there), and `LinesAssumption` of `CommandExecutor`, that no command
prints the separator, a constant string that the code makes up (`rpa_tools/ssh.py:49`). The
theorems of `PlaceLock` have the hypothesis that the server sends no INFO to a holder, because the
code takes an INFO for the loss of the place; the run has the same. No proof uses
fairness.

FIFO. The contents are a sequence read off the RAM between the two pointers, whose length is
`pointer_diff`. The invariant says that the pointers' distance modulo `Size` is that length
modulo `Size`, and that `full` or `empty` decide the case where the pointers are equal. A tick
is then a case split on read and write, with lemmas about the successor of an address. The wrapper
derives its read request from `empty`, so a step of it is a legal step of the FIFO, whose invariant it
inherits; the abstract queue is the shown word in front of the contents.

Cache. `RequestHeld` and `ReadsFindMemoryIdle` are not inductive. `IInv` adds `RequestShape` (a
request is a load or a store, and a withdrawn one keeps its address), `MemoryQuiet` (a bound on
the busy time that shrinks as the request moves on: it is here that the two cycles a store may
take are needed) and `Phases` (what each state of the state machine knows: the line is invalid
while it is being replaced, the evicted word is at the RAM's output, the word that was fetched
is the memory's). One lemma per action shows that the action preserves it; the refinement has
the same cases: a step of the cache is a store, a load or a wait of `AtomicMemory`.

Pipeline. `IInv` says that fetch, decode and exec hold instructions of `imem` at consecutive
addresses (`Fetched`, `InDecode`, `InExec`; a flushed stage holds a NOP), and `HasItsOperands`: what exec
has read is what the register file holds now, or MEM or WB is about to write that register, in
which case it is forwarded; and no load in MEM is one that exec depends on, which is what the
load-use stall is for. With that, `Fwd` yields the operand of the sequential machine, and the four
actions are either a step of `Isa` (exec hands an instruction to MEM) or a stutter.

DualShock. Both ends count the bytes of a packet, and `slipped` is the history of an acknowledge in the
cycle of its timeout. `Together` says that until then they count alike in each state of the
interface, `IdKnown` that it knows mode and length once it needs them, and `NotBehind`, which holds
always, that the controller is never the one that lags. `Received` places each byte of data in the
shift register by its number, and `Waiting` is what is left of it when the packet is shown.

CommandExecutor. The pipes of an executor never hold more than a line and the separator behind
it: `PipesOf` gives, for each step of its thread, the ways these two can be spread over input, output
and what has been read, with the end cut off if the process has died (`Arriving`). Hence what has been
read at the separator is the command's own line or nothing. The second half follows a command:
nowhere before it is queued, then in the queue or the hands of the executor its client has read, once,
and nowhere when its event is set.

PlaceLock. Three layers. `Talk`: what a process has said so far, read or not, is the beginning of a
conversation the protocol allows, and its last word tells the state of the process. `ThreadsInOrder`,
`SettledFirst`, `PastGrant`: threads are started in order, `t_rpa` is the latest or none, and
whenever one can be started all earlier ones are settled; in `rpa_shell` this needs that a caller that
comes back has read the last word of each. `Outcomes`, `LockHeld`, `HostsSaid`, `PlaceKnown`: whose the
shared outcome is, and that the host in it is the locked one. `Phases` ties these to the steps of
the two users. The two programs need different parts of it; neither needs the other's.

RpaShell. Who has the lock runs a process that has been assigned it and whose thread knows;
only masters run one; and a run that is over, or has not asked, has none. The one subtle conjunct,
`StartedInCall`, is about a call of `Place` that begins while its run is ending. For `LocksOnce`,
`AsksInCall` says that a process that may yet get the lock belongs to a call that still waits for its
outcome, or to a run that is ending or whose thread has failed, so that nobody calls again;
`OutcomeTells` says what the outcome tells of the process.

RpaGui. Three invariants, one on top of the other. `NeverBlocks` counts the events that take a message
against the messages; with the types, and with the fact that the user's one click waits to be handled
(`OneClick`), it is inductive. `Owned` adds `OneCalls` to `NoOrphan`: a thread that is about to start a lock
process is the latest, and no other process asks; in an idle state nobody does. `GoesOn` is what
`NeverStuck` needs: the frame shown is that of the state (`FrameFits`), and a state that shows no
button has a thread, an event or a box that will leave it. `OneCalls` was not inductive at first, and the
reason was in the program: the second way of `overtaken`, which no run had reached.

`ReadsInOrder` says that a read delivers the oldest word, `FillLevelCorrect` that `pointer_diff` counts
the stored words; no run has them: the one follows from `IsFifo`, the other is what `half_full` in
`FlagsSafe` is computed from. `TypeOK` of `RpaShell` is part of a run because it says who shows the menu.

Only model-checked: the liveness properties, `NeverStallsForGood`, `KeepsRetiring`, `BecomesAnalog`,
`WokenOrStranded`, `EveryPlaceCallEnds`, `EveryAttemptEnds`, `RefreshResumes`, `WaitingServed`,
`ConnectedServed`, `EveryRunStarts`, `EndsWhenAsked`, `LossNoticed`. They rest on fairness, that is on
ENABLED, which the prover does not handle. `PreparesAPlace` is violated, by a run.

## 6. Not modelled

- A reset in mid-run: it invalidates dirty lines while the memory keeps its words, so stores are
  lost; nothing in the code says otherwise.
- Byte order and sign extension of `memu`, misaligned accesses (the exceptions are left open),
  shifts and logical operations of the ALU, unaligned jump targets.
- stderr of the ssh process, a pipe nobody reads: full, it blocks the remote side.
- The instruction memory in the first cycle after a reset, in which fetch advances without a
  request (`ca/miriv/vhdl/fetch.vhd:83`): no stall is assumed there.
- What the GUI draws, the settings' contents, the local web server and the ssh command lines; the
  end of the program while a box is open; how long a program whose window is closed waits for a
  webserver under another instance's lock (`stop()` does not end it, `rpa_tools/rpa_gui.py:139`).
- The precompiled parts (memories, UART, debug port, audio, VGA, PLL, decimal printer), test
  benches, test data generators, boot images, reports.
- Everything listed as `not_modelled` in `PROJECT.json`; see the plan.

## 7. Plan

Done: FIFO and its wrapper, cache, command executor, pipeline, place lock, GUI, shell, DualShock;
proofs of all their safety properties and refinements. Next, the most important first:

1. `ShotCtrl`, `SiField` and the frame loop of `game_ex2`: a shot hits what the field holds, a
   frame fits into the graphics FIFO and ends. `SsdCtrl`: conversions end and show the number.
2. `Core`: pipeline and cache composed, the memory assumptions of `Pipeline` discharged by
   `Cache` instead of stated.
3. An abstract specification of the user's lock, which `PlaceLock` implements and on which `RpaGui` and
   `RpaShell` rest, in place of their coarser steps.
