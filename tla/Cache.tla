------------------------------- MODULE Cache ---------------------------------
(***************************************************************************)
(* The data path of a load or a store in ca/miriv: the MEM stage of the    *)
(* pipeline (mem.vhd, memu.vhd), the direct-mapped write-back cache        *)
(* (cache.vhd, architecture impl, with data_st and mgmt_st) and the memory *)
(* behind it, which is not part of the repository.                         *)
(*                                                                         *)
(* One step is one rising clock edge.  Busy, RdData and Stall are the      *)
(* combinational signals of the cycle before the edge; every action is one *)
(* branch of the process "logic" of cache.vhd and gives all registers      *)
(* their next value.                                                       *)
(***************************************************************************)
EXTENDS Integers, FiniteSets

CONSTANTS Tags, Indices,  \* a cached address is a tag and an index
          Devices,        \* addresses outside ADDR_MASK: never cached
          Lanes, Bytes,   \* a word is a byte in every lane
          Patterns,       \* the byte enables memu can produce
          Blank,          \* the byte 0
          ReadDelay,      \* most cycles the memory is busy with a read
          WriteDelay,     \* most cycles the memory is busy with a write
          FetchDelay      \* most cycles an instruction fetch is late

Cached  == Tags \X Indices
Address == Cached \cup Devices
Word    == [Lanes -> Bytes]
Zeros   == [l \in Lanes |-> Blank]

MergeWord(old, new, lanes) == new   \* a mutant: byteena ignored

Merge(old, new, lanes) == [l \in Lanes |-> IF l \in lanes THEN new[l] ELSE old[l]]

ASSUME AddressAssumption ==
  /\ Tags # {} /\ Indices # {}
  /\ Cached \cap Devices = {}
  /\ \A p \in Patterns : p \subseteq Lanes
  /\ Blank \in Bytes

(***************************************************************************)
(* What the design needs of its surroundings and nothing in it checks.  A  *)
(* store that misses does not wait for the memory, so the memory has to be *)
(* ready again before a load that follows can ask for anything: two cycles *)
(* later behind the cache, at once behind the device bypass.  The result   *)
(* of a load is on the bus for one cycle only, so the instruction fetch    *)
(* must not be the reason for a stall in that cycle.                       *)
(***************************************************************************)
ASSUME TimingAssumption ==
  /\ ReadDelay \in Nat /\ WriteDelay \in 0 .. 2 /\ FetchDelay \in 0 .. 1
  /\ Devices # {} => WriteDelay = 0

VARIABLES
  req,       \* the MEM stage: memread, memwrite, load, address, byteena, wrdata
  result,    \* what WB has taken from the latest load
  fetching,  \* cycles for which mem_i_in.busy stays set
  fsm,       \* state.fsm_state
  saved,     \* state.cpu_to_cache.address
  tag_wb,    \* state.tag_wb
  mgmt,      \* mgmt_st: valid, dirty and tag of every set
  ram,       \* data_st: the word of every set
  rd_index,  \* data_st: the set read at the last edge, if any
  mem,       \* the memory: its words,
  mem_busy,  \*   the cycles for which busy stays set,
  mem_rddata \*   the word of the latest read

cacheVars == << fsm, saved, tag_wb, mgmt, ram, rd_index >>
cpuVars   == << req, result, fetching >>
memVars   == << mem, mem_busy, mem_rddata >>
vars      == << cpuVars, cacheVars, memVars >>

None == << >>

State == {"IDLE", "READ_CACHE", "READ_MEM_START", "READ_MEM",
          "WRITE_BACK_START", "WRITE_BACK"}

-----------------------------------------------------------------------------
(***************************************************************************)
(* The combinational signals.                                              *)
(***************************************************************************)
uncached == req.address \in Devices
tag      == req.address[1]
index    == req.address[2]
hit      == mgmt[index].valid /\ mgmt[index].tag = tag
data_out == IF rd_index = None THEN Zeros ELSE ram[rd_index[1]]

\* mem_to_cache.rddata, of no use while the memory is busy
mem_out == IF mem_busy > 0 THEN Zeros ELSE mem_rddata

\* cache_to_cpu.busy: the state machine's, overruled by the bypass
CacheBusy == CASE fsm = "IDLE"       -> req.memread
               [] fsm = "READ_CACHE" -> ~hit
               [] fsm = "READ_MEM"   -> mem_busy > 0
               [] OTHER              -> TRUE

BusyCached == ~uncached /\ CacheBusy   \* a mutant: nobody waits for a device

Busy == IF uncached THEN mem_busy > 0 ELSE CacheBusy

\* cache_to_cpu.rddata
RdData == IF uncached THEN mem_out
          ELSE IF fsm = "READ_CACHE" /\ hit THEN data_out
          ELSE IF fsm = "READ_MEM" /\ mem_busy = 0 THEN mem_out
          ELSE Zeros

\* the stall of the whole pipeline, memu's B and the fetch stage's busy
Stall == Busy \/ req.memread \/ fetching > 0

-----------------------------------------------------------------------------
(***************************************************************************)
(* The MEM and WB stages at a clock edge.  A stalled MEM stage keeps the   *)
(* address but withdraws its request; otherwise WB takes the result and    *)
(* the next instruction arrives, with a new fetch under way.               *)
(***************************************************************************)
Instruction(rd, wr, a, p, w) ==
  [memread |-> rd, memwrite |-> wr, load |-> rd, address |-> a, byteena |-> p, wrdata |-> w]

\* any instruction of a program: a load, a store, or none of both
NextInstruction ==
  \E a \in Address :
    \/ \E rd \in BOOLEAN : req' = Instruction(rd, FALSE, a, {}, Zeros)
    \/ \E p \in Patterns, w \in Word : req' = Instruction(FALSE, TRUE, a, p, w)

Hold    == /\ fetching' = IF fetching > 0 THEN fetching - 1 ELSE 0
           /\ UNCHANGED result

Advance == /\ result' = IF req.load THEN << req.address, RdData >> ELSE result
           /\ NextInstruction
           /\ fetching' \in 0 .. FetchDelay

\* a mutant: the request stays on the bus
PipelineRepeats == IF Stall THEN Hold /\ UNCHANGED req ELSE Advance

Pipeline ==
  IF Stall THEN Hold /\ req' = [req EXCEPT !.memread = FALSE, !.memwrite = FALSE]
           ELSE Advance

(***************************************************************************)
(* The memory at a clock edge.  It takes a write at any time and a read    *)
(* when it is not busy.  Its word is on rddata when busy is gone, and      *)
(* stays there until the next read.                                        *)
(***************************************************************************)
MemIdle == /\ mem_busy' = IF mem_busy > 0 THEN mem_busy - 1 ELSE 0
           /\ UNCHANGED << mem, mem_rddata >>

MemRead(a) == IF mem_busy > 0 THEN MemIdle
              ELSE /\ mem_rddata' = mem[a]
                   /\ mem_busy' \in 0 .. ReadDelay
                   /\ UNCHANGED mem

MemWrite(a, lanes, w) == /\ mem' = [mem EXCEPT ![a] = Merge(@, w, lanes)]
                         /\ mem_busy' \in 0 .. WriteDelay
                         /\ UNCHANGED mem_rddata

-----------------------------------------------------------------------------
\* a mutant: the wrong slice of the address
SetLineIndex(i, valid, dirty) ==
  mgmt' = [mgmt EXCEPT ![i] = [valid |-> valid, dirty |-> dirty, tag |-> index]]

\* mgmt_st writes the tag of the address that is on the bus
SetLine(i, valid, dirty) ==
  mgmt' = [mgmt EXCEPT ![i] = [valid |-> valid, dirty |-> dirty, tag |-> tag]]

Goto(s) == fsm' = s

\* an instruction that does not access memory, or the rest of a stall
Idle ==
  /\ ~uncached /\ fsm = "IDLE" /\ ~req.memread /\ ~req.memwrite
  /\ rd_index' = None
  /\ UNCHANGED << fsm, saved, tag_wb, mgmt, ram >>
  /\ MemIdle
  /\ Pipeline

\* a mutant: the line is not marked dirty
WriteHitClean ==
  /\ ~uncached /\ fsm = "IDLE" /\ req.memwrite /\ hit
  /\ SetLine(index, TRUE, FALSE)
  /\ ram' = [ram EXCEPT ![index] = Merge(@, req.wrdata, req.byteena)]
  /\ rd_index' = None
  /\ UNCHANGED << fsm, saved, tag_wb >>
  /\ MemIdle
  /\ Pipeline

WriteHit ==
  /\ ~uncached /\ fsm = "IDLE" /\ req.memwrite /\ hit
  /\ SetLine(index, TRUE, TRUE)
  /\ ram' = [ram EXCEPT ![index] = Merge(@, req.wrdata, req.byteena)]
  /\ rd_index' = None
  /\ UNCHANGED << fsm, saved, tag_wb >>
  /\ MemIdle
  /\ Pipeline

\* no allocation: the store goes past the cache and nobody waits for it
WriteMiss ==
  /\ ~uncached /\ fsm = "IDLE" /\ req.memwrite /\ ~hit
  /\ rd_index' = None
  /\ UNCHANGED << fsm, saved, tag_wb, mgmt, ram >>
  /\ MemWrite(req.address, req.byteena, req.wrdata)
  /\ Pipeline

ReadStart ==
  /\ ~uncached /\ fsm = "IDLE" /\ req.memread
  /\ Goto("READ_CACHE")
  /\ saved' = req.address
  /\ rd_index' = << index >>
  /\ UNCHANGED << tag_wb, mgmt, ram >>
  /\ MemIdle
  /\ Pipeline

ReadHit ==
  /\ ~uncached /\ fsm = "READ_CACHE" /\ hit
  /\ Goto("IDLE")
  /\ rd_index' = None
  /\ UNCHANGED << saved, tag_wb, mgmt, ram >>
  /\ MemIdle
  /\ Pipeline

ReadMissClean ==
  /\ ~uncached /\ fsm = "READ_CACHE" /\ ~hit
  /\ ~(mgmt[index].valid /\ mgmt[index].dirty)
  /\ Goto("READ_MEM_START")
  /\ IF mgmt[index].valid THEN SetLine(index, FALSE, FALSE) ELSE UNCHANGED mgmt
  /\ rd_index' = None
  /\ UNCHANGED << saved, tag_wb, ram >>
  /\ MemIdle
  /\ Pipeline

ReadMissDirty ==
  /\ ~uncached /\ fsm = "READ_CACHE" /\ ~hit
  /\ mgmt[index].valid /\ mgmt[index].dirty
  /\ Goto("WRITE_BACK_START")
  /\ tag_wb' = mgmt[index].tag
  /\ SetLine(index, FALSE, FALSE)
  /\ rd_index' = << index >>
  /\ UNCHANGED << saved, ram >>
  /\ MemIdle
  /\ Pipeline

ReadMemStart ==
  /\ ~uncached /\ fsm = "READ_MEM_START"
  /\ Goto("READ_MEM")
  /\ rd_index' = None
  /\ UNCHANGED << saved, tag_wb, mgmt, ram >>
  /\ MemRead(saved)
  /\ Pipeline

ReadMemWait ==
  /\ ~uncached /\ fsm = "READ_MEM" /\ mem_busy > 0
  /\ rd_index' = None
  /\ UNCHANGED << fsm, saved, tag_wb, mgmt, ram >>
  /\ MemIdle
  /\ Pipeline

ReadMemDone ==
  /\ ~uncached /\ fsm = "READ_MEM" /\ mem_busy = 0
  /\ Goto("IDLE")
  /\ SetLine(index, TRUE, FALSE)
  /\ ram' = [ram EXCEPT ![saved[2]] = mem_out]
  /\ rd_index' = None
  /\ UNCHANGED << saved, tag_wb >>
  /\ MemIdle
  /\ Pipeline

WriteBackStart ==
  /\ ~uncached /\ fsm = "WRITE_BACK_START"
  /\ Goto("WRITE_BACK")
  /\ rd_index' = None
  /\ UNCHANGED << saved, tag_wb, mgmt, ram >>
  /\ MemWrite(<< tag_wb, saved[2] >>, Lanes, data_out)
  /\ Pipeline

WriteBackWait ==
  /\ ~uncached /\ fsm = "WRITE_BACK" /\ mem_busy > 0
  /\ rd_index' = None
  /\ UNCHANGED << fsm, saved, tag_wb, mgmt, ram >>
  /\ MemIdle
  /\ Pipeline

\* a mutant: the memory's busy is not awaited
WriteBackHasty ==
  /\ ~uncached /\ fsm = "WRITE_BACK"
  /\ Goto("READ_MEM_START")
  /\ rd_index' = None
  /\ UNCHANGED << saved, tag_wb, mgmt, ram >>
  /\ MemIdle
  /\ Pipeline

\* a mutant: written back again
WriteBackAgain ==
  /\ ~uncached /\ fsm = "WRITE_BACK" /\ mem_busy = 0
  /\ Goto("WRITE_BACK_START")
  /\ rd_index' = None
  /\ UNCHANGED << saved, tag_wb, mgmt, ram >>
  /\ MemIdle
  /\ Pipeline

WriteBackDone ==
  /\ ~uncached /\ fsm = "WRITE_BACK" /\ mem_busy = 0
  /\ Goto("READ_MEM_START")
  /\ rd_index' = None
  /\ UNCHANGED << saved, tag_wb, mgmt, ram >>
  /\ MemIdle
  /\ Pipeline

\* CACHE BYPASS FOR DEVICE ACCESS: the bus is passed through, the cache rests
Device ==
  /\ uncached
  /\ rd_index' = None
  /\ UNCHANGED << fsm, saved, tag_wb, mgmt, ram >>
  /\ IF req.memread THEN MemRead(req.address)
     ELSE IF req.memwrite THEN MemWrite(req.address, req.byteena, req.wrdata)
     ELSE MemIdle
  /\ Pipeline

\* Address 0, which every address register holds after a reset, is cached.
Origin == CHOOSE a \in Cached : TRUE

\* after a reset; the memory holds whatever the program loader has left there
Init ==
  /\ mem \in [Address -> Word] /\ mem_busy = 0 /\ mem_rddata = Zeros
  /\ req = Instruction(FALSE, FALSE, Origin, {}, Zeros)
  /\ result = None /\ fetching = 0
  /\ fsm = "IDLE" /\ saved = Origin /\ tag_wb = Origin[1] /\ rd_index = None
  /\ mgmt = [i \in Indices |-> [valid |-> FALSE, dirty |-> FALSE, tag |-> Origin[1]]]
  /\ ram = [i \in Indices |-> Zeros]

Next ==
  \/ Idle \/ WriteHit \/ WriteMiss
  \/ ReadStart \/ ReadHit \/ ReadMissClean \/ ReadMissDirty
  \/ ReadMemStart \/ ReadMemWait \/ ReadMemDone
  \/ WriteBackStart \/ WriteBackWait \/ WriteBackDone
  \/ Device

\* the clock never stops
Spec == Init /\ [][Next]_vars /\ WF_vars(Next)

-----------------------------------------------------------------------------
Line  == [valid : BOOLEAN, dirty : BOOLEAN, tag : Tags]
MemOp == [memread : BOOLEAN, memwrite : BOOLEAN, load : BOOLEAN, address : Address,
          byteena : Patterns \cup {{}}, wrdata : Word]

TypeOK ==
  /\ req \in MemOp
  /\ result \in {None} \cup (Address \X Word)
  /\ fetching \in 0 .. FetchDelay
  /\ fsm \in State /\ saved \in Cached /\ tag_wb \in Tags
  /\ mgmt \in [Indices -> Line]
  /\ ram \in [Indices -> Word]
  /\ rd_index \in {None} \cup {<< i >> : i \in Indices}
  /\ mem \in [Address -> Word]
  /\ mem_busy \in Nat
  /\ mem_rddata \in Word

(***************************************************************************)
(* The word the program sees at an address: in the line that holds it, on  *)
(* the way out of an evicted line, or else in the memory.                  *)
(***************************************************************************)
InLine(a) == a \in Cached /\ mgmt[a[2]].valid /\ mgmt[a[2]].tag = a[1]

Leaving(a) == fsm = "WRITE_BACK_START" /\ a = << tag_wb, saved[2] >>

Seen(a) == IF InLine(a) THEN ram[a[2]] ELSE IF Leaving(a) THEN data_out ELSE mem[a]

Visible == [a \in Address |-> Seen(a)]

(***************************************************************************)
(* Through all misses, evictions and write-backs, and however long the     *)
(* memory takes, the program sees one atomic memory: the store in the MEM  *)
(* stage changes the bytes it names and nothing else ever changes, a load  *)
(* waits for its word, and the word WB takes is the one visible at that    *)
(* address.                                                                *)
(***************************************************************************)
Abstract == INSTANCE AtomicMemory WITH mem <- Visible
IsAtomicMemory == Abstract!Spec

(***************************************************************************)
(* A valid line that is not dirty equals the memory, which is why          *)
(* READ_CACHE may drop it without a write-back.                            *)
(***************************************************************************)
CleanLinesCoherent ==
  \A i \in Indices : mgmt[i].valid /\ ~mgmt[i].dirty => ram[i] = mem[<< mgmt[i].tag, i >>]

(***************************************************************************)
(* The process "logic" looks up the line and drives mgmt_st from the live  *)
(* address of the MEM stage, but fetches and evicts with the saved one: in *)
(* every state but IDLE they are the same cached address, and the MEM      *)
(* stage is waiting for a load there without a request of its own.         *)
(***************************************************************************)
RequestHeld ==
  fsm # "IDLE" => /\ req.address = saved /\ req.load
                  /\ ~req.memread /\ ~req.memwrite

(***************************************************************************)
(* READ_MEM_START does not look at the memory's busy, nor does a request   *)
(* that passes the cache: the memory is always idle by then, so no read is *)
(* lost.                                                                   *)
(***************************************************************************)
ReadsFindMemoryIdle ==
  fsm = "READ_MEM_START" \/ (uncached /\ req.memread) => mem_busy = 0

(***************************************************************************)
(* The pipeline never stalls for good: no sequence of hits, misses and     *)
(* write-backs leaves the MEM stage waiting for a word that will not come. *)
(***************************************************************************)
NeverStallsForGood == []<>~Stall
=============================================================================
