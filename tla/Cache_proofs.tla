---------------------------- MODULE Cache_proofs -----------------------------
(***************************************************************************)
(* Proofs about Cache, for any number of tags, sets, devices, byte lanes   *)
(* and byte values, and for every memory and fetch delay that meets        *)
(* TimingAssumption.                                                       *)
(***************************************************************************)
EXTENDS Cache, TLAPS

-----------------------------------------------------------------------------
(***************************************************************************)
(* Types.                                                                  *)
(***************************************************************************)
LEMMA OriginType == Origin \in Cached
  <1>1. \E a \in Cached : TRUE
    <2>1. PICK t \in Tags, i \in Indices : TRUE
      BY AddressAssumption
    <2>2. << t, i >> \in Cached
      BY <2>1 DEF Cached
    <2> QED
      BY <2>2
  <1> QED
    BY <1>1 DEF Origin

LEMMA ZerosType == Zeros \in Word
  BY AddressAssumption DEF Zeros, Word

LEMMA MergeType ==
  ASSUME NEW old \in Word, NEW new \in Word, NEW lanes
  PROVE  Merge(old, new, lanes) \in Word
  BY DEF Merge, Word

LEMMA CachedAddress ==
  ASSUME TypeOK, ~uncached
  PROVE  req.address \in Cached /\ tag \in Tags /\ index \in Indices
  BY DEF TypeOK, MemOp, uncached, tag, index, Address, Cached

LEMMA BusTypes ==
  ASSUME TypeOK
  PROVE  data_out \in Word /\ mem_out \in Word /\ RdData \in Word
  <1>1. data_out \in Word /\ mem_out \in Word
    BY ZerosType DEF TypeOK, data_out, mem_out
  <1> QED
    BY <1>1, ZerosType DEF TypeOK, RdData

LEMMA InstructionType == NextInstruction => req' \in MemOp
  <1>1. ASSUME NEW rd \in BOOLEAN, NEW a \in Address
        PROVE  Instruction(rd, FALSE, a, {}, Zeros) \in MemOp
    BY ZerosType DEF Instruction, MemOp
  <1>2. ASSUME NEW a \in Address, NEW p \in Patterns, NEW w \in Word
        PROVE  Instruction(FALSE, TRUE, a, p, w) \in MemOp
    BY DEF Instruction, MemOp
  <1> QED
    BY <1>1, <1>2 DEF NextInstruction

LEMMA PipelineType ==
  ASSUME TypeOK, Pipeline
  PROVE  /\ req' \in MemOp
         /\ result' \in {None} \cup (Address \X Word)
         /\ fetching' \in 0 .. FetchDelay
  <1>1. FetchDelay \in Nat
    BY TimingAssumption
  <1>2. CASE Stall
    <2>1. req' \in MemOp
      BY <1>2 DEF TypeOK, Pipeline, Hold, Advance, MemOp
    <2>2. fetching' \in 0 .. FetchDelay
      BY <1>1, <1>2 DEF TypeOK, Pipeline, Hold, Advance
    <2> QED
      BY <1>2, <2>1, <2>2 DEF TypeOK, Pipeline, Hold, Advance
  <1>3. CASE ~Stall
    <2>1. req' \in MemOp /\ fetching' \in 0 .. FetchDelay
      BY <1>3, InstructionType DEF Pipeline, Hold, Advance
    <2>2. << req.address, RdData >> \in Address \X Word
      BY BusTypes DEF TypeOK, MemOp
    <2> QED
      BY <1>3, <2>1, <2>2 DEF TypeOK, Pipeline, Hold, Advance
  <1> QED
    BY <1>2, <1>3

LEMMA MemoryType ==
  ASSUME TypeOK,
         \/ MemIdle
         \/ \E a \in Address : MemRead(a)
         \/ \E a \in Address, lanes \in SUBSET Lanes, w \in Word : MemWrite(a, lanes, w)
  PROVE  mem' \in [Address -> Word] /\ mem_busy' \in Nat /\ mem_rddata' \in Word
  <1>1. CASE MemIdle
    BY <1>1 DEF TypeOK, MemIdle
  <1>2. CASE \E a \in Address : MemRead(a)
    BY <1>2, TimingAssumption DEF TypeOK, MemRead, MemIdle
  <1>3. CASE \E a \in Address, lanes \in SUBSET Lanes, w \in Word : MemWrite(a, lanes, w)
    BY <1>3, TimingAssumption, MergeType DEF TypeOK, MemWrite
  <1> QED
    BY <1>1, <1>2, <1>3

LEMMA TypeStep == TypeOK /\ [Next]_vars => TypeOK'
  <1> SUFFICES ASSUME TypeOK, [Next]_vars PROVE TypeOK'
    OBVIOUS
  <1> USE DEF State, Goto
  <1>1. CASE UNCHANGED vars
    BY <1>1 DEF vars, cpuVars, cacheVars, memVars, TypeOK
  <1>2. ASSUME Pipeline,
               fsm' \in State, saved' \in Cached, tag_wb' \in Tags,
               mgmt' \in [Indices -> Line], ram' \in [Indices -> Word],
               rd_index' \in {None} \cup {<< i >> : i \in Indices},
               \/ MemIdle
               \/ \E a \in Address : MemRead(a)
               \/ \E a \in Address, lanes \in SUBSET Lanes, w \in Word : MemWrite(a, lanes, w)
        PROVE  TypeOK'
    BY <1>2, PipelineType, MemoryType DEF TypeOK
  <1>3. ASSUME ~uncached, NEW valid \in BOOLEAN, NEW dirty \in BOOLEAN,
               SetLine(index, valid, dirty)
        PROVE  mgmt' \in [Indices -> Line]
    BY <1>3, CachedAddress DEF TypeOK, SetLine, Line
  <1>4. CASE Idle
    BY <1>2, <1>4 DEF Idle, TypeOK
  <1>5. CASE WriteHit
    <2>1. mgmt' \in [Indices -> Line]
      BY <1>3, <1>5 DEF WriteHit
    <2>2. ram' \in [Indices -> Word]
      BY <1>5, MergeType DEF WriteHit, TypeOK, MemOp
    <2> QED
      BY <1>2, <1>5, <2>1, <2>2 DEF WriteHit, TypeOK
  <1>6. CASE WriteMiss
    <2>1. req.byteena \in SUBSET Lanes
      BY AddressAssumption DEF TypeOK, MemOp
    <2> QED
      BY <1>2, <1>6, <2>1 DEF WriteMiss, TypeOK, MemOp
  <1>7. CASE ReadStart
    BY <1>2, <1>7, CachedAddress DEF ReadStart, TypeOK
  <1>8. CASE ReadHit
    BY <1>2, <1>8 DEF ReadHit, TypeOK
  <1>9. CASE ReadMissClean
    <2>1. mgmt' \in [Indices -> Line]
      BY <1>3, <1>9 DEF ReadMissClean, TypeOK
    <2> QED
      BY <1>2, <1>9, <2>1 DEF ReadMissClean, TypeOK
  <1>10. CASE ReadMissDirty
    <2>1. mgmt' \in [Indices -> Line]
      BY <1>3, <1>10 DEF ReadMissDirty
    <2>2. tag_wb' \in Tags
      BY <1>10, CachedAddress DEF ReadMissDirty, TypeOK, Line
    <2> QED
      BY <1>2, <1>10, <2>1, <2>2, CachedAddress DEF ReadMissDirty, TypeOK
  <1>11. CASE ReadMemStart
    BY <1>2, <1>11 DEF ReadMemStart, TypeOK, Address
  <1>12. CASE ReadMemWait
    BY <1>2, <1>12 DEF ReadMemWait, TypeOK
  <1>13. CASE ReadMemDone
    <2>1. mgmt' \in [Indices -> Line]
      BY <1>3, <1>13 DEF ReadMemDone
    <2> QED
      BY <1>2, <1>13, <2>1, BusTypes DEF ReadMemDone, TypeOK
  <1>14. CASE WriteBackStart
    <2>1. << tag_wb, saved[2] >> \in Address
      BY DEF TypeOK, Address, Cached
    <2> QED
      BY <1>2, <1>14, <2>1, BusTypes DEF WriteBackStart, TypeOK
  <1>15. CASE WriteBackWait
    BY <1>2, <1>15 DEF WriteBackWait, TypeOK
  <1>16. CASE WriteBackDone
    BY <1>2, <1>16 DEF WriteBackDone, TypeOK
  <1>17. CASE Device
    <2>1. req.byteena \in SUBSET Lanes
      BY AddressAssumption DEF TypeOK, MemOp
    <2> QED
      BY <1>2, <1>17, <2>1 DEF Device, TypeOK, MemOp
  <1> QED
    BY <1>1, <1>4, <1>5, <1>6, <1>7, <1>8, <1>9, <1>10, <1>11, <1>12, <1>13,
       <1>14, <1>15, <1>16, <1>17 DEF Next

LEMMA TypeInit == Init => TypeOK
  BY OriginType, ZerosType, TimingAssumption
  DEF Init, TypeOK, MemOp, Instruction, Cached, Address, State, Line

(***************************************************************************)
(* The inductive invariant.  Its parts say which request the MEM stage can *)
(* have, how busy the memory can still be, and what each state of the      *)
(* cache's state machine has already established.                          *)
(***************************************************************************)
RequestShape ==
  /\ req.memread => req.load
  /\ req.memwrite => ~req.load /\ req.byteena \in Patterns
  /\ req.load /\ ~req.memread /\ fsm = "IDLE" => uncached /\ mem_rddata = mem[req.address]
  /\ req.load /\ ~req.memread => fetching = 0

\* while the MEM stage waits for a device nothing is known of mem_busy
MemoryQuiet ==
  /\ fsm = "IDLE" /\ ~(req.load /\ ~req.memread) => mem_busy <= WriteDelay
  /\ fsm = "READ_CACHE" => mem_busy <= 1
  /\ fsm = "READ_MEM_START" => mem_busy = 0

Phases ==
  /\ fsm \in {"READ_CACHE", "WRITE_BACK_START"} => rd_index = << saved[2] >>
  /\ fsm \notin {"IDLE", "READ_CACHE"} => ~mgmt[saved[2]].valid
  /\ fsm = "READ_MEM" => mem_rddata = mem[saved]

IInv == /\ TypeOK /\ RequestHeld /\ CleanLinesCoherent
        /\ RequestShape /\ MemoryQuiet /\ Phases

LEMMA InvInit == Init => IInv
  BY TypeInit, TimingAssumption
  DEF Init, IInv, RequestHeld, CleanLinesCoherent, RequestShape, MemoryQuiet, Phases, Instruction

-----------------------------------------------------------------------------
(***************************************************************************)
(* What a clock edge does to the MEM stage, stalled or not.                *)
(***************************************************************************)
LEMMA Stalled ==
  ASSUME TypeOK, Pipeline, Stall
  PROVE  /\ req'.address = req.address /\ req'.load = req.load
         /\ req'.byteena = req.byteena
         /\ ~req'.memread /\ ~req'.memwrite
         /\ fetching' = IF fetching > 0 THEN fetching - 1 ELSE 0
         /\ result' = result
  BY DEF TypeOK, MemOp, Pipeline, Hold, Advance

LEMMA Advancing ==
  ASSUME TypeOK, Pipeline, ~Stall
  PROVE  /\ req'.load = req'.memread
         /\ req'.memwrite => ~req'.load /\ req'.byteena \in Patterns
         /\ result' = IF req.load THEN << req.address, RdData >> ELSE result
  <1>1. result' = IF req.load THEN << req.address, RdData >> ELSE result
    BY DEF Pipeline, Hold, Advance
  <1>2. PICK a \in Address :
          \/ \E rd \in BOOLEAN : req' = Instruction(rd, FALSE, a, {}, Zeros)
          \/ \E p \in Patterns, w \in Word : req' = Instruction(FALSE, TRUE, a, p, w)
    BY DEF Pipeline, Hold, Advance, NextInstruction
  <1>3. CASE \E rd \in BOOLEAN : req' = Instruction(rd, FALSE, a, {}, Zeros)
    BY <1>1, <1>3 DEF Instruction
  <1>4. CASE \E p \in Patterns, w \in Word : req' = Instruction(FALSE, TRUE, a, p, w)
    BY <1>1, <1>4 DEF Instruction
  <1> QED
    BY <1>2, <1>3, <1>4

LEMMA Resting ==
  ASSUME TypeOK, MemIdle
  PROVE  /\ mem' = mem /\ mem_rddata' = mem_rddata
         /\ mem_busy' \in Nat /\ mem_busy' <= mem_busy
         /\ mem_busy <= 1 => mem_busy' = 0
  BY DEF TypeOK, MemIdle

\* The parts of IInv, one lemma for each kind of step.
LEMMA IdleInv ==
  ASSUME IInv, Idle PROVE RequestHeld' /\ RequestShape' /\ MemoryQuiet'
  <1> USE DEF IInv
  <1>1. ~req.load /\ fsm = "IDLE" /\ fsm' = "IDLE" /\ Pipeline /\ MemIdle
    BY DEF Idle, RequestShape
  <1>2. mem_busy' <= WriteDelay
    <2>1. mem_busy <= WriteDelay
      BY <1>1 DEF MemoryQuiet
    <2> QED
      BY <1>1, <2>1, Resting, TimingAssumption DEF TypeOK
  <1>3. CASE Stall
    BY <1>1, <1>2, <1>3, Stalled DEF RequestHeld, RequestShape, MemoryQuiet
  <1>4. CASE ~Stall
    BY <1>1, <1>2, <1>4, Advancing DEF RequestHeld, RequestShape, MemoryQuiet
  <1> QED
    BY <1>3, <1>4

LEMMA WriteInv ==
  ASSUME IInv, WriteHit \/ WriteMiss PROVE RequestHeld' /\ RequestShape' /\ MemoryQuiet'
  <1> USE DEF IInv
  <1>1. ~req.load /\ fsm' = "IDLE" /\ mem_busy' <= WriteDelay
    <2>1. ~req.load /\ fsm = "IDLE" /\ fsm' = "IDLE"
      BY DEF WriteHit, WriteMiss, RequestShape
    <2>2. CASE WriteHit
      <3>1. mem_busy <= WriteDelay /\ MemIdle
        BY <2>1, <2>2 DEF WriteHit, MemoryQuiet
      <3> QED
        BY <2>1, <3>1, Resting, TimingAssumption DEF TypeOK
    <2>3. CASE WriteMiss
      BY <2>1, <2>3, TimingAssumption DEF WriteMiss, MemWrite
    <2> QED
      BY <2>2, <2>3
  <1>2. Pipeline
    BY DEF WriteHit, WriteMiss
  <1>3. CASE Stall
    BY <1>1, <1>2, <1>3, Stalled DEF RequestHeld, RequestShape, MemoryQuiet
  <1>4. CASE ~Stall
    BY <1>1, <1>2, <1>4, Advancing DEF RequestHeld, RequestShape, MemoryQuiet
  <1> QED
    BY <1>3, <1>4

LEMMA ReadStartInv ==
  ASSUME IInv, ReadStart
  PROVE  RequestHeld' /\ RequestShape' /\ MemoryQuiet' /\ Phases'
  <1> USE DEF IInv, Goto
  <1>1. Stall /\ req.load
    BY DEF ReadStart, Stall, RequestShape
  <1>2. fetching' = 0
    <2>1. fetching' = IF fetching > 0 THEN fetching - 1 ELSE 0
      BY <1>1, Stalled DEF ReadStart
    <2> QED
      BY <2>1, TimingAssumption DEF TypeOK
  <1>3. fsm' = "READ_CACHE" /\ saved' = req.address /\ rd_index' = << index >>
    BY DEF ReadStart
  <1>4. mem_busy' <= 1
    <2>1. mem_busy <= WriteDelay /\ MemIdle
      BY DEF ReadStart, MemoryQuiet
    <2> QED
      BY <2>1, TimingAssumption DEF MemIdle, TypeOK
  <1> QED
    BY <1>1, <1>2, <1>3, <1>4, Stalled
    DEF ReadStart, RequestHeld, RequestShape, MemoryQuiet, Phases, index

\* the MEM stage holds still while the cache works for it
LEMMA WaitInv ==
  ASSUME IInv, fsm # "IDLE", fsm' # "IDLE", saved' = saved, Pipeline, Stall
  PROVE  RequestHeld' /\ RequestShape'
  BY Stalled DEF IInv, RequestHeld, RequestShape, TypeOK

\* the word is there, the MEM stage takes it and the next instruction comes
LEMMA DoneInv ==
  ASSUME IInv, ReadHit \/ ReadMemDone
  PROVE  ~Stall /\ RequestHeld' /\ RequestShape' /\ MemoryQuiet'
  <1> USE DEF IInv, Goto
  <1>1. Pipeline /\ fsm' = "IDLE"
    BY DEF ReadHit, ReadMemDone
  <1>2. ~req.memread /\ req.load /\ fetching = 0
    BY DEF ReadHit, ReadMemDone, RequestHeld, RequestShape
  <1>3. ~Busy
    <2>1. CASE ReadHit
      BY <2>1 DEF ReadHit, Busy, CacheBusy
    <2>2. CASE ReadMemDone
      BY <2>2 DEF ReadMemDone, Busy, CacheBusy
    <2> QED
      BY <2>1, <2>2
  <1>4. ~Stall
    BY <1>2, <1>3 DEF Stall
  <1>5. mem_busy' = 0
    <2>1. CASE ReadHit
      BY <2>1, Resting DEF ReadHit, MemoryQuiet
    <2>2. CASE ReadMemDone
      <3>1. mem_busy <= 1
        BY <2>2 DEF ReadMemDone
      <3> QED
        BY <2>2, <3>1, Resting DEF ReadMemDone
    <2> QED
      BY <2>1, <2>2
  <1> QED
    BY <1>1, <1>4, <1>5, Advancing, TimingAssumption
    DEF RequestHeld, RequestShape, MemoryQuiet

LEMMA DeviceInv ==
  ASSUME IInv, Device PROVE RequestHeld' /\ RequestShape' /\ MemoryQuiet' /\ fsm = "IDLE"
  <1> USE DEF IInv
  <1>1. fsm = "IDLE" /\ fsm' = "IDLE"
    BY AddressAssumption DEF Device, RequestHeld, TypeOK, uncached
  <1>2. WriteDelay = 0 /\ req.address \in Devices
    BY TimingAssumption DEF Device, uncached
  <1>3. CASE req.memread
    <2>1. mem_busy = 0 /\ req.load
      BY <1>1, <1>2, <1>3 DEF MemoryQuiet, RequestShape, TypeOK
    <2>2. mem_rddata' = mem'[req.address]
      BY <1>3, <2>1 DEF Device, MemRead
    <2>3. Stall /\ Pipeline
      BY <1>3 DEF Device, Stall
    <2>4. fetching' = 0
      BY <2>3, Stalled, TimingAssumption DEF TypeOK
    <2> QED
      BY <1>1, <1>2, <2>1, <2>2, <2>3, <2>4, Stalled
      DEF RequestHeld, RequestShape, MemoryQuiet, uncached
  <1>4. CASE ~req.memread /\ req.load
    <2>1. ~req.memwrite /\ MemIdle /\ Pipeline
      BY <1>4 DEF Device, RequestShape
    <2>2. mem_rddata = mem[req.address] /\ fetching = 0
      BY <1>1, <1>4 DEF RequestShape
    <2>3. CASE Stall
      <3>1. req'.load /\ ~req'.memread /\ ~req'.memwrite /\ fetching' = 0
        <4>1. fetching' = IF fetching > 0 THEN fetching - 1 ELSE 0
          BY <2>1, <2>3, Stalled
        <4>2. fetching' = 0
          BY <2>2, <4>1
        <4> QED
          BY <1>4, <2>1, <2>3, <4>2, Stalled
      <3>2. uncached' /\ mem_rddata' = mem'[req'.address]
        BY <1>2, <2>1, <2>2, <2>3, Stalled, Resting DEF uncached
      <3> QED
        BY <1>1, <3>1, <3>2 DEF RequestHeld, RequestShape, MemoryQuiet
    <2>4. CASE ~Stall
      <3>1. mem_busy' = 0
        BY <1>2, <2>1, <2>4 DEF Stall, Busy, CacheBusy, uncached, MemIdle, TypeOK
      <3> QED
        BY <1>1, <1>2, <2>1, <2>4, <3>1, Advancing DEF RequestHeld, RequestShape, MemoryQuiet
    <2> QED
      BY <2>3, <2>4
  <1>5. CASE ~req.memread /\ ~req.load
    <2>1. mem_busy' <= WriteDelay /\ Pipeline
      BY <1>1, <1>2, <1>5 DEF Device, MemWrite, MemIdle, MemoryQuiet, TypeOK
    <2>2. CASE Stall
      BY <1>1, <1>5, <2>1, <2>2, Stalled DEF RequestHeld, RequestShape, MemoryQuiet
    <2>3. CASE ~Stall
      BY <1>1, <2>1, <2>3, Advancing DEF RequestHeld, RequestShape, MemoryQuiet
    <2> QED
      BY <2>2, <2>3
  <1> QED
    BY <1>1, <1>3, <1>4, <1>5

-----------------------------------------------------------------------------
(***************************************************************************)
(* What the states of the miss handling do to the invariant.               *)
(***************************************************************************)
\* the set the miss is about is the set on the bus
LEMMA SavedSet ==
  ASSUME IInv, fsm # "IDLE"
  PROVE  /\ req.address = saved /\ index = saved[2] /\ tag = saved[1]
         /\ saved = << saved[1], saved[2] >> /\ saved[1] \in Tags /\ saved[2] \in Indices
         /\ ~uncached /\ saved \in Address
  BY AddressAssumption
  DEF IInv, RequestHeld, TypeOK, Cached, Address, uncached, index, tag

LEMMA WaitStalls ==
  ASSUME IInv,
         \/ fsm = "READ_CACHE" /\ ~hit
         \/ fsm \in {"READ_MEM_START", "WRITE_BACK_START", "WRITE_BACK"}
         \/ fsm = "READ_MEM" /\ mem_busy > 0
  PROVE  Stall
  <1>1. ~uncached
    BY SavedSet
  <1>2. CASE fsm = "READ_CACHE" /\ ~hit
    BY <1>1, <1>2 DEF Stall, Busy, CacheBusy
  <1>3. CASE fsm \in {"READ_MEM_START", "WRITE_BACK_START", "WRITE_BACK"}
    BY <1>1, <1>3 DEF Stall, Busy, CacheBusy
  <1>4. CASE fsm = "READ_MEM" /\ mem_busy > 0
    BY <1>1, <1>4 DEF Stall, Busy, CacheBusy
  <1> QED
    BY <1>2, <1>3, <1>4

LEMMA MissInv ==
  ASSUME IInv, ReadMissClean \/ ReadMissDirty
  PROVE  IInv'
  <1> USE DEF Goto
  <1>1. TypeOK /\ TypeOK'
    BY TypeStep DEF IInv, Next
  <1>2. fsm = "READ_CACHE" /\ ~hit /\ saved' = saved /\ ram' = ram /\ MemIdle /\ Pipeline
    BY DEF ReadMissClean, ReadMissDirty
  <1>3. fsm' \in {"READ_MEM_START", "WRITE_BACK_START"}
    BY DEF ReadMissClean, ReadMissDirty
  <1>4. RequestHeld' /\ RequestShape'
    BY <1>2, <1>3, WaitStalls, WaitInv
  <1>5. MemoryQuiet'
    <2>1. mem_busy' = 0
      BY <1>1, <1>2, Resting DEF IInv, MemoryQuiet
    <2> QED
      BY <1>3, <2>1 DEF MemoryQuiet
  <1>6. \A i \in Indices : i # saved[2] => mgmt'[i] = mgmt[i]
    BY <1>1, <1>2, SavedSet DEF ReadMissClean, ReadMissDirty, SetLine, TypeOK
  <1>7. ~mgmt'[saved[2]].valid
    BY <1>1, <1>2, SavedSet DEF ReadMissClean, ReadMissDirty, SetLine, TypeOK
  <1>8. CleanLinesCoherent'
    BY <1>1, <1>2, <1>6, <1>7, Resting DEF IInv, CleanLinesCoherent
  <1>9. Phases'
    <2>1. fsm' = "WRITE_BACK_START" => rd_index' = << index >>
      BY DEF ReadMissClean, ReadMissDirty
    <2> QED
      BY <1>2, <1>3, <1>7, <2>1, SavedSet DEF Phases
  <1> QED
    BY <1>1, <1>4, <1>5, <1>8, <1>9 DEF IInv

LEMMA FetchLineInv ==
  ASSUME IInv, ReadMemStart \/ ReadMemWait
  PROVE  IInv'
  <1> USE DEF Goto
  <1>1. TypeOK /\ TypeOK'
    BY TypeStep DEF IInv, Next
  <1>2. /\ fsm \in {"READ_MEM_START", "READ_MEM"} /\ fsm' = "READ_MEM"
        /\ UNCHANGED << saved, mgmt, ram >> /\ Pipeline
    BY DEF ReadMemStart, ReadMemWait
  <1>3. RequestHeld' /\ RequestShape'
    <2>1. Stall
      BY WaitStalls DEF ReadMemStart, ReadMemWait
    <2> QED
      BY <1>2, <2>1, WaitInv
  <1>4. MemoryQuiet'
    BY <1>2 DEF MemoryQuiet
  <1>5. mem' = mem /\ mem_rddata' = mem[saved]
    <2>1. CASE ReadMemStart
      BY <2>1 DEF ReadMemStart, MemRead, IInv, MemoryQuiet
    <2>2. CASE ReadMemWait
      BY <2>2 DEF ReadMemWait, MemIdle, IInv, Phases
    <2> QED
      BY <2>1, <2>2
  <1>6. CleanLinesCoherent'
    BY <1>2, <1>5 DEF IInv, CleanLinesCoherent
  <1>7. Phases'
    BY <1>2, <1>5 DEF IInv, Phases
  <1> QED
    BY <1>1, <1>3, <1>4, <1>6, <1>7 DEF IInv

LEMMA WriteBackInv ==
  ASSUME IInv, WriteBackStart \/ WriteBackWait \/ WriteBackDone
  PROVE  IInv'
  <1> USE DEF Goto
  <1>1. TypeOK /\ TypeOK'
    BY TypeStep DEF IInv, Next
  <1>2. /\ fsm \in {"WRITE_BACK_START", "WRITE_BACK"}
        /\ fsm' \in {"WRITE_BACK", "READ_MEM_START"}
        /\ UNCHANGED << saved, mgmt, ram >> /\ Pipeline
    BY DEF WriteBackStart, WriteBackWait, WriteBackDone
  <1>3. RequestHeld' /\ RequestShape'
    BY <1>2, WaitStalls, WaitInv
  <1>4. MemoryQuiet'
    <2>1. CASE WriteBackDone
      <3>1. mem_busy <= 1
        BY <2>1 DEF WriteBackDone
      <3> QED
        BY <1>1, <1>2, <2>1, <3>1, Resting DEF WriteBackDone, MemoryQuiet
    <2>2. CASE WriteBackStart \/ WriteBackWait
      BY <1>2, <2>2 DEF WriteBackStart, WriteBackWait, MemoryQuiet
    <2> QED
      BY <2>1, <2>2
  <1>5. CleanLinesCoherent'
    <2> SUFFICES ASSUME NEW i \in Indices, mgmt[i].valid, ~mgmt[i].dirty
                 PROVE  mem'[<< mgmt[i].tag, i >>] = mem[<< mgmt[i].tag, i >>]
      BY <1>2 DEF IInv, CleanLinesCoherent
    <2>1. CASE WriteBackStart
      <3>1. i # saved[2]
        BY <1>2 DEF IInv, Phases
      <3>2. << mgmt[i].tag, i >> \in Address /\ << mgmt[i].tag, i >> # << tag_wb, saved[2] >>
        BY <1>1, <3>1 DEF TypeOK, Line, Address, Cached
      <3> QED
        BY <1>1, <2>1, <3>2 DEF WriteBackStart, MemWrite, TypeOK
    <2>2. CASE WriteBackWait \/ WriteBackDone
      BY <2>2 DEF WriteBackWait, WriteBackDone, MemIdle
    <2> QED
      BY <2>1, <2>2
  <1>6. Phases'
    BY <1>2 DEF IInv, Phases
  <1> QED
    BY <1>1, <1>3, <1>4, <1>5, <1>6 DEF IInv

LEMMA ReadDoneInv ==
  ASSUME IInv, ReadHit \/ ReadMemDone
  PROVE  IInv'
  <1> USE DEF Goto
  <1>1. TypeOK /\ TypeOK'
    BY TypeStep DEF IInv, Next
  <1>2. fsm # "IDLE" /\ fsm' = "IDLE" /\ mem' = mem
    BY DEF ReadHit, ReadMemDone, MemIdle
  <1>3. RequestHeld' /\ RequestShape' /\ MemoryQuiet'
    BY DoneInv
  <1>4. CleanLinesCoherent'
    <2>1. CASE ReadHit
      BY <1>2, <2>1 DEF ReadHit, IInv, CleanLinesCoherent
    <2>2. CASE ReadMemDone
      <3> SUFFICES ASSUME NEW i \in Indices, mgmt'[i].valid, ~mgmt'[i].dirty
                   PROVE  ram'[i] = mem[<< mgmt'[i].tag, i >>]
        BY <1>2 DEF CleanLinesCoherent
      <3>1. CASE i = saved[2]
        <4>1. mgmt'[i].tag = saved[1]
          BY <1>1, <1>2, <2>2, <3>1, SavedSet DEF ReadMemDone, SetLine, TypeOK
        <4>2. ram'[i] = mem[saved]
          BY <1>1, <2>2, <3>1 DEF ReadMemDone, mem_out, TypeOK, IInv, Phases
        <4> QED
          BY <1>2, <3>1, <4>1, <4>2, SavedSet
      <3>2. CASE i # saved[2]
        <4>1. mgmt'[i] = mgmt[i] /\ ram'[i] = ram[i]
          BY <1>1, <1>2, <2>2, <3>2, SavedSet DEF ReadMemDone, SetLine, TypeOK
        <4> QED
          BY <4>1 DEF IInv, CleanLinesCoherent
      <3> QED
        BY <3>1, <3>2
    <2> QED
      BY <2>1, <2>2
  <1>5. Phases'
    BY <1>2 DEF Phases
  <1> QED
    BY <1>1, <1>3, <1>4, <1>5 DEF IInv

\* the steps that start and end in IDLE
LEMMA RestInv ==
  ASSUME IInv, Idle \/ WriteHit \/ WriteMiss \/ ReadStart \/ Device
  PROVE  IInv'
  <1> USE DEF Goto
  <1>1. TypeOK /\ TypeOK'
    BY TypeStep DEF IInv, Next
  <1>2. RequestHeld' /\ RequestShape' /\ MemoryQuiet'
    BY IdleInv, WriteInv, ReadStartInv, DeviceInv
  <1>3. CASE Idle
    BY <1>1, <1>2, <1>3 DEF Idle, MemIdle, IInv, CleanLinesCoherent, Phases
  <1>4. CASE WriteHit
    <2>1. mgmt' = [mgmt EXCEPT ![index] = [valid |-> TRUE, dirty |-> TRUE, tag |-> tag]]
      BY <1>4 DEF WriteHit, SetLine
    <2>2. \A i \in Indices : i # index => mgmt'[i] = mgmt[i] /\ ram'[i] = ram[i]
      BY <1>1, <1>4, <2>1 DEF WriteHit, TypeOK
    <2>3. mgmt'[index].dirty
      BY <1>1, <1>4, <2>1, CachedAddress DEF WriteHit, TypeOK
    <2>4. CleanLinesCoherent'
      BY <1>4, <2>2, <2>3 DEF WriteHit, MemIdle, IInv, CleanLinesCoherent
    <2> QED
      BY <1>1, <1>2, <1>4, <2>4 DEF WriteHit, IInv, Phases
  <1>5. CASE WriteMiss
    <2>1. CleanLinesCoherent'
      <3> SUFFICES ASSUME NEW i \in Indices, mgmt[i].valid, ~mgmt[i].dirty
                   PROVE  mem'[<< mgmt[i].tag, i >>] = mem[<< mgmt[i].tag, i >>]
        BY <1>5 DEF WriteMiss, IInv, CleanLinesCoherent
      <3>1. req.address = << tag, index >>
        BY <1>1, <1>5, CachedAddress DEF WriteMiss, tag, index, Cached
      <3>2. << mgmt[i].tag, i >> \in Address /\ << mgmt[i].tag, i >> # req.address
        BY <1>1, <1>5, <3>1 DEF WriteMiss, hit, TypeOK, Line, Address, Cached
      <3> QED
        BY <1>1, <1>5, <3>2 DEF WriteMiss, MemWrite, TypeOK
    <2> QED
      BY <1>1, <1>2, <1>5, <2>1 DEF WriteMiss, IInv, Phases
  <1>6. CASE ReadStart
    <2>1. CleanLinesCoherent'
      BY <1>6 DEF ReadStart, MemIdle, IInv, CleanLinesCoherent
    <2> QED
      BY <1>1, <1>2, <1>6, <2>1, ReadStartInv DEF IInv
  <1>7. CASE Device
    <2>1. CleanLinesCoherent'
      <3> SUFFICES ASSUME NEW i \in Indices, mgmt[i].valid, ~mgmt[i].dirty
                   PROVE  mem'[<< mgmt[i].tag, i >>] = mem[<< mgmt[i].tag, i >>]
        BY <1>7 DEF Device, IInv, CleanLinesCoherent
      <3>1. << mgmt[i].tag, i >> \in Address /\ << mgmt[i].tag, i >> # req.address
        BY <1>1, <1>7, AddressAssumption DEF Device, uncached, TypeOK, Line, Address, Cached
      <3>2. CASE ~req.memread /\ req.memwrite
        BY <1>1, <1>7, <3>1, <3>2 DEF Device, MemWrite, TypeOK
      <3>3. CASE req.memread \/ ~req.memwrite
        BY <1>7, <3>3 DEF Device, MemRead, MemIdle
      <3> QED
        BY <3>2, <3>3
    <2>2. fsm' = "IDLE"
      BY <1>7, DeviceInv DEF Device
    <2> QED
      BY <1>1, <1>2, <2>1, <2>2 DEF IInv, Phases
  <1> QED
    BY <1>3, <1>4, <1>5, <1>6, <1>7

LEMMA InvStep == IInv /\ [Next]_vars => IInv'
  <1> SUFFICES ASSUME IInv, [Next]_vars PROVE IInv'
    OBVIOUS
  <1>1. CASE UNCHANGED vars
    BY <1>1 DEF vars, cpuVars, cacheVars, memVars, IInv, TypeOK, RequestHeld, CleanLinesCoherent,
                RequestShape, MemoryQuiet, Phases, uncached
  <1>2. CASE Next
    BY <1>2, MissInv, FetchLineInv, WriteBackInv, ReadDoneInv, RestInv DEF Next
  <1> QED
    BY <1>1, <1>2

LEMMA Invariance == Spec => []IInv
  BY InvInit, InvStep, PTL DEF Spec

(***************************************************************************)
(* In every behaviour the registers and signals have their types.          *)
(***************************************************************************)
THEOREM TypeCorrect == Spec => []TypeOK
  <1>1. IInv => TypeOK
    BY DEF IInv
  <1> QED
    BY <1>1, Invariance, PTL

(***************************************************************************)
(* A clean line always equals the memory, so READ_CACHE never drops a      *)
(* store when it evicts one without a write-back.                          *)
(***************************************************************************)
THEOREM CleanLines == Spec => []CleanLinesCoherent
  <1>1. IInv => CleanLinesCoherent
    BY DEF IInv
  <1> QED
    BY <1>1, Invariance, PTL

(***************************************************************************)
(* While the cache works on a miss, the live and the saved address agree   *)
(* and the MEM stage asks for nothing else.                                *)
(***************************************************************************)
THEOREM Held == Spec => []RequestHeld
  <1>1. IInv => RequestHeld
    BY DEF IInv
  <1> QED
    BY <1>1, Invariance, PTL

(***************************************************************************)
(* No read reaches a busy memory, although neither READ_MEM_START nor the  *)
(* device bypass looks at busy before it asks.                             *)
(***************************************************************************)
THEOREM NoReadLost == Spec => []ReadsFindMemoryIdle
  <1>1. IInv => ReadsFindMemoryIdle
    <2> SUFFICES ASSUME IInv PROVE ReadsFindMemoryIdle
      OBVIOUS
    <2>1. fsm = "READ_MEM_START" => mem_busy = 0
      BY DEF IInv, MemoryQuiet
    <2>2. ASSUME uncached, req.memread PROVE mem_busy = 0
      <3>1. fsm = "IDLE"
        BY <2>2 DEF IInv, RequestHeld
      <3>2. WriteDelay = 0
        BY <2>2, TimingAssumption DEF uncached
      <3> QED
        BY <2>2, <3>1, <3>2 DEF IInv, MemoryQuiet, TypeOK
    <2> QED
      BY <2>1, <2>2 DEF ReadsFindMemoryIdle
  <1> QED
    BY <1>1, Invariance, PTL

-----------------------------------------------------------------------------
(***************************************************************************)
(* Refinement: how each kind of step changes what the program sees.        *)
(***************************************************************************)
\* steps that leave the lines and the memory alone
LEMMA SeenKept ==
  ASSUME UNCHANGED << mgmt, ram, mem >>, fsm # "WRITE_BACK_START", fsm' # "WRITE_BACK_START"
  PROVE  Visible' = Visible
  BY DEF Visible, Seen, InLine, Leaving

LEMMA SeenMissClean ==
  ASSUME IInv, ReadMissClean PROVE Visible' = Visible
  <1> SUFFICES ASSUME NEW a \in Address PROVE Seen(a)' = Seen(a)
    BY DEF Visible
  <1>1. TypeOK /\ index \in Indices /\ ~uncached
    BY CachedAddress DEF IInv, ReadMissClean
  <1>2. ~Leaving(a) /\ ~Leaving(a)' /\ UNCHANGED << ram, mem >>
    BY DEF ReadMissClean, Leaving, Goto, MemIdle
  <1>3. \A i \in Indices : i # index => mgmt'[i] = mgmt[i]
    BY <1>1 DEF ReadMissClean, SetLine, TypeOK
  <1>4. ~mgmt'[index].valid
    BY <1>1 DEF ReadMissClean, SetLine, TypeOK
  <1>5. CASE InLine(a) /\ a[2] = index
    <2>1. a = << mgmt[index].tag, index >>
      BY <1>5 DEF InLine, Cached
    <2>2. ram[index] = mem[a]
      BY <1>1, <1>5, <2>1 DEF InLine, ReadMissClean, IInv, CleanLinesCoherent
    <2>3. ~InLine(a)'
      BY <1>4, <1>5 DEF InLine
    <2> QED
      BY <1>2, <1>5, <2>2, <2>3 DEF Seen
  <1>6. CASE ~InLine(a) /\ a[2] = index
    BY <1>2, <1>4, <1>6 DEF Seen, InLine
  <1>7. CASE a[2] # index
    <2>1. InLine(a)' = InLine(a)
      <3>1. CASE a \in Cached
        BY <1>3, <1>7, <3>1 DEF InLine, Cached
      <3>2. CASE a \notin Cached
        BY <3>2 DEF InLine
      <3> QED
        BY <3>1, <3>2
    <2> QED
      BY <1>2, <2>1 DEF Seen
  <1> QED
    BY <1>5, <1>6, <1>7

LEMMA SeenMissDirty ==
  ASSUME IInv, ReadMissDirty PROVE Visible' = Visible
  <1> SUFFICES ASSUME NEW a \in Address PROVE Seen(a)' = Seen(a)
    BY DEF Visible
  <1>1. TypeOK /\ index \in Indices /\ index = saved[2]
    BY CachedAddress, SavedSet DEF IInv, ReadMissDirty
  <1>2. ~Leaving(a) /\ UNCHANGED << ram, mem >> /\ mgmt[index].valid
    BY DEF ReadMissDirty, Leaving, MemIdle
  <1>3. \A i \in Indices : i # index => mgmt'[i] = mgmt[i]
    BY <1>1 DEF ReadMissDirty, SetLine, TypeOK
  <1>4. ~mgmt'[index].valid
    BY <1>1 DEF ReadMissDirty, SetLine, TypeOK
  <1>5. data_out' = ram[index]
    BY <1>1 DEF ReadMissDirty, data_out, None
  <1>6. Leaving(a)' <=> a = << mgmt[index].tag, index >>
    BY <1>1 DEF ReadMissDirty, Leaving, Goto
  <1>7. CASE a = << mgmt[index].tag, index >>
    <2>1. a \in Cached
      BY <1>1, <1>7 DEF TypeOK, Line, Cached
    <2>2. Seen(a) = ram[index]
      BY <1>2, <1>7, <2>1 DEF Seen, InLine
    <2>3. ~InLine(a)'
      BY <1>4, <1>7 DEF InLine
    <2> QED
      BY <1>5, <1>6, <1>7, <2>2, <2>3 DEF Seen
  <1>8. CASE a # << mgmt[index].tag, index >>
    <2>1. InLine(a)' = InLine(a)
      <3>1. CASE a \in Cached /\ a[2] # index
        BY <1>3, <3>1 DEF InLine, Cached
      <3>2. CASE a \in Cached /\ a[2] = index
        BY <1>4, <1>8, <3>2 DEF InLine, Cached
      <3>3. CASE a \notin Cached
        BY <3>3 DEF InLine
      <3> QED
        BY <3>1, <3>2, <3>3
    <2> QED
      BY <1>2, <1>6, <1>8, <2>1 DEF Seen
  <1> QED
    BY <1>7, <1>8

LEMMA SeenWriteBack ==
  ASSUME IInv, WriteBackStart PROVE Visible' = Visible
  <1> SUFFICES ASSUME NEW a \in Address PROVE Seen(a)' = Seen(a)
    BY DEF Visible
  <1>1. TypeOK /\ data_out \in Word
    BY BusTypes DEF IInv
  <1>2. UNCHANGED << mgmt, ram >> /\ InLine(a)' = InLine(a) /\ ~Leaving(a)'
    BY DEF WriteBackStart, InLine, Leaving, Goto
  <1>3. CASE a = << tag_wb, saved[2] >>
    <2>1. ~InLine(a) /\ Leaving(a)
      BY <1>3 DEF WriteBackStart, IInv, Phases, InLine, Leaving
    <2>2. Merge(mem[a], data_out, Lanes) = data_out
      BY <1>1 DEF Merge, Word
    <2>3. mem'[a] = data_out
      BY <1>1, <1>3, <2>2 DEF WriteBackStart, MemWrite, TypeOK
    <2> QED
      BY <1>2, <2>1, <2>3 DEF Seen
  <1>4. CASE a # << tag_wb, saved[2] >>
    <2>1. ~Leaving(a) /\ mem'[a] = mem[a]
      BY <1>1, <1>4 DEF WriteBackStart, MemWrite, TypeOK, Leaving
    <2> QED
      BY <1>2, <2>1 DEF Seen
  <1> QED
    BY <1>3, <1>4

LEMMA SeenReadDone ==
  ASSUME IInv, ReadMemDone PROVE Visible' = Visible
  <1> SUFFICES ASSUME NEW a \in Address PROVE Seen(a)' = Seen(a)
    BY DEF Visible
  <1>1. TypeOK
    BY DEF IInv
  <1>2. ~Leaving(a) /\ ~Leaving(a)' /\ UNCHANGED mem /\ fsm # "IDLE"
    BY DEF ReadMemDone, Leaving, Goto, MemIdle
  <1>3. \A i \in Indices : i # saved[2] => mgmt'[i] = mgmt[i] /\ ram'[i] = ram[i]
    BY <1>1, <1>2, SavedSet DEF ReadMemDone, SetLine, TypeOK
  <1>4. /\ mgmt'[saved[2]] = [valid |-> TRUE, dirty |-> FALSE, tag |-> saved[1]]
        /\ ram'[saved[2]] = mem[saved]
    <2>1. mem_out = mem[saved]
      BY DEF ReadMemDone, mem_out, IInv, Phases
    <2> QED
      BY <1>1, <1>2, <2>1, SavedSet DEF ReadMemDone, SetLine, TypeOK
  <1>5. ~mgmt[saved[2]].valid
    BY DEF ReadMemDone, IInv, Phases
  <1>6. CASE a = saved
    <2>1. InLine(a)' /\ ~InLine(a)
      BY <1>1, <1>4, <1>5, <1>6 DEF InLine, TypeOK
    <2> QED
      BY <1>2, <1>4, <1>6, <2>1 DEF Seen
  <1>7. CASE a # saved /\ a[2] = saved[2]
    <2>1. ~InLine(a)
      BY <1>5, <1>7 DEF InLine
    <2>2. ~InLine(a)'
      BY <1>2, <1>4, <1>7, SavedSet DEF InLine, Cached
    <2> QED
      BY <1>2, <2>1, <2>2 DEF Seen
  <1>8. CASE a[2] # saved[2]
    <2>1. CASE a \in Cached
      <3>1. InLine(a)' = InLine(a) /\ ram'[a[2]] = ram[a[2]]
        BY <1>3, <1>8, <2>1 DEF InLine, Cached
      <3> QED
        BY <1>2, <3>1 DEF Seen
    <2>2. CASE a \notin Cached
      BY <1>2, <2>2 DEF Seen, InLine
    <2> QED
      BY <2>1, <2>2
  <1> QED
    BY <1>6, <1>7, <1>8

\* the two kinds of steps of the abstract memory
LEMMA StoreSteps ==
  ASSUME TypeOK, req.memwrite, result' = result,
         \A a \in Address : Seen(a)' = IF a = req.address
                                         THEN Merge(Seen(a), req.wrdata, req.byteena)
                                         ELSE Seen(a)
  PROVE  Abstract!Next
  <1>1. req.address \in Address
    BY DEF TypeOK, MemOp
  <1>2. Visible' = [Visible EXCEPT ![req.address] =
                      Abstract!Merge(@, req.wrdata, req.byteena)]
    BY <1>1 DEF Visible, Merge, Abstract!Merge
  <1>3. Abstract!Store
    BY <1>2 DEF Abstract!Store
  <1> QED
    BY <1>3 DEF Abstract!Next

LEMMA LoadSteps ==
  ASSUME TypeOK, req.load, Visible' = Visible, result' = << req.address, Seen(req.address) >>
  PROVE  Abstract!Next
  <1>1. req.address \in Address
    BY DEF TypeOK, MemOp
  <1>2. Abstract!Load
    BY <1>1 DEF Abstract!Load, Visible
  <1> QED
    BY <1>2 DEF Abstract!Next

LEMMA WaitSteps ==
  ASSUME ~req.memwrite, req.load => req'.load /\ req'.address = req.address,
         Visible' = Visible, result' = result
  PROVE  Abstract!Next
  BY DEF Abstract!Wait, Abstract!Next

\* WB takes nothing unless a load is complete
LEMMA NothingTaken ==
  ASSUME TypeOK, Pipeline, Stall \/ ~req.load
  PROVE  result' = result
  BY Stalled, Advancing

LEMMA WriteHitStores ==
  ASSUME IInv, WriteHit PROVE Abstract!Next
  <1>1. TypeOK /\ index \in Indices /\ req.address = << tag, index >>
    BY CachedAddress DEF IInv, WriteHit, Cached, tag, index
  <1>2. req.memwrite /\ result' = result
    BY <1>1, NothingTaken DEF WriteHit, IInv, RequestShape
  <1>3. /\ \A i \in Indices : i # index => mgmt'[i] = mgmt[i] /\ ram'[i] = ram[i]
        /\ mgmt'[index].valid /\ mgmt'[index].tag = tag
        /\ mgmt[index].valid /\ mgmt[index].tag = tag
        /\ ram'[index] = Merge(ram[index], req.wrdata, req.byteena)
    BY <1>1 DEF WriteHit, SetLine, TypeOK, hit
  <1>4. ASSUME NEW a \in Address
        PROVE  Seen(a)' = IF a = req.address THEN Merge(Seen(a), req.wrdata, req.byteena)
                                             ELSE Seen(a)
    <2>1. ~Leaving(a) /\ ~Leaving(a)' /\ UNCHANGED mem
      BY DEF WriteHit, Leaving, MemIdle
    <2>2. CASE a = req.address
      <3>1. InLine(a) /\ InLine(a)' /\ a[2] = index
        BY <1>1, <1>3, <2>2, CachedAddress DEF InLine, WriteHit
      <3> QED
        BY <1>3, <2>2, <3>1 DEF Seen
    <2>3. CASE a # req.address /\ a \in Cached
      <3>1. InLine(a)' = InLine(a) /\ (InLine(a) => ram'[a[2]] = ram[a[2]])
        BY <1>1, <1>3, <2>3 DEF InLine, Cached
      <3> QED
        BY <2>1, <2>3, <3>1 DEF Seen
    <2>4. CASE a # req.address /\ a \notin Cached
      BY <2>1, <2>4 DEF Seen, InLine
    <2> QED
      BY <2>2, <2>3, <2>4
  <1> QED
    BY <1>1, <1>2, <1>4, StoreSteps

\* a store that goes past the cache
LEMMA MemoryStores ==
  ASSUME IInv, MemWrite(req.address, req.byteena, req.wrdata), Pipeline, req.memwrite,
         UNCHANGED << fsm, mgmt, ram >>, fsm = "IDLE", ~InLine(req.address)
  PROVE  Abstract!Next
  <1>1. TypeOK /\ result' = result
    BY NothingTaken DEF IInv, RequestShape
  <1>2. ASSUME NEW a \in Address
        PROVE  Seen(a)' = IF a = req.address THEN Merge(Seen(a), req.wrdata, req.byteena)
                                             ELSE Seen(a)
    <2>1. ~Leaving(a) /\ ~Leaving(a)' /\ InLine(a)' = InLine(a)
      BY DEF Leaving, InLine
    <2>2. mem'[a] = IF a = req.address THEN Merge(mem[a], req.wrdata, req.byteena) ELSE mem[a]
      BY <1>1 DEF MemWrite, TypeOK
    <2> QED
      BY <2>1, <2>2 DEF Seen
  <1> QED
    BY <1>1, <1>2, StoreSteps

\* the word of a load is the visible one
LEMMA WordSeen ==
  ASSUME IInv, ~Stall, req.load
  PROVE  RdData = Seen(req.address)
  <1>1. CASE uncached
    <2>1. fsm = "IDLE"
      BY <1>1, SavedSet DEF IInv
    <2>2. RdData = mem[req.address]
      <3>1. mem_rddata = mem[req.address] /\ ~Busy
        BY <2>1 DEF Stall, IInv, RequestShape
      <3>2. ~(mem_busy > 0)
        BY <1>1, <3>1 DEF Busy, CacheBusy
      <3> QED
        BY <1>1, <3>1, <3>2 DEF RdData, mem_out
    <2>3. ~InLine(req.address) /\ ~Leaving(req.address)
      BY <1>1, <2>1, AddressAssumption DEF uncached, InLine, Leaving
    <2> QED
      BY <2>2, <2>3 DEF Seen
  <1>2. CASE ~uncached /\ fsm = "READ_CACHE"
    <2>1. hit
      BY <1>2, WaitStalls
    <2>2. RdData = ram[saved[2]]
      <3>1. rd_index = << saved[2] >>
        BY <1>2 DEF IInv, Phases
      <3>2. data_out = ram[saved[2]]
        BY <3>1 DEF data_out, None
      <3> QED
        BY <1>2, <2>1, <3>2 DEF RdData
    <2>3. InLine(req.address) /\ req.address[2] = saved[2]
      BY <1>2, <2>1, SavedSet DEF InLine, hit, IInv, TypeOK
    <2> QED
      BY <2>2, <2>3 DEF Seen
  <1>3. CASE ~uncached /\ fsm = "READ_MEM"
    <2>1. mem_busy = 0
      BY <1>3, WaitStalls DEF IInv, TypeOK
    <2>2. RdData = mem[saved]
      BY <1>3, <2>1 DEF RdData, mem_out, IInv, Phases
    <2>3. ~InLine(saved) /\ ~Leaving(saved)
      BY <1>3 DEF InLine, Leaving, IInv, Phases
    <2> QED
      BY <1>3, <2>2, <2>3, SavedSet DEF Seen
  <1>4. CASE ~uncached /\ fsm = "IDLE"
    BY <1>4 DEF Stall, IInv, RequestShape
  <1>5. fsm \in {"IDLE", "READ_CACHE", "READ_MEM"}
    <2>1. fsm \in State
      BY DEF IInv, TypeOK
    <2> QED
      BY <2>1, WaitStalls DEF State
  <1> QED
    BY <1>1, <1>2, <1>3, <1>4, <1>5

\* a step that changes nothing the program sees
LEMMA QuietSteps ==
  ASSUME IInv, Pipeline, ~req.memwrite, Visible' = Visible
  PROVE  Abstract!Next
  <1>1. TypeOK
    BY DEF IInv
  <1>2. CASE Stall
    BY <1>1, <1>2, Stalled, WaitSteps
  <1>3. CASE ~Stall /\ ~req.load
    BY <1>1, <1>3, Advancing, WaitSteps
  <1>4. CASE ~Stall /\ req.load
    <2>1. result' = << req.address, Seen(req.address) >>
      BY <1>1, <1>4, Advancing, WordSeen
    <2> QED
      BY <1>1, <1>4, <2>1, LoadSteps
  <1> QED
    BY <1>2, <1>3, <1>4

LEMMA RefinementStep == IInv /\ [Next]_vars => [Abstract!Next]_<< req, Visible, result >>
  <1> SUFFICES ASSUME IInv, [Next]_vars PROVE [Abstract!Next]_<< req, Visible, result >>
    OBVIOUS
  <1> USE DEF Goto
  <1>1. CASE UNCHANGED vars
    BY <1>1 DEF vars, cpuVars, cacheVars, memVars, Visible, Seen, InLine, Leaving, data_out
  <1>a. req.memread => ~req.memwrite
    BY DEF IInv, RequestShape
  <1>b. fsm # "IDLE" => ~req.memwrite
    BY DEF IInv, RequestHeld
  <1>2. CASE Idle \/ ReadStart \/ ReadHit
    <2>1. ~req.memwrite
      BY <1>2, <1>a, <1>b DEF Idle, ReadStart, ReadHit
    <2> QED
      BY <1>2, <2>1, SeenKept, QuietSteps DEF Idle, ReadStart, ReadHit, MemIdle
  <1>3. CASE ReadMemWait \/ WriteBackWait \/ WriteBackDone
    <2>1. ~req.memwrite
      BY <1>3, <1>b DEF ReadMemWait, WriteBackWait, WriteBackDone
    <2> QED
      BY <1>3, <2>1, SeenKept, QuietSteps DEF ReadMemWait, WriteBackWait, WriteBackDone, MemIdle
  <1>4. CASE ReadMemStart
    <2>1. ~req.memwrite
      BY <1>4, <1>b DEF ReadMemStart
    <2> QED
      BY <1>4, <2>1, SeenKept, QuietSteps DEF ReadMemStart, MemRead, MemIdle
  <1>5. CASE ReadMissClean \/ ReadMissDirty \/ WriteBackStart \/ ReadMemDone
    <2>1. Pipeline /\ ~req.memwrite
      BY <1>5, <1>b DEF ReadMissClean, ReadMissDirty, WriteBackStart, ReadMemDone
    <2> QED
      BY <1>5, <2>1, SeenMissClean, SeenMissDirty, SeenWriteBack, SeenReadDone, QuietSteps
  <1>6. CASE WriteHit
    BY <1>6, WriteHitStores
  <1>7. CASE WriteMiss
    BY <1>7, MemoryStores DEF WriteMiss, InLine, hit, tag, index
  <1>8. CASE Device
    <2>1. fsm = "IDLE" /\ Pipeline /\ UNCHANGED << fsm, mgmt, ram >>
      BY <1>8, DeviceInv DEF Device
    <2>2. CASE ~req.memread /\ req.memwrite
      BY <1>8, <2>1, <2>2, MemoryStores, AddressAssumption DEF Device, InLine, uncached
    <2>3. CASE req.memread \/ ~req.memwrite
      BY <1>8, <1>a, <2>1, <2>3, SeenKept, QuietSteps DEF Device, MemRead, MemIdle
    <2> QED
      BY <2>2, <2>3
  <1> QED
    BY <1>1, <1>2, <1>3, <1>4, <1>5, <1>6, <1>7, <1>8 DEF Next

LEMMA RefinementInit == Init => Abstract!Init
  <1> SUFFICES ASSUME Init PROVE Abstract!Init
    OBVIOUS
  <1>1. ASSUME NEW a \in Address PROVE Seen(a) = mem[a]
    <2>1. ~InLine(a)
      BY <1>1 DEF Init, InLine, Cached
    <2>2. ~Leaving(a)
      BY DEF Init, Leaving
    <2> QED
      BY <2>1, <2>2 DEF Seen
  <1>2. Visible \in [Address -> Abstract!Word]
    BY <1>1 DEF Init, Visible, Word, Abstract!Word
  <1>3. ~req.memwrite /\ ~req.load
    BY DEF Init, Instruction
  <1> QED
    BY <1>2, <1>3 DEF Init, None, Abstract!Init

(***************************************************************************)
(* Cache, memory controller and MEM stage together implement one atomic    *)
(* memory that does what the program asks and nothing else, for caches and *)
(* memories of every size.                                                 *)
(***************************************************************************)
THEOREM Refinement == Spec => IsAtomicMemory
  BY RefinementInit, RefinementStep, Invariance, PTL
  DEF Spec, IsAtomicMemory, Abstract!Spec
=============================================================================
