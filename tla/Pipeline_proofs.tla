--------------------------- MODULE Pipeline_proofs ---------------------------
(***************************************************************************)
(* Proofs about Pipeline, for every program, any number of registers, and  *)
(* any width of the words and of the program counter.                      *)
(***************************************************************************)
EXTENDS Pipeline, TLAPS

-----------------------------------------------------------------------------
(***************************************************************************)
(* What the stages have in common.                                         *)
(***************************************************************************)
Fetched == ~first => imem[pc_out] # Unknown

FirstCycle == first => pc_out = Pcs - 1 /\ ~dec.valid /\ ~ex.valid /\ ~pcsrc

\* the next instruction is in fetch, and the register file looks at what this one reads
InDecode ==
  /\ dec.valid => /\ ~first /\ dec.instr = imem[dec.pc] /\ dec.instr # Unknown
                  /\ rdaddr = << dec.instr.rs1, dec.instr.rs2 >> /\ pc_out = ToPc(dec.pc + 1)
  /\ ~dec.valid => dec.instr = NopInst

\* the next instruction is in decode
InExec ==
  /\ ex.valid => /\ imem[ex.pc] # Unknown
                 /\ ex.op = ExecOp(imem[ex.pc], ex.op.readdata1, ex.op.readdata2)
                 /\ ex.memop = MemOp(imem[ex.pc]) /\ ex.wbop = WbOp(imem[ex.pc])
                 /\ dec.valid /\ dec.pc = ToPc(ex.pc + 1)
  /\ ~ex.valid => ex.memop = MemNop /\ ex.wbop.rd = ZeroReg /\ ex.wbop.src = "WBS_ALU"

InMem ==
  /\ mem.wbop.src = "WBS_MEM" => ~mem.op.memwrite
  /\ mem.wbop.src = "WBS_OPC" => mem.op.branch = "BR_BR"

\* A load is never right ahead of who needs its word, and what has been read from
\* the register file is right unless it is to be forwarded.
Current(r, readdata) == Writes(mem.wbop, r) \/ Writes(wb.op, r) \/ readdata = regfile[r]

HasItsOperands ==
  ex.valid =>
    /\ mem.wbop.src = "WBS_MEM" => ~Writes(mem.wbop, ex.op.rs1) /\ ~Writes(mem.wbop, ex.op.rs2)
    /\ Current(ex.op.rs1, ex.op.readdata1) /\ Current(ex.op.rs2, ex.op.readdata2)

IInv == TypeOK /\ Fetched /\ FirstCycle /\ InDecode /\ InExec /\ InMem /\ HasItsOperands

-----------------------------------------------------------------------------
(***************************************************************************)
(* Arithmetic.                                                             *)
(***************************************************************************)
LEMMA Remainder == \A a \in Int, n \in Nat \ {0} : a % n \in 0 .. n - 1
  OBVIOUS

LEMMA WordFacts ==
  /\ Words \in Nat \ {0} /\ Pcs \in Nat \ {0} /\ 0 \in Word /\ 0 \in Pc /\ Pcs - 1 \in Pc
  /\ \A v \in Word : Signed(v) \in Int
  /\ \A a, b \in Word : Add(a, b) \in Word /\ Sub(a, b) \in Word
  /\ \A a \in Int : ToData(a) \in Word /\ ToPc(a) \in Pc
  /\ 1 % Words \in Word
  <1>1. Words \in Nat \ {0} /\ Pcs \in Nat \ {0}
    BY MachineAssumption
  <1>2. \A v \in Word : Signed(v) \in Int
    BY <1>1 DEF Word, Signed
  <1>3. \A a, b \in Word : a + b \in Int /\ a - b \in Int
    BY DEF Word
  <1>4. \A a, b \in Word : Add(a, b) \in Word /\ Sub(a, b) \in Word
    BY <1>1, <1>3, Remainder DEF Word, Add, Sub
  <1>5. \A a \in Int : ToData(a) \in Word /\ ToPc(a) \in Pc
    BY <1>1, Remainder DEF Word, Pc, ToData, ToPc
  <1>6. 0 \in Word /\ 0 \in Pc /\ Pcs - 1 \in Pc
    BY <1>1 DEF Word, Pc
  <1>7. 1 % Words \in Word
    BY <1>1, Remainder DEF Word
  <1> QED
    BY <1>1, <1>2, <1>4, <1>5, <1>6, <1>7

LEMMA Numbers ==
  /\ \A v \in Word : v \in Int
  /\ \A n \in Pc : n \in Int /\ n + 1 \in Int /\ \A v \in Word : n + Signed(v) \in Int
  <1>1. \A n \in Pc : n \in Int
    BY DEF Pc
  <1>2. \A v \in Word : v \in Int
    BY DEF Word
  <1>3. \A n \in Pc : n + 1 \in Int /\ \A v \in Word : n + Signed(v) \in Int
    BY <1>1, WordFacts
  <1> QED
    BY <1>1, <1>2, <1>3

LEMMA SameArithmetic ==
  /\ \A a, b : Abstract!Add(a, b) = Add(a, b) /\ Abstract!Sub(a, b) = Sub(a, b)
  /\ \A a : Abstract!Signed(a) = Signed(a) /\ Abstract!ToData(a) = ToData(a) /\ Abstract!ToPc(a) = ToPc(a)
  /\ Abstract!Word = Word /\ Abstract!Pc = Pc
  BY DEF Add, Sub, Signed, ToData, ToPc, Word, Pc,
         Abstract!Add, Abstract!Sub, Abstract!Signed, Abstract!ToData, Abstract!ToPc, Abstract!Word, Abstract!Pc

-----------------------------------------------------------------------------
(***************************************************************************)
(* Decoding.                                                               *)
(***************************************************************************)
LEMMA InstructionFacts ==
  ASSUME NEW i \in Instruction
  PROVE  /\ i.opcode \in {"OP", "OP_IMM", "LUI", "AUIPC", "LOAD", "STORE", "BRANCH", "JAL", "JALR", "NOP"}
         /\ i.funct \in {"ADD", "SUB", "SLT", "SLTU", "BEQ", "BNE", "BLT", "BGE", "BLTU", "BGEU"}
         /\ i.rd \in Registers /\ i.rs1 \in Registers /\ i.rs2 \in Registers /\ i.imm \in Word
         /\ i.imm \in Int /\ Signed(i.imm) \in Int
  BY WordFacts DEF Instruction, Word

LEMMA Known ==
  ASSUME TypeOK, NEW p \in Pc, imem[p] # Unknown
  PROVE  imem[p] \in Instruction /\ WellFormed(imem[p])
  BY MachineAssumption DEF TypeOK

LEMMA NopFacts ==
  /\ NopInst \in Instruction /\ WellFormed(NopInst) /\ NopInst.rs1 = ZeroReg /\ NopInst.rs2 = ZeroReg
  /\ MemOp(NopInst) = MemNop /\ WbOp(NopInst).rd = ZeroReg /\ WbOp(NopInst).src = "WBS_ALU"
  <1>1. NopInst \in Instruction
    BY WordFacts, MachineAssumption DEF NopInst, Instruction
  <1>2. MemOp(NopInst) = MemNop
    BY DEF NopInst, MemOp, MemNop, Branch
  <1> QED
    BY <1>1, <1>2 DEF NopInst, WbOp, WellFormed

LEMMA DecodeTypes ==
  ASSUME NEW i \in Instruction, WellFormed(i), NEW d1 \in Word, NEW d2 \in Word
  PROVE  ExecOp(i, d1, d2) \in ExecOps /\ MemOp(i) \in MemOps /\ WbOp(i) \in WbOps
  <1>1. AluOp(i) \in {"NOP", "ADD", "SUB", "SLT", "SLTU"}
    BY InstructionFacts DEF AluOp, WellFormed
  <1>2. ExecOp(i, d1, d2) \in ExecOps
    BY <1>1, InstructionFacts DEF ExecOp, ExecOps
  <1>3. Branch(i) \in {"BR_NOP", "BR_BR", "BR_CND", "BR_CNDI"}
    BY DEF Branch
  <1>4. MemOp(i) \in MemOps
    BY <1>3 DEF MemOp, MemOps
  <1>5. WbOp(i) \in WbOps
    BY InstructionFacts DEF WbOp, WbOps
  <1> QED
    BY <1>2, <1>4, <1>5

LEMMA NopTypes ==
  Bubble \in [pc : Pc, op : ExecOps, memop : MemOps, wbop : WbOps, valid : BOOLEAN]
  /\ MemNop \in MemOps /\ WbNop \in WbOps
  <1>1. ExecNop \in ExecOps
    BY WordFacts, MachineAssumption DEF ExecNop, ExecOps
  <1>2. MemNop \in MemOps /\ WbNop \in WbOps
    BY MachineAssumption DEF MemNop, MemOps, WbNop, WbOps
  <1> QED
    BY <1>1, <1>2, WordFacts DEF Bubble

LEMMA StageTypes ==
  ASSUME TypeOK
  PROVE  /\ dec.pc \in Pc /\ dec.instr \in Instruction /\ dec.valid \in BOOLEAN
         /\ ex.pc \in Pc /\ ex.op \in ExecOps /\ ex.memop \in MemOps /\ ex.wbop \in WbOps /\ ex.valid \in BOOLEAN
         /\ mem.op \in MemOps /\ mem.wbop \in WbOps /\ mem.pc_new \in Pc /\ mem.pc_old \in Pc
         /\ mem.aluresult \in Word /\ mem.zero \in BOOLEAN /\ mem.wrdata \in Word
         /\ wb.op \in WbOps /\ wb.aluresult \in Word /\ wb.memresult \in Word /\ wb.pc_old \in Pc
         /\ pc_out \in Pc /\ regfile \in [Registers -> Word] /\ dmem \in [Word -> Word] /\ rdaddr \in Registers \X Registers
         /\ imem \in [Pc -> Instructions \cup {Unknown}] /\ first \in BOOLEAN
  BY DEF TypeOK

-----------------------------------------------------------------------------
(***************************************************************************)
(* The signals between the stages.                                         *)
(***************************************************************************)
LEMMA ReadTypes ==
  ASSUME TypeOK
  PROVE  /\ WbData \in Word /\ \A r \in Registers : RdData(r) \in Word
         /\ \A r \in Registers, d \in Word : Fwd(r, d) \in Word
  <1>1. WbData \in Word
    <2>1. wb.pc_old + 1 \in Int /\ ToPc(wb.pc_old + 1) \in Int
      BY StageTypes, WordFacts, Numbers
    <2>2. wb.op.src \in {"WBS_ALU", "WBS_MEM", "WBS_OPC"}
      BY StageTypes DEF WbOps
    <2> QED
      BY <2>1, <2>2, StageTypes, WordFacts DEF WbData
  <1>2. \A r \in Registers : RdData(r) \in Word
    BY <1>1, StageTypes DEF RdData
  <1>3. \A r \in Registers, d \in Word : Fwd(r, d) \in Word
    BY <1>1, StageTypes DEF Fwd
  <1> QED
    BY <1>1, <1>2, <1>3

LEMMA SignalTypes ==
  ASSUME TypeOK
  PROVE  /\ valA \in Word /\ valB \in Word /\ alu_r \in Word /\ alu_z \in BOOLEAN
         /\ pc_new \in Pc /\ pc_next \in Pc
  <1>1. /\ ex.op.rs1 \in Registers /\ ex.op.rs2 \in Registers /\ ex.op.readdata1 \in Word /\ ex.op.readdata2 \in Word
        /\ ex.op.imm \in Word /\ ex.op.aluop \in {"NOP", "ADD", "SUB", "SLT", "SLTU"}
    BY StageTypes DEF ExecOps
  <1>2. valA \in Word /\ valB \in Word
    BY <1>1, ReadTypes DEF valA, valB
  <1>3. alu_a \in Word /\ alu_b \in Word
    <2>1. ToData(ex.pc) \in Word
      BY StageTypes, WordFacts, Numbers
    <2> QED
      BY <1>1, <1>2, <2>1 DEF alu_a, alu_b
  <1>4. alu_r \in Word
    BY <1>1, <1>3, WordFacts DEF alu_r
  <1>5. alu_z \in BOOLEAN
    BY <1>1 DEF alu_z
  <1>6. pc_new \in Pc
    <2>1. Add(valA, ex.op.imm) \in Int /\ ex.pc + Signed(ex.op.imm) \in Int
      BY <1>1, <1>2, StageTypes, WordFacts, Numbers
    <2> QED
      BY <2>1, WordFacts DEF pc_new
  <1>7. pc_next \in Pc
    <2>1. pc_out + 1 \in Int
      BY StageTypes, Numbers
    <2> QED
      BY <2>1, StageTypes, WordFacts DEF pc_next
  <1> QED
    BY <1>2, <1>4, <1>5, <1>6, <1>7

(***************************************************************************)
(* One edge, stage by stage.                                               *)
(***************************************************************************)
LEMMA FetchStep ==
  ASSUME TypeOK, NEW stall \in BOOLEAN, Fetch(stall)
  PROVE  /\ first' = FALSE /\ pc_out' \in Pc /\ imem' \in [Pc -> Instructions \cup {Unknown}]
         /\ stall => pc_out' = pc_out /\ imem' = imem
         /\ ~stall => pc_out' = pc_next /\ imem'[pc_out'] # Unknown
         /\ \A p \in Pc : imem[p] # Unknown => imem'[p] = imem[p]
  <1>1. CASE stall
    BY <1>1, StageTypes DEF Fetch
  <1>2. CASE ~stall
    <2>1. first' = FALSE /\ pc_out' = pc_next /\ pc_next \in Pc
      BY <1>2, SignalTypes DEF Fetch
    <2>2. CASE imem[pc_next] = Unknown
      <3>1. PICK i \in Instructions : imem' = [imem EXCEPT ![pc_next] = i]
        BY <1>2, <2>2 DEF Fetch
      <3> QED
        BY <1>2, <2>1, <2>2, <3>1, StageTypes, UnknownAssumption
    <2>3. CASE imem[pc_next] # Unknown
      <3>1. imem' = imem
        BY <1>2, <2>3 DEF Fetch
      <3> QED
        BY <1>2, <2>1, <2>3, <3>1, StageTypes
    <2> QED
      BY <2>2, <2>3
  <1> QED
    BY <1>1, <1>2

\* what is on its way to the registers stays visible
LEMMA WritebackStep ==
  ASSUME TypeOK, RegWrite, Writeback(FALSE)
  PROVE  /\ wb' \in [op : WbOps, aluresult : Word, memresult : Word, pc_old : Pc]
         /\ regfile' \in [Registers -> Word]
         /\ \A r \in Registers : regfile'[r] = RdData(r) /\ RdData(r)' = VisibleRegs[r]
         /\ wb'.op = mem.wbop
  <1>1. regfile' \in [Registers -> Word] /\ \A r \in Registers : regfile'[r] = RdData(r)
    BY ReadTypes DEF RegWrite
  <1>2. wb' = [op |-> mem.wbop, aluresult |-> mem.aluresult, memresult |-> memresult, pc_old |-> mem.pc_old]
    BY DEF Writeback
  <1>3. memresult \in Word
    BY StageTypes, WordFacts DEF memresult
  <1>4. wb' \in [op : WbOps, aluresult : Word, memresult : Word, pc_old : Pc]
    BY <1>2, <1>3, StageTypes
  <1>5. WbData' = MemData
    <2>1. mem.wbop.src \in {"WBS_ALU", "WBS_MEM", "WBS_OPC"}
      BY StageTypes DEF WbOps
    <2> QED
      BY <1>2, <2>1 DEF WbData, MemData, memresult
  <1>6. \A r \in Registers : RdData(r)' = VisibleRegs[r]
    BY <1>1, <1>2, <1>5 DEF RdData, VisibleRegs, Writes
  <1> QED
    BY <1>1, <1>2, <1>4, <1>6

LEMMA StoreStep ==
  ASSUME TypeOK, Store
  PROVE  dmem' = VisibleMem /\ dmem' \in [Word -> Word]
  BY StageTypes DEF Store, VisibleMem

LEMMA MemStep ==
  ASSUME TypeOK, NEW flush \in BOOLEAN, Mem(FALSE, flush)
  PROVE  /\ mem' \in [op : MemOps, wbop : WbOps, pc_new : Pc, pc_old : Pc, aluresult : Word,
                      zero : BOOLEAN, wrdata : Word, valid : BOOLEAN]
         /\ mem'.op = IF flush THEN MemNop ELSE ex.memop
         /\ mem'.wbop = IF flush THEN WbNop ELSE ex.wbop
         /\ mem'.pc_new = pc_new /\ mem'.pc_old = ex.pc /\ mem'.aluresult = alu_r
         /\ mem'.zero = alu_z /\ mem'.wrdata = valB
  <1>1. mem' = [op        |-> IF flush THEN MemNop ELSE ex.memop,
                wbop      |-> IF flush THEN WbNop ELSE ex.wbop,
                pc_new    |-> pc_new,
                pc_old    |-> ex.pc,
                aluresult |-> alu_r,
                zero      |-> alu_z,
                wrdata    |-> valB,
                valid     |-> ~flush /\ ex.valid]
    BY DEF Mem
  <1>2. /\ (IF flush THEN MemNop ELSE ex.memop) \in MemOps
        /\ (IF flush THEN WbNop ELSE ex.wbop) \in WbOps
        /\ (~flush /\ ex.valid) \in BOOLEAN
    BY StageTypes, NopTypes
  <1> QED
    BY <1>1, <1>2, StageTypes, SignalTypes

-----------------------------------------------------------------------------
(***************************************************************************)
(* The invariant at the reset, and when the pipeline waits.                *)
(***************************************************************************)
LEMMA InitInv == Init => IInv
  <1> SUFFICES ASSUME Init PROVE IInv
    OBVIOUS
  <1>1. mem.op = MemNop /\ mem.wbop = WbNop /\ wb.op = WbNop
    BY DEF Init
  <1>2. TypeOK
    <2>1. first \in BOOLEAN /\ pc_out \in Pc /\ imem \in [Pc -> Instructions \cup {Unknown}]
      BY WordFacts DEF Init
    <2>2. dec \in [pc : Pc, instr : Instruction, valid : BOOLEAN]
      BY WordFacts, NopFacts DEF Init
    <2>3. rdaddr \in Registers \X Registers /\ regfile \in [Registers -> Word] /\ dmem \in [Word -> Word]
      BY WordFacts, MachineAssumption DEF Init
    <2>4. ex \in [pc : Pc, op : ExecOps, memop : MemOps, wbop : WbOps, valid : BOOLEAN]
      BY NopTypes DEF Init
    <2>5. mem \in [op : MemOps, wbop : WbOps, pc_new : Pc, pc_old : Pc, aluresult : Word,
                   zero : BOOLEAN, wrdata : Word, valid : BOOLEAN]
      BY NopTypes, WordFacts DEF Init
    <2>6. wb \in [op : WbOps, aluresult : Word, memresult : Word, pc_old : Pc]
      BY NopTypes, WordFacts DEF Init
    <2> QED
      BY <2>1, <2>2, <2>3, <2>4, <2>5, <2>6 DEF TypeOK
  <1>3. ~pcsrc
    BY <1>1 DEF pcsrc, MemNop
  <1>4. ~dec.valid /\ ~ex.valid /\ dec.instr = NopInst /\ first = TRUE /\ pc_out = Pcs - 1
    BY DEF Init, Bubble
  <1>5. ex.memop = MemNop /\ ex.wbop.rd = ZeroReg /\ ex.wbop.src = "WBS_ALU"
    BY DEF Init, Bubble, WbNop
  <1>6. InMem
    BY <1>1 DEF InMem, WbNop
  <1> QED
    BY <1>2, <1>3, <1>4, <1>5, <1>6 DEF IInv, Fetched, FirstCycle, InDecode, InExec, HasItsOperands

\* what leaves no trace when all stages wait
LEMMA WaitStep ==
  ASSUME IInv, Wait
  PROVE  /\ first = FALSE /\ first' = FALSE
         /\ UNCHANGED << pc_out, imem, dec, rdaddr, ex, wb >>
         /\ mem'.wbop = mem.wbop /\ mem'.op.branch = mem.op.branch /\ mem'.op.memwrite = FALSE
         /\ mem'.zero = mem.zero /\ mem'.pc_new = mem.pc_new /\ mem'.pc_old = mem.pc_old
         /\ mem'.aluresult = mem.aluresult
         /\ mem' \in [op : MemOps, wbop : WbOps, pc_new : Pc, pc_old : Pc, aluresult : Word,
                      zero : BOOLEAN, wrdata : Word, valid : BOOLEAN]
         /\ regfile' \in [Registers -> Word] /\ \A r \in Registers : regfile'[r] = RdData(r)
         /\ dmem' = VisibleMem /\ dmem' \in [Word -> Word]
  <1>1. TypeOK
    BY DEF IInv
  <1>2. first = FALSE /\ first' = FALSE /\ UNCHANGED << pc_out, imem, dec, rdaddr, ex, wb >>
    BY <1>1, StageTypes DEF Wait, Fetch, Decode, Exec, Writeback
  <1>3. mem' = [mem EXCEPT !.op.memread = FALSE, !.op.memwrite = FALSE]
    BY DEF Wait, Mem
  <1>4. mem'.op = [mem.op EXCEPT !.memread = FALSE, !.memwrite = FALSE]
    BY <1>1, <1>3, StageTypes DEF TypeOK
  <1>5. mem'.op \in MemOps /\ mem'.op.branch = mem.op.branch /\ mem'.op.memwrite = FALSE
    BY <1>1, <1>4, StageTypes DEF MemOps
  <1>6. /\ mem'.wbop = mem.wbop /\ mem'.zero = mem.zero /\ mem'.pc_new = mem.pc_new /\ mem'.pc_old = mem.pc_old
        /\ mem'.aluresult = mem.aluresult
        /\ mem' \in [op : MemOps, wbop : WbOps, pc_new : Pc, pc_old : Pc, aluresult : Word,
                     zero : BOOLEAN, wrdata : Word, valid : BOOLEAN]
    BY <1>1, <1>3, <1>5 DEF TypeOK
  <1>7. regfile' \in [Registers -> Word] /\ \A r \in Registers : regfile'[r] = RdData(r)
    BY <1>1, ReadTypes DEF Wait, RegWrite
  <1>8. dmem' = VisibleMem /\ dmem' \in [Word -> Word]
    BY <1>1, StoreStep DEF Wait
  <1> QED
    BY <1>2, <1>5, <1>6, <1>7, <1>8

LEMMA WaitInv ==
  ASSUME IInv, Wait
  PROVE  IInv'
  <1>1. TypeOK
    BY DEF IInv
  <1>2. TypeOK'
    BY <1>1, WaitStep DEF TypeOK
  <1>3. pcsrc' = pcsrc
    BY WaitStep DEF pcsrc
  <1>4. Fetched' /\ FirstCycle' /\ InDecode' /\ InExec'
    BY WaitStep DEF IInv, Fetched, FirstCycle, InDecode, InExec
  <1>5. InMem'
    BY WaitStep DEF IInv, InMem
  <1>6. HasItsOperands'
    <2>1. ex.op.rs1 \in Registers /\ ex.op.rs2 \in Registers
      BY <1>1, StageTypes DEF ExecOps
    <2>2. \A r \in Registers : Writes(mem.wbop, r)' = Writes(mem.wbop, r) /\ Writes(wb.op, r)' = Writes(wb.op, r)
      BY WaitStep DEF Writes
    <2>3. \A r \in Registers : ~Writes(wb.op, r) => regfile'[r] = regfile[r]
      BY WaitStep DEF RdData
    <2>4. \A r \in Registers, d \in Word : Current(r, d) =>
            Writes(mem.wbop, r)' \/ Writes(wb.op, r)' \/ d = regfile'[r]
      BY <2>2, <2>3 DEF Current
    <2>5. UNCHANGED ex
      BY WaitStep
    <2>6. ex.op.readdata1 \in Word /\ ex.op.readdata2 \in Word
      BY <1>1, StageTypes DEF ExecOps
    <2>7. ex.valid => Current(ex.op.rs1, ex.op.readdata1)' /\ Current(ex.op.rs2, ex.op.readdata2)'
      BY <2>1, <2>4, <2>5, <2>6 DEF IInv, HasItsOperands, Current, Writes
    <2>8. ex.valid /\ mem.wbop.src = "WBS_MEM" => ~Writes(mem.wbop, ex.op.rs1)' /\ ~Writes(mem.wbop, ex.op.rs2)'
      BY <2>1, <2>2, <2>5 DEF IInv, HasItsOperands, Writes
    <2> QED
      BY <2>5, <2>7, <2>8, WaitStep DEF HasItsOperands
  <1> QED
    BY <1>2, <1>4, <1>5, <1>6 DEF IInv

-----------------------------------------------------------------------------
(***************************************************************************)
(* The invariant when the pipeline goes on.                                *)
(***************************************************************************)
LEMMA RedirectInv ==
  ASSUME IInv, Redirect
  PROVE  IInv'
  <1>1. TypeOK /\ pcsrc
    BY DEF IInv, Redirect
  <1>2. /\ first' = FALSE /\ pc_out' \in Pc /\ imem' \in [Pc -> Instructions \cup {Unknown}] /\ imem'[pc_out'] # Unknown
    BY <1>1, FetchStep DEF Redirect
  <1>3. dec' = [pc |-> 0, instr |-> NopInst, valid |-> FALSE] /\ rdaddr' = << instr.rs1, instr.rs2 >> /\ ex' = Bubble
    BY DEF Redirect, Decode, Exec
  <1>4. mem'.op = MemNop /\ mem'.wbop = WbNop
    BY <1>1, MemStep DEF Redirect
  <1>5. TypeOK'
    <2>1. instr \in Instruction
      BY <1>1, StageTypes, NopFacts, Known DEF instr, IInv, Fetched
    <2>2. dec' \in [pc : Pc, instr : Instruction, valid : BOOLEAN]
      BY <1>3, WordFacts, NopFacts
    <2>3. rdaddr' \in Registers \X Registers
      BY <1>3, <2>1, InstructionFacts
    <2>4. ex' \in [pc : Pc, op : ExecOps, memop : MemOps, wbop : WbOps, valid : BOOLEAN]
      BY <1>3, NopTypes
    <2>5. mem' \in [op : MemOps, wbop : WbOps, pc_new : Pc, pc_old : Pc, aluresult : Word,
                    zero : BOOLEAN, wrdata : Word, valid : BOOLEAN]
      BY <1>1, MemStep DEF Redirect
    <2>6. /\ wb' \in [op : WbOps, aluresult : Word, memresult : Word, pc_old : Pc]
          /\ regfile' \in [Registers -> Word] /\ dmem' \in [Word -> Word]
      BY <1>1, WritebackStep, StoreStep DEF Redirect
    <2> QED
      BY <1>2, <2>2, <2>3, <2>4, <2>5, <2>6 DEF TypeOK
  <1>6. Fetched' /\ FirstCycle' /\ InDecode'
    BY <1>2, <1>3 DEF Fetched, FirstCycle, InDecode
  <1>7. InExec' /\ HasItsOperands'
    BY <1>3 DEF InExec, HasItsOperands, Bubble, WbNop
  <1>8. InMem'
    BY <1>4 DEF InMem, WbNop
  <1> QED
    BY <1>5, <1>6, <1>7, <1>8 DEF IInv

\* what exec hands on
LEMMA ExecHandsOn ==
  ASSUME IInv
  PROVE  /\ ex.wbop.src = "WBS_MEM" => ~ex.memop.memwrite
         /\ ex.wbop.src = "WBS_OPC" => ex.memop.branch = "BR_BR"
         /\ ex.wbop.src = "WBS_MEM" => ex.memop.branch = "BR_NOP"
  <1>1. CASE ex.valid
    <2>1. PICK i : ex.memop = MemOp(i) /\ ex.wbop = WbOp(i)
      BY <1>1 DEF IInv, InExec
    <2>2. i.opcode = "LOAD" <=> ex.wbop.src = "WBS_MEM"
      BY <2>1 DEF WbOp
    <2>3. i.opcode \in {"JAL", "JALR"} <=> ex.wbop.src = "WBS_OPC"
      BY <2>1 DEF WbOp
    <2>4. i.opcode = "LOAD" => Branch(i) = "BR_NOP"
      BY DEF Branch
    <2>7. ex.memop.memwrite = (i.opcode = "STORE")
      BY <2>1 DEF MemOp
    <2>5. i.opcode \in {"JAL", "JALR"} => Branch(i) = "BR_BR"
      BY DEF Branch
    <2>6. ex.memop.branch = Branch(i)
      BY <2>1 DEF MemOp
    <2> QED
      BY <2>2, <2>3, <2>4, <2>5, <2>6, <2>7
  <1>2. CASE ~ex.valid
    BY <1>2 DEF IInv, InExec
  <1> QED
    BY <1>1, <1>2

LEMMA HoldInv ==
  ASSUME IInv, HoldForLoad
  PROVE  IInv'
  <1>1. TypeOK /\ ~pcsrc /\ LoadUse
    BY DEF IInv, HoldForLoad
  <1>2. first' = FALSE /\ UNCHANGED << pc_out, imem, dec, rdaddr >> /\ ex' = Bubble
    BY <1>1, FetchStep DEF HoldForLoad, Decode, Exec
  <1>3. mem'.op = ex.memop /\ mem'.wbop = ex.wbop
    BY <1>1, MemStep DEF HoldForLoad
  <1>4. ex.valid /\ ~first
    BY <1>1 DEF LoadUse, IInv, InExec, FirstCycle
  <1>5. TypeOK'
    <2>1. ex' \in [pc : Pc, op : ExecOps, memop : MemOps, wbop : WbOps, valid : BOOLEAN]
      BY <1>2, NopTypes
    <2>2. mem' \in [op : MemOps, wbop : WbOps, pc_new : Pc, pc_old : Pc, aluresult : Word,
                    zero : BOOLEAN, wrdata : Word, valid : BOOLEAN]
      BY <1>1, MemStep DEF HoldForLoad
    <2>3. /\ wb' \in [op : WbOps, aluresult : Word, memresult : Word, pc_old : Pc]
          /\ regfile' \in [Registers -> Word] /\ dmem' \in [Word -> Word]
      BY <1>1, WritebackStep, StoreStep DEF HoldForLoad
    <2> QED
      BY <1>1, <1>2, <2>1, <2>2, <2>3 DEF TypeOK
  <1>6. Fetched' /\ FirstCycle' /\ InDecode'
    BY <1>2, <1>4 DEF IInv, Fetched, FirstCycle, InDecode
  <1>7. InExec' /\ HasItsOperands'
    BY <1>2 DEF InExec, HasItsOperands, Bubble, WbNop
  <1>8. InMem'
    BY <1>3, ExecHandsOn DEF InMem
  <1> QED
    BY <1>5, <1>6, <1>7, <1>8 DEF IInv

LEMMA FlowInv ==
  ASSUME IInv, Flow
  PROVE  IInv'
  <1>1. TypeOK /\ ~pcsrc /\ ~LoadUse
    BY DEF IInv, Flow
  <1>2. /\ first' = FALSE /\ pc_out' = pc_next /\ pc_out' \in Pc /\ imem' \in [Pc -> Instructions \cup {Unknown}]
        /\ imem'[pc_out'] # Unknown /\ \A a \in Pc : imem[a] # Unknown => imem'[a] = imem[a]
    BY <1>1, FetchStep DEF Flow
  <1>3. /\ dec' = [pc |-> pc_out, instr |-> instr, valid |-> ~first] /\ rdaddr' = << instr.rs1, instr.rs2 >>
    BY DEF Flow, Decode
  <1>4. ex' = [pc    |-> dec.pc,
               op    |-> ExecOp(dec.instr, RdData(rdaddr[1]), RdData(rdaddr[2])),
               memop |-> MemOp(dec.instr),
               wbop  |-> WbOp(dec.instr),
               valid |-> dec.valid]
    BY DEF Flow, Exec
  <1>5. mem'.op = ex.memop /\ mem'.wbop = ex.wbop
    BY <1>1, MemStep DEF Flow
  <1>6. instr \in Instruction
    BY <1>1, StageTypes, NopFacts, Known DEF instr, IInv, Fetched
  <1>7. dec.instr \in Instruction /\ WellFormed(dec.instr)
    BY <1>1, StageTypes, NopFacts, Known DEF IInv, InDecode
  <1>8. RdData(rdaddr[1]) \in Word /\ RdData(rdaddr[2]) \in Word
    BY <1>1, StageTypes, ReadTypes
  <1>9. TypeOK'
    <2>1. (~first) \in BOOLEAN
      OBVIOUS
    <2>2. dec' \in [pc : Pc, instr : Instruction, valid : BOOLEAN]
      BY <1>1, <1>3, <1>6, <2>1, StageTypes
    <2>3. rdaddr' \in Registers \X Registers
      BY <1>3, <1>6, InstructionFacts
    <2>4. ex' \in [pc : Pc, op : ExecOps, memop : MemOps, wbop : WbOps, valid : BOOLEAN]
      BY <1>1, <1>4, <1>7, <1>8, DecodeTypes, StageTypes
    <2>5. mem' \in [op : MemOps, wbop : WbOps, pc_new : Pc, pc_old : Pc, aluresult : Word,
                    zero : BOOLEAN, wrdata : Word, valid : BOOLEAN]
      BY <1>1, MemStep DEF Flow
    <2>6. /\ wb' \in [op : WbOps, aluresult : Word, memresult : Word, pc_old : Pc]
          /\ regfile' \in [Registers -> Word] /\ dmem' \in [Word -> Word]
      BY <1>1, WritebackStep, StoreStep DEF Flow
    <2> QED
      BY <1>2, <2>2, <2>3, <2>4, <2>5, <2>6 DEF TypeOK
  <1>10. Fetched' /\ FirstCycle'
    BY <1>2 DEF Fetched, FirstCycle
  <1>11. InDecode'
    <2>1. CASE first
      BY <1>3, <2>1 DEF InDecode, instr
    <2>2. CASE ~first
      <3>1. instr = imem[pc_out] /\ instr # Unknown /\ imem'[pc_out] = instr
        BY <1>1, <1>2, <2>2, StageTypes DEF instr, IInv, Fetched
      <3>2. pc_out' = ToPc(pc_out + 1)
        BY <1>1, <1>2 DEF pc_next
      <3> QED
        BY <1>2, <1>3, <2>2, <3>1, <3>2 DEF InDecode
    <2> QED
      BY <2>1, <2>2
  <1>12. InExec'
    <2>1. CASE dec.valid
      <3>1. ~first /\ dec.instr = imem[dec.pc] /\ dec.instr # Unknown /\ pc_out = ToPc(dec.pc + 1)
        BY <2>1 DEF IInv, InDecode
      <3>2. imem'[dec.pc] = dec.instr
        BY <1>1, <1>2, <3>1, StageTypes
      <3>3. ex'.op = ExecOp(dec.instr, ex'.op.readdata1, ex'.op.readdata2)
        BY <1>4 DEF ExecOp
      <3> QED
        BY <1>3, <1>4, <2>1, <3>1, <3>2, <3>3 DEF InExec
    <2>2. CASE ~dec.valid
      <3>1. dec.instr = NopInst
        BY <2>2 DEF IInv, InDecode
      <3> QED
        BY <1>4, <2>2, <3>1, NopFacts DEF InExec
    <2> QED
      BY <2>1, <2>2
  <1>13. InMem'
    BY <1>5, ExecHandsOn DEF InMem
  <1>14. HasItsOperands'
    <2> SUFFICES ASSUME dec.valid
                 PROVE  /\ ex.wbop.src = "WBS_MEM" => ~Writes(ex.wbop, ex'.op.rs1) /\ ~Writes(ex.wbop, ex'.op.rs2)
                        /\ ex'.op.readdata1 = regfile'[ex'.op.rs1] /\ ex'.op.readdata2 = regfile'[ex'.op.rs2]
      BY <1>4, <1>5 DEF HasItsOperands, Current, Writes
    <2>1. rdaddr = << dec.instr.rs1, dec.instr.rs2 >>
      BY DEF IInv, InDecode
    <2>2. /\ ex'.op.rs1 = dec.instr.rs1 /\ ex'.op.rs2 = dec.instr.rs2
          /\ ex'.op.readdata1 = RdData(dec.instr.rs1) /\ ex'.op.readdata2 = RdData(dec.instr.rs2)
      BY <1>4, <2>1 DEF ExecOp
    <2>3. regfile'[dec.instr.rs1] = RdData(dec.instr.rs1) /\ regfile'[dec.instr.rs2] = RdData(dec.instr.rs2)
      BY <1>1, <1>7, InstructionFacts, WritebackStep DEF Flow
    <2>4. ex.wbop.src = "WBS_MEM" => ~Writes(ex.wbop, dec.instr.rs1) /\ ~Writes(ex.wbop, dec.instr.rs2)
      BY <1>1 DEF LoadUse, Writes
    <2> QED
      BY <2>2, <2>3, <2>4
  <1> QED
    BY <1>9, <1>10, <1>11, <1>12, <1>13, <1>14 DEF IInv

LEMMA NextInv ==
  ASSUME IInv, [Next]_vars
  PROVE  IInv'
  <1>1. CASE UNCHANGED vars
    BY <1>1 DEF vars, fetchVars, IInv, TypeOK, Fetched, FirstCycle, InDecode, InExec, InMem, HasItsOperands,
                pcsrc, Current, Writes
  <1> QED
    BY <1>1, WaitInv, RedirectInv, HoldInv, FlowInv DEF Next

\* The inductive invariant holds in every reachable state.
THEOREM Invariance == Spec => []IInv
  <1>1. IInv /\ [Next]_vars => IInv'
    BY NextInv
  <1> QED
    BY <1>1, InitInv, PTL DEF Spec

\* The registers between the stages keep the types of core_pkg.vhd and op_pkg.vhd.
THEOREM TypeCorrect == Spec => []TypeOK
  <1>1. IInv => TypeOK
    BY DEF IInv
  <1> QED
    BY <1>1, Invariance, PTL

-----------------------------------------------------------------------------
(***************************************************************************)
(* The instruction in exec does what the sequential machine does.          *)
(***************************************************************************)
Here == imem[ex.pc]

LEMMA HereFacts ==
  ASSUME IInv, ex.valid
  PROVE  /\ Here \in Instruction /\ WellFormed(Here) /\ Here # Unknown
         /\ ex.op.aluop = AluOp(Here) /\ ex.op.alusrc1 = (Here.opcode = "AUIPC")
         /\ ex.op.alusrc2 = (Here.opcode \in {"LUI", "AUIPC", "LOAD", "STORE", "OP_IMM"})
         /\ ex.op.alusrc3 = (Here.opcode = "JALR")
         /\ ex.op.rs1 = Here.rs1 /\ ex.op.rs2 = Here.rs2 /\ ex.op.imm = Here.imm
         /\ ex.memop = MemOp(Here) /\ ex.wbop = WbOp(Here)
  <1>1. TypeOK /\ Here # Unknown /\ ex.memop = MemOp(Here) /\ ex.wbop = WbOp(Here)
    BY DEF IInv, InExec, Here
  <1>2. Here \in Instruction /\ WellFormed(Here)
    BY <1>1, StageTypes, Known DEF Here
  <1>3. ex.op = ExecOp(Here, ex.op.readdata1, ex.op.readdata2)
    BY DEF IInv, InExec, Here
  <1>4. \A d1, d2 : LET o == ExecOp(Here, d1, d2)
                    IN /\ o.aluop = AluOp(Here) /\ o.alusrc1 = (Here.opcode = "AUIPC")
                       /\ o.alusrc2 = (Here.opcode \in {"LUI", "AUIPC", "LOAD", "STORE", "OP_IMM"})
                       /\ o.alusrc3 = (Here.opcode = "JALR")
                       /\ o.rs1 = Here.rs1 /\ o.rs2 = Here.rs2 /\ o.imm = Here.imm
    BY DEF ExecOp
  <1> QED
    BY <1>1, <1>2, <1>3, <1>4

\* every operand is what the last instruction that writes it has left
LEMMA Operands ==
  ASSUME IInv, ex.valid, ~pcsrc
  PROVE  valA = VisibleRegs[Here.rs1] /\ valB = VisibleRegs[Here.rs2]
  <1>1. Here.rs1 \in Registers /\ Here.rs2 \in Registers /\ ex.op.rs1 = Here.rs1 /\ ex.op.rs2 = Here.rs2
    BY HereFacts, InstructionFacts
  <1>2. ASSUME NEW r \in Registers, NEW d, Current(r, d), mem.wbop.src = "WBS_MEM" => ~Writes(mem.wbop, r)
        PROVE  Fwd(r, d) = VisibleRegs[r]
    <2>1. CASE Writes(mem.wbop, r)
      <3>1. mem.wbop.src # "WBS_OPC"
        BY DEF IInv, InMem, pcsrc
      <3>2. mem.wbop.src = "WBS_ALU"
        BY <1>2, <2>1, <3>1, StageTypes DEF IInv, WbOps
      <3> QED
        BY <2>1, <3>2 DEF Fwd, VisibleRegs, MemData
    <2>2. CASE ~Writes(mem.wbop, r)
      BY <1>2, <2>2 DEF Fwd, VisibleRegs, RdData, Current
    <2> QED
      BY <2>1, <2>2
  <1> QED
    BY <1>1, <1>2 DEF IInv, HasItsOperands, valA, valB

LEMMA SameCompute ==
  ASSUME NEW f \in {"ADD", "SUB", "SLT", "SLTU"}, NEW a, NEW b
  PROVE  /\ f = "ADD" => Abstract!Compute(f, a, b) = Add(a, b)
         /\ f = "SUB" => Abstract!Compute(f, a, b) = Sub(a, b)
         /\ f = "SLT" => Abstract!Compute(f, a, b) = IF Signed(a) < Signed(b) THEN 1 % Words ELSE 0
         /\ f = "SLTU" => Abstract!Compute(f, a, b) = IF a < b THEN 1 % Words ELSE 0
  BY SameArithmetic DEF Abstract!Compute

LEMMA Computes ==
  ASSUME IInv, ex.valid, ~pcsrc
  PROVE  /\ Here.opcode \in {"OP", "OP_IMM", "LUI", "AUIPC"} => alu_r = Abstract!Result(Here)
         /\ Here.opcode \in {"LOAD", "STORE"} => alu_r = Add(VisibleRegs[Here.rs1], Here.imm)
  <1>1. VisiblePc = ex.pc
    BY DEF VisiblePc
  <1>2. CASE Here.opcode \in {"OP", "OP_IMM"}
    <2>1. /\ ex.op.aluop = Here.funct /\ Here.funct \in {"ADD", "SUB", "SLT", "SLTU"}
          /\ alu_a = valA /\ alu_b = IF Here.opcode = "OP" THEN valB ELSE Here.imm
      BY <1>2, HereFacts DEF AluOp, alu_a, alu_b, WellFormed
    <2>2. alu_r = Abstract!Compute(Here.funct, alu_a, alu_b)
      BY <2>1, SameCompute DEF alu_r
    <2> QED
      BY <1>2, <2>1, <2>2, Operands DEF Abstract!Result
  <1>3. CASE Here.opcode = "LUI"
    BY <1>3, HereFacts DEF AluOp, alu_r, alu_b, Abstract!Result
  <1>4. CASE Here.opcode = "AUIPC"
    <2>1. alu_r = Add(ToData(ex.pc), Here.imm)
      BY <1>4, HereFacts DEF AluOp, alu_r, alu_a, alu_b
    <2> QED
      BY <1>1, <1>4, <2>1, SameArithmetic DEF Abstract!Result
  <1>5. CASE Here.opcode \in {"LOAD", "STORE"}
    <2>1. alu_r = Add(valA, Here.imm)
      BY <1>5, HereFacts DEF AluOp, alu_r, alu_a, alu_b
    <2> QED
      BY <1>5, <2>1, Operands
  <1> QED
    BY <1>2, <1>3, <1>4, <1>5

Taken(branch, zero) ==
  branch = "BR_BR" \/ (branch = "BR_CND" /\ zero) \/ (branch = "BR_CNDI" /\ ~zero)

LEMMA Decides ==
  ASSUME IInv, ex.valid, ~pcsrc
  PROVE  /\ Taken(ex.memop.branch, alu_z) <=> Abstract!Jumps(Here)
         /\ pc_new = Abstract!Target(Here)
  <1>1. VisiblePc = ex.pc /\ ex.memop.branch = Branch(Here)
    BY HereFacts DEF VisiblePc, MemOp
  <1>2. pc_new = Abstract!Target(Here)
    <2>1. CASE Here.opcode = "JALR"
      <3>1. pc_new = ToPc(Add(VisibleRegs[Here.rs1], Here.imm))
        BY <2>1, HereFacts, Operands DEF pc_new
      <3> QED
        BY <2>1, <3>1, SameArithmetic DEF Abstract!Target
    <2>2. CASE Here.opcode # "JALR"
      <3>1. pc_new = ToPc(ex.pc + Signed(Here.imm))
        BY <2>2, HereFacts DEF pc_new
      <3> QED
        BY <1>1, <2>2, <3>1, SameArithmetic DEF Abstract!Target
    <2> QED
      BY <2>1, <2>2
  <1>3. CASE Here.opcode \in {"JAL", "JALR"}
    <2>1. Branch(Here) = "BR_BR"
      BY <1>3 DEF Branch
    <2> QED
      BY <1>1, <1>2, <1>3, <2>1 DEF Taken, Abstract!Jumps
  <1>4. CASE Here.opcode = "BRANCH"
    <2>1. /\ Here.funct \in {"BEQ", "BNE", "BLT", "BGE", "BLTU", "BGEU"} /\ ex.op.aluop = AluOp(Here)
          /\ alu_a = VisibleRegs[Here.rs1] /\ alu_b = VisibleRegs[Here.rs2]
      BY <1>4, HereFacts, Operands DEF WellFormed, alu_a, alu_b
    <2>2. alu_a \in Int /\ alu_b \in Int /\ Signed(alu_a) \in Int /\ Signed(alu_b) \in Int
      <3>1. VisibleRegs[Here.rs1] = valA /\ VisibleRegs[Here.rs2] = valB /\ valA \in Word /\ valB \in Word
        BY Operands, SignalTypes DEF IInv
      <3> QED
        BY <2>1, <3>1, WordFacts, Numbers
    <2>3. Taken(Branch(Here), alu_z) <=> Abstract!Holds(Here.funct, alu_a, alu_b)
      <3>1. Branch(Here) = IF Here.funct \in {"BEQ", "BGE", "BGEU"} THEN "BR_CND" ELSE "BR_CNDI"
        BY <1>4 DEF Branch
      <3>2. CASE Here.funct \in {"BEQ", "BNE"}
        <4>1. ex.op.aluop = "SUB"
          BY <1>4, <2>1, <3>2 DEF AluOp
        <4>2. alu_z <=> alu_a = alu_b
          BY <4>1 DEF alu_z
        <4> QED
          BY <3>1, <3>2, <4>2 DEF Taken, Abstract!Holds
      <3>3. CASE Here.funct \in {"BLT", "BGE"}
        <4>1. ex.op.aluop = "SLT"
          BY <1>4, <2>1, <3>3 DEF AluOp
        <4>2. alu_z <=> ~(Signed(alu_a) < Signed(alu_b))
          BY <4>1 DEF alu_z
        <4>3. Abstract!Holds(Here.funct, alu_a, alu_b) <=>
                IF Here.funct = "BLT" THEN Signed(alu_a) < Signed(alu_b) ELSE Signed(alu_a) >= Signed(alu_b)
          BY <3>3, SameArithmetic DEF Abstract!Holds
        <4> QED
          BY <2>2, <3>1, <3>3, <4>2, <4>3 DEF Taken
      <3>4. CASE Here.funct \in {"BLTU", "BGEU"}
        <4>1. ex.op.aluop = "SLTU"
          BY <1>4, <2>1, <3>4 DEF AluOp
        <4>2. alu_z <=> ~(alu_a < alu_b)
          BY <4>1 DEF alu_z
        <4>3. Abstract!Holds(Here.funct, alu_a, alu_b) <=>
                IF Here.funct = "BLTU" THEN alu_a < alu_b ELSE alu_a >= alu_b
          BY <3>4 DEF Abstract!Holds
        <4> QED
          BY <2>2, <3>1, <3>4, <4>2, <4>3 DEF Taken
      <3> QED
        BY <2>1, <3>2, <3>3, <3>4
    <2>4. Abstract!Jumps(Here) <=> Abstract!Holds(Here.funct, alu_a, alu_b)
      BY <1>4, <2>1 DEF Abstract!Jumps
    <2> QED
      BY <1>1, <1>2, <2>3, <2>4
  <1>5. CASE Here.opcode \notin {"JAL", "JALR", "BRANCH"}
    <2>1. Branch(Here) = "BR_NOP"
      BY <1>5 DEF Branch
    <2> QED
      BY <1>1, <1>2, <1>5, <2>1 DEF Taken, Abstract!Jumps
  <1> QED
    BY <1>2, <1>3, <1>4, <1>5

-----------------------------------------------------------------------------
(***************************************************************************)
(* Every edge is a step of the sequential machine, or shows nothing.       *)
(***************************************************************************)
LEMMA InitRefines == Init => Abstract!Init
  <1> SUFFICES ASSUME Init PROVE Abstract!Init
    OBVIOUS
  <1>1. mem.op = MemNop /\ mem.wbop = WbNop /\ wb.op = WbNop
    BY DEF Init
  <1>2. ~pcsrc
    BY <1>1 DEF pcsrc, MemNop
  <1>3. VisiblePc = 0
    BY <1>2 DEF Init, VisiblePc, Bubble
  <1>4. VisibleRegs = [r \in Registers |-> 0]
    BY <1>1 DEF Init, VisibleRegs, RdData, Writes, WbNop
  <1>5. VisibleMem = dmem
    BY <1>1 DEF VisibleMem, MemNop
  <1> QED
    BY <1>3, <1>4, <1>5, SameArithmetic DEF Init, Abstract!Init

LEMMA Reveals ==
  ASSUME IInv, Next
  PROVE  Abstract!Reveal
  <1>1. TypeOK
    BY DEF IInv
  <1>2. CASE Fetch(TRUE) \/ Fetch(FALSE)
    BY <1>1, <1>2, FetchStep, SameArithmetic DEF Abstract!Reveal
  <1> QED
    BY <1>2 DEF Next, Wait, Redirect, HoldForLoad, Flow

LEMMA WaitShowsNothing ==
  ASSUME IInv, Wait
  PROVE  UNCHANGED << VisiblePc, VisibleRegs, VisibleMem >>
  <1>1. pcsrc' = pcsrc
    BY WaitStep DEF pcsrc
  <1>2. VisiblePc' = VisiblePc
    BY <1>1, WaitStep DEF VisiblePc
  <1>3. VisibleMem' = VisibleMem
    BY WaitStep DEF VisibleMem
  <1>4. \A r \in Registers : RdData(r)' = RdData(r)
    BY WaitStep DEF RdData, WbData, Writes
  <1>5. MemData' = MemData
    <2>1. mem.wbop.src = "WBS_MEM" => VisibleMem = dmem
      BY DEF IInv, InMem, VisibleMem
    <2>2. mem.wbop.src \in {"WBS_ALU", "WBS_MEM", "WBS_OPC"}
      BY StageTypes DEF IInv, WbOps
    <2>3. CASE mem.wbop.src = "WBS_ALU"
      BY <2>3, WaitStep DEF MemData
    <2>4. CASE mem.wbop.src = "WBS_MEM"
      BY <2>1, <2>4, WaitStep DEF MemData
    <2>5. CASE mem.wbop.src = "WBS_OPC"
      BY <2>5, WaitStep DEF MemData
    <2> QED
      BY <2>2, <2>3, <2>4, <2>5
  <1>6. \A r \in Registers : Writes(mem.wbop, r)' = Writes(mem.wbop, r)
    BY WaitStep DEF Writes
  <1>7. VisibleRegs' = VisibleRegs
    BY <1>4, <1>5, <1>6 DEF VisibleRegs
  <1> QED
    BY <1>2, <1>3, <1>7

\* the flushed instructions have not been seen
LEMMA RedirectShowsNothing ==
  ASSUME IInv, Redirect
  PROVE  UNCHANGED << VisiblePc, VisibleRegs, VisibleMem >>
  <1>1. TypeOK /\ pcsrc
    BY DEF IInv, Redirect
  <1>2. mem'.op = MemNop /\ mem'.wbop = WbNop
    BY <1>1, MemStep DEF Redirect
  <1>3. first' = FALSE /\ pc_out' = mem.pc_new /\ dec'.valid = FALSE /\ ex'.valid = FALSE
    <2>1. first' = FALSE /\ pc_out' = pc_next
      BY <1>1, FetchStep DEF Redirect
    <2>2. dec'.valid = FALSE /\ ex'.valid = FALSE
      BY DEF Redirect, Decode, Exec, Bubble
    <2> QED
      BY <1>1, <2>1, <2>2 DEF pc_next
  <1>4. ~pcsrc'
    BY <1>2 DEF pcsrc, MemNop
  <1>5. VisiblePc' = VisiblePc
    BY <1>1, <1>3, <1>4 DEF VisiblePc
  <1>6. VisibleMem' = VisibleMem
    BY <1>1, <1>2, StoreStep DEF Redirect, VisibleMem, MemNop
  <1>7. VisibleRegs' = VisibleRegs
    <2>1. \A r \in Registers : RdData(r)' = VisibleRegs[r]
      BY <1>1, WritebackStep DEF Redirect
    <2>2. \A r \in Registers : ~Writes(mem.wbop, r)'
      BY <1>2 DEF Writes, WbNop
    <2>3. VisibleRegs' = [r \in Registers |-> VisibleRegs[r]]
      BY <2>1, <2>2 DEF VisibleRegs
    <2> QED
      BY <2>3 DEF VisibleRegs
  <1> QED
    BY <1>5, <1>6, <1>7

\* what is seen of the instruction that leaves exec
LEMMA Advance ==
  ASSUME IInv, HoldForLoad \/ Flow
  PROVE  /\ VisibleRegs' = [r \in Registers |-> IF Writes(ex.wbop, r) THEN MemData' ELSE VisibleRegs[r]]
         /\ VisibleMem' = IF ex.memop.memwrite THEN [VisibleMem EXCEPT ![alu_r] = valB] ELSE VisibleMem
         /\ ex.wbop.src = "WBS_ALU" => MemData' = alu_r
         /\ ex.wbop.src = "WBS_MEM" => MemData' = VisibleMem[alu_r]
         /\ ex.wbop.src = "WBS_OPC" => MemData' = ToData(ToPc(ex.pc + 1))
         /\ pcsrc' <=> Taken(ex.memop.branch, alu_z)
         /\ mem'.pc_new = pc_new
  <1>1. TypeOK /\ RegWrite /\ Writeback(FALSE) /\ Store /\ Mem(FALSE, FALSE)
    BY DEF IInv, HoldForLoad, Flow
  <1>2. /\ mem'.op = ex.memop /\ mem'.wbop = ex.wbop /\ mem'.pc_new = pc_new /\ mem'.pc_old = ex.pc
        /\ mem'.aluresult = alu_r /\ mem'.zero = alu_z /\ mem'.wrdata = valB
    BY <1>1, MemStep
  <1>3. dmem' = VisibleMem /\ \A r \in Registers : RdData(r)' = VisibleRegs[r]
    BY <1>1, StoreStep, WritebackStep
  <1>4. VisibleRegs' = [r \in Registers |-> IF Writes(ex.wbop, r) THEN MemData' ELSE VisibleRegs[r]]
    BY <1>2, <1>3 DEF VisibleRegs, Writes
  <1>5. VisibleMem' = IF ex.memop.memwrite THEN [VisibleMem EXCEPT ![alu_r] = valB] ELSE VisibleMem
    BY <1>2, <1>3 DEF VisibleMem
  <1>6. /\ ex.wbop.src = "WBS_ALU" => MemData' = alu_r
        /\ ex.wbop.src = "WBS_MEM" => MemData' = VisibleMem[alu_r]
        /\ ex.wbop.src = "WBS_OPC" => MemData' = ToData(ToPc(ex.pc + 1))
    BY <1>2, <1>3 DEF MemData
  <1>7. pcsrc' <=> Taken(ex.memop.branch, alu_z)
    BY <1>2 DEF pcsrc, Taken
  <1> QED
    BY <1>2, <1>4, <1>5, <1>6, <1>7

LEMMA BubbleShowsNothing ==
  ASSUME IInv, Flow, ~ex.valid
  PROVE  UNCHANGED << VisiblePc, VisibleRegs, VisibleMem >>
  <1>1. ex.memop = MemNop /\ ex.wbop.rd = ZeroReg
    BY DEF IInv, InExec
  <1>2. VisibleMem' = VisibleMem
    BY <1>1, Advance DEF MemNop
  <1>3. VisibleRegs' = VisibleRegs
    <2>1. \A r \in Registers : ~Writes(ex.wbop, r)
      BY <1>1 DEF Writes
    <2>2. VisibleRegs' = [r \in Registers |-> VisibleRegs[r]]
      BY <2>1, Advance
    <2> QED
      BY <2>2 DEF VisibleRegs
  <1>4. ~pcsrc /\ ~pcsrc'
    <2>1. ex.memop.branch = "BR_NOP"
      BY <1>1 DEF MemNop
    <2>2. ~Taken(ex.memop.branch, alu_z)
      BY <2>1 DEF Taken
    <2> QED
      BY <2>2, Advance DEF Flow
  <1>5. /\ ex'.valid = dec.valid /\ ex'.pc = dec.pc /\ dec'.valid = ~first /\ dec'.pc = pc_out
        /\ first' = FALSE /\ pc_out' = ToPc(pc_out + 1)
    <2>1. first' = FALSE /\ pc_out' = pc_next
      BY FetchStep DEF Flow, IInv
    <2>2. ex'.valid = dec.valid /\ ex'.pc = dec.pc
      BY DEF Flow, Exec
    <2>3. dec'.valid = ~first /\ dec'.pc = pc_out
      BY DEF Flow, Decode
    <2> QED
      BY <1>4, <2>1, <2>2, <2>3 DEF pc_next
  <1>6. VisiblePc' = VisiblePc
    <2>1. CASE dec.valid
      BY <1>4, <1>5, <2>1 DEF VisiblePc
    <2>2. CASE ~dec.valid /\ ~first
      BY <1>4, <1>5, <2>2 DEF VisiblePc
    <2>3. CASE ~dec.valid /\ first
      <3>1. pc_out' = 0
        <4>1. Pcs \in Nat \ {0} /\ pc_out = Pcs - 1
          BY <2>3, WordFacts DEF IInv, FirstCycle
        <4>2. pc_out + 1 = Pcs /\ Pcs % Pcs = 0
          BY <4>1
        <4> QED
          BY <1>5, <4>2 DEF ToPc
      <3> QED
        BY <1>4, <1>5, <2>3, <3>1 DEF VisiblePc
    <2> QED
      BY <2>1, <2>2, <2>3
  <1> QED
    BY <1>2, <1>3, <1>6

LEMMA Executes ==
  ASSUME IInv, HoldForLoad \/ Flow, ex.valid
  PROVE  Abstract!Execute(Here)
  <1>1. TypeOK /\ ~pcsrc /\ VisiblePc = ex.pc
    BY DEF IInv, HoldForLoad, Flow, VisiblePc
  <1>2. Here \in Instruction /\ ex.memop = MemOp(Here) /\ ex.wbop = WbOp(Here)
    BY HereFacts
  <1>3. VisiblePc' = IF Abstract!Jumps(Here) THEN Abstract!Target(Here) ELSE Abstract!ToPc(ex.pc + 1)
    <2>1. CASE Abstract!Jumps(Here)
      <3>1. pcsrc' /\ mem'.pc_new = Abstract!Target(Here)
        BY <1>1, <2>1, Advance, Decides
      <3> QED
        BY <2>1, <3>1 DEF VisiblePc
    <2>2. CASE ~Abstract!Jumps(Here)
      <3>1. ~pcsrc' /\ dec.valid /\ dec.pc = ToPc(ex.pc + 1)
        BY <1>1, <2>2, Advance, Decides DEF IInv, InExec
      <3>2. CASE Flow
        <4>1. ex'.valid = dec.valid /\ ex'.pc = dec.pc
          BY <3>2 DEF Flow, Exec
        <4> QED
          BY <2>2, <3>1, <4>1, SameArithmetic DEF VisiblePc
      <3>3. CASE HoldForLoad
        <4>1. ex'.valid = FALSE /\ dec' = dec
          BY <3>3 DEF HoldForLoad, Exec, Decode, Bubble
        <4> QED
          BY <2>2, <3>1, <4>1, SameArithmetic DEF VisiblePc
      <3> QED
        BY <3>2, <3>3
    <2> QED
      BY <2>1, <2>2
  <1>4. VisibleRegs' = IF Here.opcode \notin {"STORE", "BRANCH", "NOP"} /\ Here.rd # ZeroReg
                       THEN [VisibleRegs EXCEPT ![Here.rd] = Abstract!Result(Here)] ELSE VisibleRegs
    <2>1. ex.wbop.write = (Here.opcode \notin {"STORE", "BRANCH", "NOP"}) /\ ex.wbop.rd = Here.rd
      BY <1>2 DEF WbOp
    <2>2. CASE Here.opcode \notin {"STORE", "BRANCH", "NOP"} /\ Here.rd # ZeroReg
      <3>1. MemData' = Abstract!Result(Here)
        <4>1. CASE Here.opcode \in {"OP", "OP_IMM", "LUI", "AUIPC"}
          <5>1. ex.wbop.src = "WBS_ALU"
            BY <1>2, <4>1 DEF WbOp
          <5> QED
            BY <1>1, <4>1, <5>1, Advance, Computes
        <4>2. CASE Here.opcode = "LOAD"
          <5>1. ex.wbop.src = "WBS_MEM" /\ alu_r = Add(VisibleRegs[Here.rs1], Here.imm)
            BY <1>1, <1>2, <4>2, Computes DEF WbOp
          <5> QED
            BY <4>2, <5>1, Advance, SameArithmetic DEF Abstract!Result
        <4>3. CASE Here.opcode \in {"JAL", "JALR"}
          <5>1. ex.wbop.src = "WBS_OPC"
            BY <1>2, <4>3 DEF WbOp
          <5> QED
            BY <1>1, <4>3, <5>1, Advance, SameArithmetic DEF Abstract!Result
        <4> QED
          BY <1>2, <2>2, <4>1, <4>2, <4>3, InstructionFacts
      <3>2. \A r \in Registers : Writes(ex.wbop, r) <=> r = Here.rd
        BY <2>1, <2>2 DEF Writes
      <3>3. VisibleRegs' = [r \in Registers |-> IF r = Here.rd THEN Abstract!Result(Here) ELSE VisibleRegs[r]]
        BY <3>1, <3>2, Advance
      <3>4. [VisibleRegs EXCEPT ![Here.rd] = Abstract!Result(Here)]
              = [r \in Registers |-> IF r = Here.rd THEN Abstract!Result(Here) ELSE VisibleRegs[r]]
        BY Zenon DEF VisibleRegs
      <3> QED
        BY <2>2, <3>3, <3>4
    <2>3. CASE ~(Here.opcode \notin {"STORE", "BRANCH", "NOP"} /\ Here.rd # ZeroReg)
      <3>1. \A r \in Registers : ~Writes(ex.wbop, r)
        BY <2>1, <2>3 DEF Writes
      <3>2. VisibleRegs' = [r \in Registers |-> VisibleRegs[r]]
        BY <3>1, Advance
      <3> QED
        BY <2>3, <3>2 DEF VisibleRegs
    <2> QED
      BY <2>2, <2>3
  <1>5. VisibleMem' = IF Here.opcode = "STORE"
                      THEN [VisibleMem EXCEPT ![Abstract!Add(VisibleRegs[Here.rs1], Here.imm)] = VisibleRegs[Here.rs2]]
                      ELSE VisibleMem
    <2>1. ex.memop.memwrite = (Here.opcode = "STORE")
      BY <1>2 DEF MemOp
    <2>2. CASE Here.opcode = "STORE"
      <3>1. alu_r = Abstract!Add(VisibleRegs[Here.rs1], Here.imm) /\ valB = VisibleRegs[Here.rs2]
        BY <1>1, <2>2, Computes, Operands, SameArithmetic
      <3> QED
        BY <2>1, <2>2, <3>1, Advance
    <2>3. CASE Here.opcode # "STORE"
      BY <2>1, <2>3, Advance
    <2> QED
      BY <2>2, <2>3
  <1> QED
    BY <1>1, <1>3, <1>4, <1>5 DEF Abstract!Execute

LEMMA NextRefines ==
  ASSUME IInv, [Next]_vars
  PROVE  [Abstract!Next]_<< imem, VisiblePc, VisibleRegs, VisibleMem >>
  <1>1. CASE UNCHANGED vars
    BY <1>1 DEF vars, fetchVars, VisiblePc, VisibleRegs, VisibleMem, RdData, MemData, WbData, Writes, pcsrc
  <1>2. CASE Wait \/ Redirect \/ (Flow /\ ~ex.valid)
    <2>1. UNCHANGED << VisiblePc, VisibleRegs, VisibleMem >>
      BY <1>2, WaitShowsNothing, RedirectShowsNothing, BubbleShowsNothing
    <2>2. Abstract!Reveal
      BY <1>2, Reveals DEF Next
    <2> QED
      BY <2>1, <2>2 DEF Abstract!Next
  <1>3. CASE (HoldForLoad \/ Flow) /\ ex.valid
    <2>1. Abstract!Execute(Here) /\ Abstract!Reveal
      BY <1>3, Executes, Reveals DEF Next
    <2>2. VisiblePc = ex.pc /\ imem[ex.pc] # Unknown
      BY <1>3 DEF VisiblePc, HoldForLoad, Flow, IInv, InExec
    <2> QED
      BY <2>1, <2>2 DEF Abstract!Next, Here
  <1>4. CASE HoldForLoad /\ ~ex.valid
    BY <1>4 DEF HoldForLoad, LoadUse, IInv, InExec
  <1> QED
    BY <1>1, <1>2, <1>3, <1>4 DEF Next

\* Whatever the program, its data, the width of the words and the cycles in which the
\* memories stall: the pipeline executes one instruction after the other
\* (ctrl.vhd, fwd.vhd and the five stages).
THEOREM PipelineIsSequential == Spec => IsSequential
  <1>1. IInv /\ [Next]_vars => [Abstract!Next]_<< imem, VisiblePc, VisibleRegs, VisibleMem >>
    BY NextRefines
  <1> QED
    BY <1>1, InitRefines, Invariance, PTL DEF Spec, IsSequential, Abstract!Spec

=============================================================================
