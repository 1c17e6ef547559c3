------------------------------ MODULE Pipeline -------------------------------
(***************************************************************************)
(* The five stages of ca/miriv (fetch.vhd, decode.vhd with regfile.vhd,    *)
(* exec.vhd with alu.vhd and two fwd.vhd, mem.vhd, wb.vhd) and the hazard  *)
(* control ctrl.vhd.  One step is one rising clock edge; an action is one  *)
(* branch of ctrl_logic, and gives every stage its next contents.          *)
(*                                                                         *)
(* The data memory is the one atomic memory that Cache is shown to be; it  *)
(* or the instruction memory may stall the pipeline in any cycle.          *)
(***************************************************************************)
EXTENDS Miriv

CONSTANT Unknown  \* an instruction nobody has fetched yet

ASSUME UnknownAssumption == Unknown \notin Instructions

VARIABLES
  first,    \* fetch: the cycle after the reset, with instr_nop set
  pc_out,   \* fetch: the address of the instruction on the bus
  imem,     \* the instruction memory
  dec,      \* decode: pc, instr
  rdaddr,   \* regfile: rdaddr1_sync, rdaddr2_sync
  regfile,  \* regfile: the registers
  ex,       \* exec: pc, exec_op, mem_op, wb_op
  mem,      \* mem: reg_t
  dmem,     \* the data memory
  wb        \* wb: reg_t

fetchVars == << first, pc_out, imem >>
vars == << fetchVars, dec, rdaddr, regfile, ex, mem, dmem, wb >>

-----------------------------------------------------------------------------
(***************************************************************************)
(* Decoding.  rs1 and rs2 are bits of every instruction, whether it reads  *)
(* registers or not; "NOP" stands for the encodings without an effect.     *)
(***************************************************************************)
NopInst == [opcode |-> "OP_IMM", funct |-> "ADD", rd |-> ZeroReg,
            rs1 |-> ZeroReg, rs2 |-> ZeroReg, imm |-> 0]

AluOp(i) ==
  CASE i.opcode \in {"OP", "OP_IMM"} -> i.funct
    [] i.opcode \in {"AUIPC", "LOAD", "STORE"} -> "ADD"
    [] i.opcode = "BRANCH" /\ i.funct \in {"BEQ", "BNE"}   -> "SUB"
    [] i.opcode = "BRANCH" /\ i.funct \in {"BLT", "BGE"}   -> "SLT"
    [] i.opcode = "BRANCH" /\ i.funct \in {"BLTU", "BGEU"} -> "SLTU"
    [] OTHER -> "NOP"

ExecOp(i, data1, data2) ==
  [aluop   |-> AluOp(i),
   alusrc1 |-> i.opcode = "AUIPC",
   alusrc2 |-> i.opcode \in {"LUI", "AUIPC", "LOAD", "STORE", "OP_IMM"},
   alusrc3 |-> i.opcode = "JALR",
   rs1 |-> i.rs1, rs2 |-> i.rs2, readdata1 |-> data1, readdata2 |-> data2, imm |-> i.imm]

ExecNop == [aluop |-> "NOP", alusrc1 |-> FALSE, alusrc2 |-> FALSE, alusrc3 |-> FALSE,
            rs1 |-> ZeroReg, rs2 |-> ZeroReg, readdata1 |-> 0, readdata2 |-> 0, imm |-> 0]

Branch(i) == CASE i.opcode \in {"JAL", "JALR"} -> "BR_BR"
               [] i.opcode = "BRANCH" ->
                    IF i.funct \in {"BEQ", "BGE", "BGEU"} THEN "BR_CND" ELSE "BR_CNDI"
               [] OTHER -> "BR_NOP"

MemOp(i) == [branch   |-> Branch(i),
             memread  |-> i.opcode = "LOAD",
             memwrite |-> i.opcode = "STORE"]

MemNop == [branch |-> "BR_NOP", memread |-> FALSE, memwrite |-> FALSE]

WbOp(i) == [rd    |-> i.rd,
            write |-> i.opcode \notin {"STORE", "BRANCH", "NOP"},
            src   |-> CASE i.opcode = "LOAD"            -> "WBS_MEM"
                        [] i.opcode \in {"JAL", "JALR"} -> "WBS_OPC"
                        [] OTHER                        -> "WBS_ALU"]

WbNop == [rd |-> ZeroReg, write |-> FALSE, src |-> "WBS_ALU"]

-----------------------------------------------------------------------------
(***************************************************************************)
(* The combinational signals of the cycle before the edge.                 *)
(***************************************************************************)
pcsrc == \/ mem.op.branch = "BR_CND" /\ mem.zero
         \/ mem.op.branch = "BR_CNDI" /\ ~mem.zero
         \/ mem.op.branch = "BR_BR"

pc_next == IF pcsrc THEN mem.pc_new ELSE ToPc(pc_out + 1)

instr == IF first THEN NopInst ELSE imem[pc_out]

\* wb.vhd, reg_write
WbData == CASE wb.op.src = "WBS_ALU" -> wb.aluresult
            [] wb.op.src = "WBS_MEM" -> wb.memresult
            [] wb.op.src = "WBS_OPC" -> ToData(ToPc(wb.pc_old + 1))

Writes(op, r) == op.write /\ op.rd # ZeroReg /\ op.rd = r

\* the read port of regfile, with its write-through (decode not stalled)
RdData(r) == IF Writes(wb.op, r) THEN WbData ELSE regfile[r]

\* a mutant: the older of two results wins
FwdOlder(r, readdata) == IF Writes(wb.op, r) THEN WbData
                         ELSE IF Writes(mem.wbop, r) THEN mem.aluresult
                         ELSE readdata

\* fwd.vhd, and the multiplexers behind it
Fwd(r, readdata) == IF Writes(mem.wbop, r) THEN mem.aluresult
                    ELSE IF Writes(wb.op, r) THEN WbData
                    ELSE readdata

valA == Fwd(ex.op.rs1, ex.op.readdata1)
valB == Fwd(ex.op.rs2, ex.op.readdata2)

alu_a == IF ex.op.alusrc1 THEN ToData(ex.pc) ELSE valA
alu_b == IF ex.op.alusrc2 THEN ex.op.imm ELSE valB

alu_r == CASE ex.op.aluop = "NOP"  -> alu_b
           [] ex.op.aluop = "ADD"  -> Add(alu_a, alu_b)
           [] ex.op.aluop = "SUB"  -> Sub(alu_a, alu_b)
           [] ex.op.aluop = "SLT"  -> IF Signed(alu_a) < Signed(alu_b) THEN 1 % Words ELSE 0
           [] ex.op.aluop = "SLTU" -> IF alu_a < alu_b THEN 1 % Words ELSE 0

\* '-' for the operations no branch uses
alu_z == CASE ex.op.aluop = "SUB"  -> alu_a = alu_b
           [] ex.op.aluop = "SLT"  -> ~(Signed(alu_a) < Signed(alu_b))
           [] ex.op.aluop = "SLTU" -> ~(alu_a < alu_b)
           [] OTHER                -> FALSE

pc_new == IF ex.op.alusrc3 THEN ToPc(Add(valA, ex.op.imm)) ELSE ToPc(ex.pc + Signed(ex.op.imm))

\* ctrl.vhd: the instruction in decode wants what a load in exec brings
LoadUse == /\ ex.wbop.src = "WBS_MEM" /\ ex.wbop.write /\ ex.wbop.rd # ZeroReg
           /\ ex.wbop.rd \in {dec.instr.rs1, dec.instr.rs2}

-----------------------------------------------------------------------------
(***************************************************************************)
(* The stages at a clock edge.  "valid" is not in the code: it tells an    *)
(* instruction of the program from the NOP that a flush leaves behind.     *)
(***************************************************************************)
Fetch(stall) ==
  /\ first' = FALSE
  /\ IF stall THEN UNCHANGED << pc_out, imem >>
     ELSE /\ pc_out' = pc_next
          /\ IF imem[pc_next] = Unknown
             THEN \E i \in Instructions : imem' = [imem EXCEPT ![pc_next] = i]
             ELSE UNCHANGED imem

\* a mutant: the instruction behind a jump is kept
DecodeKeep(stall, flush) ==
  IF stall THEN UNCHANGED << dec, rdaddr >>
  ELSE /\ rdaddr' = << instr.rs1, instr.rs2 >>
       /\ dec' = [pc |-> pc_out, instr |-> instr, valid |-> ~first]

\* the addresses of regfile know no flush
Decode(stall, flush) ==
  IF stall THEN UNCHANGED << dec, rdaddr >>
  ELSE /\ rdaddr' = << instr.rs1, instr.rs2 >>
       /\ dec' = IF flush THEN [pc |-> 0, instr |-> NopInst, valid |-> FALSE]
                          ELSE [pc |-> pc_out, instr |-> instr, valid |-> ~first]

Bubble == [pc |-> 0, op |-> ExecNop, memop |-> MemNop, wbop |-> WbNop, valid |-> FALSE]

Exec(stall, flush) ==
  ex' = IF flush THEN Bubble
        ELSE IF stall THEN ex
        ELSE [pc    |-> dec.pc,
              op    |-> ExecOp(dec.instr, RdData(rdaddr[1]), RdData(rdaddr[2])),
              memop |-> MemOp(dec.instr),
              wbop  |-> WbOp(dec.instr),
              valid |-> dec.valid]

\* a mutant: a flush keeps what is in the stage
MemSticks(stall, flush) ==
  mem' = IF stall \/ flush THEN [mem EXCEPT !.op.memread = FALSE, !.op.memwrite = FALSE]
         ELSE [op |-> ex.memop, wbop |-> ex.wbop, pc_new |-> pc_new, pc_old |-> ex.pc,
               aluresult |-> alu_r, zero |-> alu_z, wrdata |-> valB, valid |-> ex.valid]

\* a stalled stage withdraws its request to the memory
Mem(stall, flush) ==
  mem' = IF stall THEN [mem EXCEPT !.op.memread = FALSE, !.op.memwrite = FALSE]
         ELSE [op        |-> IF flush THEN MemNop ELSE ex.memop,
               wbop      |-> IF flush THEN WbNop ELSE ex.wbop,
               pc_new    |-> pc_new,
               pc_old    |-> ex.pc,
               aluresult |-> alu_r,
               zero      |-> alu_z,
               wrdata    |-> valB,
               valid     |-> ~flush /\ ex.valid]

\* the word on the bus matters to a load only
memresult == IF mem.wbop.src = "WBS_MEM" THEN dmem[mem.aluresult] ELSE 0

Writeback(stall) ==
  wb' = IF stall THEN wb
        ELSE [op |-> mem.wbop, aluresult |-> mem.aluresult,
              memresult |-> memresult, pc_old |-> mem.pc_old]

\* both memories of the data: written whether the pipeline stalls or not
Store    == dmem' = IF mem.op.memwrite THEN [dmem EXCEPT ![mem.aluresult] = mem.wrdata] ELSE dmem
RegWrite == regfile' = [r \in Registers |-> RdData(r)]

-----------------------------------------------------------------------------
(***************************************************************************)
(* One clock edge: the branches of ctrl_logic, in the order of their       *)
(* priority.  The memories decide about the stall, except that a load      *)
(* always costs its first cycle (memu.vhd, B) and that the first fetch     *)
(* after the reset is not late.                                            *)
(***************************************************************************)
Wait ==
  /\ ~first
  /\ Fetch(TRUE) /\ Decode(TRUE, FALSE) /\ Exec(TRUE, FALSE) /\ Mem(TRUE, FALSE)
  /\ Writeback(TRUE) /\ Store /\ RegWrite

Redirect ==
  /\ ~mem.op.memread /\ pcsrc
  /\ Fetch(FALSE) /\ Decode(FALSE, TRUE) /\ Exec(FALSE, TRUE) /\ Mem(FALSE, TRUE)
  /\ Writeback(FALSE) /\ Store /\ RegWrite

HoldForLoad ==
  /\ ~mem.op.memread /\ ~pcsrc /\ LoadUse
  /\ Fetch(TRUE) /\ Decode(TRUE, FALSE) /\ Exec(FALSE, TRUE) /\ Mem(FALSE, FALSE)
  /\ Writeback(FALSE) /\ Store /\ RegWrite

Flow ==
  /\ ~mem.op.memread /\ ~pcsrc /\ ~LoadUse
  /\ Fetch(FALSE) /\ Decode(FALSE, FALSE) /\ Exec(FALSE, FALSE) /\ Mem(FALSE, FALSE)
  /\ Writeback(FALSE) /\ Store /\ RegWrite

\* reset; the data memory is not touched by it
Init ==
  /\ first = TRUE /\ pc_out = Pcs - 1
  /\ imem = [p \in Pc |-> Unknown]
  /\ dec = [pc |-> 0, instr |-> NopInst, valid |-> FALSE]
  /\ rdaddr = << ZeroReg, ZeroReg >>
  /\ regfile = [r \in Registers |-> 0]
  /\ ex = Bubble
  /\ mem = [op |-> MemNop, wbop |-> WbNop, pc_new |-> 0, pc_old |-> 0,
            aluresult |-> 0, zero |-> FALSE, wrdata |-> 0, valid |-> FALSE]
  /\ dmem \in Contents
  /\ wb = [op |-> WbNop, aluresult |-> 0, memresult |-> 0, pc_old |-> 0]

Next == Wait \/ Redirect \/ HoldForLoad \/ Flow

\* the clock never stops, and no stall of the memories lasts for ever
\* (NeverStallsForGood of Cache)
Spec == /\ Init /\ [][Next]_vars
        /\ WF_vars(Next) /\ WF_vars(Redirect \/ HoldForLoad \/ Flow)

-----------------------------------------------------------------------------
ExecOps == [aluop : {"NOP", "ADD", "SUB", "SLT", "SLTU"},
            alusrc1 : BOOLEAN, alusrc2 : BOOLEAN, alusrc3 : BOOLEAN,
            rs1 : Registers, rs2 : Registers, readdata1 : Word, readdata2 : Word, imm : Word]
MemOps  == [branch : {"BR_NOP", "BR_BR", "BR_CND", "BR_CNDI"}, memread : BOOLEAN, memwrite : BOOLEAN]
WbOps   == [rd : Registers, write : BOOLEAN, src : {"WBS_ALU", "WBS_MEM", "WBS_OPC"}]

\* The types of core_pkg and op_pkg.
TypeOK ==
  /\ first \in BOOLEAN /\ pc_out \in Pc
  /\ imem \in [Pc -> Instructions \cup {Unknown}]
  /\ dec \in [pc : Pc, instr : Instruction, valid : BOOLEAN]
  /\ rdaddr \in Registers \X Registers
  /\ regfile \in [Registers -> Word]
  /\ ex \in [pc : Pc, op : ExecOps, memop : MemOps, wbop : WbOps, valid : BOOLEAN]
  /\ mem \in [op : MemOps, wbop : WbOps, pc_new : Pc, pc_old : Pc, aluresult : Word,
              zero : BOOLEAN, wrdata : Word, valid : BOOLEAN]
  /\ dmem \in [Word -> Word]
  /\ wb \in [op : WbOps, aluresult : Word, memresult : Word, pc_old : Pc]

(***************************************************************************)
(* The state the program sees.  An instruction has happened once it is in  *)
(* the MEM stage: what it and the one in WB are going to write counts as   *)
(* written, and the next one is the oldest that the MEM stage has yet to   *)
(* receive.                                                                *)
(***************************************************************************)
MemData == CASE mem.wbop.src = "WBS_ALU" -> mem.aluresult
             [] mem.wbop.src = "WBS_MEM" -> dmem[mem.aluresult]
             [] mem.wbop.src = "WBS_OPC" -> ToData(ToPc(mem.pc_old + 1))

VisibleRegs == [r \in Registers |-> IF Writes(mem.wbop, r) THEN MemData ELSE RdData(r)]

VisibleMem == IF mem.op.memwrite THEN [dmem EXCEPT ![mem.aluresult] = mem.wrdata] ELSE dmem

VisiblePc == IF pcsrc THEN mem.pc_new
             ELSE IF ex.valid THEN ex.pc
             ELSE IF dec.valid THEN dec.pc
             ELSE IF first THEN 0
             ELSE pc_out

(***************************************************************************)
(* Whatever the program, and whenever the memories stall: the pipeline is  *)
(* a machine that executes one instruction after the other.  No            *)
(* instruction reads a register before the last write to it has reached    *)
(* it, none behind a taken jump leaves a trace, none is lost or executed   *)
(* twice.                                                                  *)
(***************************************************************************)
Abstract == INSTANCE Isa WITH prog <- imem, pc <- VisiblePc, regs <- VisibleRegs,
                              dmem <- VisibleMem
IsSequential == Abstract!Spec

(***************************************************************************)
(* Flushes and load-use stalls never starve the program: another           *)
(* instruction always leaves exec for the MEM stage and is not flushed.    *)
(***************************************************************************)
KeepsRetiring == []<><< ex.valid /\ (HoldForLoad \/ Flow) >>_vars
=============================================================================
