-------------------------------- MODULE Miriv --------------------------------
(***************************************************************************)
(* The data of the processor in ca/miriv, shared by the sequential machine *)
(* (Isa) and the pipeline (Pipeline): words and program counters of a      *)
(* bounded width, and the instructions.  The logical and the shift         *)
(* operations are left out: for the control they are one more addition.    *)
(***************************************************************************)
EXTENDS Integers

CONSTANTS Registers, ZeroReg,  \* register numbers, and the one of x0
          Words,               \* how many values a word has: 2^DATA_WIDTH
          Pcs,                 \* how many instructions the memory holds
          Instructions,        \* the instructions a program is made of
          Contents             \* what the loader may leave in the data memory

Word == 0 .. Words - 1
Pc   == 0 .. Pcs - 1

Instruction ==
  [opcode : {"OP", "OP_IMM", "LUI", "AUIPC", "LOAD", "STORE", "BRANCH", "JAL", "JALR", "NOP"},
   funct  : {"ADD", "SUB", "SLT", "SLTU", "BEQ", "BNE", "BLT", "BGE", "BLTU", "BGEU"},
   rd : Registers, rs1 : Registers, rs2 : Registers,
   imm : Word]

\* ADDI has no SUBI beside it, and only branches compare for a jump.
WellFormed(i) ==
  /\ i.opcode \in {"OP", "OP_IMM"} => i.funct \in {"ADD", "SUB", "SLT", "SLTU"}
  /\ i.opcode = "OP_IMM" => i.funct # "SUB"
  /\ i.opcode = "BRANCH" => i.funct \in {"BEQ", "BNE", "BLT", "BGE", "BLTU", "BGEU"}

ASSUME MachineAssumption ==
  /\ ZeroReg \in Registers
  /\ Words \in Nat \ {0} /\ Pcs \in Nat \ {0}
  /\ Instructions \subseteq Instruction
  /\ \A i \in Instructions : WellFormed(i)
  /\ Contents \subseteq [Word -> Word]

Signed(v) == IF 2 * v < Words THEN v ELSE v - Words

Add(a, b) == (a + b) % Words
Sub(a, b) == (a - b) % Words

\* pc_type and data_type differ in width: to_data_type, to_pc_type
ToData(pc) == pc % Words
ToPc(v)    == v % Pcs
=============================================================================
