--------------------------------- MODULE Isa ---------------------------------
(***************************************************************************)
(* What the processor promises its programs: instructions run one at a     *)
(* time, each finding what the one before has left behind.  The program is *)
(* an arbitrary one, and becomes known as far as it has been fetched.      *)
(***************************************************************************)
EXTENDS Miriv

VARIABLES prog,  \* the program, as far as it is known
          pc,    \* the next instruction
          regs,  \* the registers
          dmem   \* the data memory

CONSTANT Unknown

Init == /\ prog = [p \in Pc |-> Unknown]
        /\ pc = 0
        /\ regs = [r \in Registers |-> 0]
        /\ dmem \in Contents

Compute(f, a, b) ==
  CASE f = "ADD"  -> Add(a, b)
    [] f = "SUB"  -> Sub(a, b)
    [] f = "SLT"  -> IF Signed(a) < Signed(b) THEN 1 % Words ELSE 0
    [] f = "SLTU" -> IF a < b THEN 1 % Words ELSE 0

Holds(f, a, b) ==
  CASE f = "BEQ"  -> a = b
    [] f = "BNE"  -> a # b
    [] f = "BLT"  -> Signed(a) < Signed(b)
    [] f = "BGE"  -> Signed(a) >= Signed(b)
    [] f = "BLTU" -> a < b
    [] f = "BGEU" -> a >= b

\* what the instruction writes into rd, if it writes it at all
Result(i) ==
  LET a == regs[i.rs1] b == regs[i.rs2]
  IN CASE i.opcode = "OP"              -> Compute(i.funct, a, b)
       [] i.opcode = "OP_IMM"          -> Compute(i.funct, a, i.imm)
       [] i.opcode = "LUI"             -> i.imm
       [] i.opcode = "AUIPC"           -> Add(ToData(pc), i.imm)
       [] i.opcode = "LOAD"            -> dmem[Add(a, i.imm)]
       [] i.opcode \in {"JAL", "JALR"} -> ToData(ToPc(pc + 1))

Target(i) ==
  IF i.opcode = "JALR" THEN ToPc(Add(regs[i.rs1], i.imm)) ELSE ToPc(pc + Signed(i.imm))

Jumps(i) == \/ i.opcode \in {"JAL", "JALR"}
            \/ i.opcode = "BRANCH" /\ Holds(i.funct, regs[i.rs1], regs[i.rs2])

Execute(i) ==
  /\ pc' = IF Jumps(i) THEN Target(i) ELSE ToPc(pc + 1)
  /\ regs' = IF i.opcode \notin {"STORE", "BRANCH", "NOP"} /\ i.rd # ZeroReg
             THEN [regs EXCEPT ![i.rd] = Result(i)] ELSE regs
  /\ dmem' = IF i.opcode = "STORE"
             THEN [dmem EXCEPT ![Add(regs[i.rs1], i.imm)] = regs[i.rs2]] ELSE dmem

\* the program does not change while it runs
Reveal == /\ prog' \in [Pc -> Instructions \cup {Unknown}]
          /\ \A p \in Pc : prog[p] # Unknown => prog'[p] = prog[p]

Next == /\ Reveal
        /\ \/ prog[pc] # Unknown /\ Execute(prog[pc])
           \/ UNCHANGED << pc, regs, dmem >>

Spec == Init /\ [][Next]_<< prog, pc, regs, dmem >>
=============================================================================
