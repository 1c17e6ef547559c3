----------------------------- MODULE MCPipeline ------------------------------
EXTENDS Pipeline

Instr(op, f, d, a, b, k) == [opcode |-> op, funct |-> f, rd |-> d, rs1 |-> a, rs2 |-> b, imm |-> k]

\* every instruction of some opcodes that has its fields in small sets
All(ops, fs, ds, as, bs, ks) ==
  {Instr(op, f, d, a, b, k) : op \in ops, f \in fs, d \in ds, a \in as, b \in bs, k \in ks}

AllContents   == [Word -> Word]
AscendingOnly == {[w \in Word |-> w]}

\* results through x1 and x0: written and used at once, loaded, stored, and used
DataInstructions ==
  All({"OP_IMM"}, {"ADD"}, {0, 1}, {0, 1}, {0}, {1})
  \cup All({"OP"}, {"ADD"}, {1}, {1}, {1}, {0})
  \cup All({"LOAD"}, {"ADD"}, {0, 1}, {0, 1}, {0}, {0})
  \cup All({"STORE"}, {"ADD"}, {0}, {0, 1}, {0, 1}, {0})

\* jumps of every kind, every condition and every operation of the ALU, on
\* operands of two bits; an offset of 3 is -1, to the second instruction behind
ControlInstructions ==
  All({"JAL"}, {"ADD"}, {0, 1}, {0}, {0}, {0, 3})
  \cup All({"JALR"}, {"ADD"}, {1}, {1}, {0}, {0, 1})
  \cup All({"BRANCH"}, {"BEQ", "BNE", "BLT", "BGE", "BLTU", "BGEU"}, {0}, {1}, {2}, {3})
  \cup All({"BRANCH"}, {"BEQ"}, {0}, {1}, {2}, {0})
  \cup All({"OP"}, {"ADD", "SUB", "SLT", "SLTU"}, {1}, {1}, {2}, {0})
  \cup All({"OP_IMM"}, {"ADD", "SLT", "SLTU"}, {2}, {1}, {0}, {1, 3})
  \cup All({"LUI", "AUIPC"}, {"ADD"}, {1}, {0}, {0}, {2})
  \cup All({"LOAD"}, {"ADD"}, {1}, {1}, {0}, {0})
  \cup All({"NOP"}, {"ADD"}, {1}, {1}, {2}, {1})
=============================================================================
