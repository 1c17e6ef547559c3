----------------------------- MODULE Fifo1c1r1w ------------------------------
(***************************************************************************)
(* The single-clock FIFO of dd/vhdl/mem (fifo_1c1r1w.vhd on dp_ram_1c1r1w) *)
(* One step is one rising clock edge: Tick takes the values the ports have *)
(* before the edge and gives every register its next value, exactly as the *)
(* process "exec" computes them.                                           *)
(***************************************************************************)
EXTENDS Integers, Sequences

CONSTANTS Size,   \* number of RAM words, 2**ADDR_WIDTH = 2**log2c(DEPTH)
          Data,   \* the words that can be stored
          Zero    \* the power-up content of the RAM and of rd_data

ASSUME SizeAssumption == Size \in Nat /\ Size >= 2
ASSUME DataAssumption == Zero \in Data

VARIABLES ram, read_address, write_address, full, empty,
          pointer_diff, half_full, rd_data

fifoVars == << ram, read_address, write_address, full, empty,
               pointer_diff, half_full, rd_data >>

Address == 0 .. Size - 1

SuccNoWrap(a) == a + 1   \* a mutant: a bit too many

\* unsigned(address) + 1 on ADDR_WIDTH bits
Succ(a) == IF a = Size - 1 THEN 0 ELSE a + 1

Init ==
  /\ ram = [a \in Address |-> Zero]
  /\ read_address = 0 /\ write_address = 0
  /\ full = FALSE /\ empty = TRUE
  /\ pointer_diff = 0 /\ half_full = FALSE
  /\ rd_data = Zero

(***************************************************************************)
(* The registers of the RAM: the pointers guard the two ports.             *)
(***************************************************************************)
Write(wr, wr_data) ==
  IF wr /\ ~full
    THEN /\ ram' = [ram EXCEPT ![write_address] = wr_data]
         /\ write_address' = Succ(write_address)
    ELSE UNCHANGED << ram, write_address >>

Read(rd) ==
  IF rd /\ ~empty
    THEN /\ rd_data' = ram[read_address]
         /\ read_address' = Succ(read_address)
    ELSE UNCHANGED << rd_data, read_address >>

(***************************************************************************)
(* The flags look at the requests alone, not at whether the pointers moved *)
(***************************************************************************)
\* a mutant: full lasts one cycle
FlagsForget(wr, rd) ==
  /\ full'  = (wr /\ read_address = Succ(write_address))
  /\ empty' = /\ ~wr
              /\ empty \/ (rd /\ write_address = Succ(read_address))

Flags(wr, rd) ==
  /\ full'  = \/ wr /\ read_address = Succ(write_address)
              \/ full /\ ~rd
  /\ empty' = /\ ~wr
              /\ empty \/ (rd /\ write_address = Succ(read_address))

Fill(wr, rd) ==
  /\ pointer_diff' = pointer_diff + (IF wr /\ ~rd THEN 1
                                     ELSE IF rd /\ ~wr THEN -1 ELSE 0)
  /\ half_full' = IF pointer_diff' >= Size \div 2 THEN TRUE ELSE FALSE

Tick(wr, rd, wr_data) ==
  /\ Write(wr, wr_data)
  /\ Read(rd)
  /\ Flags(wr, rd)
  /\ Fill(wr, rd)

\* The assertions of severity failure: what the users of the FIFO must obey.
Legal(wr, rd) == (wr => ~full) /\ (rd => ~empty)

Next == \E wr, rd \in BOOLEAN, d \in Data : Legal(wr, rd) /\ Tick(wr, rd, d)

Spec == Init /\ [][Next]_fifoVars

-----------------------------------------------------------------------------
TypeOK ==
  /\ ram \in [Address -> Data]
  /\ read_address \in Address /\ write_address \in Address
  /\ full \in BOOLEAN /\ empty \in BOOLEAN /\ half_full \in BOOLEAN
  /\ pointer_diff \in 0 .. Size
  /\ rd_data \in Data

(***************************************************************************)
(* The abstract content, read off the two pointers and the empty flag.     *)
(***************************************************************************)
Count == IF write_address > read_address THEN write_address - read_address
         ELSE IF write_address < read_address
                THEN write_address - read_address + Size
                ELSE IF empty THEN 0 ELSE Size

\* the RAM word i places behind the read pointer
Slot(i) == IF read_address + i < Size THEN read_address + i
                                      ELSE read_address + i - Size

Contents == [i \in 1 .. Count |-> ram[Slot(i - 1)]]

(***************************************************************************)
(* The flags never mislead a user who obeys the assertions: "empty" is     *)
(* exact, and without "full" there is room.  A write that comes with a     *)
(* read sets full with one word still free, whatever the comment in        *)
(* fifo_1c1r1w.vhd:126 says.  half_full, which is counted apart from the   *)
(* pointers, says what its name says.                                      *)
(***************************************************************************)
FlagsSafe ==
  /\ empty <=> Count = 0
  /\ ~full => Count < Size
  /\ full => Count >= Size - 1
  /\ half_full <=> Count >= Size \div 2

\* pointer_diff is never compared with the pointers, and is the number of stored words
FillLevelExact == pointer_diff = Count

(***************************************************************************)
(* A read port that moved delivers the oldest stored word.                 *)
(***************************************************************************)
ReadsOldest == [][read_address' # read_address => rd_data' = Contents[1]]_fifoVars

(***************************************************************************)
(* Pointers, flags and RAM together are a FIFO of Size words.              *)
(***************************************************************************)
Abstract == INSTANCE BoundedFifo WITH items <- Contents, Capacity <- Size
IsFifo == Abstract!Spec
=============================================================================
