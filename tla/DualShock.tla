------------------------------ MODULE DualShock ------------------------------
(***************************************************************************)
(* dualshock_ctrl.vhd and a DualShock controller at the other end of its   *)
(* five wires.  One packet follows the other: "enter config", "activate    *)
(* analog", "enable motor", "exit config", and then the poll for good.  In *)
(* a packet the controller acknowledges every byte but the last.  A step   *)
(* is a whole byte, or one of the waits between; clk_cnt and bit_cnt are   *)
(* left out, for what they count is over before the state is left.         *)
(***************************************************************************)
EXTENDS Naturals, Sequences, SequencesExt

CONSTANT MaxFaults  \* bound on the acknowledges that are lost or late, and on unplugging

ASSUME FaultsAssumption == MaxFaults \in Nat

VARIABLES
  fsm_state, cmd_type, byte_cnt, ctrl_mode, bytes_total, updated,
  mode_and_bytes_shift_reg, ctrl_data_shift_reg, ctrl_data,
  ds,      \* the controller
  slipped, \* history: an acknowledge of this packet came in the cycle of the timeout
  faults

vars == << fsm_state, cmd_type, byte_cnt, ctrl_mode, bytes_total, updated,
           mode_and_bytes_shift_reg, ctrl_data_shift_reg, ctrl_data, ds, slipped, faults >>

\* What the controller says in its second byte: its mode, and how many bytes of data
\* follow the third.
Id(mode, bytes) == [mode |-> mode, bytes |-> bytes]
AnyId == [mode : {"DIGITAL", "ANALOG", "CONFIG", "unknown"}, bytes : {0, 2, 6}]

\* A byte of data is its number in the packet it comes from, 1 .. 6, or one of these:
Zero   == 0  \* what the register holds after a reset
Answer == 7  \* the answer to a command of the configuration
Old    == 8  \* from an earlier packet
Lost   == 9  \* nobody has sent it

Released == [buttons |-> << Zero, Zero >>, sticks |-> << Zero, Zero, Zero, Zero >>]

Init == /\ fsm_state = "PACKET_TIMEOUT" /\ cmd_type = 0 /\ byte_cnt = 0
        /\ ctrl_mode = "DIGITAL" /\ bytes_total = 0 /\ updated = FALSE
        /\ mode_and_bytes_shift_reg = Id("unknown", 0)
        /\ ctrl_data_shift_reg = [k \in 1 .. 6 |-> Zero] /\ ctrl_data = Released
        /\ \E config, analog \in BOOLEAN :
             ds = [plug |-> "in", config |-> config, analog |-> analog,
                   pos |-> 0, command |-> "01", id |-> Id("unknown", 0)]
        /\ slipped = FALSE /\ faults = 0

-----------------------------------------------------------------------------
(***************************************************************************)
(* The controller (external).  Outside of the configuration it knows the   *)
(* poll and the command that enters it; it keeps its state if a packet is  *)
(* broken off, and takes its place in a packet from the attention line.    *)
(***************************************************************************)
Length == 3 + ds.id.bytes
Present == ds.plug = "in" /\ ds.pos < Length

Known == IF ds.id.mode = "CONFIG" THEN {"42", "43", "44", "4D"} ELSE {"42", "43"}

Acknowledges == Present /\ (ds.pos < 2 \/ ds.command \in Known)

\* the byte of data at its place, and the byte that says what it is
Data == IF ~Present THEN Lost ELSE IF ds.id.mode = "CONFIG" THEN Answer ELSE ds.pos - 2
Ids  == IF Present /\ ds.pos = 1 THEN {ds.id} ELSE AnyId

Selected == [ds EXCEPT !.pos = 0, !.command = "01",
               !.id = IF ds.config THEN Id("CONFIG", 6) ELSE IF ds.analog THEN Id("ANALOG", 6) ELSE Id("DIGITAL", 2)]

\* byte 1 is the command, byte 3 its argument
Hears(cmd) ==
  CASE ~Present -> ds
    [] Present /\ ds.pos = 1 -> [ds EXCEPT !.pos = @ + 1, !.command = cmd]
    [] Present /\ ds.pos = 3 /\ ds.command = "43" -> [ds EXCEPT !.pos = @ + 1, !.config = (cmd = "01")]
    [] Present /\ ds.pos = 3 /\ ds.command = "44" -> [ds EXCEPT !.pos = @ + 1, !.analog = (cmd = "01")]
    [] OTHER -> [ds EXCEPT !.pos = @ + 1]

Fault == faults < MaxFaults /\ faults' = faults + 1

Unplug ==
  /\ ds.plug = "in" /\ Fault
  /\ ds' = [ds EXCEPT !.plug = "out", !.config = FALSE, !.analog = FALSE]
  /\ UNCHANGED << fsm_state, cmd_type, byte_cnt, ctrl_mode, bytes_total, updated,
                  mode_and_bytes_shift_reg, ctrl_data_shift_reg, ctrl_data, slipped >>

\* a hand is slower than REFRESH_TIMEOUT, hundredths of a second
Plug ==
  /\ ds.plug = "missed" /\ fsm_state = "PACKET_TIMEOUT" /\ ds' = [ds EXCEPT !.plug = "in"]
  /\ UNCHANGED << fsm_state, cmd_type, byte_cnt, ctrl_mode, bytes_total, updated,
                  mode_and_bytes_shift_reg, ctrl_data_shift_reg, ctrl_data, slipped, faults >>

-----------------------------------------------------------------------------
(***************************************************************************)
(* Between two packets.                                                    *)
(***************************************************************************)
\* what goes out of the shift register, whose oldest byte is its first
LastTwo == [ctrl_data EXCEPT !.buttons = SubSeq(ctrl_data_shift_reg, 5, 6)]
AllSix  == [buttons |-> SubSeq(ctrl_data_shift_reg, 1, 2), sticks |-> SubSeq(ctrl_data_shift_reg, 3, 6)]

\* a mutant: the buttons are always where a digital controller has them
UpdateDigital ==
  /\ fsm_state = "PACKET_TIMEOUT" /\ updated /\ updated' = FALSE
  /\ ctrl_data' = LastTwo
  /\ UNCHANGED << fsm_state, cmd_type, byte_cnt, ctrl_mode, bytes_total,
                  mode_and_bytes_shift_reg, ctrl_data_shift_reg, ds, slipped, faults >>

Update ==
  /\ fsm_state = "PACKET_TIMEOUT" /\ updated /\ updated' = FALSE
  /\ ctrl_data' = IF ctrl_mode = "ANALOG" THEN AllSix ELSE LastTwo
  /\ UNCHANGED << fsm_state, cmd_type, byte_cnt, ctrl_mode, bytes_total,
                  mode_and_bytes_shift_reg, ctrl_data_shift_reg, ds, slipped, faults >>

\* the attention line falls; what is in the shift register becomes old
Attention ==
  /\ fsm_state = "PACKET_TIMEOUT" /\ ~updated /\ fsm_state' = "SET_COMMAND"
  /\ ds' = Selected /\ slipped' = FALSE
  /\ ctrl_data_shift_reg' = [k \in 1 .. 6 |-> IF ctrl_data_shift_reg[k] = Zero THEN Zero ELSE Old]
  /\ UNCHANGED << cmd_type, byte_cnt, ctrl_mode, bytes_total, updated, mode_and_bytes_shift_reg, ctrl_data, faults >>

-----------------------------------------------------------------------------
(***************************************************************************)
(* A byte.                                                                 *)
(***************************************************************************)
\* bytes from the fifth on are left out
SetCommand ==
  CASE byte_cnt = 0 -> "01"
    [] byte_cnt = 1 -> << "43", "44", "4D", "43", "42" >>[cmd_type + 1]
    [] byte_cnt = 3 /\ cmd_type \in {0, 1} -> "01"
    [] OTHER -> "00"

Exchange ==
  /\ fsm_state = "SET_COMMAND"
  /\ ds' = Hears(SetCommand)
  /\ ctrl_data_shift_reg' = IF cmd_type \in {0, 4} /\ byte_cnt > 2 THEN Append(Tail(ctrl_data_shift_reg), Data)
                                                                  ELSE ctrl_data_shift_reg
  /\ mode_and_bytes_shift_reg' \in IF byte_cnt = 1 THEN Ids ELSE {mode_and_bytes_shift_reg}
  /\ byte_cnt' = (byte_cnt + 1) % 16
  /\ fsm_state' = IF byte_cnt >= 3 /\ byte_cnt = (bytes_total + 2) % 16 THEN "WAIT_BEFORE_NEXT_BYTE" ELSE "WAIT_ACK"
  /\ UNCHANGED << cmd_type, ctrl_mode, bytes_total, updated, ctrl_data, slipped, faults >>

\* what the second byte says is looked at while its acknowledge is waited for
Mode(otherwise) ==
  IF byte_cnt = 2 /\ mode_and_bytes_shift_reg.mode # "unknown" THEN mode_and_bytes_shift_reg.mode ELSE otherwise
Total(otherwise) ==
  IF byte_cnt = 2 /\ mode_and_bytes_shift_reg.bytes # 0 THEN mode_and_bytes_shift_reg.bytes ELSE otherwise

Ack ==
  /\ fsm_state = "WAIT_ACK" /\ Acknowledges /\ fsm_state' = "WAIT_BEFORE_NEXT_BYTE"
  /\ ctrl_mode' = Mode(ctrl_mode) /\ bytes_total' = Total(bytes_total)
  /\ UNCHANGED << cmd_type, byte_cnt, updated, mode_and_bytes_shift_reg, ctrl_data_shift_reg, ctrl_data, ds,
                  slipped, faults >>

\* a mutant: the configuration is taken up where it was broken off
ResetKeeps(to) ==
  /\ fsm_state' = to /\ byte_cnt' = 0 /\ updated' = FALSE
  /\ mode_and_bytes_shift_reg' = Id("unknown", 0)
  /\ ctrl_data_shift_reg' = [k \in 1 .. 6 |-> Zero] /\ ctrl_data' = Released
  /\ ctrl_mode' = Mode("DIGITAL") /\ bytes_total' = Total(0)
  /\ UNCHANGED cmd_type

\* RESET_STATE, but what the second byte has said is stored all the same
Reset(to) ==
  /\ fsm_state' = to /\ cmd_type' = 0 /\ byte_cnt' = 0 /\ updated' = FALSE
  /\ mode_and_bytes_shift_reg' = Id("unknown", 0)
  /\ ctrl_data_shift_reg' = [k \in 1 .. 6 |-> Zero] /\ ctrl_data' = Released
  /\ ctrl_mode' = Mode("DIGITAL") /\ bytes_total' = Total(0)

AckTimeout ==
  /\ fsm_state = "WAIT_ACK" /\ Reset("PACKET_TIMEOUT")
  /\ IF Acknowledges THEN Fault ELSE UNCHANGED faults
  /\ ds' = [ds EXCEPT !.plug = IF @ = "out" THEN "missed" ELSE @]
  /\ UNCHANGED slipped

\* The acknowledge of the last cycle wins over the state, not over the rest: a packet
\* is begun while the controller is still in the middle of one.
AckAtTimeout ==
  /\ fsm_state = "WAIT_ACK" /\ Acknowledges /\ Fault /\ Reset("WAIT_BEFORE_NEXT_BYTE")
  /\ slipped' = TRUE /\ UNCHANGED ds

\* a mutant: the last byte is not counted
EndsEarly == byte_cnt >= 3 /\ byte_cnt = (bytes_total + 2) % 16

Ends == byte_cnt >= 3 /\ byte_cnt = (bytes_total + 3) % 16

NextByte ==
  /\ fsm_state = "WAIT_BEFORE_NEXT_BYTE"
  /\ \/ /\ ~Ends /\ fsm_state' = "SET_COMMAND"
        /\ UNCHANGED << cmd_type, byte_cnt, bytes_total, updated >>
     \/ /\ Ends /\ fsm_state' = "PACKET_TIMEOUT"
        /\ byte_cnt' = 0 /\ bytes_total' = 0
        /\ cmd_type' = (IF cmd_type < 4 THEN cmd_type + 1 ELSE cmd_type)
        /\ updated' = (updated \/ cmd_type \in {0, 4})
  /\ UNCHANGED << ctrl_mode, mode_and_bytes_shift_reg, ctrl_data_shift_reg, ctrl_data, ds, slipped, faults >>

-----------------------------------------------------------------------------
Clock == Update \/ Attention \/ Exchange \/ Ack \/ AckTimeout \/ AckAtTimeout \/ NextByte

Next == Clock \/ Unplug \/ Plug

\* the clock does not stop
Spec == Init /\ [][Next]_vars /\ WF_vars(Clock)

-----------------------------------------------------------------------------
\* The values the registers take.
TypeOK ==
  /\ fsm_state \in {"PACKET_TIMEOUT", "SET_COMMAND", "WAIT_ACK", "WAIT_BEFORE_NEXT_BYTE"}
  /\ cmd_type \in 0 .. 4 /\ byte_cnt \in 0 .. 15 /\ bytes_total \in {0, 2, 6} /\ updated \in BOOLEAN
  /\ ctrl_mode \in {"DIGITAL", "ANALOG", "CONFIG"} /\ mode_and_bytes_shift_reg \in AnyId
  /\ ctrl_data_shift_reg \in [1 .. 6 -> 0 .. 9]
  /\ ctrl_data \in [buttons : [1 .. 2 -> 0 .. 9], sticks : [1 .. 4 -> 0 .. 9]]
  /\ ds \in [plug : {"in", "out", "missed"}, config : BOOLEAN, analog : BOOLEAN, pos : 0 .. 9,
             command : {"00", "01", "42", "43", "44", "4D"},
             id : {Id("unknown", 0), Id("CONFIG", 6), Id("ANALOG", 6), Id("DIGITAL", 2)}]
  /\ slipped \in BOOLEAN /\ faults \in 0 .. MaxFaults

\* Where the master ends a packet the controller has come to the end of its own, in
\* every mode, though each counts for itself; unless the controller has gone before the
\* last byte, which nobody acknowledges, or a late acknowledge has put them out of step
\* (dualshock_ctrl.vhd:305 and :368, and what :353-354 leave in bytes_total after a timeout).
PacketsComplete ==
  [][fsm_state = "WAIT_BEFORE_NEXT_BYTE" /\ fsm_state' = "PACKET_TIMEOUT" /\ ~slipped =>
       ds.pos = Length \/ (ds.plug = "out" /\ ds.pos = Length - 1)]_vars

\* What the game is shown comes from one packet, buttons and sticks each in its
\* place, or is the reset value; the last byte may be lost with the controller.  Two cases
\* differ: a late acknowledge, and the configuration entered a second time after it was
\* broken off, when an answer to it is shown for the buttons (dualshock_ctrl.vhd:111-158, :377).
ShowsOnePacket ==
  [][ctrl_data' # ctrl_data /\ ~slipped /\ ds.id.mode # "CONFIG" =>
       \/ ctrl_data' = Released
       \/ ctrl_data'.buttons \in {<< 1, 2 >>, << 1, Lost >>} /\ ctrl_data'.sticks = ctrl_data.sticks
       \/ ctrl_data'.buttons = << 1, 2 >> /\ ctrl_data'.sticks \in {<< 3, 4, 5, 6 >>, << 3, 4, 5, Lost >>}]_vars

\* A controller that stays plugged in is polled in analog mode in the end, wherever
\* and in what state of the configuration it was unplugged or an acknowledge lost or late:
\* the configuration starts anew with the first command (dualshock_ctrl.vhd:330, :373).
BecomesAnalog == <>[](ds.plug = "in") => <>[](cmd_type = 4 /\ ctrl_mode = "ANALOG")
=============================================================================
