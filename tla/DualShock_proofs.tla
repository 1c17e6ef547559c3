--------------------------- MODULE DualShock_proofs ---------------------------
(***************************************************************************)
(* Proofs about DualShock, for any number of faults.                       *)
(***************************************************************************)
EXTENDS DualShock, SequenceTheorems, TLAPS

-----------------------------------------------------------------------------
(***************************************************************************)
(* Master and controller in a packet.  Each counts for itself; they agree  *)
(* until an acknowledge comes in the cycle of its timeout.                 *)
(***************************************************************************)
InPacket   == fsm_state # "PACKET_TIMEOUT"
Selections == {Id("CONFIG", 6), Id("ANALOG", 6), Id("DIGITAL", 2)}

\* whoever is behind, it is not the controller: its data are never counted from a
\* place before the first of them
NotBehind ==
  /\ ~InPacket => byte_cnt = 0
  /\ InPacket => ~updated
  /\ InPacket /\ Present => ds.pos >= byte_cnt

\* it was gone when the latest byte was exchanged
Gone == ds.plug # "in" /\ ds.pos + 1 = byte_cnt

Together ==
  InPacket /\ ~slipped =>
    /\ ds.id \in Selections
    /\ fsm_state = "SET_COMMAND" => ds.pos = byte_cnt /\ byte_cnt < Length
    /\ fsm_state = "WAIT_ACK" => 1 <= byte_cnt /\ byte_cnt < Length /\ (ds.pos = byte_cnt \/ Gone)
    /\ fsm_state = "WAIT_BEFORE_NEXT_BYTE" =>
         1 <= byte_cnt /\ byte_cnt <= Length /\ (ds.pos = byte_cnt \/ (Gone /\ byte_cnt = Length))
    /\ ds.plug = "missed" => ds.pos = 0

\* what the second byte says is known once it has been acknowledged
IdKnown ==
  InPacket /\ ~slipped =>
    /\ byte_cnt >= 3 \/ (byte_cnt = 2 /\ fsm_state # "WAIT_ACK") =>
         bytes_total = ds.id.bytes /\ ctrl_mode = ds.id.mode
    /\ fsm_state = "WAIT_ACK" /\ byte_cnt = 2 /\ ds.plug = "in" => mode_and_bytes_shift_reg = ds.id

(***************************************************************************)
(* The data of the packet are the last that were shifted in.               *)
(***************************************************************************)
Received ==
  InPacket /\ ~slipped /\ cmd_type \in {0, 4} /\ ds.id.mode # "CONFIG" =>
    \A k \in 1 .. 6 : k + 3 <= byte_cnt =>
      \/ ctrl_data_shift_reg[k + 9 - byte_cnt] = k
      \/ k + 3 = byte_cnt /\ Gone /\ ctrl_data_shift_reg[6] = Lost

Waiting ==
  ~InPacket /\ updated /\ ~slipped =>
    /\ ds.id \in Selections /\ ctrl_mode = ds.id.mode
    /\ ds.id.mode = "ANALOG" => /\ \A k \in 1 .. 5 : ctrl_data_shift_reg[k] = k
                                /\ ctrl_data_shift_reg[6] \in {6, Lost}
    /\ ds.id.mode = "DIGITAL" => ctrl_data_shift_reg[5] = 1 /\ ctrl_data_shift_reg[6] \in {2, Lost}

IInv == TypeOK /\ NotBehind /\ Together /\ IdKnown /\ Received /\ Waiting

-----------------------------------------------------------------------------
Commands == {"00", "01", "42", "43", "44", "4D"}
Devices  == [plug : {"in", "out", "missed"}, config : BOOLEAN, analog : BOOLEAN, pos : 0 .. 9, command : Commands,
             id : {Id("unknown", 0)} \cup Selections]
Display  == [buttons : [1 .. 2 -> 0 .. 9], sticks : [1 .. 4 -> 0 .. 9]]

LEMMA TypeParts ==
  TypeOK <=>
    /\ fsm_state \in {"PACKET_TIMEOUT", "SET_COMMAND", "WAIT_ACK", "WAIT_BEFORE_NEXT_BYTE"}
    /\ cmd_type \in 0 .. 4 /\ byte_cnt \in 0 .. 15 /\ bytes_total \in {0, 2, 6} /\ updated \in BOOLEAN
    /\ ctrl_mode \in {"DIGITAL", "ANALOG", "CONFIG"} /\ mode_and_bytes_shift_reg \in AnyId
    /\ ctrl_data_shift_reg \in [1 .. 6 -> 0 .. 9] /\ ctrl_data \in Display /\ ds \in Devices
    /\ slipped \in BOOLEAN /\ faults \in 0 .. MaxFaults
  <1>1. {Id("unknown", 0), Id("CONFIG", 6), Id("ANALOG", 6), Id("DIGITAL", 2)} = {Id("unknown", 0)} \cup Selections
    BY DEF Selections
  <1> QED
    BY <1>1 DEF TypeOK, Display, Devices, Commands

LEMMA DeviceFacts ==
  ASSUME TypeOK
  PROVE  /\ ds \in Devices /\ Length \in {3, 5, 9}
         /\ ds.id \in Selections => Length \in {5, 9} /\ ds.id.bytes \in {2, 6} /\ ds.id.mode \in {"CONFIG", "ANALOG", "DIGITAL"}
         /\ ds.id.mode = "CONFIG" => Length = 9
         /\ ds.id.mode = "ANALOG" => Length = 9
         /\ ds.id.mode = "DIGITAL" => Length = 5
  BY DEF TypeOK, Devices, Commands, Selections, Id, Length

LEMMA HearsFacts ==
  ASSUME TypeOK, NEW cmd \in Commands
  PROVE  /\ Hears(cmd) \in Devices
         /\ Hears(cmd).plug = ds.plug /\ Hears(cmd).id = ds.id
         /\ Present => Hears(cmd).pos = ds.pos + 1
         /\ ~Present => Hears(cmd).pos = ds.pos
  <1>1. /\ ds \in Devices /\ Length \in {3, 5, 9}
    BY DeviceFacts
  <1>2. CASE ~Present
    BY <1>1, <1>2 DEF Hears
  <1>3. CASE Present
    <2>1. ds.pos + 1 \in 0 .. 9
      BY <1>1, <1>3 DEF Present, Devices
    <2>2. CASE ds.pos = 1
      <3>1. Hears(cmd) = [ds EXCEPT !.pos = @ + 1, !.command = cmd]
        BY <1>3, <2>2 DEF Hears
      <3> QED
        BY <1>1, <1>3, <2>1, <3>1 DEF Devices
    <2>3. CASE ds.pos = 3 /\ ds.command = "43"
      <3>1. Hears(cmd) = [ds EXCEPT !.pos = @ + 1, !.config = (cmd = "01")]
        BY <1>3, <2>3 DEF Hears
      <3> QED
        BY <1>1, <1>3, <2>1, <3>1 DEF Devices
    <2>4. CASE ds.pos = 3 /\ ds.command = "44"
      <3>1. Hears(cmd) = [ds EXCEPT !.pos = @ + 1, !.analog = (cmd = "01")]
        BY <1>3, <2>4 DEF Hears
      <3> QED
        BY <1>1, <1>3, <2>1, <3>1 DEF Devices
    <2>5. CASE ds.pos # 1 /\ ~(ds.pos = 3 /\ ds.command = "43") /\ ~(ds.pos = 3 /\ ds.command = "44")
      <3>1. Hears(cmd) = [ds EXCEPT !.pos = @ + 1]
        BY <1>3, <2>5 DEF Hears
      <3> QED
        BY <1>1, <1>3, <2>1, <3>1 DEF Devices
    <2> QED
      BY <2>2, <2>3, <2>4, <2>5
  <1> QED
    BY <1>2, <1>3

Shifts(s, d, n, S) ==
  /\ Append(Tail(s), d) \in [1 .. n -> S] /\ Append(Tail(s), d)[n] = d
  /\ \A k \in 1 .. n - 1 : Append(Tail(s), d)[k] = s[k + 1]

LEMMA ShiftSeq ==
  ASSUME NEW S, NEW n \in Nat, n > 0, NEW s \in [1 .. n -> S], NEW d \in S
  PROVE  Shifts(s, d, n, S)
  <1>1. s \in Seq(S)
    BY SeqDef
  <1>2. Len(s) = n
    BY <1>1, LenProperties
  <1>3. s # << >>
    BY <1>1, <1>2, EmptySeq
  <1>4. /\ Tail(s) \in Seq(S) /\ Len(Tail(s)) = n - 1 /\ \A k \in 1 .. n - 1 : Tail(s)[k] = s[k + 1]
    BY <1>1, <1>2, <1>3, HeadTailProperties
  <1>5. /\ Append(Tail(s), d) \in Seq(S) /\ Len(Append(Tail(s), d)) = n
        /\ Append(Tail(s), d)[n] = d /\ \A k \in 1 .. n - 1 : Append(Tail(s), d)[k] = Tail(s)[k]
    BY <1>4, AppendProperties
  <1>6. Append(Tail(s), d) \in [1 .. n -> S]
    BY <1>5, LenProperties
  <1> QED
    BY <1>4, <1>5, <1>6 DEF Shifts

\* the register after another byte
LEMMA Shift ==
  ASSUME NEW s \in [1 .. 6 -> 0 .. 9], NEW d \in 0 .. 9
  PROVE  /\ Append(Tail(s), d) \in [1 .. 6 -> 0 .. 9] /\ Append(Tail(s), d)[6] = d
         /\ \A k \in 1 .. 5 : Append(Tail(s), d)[k] = s[k + 1]
  <1>1. 6 \in Nat /\ 6 > 0 /\ 6 - 1 = 5
    OBVIOUS
  <1>2. Shifts(s, d, 6, 0 .. 9)
    BY <1>1, ShiftSeq
  <1> QED
    BY <1>1, <1>2 DEF Shifts

-----------------------------------------------------------------------------
LEMMA InitInv == Init => IInv
  <1> SUFFICES ASSUME Init PROVE IInv
    OBVIOUS
  <1>1. TypeOK
    <2>1. /\ << Zero, Zero >> \in [1 .. 2 -> 0 .. 9] /\ << Zero, Zero, Zero, Zero >> \in [1 .. 4 -> 0 .. 9]
      BY DEF Zero
    <2>2. Released \in [buttons : [1 .. 2 -> 0 .. 9], sticks : [1 .. 4 -> 0 .. 9]]
      BY <2>1 DEF Released
    <2>3. [k \in 1 .. 6 |-> Zero] \in [1 .. 6 -> 0 .. 9]
      BY DEF Zero
    <2>4. ds \in Devices
      BY DEF Init, Devices, Commands
    <2>5. Id("unknown", 0) \in AnyId
      BY DEF Id, AnyId
    <2>6. faults \in 0 .. MaxFaults
      BY FaultsAssumption DEF Init
    <2>7. ctrl_data \in Display /\ ctrl_data_shift_reg \in [1 .. 6 -> 0 .. 9]
      BY <2>2, <2>3 DEF Init, Display
    <2>8. /\ fsm_state \in {"PACKET_TIMEOUT", "SET_COMMAND", "WAIT_ACK", "WAIT_BEFORE_NEXT_BYTE"}
          /\ cmd_type \in 0 .. 4 /\ byte_cnt \in 0 .. 15 /\ bytes_total \in {0, 2, 6} /\ updated \in BOOLEAN
          /\ ctrl_mode \in {"DIGITAL", "ANALOG", "CONFIG"} /\ mode_and_bytes_shift_reg \in AnyId
          /\ slipped \in BOOLEAN
      <3>1. cmd_type = 0 /\ byte_cnt = 0 /\ bytes_total = 0 /\ slipped = FALSE /\ updated = FALSE
        BY DEF Init
      <3>2. fsm_state = "PACKET_TIMEOUT" /\ ctrl_mode = "DIGITAL" /\ mode_and_bytes_shift_reg = Id("unknown", 0)
        BY DEF Init
      <3>3. slipped \in BOOLEAN /\ updated \in BOOLEAN
        BY <3>1
      <3> QED
        BY <2>5, <3>1, <3>2, <3>3
    <2> QED
      BY <2>4, <2>6, <2>7, <2>8, TypeParts
  <1>2. NotBehind /\ Together /\ IdKnown /\ Received /\ Waiting
    BY DEF Init, NotBehind, Together, IdKnown, Received, Waiting, InPacket
  <1> QED
    BY <1>1, <1>2 DEF IInv

-----------------------------------------------------------------------------
(***************************************************************************)
(* The controller is plugged in and out.                                   *)
(***************************************************************************)
LEMMA UnplugInv ==
  ASSUME IInv, Unplug
  PROVE  IInv'
  <1>1. /\ UNCHANGED << fsm_state, cmd_type, byte_cnt, ctrl_mode, bytes_total, updated,
                        mode_and_bytes_shift_reg, ctrl_data_shift_reg, ctrl_data, slipped >>
        /\ ds.plug = "in" /\ faults' \in 0 .. MaxFaults
    BY FaultsAssumption, TypeParts DEF Unplug, Fault, IInv
  <1>2. /\ ds' \in Devices /\ ds'.plug = "out" /\ ds'.pos = ds.pos /\ ds'.id = ds.id
    BY TypeParts DEF Unplug, IInv, Devices
  <1>3. TypeOK'
    <2>1. TypeOK
      BY DEF IInv
    <2> QED
      BY <1>1, <1>2, <2>1 DEF TypeOK, Devices, Selections, Commands
  <1>4. Length' = Length /\ ~Present' /\ ~Gone /\ InPacket' = InPacket
    BY <1>1, <1>2 DEF Length, Present, Gone, InPacket
  <1>5. NotBehind' /\ Together'
    BY <1>1, <1>2, <1>4 DEF IInv, NotBehind, Together
  <1>6. IdKnown' /\ Waiting'
    BY <1>1, <1>2, <1>4 DEF IInv, IdKnown, Waiting
  <1>7. Received'
    BY <1>1, <1>2, <1>4 DEF IInv, Received
  <1> QED
    BY <1>3, <1>5, <1>6, <1>7 DEF IInv

LEMMA PlugInv ==
  ASSUME IInv, Plug
  PROVE  IInv'
  <1>1. /\ UNCHANGED << fsm_state, cmd_type, byte_cnt, ctrl_mode, bytes_total, updated,
                        mode_and_bytes_shift_reg, ctrl_data_shift_reg, ctrl_data, slipped, faults >>
        /\ ~InPacket /\ InPacket' = InPacket
    BY DEF Plug, InPacket
  <1>2. ds' \in Devices /\ ds'.id = ds.id
    BY TypeParts DEF Plug, IInv, Devices
  <1>3. TypeOK'
    <2>1. TypeOK
      BY DEF IInv
    <2> QED
      BY <1>1, <1>2, <2>1 DEF TypeOK, Devices, Selections, Commands
  <1>4. NotBehind' /\ Together' /\ IdKnown' /\ Received' /\ Waiting'
    BY <1>1, <1>2 DEF IInv, NotBehind, Together, IdKnown, Received, Waiting
  <1> QED
    BY <1>3, <1>4 DEF IInv

-----------------------------------------------------------------------------
(***************************************************************************)
(* Between two packets.                                                    *)
(***************************************************************************)
IsPart(s, m, n, S) ==
  /\ SubSeq(s, m, n) \in [1 .. n - m + 1 -> S]
  /\ \A i \in 1 .. n - m + 1 : SubSeq(s, m, n)[i] = s[m + i - 1]

LEMMA PartOfSeq ==
  ASSUME NEW S, NEW l \in Nat, NEW s \in [1 .. l -> S], NEW m \in Nat, NEW n \in Nat, 1 <= m, m <= n, n <= l
  PROVE  IsPart(s, m, n, S)
  <1>1. s \in Seq(S)
    BY SeqDef
  <1>2. Len(s) = l
    BY <1>1, LenProperties
  <1>3. \A i \in m .. n : s[i] \in S
    OBVIOUS
  <1>4. /\ SubSeq(s, m, n) \in Seq(S) /\ Len(SubSeq(s, m, n)) = n - m + 1
        /\ \A i \in 1 .. n - m + 1 : SubSeq(s, m, n)[i] = s[m + i - 1]
    BY <1>1, <1>2, <1>3, SubSeqProperties
  <1>5. SubSeq(s, m, n) \in [1 .. n - m + 1 -> S]
    BY <1>4, LenProperties
  <1> QED
    BY <1>4, <1>5 DEF IsPart

\* the parts of the register that are shown
LEMMA Parts ==
  ASSUME NEW s \in [1 .. 6 -> 0 .. 9]
  PROVE  /\ SubSeq(s, 1, 2) \in [1 .. 2 -> 0 .. 9] /\ SubSeq(s, 1, 2) = << s[1], s[2] >>
         /\ SubSeq(s, 5, 6) \in [1 .. 2 -> 0 .. 9] /\ SubSeq(s, 5, 6) = << s[5], s[6] >>
         /\ SubSeq(s, 3, 6) \in [1 .. 4 -> 0 .. 9] /\ SubSeq(s, 3, 6) = << s[3], s[4], s[5], s[6] >>
  <1> DEFINE S == 0 .. 9
  <1>0. s \in [1 .. 6 -> S]
    OBVIOUS
  <1> HIDE DEF S
  <1>1. IsPart(s, 1, 2, S)
    <2>1. 6 \in Nat /\ 1 \in Nat /\ 2 \in Nat /\ 1 <= 1 /\ 1 <= 2 /\ 2 <= 6
      OBVIOUS
    <2> QED
      BY <1>0, <2>1, PartOfSeq
  <1>2. IsPart(s, 5, 6, S)
    <2>1. 6 \in Nat /\ 5 \in Nat /\ 6 \in Nat /\ 1 <= 5 /\ 5 <= 6 /\ 6 <= 6
      OBVIOUS
    <2> QED
      BY <1>0, <2>1, PartOfSeq
  <1>3. IsPart(s, 3, 6, S)
    <2>1. 6 \in Nat /\ 3 \in Nat /\ 6 \in Nat /\ 1 <= 3 /\ 3 <= 6 /\ 6 <= 6
      OBVIOUS
    <2> QED
      BY <1>0, <2>1, PartOfSeq
  <1>4. SubSeq(s, 1, 2) \in [1 .. 2 -> S] /\ SubSeq(s, 1, 2)[1] = s[1] /\ SubSeq(s, 1, 2)[2] = s[2]
    <2>1. 2 - 1 + 1 = 2 /\ 1 + 1 - 1 = 1 /\ 1 + 2 - 1 = 2 /\ 1 \in 1 .. 2 /\ 2 \in 1 .. 2
      OBVIOUS
    <2> QED
      BY <1>1, <2>1 DEF IsPart
  <1>5. SubSeq(s, 5, 6) \in [1 .. 2 -> S] /\ SubSeq(s, 5, 6)[1] = s[5] /\ SubSeq(s, 5, 6)[2] = s[6]
    <2>1. 6 - 5 + 1 = 2 /\ 5 + 1 - 1 = 5 /\ 5 + 2 - 1 = 6 /\ 1 \in 1 .. 2 /\ 2 \in 1 .. 2
      OBVIOUS
    <2> QED
      BY <1>2, <2>1 DEF IsPart
  <1>6. /\ SubSeq(s, 3, 6) \in [1 .. 4 -> S] /\ SubSeq(s, 3, 6)[1] = s[3] /\ SubSeq(s, 3, 6)[2] = s[4]
        /\ SubSeq(s, 3, 6)[3] = s[5] /\ SubSeq(s, 3, 6)[4] = s[6]
    <2>1. /\ 6 - 3 + 1 = 4 /\ 3 + 1 - 1 = 3 /\ 3 + 2 - 1 = 4 /\ 3 + 3 - 1 = 5 /\ 3 + 4 - 1 = 6
          /\ 1 \in 1 .. 4 /\ 2 \in 1 .. 4 /\ 3 \in 1 .. 4 /\ 4 \in 1 .. 4
      OBVIOUS
    <2> QED
      BY <1>3, <2>1 DEF IsPart
  <1>7. \A t \in [1 .. 2 -> S] : t = << t[1], t[2] >>
    OBVIOUS
  <1>8. \A t \in [1 .. 4 -> S] : t = << t[1], t[2], t[3], t[4] >>
    OBVIOUS
  <1>9. SubSeq(s, 1, 2) = << s[1], s[2] >>
    BY <1>4, <1>7
  <1>10. SubSeq(s, 5, 6) = << s[5], s[6] >>
    BY <1>5, <1>7
  <1>11. SubSeq(s, 3, 6) = << s[3], s[4], s[5], s[6] >>
    BY <1>6, <1>8
  <1> QED
    BY <1>4, <1>5, <1>6, <1>9, <1>10, <1>11 DEF S

LEMMA UpdateInv ==
  ASSUME IInv, Update
  PROVE  IInv'
  <1>1. /\ UNCHANGED << fsm_state, cmd_type, byte_cnt, ctrl_mode, bytes_total,
                        mode_and_bytes_shift_reg, ctrl_data_shift_reg, ds, slipped, faults >>
        /\ ~InPacket /\ ~InPacket' /\ updated' = FALSE
    BY DEF Update, InPacket
  <1>2. ctrl_data' \in Display
    BY TypeParts, Parts DEF IInv, Update, AllSix, LastTwo, Display
  <1>3. TypeOK'
    <2>1. TypeOK
      BY DEF IInv
    <2>2. updated' \in BOOLEAN
      BY <1>1
    <2> QED
      BY <1>1, <1>2, <2>1, <2>2 DEF TypeOK, Display
  <1>4. NotBehind' /\ Together' /\ IdKnown' /\ Received' /\ Waiting'
    BY <1>1 DEF IInv, NotBehind, Together, IdKnown, Received, Waiting
  <1> QED
    BY <1>3, <1>4 DEF IInv

LEMMA AttentionInv ==
  ASSUME IInv, Attention
  PROVE  IInv'
  <1>1. /\ UNCHANGED << cmd_type, byte_cnt, ctrl_mode, bytes_total, updated, mode_and_bytes_shift_reg, ctrl_data, faults >>
        /\ fsm_state' = "SET_COMMAND" /\ slipped' = FALSE /\ updated = FALSE /\ byte_cnt = 0 /\ InPacket'
    BY TypeParts DEF Attention, InPacket, IInv, NotBehind
  <1>2. ds' \in Devices /\ ds'.pos = 0 /\ ds'.id \in Selections
    <2>1. PICK id \in Selections : ds' = [ds EXCEPT !.pos = 0, !.command = "01", !.id = id]
      BY DEF Attention, Selected, Selections
    <2>2. ds \in Devices
      BY TypeParts DEF IInv
    <2>3. "01" \in Commands
      BY DEF Commands
    <2>4. /\ ds.plug \in {"in", "out", "missed"} /\ ds.config \in BOOLEAN /\ ds.analog \in BOOLEAN
          /\ DOMAIN ds = {"plug", "config", "analog", "pos", "command", "id"}
      BY <2>2 DEF Devices
    <2>5. ds' = [plug |-> ds.plug, config |-> ds.config, analog |-> ds.analog, pos |-> 0, command |-> "01", id |-> id]
      BY <2>1, <2>2 DEF Devices
    <2> QED
      BY <2>3, <2>4, <2>5 DEF Devices
  <1>3. ctrl_data_shift_reg' \in [1 .. 6 -> 0 .. 9]
    BY DEF Attention, Zero, Old
  <1>4. TypeOK'
    <2>1. TypeOK
      BY DEF IInv
    <2> QED
      BY <1>1, <1>2, <1>3, <2>1 DEF TypeOK, Devices, Selections, Commands
  <1>5. Length' \in {5, 9}
    BY <1>2 DEF Length, Selections, Id
  <1>6. NotBehind' /\ Together' /\ IdKnown' /\ Received' /\ Waiting'
    BY <1>1, <1>2, <1>5 DEF NotBehind, Together, IdKnown, Received, Waiting
  <1> QED
    BY <1>4, <1>6 DEF IInv

-----------------------------------------------------------------------------
(***************************************************************************)
(* A byte.                                                                 *)
(***************************************************************************)
LEMMA Remainders ==
  /\ \A b \in 0 .. 14 : (b + 1) % 16 = b + 1
  /\ \A b \in 0 .. 15 : (b + 1) % 16 \in 0 .. 15 /\ (b + 1) % 16 <= b + 1
  /\ (0 + 3) % 16 = 3 /\ (2 + 3) % 16 = 5 /\ (6 + 3) % 16 = 9
  /\ (0 + 2) % 16 = 2 /\ (2 + 2) % 16 = 4 /\ (6 + 2) % 16 = 8
  OBVIOUS

LEMMA ExchangeInv ==
  ASSUME IInv, Exchange
  PROVE  IInv'
  <1>1. /\ UNCHANGED << cmd_type, ctrl_mode, bytes_total, updated, ctrl_data, slipped, faults >>
        /\ fsm_state = "SET_COMMAND" /\ fsm_state' \in {"WAIT_BEFORE_NEXT_BYTE", "WAIT_ACK"}
        /\ fsm_state' = "WAIT_BEFORE_NEXT_BYTE" <=> byte_cnt >= 3 /\ byte_cnt = (bytes_total + 2) % 16
        /\ byte_cnt' = (byte_cnt + 1) % 16 /\ InPacket /\ InPacket' /\ updated = FALSE
        /\ byte_cnt = 1 => mode_and_bytes_shift_reg' \in Ids
        /\ byte_cnt # 1 => mode_and_bytes_shift_reg' = mode_and_bytes_shift_reg
    BY TypeParts DEF Exchange, InPacket, IInv, NotBehind
  <1>2. TypeOK /\ cmd_type \in 0 .. 4 /\ byte_cnt \in 0 .. 15 /\ ds \in Devices
    BY TypeParts DEF IInv
  <1>3. SetCommand \in Commands
    BY <1>2 DEF SetCommand, Commands
  <1>4. /\ ds' \in Devices /\ ds'.plug = ds.plug /\ ds'.id = ds.id
        /\ (Present => ds'.pos = ds.pos + 1) /\ (~Present => ds'.pos = ds.pos)
    BY <1>2, <1>3, HearsFacts DEF Exchange
  <1>5. Length' = Length /\ Length \in {3, 5, 9} /\ (Present' => Present)
    BY <1>2, <1>4, DeviceFacts DEF Length, Present, Devices
  <1>6. byte_cnt' \in 0 .. 15 /\ byte_cnt' <= byte_cnt + 1
    BY <1>1, <1>2, Remainders
  <1>7. byte_cnt > 2 => Data \in 0 .. 9 /\ (~Present => Data = Lost)
                        /\ (Present /\ ds.id.mode # "CONFIG" => Data = ds.pos - 2)
    <2>1. Present /\ byte_cnt > 2 => ds.pos - 2 \in 0 .. 9
      BY <1>1, <1>2, <1>5 DEF IInv, NotBehind, Devices, Present
    <2> QED
      BY <2>1 DEF Data, Lost, Answer
  <1>8. /\ ctrl_data_shift_reg' \in [1 .. 6 -> 0 .. 9]
        /\ cmd_type \in {0, 4} /\ byte_cnt > 2 =>
             ctrl_data_shift_reg'[6] = Data /\ \A k \in 1 .. 5 : ctrl_data_shift_reg'[k] = ctrl_data_shift_reg[k + 1]
    <2>1. ctrl_data_shift_reg \in [1 .. 6 -> 0 .. 9]
      BY <1>2, TypeParts
    <2>2. CASE cmd_type \in {0, 4} /\ byte_cnt > 2
      <3>1. ctrl_data_shift_reg' = Append(Tail(ctrl_data_shift_reg), Data) /\ Data \in 0 .. 9
        BY <1>7, <2>2 DEF Exchange
      <3> QED
        BY <2>1, <3>1, Shift
    <2>3. CASE ~(cmd_type \in {0, 4} /\ byte_cnt > 2)
      BY <2>1, <2>3 DEF Exchange
    <2> QED
      BY <2>2, <2>3
  <1>9. mode_and_bytes_shift_reg' \in AnyId
    <2>1. ds.id \in AnyId
      BY <1>2 DEF Devices, Selections, Id, AnyId
    <2> QED
      BY <1>1, <1>2, <2>1, TypeParts DEF Ids
  <1>10. TypeOK'
    BY <1>1, <1>2, <1>4, <1>6, <1>8, <1>9 DEF TypeOK, Devices, Selections, Commands
  <1>11. NotBehind'
    BY <1>1, <1>2, <1>4, <1>5, <1>6 DEF IInv, NotBehind, Devices
  <1>12. ~slipped => /\ ds.id \in Selections /\ ds.pos = byte_cnt /\ byte_cnt < Length /\ Length \in {5, 9}
                     /\ ds.plug = "missed" => ds.pos = 0
                     /\ byte_cnt' = byte_cnt + 1
                     /\ Present <=> ds.plug = "in"
    BY <1>1, <1>2, DeviceFacts, Remainders DEF IInv, Together, Present
  <1>13. ~slipped => (ds'.pos = byte_cnt' \/ Gone') /\ (ds.plug = "in" => ds'.pos = byte_cnt')
    BY <1>2, <1>4, <1>12 DEF Gone, Devices
  <1>14. ~slipped /\ fsm_state' = "WAIT_BEFORE_NEXT_BYTE" => byte_cnt' = Length
    BY <1>1, <1>2, <1>12, Remainders, TypeParts DEF IInv, IdKnown, Length
  <1>15. ~slipped /\ fsm_state' = "WAIT_ACK" => byte_cnt' < Length
    BY <1>1, <1>2, <1>12, Remainders, TypeParts DEF IInv, IdKnown, Length
  <1>16. Together'
    <2>1. ~slipped /\ ds'.plug = "missed" => ds'.pos = 0
      BY <1>4, <1>12
    <2> QED
      BY <1>1, <1>2, <1>4, <1>5, <1>12, <1>13, <1>14, <1>15, <2>1 DEF Together
  <1>17. IdKnown'
    <2>1. ~slipped /\ byte_cnt' >= 3 => bytes_total' = ds'.id.bytes /\ ctrl_mode' = ds'.id.mode
      BY <1>1, <1>2, <1>4, <1>12 DEF IInv, IdKnown
    <2>2. ~slipped /\ byte_cnt' = 2 /\ ds'.plug = "in" => mode_and_bytes_shift_reg' = ds'.id
      BY <1>1, <1>2, <1>4, <1>12 DEF Ids
    <2>3. ~slipped /\ byte_cnt' = 2 => fsm_state' = "WAIT_ACK"
      BY <1>1, <1>2, <1>12
    <2> QED
      BY <1>1, <2>1, <2>2, <2>3 DEF IdKnown
  <1>18. Received'
    <2> SUFFICES ASSUME ~slipped, cmd_type \in {0, 4}, ds.id.mode # "CONFIG", NEW k \in 1 .. 6, k + 3 <= byte_cnt'
                 PROVE  \/ ctrl_data_shift_reg'[k + 9 - byte_cnt'] = k
                        \/ k + 3 = byte_cnt' /\ Gone' /\ ctrl_data_shift_reg'[6] = Lost
      BY <1>1, <1>4 DEF Received
    <2>1. /\ byte_cnt' = byte_cnt + 1 /\ byte_cnt > 2 /\ byte_cnt <= 8 /\ ctrl_data_shift_reg'[6] = Data
          /\ \A j \in 1 .. 5 : ctrl_data_shift_reg'[j] = ctrl_data_shift_reg[j + 1]
      BY <1>2, <1>8, <1>12
    <2>2. CASE k + 3 = byte_cnt'
      <3>1. k = byte_cnt - 2 /\ k + 9 - byte_cnt' = 6
        BY <1>2, <2>1, <2>2
      <3>2. CASE Present
        BY <1>7, <1>12, <2>1, <3>1, <3>2
      <3>3. CASE ~Present
        BY <1>4, <1>7, <1>12, <2>1, <2>2, <3>3 DEF Gone
      <3> QED
        BY <3>2, <3>3
    <2>3. CASE k + 3 # byte_cnt'
      <3>1. k + 3 <= byte_cnt /\ k + 9 - byte_cnt' \in 1 .. 5 /\ (k + 9 - byte_cnt') + 1 = k + 9 - byte_cnt
        BY <1>2, <2>1, <2>3
      <3>2. ~Gone
        BY <1>2, <1>12 DEF Gone, Devices
      <3>3. ctrl_data_shift_reg[k + 9 - byte_cnt] = k
        BY <1>1, <3>1, <3>2 DEF IInv, Received
      <3> QED
        BY <2>1, <3>1, <3>3
    <2> QED
      BY <2>2, <2>3
  <1>19. Waiting'
    BY <1>1 DEF Waiting
  <1> QED
    BY <1>10, <1>11, <1>16, <1>17, <1>18, <1>19 DEF IInv

LEMMA StoredTypes ==
  ASSUME TypeOK
  PROVE  /\ \A m \in {"DIGITAL", "ANALOG", "CONFIG"} : Mode(m) \in {"DIGITAL", "ANALOG", "CONFIG"}
         /\ \A b \in {0, 2, 6} : Total(b) \in {0, 2, 6}
  BY TypeParts DEF Mode, Total, AnyId

LEMMA AckInv ==
  ASSUME IInv, Ack
  PROVE  IInv'
  <1>1. /\ UNCHANGED << cmd_type, byte_cnt, updated, mode_and_bytes_shift_reg, ctrl_data_shift_reg, ctrl_data, ds,
                        slipped, faults >>
        /\ fsm_state = "WAIT_ACK" /\ fsm_state' = "WAIT_BEFORE_NEXT_BYTE" /\ InPacket /\ InPacket'
        /\ Present /\ ds.plug = "in" /\ ctrl_mode' = Mode(ctrl_mode) /\ bytes_total' = Total(bytes_total)
    BY DEF Ack, Acknowledges, Present, InPacket
  <1>2. TypeOK /\ byte_cnt \in 0 .. 15 /\ ds \in Devices
    BY TypeParts DEF IInv
  <1>3. TypeOK'
    <2>1. ctrl_mode' \in {"DIGITAL", "ANALOG", "CONFIG"} /\ bytes_total' \in {0, 2, 6}
      BY <1>1, <1>2, TypeParts, StoredTypes
    <2> QED
      BY <1>1, <1>2, <2>1 DEF TypeOK
  <1>4. Length' = Length /\ Present' = Present /\ Gone' = Gone /\ ~Gone
    BY <1>1 DEF Length, Present, Gone
  <1>5. NotBehind' /\ Together'
    <2>1. NotBehind'
      BY <1>1, <1>4 DEF IInv, NotBehind
    <2>2. ~slipped => /\ ds.id \in Selections /\ ds.pos = byte_cnt /\ 1 <= byte_cnt /\ byte_cnt < Length
      BY <1>1, <1>4 DEF IInv, Together
    <2>3. byte_cnt < Length => byte_cnt <= Length
      BY <1>2, DeviceFacts
    <2>4. Together'
      BY <1>1, <1>4, <2>2, <2>3 DEF Together
    <2> QED
      BY <2>1, <2>4
  <1>6. IdKnown'
    <2> SUFFICES ASSUME ~slipped, byte_cnt >= 2
                 PROVE  bytes_total' = ds.id.bytes /\ ctrl_mode' = ds.id.mode
      BY <1>1, <1>2 DEF IdKnown
    <2>1. ds.id \in Selections /\ ds.id.mode # "unknown" /\ ds.id.bytes # 0
      BY <1>1 DEF IInv, Together, Selections, Id
    <2>2. CASE byte_cnt = 2
      BY <1>1, <2>1, <2>2 DEF IInv, IdKnown, Mode, Total
    <2>3. CASE byte_cnt # 2
      BY <1>1, <1>2, <2>3 DEF IInv, IdKnown, Mode, Total
    <2> QED
      BY <2>2, <2>3
  <1>7. Received' /\ Waiting'
    BY <1>1, <1>4 DEF IInv, Received, Waiting
  <1> QED
    BY <1>3, <1>5, <1>6, <1>7 DEF IInv

\* a packet that is broken off leaves nothing behind but what the controller is
LEMMA ResetTypes ==
  ASSUME TypeOK, NEW to \in {"PACKET_TIMEOUT", "WAIT_BEFORE_NEXT_BYTE"}, Reset(to),
         ds' \in Devices, slipped' \in BOOLEAN, faults' \in 0 .. MaxFaults
  PROVE  TypeOK' /\ byte_cnt' = 0 /\ updated' = FALSE /\ ctrl_data' = Released
  <1>1. /\ fsm_state' = to /\ cmd_type' = 0 /\ byte_cnt' = 0 /\ updated' = FALSE
        /\ mode_and_bytes_shift_reg' = Id("unknown", 0)
        /\ ctrl_data_shift_reg' = [k \in 1 .. 6 |-> Zero] /\ ctrl_data' = Released
        /\ ctrl_mode' = Mode("DIGITAL") /\ bytes_total' = Total(0)
    BY DEF Reset
  <1>2. ctrl_mode' \in {"DIGITAL", "ANALOG", "CONFIG"} /\ bytes_total' \in {0, 2, 6}
    BY <1>1, StoredTypes
  <1>3. ctrl_data' \in Display
    <2>1. /\ << Zero, Zero >> \in [1 .. 2 -> 0 .. 9] /\ << Zero, Zero, Zero, Zero >> \in [1 .. 4 -> 0 .. 9]
      BY DEF Zero
    <2> QED
      BY <1>1, <2>1 DEF Released, Display
  <1>4. mode_and_bytes_shift_reg' \in AnyId
    BY <1>1 DEF Id, AnyId
  <1>5. ctrl_data_shift_reg' \in [1 .. 6 -> 0 .. 9]
    BY <1>1 DEF Zero
  <1>6. /\ fsm_state' \in {"PACKET_TIMEOUT", "SET_COMMAND", "WAIT_ACK", "WAIT_BEFORE_NEXT_BYTE"}
        /\ cmd_type' \in 0 .. 4 /\ byte_cnt' \in 0 .. 15
    BY <1>1
  <1>7. updated' \in BOOLEAN
    BY <1>1
  <1>8. TypeOK'
    BY <1>2, <1>3, <1>4, <1>5, <1>6, <1>7 DEF TypeOK, Display, Devices, Selections, Commands
  <1> QED
    BY <1>1, <1>8

LEMMA AckTimeoutInv ==
  ASSUME IInv, AckTimeout
  PROVE  IInv'
  <1>1. ds' \in Devices /\ slipped' \in BOOLEAN /\ faults' \in 0 .. MaxFaults
    BY FaultsAssumption, TypeParts DEF AckTimeout, Fault, IInv, Devices
  <1>2. TypeOK' /\ byte_cnt' = 0 /\ updated' = FALSE
    BY <1>1, ResetTypes DEF AckTimeout, IInv
  <1>3. ~InPacket'
    BY DEF AckTimeout, Reset, InPacket
  <1>4. NotBehind' /\ Together' /\ IdKnown' /\ Received' /\ Waiting'
    BY <1>2, <1>3 DEF NotBehind, Together, IdKnown, Received, Waiting
  <1> QED
    BY <1>2, <1>4 DEF IInv

LEMMA AckAtTimeoutInv ==
  ASSUME IInv, AckAtTimeout
  PROVE  IInv'
  <1>1. ds' \in Devices /\ slipped' = TRUE /\ faults' \in 0 .. MaxFaults
    BY FaultsAssumption, TypeParts DEF AckAtTimeout, Fault, IInv
  <1>2. TypeOK' /\ byte_cnt' = 0 /\ updated' = FALSE
    BY <1>1, ResetTypes DEF AckAtTimeout, IInv
  <1>3. InPacket'
    BY DEF AckAtTimeout, Reset, InPacket
  <1>4. ds'.pos >= 0
    BY <1>1 DEF Devices
  <1>5. NotBehind' /\ Together' /\ IdKnown' /\ Received' /\ Waiting'
    BY <1>1, <1>2, <1>3, <1>4 DEF NotBehind, Together, IdKnown, Received, Waiting
  <1> QED
    BY <1>2, <1>5 DEF IInv

\* the master ends its packet where the controller does
LEMMA EndsTogether ==
  ASSUME IInv, fsm_state = "WAIT_BEFORE_NEXT_BYTE", ~slipped
  PROVE  /\ Ends <=> byte_cnt = Length
         /\ ds.pos = byte_cnt \/ (ds.plug = "out" /\ Gone /\ byte_cnt = Length)
         /\ byte_cnt <= Length /\ byte_cnt \in 0 .. 15 /\ Length \in {5, 9} /\ ds.id \in Selections
         /\ byte_cnt >= 2 => bytes_total = ds.id.bytes /\ ctrl_mode = ds.id.mode
  <1>1. TypeOK /\ byte_cnt \in 0 .. 15 /\ ds \in Devices
    BY TypeParts DEF IInv
  <1>2. /\ ds.id \in Selections /\ byte_cnt <= Length /\ (ds.pos = byte_cnt \/ (Gone /\ byte_cnt = Length))
        /\ ds.plug = "missed" => ds.pos = 0
    BY DEF IInv, Together, InPacket
  <1>3. Length \in {5, 9} /\ ds.id.bytes \in {2, 6} /\ Length = 3 + ds.id.bytes
    BY <1>1, <1>2, DeviceFacts DEF Length
  <1>4. byte_cnt >= 2 => bytes_total = ds.id.bytes /\ ctrl_mode = ds.id.mode
    BY <1>1 DEF IInv, IdKnown, InPacket
  <1>5. Ends <=> byte_cnt = Length
    BY <1>1, <1>3, <1>4, Remainders DEF Ends
  <1>6. Gone /\ byte_cnt = Length => ds.plug = "out"
    BY <1>1, <1>2, <1>3 DEF Gone, Devices
  <1> QED
    BY <1>1, <1>2, <1>3, <1>4, <1>5, <1>6

LEMMA NextByteInv ==
  ASSUME IInv, NextByte
  PROVE  IInv'
  <1>1. /\ UNCHANGED << ctrl_mode, mode_and_bytes_shift_reg, ctrl_data_shift_reg, ctrl_data, ds, slipped, faults >>
        /\ fsm_state = "WAIT_BEFORE_NEXT_BYTE" /\ InPacket /\ updated = FALSE
        /\ Length' = Length /\ Present' = Present
    BY TypeParts DEF NextByte, InPacket, Length, Present, IInv, NotBehind
  <1>2. TypeOK /\ byte_cnt \in 0 .. 15 /\ ds \in Devices
    BY TypeParts DEF IInv
  <1>3. CASE ~Ends
    <2>1. /\ fsm_state' = "SET_COMMAND" /\ UNCHANGED << cmd_type, byte_cnt, bytes_total, updated >> /\ InPacket'
      BY <1>3 DEF NextByte, InPacket
    <2>2. TypeOK'
      BY <1>1, <1>2, <2>1 DEF TypeOK
    <2>3. Gone' = Gone
      BY <1>1, <2>1 DEF Gone
    <2>4. NotBehind' /\ IdKnown' /\ Received' /\ Waiting'
      BY <1>1, <2>1, <2>3 DEF IInv, NotBehind, IdKnown, Received, Waiting
    <2>5. Together'
      BY <1>1, <1>3, <2>1, EndsTogether DEF Together, IInv
    <2> QED
      BY <2>2, <2>4, <2>5 DEF IInv
  <1>4. CASE Ends
    <2>1. /\ fsm_state' = "PACKET_TIMEOUT" /\ byte_cnt' = 0 /\ bytes_total' = 0 /\ ~InPacket'
          /\ cmd_type' \in 0 .. 4 /\ updated' \in BOOLEAN /\ (updated' => cmd_type \in {0, 4})
      BY <1>1, <1>2, <1>4, TypeParts DEF NextByte, InPacket
    <2>2. TypeOK'
      BY <1>1, <1>2, <2>1 DEF TypeOK
    <2>3. Waiting'
      <3> SUFFICES ASSUME cmd_type \in {0, 4}, ~slipped
                   PROVE  /\ ds.id \in Selections /\ ctrl_mode = ds.id.mode
                          /\ ds.id.mode = "ANALOG" => /\ \A k \in 1 .. 5 : ctrl_data_shift_reg[k] = k
                                                      /\ ctrl_data_shift_reg[6] \in {6, Lost}
                          /\ ds.id.mode = "DIGITAL" => ctrl_data_shift_reg[5] = 1 /\ ctrl_data_shift_reg[6] \in {2, Lost}
        BY <1>1, <2>1 DEF Waiting
      <3>1. byte_cnt = Length /\ Length \in {5, 9} /\ ds.id \in Selections /\ ctrl_mode = ds.id.mode
        BY <1>1, <1>4, EndsTogether
      <3>2. ds.id.mode # "CONFIG" =>
              \A k \in 1 .. 6 : k + 3 <= byte_cnt =>
                \/ ctrl_data_shift_reg[k + 9 - byte_cnt] = k
                \/ k + 3 = byte_cnt /\ ctrl_data_shift_reg[6] = Lost
        BY <1>1 DEF IInv, Received
      <3>3. ds.id.mode = "ANALOG" => byte_cnt = 9
        BY <1>2, <3>1, DeviceFacts
      <3>4. ds.id.mode = "DIGITAL" => byte_cnt = 5
        BY <1>2, <3>1, DeviceFacts
      <3>5. ds.id.mode = "ANALOG" => /\ \A k \in 1 .. 5 : ctrl_data_shift_reg[k] = k
                                     /\ ctrl_data_shift_reg[6] \in {6, Lost}
        BY <3>2, <3>3
      <3>6. ds.id.mode = "DIGITAL" => ctrl_data_shift_reg[5] = 1 /\ ctrl_data_shift_reg[6] \in {2, Lost}
        <4> SUFFICES ASSUME ds.id.mode = "DIGITAL"
                     PROVE  ctrl_data_shift_reg[5] = 1 /\ ctrl_data_shift_reg[6] \in {2, Lost}
          OBVIOUS
        <4>1. byte_cnt = 5 /\ 1 + 9 - 5 = 5 /\ 2 + 9 - 5 = 6
          BY <3>4
        <4>2. ctrl_data_shift_reg[1 + 9 - byte_cnt] = 1
          BY <3>2, <4>1
        <4>3. ctrl_data_shift_reg[2 + 9 - byte_cnt] = 2 \/ ctrl_data_shift_reg[6] = Lost
          BY <3>2, <4>1
        <4> QED
          BY <4>1, <4>2, <4>3
      <3> QED
        BY <3>1, <3>5, <3>6
    <2>4. NotBehind' /\ Together' /\ IdKnown' /\ Received'
      BY <2>1 DEF NotBehind, Together, IdKnown, Received
    <2> QED
      BY <2>2, <2>3, <2>4 DEF IInv
  <1> QED
    BY <1>3, <1>4

-----------------------------------------------------------------------------
LEMMA NextInv ==
  ASSUME IInv, [Next]_vars
  PROVE  IInv'
  <1>1. CASE UNCHANGED vars
    BY <1>1 DEF vars, IInv, TypeOK, NotBehind, Together, IdKnown, Received, Waiting, InPacket, Length, Present, Gone
  <1> QED
    BY <1>1, UnplugInv, PlugInv, UpdateInv, AttentionInv, ExchangeInv, AckInv, AckTimeoutInv, AckAtTimeoutInv,
       NextByteInv DEF Next, Clock

\* The inductive invariant holds in every reachable state.
THEOREM Invariance == Spec => []IInv
  <1>1. IInv /\ [Next]_vars => IInv'
    BY NextInv
  <1> QED
    BY <1>1, InitInv, PTL DEF Spec

\* The registers and the controller keep their types; in particular no byte of
\* data comes from a place before the first.
THEOREM TypeCorrect == Spec => []TypeOK
  <1>1. IInv => TypeOK
    BY DEF IInv
  <1> QED
    BY <1>1, Invariance, PTL

\* Where the master ends a packet the controller has come to the end of its own, for
\* any number of faults (dualshock_ctrl.vhd:305, :368).
THEOREM PacketsAreComplete == Spec => PacketsComplete
  <1>1. IInv /\ [Next]_vars
          => [fsm_state = "WAIT_BEFORE_NEXT_BYTE" /\ fsm_state' = "PACKET_TIMEOUT" /\ ~slipped =>
                ds.pos = Length \/ (ds.plug = "out" /\ ds.pos = Length - 1)]_vars
    <2> SUFFICES ASSUME IInv, Next, fsm_state = "WAIT_BEFORE_NEXT_BYTE", fsm_state' = "PACKET_TIMEOUT", ~slipped
                 PROVE  ds.pos = Length \/ (ds.plug = "out" /\ ds.pos = Length - 1)
      OBVIOUS
    <2>1. NextByte
      BY DEF Next, Clock, Unplug, Plug, Update, Attention, Exchange, Ack, AckTimeout, AckAtTimeout
    <2>2. Ends
      BY <2>1 DEF NextByte
    <2>3. ds \in Devices
      BY TypeParts DEF IInv
    <2> QED
      BY <2>2, <2>3, EndsTogether DEF Gone, Devices
  <1> QED
    BY <1>1, Invariance, PTL DEF Spec, PacketsComplete

\* What the game is shown comes from one packet, each byte in its place, or is the
\* reset value, for any number of faults (dualshock_ctrl.vhd:111-158).
THEOREM OnePacketShown == Spec => ShowsOnePacket
  <1>1. IInv /\ [Next]_vars
          => [ctrl_data' # ctrl_data /\ ~slipped /\ ds.id.mode # "CONFIG" =>
                \/ ctrl_data' = Released
                \/ ctrl_data'.buttons \in {<< 1, 2 >>, << 1, Lost >>} /\ ctrl_data'.sticks = ctrl_data.sticks
                \/ ctrl_data'.buttons = << 1, 2 >> /\ ctrl_data'.sticks \in {<< 3, 4, 5, 6 >>, << 3, 4, 5, Lost >>}]_vars
    <2> SUFFICES ASSUME IInv, Next, ctrl_data' # ctrl_data, ~slipped, ds.id.mode # "CONFIG"
                 PROVE  \/ ctrl_data' = Released
                        \/ ctrl_data'.buttons \in {<< 1, 2 >>, << 1, Lost >>} /\ ctrl_data'.sticks = ctrl_data.sticks
                        \/ ctrl_data'.buttons = << 1, 2 >> /\ ctrl_data'.sticks \in {<< 3, 4, 5, 6 >>, << 3, 4, 5, Lost >>}
      OBVIOUS
    <2>1. CASE AckTimeout \/ AckAtTimeout
      BY <2>1 DEF AckTimeout, AckAtTimeout, Reset
    <2>2. CASE Update
      <3>1. ctrl_data \in Display /\ ctrl_data_shift_reg \in [1 .. 6 -> 0 .. 9]
        BY TypeParts DEF IInv
      <3>2. /\ ds.id \in Selections /\ ctrl_mode = ds.id.mode
            /\ ds.id.mode = "ANALOG" => /\ \A k \in 1 .. 5 : ctrl_data_shift_reg[k] = k
                                        /\ ctrl_data_shift_reg[6] \in {6, Lost}
            /\ ds.id.mode = "DIGITAL" => ctrl_data_shift_reg[5] = 1 /\ ctrl_data_shift_reg[6] \in {2, Lost}
        BY <2>2 DEF Update, IInv, Waiting, InPacket
      <3>3. CASE ds.id.mode = "ANALOG"
        <4>1. ctrl_data'.buttons = SubSeq(ctrl_data_shift_reg, 1, 2) /\ ctrl_data'.sticks = SubSeq(ctrl_data_shift_reg, 3, 6)
          BY <2>2, <3>2, <3>3 DEF Update, AllSix
        <4> QED
          BY <3>1, <3>2, <3>3, <4>1, Parts
      <3>4. CASE ds.id.mode = "DIGITAL"
        <4>1. ctrl_data'.buttons = SubSeq(ctrl_data_shift_reg, 5, 6) /\ ctrl_data'.sticks = ctrl_data.sticks
          BY <2>2, <3>1, <3>2, <3>4 DEF Update, LastTwo, Display
        <4> QED
          BY <3>1, <3>2, <3>4, <4>1, Parts
      <3> QED
        BY <3>2, <3>3, <3>4 DEF Selections, Id
    <2> QED
      BY <2>1, <2>2 DEF Next, Clock, Unplug, Plug, Attention, Exchange, Ack, NextByte
  <1> QED
    BY <1>1, Invariance, PTL DEF Spec, ShowsOnePacket

=============================================================================
