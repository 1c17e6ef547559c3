---------------------------- MODULE Fifo_proofs -----------------------------
(***************************************************************************)
(* Proofs about the two FIFOs, for every RAM size of at least two words,   *)
(* every set of words, and whatever writers and readers do: first the FIFO *)
(* (Fifo1c1r1w), then the one with first word fall through (FifoFwft), on  *)
(* top of it.                                                              *)
(***************************************************************************)
EXTENDS FifoFwft, SequenceTheorems, TLAPS

\* The flags, the fill counter and the pointers only make sense together.
IInv == TypeOK /\ FlagsSafe /\ FillLevelExact

LEMMA SuccType ==
  ASSUME NEW a \in Address
  PROVE  /\ Succ(a) \in Address
         /\ Succ(a) # a
  BY SizeAssumption DEF Address, Succ

LEMMA CountType == TypeOK => Count \in 0 .. Size
  BY SizeAssumption DEF TypeOK, Count, Address

\* Every legal clock edge changes the number of words by what it was asked.
LEMMA CountStep ==
  ASSUME IInv, NEW wr \in BOOLEAN, NEW rd \in BOOLEAN, NEW d \in Data,
         Legal(wr, rd), Tick(wr, rd, d)
  PROVE  Count' = Count + (IF wr THEN 1 ELSE 0) - (IF rd THEN 1 ELSE 0)
  <1> USE SizeAssumption DEF IInv, TypeOK, FlagsSafe, Legal, Tick, Address
  <1>1. CASE wr /\ rd
    BY <1>1 DEF Write, Read, Flags, Count, Succ
  <1>2. CASE wr /\ ~rd
    BY <1>2 DEF Write, Read, Flags, Count, Succ
  <1>3. CASE ~wr /\ rd
    BY <1>3 DEF Write, Read, Flags, Count, Succ
  <1>4. CASE ~wr /\ ~rd
    BY <1>4 DEF Write, Read, Flags, Count, Succ
  <1> QED
    BY <1>1, <1>2, <1>3, <1>4

LEMMA InitInv == Init => IInv
  <1> SUFFICES ASSUME Init PROVE IInv
    OBVIOUS
  <1>1. Size \div 2 \in Nat /\ Size \div 2 >= 1
    BY SizeAssumption
  <1>2. Count = 0
    BY SizeAssumption DEF Init, Count
  <1>3. TypeOK
    <2>1. 0 \in Address /\ 0 \in 0 .. Size
      BY SizeAssumption DEF Address
    <2> QED
      BY <2>1, DataAssumption DEF Init, TypeOK
  <1>4. FlagsSafe
    BY <1>1, <1>2, SizeAssumption DEF Init, FlagsSafe
  <1>5. FillLevelExact
    BY <1>2 DEF Init, FillLevelExact
  <1> QED
    BY <1>3, <1>4, <1>5 DEF IInv

LEMMA StepInv == IInv /\ [Next]_fifoVars => IInv'
  <1> SUFFICES ASSUME IInv, [Next]_fifoVars PROVE IInv'
    OBVIOUS
  <1>1. ASSUME NEW wr \in BOOLEAN, NEW rd \in BOOLEAN, NEW d \in Data,
               Legal(wr, rd), Tick(wr, rd, d)
        PROVE  IInv'
    <2>1. Count' = Count + (IF wr THEN 1 ELSE 0) - (IF rd THEN 1 ELSE 0)
      BY <1>1, CountStep
    <2>2. /\ ram' \in [Address -> Data]
          /\ read_address' \in Address /\ write_address' \in Address
          /\ rd_data' \in Data
      BY <1>1, SuccType DEF IInv, TypeOK, Tick, Write, Read
    <2>3. full' \in BOOLEAN /\ empty' \in BOOLEAN /\ half_full' \in BOOLEAN
      BY <1>1 DEF IInv, TypeOK, Tick, Flags, Fill
    <2>4. Count \in 0 .. Size /\ Count' \in 0 .. Size
      <3>1. Count \in 0 .. Size
        BY CountType DEF IInv
      <3>2. Count' \in 0 .. Size
        BY <1>1, <2>1, <3>1, SizeAssumption DEF IInv, FlagsSafe, Legal
      <3> QED
        BY <3>1, <3>2
    <2>5. FlagsSafe' /\ FillLevelExact'
      <3>1. empty' <=> Count' = 0
        BY <1>1, <2>1, <2>4, SizeAssumption
        DEF IInv, TypeOK, FlagsSafe, Tick, Flags, Legal, Count, Succ, Address
      <3>2. ~full' => Count' < Size
        BY <1>1, <2>1, <2>4, SizeAssumption
        DEF IInv, TypeOK, FlagsSafe, Tick, Flags, Legal, Count, Succ, Address
      <3>3. full' => Count' >= Size - 1
        <4>1. read_address = Succ(write_address) => Count = Size - 1
          BY SizeAssumption DEF IInv, TypeOK, Count, Succ, Address
        <4>2. CASE wr /\ read_address = Succ(write_address)
          BY <2>1, <4>1, <4>2, SizeAssumption
        <4>3. CASE full /\ ~rd
          BY <1>1, <2>1, <2>4, <4>3, SizeAssumption DEF IInv, FlagsSafe, Legal
        <4> QED
          BY <1>1, <4>2, <4>3 DEF Tick, Flags
      <3>4. pointer_diff' = Count' /\ (half_full' <=> Count' >= Size \div 2)
        BY <1>1, <2>1, <2>4, SizeAssumption DEF IInv, FillLevelExact, Tick, Fill
      <3> QED
        BY <3>1, <3>2, <3>3, <3>4 DEF FlagsSafe, FillLevelExact
    <2> QED
      BY <2>2, <2>3, <2>4, <2>5 DEF IInv, TypeOK, FillLevelExact
  <1>2. CASE UNCHANGED fifoVars
    BY <1>2 DEF fifoVars, IInv, TypeOK, FlagsSafe, FillLevelExact, Count, Address
  <1> QED
    BY <1>1, <1>2 DEF Next

(***************************************************************************)
(* The pointers stay in range and the fill counter never leaves 0 .. Size, *)
(* so the VHDL integer behind it can not overflow.                         *)
(***************************************************************************)
THEOREM TypeCorrect == Spec => []TypeOK
  <1>1. IInv => TypeOK
    BY DEF IInv
  <1> QED
    BY InitInv, StepInv, <1>1, PTL DEF Spec

(***************************************************************************)
(* empty, full and half_full never mislead a user who obeys the two        *)
(* assertions.                                                             *)
(***************************************************************************)
THEOREM FlagsCorrect == Spec => []FlagsSafe
  <1>1. IInv => FlagsSafe
    BY DEF IInv
  <1> QED
    BY InitInv, StepInv, <1>1, PTL DEF Spec

(***************************************************************************)
(* pointer_diff, kept apart from the pointers, agrees with them after any  *)
(* sequence of legal reads and writes.                                     *)
(***************************************************************************)
THEOREM FillLevelCorrect == Spec => []FillLevelExact
  <1>1. IInv => FillLevelExact
    BY DEF IInv
  <1> QED
    BY InitInv, StepInv, <1>1, PTL DEF Spec
-----------------------------------------------------------------------------
(***************************************************************************)
(* The content as a sequence, and what a clock edge does to it.            *)
(***************************************************************************)
LEMMA ContentsSeq ==
  TypeOK => /\ Contents \in Seq(Data)
            /\ Len(Contents) = Count
            /\ \A i \in 1 .. Count : Contents[i] = ram[Slot(i - 1)]
  <1> SUFFICES ASSUME TypeOK
               PROVE  /\ Contents \in Seq(Data)
                      /\ Len(Contents) = Count
                      /\ \A i \in 1 .. Count : Contents[i] = ram[Slot(i - 1)]
    OBVIOUS
  <1>1. Count \in 0 .. Size
    BY CountType
  <1>2. ASSUME NEW i \in 1 .. Count
        PROVE  Slot(i - 1) \in Address
    BY <1>1, SizeAssumption DEF TypeOK, Slot, Address
  <1>3. Contents \in [1 .. Count -> Data]
    BY <1>2 DEF Contents, TypeOK
  <1>4. Contents \in Seq(Data)
    BY <1>1, <1>3, SeqDef
  <1>5. Len(Contents) = Count
    BY <1>1, <1>3, <1>4, LenProperties
  <1> QED
    BY <1>4, <1>5 DEF Contents

\* The two ends of the content move through the RAM like two hands of a clock.
LEMMA SlotFacts ==
  ASSUME TypeOK
  PROVE  /\ ~empty /\ FlagsSafe => Slot(0) = read_address
         /\ \A i \in 0 .. Count - 1 : Slot(i) \in Address
         /\ Count < Size => Slot(Count) = write_address
         /\ Count < Size => \A i \in 0 .. Count - 1 : Slot(i) # write_address
  BY SizeAssumption DEF TypeOK, FlagsSafe, Slot, Count, Address

LEMMA ContentsStep ==
  ASSUME IInv, IInv', NEW wr \in BOOLEAN, NEW rd \in BOOLEAN, NEW d \in Data,
         Legal(wr, rd), Tick(wr, rd, d)
  PROVE  /\ rd => Contents # << >>
         /\ LET rest == IF rd THEN Tail(Contents) ELSE Contents
            IN  Contents' = IF wr THEN Append(rest, d) ELSE rest
  <1>1. Count' = Count + (IF wr THEN 1 ELSE 0) - (IF rd THEN 1 ELSE 0)
    BY CountStep
  <1>2. Count \in 0 .. Size /\ (wr => Count < Size) /\ (rd => Count > 0)
    BY CountType DEF IInv, FlagsSafe, Legal
  <1>3. /\ Contents \in Seq(Data) /\ Len(Contents) = Count
        /\ \A i \in 1 .. Count : Contents[i] = ram[Slot(i - 1)]
    BY ContentsSeq DEF IInv
  <1>4. /\ Contents' \in Seq(Data) /\ Len(Contents') = Count'
        /\ \A i \in 1 .. Count' : Contents'[i] = ram'[Slot(i - 1)']
    <2>1. TypeOK' => (/\ Contents \in Seq(Data)
                      /\ Len(Contents) = Count
                      /\ \A i \in 1 .. Count : Contents[i] = ram[Slot(i - 1)])'
      BY ContentsSeq, PTL
    <2> QED
      BY <2>1 DEF IInv
  <1>5. rd => Contents # << >>
    BY <1>2, <1>3, EmptySeq
  <1> DEFINE rest == IF rd THEN Tail(Contents) ELSE Contents
             next == IF wr THEN Append(rest, d) ELSE rest
             first == IF rd THEN 1 ELSE 0
  <1>6. /\ rest \in Seq(Data) /\ Len(rest) = Count - first
        /\ \A i \in 1 .. Count - first : rest[i] = Contents[i + first]
    BY <1>2, <1>3, <1>5, HeadTailProperties
  <1> HIDE DEF rest
  <1>7. /\ next \in Seq(Data) /\ Len(next) = Count'
        /\ \A i \in 1 .. Count - first : next[i] = rest[i]
        /\ wr => next[Count'] = d
    <2>1. CASE wr
      <3>1. /\ Append(rest, d) \in Seq(Data)
            /\ Len(Append(rest, d)) = Len(rest) + 1
            /\ \A i \in 1 .. Len(rest) : Append(rest, d)[i] = rest[i]
            /\ Append(rest, d)[Len(rest) + 1] = d
        BY <1>6, AppendProperties
      <3> QED
        BY <1>1, <1>2, <1>6, <2>1, <3>1
    <2>2. CASE ~wr
      BY <1>1, <1>2, <1>6, <2>2
    <2> QED
      BY <2>1, <2>2
  <1> HIDE DEF next
  <1>8. \A i \in 0 .. Count' - 1 : Slot(i)' = Slot(i + first)
    <2>1. read_address' = IF rd THEN Succ(read_address) ELSE read_address
      BY DEF Tick, Read, Legal
    <2> QED
      BY <1>1, <1>2, <2>1, SizeAssumption DEF IInv, TypeOK, Slot, Succ, Address
  <1>9. ASSUME NEW i \in 1 .. Count' PROVE Contents'[i] = next[i]
    <2>1. Contents'[i] = ram'[Slot(i - 1 + first)]
      BY <1>1, <1>2, <1>4, <1>8
    <2>2. CASE i <= Count - first
      <3>1. next[i] = ram[Slot(i - 1 + first)]
        BY <1>2, <1>3, <1>6, <1>7, <2>2
      <3>2. Slot(i - 1 + first) \in Address
        BY <1>2, <2>2, SlotFacts DEF IInv
      <3>3. wr => Slot(i - 1 + first) # write_address
        BY <1>2, <2>2, SlotFacts DEF IInv
      <3>4. ram'[Slot(i - 1 + first)] = ram[Slot(i - 1 + first)]
        BY <3>2, <3>3 DEF Tick, Write, IInv, TypeOK, Legal
      <3> QED
        BY <2>1, <3>1, <3>4
    <2>3. CASE i > Count - first
      <3>1. wr /\ i = Count' /\ i - 1 + first = Count
        BY <1>1, <1>2, <2>3
      <3>2. Slot(Count) = write_address
        BY <1>2, <3>1, SlotFacts DEF IInv
      <3>3. ram'[write_address] = d
        BY <3>1 DEF Tick, Write, IInv, TypeOK, Legal
      <3> QED
        BY <1>7, <2>1, <3>1, <3>2, <3>3
    <2> QED
      BY <1>2, <2>2, <2>3
  <1>10. Contents' = next
    BY <1>4, <1>7, <1>9, SeqEqual
  <1> QED
    BY <1>5, <1>10 DEF next, rest

(***************************************************************************)
(* Whatever the RAM size, the pointers, the flags and the RAM implement a  *)
(* FIFO of Size words: no word is lost, duplicated, reordered or           *)
(* overwritten while both users obey the assertions.                       *)
(***************************************************************************)
THEOREM Refinement == Spec => IsFifo
  <1>1. Init => Abstract!Init
    <2> SUFFICES ASSUME Init PROVE Contents = << >>
      BY DEF Abstract!Init
    <2>1. Contents \in Seq(Data) /\ Len(Contents) = 0
      BY InitInv, ContentsSeq DEF IInv, FlagsSafe, Init
    <2> QED
      BY <2>1, EmptySeq
  <1>2. IInv /\ IInv' /\ [Next]_fifoVars => [Abstract!Next]_Contents
    <2> SUFFICES ASSUME IInv, IInv', [Next]_fifoVars
                 PROVE  Abstract!Next \/ UNCHANGED Contents
      OBVIOUS
    <2>1. ASSUME NEW wr \in BOOLEAN, NEW rd \in BOOLEAN, NEW d \in Data,
                 Legal(wr, rd), Tick(wr, rd, d)
          PROVE  Abstract!Next \/ UNCHANGED Contents
      <3>1. /\ rd => Contents # << >>
            /\ Contents' = IF wr
                             THEN Append(IF rd THEN Tail(Contents) ELSE Contents, d)
                             ELSE IF rd THEN Tail(Contents) ELSE Contents
        BY <2>1, ContentsStep
      <3>2. wr => Len(Contents) < Size
        BY <2>1, ContentsSeq DEF IInv, FlagsSafe, Legal
      <3>3. CASE wr /\ rd
        BY <3>1, <3>2, <3>3 DEF Abstract!Next, Abstract!PutAndGet
      <3>4. CASE wr /\ ~rd
        BY <3>1, <3>2, <3>4 DEF Abstract!Next, Abstract!Put
      <3>5. CASE ~wr /\ rd
        BY <3>1, <3>5 DEF Abstract!Next, Abstract!Get
      <3>6. CASE ~wr /\ ~rd
        BY <3>1, <3>6
      <3> QED
        BY <3>3, <3>4, <3>5, <3>6
    <2>2. CASE UNCHANGED fifoVars
      BY <2>2 DEF fifoVars, Contents, Count, Slot
    <2> QED
      BY <2>1, <2>2 DEF Next
  <1> QED
    BY <1>1, <1>2, InitInv, StepInv, PTL DEF Spec, IsFifo, Abstract!Spec

(***************************************************************************)
(* The read port delivers the oldest stored word at every edge at which    *)
(* the read pointer moves.                                                 *)
(***************************************************************************)
THEOREM ReadsInOrder == Spec => ReadsOldest
  <1>1. IInv /\ [Next]_fifoVars
          => [read_address' # read_address => rd_data' = Contents[1]]_fifoVars
    <2> SUFFICES ASSUME IInv,
                        NEW wr \in BOOLEAN, NEW rd \in BOOLEAN, NEW d \in Data,
                        Legal(wr, rd), Tick(wr, rd, d),
                        read_address' # read_address
                 PROVE  rd_data' = Contents[1]
      BY DEF Next
    <2>1. ~empty /\ rd_data' = ram[read_address]
      BY DEF Tick, Read
    <2>2. 1 \in 1 .. Count /\ Slot(0) = read_address
      BY <2>1, CountType, SlotFacts DEF IInv, FlagsSafe
    <2> QED
      BY <2>1, <2>2, ContentsSeq DEF IInv
  <1> QED
    BY <1>1, InitInv, StepInv, PTL DEF Spec, ReadsOldest

-----------------------------------------------------------------------------
(***************************************************************************)
(* First word fall through.                                                *)
(***************************************************************************)
\* The wrapper is a user that obeys the assertion on rd.
LEMMA WrapperLegal ==
  ASSUME NEW rd_ack \in BOOLEAN, NEW wr \in BOOLEAN, wr => ~full, TypeOK
  PROVE  Rd(rd_ack) \in BOOLEAN /\ Legal(wr, Rd(rd_ack))
  BY DEF Rd, Legal, TypeOK

LEMMA InnerStep == TypeOK /\ [FwftNext]_vars => [Next]_fifoVars
  <1> SUFFICES ASSUME TypeOK, FwftNext PROVE Next
    BY DEF vars
  <1>1. PICK rd_ack \in BOOLEAN, wr \in BOOLEAN, d \in Data :
          (wr => ~full) /\ FwftTick(wr, rd_ack, d)
    BY DEF FwftNext, Clock
  <1> QED
    BY <1>1, WrapperLegal DEF Next, FwftTick

LEMMA FwftInitInv == FwftInit => IInv /\ FwftTypeOK
  BY InitInv DEF FwftInit, FwftTypeOK, IInv

LEMMA FwftStepInv == IInv /\ FwftTypeOK /\ [FwftNext]_vars => (IInv /\ FwftTypeOK)'
  <1> SUFFICES ASSUME IInv, FwftTypeOK, [FwftNext]_vars PROVE IInv' /\ FwftTypeOK'
    OBVIOUS
  <1>1. IInv'
    BY InnerStep, StepInv DEF IInv
  <1>2. rd_valid' \in BOOLEAN
    BY DEF FwftTypeOK, TypeOK, FwftNext, Clock, FwftTick, vars
  <1> QED
    BY <1>1, <1>2 DEF FwftTypeOK, IInv

(***************************************************************************)
(* Behind the wrapper the FIFO is used as its assertions demand, whatever  *)
(* the reader does with rd_ack: all that holds of it under Spec holds here *)
(***************************************************************************)
THEOREM WrapperObeys == FwftSpec => Spec
  <1>1. FwftInit => Init
    BY DEF FwftInit
  <1>2. IInv => TypeOK
    BY DEF IInv
  <1> QED
    BY <1>1, <1>2, FwftInitInv, FwftStepInv, InnerStep, PTL DEF FwftSpec, Spec

-----------------------------------------------------------------------------
LEMMA ItemsSeq ==
  ASSUME IInv, FwftTypeOK
  PROVE  /\ Items \in Seq(Data)
         /\ Len(Items) = Count + (IF rd_valid THEN 1 ELSE 0)
         /\ rd_valid => Items # << >> /\ Tail(Items) = Contents
         /\ ~rd_valid => Items = Contents
  <1>1. Contents \in Seq(Data) /\ Len(Contents) = Count /\ Count \in Nat
    BY ContentsSeq, CountType DEF IInv
  <1>2. CASE rd_valid
    <2>1. << rd_data >> \in Seq(Data) /\ Len(<< rd_data >>) = 1
      BY DEF IInv, TypeOK
    <2>2. Items = << rd_data >> \o Contents
      BY <1>2 DEF Items
    <2>3. Items \in Seq(Data) /\ Len(Items) = 1 + Count
      BY <1>1, <2>1, <2>2, ConcatProperties
    <2>4. \A i \in 1 .. Count : Items[i + 1] = Contents[i]
      BY <1>1, <2>1, <2>2, ConcatProperties
    <2>5. Items # << >>
      BY <1>1, <2>3
    <2>6. Tail(Items) \in Seq(Data) /\ Len(Tail(Items)) = Count
      BY <1>1, <2>3, <2>5, HeadTailProperties
    <2>7. \A i \in 1 .. Count : Tail(Items)[i] = Contents[i]
      BY <2>3, <2>4, <2>5, <2>6, HeadTailProperties
    <2>8. Tail(Items) = Contents
      BY <1>1, <2>6, <2>7, SeqEqual
    <2> QED
      BY <1>1, <1>2, <2>3, <2>5, <2>8
  <1>3. CASE ~rd_valid
    <2>1. Items = Contents
      BY <1>1, <1>3, ConcatEmptySeq DEF Items
    <2> QED
      BY <1>1, <1>3, <2>1
  <1> QED
    BY <1>2, <1>3

LEMMA AppendConcat ==
  ASSUME NEW S, NEW s \in Seq(S), NEW t \in Seq(S), NEW d \in S
  PROVE  s \o Append(t, d) = Append(s \o t, d)
  <1>1. << d >> \in Seq(S)
    OBVIOUS
  <1>2. Append(t, d) = t \o << d >>
    BY AppendIsConcat
  <1>3. s \o t \in Seq(S)
    BY ConcatProperties
  <1>4. Append(s \o t, d) = (s \o t) \o << d >>
    BY <1>3, AppendIsConcat
  <1> QED
    BY <1>1, <1>2, <1>4, ConcatAssociative

\* What a clock edge does to the words stored and shown.
LEMMA ItemsStep ==
  ASSUME IInv, FwftTypeOK, IInv', FwftTypeOK',
         NEW rd_ack \in BOOLEAN, NEW wr \in BOOLEAN, NEW d \in Data,
         wr => ~full, FwftTick(wr, rd_ack, d)
  PROVE  LET rest == IF rd_ack /\ rd_valid THEN Tail(Items) ELSE Items
         IN  Items' = IF wr THEN Append(rest, d) ELSE rest
  <1> DEFINE rd == Rd(rd_ack)
             inner == IF rd THEN Tail(Contents) ELSE Contents
             rest == IF rd_ack /\ rd_valid THEN Tail(Items) ELSE Items
             shown == IF rd_valid' THEN << rd_data' >> ELSE << >>
  <1>1. rd \in BOOLEAN /\ Legal(wr, rd) /\ Tick(wr, rd, d)
    BY WrapperLegal DEF FwftTick, IInv
  <1>2. /\ rd => Contents # << >>
        /\ Contents' = IF wr THEN Append(inner, d) ELSE inner
    BY <1>1, ContentsStep
  <1>3. Contents \in Seq(Data) /\ Len(Contents) = Count
    BY ContentsSeq DEF IInv
  <1>4. inner \in Seq(Data)
    BY <1>2, <1>3, HeadTailProperties
  <1>5. rest = shown \o inner /\ shown \in Seq(Data)
    <2>1. CASE rd
      <3>1. rd_valid' = TRUE
        BY <2>1 DEF FwftTick, Rd
      <3>2. rd_data' = Head(Contents)
        <4>1. rd_data' = ram[read_address] /\ ~empty
          BY <1>1, <2>1 DEF Tick, Read, Legal
        <4>2. 1 \in 1 .. Count /\ Slot(0) = read_address
          BY <4>1, CountType, SlotFacts DEF IInv, FlagsSafe
        <4> QED
          BY <4>1, <4>2, ContentsSeq DEF IInv
      <3>3. rest = Contents
        BY <2>1, ItemsSeq DEF Rd
      <3>4. << rd_data' >> \in Seq(Data) /\ Len(<< rd_data' >>) = 1 /\ << rd_data' >>[1] = rd_data'
        BY DEF IInv, TypeOK
      <3>5. Contents = << rd_data' >> \o inner
        <4>1. Len(inner) = Count - 1 /\ \A i \in 1 .. Count - 1 : inner[i] = Contents[i + 1]
          BY <1>2, <1>3, <2>1, HeadTailProperties
        <4>2. Count \in Nat /\ Count >= 1
          BY <1>2, <1>3, <2>1, EmptySeq, CountType DEF IInv
        <4>3. << rd_data' >> \o inner \in Seq(Data) /\ Len(<< rd_data' >> \o inner) = Count
          BY <1>4, <3>4, <4>1, <4>2, ConcatProperties
        <4>4. \A i \in 1 .. Count : (<< rd_data' >> \o inner)[i] = Contents[i]
          BY <1>3, <1>4, <3>2, <3>4, <4>1, <4>2, ConcatProperties
        <4> QED
          BY <1>3, <4>3, <4>4, SeqEqual
      <3> QED
        BY <3>1, <3>3, <3>4, <3>5
    <2>2. CASE ~rd /\ rd_ack
      <3>1. empty /\ rd_valid' = FALSE
        BY <2>2 DEF FwftTick, Rd, IInv, TypeOK
      <3>2. rest = Contents
        BY <2>2, <3>1, ItemsSeq
      <3> QED
        BY <1>3, <2>2, <3>1, <3>2, ConcatEmptySeq
    <2>3. CASE ~rd /\ ~rd_ack
      <3>1. rd_valid' = rd_valid /\ rd_data' = rd_data
        BY <1>1, <2>3 DEF FwftTick, Tick, Read
      <3>2. shown \in Seq(Data)
        BY DEF IInv, TypeOK
      <3> QED
        BY <2>3, <3>1, <3>2 DEF Items
    <2> QED
      BY <1>1, <2>1, <2>2, <2>3
  <1>6. Items' = shown \o Contents'
    BY DEF Items
  <1>7. shown \o Append(inner, d) = Append(shown \o inner, d)
    <2> HIDE DEF shown, inner
    <2> QED
      BY <1>4, <1>5, AppendConcat
  <1> QED
    BY <1>2, <1>5, <1>6, <1>7

(***************************************************************************)
(* With its output register the FIFO is one of Size + 1 words: whenever    *)
(* the reader acknowledges, every word is shown once, in order, and none   *)
(* is lost between the RAM and the output.                                 *)
(***************************************************************************)
THEOREM ShowAheadRefinement == FwftSpec => IsShowAheadFifo
  <1>1. FwftInit => ShowAhead!Init
    <2> SUFFICES ASSUME FwftInit PROVE Items = << >>
      BY DEF ShowAhead!Init
    <2>1. Items \in Seq(Data) /\ Len(Items) = 0
      BY FwftInitInv, ItemsSeq DEF FwftInit, Init, IInv, FlagsSafe
    <2> QED
      BY <2>1, EmptySeq
  <1>2. IInv /\ FwftTypeOK /\ (IInv /\ FwftTypeOK)' /\ [FwftNext]_vars => [ShowAhead!Next]_Items
    <2> SUFFICES ASSUME IInv, FwftTypeOK, IInv', FwftTypeOK', [FwftNext]_vars
                 PROVE  ShowAhead!Next \/ UNCHANGED Items
      OBVIOUS
    <2>1. ASSUME NEW rd_ack \in BOOLEAN, NEW wr \in BOOLEAN, NEW d \in Data,
                 wr => ~full, FwftTick(wr, rd_ack, d)
          PROVE  ShowAhead!Next \/ UNCHANGED Items
      <3> DEFINE get == rd_ack /\ rd_valid
      <3>1. Items' = IF wr THEN Append(IF get THEN Tail(Items) ELSE Items, d)
                           ELSE IF get THEN Tail(Items) ELSE Items
        BY <2>1, ItemsStep
      <3>2. wr => Len(Items) < Size + 1
        BY <2>1, ItemsSeq, CountType, SizeAssumption DEF IInv, FlagsSafe
      <3>3. get => Items # << >>
        BY ItemsSeq
      <3>4. CASE wr /\ get
        BY <3>1, <3>2, <3>3, <3>4 DEF ShowAhead!Next, ShowAhead!PutAndGet
      <3>5. CASE wr /\ ~get
        BY <3>1, <3>2, <3>5 DEF ShowAhead!Next, ShowAhead!Put
      <3>6. CASE ~wr /\ get
        BY <3>1, <3>3, <3>6 DEF ShowAhead!Next, ShowAhead!Get
      <3>7. CASE ~wr /\ ~get
        BY <3>1, <3>7
      <3> QED
        BY <3>4, <3>5, <3>6, <3>7
    <2>2. CASE UNCHANGED vars
      BY <2>2 DEF vars, fifoVars, Items, Contents, Count, Slot
    <2> QED
      BY <2>1, <2>2 DEF FwftNext, Clock
  <1> QED
    BY <1>1, <1>2, FwftInitInv, FwftStepInv, PTL DEF FwftSpec, IsShowAheadFifo, ShowAhead!Spec

(***************************************************************************)
(* Without rd_ack a clock edge takes nothing from the front: reading ahead *)
(* never overwrites a word that was not acknowledged.                      *)
(***************************************************************************)
THEOREM UnackedStay == FwftSpec => NothingLeavesUnacked
  <1>1. IInv /\ FwftTypeOK /\ (IInv /\ FwftTypeOK)' /\ [FwftNext]_vars
          => [Clock(FALSE) => IsPrefix(Items, Items')]_vars
    <2> SUFFICES ASSUME IInv, FwftTypeOK, IInv', FwftTypeOK', Clock(FALSE)
                 PROVE  IsPrefix(Items, Items')
      OBVIOUS
    <2>1. PICK wr \in BOOLEAN, d \in Data : (wr => ~full) /\ FwftTick(wr, FALSE, d)
      BY DEF Clock
    <2>2. Items' = IF wr THEN Append(Items, d) ELSE Items
      BY <2>1, ItemsStep
    <2>3. Items \in Seq(Data) /\ Items' \in Seq(Data)
      <3>1. IInv' /\ FwftTypeOK' => Items' \in Seq(Data)
        <4>1. IInv /\ FwftTypeOK => Items \in Seq(Data)
          BY ItemsSeq
        <4> QED
          BY <2>2, <4>1, AppendProperties
      <3> QED
        BY <3>1, ItemsSeq
    <2>4. Len(Items) \in Nat /\ Len(Items') \in Nat /\ Len(Items) <= Len(Items')
      BY <2>2, <2>3, LenProperties, AppendProperties
    <2>5. \A i \in 1 .. Len(Items) : Items'[i] = Items[i]
      BY <2>2, <2>3, AppendProperties
    <2>6. \A i \in 1 .. Len(Items) : Items[i] \in Data /\ Items'[i] \in Data
      BY <2>3, <2>4, <2>5, ElementOfSeq
    <2>7. /\ SubSeq(Items, 1, Len(Items)) \in Seq(Data) /\ SubSeq(Items', 1, Len(Items)) \in Seq(Data)
          /\ Len(SubSeq(Items, 1, Len(Items))) = Len(Items) /\ Len(SubSeq(Items', 1, Len(Items))) = Len(Items)
          /\ \A i \in 1 .. Len(Items) : /\ SubSeq(Items, 1, Len(Items))[i] = Items[i]
                                        /\ SubSeq(Items', 1, Len(Items))[i] = Items'[i]
      BY <2>4, <2>6, SubSeqProperties
    <2>8. SubSeq(Items, 1, Len(Items)) = SubSeq(Items', 1, Len(Items))
      BY <2>5, <2>7, SeqEqual
    <2> QED
      BY <2>4, <2>8 DEF IsPrefix
  <1> QED
    BY <1>1, FwftInitInv, FwftStepInv, PTL DEF FwftSpec, NothingLeavesUnacked

(***************************************************************************)
(* A stored word reaches the output at the next edge, or one before it is  *)
(* there already: the read-ahead needs no action of the reader.            *)
(***************************************************************************)
THEOREM WordsFallThrough == FwftSpec => FallsThrough
  <1>1. IInv /\ FwftTypeOK /\ [FwftNext]_vars => [Contents # << >> => rd_valid']_vars
    <2> SUFFICES ASSUME IInv, FwftTypeOK, Contents # << >>,
                        NEW rd_ack \in BOOLEAN, NEW wr \in BOOLEAN, NEW d \in Data,
                        FwftTick(wr, rd_ack, d)
                 PROVE  rd_valid'
      BY DEF FwftNext, Clock
    <2>1. ~empty
      BY ContentsSeq, EmptySeq DEF IInv, FlagsSafe
    <2> QED
      BY <2>1 DEF FwftTick, Rd, FwftTypeOK
  <1> QED
    BY <1>1, FwftInitInv, FwftStepInv, PTL DEF FwftSpec, FallsThrough
=============================================================================
