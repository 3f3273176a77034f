---------------------------- MODULE SGRing_proofs ----------------------------
(***************************************************************************)
(* Theorems about SGRing for any number of chips and any depths.           *)
(***************************************************************************)
EXTENDS SGRing, FiniteSetTheorems, SequenceTheorems, TLAPS

-----------------------------------------------------------------------------
(* Arithmetic of regions: the products are the only nonlinear terms.       *)

LEMMA Distribute == ASSUME NEW a \in Int, NEW k \in Int
                    PROVE  a * (k + 1) = a * k + a
OBVIOUS

LEMMA Monotone == ASSUME NEW a \in Nat, NEW k \in Int, NEW m \in Int, k <= m
                  PROVE  k * a <= m * a
<1>1. (m - k) * a >= 0
  BY m - k \in Nat
<1>2. m * a = k * a + (m - k) * a
  OBVIOUS
<1> QED
  BY <1>1, <1>2

-----------------------------------------------------------------------------
(* Descriptors.                                                            *)

LEMMA Fields ==
  ASSUME NEW d \in Descriptor
  PROVE  /\ d.next \in Slots \cup {NChips + 1} /\ d.sa \in Fifos
         /\ d.da \in Nat /\ d.len \in Nat /\ d.done \in BOOLEAN
         /\ d = [next |-> d.next, sa |-> d.sa, da |-> d.da, len |-> d.len,
                 done |-> d.done]
BY DEF Descriptor

LEMMA Build ==
  ASSUME NEW n \in Slots \cup {NChips + 1}, NEW f \in Fifos, NEW a \in Nat,
         NEW l \in Nat, NEW b \in BOOLEAN
  PROVE  [next |-> n, sa |-> f, da |-> a, len |-> l, done |-> b] \in Descriptor
BY DEF Descriptor

LEMMA DoneOnly ==
  ASSUME NEW d \in Descriptor, NEW b \in BOOLEAN
  PROVE  LET e == [d EXCEPT !.done = b]
         IN /\ e \in Descriptor /\ e.done = b
            /\ e.next = d.next /\ e.sa = d.sa /\ e.da = d.da /\ e.len = d.len
BY DEF Descriptor

LEMMA NextOnly ==
  ASSUME NEW d \in Descriptor, NEW n \in Slots
  PROVE  LET e == [d EXCEPT !.next = n]
         IN /\ e \in Descriptor /\ e.next = n
            /\ e.done = d.done /\ e.sa = d.sa /\ e.da = d.da /\ e.len = d.len
BY DEF Descriptor

LEMMA SlotType ==
  RingTypeOK => /\ \A k \in Slots : desc[k] \in Descriptor
                /\ \A k \in 0..nSG-1 : k \in Slots /\ desc[k] \in Descriptor
                                       /\ desc[k].sa \in Int
<1> SUFFICES ASSUME RingTypeOK
             PROVE  /\ \A k \in Slots : desc[k] \in Descriptor
                    /\ \A k \in 0..nSG-1 : k \in Slots /\ desc[k] \in Descriptor
                                           /\ desc[k].sa \in Int
  OBVIOUS
<1>1. \A k \in Slots : desc[k] \in Descriptor
  BY DEF RingTypeOK
<1>2. \A k \in 0..nSG-1 : k \in Slots
  BY RingAssumption DEF RingTypeOK, Slots
<1>3. \A k \in 0..nSG-1 : desc[k].sa \in Int
  BY <1>1, <1>2, Fields, RingAssumption DEF Fifos
<1> QED
  BY <1>1, <1>2, <1>3

-----------------------------------------------------------------------------
(* The invariant.                                                          *)

LEMMA InitInv == Init => RingInv
BY RingAssumption
DEF Init, RingInv, RingTypeOK, SlotsFilled, Marks, EngineAt, Configured, Slots,
    Fifos, Descriptor, Blank

LEMMA BeginInv ==
  ASSUME RingInv, NEW m \in SUBSET (0..NChips-1), NEW n \in Depths, Begin(m, n)
  PROVE  RingInv'
<1> USE RingAssumption DEF Slots, Fifos
<1>1. n \in Nat /\ n * (NChips + 2) \in Nat
  OBVIOUS
<1>2. Blank \in Descriptor
  BY DEF Blank, Descriptor
<1>3. RingTypeOK'
  BY <1>1, <1>2 DEF RingInv, RingTypeOK, Begin
<1>4. SlotsFilled'
  BY DEF SlotsFilled, InOrder, Begin
<1>5. Marks' /\ EngineAt'
  BY DEF Marks, EngineAt, Configured, Begin, Blank
<1> QED
  BY <1>3, <1>4, <1>5 DEF RingInv

LEMMA AddDescriptorInv == RingInv /\ AddDescriptor => RingInv'
<1> SUFFICES ASSUME RingInv, AddDescriptor
             PROVE  RingInv'
  OBVIOUS
<1> USE RingAssumption
<1>1. /\ nSG \in Slots /\ nSG \in Nat /\ i \in Fifos /\ i \in Nat /\ nSG <= i
      /\ length \in Nat /\ pc = "loop" /\ (i \in mask \/ i = NChips)
  BY DEF RingInv, RingTypeOK, SlotsFilled, AddDescriptor, Selected, Slots, Fifos
<1>2. /\ nSG' = nSG + 1 /\ i' = i + 1 /\ pc' = "loop" /\ mask' = mask
      /\ length' = length /\ synced' = synced /\ tail' = tail /\ cur' = cur
      /\ moved' = moved
  BY <1>1 DEF AddDescriptor
<1> DEFINE d == [next |-> nSG + 1, sa |-> i, da |-> length * nSG,
                 len |-> BytesOf(i), done |-> desc[nSG].done]
<1>3. d \in Descriptor
  <2>1. desc[nSG].done \in BOOLEAN
    BY <1>1, SlotType, Fields DEF RingInv
  <2>2. length * nSG \in Nat /\ BytesOf(i) \in Nat
    BY <1>1 DEF BytesOf
  <2>3. nSG + 1 \in Slots \cup {NChips + 1}
    BY <1>1 DEF Slots
  <2> QED
    BY <1>1, <2>1, <2>2, <2>3, Build
<1>4. /\ d.next = nSG + 1 /\ d.sa = i /\ d.da = length * nSG
      /\ d.len = BytesOf(i) /\ d.done = desc[nSG].done
  OBVIOUS
<1>5. desc' = [desc EXCEPT ![nSG] = d]
  BY DEF AddDescriptor
<1> HIDE DEF d
<1>6. desc \in [Slots -> Descriptor]
  BY DEF RingInv, RingTypeOK
<1>7. /\ desc'[nSG] = d
      /\ \A k \in Slots : k # nSG => desc'[k] = desc[k]
      /\ desc' \in [Slots -> Descriptor]
  BY <1>1, <1>3, <1>5, <1>6
<1>8. \A k \in 0..nSG-1 : k \in Slots /\ k # nSG /\ desc'[k] = desc[k]
  BY <1>1, <1>7, SlotType DEF RingInv
<1>9. RingTypeOK'
  BY <1>1, <1>2, <1>7 DEF RingInv, RingTypeOK, Slots, Fifos
<1>10. SlotsFilled'
  <2>1. ASSUME NEW k \in 0..nSG
        PROVE  Written(k)'
    <3>1. CASE k = nSG
      BY <3>1, <1>1, <1>2, <1>4, <1>7 DEF Written, BytesOf, Configured
    <3>2. CASE k # nSG
      <4>1. k \in 0..nSG-1 /\ desc[k].sa \in Int
        BY <3>2, <1>1, SlotType DEF RingInv
      <4>2. Written(k) /\ desc'[k] = desc[k]
        BY <4>1, <1>1, <1>8 DEF RingInv, SlotsFilled
      <4> QED
        BY <4>1, <4>2, <1>1, <1>2 DEF Written, BytesOf, Configured
    <3> QED
      BY <3>1, <3>2
  <2>2. InOrder'
    <3>1. SUFFICES ASSUME NEW j \in 0..nSG, NEW k \in 0..nSG, j < k
                   PROVE  desc'[j].sa < desc'[k].sa
      BY <1>1, <1>2 DEF InOrder
    <3>2. j \in 0..nSG-1 /\ desc'[j] = desc[j]
      BY <3>1, <1>1, <1>8
    <3>3. CASE k = nSG
      <4>1. Written(j)
        BY <3>2, <1>1 DEF RingInv, SlotsFilled
      <4> QED
        BY <4>1, <3>2, <3>3, <1>4, <1>7 DEF Written
    <3>4. CASE k # nSG
      <4>1. k \in 0..nSG-1 /\ desc'[k] = desc[k]
        BY <3>4, <1>1, <1>8
      <4> QED
        BY <4>1, <3>1, <3>2, <1>1 DEF RingInv, SlotsFilled, InOrder
    <3> QED
      BY <3>3, <3>4
  <2>3. ASSUME NEW f \in Fifos, f < i + 1, f \in mask \/ f = NChips
        PROVE  Served(f)'
    <3>1. CASE f = i
      BY <3>1, <1>1, <1>2, <1>4, <1>7 DEF Served
    <3>2. CASE f # i
      <4>1. f < i
        BY <3>2, <2>3, <1>1 DEF Fifos
      <4>2. Served(f)
        BY <4>1, <2>3, <1>1 DEF RingInv, SlotsFilled
      <4>3. PICK k \in 0..nSG-1 : desc[k].sa = f
        BY <4>2 DEF Served
      <4>4. k \in 0..nSG'-1
        BY <1>1, <1>2
      <4> QED
        BY <4>3, <4>4, <1>8 DEF Served
    <3> QED
      BY <3>1, <3>2
  <2>4. nSG' <= i' /\ synced' = length' * (NChips + 2)
    BY <1>1, <1>2 DEF RingInv, SlotsFilled
  <2>5. 0..nSG'-1 = 0..nSG
    BY <1>1, <1>2
  <2>6. \A k \in 0..nSG'-1 : Written(k)'
    BY <2>1, <2>5
  <2>7. \A f \in Fifos : f < i' /\ (f \in mask' \/ f = NChips) => Served(f)'
    BY <2>3, <1>2
  <2> QED
    BY <2>2, <2>4, <2>6, <2>7 DEF SlotsFilled
<1>11. Marks'
  BY <1>1, <1>2, <1>4, <1>7 DEF RingInv, Marks
<1>12. EngineAt'
  BY <1>2 DEF EngineAt, Configured
<1> QED
  BY <1>9, <1>10, <1>11, <1>12 DEF RingInv

LEMMA SkipFifoInv == RingInv /\ SkipFifo => RingInv'
<1> SUFFICES ASSUME RingInv, SkipFifo
             PROVE  RingInv'
  OBVIOUS
<1> USE RingAssumption
<1>1. /\ nSG \in Nat /\ i \in Fifos /\ i \in Nat /\ nSG <= i
      /\ pc = "loop" /\ i \notin mask /\ i # NChips
  BY DEF RingInv, RingTypeOK, SlotsFilled, SkipFifo, Selected, Fifos
<1>2. /\ nSG' = nSG /\ i' = i + 1 /\ pc' = pc /\ mask' = mask /\ desc' = desc
      /\ length' = length /\ synced' = synced /\ tail' = tail /\ cur' = cur
      /\ moved' = moved
  BY DEF SkipFifo
<1>3. RingTypeOK'
  BY <1>1, <1>2 DEF RingInv, RingTypeOK, Fifos
<1>4. SlotsFilled'
  <2>1. ASSUME NEW k \in 0..nSG-1
        PROVE  Written(k)'
    <3>1. Written(k) /\ desc[k].sa \in Int
      BY <1>1, SlotType DEF RingInv, SlotsFilled
    <3> QED
      BY <3>1, <1>1, <1>2 DEF Written, BytesOf, Configured
  <2>2. InOrder'
    BY <1>1, <1>2 DEF RingInv, SlotsFilled, InOrder
  <2>3. ASSUME NEW f \in Fifos, f < i + 1, f \in mask \/ f = NChips
        PROVE  Served(f)'
    <3>1. f < i
      BY <2>3, <1>1 DEF Fifos
    <3>2. Served(f)
      BY <3>1, <2>3, <1>1 DEF RingInv, SlotsFilled
    <3> QED
      BY <3>2, <1>2 DEF Served
  <2>4. nSG' <= i' /\ synced' = length' * (NChips + 2)
    BY <1>1, <1>2 DEF RingInv, SlotsFilled
  <2>5. \A k \in 0..nSG'-1 : Written(k)'
    BY <2>1, <1>2
  <2>6. \A f \in Fifos : f < i' /\ (f \in mask' \/ f = NChips) => Served(f)'
    BY <2>3, <1>2
  <2> QED
    BY <2>2, <2>4, <2>5, <2>6 DEF SlotsFilled
<1>5. Marks' /\ EngineAt'
  BY <1>1, <1>2 DEF RingInv, Marks, EngineAt, Configured
<1> QED
  BY <1>3, <1>4, <1>5 DEF RingInv

LEMMA CloseRingInv == RingInv /\ CloseRing => RingInv'
<1> SUFFICES ASSUME RingInv, CloseRing
             PROVE  RingInv'
  OBVIOUS
<1> USE RingAssumption
<1>1. /\ i = NChips + 1 /\ nSG \in 0..NChips+1 /\ pc = "loop" /\ pc' = "ready"
      /\ nSG' = nSG /\ i' = i /\ mask' = mask /\ length' = length
      /\ synced' = synced /\ cur' = 0 /\ tail' = nSG - 1 /\ moved' = moved
  BY DEF RingInv, RingTypeOK, CloseRing
<1>2. nSG > 0 /\ nSG - 1 \in Slots /\ nSG - 1 \in 0..nSG-1
  <2>1. Served(NChips)
    BY <1>1 DEF RingInv, SlotsFilled, Fifos
  <2>2. PICK k \in 0..nSG-1 : desc[k].sa = NChips
    BY <2>1 DEF Served
  <2> QED
    BY <2>2, <1>1 DEF Slots
<1> DEFINE d == [desc[nSG - 1] EXCEPT !.next = 0]
<1>3. desc \in [Slots -> Descriptor] /\ 0 \in Slots
  BY DEF RingInv, RingTypeOK, Slots
<1>4. /\ d \in Descriptor /\ d.next = 0 /\ d.done = desc[nSG - 1].done
      /\ d.sa = desc[nSG - 1].sa /\ d.da = desc[nSG - 1].da
      /\ d.len = desc[nSG - 1].len
  BY <1>2, <1>3, NextOnly
<1>5. desc' = [desc EXCEPT ![nSG - 1] = d]
  BY DEF CloseRing
<1> HIDE DEF d
<1>6. /\ desc'[nSG - 1] = d
      /\ \A k \in Slots : k # nSG - 1 => desc'[k] = desc[k]
      /\ desc' \in [Slots -> Descriptor]
  BY <1>2, <1>3, <1>4, <1>5
<1>7. \A k \in 0..nSG-1 :
        /\ desc'[k].sa = desc[k].sa /\ desc'[k].da = desc[k].da
        /\ desc'[k].len = desc[k].len
        /\ desc'[k].next = IF k = nSG - 1 THEN 0 ELSE desc[k].next
  BY <1>4, <1>6, SlotType DEF RingInv
<1>8. RingTypeOK'
  BY <1>1, <1>2, <1>3, <1>6 DEF RingInv, RingTypeOK
<1>9. SlotsFilled'
  <2>1. ASSUME NEW k \in 0..nSG-1
        PROVE  Written(k)'
    <3>1. Written(k)
      BY <1>1 DEF RingInv, SlotsFilled
    <3> QED
      BY <3>1, <1>1, <1>7 DEF Written, BytesOf, Configured
  <2>2. InOrder'
    BY <1>1, <1>7 DEF RingInv, SlotsFilled, InOrder
  <2>3. ASSUME NEW f \in Fifos, f < i, f \in mask \/ f = NChips
        PROVE  Served(f)'
    <3>1. Served(f)
      BY <2>3, <1>1 DEF RingInv, SlotsFilled
    <3> QED
      BY <3>1, <1>1, <1>7 DEF Served
  <2>4. nSG' <= i' /\ synced' = length' * (NChips + 2)
    BY <1>1 DEF RingInv, SlotsFilled
  <2>5. \A k \in 0..nSG'-1 : Written(k)'
    BY <2>1, <1>1
  <2>6. \A f \in Fifos : f < i' /\ (f \in mask' \/ f = NChips) => Served(f)'
    BY <2>3, <1>1
  <2> QED
    BY <2>2, <2>4, <2>5, <2>6 DEF SlotsFilled
<1>10. Marks'
  BY <1>1, <1>2, <1>4, <1>6 DEF RingInv, Marks
<1>11. EngineAt'
  BY <1>1, <1>2 DEF EngineAt, Configured
<1> QED
  BY <1>8, <1>9, <1>10, <1>11 DEF RingInv

\* What is written stays written when only the marks change.
LEMMA MarksOnly ==
  ASSUME RingTypeOK, SlotsFilled, Configured, Configured',
         UNCHANGED <<i, nSG, mask, length, synced>>,
         \A k \in Slots : /\ desc'[k].sa = desc[k].sa /\ desc'[k].da = desc[k].da
                          /\ desc'[k].len = desc[k].len
                          /\ desc'[k].next = desc[k].next
  PROVE  SlotsFilled'
<1> USE RingAssumption
<1>1. \A k \in 0..nSG-1 :
        /\ desc'[k].sa = desc[k].sa /\ desc'[k].da = desc[k].da
        /\ desc'[k].len = desc[k].len /\ desc'[k].next = desc[k].next
  BY SlotType
<1>2. pc # "boot"
  BY DEF Configured
<1>3. ASSUME NEW k \in 0..nSG'-1
      PROVE  Written(k)'
  <2>1. Written(k)
    BY <1>2 DEF SlotsFilled
  <2> QED
    BY <2>1, <1>1 DEF Written, BytesOf
<1>4. InOrder'
  BY <1>1, <1>2 DEF SlotsFilled, InOrder
<1>5. ASSUME NEW f \in Fifos, f < i', f \in mask' \/ f = NChips
      PROVE  Served(f)'
  <2>1. Served(f)
    BY <1>2, <1>5 DEF SlotsFilled
  <2> QED
    BY <2>1, <1>1 DEF Served
<1>6. nSG' <= i' /\ synced' = length' * (NChips + 2)
  BY <1>2 DEF SlotsFilled
<1> QED
  BY <1>3, <1>4, <1>5, <1>6 DEF SlotsFilled

LEMMA StartInv == RingInv /\ startSG => RingInv'
<1> SUFFICES ASSUME RingInv, startSG
             PROVE  RingInv'
  OBVIOUS
<1>1. RingTypeOK'
  BY DEF RingInv, RingTypeOK, startSG
<1>2. SlotsFilled'
  BY MarksOnly DEF RingInv, startSG, Configured
<1>3. Marks'
  BY RingAssumption DEF RingInv, Marks, startSG, Slots
<1>4. EngineAt'
  BY RingAssumption DEF RingInv, RingTypeOK, EngineAt, Configured, startSG
<1> QED
  BY <1>1, <1>2, <1>3, <1>4 DEF RingInv

LEMMA MoveInv == RingInv /\ Move => RingInv'
<1> SUFFICES ASSUME RingInv, Move
             PROVE  RingInv'
  OBVIOUS
<1> USE RingAssumption
<1>1. /\ pc = "run" /\ nSG \in 1..NChips+1 /\ tail = nSG - 1 /\ i = NChips + 1
      /\ cur = Len(moved) /\ cur < nSG /\ cur \in Slots /\ cur \in Nat
      /\ moved \in Seq(Fifos)
      /\ desc \in [Slots -> Descriptor]
      /\ \A k \in 1..Len(moved) : moved[k] = desc[k-1].sa
  BY DEF RingInv, RingTypeOK, EngineAt, Configured, Move, Slots
<1>2. desc[cur].next = IF cur = nSG - 1 THEN 0 ELSE cur + 1
  <2>1. Written(cur)
    BY <1>1 DEF RingInv, SlotsFilled
  <2> QED
    BY <2>1, <1>1 DEF Written, Configured
<1> DEFINE d == [desc[cur] EXCEPT !.done = TRUE]
<1>3. /\ d \in Descriptor /\ d.done = TRUE /\ d.next = desc[cur].next
      /\ d.sa = desc[cur].sa /\ d.da = desc[cur].da /\ d.len = desc[cur].len
  BY <1>1, DoneOnly
<1>4. desc' = [desc EXCEPT ![cur] = d]
  BY DEF Move
<1> HIDE DEF d
<1>5. /\ desc'[cur] = d
      /\ \A k \in Slots : k # cur => desc'[k] = desc[k]
      /\ desc' \in [Slots -> Descriptor]
  BY <1>1, <1>3, <1>4
<1>6. desc[cur].sa \in Fifos
  BY <1>1, Fields
<1>7. /\ moved' = Append(moved, desc[cur].sa)
      /\ moved' \in Seq(Fifos)
      /\ Len(moved') = cur + 1
      /\ moved'[cur + 1] = desc[cur].sa
      /\ \A k \in 1..cur : moved'[k] = moved[k]
  BY <1>1, <1>6 DEF Move
<1>8. /\ nSG' = nSG /\ i' = i /\ tail' = tail /\ mask' = mask
      /\ length' = length /\ synced' = synced
      /\ cur' = IF cur = nSG - 1 THEN 0 ELSE cur + 1
      /\ pc' = IF cur = nSG - 1 THEN "ran" ELSE "run"
  BY <1>1, <1>2 DEF Move
<1>9. RingTypeOK'
  <2>1. cur' \in Slots
    BY <1>1, <1>8 DEF Slots
  <2> QED
    BY <2>1, <1>1, <1>5, <1>7, <1>8 DEF RingInv, RingTypeOK
<1>10. SlotsFilled'
  BY <1>1, <1>3, <1>5, <1>8, MarksOnly DEF RingInv, Configured
<1>11. Marks'
  <2>1. \A k \in Slots : desc[k].done <=> k < cur
    BY <1>1 DEF RingInv, Marks
  <2>2. \A k \in Slots : desc'[k].done <=> k < cur + 1
    BY <2>1, <1>1, <1>3, <1>5 DEF Slots
  <2> QED
    BY <2>2, <1>7, <1>8 DEF Marks
<1>12. EngineAt'
  <2>1. ASSUME NEW k \in 1..cur + 1
        PROVE  moved'[k] = desc'[k-1].sa
    <3>1. CASE k = cur + 1
      BY <3>1, <1>1, <1>3, <1>5, <1>7
    <3>2. CASE k # cur + 1
      <4>1. k \in 1..cur /\ k - 1 \in Slots /\ k - 1 # cur
        BY <3>2, <1>1 DEF Slots
      <4> QED
        BY <4>1, <1>1, <1>5, <1>7
    <3> QED
      BY <3>1, <3>2
  <2>2. \A k \in 1..Len(moved') : moved'[k] = desc'[k-1].sa
    BY <2>1, <1>7
  <2> QED
    BY <2>2, <1>1, <1>7, <1>8 DEF EngineAt, Configured
<1> QED
  BY <1>9, <1>10, <1>11, <1>12 DEF RingInv

LEMMA ResetInv == RingInv /\ sgBufReset => RingInv'
<1> SUFFICES ASSUME RingInv, sgBufReset
             PROVE  RingInv'
  OBVIOUS
<1> USE RingAssumption
<1>1. pc = "ran" /\ pc' = "ready"
      /\ UNCHANGED <<i, nSG, mask, length, synced, tail, cur, moved>>
  BY DEF sgBufReset
<1>2. \A k \in Slots : desc[k] \in Descriptor
  BY DEF RingInv, RingTypeOK
<1>3. ASSUME NEW k \in Slots
      PROVE  /\ desc'[k] \in Descriptor
             /\ desc'[k].done = (desc[k].done /\ k >= nSG)
             /\ desc'[k].next = desc[k].next /\ desc'[k].sa = desc[k].sa
             /\ desc'[k].da = desc[k].da /\ desc'[k].len = desc[k].len
  <2> DEFINE b == desc[k].done /\ k >= nSG
  <2>1. desc'[k] = [desc[k] EXCEPT !.done = b]
    BY DEF sgBufReset
  <2>2. b \in BOOLEAN
    OBVIOUS
  <2>3. desc[k] \in Descriptor
    BY <1>2
  <2> HIDE DEF b
  <2>4. /\ desc'[k] \in Descriptor /\ desc'[k].done = b
        /\ desc'[k].next = desc[k].next /\ desc'[k].sa = desc[k].sa
        /\ desc'[k].da = desc[k].da /\ desc'[k].len = desc[k].len
    BY <2>1, <2>2, <2>3, DoneOnly
  <2> QED
    BY <2>4 DEF b
<1>4. RingTypeOK'
  <2>1. desc' \in [Slots -> Descriptor]
    BY <1>3 DEF sgBufReset
  <2> QED
    BY <1>1, <2>1 DEF RingInv, RingTypeOK
<1>5. SlotsFilled'
  BY <1>1, <1>3, MarksOnly DEF RingInv, Configured
<1>6. Marks'
  <2>1. \A k \in Slots : desc[k].done <=> k < nSG
    BY <1>1 DEF RingInv, Marks, EngineAt, Configured
  <2>2. \A k \in Slots : ~(k < nSG /\ k >= nSG)
    BY DEF RingInv, RingTypeOK, Slots
  <2>3. \A k \in Slots : ~desc'[k].done
    BY <2>1, <2>2, <1>3
  <2> QED
    BY <2>3, <1>1 DEF Marks
<1>7. EngineAt'
  BY <1>1 DEF RingInv, EngineAt, Configured
<1> QED
  BY <1>4, <1>5, <1>6, <1>7 DEF RingInv

LEMMA NewProcessInv == RingInv /\ NewProcess => RingInv'
BY RingAssumption
DEF RingInv, RingTypeOK, SlotsFilled, Marks, EngineAt, Configured, NewProcess,
    Slots, Fifos

\* RingInv holds in every state: the types, and what configureSGBuf has written
\* after every iteration of its loop (DMACtrl.h:24-59) and the engine of it.
THEOREM RingCorrect == Spec => []RingInv
<1>1. RingInv /\ [Next]_vars => RingInv'
  <2> SUFFICES ASSUME RingInv, [Next]_vars
               PROVE  RingInv'
    OBVIOUS
  <2>1. CASE \E m \in SUBSET (0..NChips-1), n \in Depths : Begin(m, n)
    BY <2>1, BeginInv
  <2>2. CASE UNCHANGED vars
    <3>1. SlotsFilled'
      BY <2>2 DEF vars, RingInv, SlotsFilled, Written, InOrder, Served, BytesOf,
                  Configured
    <3> QED
      BY <2>2, <3>1 DEF vars, RingInv, RingTypeOK, Marks, EngineAt, Configured
  <2> QED
    BY <2>1, <2>2, AddDescriptorInv, SkipFifoInv, CloseRingInv, StartInv, MoveInv,
       ResetInv, NewProcessInv
    DEF Next
<1> QED
  BY InitInv, <1>1, PTL DEF Spec

-----------------------------------------------------------------------------
(* What the invariant gives.                                               *)

\* The engine never meets a descriptor still marked completed, so that the
\* wait for its interrupt (DMACtrl.h:133) ends.
THEOREM NoRefusal == Spec => []NeverRefused
<1>1. RingInv => NeverRefused
  BY RingAssumption DEF RingInv, RingTypeOK, Marks, EngineAt, Configured, NeverRefused
<1> QED
  BY <1>1, RingCorrect, PTL

\* Every event reads each selected FIFO and the timestamps once, in order.
THEOREM FifosOnce == Spec => []EachFifoOnce
<1>1. RingInv => EachFifoOnce
  <2> SUFFICES ASSUME RingInv, pc = "ran"
               PROVE  /\ cur = 0
                      /\ Len(moved) = nSG
                      /\ \A j, k \in 1..nSG : j < k => moved[j] < moved[k]
                      /\ \A f \in Fifos : (f \in mask \/ f = NChips)
                                            <=> \E k \in 1..nSG : moved[k] = f
    BY DEF EachFifoOnce
  <2> USE RingAssumption
  <2>1. /\ cur = 0 /\ Len(moved) = nSG /\ nSG \in Nat /\ i = NChips + 1
        /\ \A k \in 1..nSG : moved[k] = desc[k-1].sa
    BY DEF RingInv, RingTypeOK, EngineAt, Configured
  <2>2. /\ \A k \in 0..nSG-1 : Written(k)
        /\ InOrder
        /\ \A f \in Fifos : f < i /\ (f \in mask \/ f = NChips) => Served(f)
    BY DEF RingInv, SlotsFilled
  <2>3. \A j, k \in 1..nSG : j < k => moved[j] < moved[k]
    <3>1. SUFFICES ASSUME NEW j \in 1..nSG, NEW k \in 1..nSG, j < k
                   PROVE  moved[j] < moved[k]
      OBVIOUS
    <3>2. j - 1 \in 0..nSG-1 /\ k - 1 \in 0..nSG-1 /\ j - 1 < k - 1
      BY <3>1, <2>1
    <3>3. desc[j-1].sa < desc[k-1].sa
      BY <3>2, <2>2 DEF InOrder
    <3> QED
      BY <3>3, <2>1
  <2>4. ASSUME NEW f \in Fifos, f \in mask \/ f = NChips
        PROVE  \E k \in 1..nSG : moved[k] = f
    <3>1. Served(f)
      BY <2>1, <2>2, <2>4 DEF Fifos
    <3>2. PICK k \in 0..nSG-1 : desc[k].sa = f
      BY <3>1 DEF Served
    <3>3. k + 1 \in 1..nSG /\ (k + 1) - 1 = k
      BY <3>2, <2>1
    <3>4. moved[k + 1] = f
      BY <3>2, <3>3, <2>1
    <3> QED
      BY <3>3, <3>4
  <2>5. ASSUME NEW f \in Fifos, NEW k \in 1..nSG, moved[k] = f
        PROVE  f \in mask \/ f = NChips
    <3>1. k - 1 \in 0..nSG-1
      BY <2>1
    <3>2. Written(k - 1)
      BY <3>1, <2>2
    <3> QED
      BY <3>2, <2>1, <2>5 DEF Written
  <2> QED
    BY <2>1, <2>3, <2>4, <2>5
<1> QED
  BY <1>1, RingCorrect, PTL

\* The regions of the descriptors abut, end where the copy of read() ends and
\* lie in the synced part of the buffer.
THEOREM Regions == Spec => []RegionsAbut
<1>1. RingInv => RegionsAbut
  <2> SUFFICES ASSUME RingInv, Configured
               PROVE  /\ nSG > 0 /\ desc[0].da = 0
                      /\ \A k \in 0..nSG-2 : desc[k+1].da = desc[k].da + desc[k].len
                      /\ desc[nSG-1].da + desc[nSG-1].len = (nSG + 1) * length
                      /\ (nSG + 1) * length <= synced
    BY DEF RegionsAbut
  <2> USE RingAssumption
  <2>1. /\ pc # "boot" /\ nSG \in 1..NChips+1 /\ length \in Nat /\ i = NChips + 1
        /\ \A k \in 0..nSG-1 : Written(k)
        /\ InOrder
        /\ \A f \in Fifos : f < i /\ (f \in mask \/ f = NChips) => Served(f)
        /\ synced = length * (NChips + 2)
    BY DEF RingInv, RingTypeOK, SlotsFilled, EngineAt, Configured
  <2>2. \A k \in 0..nSG-1 : /\ desc[k].da = length * k /\ desc[k].sa < i
                            /\ desc[k].len = BytesOf(desc[k].sa)
                            /\ desc[k].sa \in Int
    BY <2>1, SlotType DEF Written, RingInv
  <2>3. desc[0].da = 0
    BY <2>1, <2>2
  <2>4. ASSUME NEW k \in 0..nSG-2
        PROVE  desc[k+1].da = desc[k].da + desc[k].len
    <3>1. k \in 0..nSG-1 /\ k + 1 \in 0..nSG-1 /\ k < k + 1 /\ k \in Int
      BY <2>1
    <3>2. desc[k].sa # NChips
      <4>1. desc[k].sa < desc[k+1].sa
        BY <3>1, <2>1 DEF InOrder
      <4>2. desc[k+1].sa <= NChips
        BY <3>1, <2>1, <2>2
      <4> QED
        BY <3>1, <4>1, <4>2, <2>2
    <3>3. desc[k].len = length
      BY <3>1, <3>2, <2>2 DEF BytesOf
    <3>4. length * (k + 1) = length * k + length
      BY <3>1, <2>1, Distribute
    <3> QED
      BY <3>1, <3>3, <3>4, <2>2
  <2>5. desc[nSG-1].da + desc[nSG-1].len = (nSG + 1) * length
    <3>1. Served(NChips)
      BY <2>1 DEF Fifos
    <3>2. PICK k \in 0..nSG-1 : desc[k].sa = NChips
      BY <3>1 DEF Served
    <3>3. k = nSG - 1
      <4>1. SUFFICES ASSUME k # nSG - 1
                     PROVE  FALSE
        OBVIOUS
      <4>2. nSG - 1 \in 0..nSG-1 /\ k < nSG - 1
        BY <4>1, <2>1
      <4>3. desc[k].sa < desc[nSG-1].sa /\ desc[nSG-1].sa <= NChips
        BY <4>2, <2>1, <2>2 DEF InOrder
      <4> QED
        BY <4>2, <4>3, <3>2, <2>2
    <3>4. desc[nSG-1].da = length * (nSG - 1) /\ desc[nSG-1].len = 2 * length
      BY <3>2, <3>3, <2>2 DEF BytesOf
    <3>5. length * (nSG - 1) + 2 * length = (nSG + 1) * length
      BY <2>1
    <3> QED
      BY <3>4, <3>5
  <2>6. (nSG + 1) * length <= synced
    <3>1. nSG + 1 \in Int /\ NChips + 2 \in Int /\ nSG + 1 <= NChips + 2
      BY <2>1
    <3>2. (nSG + 1) * length <= (NChips + 2) * length
      BY <3>1, <2>1, Monotone
    <3> QED
      BY <3>2, <2>1
  <2> QED
    BY <2>1, <2>3, <2>4, <2>5, <2>6
<1> QED
  BY <1>1, RingCorrect, PTL

-----------------------------------------------------------------------------
(* The ring as module Readout has it.                                      *)

\* Readout's Rings, of FIFOs that are numbers: a descriptor per selected chip,
\* in the order of the bits, and one for the timestamps.
RingsOf(m) ==
  LET n == Cardinality(m)
  IN {r \in [1..n+1 -> m \cup {NChips}] :
        /\ r[n+1] = NChips
        /\ \A j \in 1..n : r[j] \in m
        /\ \A j \in 1..n, k \in 1..n : j < k => r[j] < r[k]}

\* The FIFOs of the descriptors.
Ring == [k \in 1..nSG |-> desc[k-1].sa]

\* What the loop has written when it is done is one of those rings, and the
\* engine follows it from its first descriptor.
RingInOneStep ==
  Configured =>
    /\ Ring \in RingsOf(mask)
    /\ pc = "run" => cur = Len(moved)
    /\ pc \in {"run", "ran"} => moved = [k \in 1..Len(moved) |-> Ring[k]]

\* The last descriptor is the one of the timestamps, whose bit is the highest.
LEMMA StampIsLast ==
  ASSUME RingInv, Configured
  PROVE  /\ nSG \in 1..NChips+1 /\ mask \in SUBSET (0..NChips-1)
         /\ \A k \in 0..nSG-1 : /\ desc[k].sa \in Fifos
                                /\ desc[k].sa \in mask \/ desc[k].sa = NChips
         /\ InOrder
         /\ desc[nSG-1].sa = NChips
         /\ \A k \in 0..nSG-2 : desc[k].sa \in mask
         /\ \A f \in mask : \E k \in 0..nSG-2 : desc[k].sa = f
<1> USE RingAssumption
<1>1. /\ nSG \in 1..NChips+1 /\ mask \in SUBSET (0..NChips-1)
      /\ pc # "boot" /\ i = NChips + 1
  BY DEF RingInv, RingTypeOK, EngineAt, Configured
<1>2. /\ \A k \in 0..nSG-1 : desc[k].sa \in mask \/ desc[k].sa = NChips
      /\ InOrder
      /\ \A f \in Fifos : f < i /\ (f \in mask \/ f = NChips) => Served(f)
  BY <1>1 DEF RingInv, SlotsFilled, Written
<1>3. \A k \in 0..nSG-1 : desc[k].sa \in Fifos
  BY SlotType, Fields DEF RingInv
<1>4. PICK l \in 0..nSG-1 : desc[l].sa = NChips
  <2>1. NChips \in Fifos /\ NChips < i
    BY <1>1 DEF Fifos
  <2> QED
    BY <1>2, <2>1 DEF Served
<1>5. l = nSG - 1
  <2>1. l < nSG - 1 => desc[l].sa < desc[nSG-1].sa
    BY <1>1, <1>2 DEF InOrder
  <2>2. desc[nSG-1].sa \in 0..NChips
    BY <1>1, <1>3 DEF Fifos
  <2> QED
    BY <1>1, <1>4, <2>1, <2>2
<1>6. \A k \in 0..nSG-2 : desc[k].sa \in mask
  <2>1. \A k \in 0..nSG-2 : k \in 0..nSG-1 /\ desc[k].sa < desc[nSG-1].sa
    BY <1>1, <1>2 DEF InOrder
  <2> QED
    BY <1>2, <1>4, <1>5, <2>1
<1>7. ASSUME NEW f \in mask PROVE \E k \in 0..nSG-2 : desc[k].sa = f
  <2>1. f \in Fifos /\ f < i /\ f # NChips
    BY <1>1 DEF Fifos
  <2>2. PICK k \in 0..nSG-1 : desc[k].sa = f
    BY <1>2, <2>1 DEF Served
  <2>3. k # nSG - 1
    BY <1>4, <1>5, <2>1, <2>2
  <2> QED
    BY <1>1, <2>2, <2>3
<1> QED
  BY <1>1, <1>2, <1>3, <1>4, <1>5, <1>6, <1>7

\* One descriptor per bit of the mask: nSGBuf_ is the number of selected chips
\* and one, which is what DAQ_Thread's nchan_ and its message size count on.
LEMMA SizeOfRing ==
  ASSUME RingInv, Configured
  PROVE  nSG = Cardinality(mask) + 1
<1> DEFINE n == nSG - 1
           g == [k \in 1..n |-> desc[k-1].sa]
<1>1. n \in Nat /\ \A k \in 1..n : k - 1 \in 0..nSG-2 /\ k - 1 \in 0..nSG-1
  BY StampIsLast
<1>2. g \in [1..n -> mask]
  BY <1>1, StampIsLast
<1>3. \A j \in 1..n, k \in 1..n : g[j] = g[k] => j = k
  <2> SUFFICES ASSUME NEW j \in 1..n, NEW k \in 1..n, j < k
               PROVE  g[j] # g[k]
    BY <1>1
  <2>1. desc[j-1].sa < desc[k-1].sa
    BY <1>1, StampIsLast DEF InOrder
  <2>2. g[j] \in Int /\ g[j] < g[k]
    BY <1>1, <2>1, StampIsLast, RingAssumption DEF Fifos
  <2> QED
    BY <2>2
<1>4. \A f \in mask : \E k \in 1..n : g[k] = f
  <2> SUFFICES ASSUME NEW f \in mask PROVE \E k \in 1..n : g[k] = f
    OBVIOUS
  <2>1. PICK k \in 0..nSG-2 : desc[k].sa = f
    BY StampIsLast
  <2>2. k + 1 \in 1..n /\ (k + 1) - 1 = k
    <3>1. nSG \in Int
      BY StampIsLast
    <3> QED
      BY <2>1, <3>1
  <2>3. g[k+1] = f
    BY <2>1, <2>2
  <2> QED
    BY <2>2, <2>3
<1>5. ExistsBijection(1..n, mask)
  BY <1>2, <1>3, <1>4 DEF ExistsBijection, Bijection, Injection, Surjection, IsInjective
<1>6. Cardinality(mask) = n
  BY <1>1, <1>5, FS_CountingElements
<1> QED
  BY <1>1, <1>6, StampIsLast

\* configureSGBuf, an iteration of its loop at a time (DMACtrl.h:39-58), makes
\* the ring that module Readout makes in one step, for any mask and any number
\* of chips, and the engine reads its FIFOs in that order.
THEOREM RingBuilt == Spec => []RingInOneStep
<1>1. RingInv => RingInOneStep
  <2> SUFFICES ASSUME RingInv, Configured
               PROVE  /\ Ring \in RingsOf(mask)
                      /\ pc = "run" => cur = Len(moved)
                      /\ pc \in {"run", "ran"} =>
                           moved = [k \in 1..Len(moved) |-> Ring[k]]
    BY DEF RingInOneStep
  <2> DEFINE n == Cardinality(mask)
  <2>1. nSG = n + 1 /\ nSG \in 1..NChips+1 /\ n \in Int
    <3>1. mask \in SUBSET (0..NChips-1) /\ nSG \in 1..NChips+1
      BY StampIsLast
    <3>2. IsFiniteSet(mask)
      <4>1. IsFiniteSet(0..NChips-1)
        BY FS_Interval, RingAssumption
      <4> QED
        BY <3>1, <4>1, FS_Subset
    <3>3. n \in Nat
      BY <3>2, FS_CardinalityType
    <3> HIDE DEF n
    <3> QED
      BY <3>1, <3>3, SizeOfRing DEF n
  <2>2. \A k \in 1..nSG : k - 1 \in 0..nSG-1 /\ Ring[k] = desc[k-1].sa
    BY <2>1 DEF Ring
  <2>3. Ring \in [1..n+1 -> mask \cup {NChips}]
    BY <2>1, <2>2, StampIsLast DEF Ring
  <2>4. Ring[n+1] = NChips
    BY <2>1, <2>2, StampIsLast
  <2>5. \A j \in 1..n : Ring[j] \in mask
    <3>1. \A j \in 1..n : j \in 1..nSG /\ j - 1 \in 0..nSG-2
      BY <2>1
    <3> QED
      BY <2>2, <3>1, StampIsLast
  <2>6. \A j \in 1..n, k \in 1..n : j < k => Ring[j] < Ring[k]
    <3> SUFFICES ASSUME NEW j \in 1..n, NEW k \in 1..n, j < k
                 PROVE  Ring[j] < Ring[k]
      OBVIOUS
    <3>1. j \in 1..nSG /\ k \in 1..nSG /\ j - 1 < k - 1
      BY <2>1
    <3>2. desc[j-1].sa < desc[k-1].sa
      BY <2>2, <3>1, StampIsLast DEF InOrder
    <3> QED
      BY <2>2, <3>1, <3>2
  <2>7. Ring \in RingsOf(mask)
    BY <2>3, <2>4, <2>5, <2>6 DEF RingsOf
  <2>8. pc = "run" => cur = Len(moved)
    BY DEF RingInv, EngineAt
  <2>9. ASSUME pc \in {"run", "ran"}
        PROVE  moved = [k \in 1..Len(moved) |-> Ring[k]]
    <3>1. /\ moved \in Seq(Fifos) /\ Len(moved) \in Nat /\ Len(moved) <= nSG
          /\ \A k \in 1..Len(moved) : moved[k] = desc[k-1].sa
      <4>1. moved \in Seq(Fifos) /\ Len(moved) \in Nat
        BY LenProperties DEF RingInv, RingTypeOK
      <4>2. /\ pc = "run" => cur = Len(moved) /\ cur < nSG
            /\ pc = "ran" => Len(moved) = nSG
            /\ \A k \in 1..Len(moved) : moved[k] = desc[k-1].sa
        BY <2>9 DEF RingInv, EngineAt
      <4> QED
        BY <2>1, <2>9, <4>1, <4>2
    <3>2. \A k \in 1..Len(moved) : moved[k] = Ring[k]
      BY <2>1, <2>2, <3>1
    <3>3. moved = [k \in 1..Len(moved) |-> moved[k]]
      BY <3>1
    <3> QED
      BY <3>2, <3>3
  <2> QED
    BY <2>7, <2>8, <2>9
<1> QED
  BY <1>1, RingCorrect, PTL
=============================================================================
