-------------------------- MODULE I2CDevices_proofs --------------------------
(* Proofs about the start-up and the I2C commands, for every set of results, *)
(* masks and biases.                                                         *)
EXTENDS I2CDevices, TLAPS

-----------------------------------------------------------------------------
(* Arithmetic.                                                             *)

\* The bytes sent to the DAC carry the lower ten bits.
LEMMA LowBitsAre ==
  ASSUME NEW v \in Nat
  PROVE  LowBits(v) = v % 1024
<1> DEFINE q == v \div 256  r == v % 256
<1>1. q \in Nat /\ r \in 0 .. 255 /\ v = (256 * q) + r
  BY SMT
<1>2. q \div 4 \in Nat /\ q % 4 \in 0 .. 3 /\ q = (4 * (q \div 4)) + (q % 4)
  BY <1>1
<1>3. v = 1024 * (q \div 4) + (256 * (q % 4) + r)
  BY <1>1, <1>2
<1>4. 256 * (q % 4) + r \in 0 .. 1023
  BY <1>1, <1>2
<1>5. v % 1024 = 256 * (q % 4) + r
  BY <1>2, <1>3, <1>4
<1> QED
  BY <1>1, <1>2, <1>5 DEF LowBits

\* A word is put together again from its three bytes.
LEMMA ThreeBytes ==
  ASSUME NEW w \in Nat
  PROVE  /\ w \div 65536 \in Nat
         /\ (w \div 256) % 256 \in 0 .. 255
         /\ w % 256 \in 0 .. 255
         /\ w = ((65536 * (w \div 65536)) + (256 * ((w \div 256) % 256))) + (w % 256)
  BY SMT

IsWord(r, w) ==
  r[1] = w \div 65536 /\ r[2] = (w \div 256) % 256 /\ r[3] = w % 256

LEMMA DecodePositive ==
  ASSUME NEW r, NEW w \in Nat, IsWord(r, w), w < 131072
  PROVE  Decode(r) = w
<1>1. r[1] = 0 \/ r[1] = 1
  BY SMT DEF IsWord
<1>2. w = ((65536 * r[1]) + (256 * r[2])) + r[3] /\ r[2] \in Int /\ r[3] \in Int
  BY SMT, ThreeBytes DEF IsWord
<1> QED
  BY SMT, <1>1, <1>2 DEF Decode

LEMMA DecodeNegative ==
  ASSUME NEW r, NEW w \in Nat, IsWord(r, w), w >= 16646144, w < 16777216
  PROVE  Decode(r) = w - 16777216
<1>1. r[1] = 254 \/ r[1] = 255
  BY SMT DEF IsWord
<1>2. w = ((65536 * r[1]) + (256 * r[2])) + r[3] /\ r[2] \in Int /\ r[3] \in Int
  BY SMT, ThreeBytes DEF IsWord
<1> QED
  BY SMT, <1>1, <1>2 DEF Decode

SensorType == [input : {0, 1, 2}, value : Values \cup {0}, ready : BOOLEAN]

LEMMA ValuesBounded ==
  \A v \in Values \cup {0} : v \in Int /\ v >= -131072 /\ v < 131072
  BY SMT, I2CAssumption

\* Reading the bytes of the sensor gives its result back, and tells whether
\* there is one.
LEMMA DecodeBytes ==
  ASSUME NEW s \in SensorType
  PROVE  /\ Decode(Bytes(s)) = s.value
         /\ NotReady(Bytes(s)) <=> ~ s.ready
<1>0. s.value \in Int /\ s.value >= -131072 /\ s.value < 131072 /\ s.ready \in BOOLEAN
  BY ValuesBounded DEF SensorType
<1>1. NotReady(Bytes(s)) <=> ~ s.ready
  BY <1>0, SMT DEF NotReady, Bytes
<1>2. CASE s.value < 0
  <2>1. IsWord(Bytes(s), s.value + 16777216)
    BY <1>2, SMT DEF IsWord, Bytes
  <2> QED
    BY <1>0, <1>1, <1>2, <2>1, DecodeNegative, SMT
<1>3. CASE s.value >= 0
  <2>1. IsWord(Bytes(s), s.value)
    BY <1>0, <1>3, SMT DEF IsWord, Bytes
  <2> QED
    BY <1>0, <1>1, <1>3, <2>1, DecodePositive, SMT
<1> QED
  BY <1>0, <1>2, <1>3, SMT

-----------------------------------------------------------------------------
(* The DACs.                                                               *)

DacInv ==
  /\ bias \in [Buses -> Nat] /\ given \in [Buses -> SUBSET Nat]
  /\ DOMAIN dac = Buses
  /\ \A b \in Buses : 0 \in given[b] /\ bias[b] \in given[b]
  /\ DacHoldsBias

\* The biases that the DACs had stay among those configured.
LEMMA DacInvKept ==
  ASSUME DacInv, UNCHANGED <<bias, given, dac>>
  PROVE  DacInv'
  BY DEF DacInv, DacHoldsBias

LEMMA DacInvInit == Init => DacInv
<1>1. 0 % 1024 = 0
  BY SMT
<1> QED
  BY <1>1 DEF Init, DacInv, DacHoldsBias

LEMMA DacInvConfig ==
  ASSUME DacInv, Config
  PROVE  DacInv'
<1>1. \A b \in Buses : Biases[b] \in SUBSET Nat
  BY I2CAssumption
<1>2. bias' \in [Buses -> Nat] /\ given' \in [Buses -> SUBSET Nat]
  BY <1>1 DEF Config, DacInv
<1>3. \A b \in Buses : given'[b] = given[b] \cup {bias'[b]}
  BY DEF Config, DacInv
<1>4. dac' = dac
  BY DEF Config, devices
<1> QED
  BY <1>2, <1>3, <1>4 DEF DacInv, DacHoldsBias

LEMMA DacInvSetBias ==
  ASSUME DacInv, SetBias
  PROVE  DacInv'
<1>1. bias' = bias /\ given' = given
  BY DEF SetBias, settings
<1>2. DOMAIN dac' = Buses /\ \A b \in Buses : dac'[b] = LowBits(bias[b]) \/ dac'[b] = dac[b]
  BY DEF SetBias
<1>3. \A b \in Buses : bias[b] \in given[b] /\ LowBits(bias[b]) = bias[b] % 1024
  BY LowBitsAre DEF DacInv
<1> QED
  BY <1>1, <1>2, <1>3 DEF DacInv, DacHoldsBias

\* The command for the sensor that goes to the DAC.
LEMMA DacInvStart ==
  ASSUME DacInv, StartConversion
  PROVE  DacInv'
<1>1. bias' = bias /\ given' = given
  BY DEF StartConversion, settings
<1>2. dac' = dac \/ dac' = [dac EXCEPT ![i2c] = Unknown]
  BY DEF StartConversion
<1>3. DOMAIN dac' = Buses /\ \A b \in Buses : dac'[b] = Unknown \/ dac'[b] = dac[b]
  BY <1>2 DEF DacInv
<1> QED
  BY <1>1, <1>3 DEF DacInv, DacHoldsBias

LEMMA DacInvRelaunch ==
  ASSUME DacInv, Relaunch
  PROVE  DacInv'
<1>1. bias' = [b \in Buses |-> 0] /\ given' = given /\ dac' = dac
  BY DEF Relaunch, Boot
<1> QED
  BY <1>1 DEF DacInv, DacHoldsBias

LEMMA DacInvNext ==
  ASSUME DacInv, [Next]_vars
  PROVE  DacInv'
<1> USE DEF settings, reading, devices
<1>1. CASE (Appear \/ Construct) /\ Quiet
  BY <1>1, DacInvKept DEF Quiet
<1>2. CASE Fail /\ Leave /\ UNCHANGED <<settings, devices>>
  BY <1>2, DacInvKept
<1>3. CASE Relaunch
  BY <1>3, DacInvRelaunch
<1>4. CASE \E chan \in {"1", "2"} : TempRequest(chan)
  BY <1>4, DacInvKept DEF TempRequest
<1>5. CASE Config
  BY <1>5, DacInvConfig
<1>6. CASE SetBias
  BY <1>6, DacInvSetBias
<1>7. CASE TempStep
  BY <1>7, DacInvStart, DacInvKept DEF TempStep, Poll, TempReply
<1>8. CASE \E b \in Buses : Complete(b)
  BY <1>8, DacInvKept DEF Complete
<1>9. CASE UNCHANGED vars
  BY <1>9, DacInvKept DEF vars
<1> QED
  BY <1>1, <1>2, <1>3, <1>4, <1>5, <1>6, <1>7, <1>8, <1>9 DEF Next, Commands

\* Whatever keys are configured, transfers fail and addresses are refused, a DAC
\* puts out the lower ten bits of a bias that was configured for its bus, unless
\* the last that it took was a command for the sensor (server.cpp:383-391,
\* i2c.h:46-55, 68-75).
THEOREM DacHolds == Spec => []DacHoldsBias
<1>1. DacInv => DacHoldsBias
  BY DEF DacInv
<1>2. DacInv /\ [Next]_vars => DacInv'
  BY DacInvNext
<1> HIDE DEF DacInv, Init, Next, vars, DacHoldsBias
<1> QED
  BY <1>1, <1>2, DacInvInit, PTL DEF Spec

-----------------------------------------------------------------------------
(* The replies of cmd_readTemp.                                            *)

Conversions == [bus : Buses, input : {1, 2}, value : Values]

Converted(j) == [bus |-> i2c, input |-> j, value |-> volts[j]] \in made

\* The value read for input j: a conversion, or the zero of a failed read.
Shown(j) == Converted(j) \/ (volts[j] = 0 /\ "read" \in failed)

\* The conversion of input j is on its way, or the sensor has its result.
Underway(j) ==
  \/ sensor[i2c].input = j /\ ~ sensor[i2c].ready
  \/ /\ sensor[i2c].input = 0 /\ sensor[i2c].ready
     /\ [bus |-> i2c, input |-> j, value |-> sensor[i2c].value] \in made

\* Nothing but reads failed.
OnlyReads == failed \subseteq {"read"}

TempType ==
  /\ pc \in {"idle", "start", "poll", "reply"}
  /\ k \in {1, 2} /\ asked \in {"1", "2"} /\ i2c \in Buses
  /\ volts \in [1 .. 2 -> Int]
  /\ sensor \in [Buses -> SensorType]
  /\ made \subseteq Conversions

TempInv ==
  /\ TempType
  /\ pc = "idle" => made = {} /\ failed = {} /\ k = 1
  /\ pc # "idle" => i2c = BusOf(asked)
  /\ pc = "reply" => k = 2
  /\ pc # "idle" /\ OnlyReads =>
       /\ k = 2 => Shown(1)
       /\ pc = "reply" => Shown(2)
       /\ pc = "poll" => Underway(k)

LEMMA TempInvInit == Init => TempInv
  BY DEF Init, TempInv, TempType, SensorType, Buses

LEMMA TempInvKept ==
  ASSUME TempInv, UNCHANGED <<pc, k, asked, i2c, volts, sensor, made, failed>>
  PROVE  TempInv'
  BY DEF TempInv, TempType, Shown, Converted, Underway, OnlyReads

\* Between commands, whatever the sensors have.
LEMMA TempInvIdle ==
  ASSUME TempInv, pc = "idle", sensor' \in [Buses -> SensorType],
         UNCHANGED <<pc, k, asked, i2c, volts, made, failed>>
  PROVE  TempInv'
  BY DEF TempInv, TempType

LEMMA TempInvSetBias ==
  ASSUME TempInv, SetBias
  PROVE  TempInv'
<1>1. \A j \in {1, 2} : Converting(j) \in SensorType
  BY DEF Converting, SensorType
<1>2. \A b \in Buses : Disturbed(b) \subseteq SensorType /\ sensor[b] \in SensorType
  BY <1>1 DEF Disturbed, TempInv, TempType
<1>3. sensor' \in [Buses -> SensorType]
  BY <1>2 DEF SetBias
<1> QED
  BY <1>3, TempInvIdle DEF SetBias, reading

LEMMA TempInvLeave ==
  ASSUME TempInv, Leave, sensor' = sensor
  PROVE  TempInv'
<1>1. [j \in 1 .. 2 |-> 0] \in [1 .. 2 -> Int]
  BY SMT
<1> QED
  BY <1>1 DEF TempInv, TempType, Leave, Buses

LEMMA TempInvRequest ==
  ASSUME TempInv, NEW chan \in {"1", "2"}, TempRequest(chan)
  PROVE  TempInv'
<1>1. pc = "idle" /\ pc' = "start" /\ asked' = chan /\ i2c' = BusOf(chan)
  BY DEF TempRequest
<1>2. UNCHANGED <<k, volts, sensor, made, failed>>
  BY DEF TempRequest, devices
<1> QED
  BY <1>1, <1>2 DEF TempInv, TempType, BusOf, Buses

LEMMA TempInvComplete ==
  ASSUME TempInv, NEW b \in Buses, Complete(b)
  PROVE  TempInv'
<1>1. PICK v \in Values :
        /\ sensor' = [sensor EXCEPT ![b] = [input |-> 0, value |-> v, ready |-> TRUE]]
        /\ made' = IF pc = "idle" THEN made
                   ELSE made \cup {[bus |-> b, input |-> sensor[b].input, value |-> v]}
  BY DEF Complete
<1>2. UNCHANGED <<pc, k, asked, i2c, volts, failed>> /\ sensor[b].input # 0
  BY DEF Complete
<1>3. sensor[b].input \in {1, 2}
  BY <1>2 DEF TempInv, TempType, SensorType
<1>4. sensor' \in [Buses -> SensorType] /\ made' \subseteq Conversions
  BY <1>1, <1>3 DEF TempInv, TempType, SensorType, Conversions
<1>5. TempType'
  BY <1>2, <1>4 DEF TempInv, TempType
<1>6. made \subseteq made' /\ (pc = "idle" => made' = made)
  BY <1>1
<1>7. ASSUME pc = "poll", Underway(k)
      PROVE  Underway(k)'
  <2>1. CASE b = i2c
    <3>1. sensor[b].input = k
      BY <1>2, <1>7, <2>1 DEF Underway
    <3>2. /\ sensor'[b].input = 0 /\ sensor'[b].ready /\ sensor'[b].value = v
          /\ [bus |-> b, input |-> k, value |-> v] \in made'
      BY <1>1, <1>7, <3>1 DEF TempInv, TempType
    <3> QED
      BY <1>2, <2>1, <3>2 DEF Underway
  <2>2. CASE b # i2c
    <3>1. sensor'[i2c] = sensor[i2c]
      BY <1>1, <2>2 DEF TempInv, TempType
    <3> QED
      BY <1>2, <1>6, <1>7, <3>1 DEF Underway
  <2> QED
    BY <2>1, <2>2
<1> QED
  BY <1>2, <1>5, <1>6, <1>7 DEF TempInv, Shown, Converted, OnlyReads

LEMMA TempInvStart ==
  ASSUME TempInv, StartConversion
  PROVE  TempInv'
<1>1. /\ pc = "start" /\ pc' = "poll" /\ made' = {c \in made : c.input # k}
      /\ UNCHANGED <<asked, i2c, k, volts>>
  BY DEF StartConversion
<1>2. \/ sensor' = [sensor EXCEPT ![i2c] = Converting(k)] /\ failed' = failed
      \/ sensor' = sensor /\ ("astray" \in failed' \/ "write" \in failed')
  BY DEF StartConversion
<1>0. Converting(k) \in SensorType
  BY DEF TempInv, TempType, SensorType, Converting
<1>3. sensor' \in [Buses -> SensorType]
  BY <1>0, <1>2 DEF TempInv, TempType
<1>4. TempType'
  BY <1>1, <1>3 DEF TempInv, TempType
<1>5. CASE "astray" \in failed' \/ "write" \in failed'
  BY <1>1, <1>4, <1>5 DEF TempInv, OnlyReads
<1>6. CASE sensor' = [sensor EXCEPT ![i2c] = Converting(k)] /\ failed' = failed
  <2>1. Underway(k)'
    BY <1>1, <1>6 DEF TempInv, TempType, Converting, Underway
  <2>2. ASSUME k = 2, Shown(1)
        PROVE  Shown(1)'
    BY <1>1, <1>6, <2>2 DEF Shown, Converted
  <2> QED
    BY <1>1, <1>4, <1>6, <2>1, <2>2 DEF TempInv, OnlyReads
<1> QED
  BY <1>2, <1>5, <1>6

\* A transfer that went astray leaves nothing to show but an integer.
LEMMA DecodeInt ==
  ASSUME NEW s \in [value : Values, ready : BOOLEAN]
  PROVE  Decode(Bytes(s)) \in Int
<1> DEFINE t == [input |-> 0, value |-> s.value, ready |-> s.ready]
<1>1. t \in SensorType /\ t.value \in Values
  BY DEF SensorType
<1>2. Bytes(s) = Bytes(t)
  BY DEF Bytes
<1>3. Decode(Bytes(t)) = t.value
  BY <1>1, DecodeBytes
<1> QED
  BY <1>1, <1>2, <1>3, ValuesBounded

LEMMA TempInvPoll ==
  ASSUME TempInv, Poll
  PROVE  TempInv'
<1>1. /\ pc = "poll"
      /\ UNCHANGED <<asked, i2c, made, sensor>>
  BY DEF Poll
<1>0. PICK ok \in BOOLEAN : \E res \in Results(ok) : Take(res)
  BY DEF Poll, Works
<1>2. PICK res \in Results(ok) : Take(res)
  BY <1>0
<1> DEFINE r == res.bytes
<1>r. /\ failed' = failed \cup res.wrong
      /\ NotReady(r) => UNCHANGED <<pc, k, volts>>
      /\ ~ NotReady(r) =>
           /\ volts' = [volts EXCEPT ![k] = Decode(r)]
           /\ k = 1 => pc' = "start" /\ k' = 2
           /\ k # 1 => pc' = "reply" /\ k' = k
  BY <1>2 DEF Take
<1>s. \/ r = <<0, 0, 0, 0>> /\ res.wrong = {"read"}
      \/ r = Bytes(sensor[i2c]) /\ res.wrong = {}
      \/ /\ \E s \in [value : Values, ready : BOOLEAN] : r = Bytes(s)
         /\ res.wrong = {"astray"}
  <2>1. CASE ~ ok
    BY <1>2, <2>1 DEF Results
  <2>2. CASE ok /\ addr'[i2c] = "adc"
    BY <1>2, <2>2 DEF Results
  <2>3. CASE ok /\ addr'[i2c] # "adc"
    <3>1. res \in {[bytes |-> Bytes(s), wrong |-> {"astray"}] :
                     s \in [value : Values, ready : BOOLEAN]}
      BY <1>2, <2>3 DEF Results
    <3>2. PICK s \in [value : Values, ready : BOOLEAN] :
            res = [bytes |-> Bytes(s), wrong |-> {"astray"}]
      BY <3>1
    <3> QED
      BY <3>2
  <2> QED
    BY <2>1, <2>2, <2>3
<1> HIDE DEF r
<1>3. sensor[i2c] \in SensorType
  BY DEF TempInv, TempType
<1>4. CASE NotReady(r)
  BY <1>1, <1>r, <1>4 DEF TempInv, TempType, Shown, Converted, Underway, OnlyReads
<1>5. CASE ~ NotReady(r)
  <2>1. /\ volts' = [volts EXCEPT ![k] = Decode(r)]
        /\ \/ k = 1 /\ pc' = "start" /\ k' = 2
           \/ k = 2 /\ pc' = "reply" /\ k' = 2
    BY <1>r, <1>5 DEF TempInv, TempType
  <2>2. failed \subseteq failed' /\ (OnlyReads' => OnlyReads)
    BY <1>r DEF OnlyReads
  <2>3. Decode(<<0, 0, 0, 0>>) = 0
    BY SMT DEF Decode
  <2>4. CASE r = Bytes(sensor[i2c]) /\ res.wrong = {}
    <3>1. sensor[i2c].ready /\ Decode(r) = sensor[i2c].value
      BY <1>3, <1>5, <2>4, DecodeBytes
    <3>2. Decode(r) \in Int
      BY <1>3, <3>1, ValuesBounded DEF SensorType
    <3>3. OnlyReads => [bus |-> i2c, input |-> k, value |-> Decode(r)] \in made
      BY <1>1, <3>1 DEF TempInv, Underway
    <3>4. volts' \in [1 .. 2 -> Int] /\ volts'[k] = Decode(r)
          /\ (k = 2 => volts'[1] = volts[1])
      BY <2>1, <3>2 DEF TempInv, TempType
    <3>6. OnlyReads /\ k = 1 => Shown(1)'
      BY <1>1, <3>3, <3>4 DEF Shown, Converted
    <3>7. OnlyReads /\ k = 2 => Shown(2)'
      BY <1>1, <3>3, <3>4 DEF Shown, Converted
    <3>8. OnlyReads /\ k = 2 => Shown(1)'
      BY <1>1, <2>2, <3>4 DEF Shown, Converted, TempInv
    <3> QED
      BY <1>1, <2>1, <2>2, <3>4, <3>6, <3>7, <3>8 DEF TempInv, TempType
  <2>5. CASE r = <<0, 0, 0, 0>> /\ res.wrong = {"read"}
    <3>1. Decode(r) = 0 /\ "read" \in failed'
      BY <1>r, <2>3, <2>5
    <3>2. volts' \in [1 .. 2 -> Int] /\ volts'[k] = 0
          /\ (k = 2 => volts'[1] = volts[1])
      BY <2>1, <3>1 DEF TempInv, TempType
    <3>3. (k = 1 => Shown(1)') /\ (k = 2 => Shown(2)')
      BY <3>1, <3>2 DEF Shown
    <3>4. OnlyReads /\ k = 2 => Shown(1)'
      BY <1>1, <2>2, <3>2 DEF Shown, Converted, TempInv
    <3> QED
      BY <1>1, <2>1, <2>2, <3>2, <3>3, <3>4 DEF TempInv, TempType
  <2>6. CASE /\ \E s \in [value : Values, ready : BOOLEAN] : r = Bytes(s)
             /\ res.wrong = {"astray"}
    <3>1. Decode(r) \in Int
      BY <2>6, DecodeInt
    <3>2. volts' \in [1 .. 2 -> Int]
      BY <2>1, <3>1 DEF TempInv, TempType
    <3>3. ~ OnlyReads'
      BY <1>r, <2>6 DEF OnlyReads
    <3> QED
      BY <1>1, <2>1, <3>2, <3>3 DEF TempInv, TempType
  <2> QED
    BY <1>s, <2>4, <2>5, <2>6
<1> QED
  BY <1>4, <1>5

LEMMA TempInvNext ==
  ASSUME TempInv, [Next]_vars
  PROVE  TempInv'
<1> USE DEF settings, reading, devices
<1>1. CASE (Appear \/ Construct) /\ Quiet
  BY <1>1, TempInvKept DEF Quiet
<1>2. CASE Fail /\ Leave /\ UNCHANGED <<settings, devices>>
  BY <1>2, TempInvLeave
<1>3. CASE Relaunch
  BY <1>3, TempInvKept DEF Relaunch
<1>4. CASE \E chan \in {"1", "2"} : TempRequest(chan)
  BY <1>4, TempInvRequest
<1>5. CASE Config \/ SetBias
  BY <1>5, TempInvKept, TempInvSetBias DEF Config
<1>6. CASE StartConversion
  BY <1>6, TempInvStart
<1>7. CASE Poll
  BY <1>7, TempInvPoll
<1>8. CASE TempReply
  BY <1>8, TempInvLeave DEF TempReply
<1>9. CASE \E b \in Buses : Complete(b)
  BY <1>9, TempInvComplete
<1>10. CASE UNCHANGED vars
  BY <1>10, TempInvKept DEF vars
<1> QED
  BY <1>1, <1>2, <1>3, <1>4, <1>5, <1>6, <1>7, <1>8, <1>9, <1>10
     DEF Next, Commands, TempStep

LEMMA TempInvSays == TempInv => ReplyIsConverted /\ FailuresAreZero
<1> SUFFICES ASSUME TempInv, pc = "reply", OnlyReads
             PROVE  /\ Shown(1) /\ Shown(2) /\ i2c = BusOf(asked)
  BY DEF ReplyIsConverted, FailuresAreZero, Shown, Converted, OnlyReads
<1> QED
  BY DEF TempInv

\* For every result, a voltage that is replied is the conversion of its input
\* made for this command by the sensor of its channel, where every transfer
\* worked (server.cpp:354-381), whatever went wrong in commands before it.
THEOREM RepliesConverted == Spec => []ReplyIsConverted
<1>1. TempInv /\ [Next]_vars => TempInv'
  BY TempInvNext
<1> HIDE DEF TempInv, Init, Next, vars, ReplyIsConverted, FailuresAreZero
<1> QED
  BY <1>1, TempInvInit, TempInvSays, PTL DEF Spec

\* Where no conversion failed to start and no read went astray, a voltage other
\* than zero was converted for the command, even when reads failed
\* (i2c.h:32-43).
THEOREM FailuresZero == Spec => []FailuresAreZero
<1>1. TempInv /\ [Next]_vars => TempInv'
  BY TempInvNext
<1> HIDE DEF TempInv, Init, Next, vars, ReplyIsConverted, FailuresAreZero
<1> QED
  BY <1>1, TempInvInit, TempInvSays, PTL DEF Spec

-----------------------------------------------------------------------------
(* The start.                                                              *)

\* What step i of the constructors must have opened when it is over.
Opened(i) ==
  Steps[i] \in UDMABufs \/ (loaded /\ Steps[i] \in Devices) => Steps[i] \in opened

StartInv ==
  /\ present \subseteq Devices /\ opened \subseteq Devices
  /\ loaded => present = Devices
  /\ next \in 1 .. 12
  /\ proc = "starting" => \A i \in 1 .. (next - 1) : Opened(i)
  /\ ServesWhole

LEMMA StepsAre ==
  /\ Len(Steps) = 11
  /\ \A d \in Devices : \E i \in 1 .. 11 : Steps[i] = d
<1>1. Len(Steps) = 11
  BY DEF Steps
<1>2. /\ Steps[1] = "gpio" /\ Steps[3] = "udmabuf0" /\ Steps[4] = "cdma"
      /\ Steps[5] = "udmabuf1" /\ Steps[6] = "read" /\ Steps[7] = "write"
      /\ Steps[8] = "intc" /\ Steps[10] = "i2c_1" /\ Steps[11] = "i2c_2"
  BY DEF Steps
<1>3. 1 \in 1 .. 11 /\ 3 \in 1 .. 11 /\ 4 \in 1 .. 11 /\ 5 \in 1 .. 11 /\ 6 \in 1 .. 11
      /\ 7 \in 1 .. 11 /\ 8 \in 1 .. 11 /\ 10 \in 1 .. 11 /\ 11 \in 1 .. 11
  BY SMT
<1> QED
  BY <1>1, <1>2, <1>3, Zenon DEF Devices, UIOs, UDMABufs, Buses

LEMMA StartInvInit == Init => StartInv
  BY DEF Init, StartupInit, StartInv, ServesWhole

LEMMA StartInvKept ==
  ASSUME StartInv, UNCHANGED startupVars
  PROVE  StartInv'
  BY DEF StartInv, Opened, ServesWhole, startupVars

LEMMA StartInvAppear ==
  ASSUME StartInv, Appear
  PROVE  StartInv'
<1>1. present' \subseteq Devices /\ present \subseteq present'
  BY GroupsAssumption DEF Appear, StartInv
<1> QED
  BY <1>1 DEF Appear, StartInv, Opened, ServesWhole

LEMMA StartInvDie ==
  ASSUME StartInv, Die
  PROVE  StartInv'
  BY DEF StartInv, Die, ServesWhole

\* A step that opens at least what it must.
LEMMA StartInvStep ==
  ASSUME StartInv, NEW d, Constructing(d), GoOn,
         opened \subseteq opened', opened' \subseteq Devices,
         d \in UDMABufs \/ (loaded /\ d \in Devices) => d \in opened'
  PROVE  StartInv'
<1>1. next \in 1 .. 11 /\ Steps[next] = d /\ proc = "starting"
  BY StepsAre DEF Constructing, StartInv
<1>2. next' = next + 1 /\ UNCHANGED <<present, proc, loaded>>
  BY DEF GoOn
<1>3. ASSUME NEW i \in 1 .. (next' - 1)
      PROVE  Opened(i)'
  <2>1. CASE i = next
    BY <1>1, <1>2, <2>1 DEF Opened
  <2>2. CASE i # next
    <3>1. i \in 1 .. (next - 1)
      BY <1>1, <1>2, <2>2
    <3> QED
      BY <1>1, <1>2, <3>1 DEF Opened, StartInv
  <2> QED
    BY <2>1, <2>2
<1> QED
  BY <1>1, <1>2, <1>3 DEF StartInv, ServesWhole

LEMMA StartInvServe ==
  ASSUME StartInv, Serve
  PROVE  StartInv'
<1>1. next = 12 /\ proc = "starting" /\ proc' = "serving"
      /\ UNCHANGED <<present, next, opened, loaded>>
  BY StepsAre DEF Serve, StartInv
<1>2. \A i \in 1 .. 11 : Opened(i)
  BY <1>1 DEF StartInv
<1>3. \A d \in Devices : d \in UDMABufs \/ loaded => d \in opened
  BY <1>2, StepsAre DEF Opened
<1>4. UDMABufs \subseteq opened /\ (loaded => opened = Devices)
  BY <1>3 DEF StartInv, Devices
<1> QED
  BY <1>1, <1>4 DEF StartInv, ServesWhole

LEMMA StartInvConstruct ==
  ASSUME StartInv, Construct
  PROVE  StartInv'
<1>0. loaded => present = Devices
  BY DEF StartInv
<1>1. ASSUME NEW d \in UIOs, OpenUIO(d)
      PROVE  StartInv'
  BY <1>0, <1>1, StartInvStep, StartInvDie DEF OpenUIO, Lookup, StartInv, Devices, UIOs, UDMABufs
<1>2. ASSUME NEW d \in UDMABufs, OpenUDMABuf(d)
      PROVE  StartInv'
  BY <1>2, StartInvStep, StartInvDie DEF OpenUDMABuf, StartInv, Devices
<1>3. ASSUME NEW d \in Buses, OpenI2C(d)
      PROVE  StartInv'
  BY <1>0, <1>3, StartInvStep DEF OpenI2C, StartInv, Devices, Buses, UDMABufs
<1>a. "write gpio" \notin Devices /\ "reset cdma" \notin Devices /\ UDMABufs \subseteq Devices
  BY DEF Devices, UIOs, UDMABufs, Buses
<1>b. ASSUME NEW step, NEW d, step \notin Devices, Constructing(step), Access(d)
      PROVE  StartInv'
  <2>1. CASE UNCHANGED opened /\ GoOn
    <3>1. opened \subseteq opened' /\ opened' \subseteq Devices
      BY <2>1 DEF StartInv
    <3>2. GoOn /\ step \notin UDMABufs
      BY <1>a, <1>b, <2>1, Zenon
    <3> QED
      BY <1>b, <3>1, <3>2, StartInvStep, Zenon
  <2> QED
    BY <1>b, <2>1, StartInvDie DEF Access
<1>4. CASE WriteGpio
  BY <1>4, <1>a, <1>b, Zenon DEF WriteGpio
<1>5. CASE ResetCDMA
  BY <1>5, <1>a, <1>b, Zenon DEF ResetCDMA
<1> QED
  BY <1>1, <1>2, <1>3, <1>4, <1>5, StartInvServe DEF Construct

LEMMA StartInvLaunch ==
  ASSUME StartInv, Launch
  PROVE  StartInv'
<1>1. next' = 1 /\ opened' = {} /\ proc' = "starting" /\ loaded' = (present = Devices)
      /\ present' = present
  BY DEF Launch
<1>2. loaded' => present' = Devices
  BY <1>1, Zenon
<1>3. next' \in 1 .. 12 /\ 1 .. (next' - 1) = {}
  BY <1>1, SMT
<1>4. ServesWhole'
  BY <1>1 DEF ServesWhole
<1> QED
  BY <1>1, <1>2, <1>3, <1>4, Zenon DEF StartInv

LEMMA StartInvNext ==
  ASSUME StartInv, [Next]_vars
  PROVE  StartInv'
<1>1. CASE Appear \/ Construct
  BY <1>1, StartInvAppear, StartInvConstruct
<1>2. CASE Fail
  BY <1>2, StartInvDie DEF Fail
<1>3. CASE Relaunch
  BY <1>3, StartInvLaunch DEF Relaunch
<1>4. CASE Commands
  <2>1. UNCHANGED startupVars
    BY <1>4, Zenon DEF Commands, TempRequest, Config, SetBias
  <2> QED
    BY <2>1, StartInvKept
<1>5. CASE TempStep
  BY <1>5, StartInvKept DEF TempStep, StartConversion, Poll, TempReply
<1>6. CASE \E b \in Buses : Complete(b)
  BY <1>6, StartInvKept DEF Complete
<1>7. CASE UNCHANGED vars
  BY <1>7, StartInvKept DEF vars
<1> QED
  BY <1>1, <1>2, <1>3, <1>4, <1>5, <1>6, <1>7 DEF Next

\* However the firmware brings the devices, a process that serves has both DMA
\* buffers, and everything if all was there when it was started (server.cpp:394-
\* 403, UIO.cpp:10-28, UDMABuf.h:22-117, i2c.h:57-66).
THEOREM ServerIsWhole == Spec => []ServesWhole
<1>1. StartInv => ServesWhole
  BY DEF StartInv
<1>2. StartInv /\ [Next]_vars => StartInv'
  BY StartInvNext
<1> HIDE DEF StartInv, Init, Next, vars, ServesWhole
<1> QED
  BY <1>1, <1>2, StartInvInit, PTL DEF Spec
=============================================================================
