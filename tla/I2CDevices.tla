----------------------------- MODULE I2CDevices -----------------------------
(***************************************************************************)
(* The commands "temp" and "bias" of the control thread (server.cpp:340-   *)
(* 391) over the I2C wrapper (i2c.h): two buses, each with one sensor that *)
(* converts two inputs on demand, and one bias DAC.  A failing transaction *)
(* is printed and otherwise ignored, and so are a bus that Startup did not *)
(* open and an address that the driver refuses: the transfer then goes to  *)
(* the device addressed before.  Server has the messages around these      *)
(* steps, and the invalid channel that ends the process.                   *)
(***************************************************************************)
EXTENDS Startup, Integers

CONSTANTS
  Values,   \* results of a conversion, in steps of 2.048 V / 2^17
  Masks,    \* chip masks that clients configure
  Biases    \* biases that clients configure, by bus

ASSUME I2CAssumption ==
  /\ Values # {} /\ Values \subseteq Int
  /\ \A v \in Values : -131072 <= v /\ v < 131072
  /\ Masks \subseteq 0 .. 255 /\ Biases \in [Buses -> SUBSET Nat]

VARIABLES
  chipMask, bias,  \* chipMask_; bias1_ and bias2_, by bus
  pc,              \* where cmd_readTemp is
  asked,           \* the channel it was asked for
  i2c,             \* the bus it has chosen
  k,               \* 1 or 2: the value it reads
  volts,           \* voltage1 and voltage2
  addr,            \* per bus: the device that the descriptor is set to
  sensor,          \* per bus: the input being converted or 0, and the result
  dac,             \* per bus: the bias the DAC puts out, or Unknown
  made,            \* history: conversions completed during this command
  failed,          \* history: how transactions went wrong during it: "read" and
                   \* "write" failed, "astray" reached the wrong device
  given            \* history: per bus, the biases configured so far

settings == <<chipMask, bias, given>>
reading  == <<pc, asked, i2c, k, volts, made, failed>>
devices  == <<addr, sensor, dac>>
vars     == <<startupVars, settings, reading, devices>>

Boot ==
  /\ chipMask' = 255
  /\ bias' = [b \in Buses |-> 0]
  /\ addr' = [b \in Buses |-> "none"]

Init ==
  /\ StartupInit
  /\ chipMask = 255
  /\ bias = [b \in Buses |-> 0]
  /\ given = [b \in Buses |-> {0}]
  /\ pc = "idle" /\ asked = "1" /\ i2c = "i2c_1" /\ k = 1
  /\ volts = [j \in 1 .. 2 |-> 0]
  /\ made = {} /\ failed = {}
  /\ addr = [b \in Buses |-> "none"]
  /\ sensor = [b \in Buses |-> [input |-> 0, value |-> 0, ready |-> FALSE]]
  /\ dac = [b \in Buses |-> 0]

-----------------------------------------------------------------------------
(* The wrapper.                                                            *)

\* setAddress: where the ioctl fails, the descriptor keeps the address it had.
SetAddress(b, dev) == {addr[b]} \cup (IF b \in opened THEN {dev} ELSE {})

\* Whether a transfer on b succeeds: no device has the address of a descriptor
\* that was never set.
Works(b) == IF b \in opened /\ addr'[b] # "none" THEN BOOLEAN ELSE {FALSE}

-----------------------------------------------------------------------------
(* The sensor: an 18-bit converter, its sign repeated in the upper bits of *)
(* the first byte; the upper bit of the fourth is low when a result is new. *)

Bytes(s) ==
  LET word == IF s.value < 0 THEN s.value + 16777216 ELSE s.value
  IN  <<word \div 65536, (word \div 256) % 256, word % 256,
        IF s.ready THEN 0 ELSE 128>>

Complete(b) ==
  /\ sensor[b].input # 0
  /\ \E v \in Values :
       /\ sensor' = [sensor EXCEPT ![b] = [input |-> 0, value |-> v, ready |-> TRUE]]
       /\ made' = IF pc = "idle" THEN made
                  ELSE made \cup {[bus |-> b, input |-> sensor[b].input, value |-> v]}
  /\ UNCHANGED <<startupVars, settings, pc, asked, i2c, k, volts, failed, addr, dac>>

-----------------------------------------------------------------------------
(* cmd_readTemp.                                                           *)

\* The tests are for what the channel is not.
BusOf(chan) == IF chan # "1" THEN "i2c_1" ELSE "i2c_2"

TempRequest(chan) ==
  /\ proc = "serving" /\ pc = "idle"
  /\ pc' = "start"
  /\ asked' = chan
  /\ i2c' = BusOf(chan)
  /\ UNCHANGED <<startupVars, settings, k, volts, made, failed, devices>>

\* The sensor drops the result it has and converts the input.
Converting(input) == [input |-> input, value |-> 0, ready |-> FALSE]

\* What the DAC makes of a command for the sensor is its own affair.
Unknown == -1

\* The write of 0x8c or 0xac starts the conversion of input 1 or 2, if it
\* reaches the sensor.
StartConversion ==
  /\ pc = "start"
  /\ pc' = "poll"
  /\ \E dev \in SetAddress(i2c, "adc") : addr' = [addr EXCEPT ![i2c] = dev]
  /\ \E ok \in Works(i2c) :
       \/ /\ ok /\ addr'[i2c] = "adc"
          /\ sensor' = [sensor EXCEPT ![i2c] = Converting(k)]
          /\ UNCHANGED <<dac, failed>>
       \/ /\ ok /\ addr'[i2c] = "dac"
          /\ dac' = [dac EXCEPT ![i2c] = Unknown]
          /\ failed' = failed \cup {"astray"}
          /\ UNCHANGED sensor
       \/ /\ ~ ok
          /\ failed' = failed \cup {"write"}
          /\ UNCHANGED <<sensor, dac>>
  /\ made' = {c \in made : c.input # k}
  /\ UNCHANGED <<startupVars, settings, asked, i2c, k, volts>>

\* Mutant: the ~Ready bit is not tested.
NotReady_Ignored(r) == FALSE

\* Mutant: its sense is the other one.
NotReady_Inverted(r) == r[4] < 128

NotReady(r) == r[4] >= 128

\* Mutant: the sign is taken from the bit below.
Decode_SignBit(r) ==
  (IF r[1] % 2 = 1 THEN -131072 ELSE 0) + (r[1] % 2) * 65536 + r[2] * 256 + r[3]

\* int((result[0]&0x2 ? 0xfffe0000 : 0) | (result[0]&0x1) << 16 | ...), without
\* the factor to volts.
Decode(r) ==
  (IF (r[1] \div 2) % 2 = 1 THEN -131072 ELSE 0)
    + (r[1] % 2) * 65536 + r[2] * 256 + r[3]

\* What read returns, and how it went wrong: zeroes when it fails, and bytes of
\* any kind from the DAC.
Results(ok) ==
  IF ~ ok THEN {[bytes |-> <<0, 0, 0, 0>>, wrong |-> {"read"}]}
  ELSE IF addr'[i2c] = "adc" THEN {[bytes |-> Bytes(sensor[i2c]), wrong |-> {}]}
  ELSE {[bytes |-> Bytes(s), wrong |-> {"astray"}] :
          s \in [value : Values, ready : BOOLEAN]}

Take(res) ==
  /\ failed' = failed \cup res.wrong
  /\ IF NotReady(res.bytes) THEN UNCHANGED <<pc, k, volts>>
     ELSE /\ volts' = [volts EXCEPT ![k] = Decode(res.bytes)]
          /\ IF k = 1 THEN pc' = "start" /\ k' = 2
                      ELSE pc' = "reply" /\ UNCHANGED k

Poll ==
  /\ pc = "poll"
  /\ \E dev \in SetAddress(i2c, "adc") : addr' = [addr EXCEPT ![i2c] = dev]
  /\ \E ok \in Works(i2c) : \E res \in Results(ok) : Take(res)
  /\ UNCHANGED <<startupVars, settings, asked, i2c, made, sensor, dac>>

\* The handler's variables are gone.
Leave ==
  /\ pc' = "idle" /\ asked' = "1" /\ i2c' = "i2c_1" /\ k' = 1
  /\ volts' = [j \in 1 .. 2 |-> 0]
  /\ made' = {} /\ failed' = {}

TempReply ==
  /\ pc = "reply"
  /\ Leave
  /\ UNCHANGED <<startupVars, settings, devices>>

-----------------------------------------------------------------------------
(* cmd_setBias, and the settings it reads.                                 *)

\* chipMask_ & 0x0f, chipMask_ & 0xf0.
InMask(b) ==
  IF b = "i2c_1" THEN chipMask % 16 # 0 ELSE chipMask \div 16 # 0

\* The keys are optional: what a configuration leaves out keeps its value.
Config ==
  /\ proc = "serving" /\ pc = "idle"
  /\ chipMask' \in Masks \cup {chipMask}
  /\ bias' \in [Buses -> UNION {Biases[b] \cup {bias[b]} : b \in Buses}]
  /\ \A b \in Buses : bias'[b] \in Biases[b] \cup {bias[b]}
  /\ given' = [b \in Buses |-> given[b] \cup {bias'[b]}]
  /\ UNCHANGED <<startupVars, reading, devices>>

\* Mutant: the upper byte is forgotten.
LowBits_Byte(v) == v % 256

\* uint8_t(0xff & bias), uint8_t(0x3 & (bias >> 8)).
LowBits(v) == (v % 256) + 256 * ((v \div 256) % 4)

\* What three bytes for the DAC leave the sensor with: the command it takes
\* them for may start a conversion.
Disturbed(b) == {sensor[b], Converting(1), Converting(2)}

\* The writes to the DACs of the buses in the mask, any of which may fail.
SetBias ==
  /\ proc = "serving" /\ pc = "idle"
  /\ addr' \in [Buses -> {"none", "adc", "dac"}]
  /\ \A b \in Buses :
       addr'[b] \in IF InMask(b) THEN SetAddress(b, "dac") ELSE {addr[b]}
  /\ \E ok \in [Buses -> BOOLEAN] :
       LET Reaches(b, dev) == InMask(b) /\ ok[b] /\ addr'[b] = dev
       IN  /\ \A b \in Buses : ok[b] \in Works(b)
           /\ dac' = [b \in Buses |->
                        IF Reaches(b, "dac") THEN LowBits(bias[b]) ELSE dac[b]]
           /\ sensor' \in [Buses -> UNION {Disturbed(b) : b \in Buses}]
           /\ \A b \in Buses :
                sensor'[b] \in IF Reaches(b, "adc") THEN Disturbed(b) ELSE {sensor[b]}
  /\ UNCHANGED <<startupVars, settings, reading>>

-----------------------------------------------------------------------------
Quiet == UNCHANGED <<settings, reading, devices>>

\* A new process has the constructor's settings; the devices keep theirs.
Relaunch ==
  /\ Launch
  /\ Boot
  /\ UNCHANGED <<reading, given, sensor, dac>>

Commands ==
  \/ \E chan \in {"1", "2"} : TempRequest(chan)
  \/ Config
  \/ SetBias

TempStep == StartConversion \/ Poll \/ TempReply

Next ==
  \/ (Appear \/ Construct) /\ Quiet
  \/ Fail /\ Leave /\ UNCHANGED <<settings, devices>>
  \/ Relaunch
  \/ Commands
  \/ TempStep
  \/ \E b \in Buses : Complete(b)

\* systemd starts the process, it is scheduled, and a conversion that was
\* started completes.
Spec ==
  /\ Init /\ [][Next]_vars
  /\ WF_vars(Relaunch) /\ WF_vars(Runs /\ Quiet) /\ WF_vars(TempStep)
  /\ \A b \in Buses : WF_vars(Complete(b))

-----------------------------------------------------------------------------
(* Properties.                                                             *)

Channels == {"1", "2"}

\* "read first value", "read second value" (server.cpp:354-375): unless a
\* transaction went wrong, what is replied is one completed conversion of each
\* input, in order, both made for this command by the sensor of its channel,
\* also where a bias written before has gone to the sensor.
ReplyIsConverted ==
  pc = "reply" /\ failed = {} =>
    /\ \A j \in 1 .. 2 : [bus |-> i2c, input |-> j, value |-> volts[j]] \in made
    /\ i2c = BusOf(asked)

\* Where nothing but reads failed, which are zeroes then (i2c.h:32-43), a
\* voltage other than zero comes from the sensor all the same.
FailuresAreZero ==
  pc = "reply" /\ failed \subseteq {"read"} =>
    \A j \in 1 .. 2 : \/ volts[j] = 0
                      \/ [bus |-> i2c, input |-> j, value |-> volts[j]] \in made

\* The DAC of a bus puts out the lower ten bits of a bias that was configured
\* for it, never of the other one, whatever transfers fail or go astray
\* (server.cpp:385-386); a command for the sensor that comes to the DAC makes
\* an exception, until the next bias that reaches it (i2c.h:46-55, 68-75).
DacHoldsBias ==
  \A b \in Buses : dac[b] # Unknown => \E v \in given[b] : dac[b] = v % 1024

\* The loops that wait for the sensor have no bound (server.cpp:359-373); they
\* end, even when reads fail, unless the conversion was never started or the
\* DAC is read in the sensor's place.
TempEnds == pc # "idle" ~> (pc = "idle" \/ ~ failed \subseteq {"read"})
=============================================================================
