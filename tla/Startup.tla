------------------------------ MODULE Startup -------------------------------
(***************************************************************************)
(* The life of the server's process up to the loop of main: constructors   *)
(* that open the devices one after the other (server.cpp:394-403, 20, 179; *)
(* LTC2333.cpp:4-16; UIO.cpp:10-28; UDMABuf.h:22-117; i2c.h:57-66), while  *)
(* the firmware that brings the devices may be loaded at any time          *)
(* ("#After=loadFirmware.service", ita-bpm-daq.service:4), and its restart *)
(* by systemd.                                                             *)
(***************************************************************************)
EXTENDS Naturals, Sequences

CONSTANTS
  Groups   \* the sets of devices that appear together

UIOs     == {"gpio", "cdma", "read", "write", "intc"}
UDMABufs == {"udmabuf0", "udmabuf1"}
Buses    == {"i2c_1", "i2c_2"}
Devices  == UIOs \cup UDMABufs \cup Buses

ASSUME GroupsAssumption == UNION Groups = Devices

VARIABLES
  present,   \* the devices that are there, all their files with them
  proc,      \* "down", "starting" or "serving"
  next,      \* the constructor step to come
  opened,    \* the devices the process has opened and mapped
  loaded     \* history: the process started when all devices were there

startupVars == <<present, proc, next, opened, loaded>>

\* What the constructors do, in order: main opens gpio and writes to it, then
\* LTC2333, in DAQ_Thread, opens and resets its devices, then the buses follow.
\* The control socket is bound after that.
Steps == <<"gpio", "write gpio", "udmabuf0", "cdma", "udmabuf1", "read", "write",
           "intc", "reset cdma", "i2c_1", "i2c_2">>

StartupInit ==
  /\ present \in {{}, Devices}
  /\ proc = "down"
  /\ next = 1
  /\ opened = {}
  /\ loaded = FALSE

Appear ==
  /\ \E g \in Groups : ~ g \subseteq present /\ present' = present \cup g
  /\ UNCHANGED <<proc, next, opened, loaded>>

\* systemd, at boot and after a failure.
Launch ==
  /\ proc = "down"
  /\ proc' = "starting"
  /\ next' = 1
  /\ opened' = {}
  /\ loaded' = (present = Devices)
  /\ UNCHANGED present

Die ==
  /\ proc' = "down"
  /\ UNCHANGED <<present, next, opened, loaded>>

Constructing(d) == proc = "starting" /\ next <= Len(Steps) /\ Steps[next] = d

GoOn == next' = next + 1 /\ UNCHANGED <<present, proc, loaded>>

\* openByInstance_id: a device that is not found is printed; without any, there
\* may be no /sys/class/uio, and the directory iterator throws.
Lookup(d) ==
  IF d \in present THEN {"found"}
  ELSE {"missing"} \cup (IF present \cap UIOs = {} THEN {"throws"} ELSE {})

OpenUIO(d) ==
  /\ Constructing(d)
  /\ \/ "found" \in Lookup(d) /\ opened' = opened \cup {d} /\ GoOn
     \/ "missing" \in Lookup(d) /\ UNCHANGED opened /\ GoOn
     \/ "throws" \in Lookup(d) /\ Die

\* Mutant: a missing buffer is printed only.
OpenUDMABuf_PrintsOnly(d) ==
  /\ Constructing(d)
  /\ opened' = opened \cup ({d} \cap present)
  /\ GoOn

\* Mutant: the test of a descriptor is inverted.
OpenUDMABuf_Inverted(d) ==
  /\ Constructing(d)
  /\ \/ d \notin present /\ UNCHANGED opened /\ GoOn
     \/ d \in present /\ Die

\* UDMABuf::UDMABuf: exit(1) when any of its files cannot be opened.
OpenUDMABuf(d) ==
  /\ Constructing(d)
  /\ \/ d \in present /\ opened' = opened \cup {d} /\ GoOn
     \/ d \notin present /\ Die

\* I2C::I2C: perror, and on with the descriptor -1.
OpenI2C(d) ==
  /\ Constructing(d)
  /\ opened' = opened \cup ({d} \cap present)
  /\ GoOn

\* A register of d is accessed.  Through the uninitialised memptr_ of a device
\* that was not found this faults, or hits some other memory.
Access(d) ==
  \/ UNCHANGED opened /\ GoOn
  \/ d \notin opened /\ Die

WriteGpio == Constructing("write gpio") /\ Access("gpio")

\* reset, then enableSG, which polls isIdle: the engine is idle after a reset,
\* but other memory may read as busy for ever, so that this step need not come.
ResetCDMA == Constructing("reset cdma") /\ Access("cdma")

Serve ==
  /\ proc = "starting" /\ next > Len(Steps)
  /\ proc' = "serving"
  /\ UNCHANGED <<present, next, opened, loaded>>

Construct ==
  \/ \E d \in UIOs : OpenUIO(d)
  \/ \E d \in UDMABufs : OpenUDMABuf(d)
  \/ \E d \in Buses : OpenI2C(d)
  \/ WriteGpio
  \/ ResetCDMA
  \/ Serve

\* The process dies while it serves, of an exception of Server or by a signal.
Fail == proc = "serving" /\ Die

\* The constructors run, but for a poll of memory that is not the engine's.
Runs == Construct /\ (Constructing("reset cdma") => "cdma" \in opened)

-----------------------------------------------------------------------------
\* A process started before the devices were all there may serve without some
\* of them for ever, or poll for ever; the DMA buffers it cannot lack, and one
\* started later lacks nothing (UIO.cpp:15-23, UDMABuf.h:39-49, DMACtrl.h:104).
ServesWhole ==
  proc = "serving" => UDMABufs \subseteq opened /\ (loaded => opened = Devices)

\* Such a one comes up, whatever earlier ones came to (LTC2333.cpp:4-16,
\* ita-bpm-daq.service:11).
ComesUp == (proc = "down" /\ present = Devices) ~> proc = "serving"
=============================================================================
