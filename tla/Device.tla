-------------------------------- MODULE Device --------------------------------
(***************************************************************************)
(* The device core (kernel/core/device.c): the boot thread registers       *)
(* drivers and probes, and the thread that has a device registers it and   *)
(* takes it away.  device_lock covers the linking and unlinking of a       *)
(* device alone; a probe walks the lists without it, and the graph node of *)
(* a device is made after it is on the list.                               *)
(***************************************************************************)
EXTENDS Integers, Sequences, SequencesExt, FiniteSets, FiniteSetsExt

CONSTANTS Devices, Drivers,
          Matches     \* pairs of a driver and a device that id_matches accepts

VARIABLES devices, drivers,   \* the lists
          dev,                \* dev[d] : step of its thread, parent, driver bound,
                              \* graph node, and (history) whether bound before that
          walk,               \* the probe: step, device it stands on, driver, and
                              \* (history) who refused that device, and which of
                              \* the devices it set out with it still owes
          refuses             \* the probes that fail at present, by driver and device

deviceVars == <<devices, drivers, dev, walk, refuses>>

Gone   == -1     \* a device or a node that was freed
NoNode == [there |-> FALSE, under |-> 0, driver |-> 0]
Out    == [pc |-> "out", parent |-> 0, driver |-> 0, gnode |-> NoNode, early |-> FALSE]
Still  == [pc |-> "out", d |-> 0, k |-> 0, refused |-> {}, owed |-> {}]

Init == /\ devices = <<>> /\ drivers = <<>> /\ walk = Still
        /\ dev = [d \in Devices |-> Out]
        /\ refuses \in {{}, Matches}
-----------------------------------------------------------------------------
HasNode(d) == d \in Devices /\ dev[d].gnode.there

(* rk_device_create, and the locked part of rk_device_register.            *)
Link(d, parent) ==
  /\ dev[d].pc = "out" /\ parent \in Range(devices) \cup {0}
  /\ devices' = Append(devices, d)
  /\ dev' = [dev EXCEPT ![d] = [Out EXCEPT !.pc = "linked", !.parent = parent]]
  /\ UNCHANGED <<drivers, walk, refuses>>

(* Then the parent's node is looked up: of a parent that was freed, any or *)
(* none.                                                                   *)
FindNode(d) ==
  LET p == dev[d].parent
      found == IF p = Gone THEN {e \in Devices : HasNode(e)} \cup {0} ELSE IF HasNode(p) THEN {p} ELSE {0}
  IN /\ dev[d].pc = "linked"
     /\ \E n \in found : dev' = [dev EXCEPT ![d].pc = "found", ![d].gnode.under = n]
     /\ UNCHANGED <<devices, drivers, walk, refuses>>

(* And the device's own is made below it, if the graph has room, although  *)
(* the parent's may have been destroyed since.                             *)
MakeNode(d) ==
  LET u == dev[d].gnode.under IN
  /\ dev[d].pc = "found"
  /\ \E room \in BOOLEAN :
       dev' = [dev EXCEPT ![d].pc = "in",
                 ![d].gnode = [NoNode EXCEPT !.there = room,
                    !.under = IF ~room THEN 0 ELSE IF u = 0 \/ HasNode(u) THEN u ELSE Gone]]
  /\ UNCHANGED <<devices, drivers, walk, refuses>>

(* rk_device_unregister.  The node's children go to the node above it; the *)
(* device's children keep their pointer.  An unlinked device points at     *)
(* itself, so that a probe that stands on it does not come off.            *)
Unlink(d) == /\ dev[d].pc = "in"
             /\ devices' = SelectSeq(devices, LAMBDA x : x # d)
             /\ dev' = [dev EXCEPT ![d].pc = "unlinked"]
             /\ walk' = IF walk.pc = "ask" /\ walk.d = d THEN [Still EXCEPT !.pc = "lost"]
                        ELSE [walk EXCEPT !.owed = @ \ {d}]
             /\ UNCHANGED <<drivers, refuses>>
Free(d) == /\ dev[d].pc = "unlinked"
           /\ dev' = [e \in Devices |->
                IF e = d THEN Out
                ELSE [dev[e] EXCEPT !.parent = IF @ = d THEN Gone ELSE @,
                        !.gnode.under = IF @ # d THEN @ ELSE IF @ # 0 /\ dev[e].pc = "found" THEN Gone
                                        ELSE dev[d].gnode.under]]
           /\ UNCHANGED <<devices, drivers, walk, refuses>>
-----------------------------------------------------------------------------
(* rk_device_probe_all: each device that is on the list when the walk      *)
(* comes to it is offered to the drivers in order, until one takes it.     *)
After(d) == LET i == IF d = 0 THEN 0 ELSE SelectInSeq(devices, LAMBDA x : x = d)
            IN IF i < Len(devices) THEN devices[i + 1] ELSE 0

Begin == walk' = [Still EXCEPT !.pc = "dev", !.owed = Range(devices)]

(* rk_driver_register: the driver, then a probe.                           *)
RegisterDriver(v) == /\ walk.pc = "out" /\ v \notin Range(drivers)
                     /\ drivers' = Append(drivers, v) /\ Begin
                     /\ UNCHANGED <<devices, dev, refuses>>
ProbeAll == /\ walk.pc = "out" /\ Begin
            /\ UNCHANGED <<devices, drivers, dev, refuses>>

(* To the next device.  The probe owes a device no more when it is bound,  *)
(* or each driver that matches it has refused.                             *)
NextDevice(d, bound) ==
  LET served == d # 0 /\ (bound \/ \A v \in Range(drivers) : <<v, d>> \in Matches => v \in walk.refused)
      w      == [walk EXCEPT !.refused = {}, !.owed = IF served THEN @ \ {d} ELSE @]
  IN walk' = IF After(d) = 0 THEN [w EXCEPT !.pc = "end", !.d = 0, !.k = 0]
             ELSE [w EXCEPT !.pc = "ask", !.d = After(d), !.k = 1]
FirstDevice == /\ walk.pc = "dev" /\ NextDevice(0, FALSE)
               /\ UNCHANGED <<devices, drivers, dev, refuses>>
EndProbe    == /\ walk.pc = "end" /\ walk' = Still
               /\ UNCHANGED <<devices, drivers, dev, refuses>>

(* Mutant: a device that its first match refused is given up.              *)
GivesUp(d, k) == dev[d].driver # 0 \/ k > Len(drivers) \/ \E j \in 1..(k - 1) : <<drivers[j], d>> \in Matches

(* The walk is done with a device: it is bound, or no driver is left.      *)
Passed(d, k) == dev[d].driver # 0 \/ k > Len(drivers)

(* The driver's probe, and what follows if it takes the device.            *)
Ask == LET d == walk.d
           k == walk.k
           yes == k <= Len(drivers) /\ <<drivers[k], d>> \in Matches \ refuses IN
  /\ walk.pc = "ask"
  /\ IF Passed(d, k) THEN NextDevice(d, dev[d].driver # 0) /\ UNCHANGED dev
     ELSE IF ~yes
     THEN walk' = [walk EXCEPT !.k = @ + 1, !.refused = @ \cup {drivers[k]}] /\ UNCHANGED dev
     ELSE /\ NextDevice(d, TRUE)
          /\ dev' = [dev EXCEPT ![d].driver = drivers[k], ![d].early = dev[d].pc # "in",
                                ![d].gnode.driver = IF dev[d].gnode.there THEN drivers[k] ELSE 0]
  /\ UNCHANGED <<devices, drivers, refuses>>

(* The hardware a driver refused comes up, or goes down.                   *)
Change(p) == refuses' = (IF p \in refuses THEN refuses \ {p} ELSE refuses \cup {p})
             /\ UNCHANGED <<devices, drivers, dev, walk>>

Next == \/ \E d \in Devices : \/ FindNode(d) \/ MakeNode(d) \/ Unlink(d) \/ Free(d)
                              \/ \E p \in Devices \cup {0} : Link(d, p)
        \/ \E v \in Drivers : RegisterDriver(v)
        \/ ProbeAll \/ FirstDevice \/ Ask \/ EndProbe
        \/ \E p \in Matches : Change(p)
-----------------------------------------------------------------------------
(* Drivers and devices find each other in any order of registration: a     *)
(* driver registered after enumeration, the comment there says, should     *)
(* still find its devices.  When a probe ends, each device that was there  *)
(* throughout is bound, or was refused in this very probe by each driver   *)
(* that matches it.                                                        *)
ProbeLeavesNone == [][walk.pc = "end" => walk.owed = {}]_deviceVars

(* The graph shows a device while it is there, with its driver unless it   *)
(* was bound before it had a node, and below the node of its parent or of  *)
(* an ancestor, unless that one was on its way out.                        *)
GraphShowsDevices ==
  \A d \in Devices : LET g == dev[d].gnode IN
    /\ g.there => dev[d].pc \in {"in", "unlinked"} /\ (dev[d].early \/ g.driver = dev[d].driver)
    /\ g.there /\ g.under \notin {0, Gone} => HasNode(g.under)

(* Stated, and not kept: the driver of a device is in the graph.           *)
EveryDriverShown == \A d \in Devices : HasNode(d) => dev[d].gnode.driver = dev[d].driver

(* Stated, and not kept: no device on the list has a freed parent, no node *)
(* is made below a freed one, and no probe hangs on a device taken away.   *)
NoDanglingParent == \A d \in Range(devices) : dev[d].parent # Gone
NoDanglingNode   == \A d \in Devices : HasNode(d) => dev[d].gnode.under # Gone
ProbesComeOff    == walk.pc # "lost"
=============================================================================
