------------------------------- MODULE Clocks -------------------------------
(***************************************************************************)
(* Entering and leaving emulation mode: clocks_emulate and clocks_normal.  *)
(* On Linux (shared/linux/clocks.c) they go over dev_mmap, dev_munmap and  *)
(* dev_smmap (shared/linux/devtree.c), the CPU clock changes through       *)
(* cpufreq, which may refuse, and any mapping may fail.  Without a system  *)
(* (shared/standalone/clocks.c) all are register writes, which the code    *)
(* reads back.  A delay unit is set or clear.                              *)
(***************************************************************************)
EXTENDS Naturals, FiniteSets

CONSTANTS MaxCalls,
          MaxFaults   \* mappings and register writes that fail in one behaviour

VARIABLES build,     \* [os, slots]: the variant of the code, the delay slots it has
          pc,        \* where the call in progress is
          goal,      \* "emul" or "norm": what it sets
          arm, pl0,  \* ACPU_CTRL and PL0_REF_CTRL
          compat,    \* the PLLs have the values the code checks
          delay,     \* delay[d]: the machine delay unit d is set for
          maps,      \* the device pages mapped
          faults, mapFaults, calls

vars == <<build, pc, goal, arm, pl0, compat, delay, maps, faults, mapFaults, calls>>

Units == {"delay0", "delay1", "delay2", "delay3"}
SlotOf(d) == IF d \in {"delay0", "delay1"} THEN 0 ELSE 1
Registers == {"fpd_slcr", "crf_apb", "crl_apb"}

(* dev_mmap of a set of pages: all those that can be mapped are *)
MapAll(pages) ==
    \E failed \in SUBSET pages :
        /\ faults + Cardinality(failed) <= MaxFaults
        /\ faults' = faults + Cardinality(failed)
        /\ maps' = maps \cup (pages \ failed)

-----------------------------------------------------------------------------
(* clocks_emulate() or clocks_normal() maps the three register pages *)
Call(g) ==
    /\ build.os = "linux" /\ pc = "idle" /\ calls < MaxCalls
    /\ calls' = calls + 1 /\ goal' = g
    /\ MapAll(Registers)
    /\ pc' = IF maps' = Registers THEN "switch" ELSE "return"
    /\ mapFaults' = (mapFaults \/ maps' # Registers)
    /\ UNCHANGED <<build, arm, pl0, compat, delay>>

(* mutant: the read-back of the CPU clock is not looked at *)
Switch_NoCheck(governed) ==
    /\ pc = "switch"
    /\ IF goal = "emul" /\ ~compat
       THEN pc' = "return" /\ UNCHANGED <<arm, pl0>>
       ELSE /\ pl0' = goal
            /\ arm' = IF governed THEN goal ELSE arm
            /\ pc' = "slot0"
    /\ UNCHANGED <<build, goal, compat, delay, maps, faults, mapFaults, calls>>

(* Check the PLLs (clocks_emulate only), write the PL clock, ask cpufreq   *)
(* for the CPU clock, and read both back                                   *)
Switch(governed) ==
    /\ pc = "switch"
    /\ IF goal = "emul" /\ ~compat
       THEN pc' = "return" /\ UNCHANGED <<arm, pl0>>
       ELSE /\ pl0' = goal
            /\ arm' = IF governed THEN goal ELSE arm
            /\ pc' = IF arm' = goal THEN "slot0" ELSE "return"
    /\ UNCHANGED <<build, goal, compat, delay, maps, faults, mapFaults, calls>>

(* Both delay units of a slot are mapped and set, or neither is set *)
Slot(here, d1, d2, next) ==
    /\ pc = here
    /\ MapAll({d1, d2})
    /\ delay' = IF {d1, d2} \subseteq maps'
                THEN [delay EXCEPT ![d1] = goal, ![d2] = goal] ELSE delay
    /\ mapFaults' = (mapFaults \/ ~({d1, d2} \subseteq maps'))
    /\ pc' = next
    /\ UNCHANGED <<build, goal, arm, pl0, compat, calls>>

(* dev_munmap of those of the two that were mapped *)
Unmap(here, d1, d2, next) ==
    /\ pc = here
    /\ maps' = maps \ {d1, d2}
    /\ pc' = next
    /\ UNCHANGED <<build, goal, arm, pl0, compat, delay, faults, mapFaults, calls>>

(* ce_return, cn_return *)
Return ==
    /\ pc = "return"
    /\ maps' = maps \ Registers
    /\ pc' = "idle"
    /\ UNCHANGED <<build, goal, arm, pl0, compat, delay, faults, mapFaults, calls>>

(* The call without a system, straight through: check the PLLs (not to go  *)
(* back to normal), unlock, write both clocks, read them back, and set the *)
(* delay units of the slots the design has.  A register may keep its value *)
Bare(os, g, held) ==
    /\ build.os = os /\ pc = "idle" /\ calls < MaxCalls
    /\ calls' = calls + 1 /\ goal' = g
    /\ faults + Cardinality(held) <= MaxFaults
    /\ faults' = faults + Cardinality(held) /\ mapFaults' = (mapFaults \/ held # {})
    /\ IF g = "emul" /\ ~compat
       THEN UNCHANGED <<arm, pl0, delay>>
       ELSE /\ arm' = IF "arm_cc" \in held THEN arm ELSE g
            /\ pl0' = IF "fpga0_cc" \in held THEN pl0 ELSE g
            /\ delay' = [d \in Units |-> IF arm' = g /\ pl0' = g /\ SlotOf(d) \in build.slots
                                         THEN g ELSE delay[d]]
    /\ UNCHANGED <<build, pc, compat, maps>>

clocks_emulate_z7(held) == Bare("z7", "emul", held)
clocks_normal_z7(held) == Bare("z7", "norm", held)
clocks_emulate_zu(held) == Bare("zu", "emul", held)
clocks_normal_zu(held) == Bare("zu", "norm", held)

Init ==
    /\ build \in [os : {"linux"}, slots : {{0, 1}}] \cup [os : {"z7", "zu"}, slots : SUBSET {0, 1}]
    /\ pc = "idle" /\ goal = "norm" /\ arm = "norm" /\ pl0 = "norm"
    /\ compat \in BOOLEAN
    /\ delay = [d \in Units |-> "norm"]
    /\ maps = {} /\ faults = 0 /\ mapFaults = FALSE /\ calls = 0

Next ==
    \/ \E g \in {"emul", "norm"} : Call(g)
    \/ \E governed \in BOOLEAN : Switch(governed)
    \/ Slot("slot0", "delay0", "delay1", "unmap0")
    \/ Unmap("unmap0", "delay0", "delay1", "slot1")
    \/ Slot("slot1", "delay2", "delay3", "unmap1")
    \/ Unmap("unmap1", "delay2", "delay3", "return")
    \/ Return
    \/ \E held \in SUBSET {"arm_cc", "fpga0_cc"} :
          \/ clocks_emulate_z7(held) \/ clocks_normal_z7(held)
          \/ clocks_emulate_zu(held) \/ clocks_normal_zu(held)

Spec == Init /\ [][Next]_vars

-----------------------------------------------------------------------------
(* Between calls nothing stays mapped, whichever mapping or check ended    *)
(* the last call (the goto's of clocks_emulate and clocks_normal).         *)
MapsReturned == pc = "idle" => maps = {}

(* As long as every device could be mapped and written, a delay unit is    *)
(* set for the emulated machine only while the CPU runs at the emulated    *)
(* clock the delay counts are calibrated for, also when cpufreq refuses a  *)
(* change half-way in or out of emulation mode (the read-back of *arm_cc); *)
(* without a system both clocks and all delay units change together.       *)
DelaysMatchClock ==
    pc = "idle" /\ ~mapFaults =>
        /\ \A d \in Units : delay[d] = "emul" => arm = "emul"
        /\ build.os # "linux" => /\ pl0 = arm
                                 /\ \A d \in Units : SlotOf(d) \in build.slots => delay[d] = arm
=============================================================================
