--------------------------- MODULE SettingsStore ---------------------------
(***************************************************************************)
(* The persistent settings (storage/settings_store.c with services/        *)
(* settings_persistence.c): two flash slots written in turn, records with a *)
(* sequence number and a checksum, records of older firmware, and a save    *)
(* that is delayed after a change.  Everything runs on core 0; power may be *)
(* lost between any two flash accesses and inside an erase or a program.    *)
(***************************************************************************)
EXTENDS Naturals

CONSTANTS
    Values,     \* values of one part of the settings
    V3Ids,      \* autostart ids that version 3 had (below SETTINGS_AUTOSTART_V3_COUNT)
    Zero,       \* the value of a part that a record does not hold
    NoRecord,   \* a slot that is erased, torn or of a wrong checksum
    Delay,      \* SETTINGS_SAVE_DELAY_TICKS
    MaxSeq,     \* bound: sequence numbers used
    MaxChanges, \* bound: changes by the user
    Faults      \* what may fail: "flash" (a timeout), "bits" (a bad program)

ASSUME ZeroAssumption == Zero \in Values /\ V3Ids \subseteq Values
ASSUME DelayAssumption == Delay \in Nat \ {0} /\ MaxSeq \in Nat /\ MaxChanges \in Nat

Parts == {"core", "app", "autostart"}
Current == 5
Versions == 1..Current
Payloads == [Parts -> Values]
Records == [version : Versions, sequence : Nat, payload : Payloads]

ASSUME NoRecordAssumption == NoRecord \notin Records

VARIABLES
    slots,      \* flash: the two slots
    device,     \* g_boot_flash_info: "ready", "faulted" or "off"
    live,       \* the settings in use
    dirty, ticks, \* g_settings_dirty, g_settings_save_ticks
    ok,         \* g_settings_storage_ok
    slot,       \* g_settings_storage_slot, 2 for 0xFF
    sequence,   \* g_settings_sequence
    op,         \* the next flash access of the running call
    changes     \* bound: changes so far

ram == <<device, live, dirty, ticks, ok, slot, sequence, op, changes>>
vars == <<slots, ram>>

(* The type of every variable. *)
TypeOK ==
    /\ slots \in [{0, 1} -> Records \cup {NoRecord}]
    /\ device \in {"off", "ready", "faulted"}
    /\ live \in Payloads /\ dirty \in {0, 1} /\ ticks \in 0..Delay
    /\ ok \in {0, 1} /\ slot \in 0..2 /\ sequence \in Nat /\ changes \in Nat
    /\ op \in {"none", "boot", "erase", "program", "verify"}

-----------------------------------------------------------------------------
(* Records *)

(* The parts that a record of each version holds. *)
Known(v) ==
    IF v = 1 THEN {"core"} ELSE IF v = 2 THEN {"core", "app"} ELSE Parts

(* settings_slot_payload: parts that the version does not know are zero, and *)
(* so is an autostart id that version 3 did not have.                        *)
SlotPayload(r) ==
    [p \in Parts |->
        IF /\ p \in Known(r.version)
           /\ p = "autostart" /\ r.version = 3 => r.payload[p] \in V3Ids
          THEN r.payload[p] ELSE Zero]

Valid(i) == slots[i] # NoRecord

(* The slot a boot selects, or 2. *)
Selected ==
    IF Valid(0) /\ Valid(1)
      THEN IF slots[1].sequence > slots[0].sequence THEN 1 ELSE 0
    ELSE IF Valid(0) THEN 0 ELSE IF Valid(1) THEN 1 ELSE 2

Default == [p \in Parts |-> Zero]

(* The settings a boot finds on flash. *)
Stored == IF Selected = 2 THEN Default ELSE SlotPayload(slots[Selected])

(* The slots of a device that was never saved to, or that this or an older *)
(* version of the firmware has saved to once or twice.                     *)
InitialSlots ==
    LET old(v, n, p) == [version |-> v, sequence |-> n, payload |-> p]
    IN  {[i \in {0, 1} |-> NoRecord]} \cup
        {[i \in {0, 1} |-> IF i = 0 THEN old(v, 1, p) ELSE NoRecord] :
            v \in Versions, p \in Payloads} \cup
        {[i \in {0, 1} |-> old(v, i + 1, IF i = 0 THEN p ELSE q)] :
            v \in Versions, p \in Payloads, q \in Payloads}

Init ==
    /\ slots \in InitialSlots
    /\ device = "off" /\ live = Default /\ dirty = 0 /\ ticks = 0
    /\ ok = 0 /\ slot = 2 /\ sequence = 0 /\ op = "boot" /\ changes = 0

-----------------------------------------------------------------------------
(* Booting: settings_storage_init *)

Boot ==
    /\ op = "boot" /\ op' = "none" /\ device' = "ready"
    /\ ok' = 1 /\ live' = Stored /\ slot' = Selected
    /\ sequence' = IF Selected = 2 THEN 0 ELSE slots[Selected].sequence
    /\ UNCHANGED <<slots, dirty, ticks, changes>>

(* The flash does not answer, or a slot cannot be read: defaults, and no saves. *)
BootFails ==
    /\ op = "boot" /\ op' = "none" /\ "flash" \in Faults
    /\ device' \in {"off", "faulted"} /\ live' = Default
    /\ UNCHANGED <<slots, dirty, ticks, ok, slot, sequence, changes>>

-----------------------------------------------------------------------------
(* Changing and saving: settings_persistence.c *)

(* settings_mark_dirty after a change of the settings. *)
Change(p, immediate) ==
    /\ op = "none" /\ changes < MaxChanges /\ changes' = changes + 1
    /\ live' = p /\ dirty' = 1 /\ ticks' = IF immediate THEN 1 ELSE Delay
    /\ UNCHANGED <<slots, device, ok, slot, sequence, op>>

(* Mutant: the countdown stops one short. *)
TickWaitsShort ==
    /\ op = "none" /\ dirty = 1 /\ ticks > 1 /\ ticks' = ticks - 1
    /\ UNCHANGED <<slots, device, live, dirty, ok, slot, sequence, op, changes>>

TickWaits ==
    /\ op = "none" /\ dirty = 1 /\ ticks > 0 /\ ticks' = ticks - 1
    /\ UNCHANGED <<slots, device, live, dirty, ok, slot, sequence, op, changes>>

(* settings_storage_save_now: nothing to save to, or the save begins. *)
SaveNow ==
    \/ /\ ok = 0 /\ dirty' = 0 /\ ticks' = 0
       /\ UNCHANGED <<slots, device, live, ok, slot, sequence, op, changes>>
    \/ /\ ok = 1 /\ sequence < MaxSeq /\ op' = "erase"
       /\ UNCHANGED <<slots, device, live, dirty, ticks, ok, slot, sequence, changes>>

TickSaves == op = "none" /\ dirty = 1 /\ ticks = 0 /\ SaveNow

(* The settings menu saves at every commit of an edit. *)
MenuSaves == op = "none" /\ SaveNow

(* The power-off sequence saves what is dirty. *)
FlushSaves == op = "none" /\ dirty = 1 /\ SaveNow

-----------------------------------------------------------------------------
(* settings_store_save *)

(* Mutant: the slot in use is written over. *)
TargetInUse == IF slot = 2 THEN 0 ELSE slot

Target == IF slot = 0 THEN 1 ELSE 0

Record == [version |-> Current, sequence |-> sequence + 1, payload |-> live]

FlashFails == (device = "faulted" \/ "flash" \in Faults) /\ device' = "faulted"

Fails ==
    /\ FlashFails /\ op' = "none"
    /\ UNCHANGED <<live, dirty, ticks, ok, slot, sequence, changes>>

Erase ==
    /\ op = "erase" /\ device = "ready" /\ op' = "program"
    /\ slots' = [slots EXCEPT ![Target] = NoRecord]
    /\ UNCHANGED <<device, live, dirty, ticks, ok, slot, sequence, changes>>

EraseFails ==
    /\ op = "erase" /\ Fails
    /\ \/ UNCHANGED slots
       \/ device = "ready" /\ slots' = [slots EXCEPT ![Target] = NoRecord]

(* The record is written, or what is written is not the record. *)
Program ==
    /\ op = "program" /\ device = "ready" /\ op' = "verify"
    /\ \/ slots' = [slots EXCEPT ![Target] = Record]
       \/ "bits" \in Faults /\ slots' = [slots EXCEPT ![Target] = NoRecord]
    /\ UNCHANGED <<device, live, dirty, ticks, ok, slot, sequence, changes>>

ProgramFails ==
    /\ op = "program" /\ Fails
    /\ \/ UNCHANGED slots
       \/ slots' = [slots EXCEPT ![Target] = Record]

(* Mutant: a bad record is not noticed. *)
VerifyAlways ==
    /\ op = "verify" /\ device = "ready" /\ op' = "none"
    /\ sequence' = sequence + 1 /\ slot' = Target /\ dirty' = 0 /\ ticks' = 0
    /\ UNCHANGED <<slots, device, live, ok, changes>>

(* The record is read back; when it is not valid the settings stay dirty. *)
Verify ==
    /\ op = "verify" /\ device = "ready" /\ op' = "none"
    /\ IF Valid(Target) /\ slots[Target].sequence = sequence + 1
         THEN sequence' = sequence + 1 /\ slot' = Target /\ dirty' = 0 /\ ticks' = 0
         ELSE UNCHANGED <<sequence, slot, dirty, ticks>>
    /\ UNCHANGED <<slots, device, live, ok, changes>>

VerifyFails == op = "verify" /\ Fails /\ UNCHANGED slots

-----------------------------------------------------------------------------
(* Power is lost; an erase or a program is not begun, torn or finished. *)
PowerLoss ==
    /\ \/ UNCHANGED slots
       \/ op = "erase" /\ device = "ready" /\ slots' = [slots EXCEPT ![Target] = NoRecord]
       \/ op = "program" /\ device = "ready" /\ slots' = [slots EXCEPT ![Target] = Record]
    /\ device' = "off" /\ live' = Default /\ dirty' = 0 /\ ticks' = 0
    /\ ok' = 0 /\ slot' = 2 /\ sequence' = 0 /\ op' = "boot" /\ UNCHANGED changes

SaveStep ==
    \/ Erase \/ EraseFails \/ Program \/ ProgramFails \/ Verify \/ VerifyFails

Next ==
    \/ Boot \/ BootFails \/ PowerLoss
    \/ \E p \in Payloads, immediate \in BOOLEAN : Change(p, immediate)
    \/ TickWaits \/ TickSaves \/ MenuSaves \/ FlushSaves \/ SaveStep

Spec == Init /\ [][Next]_vars

(* The main loop ticks the store in every round, and a call goes on.  A save  *)
(* that does not verify is tried again at the next tick; a flash that goes on *)
(* accepting programs does not corrupt every one of them.                     *)
FairSpec ==
    /\ Spec /\ WF_vars(Boot \/ BootFails)
    /\ WF_vars(TickWaits \/ TickSaves) /\ WF_vars(SaveStep)
    /\ SF_vars(Program /\ Valid(Target)')

-----------------------------------------------------------------------------
(* The settings that survive a loss of power change only by a save, at once,  *)
(* to the settings in use, whatever fails and wherever power is lost: the      *)
(* two slots implement one durable cell.                                       *)
Cell == INSTANCE DurableSettings WITH
    Settings <- Payloads, Default <- Default, stored <- Stored, live <- live

ImplementsDurable == Cell!Durable

(* Settings that are not marked dirty are the ones a boot would find: what     *)
(* settings_storage_flush relies on when it lets the power-off go ahead.       *)
CleanIsStored == ok = 1 /\ dirty = 0 /\ op = "none" => Stored = live

(* A change is saved in the end, unless the flash has failed, the sequence     *)
(* bound is reached, or another change or a loss of power comes first.         *)
ChangeSaved ==
    \A n \in 1..MaxChanges :
        (dirty = 1 /\ changes = n) ~>
            (dirty = 0 \/ changes # n \/ device # "ready" \/ sequence = MaxSeq)

=============================================================================
