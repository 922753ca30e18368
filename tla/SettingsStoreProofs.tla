------------------------ MODULE SettingsStoreProofs ------------------------
(***************************************************************************)
(* Proofs about the settings store: the two slots implement one durable    *)
(* cell, and settings that are not dirty are the stored ones, for any      *)
(* settings, delays and numbers of saves, with power lost at any point.    *)
(***************************************************************************)
EXTENDS SettingsStore, TLAPS

(* The slot in use is the one a boot would select, and the other one may be   *)
(* written.  (A fault may end a save whose record is already the newer one;   *)
(* the slots are not written again before the next boot.)                     *)
InUse ==
    ok = 1 /\ device = "ready" /\ op # "verify" =>
        /\ slot = Selected
        /\ slot # 2 => slots[slot].sequence = sequence

(* What the running save has done so far. *)
Saving ==
    /\ op \in {"erase", "program", "verify"} => ok = 1
    /\ op \in {"program", "verify"} => device = "ready"
    /\ op = "program" => slots[Target] = NoRecord
    /\ op = "verify" =>
         /\ slots[Target] \in {NoRecord, Record}
         /\ IF slot = 2 THEN slots[1] = NoRecord
                        ELSE slots[slot] # NoRecord /\ slots[slot].sequence = sequence

Clean == ok = 1 /\ dirty = 0 => Stored = live

(* A boot starts from cleared RAM. *)
Booting == op = "boot" => ok = 0 /\ dirty = 0

IInv == TypeOK /\ InUse /\ Saving /\ Clean /\ Booting

(* A record that is loaded gives settings of the right type. *)
LEMMA StoredType == TypeOK => Selected \in 0..2 /\ Stored \in Payloads
  <1> SUFFICES ASSUME TypeOK PROVE Selected \in 0..2 /\ Stored \in Payloads OBVIOUS
  <1>1. Selected \in 0..2 /\ (Selected # 2 => Selected \in {0, 1} /\ slots[Selected] \in Records)
    BY DEF TypeOK, Selected, Valid
  <1>2. Default \in Payloads
    BY ZeroAssumption DEF Default, Payloads
  <1>3. ASSUME NEW r \in Records PROVE SlotPayload(r) \in Payloads
    BY ZeroAssumption DEF SlotPayload, Records, Payloads
  <1> QED BY <1>1, <1>2, <1>3 DEF Stored

(* The record a save writes, and what a boot makes of it. *)
LEMMA RecordType ==
    TypeOK => Record \in Records /\ Record # NoRecord /\ SlotPayload(Record) = live
  <1> SUFFICES ASSUME TypeOK
               PROVE  Record \in Records /\ Record # NoRecord /\ SlotPayload(Record) = live
    OBVIOUS
  <1>1. Record \in Records
    BY DEF TypeOK, Record, Records, Versions, Current
  <1>2. Record.version = 5 /\ Record.payload = live
    BY DEF Record, Current
  <1>3. SlotPayload(Record) = [p \in Parts |-> live[p]]
    BY <1>2 DEF SlotPayload, Known
  <1>4. live \in [Parts -> Values]
    BY DEF TypeOK, Payloads
  <1> QED BY <1>1, <1>3, <1>4, NoRecordAssumption

(* The initial states satisfy the inductive invariant. *)
LEMMA InitIInv == Init => IInv
  <1> SUFFICES ASSUME Init PROVE IInv OBVIOUS
  <1>1. \A v \in Versions, n \in Nat, p \in Payloads :
          [version |-> v, sequence |-> n, payload |-> p] \in Records
    BY DEF Records
  <1>2. slots \in [{0, 1} -> Records \cup {NoRecord}]
    BY <1>1 DEF Init, InitialSlots
  <1>3. Default \in Payloads
    BY ZeroAssumption DEF Default, Payloads
  <1>4. TypeOK
    BY <1>2, <1>3, DelayAssumption DEF Init, TypeOK
  <1> QED BY <1>4 DEF Init, IInv, InUse, Saving, Clean, Booting

(* Erasing, or spoiling, the slot that is not in use leaves the selection. *)
LEMMA EraseKeeps ==
    ASSUME TypeOK, slot = Selected, slots' = [slots EXCEPT ![Target] = NoRecord]
    PROVE  Selected' = Selected /\ Stored' = Stored
  <1>1. Selected' = Selected
    BY DEF TypeOK, Selected, Valid, Target
  <1>2. Selected # 2 => Selected # Target /\ slots'[Selected] = slots[Selected]
    BY DEF TypeOK, Selected, Valid, Target
  <1> QED BY <1>1, <1>2 DEF Stored

(* A new record becomes the selection, and its settings the stored ones. *)
LEMMA ProgramSelects ==
    ASSUME TypeOK, slot = Selected, slot # 2 => slots[slot].sequence = sequence,
           slots' = [slots EXCEPT ![Target] = Record]
    PROVE  Selected' = Target /\ Stored' = live
  <1>1. Record \in Records /\ Record # NoRecord /\ Record.sequence = sequence + 1
    BY RecordType DEF Record
  <1>2. slots'[Target] = Record /\ Target \in {0, 1} /\ Target # 2
    BY DEF TypeOK, Target
  <1>3. Selected' = Target
    BY <1>1, <1>2 DEF TypeOK, Selected, Valid, Target, Records
  <1> QED BY <1>2, <1>3, RecordType DEF Stored

(* Steps that leave the slots alone leave what is stored. *)
LEMMA SlotsKept ==
    ASSUME UNCHANGED slots PROVE Selected' = Selected /\ Stored' = Stored
  BY DEF Selected, Stored, Valid

(* What a step does to what is stored: nothing, or a save of the settings in *)
(* use.                                                                      *)
LEMMA StoredChanges ==
    IInv /\ [Next]_vars => Stored' = Stored \/ (Stored' = live /\ live' \in {live, Default})
  <1> SUFFICES ASSUME IInv, [Next]_vars, ~UNCHANGED slots
               PROVE  Stored' = Stored \/ (Stored' = live /\ live' \in {live, Default})
    BY SlotsKept
  <1>1. op \in {"erase", "program"} /\ ok = 1 /\ device = "ready"
    BY DEF IInv, Saving, Next, vars, Boot, BootFails, PowerLoss, Change, TickWaits, TickSaves,
           MenuSaves, FlushSaves, SaveNow, SaveStep, Erase, EraseFails, Program,
           ProgramFails, Verify, VerifyFails
  <1>2. slot = Selected /\ (slot # 2 => slots[slot].sequence = sequence)
    BY <1>1 DEF IInv, InUse
  <1>3. \/ slots' = [slots EXCEPT ![Target] = NoRecord]
        \/ slots' = [slots EXCEPT ![Target] = Record] /\ live' \in {live, Default}
    BY DEF Next, vars, Boot, BootFails, PowerLoss, Change, TickWaits, TickSaves,
           MenuSaves, FlushSaves, SaveNow, SaveStep, Erase, EraseFails, Program,
           ProgramFails, Fails, Verify, VerifyFails
  <1> QED BY <1>2, <1>3, EraseKeeps, ProgramSelects DEF IInv

(* Every step preserves the inductive invariant. *)
LEMMA NextIInv == IInv /\ [Next]_vars => IInv'
  <1> SUFFICES ASSUME IInv, [Next]_vars PROVE IInv' OBVIOUS
  <1> USE ZeroAssumption, DelayAssumption, NoRecordAssumption
  <1>s. Selected \in 0..2 /\ Stored \in Payloads
    BY StoredType DEF IInv
  <1>r. Record \in Records /\ Record # NoRecord /\ SlotPayload(Record) = live
        /\ Record.sequence = sequence + 1
    BY RecordType DEF IInv, Record
  <1>d. Default \in Payloads
    BY DEF Default, Payloads
  <1>k. UNCHANGED slots => Selected' = Selected /\ Stored' = Stored
    BY SlotsKept
  <1> USE DEF IInv, TypeOK, InUse, Saving, Clean, Booting
  <1>1. CASE UNCHANGED vars
    BY <1>1, <1>k DEF vars, ram, Target, Record
  <1>2. CASE Boot
    <2>1. Selected # 2 => slots[Selected].sequence \in Nat
      BY DEF Selected, Valid, Records
    <2> QED BY <1>2, <1>s, <1>k, <2>1 DEF Boot
  <1>3. CASE BootFails
    BY <1>3, <1>d DEF BootFails
  <1>4. CASE PowerLoss
    BY <1>4, <1>d, <1>r DEF PowerLoss, Target
  <1>5. ASSUME NEW p \in Payloads, NEW immediate \in BOOLEAN, Change(p, immediate)
        PROVE  IInv'
    BY <1>5, <1>k DEF Change
  <1>6. CASE TickWaits
    BY <1>6, <1>k DEF TickWaits
  <1>7. CASE TickSaves \/ MenuSaves \/ FlushSaves
    BY <1>7, <1>k DEF TickSaves, MenuSaves, FlushSaves, SaveNow
  <1>8. CASE Erase \/ EraseFails
    <2>1. Stored' = Stored
      BY <1>8, <1>k, EraseKeeps DEF Erase, EraseFails
    <2>2. Erase => Selected' = Selected /\ slots'[Target] = NoRecord
                   /\ (slot # 2 => slots'[slot] = slots[slot])
      BY EraseKeeps DEF Erase, Target
    <2> QED BY <1>8, <2>1, <2>2 DEF Erase, EraseFails, Fails, FlashFails, Target
  <1>9. CASE Program
    <2>1. Target \in {0, 1} /\ slot \in 0..2 /\ slot # Target
      BY DEF Target
    <2>2. Stored' = live \/ Stored' = Stored
      BY <1>9, EraseKeeps, ProgramSelects DEF Program
    <2>3. /\ slots' \in [{0, 1} -> Records \cup {NoRecord}]
          /\ slots'[Target] \in {NoRecord, Record}
          /\ \A i \in {0, 1} : i # Target => slots'[i] = slots[i]
      BY <1>9, <1>r, <2>1 DEF Program
    <2>4. IF slot = 2 THEN slots[1] = NoRecord /\ Target = 0
                      ELSE slots[slot] # NoRecord /\ slots[slot].sequence = sequence
      BY <1>9 DEF Program, Selected, Valid, Target
    <2>5. Target' = Target /\ Record' = Record
      BY <1>9 DEF Program, Target, Record
    <2> QED BY <1>9, <2>1, <2>2, <2>3, <2>4, <2>5 DEF Program
  <1>10. CASE ProgramFails
    <2>1. Stored' = live \/ Stored' = Stored
      BY <1>10, <1>k, ProgramSelects DEF ProgramFails
    <2> QED BY <1>10, <1>r, <2>1 DEF ProgramFails, Fails, FlashFails, Target
  <1>11. CASE Verify
    <2>1. Valid(Target) => Selected = Target /\ Stored = live
      <3>1. Valid(Target) => slots[Target] = Record /\ Selected = Target
        BY <1>11, <1>r DEF Verify, Valid, Target, Selected, Records
      <3> QED BY <3>1, <1>r DEF Stored, Target
    <2>2. ~Valid(Target) => Selected = slot
      BY <1>11 DEF Verify, Valid, Target, Selected
    <2> QED BY <1>11, <1>k, <1>r, <2>1, <2>2 DEF Verify, Valid, Target
  <1>12. CASE VerifyFails
    BY <1>12, <1>k DEF VerifyFails, Fails, FlashFails
  <1> QED
    BY <1>1, <1>2, <1>3, <1>4, <1>5, <1>6, <1>7, <1>8, <1>9, <1>10, <1>11, <1>12
    DEF Next, SaveStep

(* Settings that are not dirty are the stored ones, so the power-off that goes *)
(* ahead after settings_storage_flush loses nothing.                           *)
THEOREM CleanSettingsAreStored == Spec => [](TypeOK /\ CleanIsStored)
  <1>1. Spec => []IInv
    BY InitIInv, NextIInv, PTL DEF Spec
  <1>2. IInv => TypeOK /\ CleanIsStored
    BY DEF IInv, Clean, CleanIsStored
  <1> QED BY <1>1, <1>2, PTL

(* The initial states map to initial states of the durable cell. *)
LEMMA InitDurable == Init => Cell!DurableInit
  BY InitIInv, StoredType DEF Init, IInv, Cell!DurableInit

(* Every step maps to a step of the durable cell or to a stutter. *)
LEMMA NextDurable ==
    IInv /\ [Next]_vars =>
        [Cell!Change \/ Cell!Save \/ Cell!Load]_<<Stored, live>>
  <1> SUFFICES ASSUME IInv, [Next]_vars
               PROVE  [Cell!Change \/ Cell!Save \/ Cell!Load]_<<Stored, live>>
    OBVIOUS
  <1>1. live' \in Payloads
    BY NextIInv DEF IInv, TypeOK
  <1>2. Stored' = Stored \/ (Stored' = live /\ live' \in {live, Default})
    BY StoredChanges
  <1> QED BY <1>1, <1>2 DEF Cell!Change, Cell!Save, Cell!Load

(* The two slots, written in turn with a sequence number and read back,       *)
(* implement one durable cell: neither a loss of power nor a failing flash    *)
(* ever makes a boot find anything but the settings saved last or those whose *)
(* save was under way.                                                        *)
THEOREM SlotsImplementCell == Spec => ImplementsDurable
  <1>1. Spec => []IInv
    BY InitIInv, NextIInv, PTL DEF Spec
  <1> QED
    BY <1>1, InitDurable, NextDurable, PTL DEF Spec, ImplementsDurable, Cell!Durable

=============================================================================
