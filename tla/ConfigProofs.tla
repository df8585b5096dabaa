---------------------------- MODULE ConfigProofs ----------------------------
(***************************************************************************)
(* Proofs about Config, for every set of values and of commands.           *)
(***************************************************************************)
EXTENDS Config, TLAPS

HostField == {"rh1", "rh"}

\* Outside the fields being saved, everything follows the EEPROM.
Follows ==
  pc = "put" =>
    /\ \A f \in Field \ Saved(command) : dev[f] = eeprom[f]
    /\ \A f \in Field \ (Saved(command) \cup HostField) : ram[f] = eeprom[f]
    /\ \A f \in NetField \ Saved(command) : chip[f] = eeprom[f]

\* The fields EEPROM.put has passed are written.
Written == pc = "put" => \A i \in Positions : i < pos => eeprom[Order[i]] = dev[Order[i]]

\* What is written, or is there to be written, is no erased address.
NotErased ==
  /\ pc = "put" => dev["ip1"] # Blank
  /\ pc = "running" => eeprom["ip1"] # Blank

IInv == TypeOK /\ InStep /\ Follows /\ Written /\ NotErased

-----------------------------------------------------------------------------
\* The structure and the commands.

LEMMA FieldNames ==
  /\ Field = {"no", "ip1", "ip", "sm", "gw", "dns", "mac", "rh1", "rh", "rhport"}
  /\ \A i \in Positions : Order[i] \in Field
  /\ Order[2] = "ip1"
<1>1. \A i \in Positions : i = 1 \/ i = 2 \/ i = 3 \/ i = 4 \/ i = 5 \/ i = 6
                             \/ i = 7 \/ i = 8 \/ i = 9 \/ i = 10
  BY DEF Positions
<1>2. {1, 2, 3, 4, 5, 6, 7, 8, 9, 10} \subseteq Positions
  BY DEF Positions
<1>3. QED
  BY <1>1, <1>2 DEF Field, Order

LEMMA SavedFields ==
  \A c \in Commands \cup {"BOOT"} :
    /\ Saved(c) \subseteq Field
    /\ Reconfigures(c) \/ Saved(c) \cap NetField = {}
    /\ c = "RH" => Saved(c) = HostField
BY ConfigAssumption, FieldNames DEF Saved, Reconfigures, NetField, HostField

LEMMA NetFields == NetField \subseteq Field \ HostField
BY FieldNames DEF NetField, HostField

LEMMA AcceptsValue == \A c : Accepts(c) \subseteq Value
BY ConfigAssumption DEF Accepts

\* The byte that tells an erased EEPROM is only saved with a checked address.
LEMMA AddressChecked ==
  \A c \in Commands : "ip1" \in Saved(c) => Blank \notin Accepts(c)
BY ConfigAssumption DEF Saved, Accepts

-----------------------------------------------------------------------------
\* The inductive invariant.

LEMMA InitInv == Init => IInv
BY ConfigAssumption, NetFields
   DEF Init, IInv, TypeOK, InStep, Follows, Written, NotErased, Defaults

LEMMA EditedType ==
  ASSUME TypeOK, NEW c \in Commands, NEW data \in [Saved(c) -> Accepts(c)]
  PROVE  Edited(c, data) \in [Field -> Value]
<1>1. ASSUME NEW f \in Field, f \in Saved(c)
      PROVE  data[f] \in Value
  BY <1>1, AcceptsValue
<1> QED
  BY <1>1 DEF TypeOK, Edited

LEMMA AppliedType ==
  ASSUME TypeOK, NEW c
  PROVE  Applied(c) \in [Field -> Value]
BY FieldNames DEF TypeOK, Applied

LEMMA InterruptedType ==
  ASSUME TypeOK, NEW f \in Field
  PROVE  Interrupted(f) \subseteq Value
BY ConfigAssumption DEF TypeOK, Interrupted

LEMMA StepType == TypeOK /\ [Next]_vars => TypeOK'
<1> SUFFICES ASSUME TypeOK, [Next]_vars
             PROVE  TypeOK'
  OBVIOUS
<1> USE ConfigAssumption, FieldNames, NetFields DEF TypeOK
<1>1. CASE Boot
  BY <1>1 DEF Boot, OnChip
<1>2. CASE FirstBoot
  BY <1>2 DEF FirstBoot, Defaults
<1>3. CASE Put
  BY <1>3 DEF Put, Positions
<1>4. CASE PutDone
  <2>1. ram' \in [Field -> Value]
    BY <1>4, AppliedType DEF PutDone
  <2>2. OnChip(ram') \in [NetField -> Value]
    BY <2>1 DEF OnChip
  <2> QED
    BY <1>4, <2>1, <2>2 DEF PutDone
<1>5. CASE Crash
  <2>1. eeprom' \in [Field -> Value]
    BY <1>5, InterruptedType DEF Crash
  <2> QED
    BY <1>5, <2>1 DEF Crash
<1>6. CASE ReadBack
  BY <1>6 DEF ReadBack
<1>7. ASSUME NEW c \in Commands, Save(c)
      PROVE  TypeOK'
  <2>1. dev' \in [Field -> Value]
    BY <1>7, EditedType DEF Save
  <2> QED
    BY <1>7, <2>1 DEF Save
<1>8. CASE UNCHANGED vars
  BY <1>8 DEF vars
<1> QED
  BY <1>1, <1>2, <1>3, <1>4, <1>5, <1>6, <1>7, <1>8 DEF Next

\* Once EEPROM.put is over, the rest of the save brings the board in step.
LEMMA PutDoneInStep == IInv /\ PutDone => InStep'
<1> SUFFICES ASSUME IInv, PutDone
             PROVE  InStep'
  OBVIOUS
<1> USE DEF IInv, TypeOK
<1>1. pc = "put" /\ command \in Commands \cup {"BOOT"}
  BY DEF PutDone
<1>2. \A f \in Field \ HostField : ram'[f] = eeprom[f]
  <2>1. CASE command = "RH"
    BY <1>1, <2>1, SavedFields DEF PutDone, Applied, Follows, HostField
  <2>2. CASE command # "RH"
    BY <1>1, <2>2 DEF PutDone, Applied, Follows
  <2> QED
    BY <2>1, <2>2
<1>3. \A f \in NetField : chip'[f] = eeprom[f]
  <2>1. CASE Reconfigures(command)
    BY <1>2, <2>1, NetFields DEF PutDone, OnChip
  <2>2. CASE ~Reconfigures(command)
    BY <1>1, <2>2, SavedFields DEF PutDone, Follows
  <2> QED
    BY <2>1, <2>2
<1> QED
  BY <1>2, <1>3 DEF PutDone, InStep, HostField

LEMMA StepInv == IInv /\ [Next]_vars => IInv'
<1> SUFFICES ASSUME IInv, [Next]_vars
             PROVE  IInv'
  OBVIOUS
<1> USE DEF IInv
<1>0. TypeOK'
  BY StepType
<1>1. CASE Boot
  BY <1>0, <1>1, NetFields
     DEF TypeOK, Boot, OnChip, InStep, Follows, Written, NotErased
<1>2. CASE FirstBoot
  <2>1. command' = "BOOT" /\ Saved(command') = Field
    BY <1>2 DEF FirstBoot, Saved
  <2>2. dev'["ip1"] # Blank
    BY <1>2, ConfigAssumption, FieldNames DEF FirstBoot, Defaults
  <2> QED
    BY <1>0, <1>2, <2>1, <2>2, NetFields
       DEF FirstBoot, InStep, Follows, Written, NotErased, Positions
<1>3. CASE Put
  <2>1. Order[pos] \in Field /\ pos \in Nat
    BY <1>3, FieldNames DEF Put, Positions
  <2>2. \A f \in Field : eeprom'[f] = IF f = Order[pos] THEN dev[f] ELSE eeprom[f]
    BY <1>3, <2>1 DEF Put, TypeOK
  <2>3. Order[pos] \notin Saved(command) => eeprom' = eeprom
    BY <1>3, <2>1 DEF Put, TypeOK, Follows
  <2>4. Follows'
    BY <1>3, <2>1, <2>2, <2>3, NetFields DEF Put, Follows
  <2>5. Written'
    <3> SUFFICES ASSUME NEW i \in Positions, i < pos + 1
                 PROVE  eeprom'[Order[i]] = dev[Order[i]]
      BY <1>3 DEF Put, Written
    <3>1. i < pos \/ i = pos
      BY <2>1 DEF Positions
    <3> QED
      BY <1>3, <2>2, <3>1, FieldNames DEF Put, Written
  <2> QED
    BY <1>0, <1>3, <2>4, <2>5 DEF Put, InStep, NotErased
<1>4. CASE PutDone
  <2>1. InStep'
    BY <1>4, PutDoneInStep
  <2>2. eeprom["ip1"] # Blank
    <3>1. 2 \in Positions /\ 2 < pos
      BY <1>4 DEF PutDone, TypeOK, Positions
    <3> QED
      BY <1>4, <3>1, FieldNames DEF PutDone, Written, NotErased
  <2> QED
    BY <1>0, <1>4, <2>1, <2>2 DEF PutDone, Follows, Written, NotErased
<1>5. CASE Crash
  BY <1>0, <1>5 DEF Crash, InStep, Follows, Written, NotErased
<1>6. CASE ReadBack
  BY <1>0, <1>6 DEF ReadBack, InStep, Follows, Written, NotErased
<1>7. ASSUME NEW c \in Commands, Save(c)
      PROVE  IInv'
  <2>1. PICK data \in [Saved(c) -> Accepts(c)] : dev' = Edited(c, data)
    BY <1>7 DEF Save
  <2>2. \A f \in Field \ Saved(c) : dev'[f] = eeprom[f]
    BY <1>7, <2>1 DEF Edited, Save, InStep
  <2>3. dev'["ip1"] # Blank
    <3>1. CASE "ip1" \in Saved(c)
      BY <2>1, <3>1, AddressChecked, FieldNames DEF Edited
    <3>2. CASE "ip1" \notin Saved(c)
      BY <1>7, <2>2, <3>2, FieldNames DEF Save, NotErased
    <3> QED
      BY <3>1, <3>2
  <2>4. Follows'
    BY <1>7, <2>2 DEF Save, InStep, Follows, HostField
  <2> QED
    BY <1>0, <1>7, <2>3, <2>4 DEF Save, InStep, Written, NotErased, Positions
<1>8. CASE UNCHANGED vars
  BY <1>0, <1>8 DEF vars, InStep, Follows, Written, NotErased
<1> QED
  BY <1>1, <1>2, <1>3, <1>4, <1>5, <1>6, <1>7, <1>8 DEF Next

LEMMA Invariance == Spec => []IInv
BY InitInv, StepInv, PTL DEF Spec

-----------------------------------------------------------------------------
\* Theorems.

\* The settings keep their types: every save, power failure and boot leaves
\* all fields in all four copies.
THEOREM TypeCorrect == Spec => []TypeOK
BY Invariance, PTL DEF IInv

\* While loop() runs, the EEPROM, myDeviceObject, the variables and the chip
\* agree on every field but the host address.
THEOREM SettingsInStep == Spec => []InStep
BY Invariance, PTL DEF IInv

\* EEPROM.put writes the whole structure, yet changes only fields of the
\* command being saved, even when the power fails.
THEOREM SaveTouchesItsOwn == Spec => OthersUntouched
<1>1. IInv /\ [Next]_vars =>
        [\A f \in Field : eeprom'[f] # eeprom[f] => f \in Saved(command)]_vars
  <2> SUFFICES ASSUME IInv, [Next]_vars,
                      NEW f \in Field, eeprom'[f] # eeprom[f]
               PROVE  f \in Saved(command)
    OBVIOUS
  <2> USE FieldNames DEF IInv, TypeOK
  <2>1. CASE Put
    BY <2>1 DEF Put, Follows
  <2>2. CASE Crash
    BY <2>2 DEF Crash, Interrupted, Follows
  <2>3. ~Put /\ ~Crash => UNCHANGED eeprom
    BY DEF Next, Boot, FirstBoot, PutDone, ReadBack, Save, vars
  <2> QED
    BY <2>1, <2>2, <2>3
<1> QED
  BY <1>1, Invariance, PTL DEF Spec, OthersUntouched

\* A board that was set up once never takes its EEPROM for an erased one
\* again.
THEOREM SetUpOnce == Spec => NeverFactoryAgain
<1>1. IInv /\ [Next]_vars =>
        [eeprom["ip1"] # Blank => eeprom'["ip1"] # Blank]_vars
  <2> SUFFICES ASSUME IInv, [Next]_vars, eeprom["ip1"] # Blank
               PROVE  eeprom'["ip1"] # Blank
    OBVIOUS
  <2> USE FieldNames DEF IInv, TypeOK, NotErased
  <2>1. CASE Put
    BY <2>1 DEF Put
  <2>2. CASE Crash
    BY <2>2 DEF Crash, Interrupted, OneByte
  <2>3. ~Put /\ ~Crash => UNCHANGED eeprom
    BY DEF Next, Boot, FirstBoot, PutDone, ReadBack, Save, vars
  <2> QED
    BY <2>1, <2>2, <2>3
<1> QED
  BY <1>1, Invariance, PTL DEF Spec, NeverFactoryAgain
=============================================================================
