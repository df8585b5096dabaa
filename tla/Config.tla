------------------------------- MODULE Config -------------------------------
(***************************************************************************)
(* The settings of the board: the copy in the EEPROM, the structure        *)
(* myDeviceObject the sketch edits and writes back, the variables NO, IP,  *)
(* SM, ... the sketch works with, and the registers of the Ethernet chip.  *)
(* EEPROM.put writes the structure byte by byte in the order of its fields,*)
(* changed bytes only, and the power may fail between any two bytes; a byte *)
(* is assumed to be either the old or the new one.                         *)
(***************************************************************************)
EXTENDS Naturals

CONSTANTS
  Value,      \* contents of a field, Blank, Default and Torn among them
  Blank,      \* the bytes of an erased EEPROM, 255 each
  Default,    \* the value in the sketch
  Torn,       \* some bytes of one value and some of another
  Numbers,    \* values NO, MC, SM and RP may be given: 255 is allowed
  Commands    \* the commands the host sends

ASSUME ConfigAssumption ==
  /\ Blank \in Value /\ Default \in Value /\ Torn \in Value
  /\ Blank # Default /\ Torn # Blank /\ Torn # Default
  /\ Numbers \subseteq Value \ {Torn}
  /\ Commands \subseteq {"NO", "MC", "LI", "SM", "GW", "DS", "RH", "RP"}

\* The structure in the order of its addresses.  ip1, the byte that tells an
\* erased EEPROM, and rh1 stand apart from the other three of their addresses.
Order == <<"no", "ip1", "ip", "sm", "gw", "dns", "mac", "rh1", "rh", "rhport">>
Positions == 1 .. 10
Field == {Order[i] : i \in Positions}

\* Fields of one byte, which cannot be torn.
OneByte == {"ip1", "rh1"}

\* What Ethernet.begin writes to the chip.
NetField == {"mac", "ip1", "ip", "dns", "gw", "sm"}

\* The fields a command saves; at first boot all of them.
Saved(c) ==
  CASE c = "NO" -> {"no"}
    [] c = "MC" -> {"mac"}
    [] c = "LI" -> {"ip1", "ip"}
    [] c = "SM" -> {"sm"}
    [] c = "GW" -> {"gw"}
    [] c = "DS" -> {"dns"}
    [] c = "RH" -> {"rh1", "rh"}
    [] c = "RP" -> {"rhport"}
    [] OTHER -> Field

\* Numbers are taken as they come; each byte of an address but the mask is
\* checked to be 1 to 254.
AcceptsAny(c) == Value \ {Torn}
Accepts(c) == IF c \in {"NO", "MC", "SM", "RP"} THEN Numbers ELSE Value \ {Blank, Torn}

VARIABLES
  pc,        \* "off", "put" (in EEPROM.put) or "running" (in loop())
  pos,       \* position of the next field EEPROM.put writes
  command,   \* the command being saved, "BOOT" at first boot
  eeprom,
  dev,       \* myDeviceObject
  ram,       \* NO, MAC, IP, SM, GW, DNS, HostIP and HostPort
  chip       \* registers of the chip, and the DNS address of the library

vars == <<pc, pos, command, eeprom, dev, ram, chip>>

TypeOK ==
  /\ pc \in {"off", "put", "running"}
  /\ pos \in 1 .. 11
  /\ command \in Commands \cup {"BOOT"}
  /\ eeprom \in [Field -> Value]
  /\ dev \in [Field -> Value]
  /\ ram \in [Field -> Value]
  /\ chip \in [NetField -> Value]

Defaults == [f \in Field |-> Default]

\* A new board: the EEPROM is erased.
Init ==
  /\ pc = "off"
  /\ pos = 1
  /\ command = "BOOT"
  /\ eeprom = [f \in Field |-> Blank]
  /\ dev = [f \in Field |-> Blank]
  /\ ram = Defaults
  /\ chip = [f \in NetField |-> Blank]

OnChip(r) == [f \in NetField |-> r[f]]

\* setup() finds settings: EEPROM_Init and Ethernet.begin.
Boot ==
  /\ pc = "off"
  /\ eeprom["ip1"] # Blank
  /\ pc' = "running"
  /\ dev' = eeprom
  /\ ram' = eeprom
  /\ chip' = OnChip(ram')
  /\ UNCHANGED <<pos, command, eeprom>>

\* setup() finds an erased EEPROM: EEPROM_Init up to EEPROM.put.
FirstBoot ==
  /\ pc = "off"
  /\ eeprom["ip1"] = Blank
  /\ pc' = "put"
  /\ pos' = 1
  /\ command' = "BOOT"
  /\ dev' = Defaults
  /\ ram' = Defaults
  /\ UNCHANGED <<eeprom, chip>>

\* myDeviceObject with the fields of command c set to data.
EditedFromRam(c, data) == [f \in Field |-> IF f \in Saved(c) THEN data[f] ELSE ram[f]]
Edited(c, data) == [f \in Field |-> IF f \in Saved(c) THEN data[f] ELSE dev[f]]

\* A save command with valid data: the save functions up to EEPROM.put.
Save(c) ==
  /\ pc = "running"
  /\ pc' = "put"
  /\ pos' = 1
  /\ command' = c
  /\ \E data \in [Saved(c) -> Accepts(c)] : dev' = Edited(c, data)
  /\ UNCHANGED <<eeprom, ram, chip>>

\* EEPROM.put writes one field.
Put ==
  /\ pc = "put"
  /\ pos \in Positions
  /\ pos' = pos + 1
  /\ eeprom' = [eeprom EXCEPT ![Order[pos]] = dev[Order[pos]]]
  /\ UNCHANGED <<pc, command, dev, ram, chip>>

\* The variables after a save: saveRemoteHostIP sets HostIP to the board's own
\* address, every other save sets what it saved.
AppliedNothing(c) == ram
Applied(c) ==
  IF c = "RH"
  THEN [ram EXCEPT !["rh1"] = eeprom["ip1"], !["rh"] = eeprom["ip"]]
  ELSE [f \in Field |-> IF f \in Saved(c) THEN eeprom[f] ELSE ram[f]]

\* The saves that end in Ethernet.begin, and setup().
Reconfigures(c) == c \in {"MC", "LI", "SM", "GW", "DS", "BOOT"}

\* EEPROM.get, and the rest of the save function or of setup().
PutDone ==
  /\ pc = "put"
  /\ pos \notin Positions
  /\ pc' = "running"
  /\ dev' = eeprom
  /\ ram' = Applied(command)
  /\ chip' = IF Reconfigures(command) THEN OnChip(ram') ELSE chip
  /\ UNCHANGED <<pos, command, eeprom>>

\* What a power failure may leave of the field EEPROM.put is at.
Interrupted(f) ==
  {eeprom[f], dev[f]} \cup
    (IF eeprom[f] # dev[f] /\ f \notin OneByte THEN {Torn} ELSE {})

\* The power fails.  Nothing reads dev, ram or chip before Boot sets them.
Crash ==
  /\ pc # "off"
  /\ pc' = "off"
  /\ \/ /\ pc = "put"
        /\ pos \in Positions
        /\ \E v \in Interrupted(Order[pos]) : eeprom' = [eeprom EXCEPT ![Order[pos]] = v]
     \/ /\ pc = "running" \/ pos \notin Positions
        /\ UNCHANGED eeprom
  /\ UNCHANGED <<pos, command, dev, ram, chip>>

\* GETDEVICEINFO: makeReplyBroadcast reads the EEPROM.
ReadBack ==
  /\ pc = "running"
  /\ dev' = eeprom
  /\ UNCHANGED <<pc, pos, command, eeprom, ram, chip>>

Next ==
  \/ Boot \/ FirstBoot \/ Put \/ PutDone \/ Crash \/ ReadBack
  \/ \E c \in Commands : Save(c)

Spec == Init /\ [][Next]_vars

-----------------------------------------------------------------------------
\* Properties.

\* While loop() runs, the EEPROM, myDeviceObject, the variables and the chip
\* agree on every field but the host address, through any sequence of saves,
\* power failures and boots.
InStep ==
  pc = "running" =>
    /\ dev = eeprom
    /\ \A f \in Field \ {"rh1", "rh"} : ram[f] = eeprom[f]
    /\ \A f \in NetField : chip[f] = eeprom[f]

\* No step, and no power failure in the middle of EEPROM.put, changes a field
\* that the command being saved does not save.
OthersUntouched ==
  [][\A f \in Field : eeprom'[f] # eeprom[f] => f \in Saved(command)]_vars

\* A board that was set up once never takes its EEPROM for an erased one
\* again: no save and no power failure gives it the defaults back.
NeverFactoryAgain ==
  [][eeprom["ip1"] # Blank => eeprom'["ip1"] # Blank]_vars
=============================================================================
