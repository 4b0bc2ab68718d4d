------------------------ MODULE MegaCommissioningProofs ------------------------
(***************************************************************************)
(* Theorems about MegaCommissioning, for every number of stations, range   *)
(* of addresses and size of a byte.                                        *)
(*                                                                         *)
(* Image(config) is what a completed save of config leaves in the EEPROM.  *)
(* The strengthening says how far a save in progress has come, and what a  *)
(* completed one has left; that load() inverts Image for a valid config is *)
(* a lemma of its own, station by station, because a save that was cut off *)
(* leaves the bytes of two configurations.                                 *)
(***************************************************************************)
EXTENDS MegaCommissioning, TLAPS

Image(config) == [o \in Offsets |-> ImageByte(config, o)]

(***************************************************************************)
(* Splitting a number into a low and a high byte and reading it back.      *)
(***************************************************************************)
LEMMA LowByte ==
    ASSUME NEW B \in Nat \ {0}, NEW a \in Nat
    PROVE  a % B \in 0 .. B - 1
  BY SMT

LEMMA TwoBytes ==
    ASSUME NEW B \in Nat \ {0}, NEW a \in Nat
    PROVE  /\ a \div B \in Nat
           /\ a = (a % B) + B * (a \div B)
<1>1. a \div B \in Nat
  BY SMT
<1>2. a = (a % B) + B * (a \div B)
  BY SMT
<1> QED
  BY <1>1, <1>2

LEMMA HighByte ==
    ASSUME NEW B \in Nat \ {0}, NEW a \in Nat, NEW h \in Nat, a < h * B
    PROVE  a \div B < h
  BY SMT

(***************************************************************************)
(* The offsets of station s are those that are computed back to it.        *)
(***************************************************************************)
LEMMA StationOffsets ==
    ASSUME NEW s \in Stations, NEW field \in 0 .. 2
    PROVE  /\ AddressOffset(s) + field \in Offsets
           /\ AddressOffset(s) + field >= ConfigOffset
           /\ 1 + ((AddressOffset(s) + field) - ConfigOffset) \div StationSize = s
           /\ ((AddressOffset(s) + field) - ConfigOffset) % StationSize = field
  BY CommissioningAssumption, SMT
     DEF Stations, AddressOffset, Offsets, ImageSize, ConfigOffset, StationSize

LEMMA OffsetStation ==
    ASSUME NEW o \in Offsets, o >= ConfigOffset
    PROVE  1 + (o - ConfigOffset) \div StationSize \in Stations
  BY CommissioningAssumption, SMT
     DEF Offsets, ImageSize, ConfigOffset, StationSize, Stations

LEMMA AddressBytes ==
    ASSUME NEW a \in 1 .. MaxAddress
    PROVE  /\ a % Base \in Bytes
           /\ a \div Base \in 0 .. (Base \div 2) - 1
           /\ a \div Base \in Bytes
           /\ Word(a % Base, a \div Base) = a
<1>1. Base \in Nat \ {0} /\ a \in Nat /\ Base \div 2 \in Nat
  BY CommissioningAssumption, SMT
<1>2. a < (Base \div 2) * Base
  BY CommissioningAssumption, SMT
<1>3. a % Base \in 0 .. Base - 1
  BY <1>1, LowByte
<1>4. a \div Base \in Nat /\ a = (a % Base) + Base * (a \div Base)
  BY <1>1, TwoBytes
<1>5. a \div Base < Base \div 2
  BY <1>1, <1>2, HighByte
<1>6. a \div Base \in 0 .. (Base \div 2) - 1
  BY <1>1, <1>4, <1>5
<1>7. a \div Base \in Bytes
  BY <1>1, <1>6, SMT DEF Bytes
<1> QED
  BY <1>3, <1>4, <1>5, <1>6, <1>7 DEF Bytes, Word

\* What sscanf makes of a number is an int.
LEMMA TypedIsInt == \A n \in Int : AsInt(n) \in Int
<1> SUFFICES ASSUME NEW n \in Int PROVE AsInt(n) \in Int
  OBVIOUS
<1>1. Base \in Nat \ {0} /\ Base \div 2 \in Nat
  BY CommissioningAssumption, SMT
<1>2. n % Base \in Int /\ (n \div Base) % Base \in Int
  BY <1>1, SMT
<1> HIDE DEF Bytes
<1> QED
  BY <1>1, <1>2, SMT DEF AsInt, Word

LEMMA ImageIsNotEmpty == ImageSize \in Nat \ {0} /\ 0 \in 0 .. ImageSize - 1
<1>1. ImageSize \in Nat \ {0}
  BY CommissioningAssumption, SMT DEF ImageSize, ConfigOffset, StationSize
<1> QED
  BY <1>1

(***************************************************************************)
(* A save writes bytes.                                                    *)
(***************************************************************************)
LEMMA ImageBytes ==
    ASSUME NEW config \in Configs, NEW o \in Offsets
    PROVE  ImageByte(config, o) \in Bytes
<1>1. CASE o < ConfigOffset
  <2>1. o \in 0 .. 2
    BY <1>1 DEF Offsets, ConfigOffset
  <2> QED
    BY <1>1, <2>1, CommissioningAssumption DEF ImageByte, Header, Bytes
<1>2. CASE o >= ConfigOffset
  <2> DEFINE s == 1 + (o - ConfigOffset) \div StationSize
  <2>1. s \in Stations
    BY <1>2, OffsetStation
  <2>2. config[s].address \in 1 .. MaxAddress /\ config[s].name \in Bytes
    BY <2>1 DEF Configs
  <2>3. config[s].address % Base \in Bytes /\ config[s].address \div Base \in Bytes
    BY <2>2, AddressBytes
  <2>4. ~(o < ConfigOffset)
    BY <1>2 DEF Offsets, ConfigOffset
  <2> QED
    BY <2>2, <2>3, <2>4 DEF ImageByte
<1> QED
  BY <1>1, <1>2 DEF Offsets, ConfigOffset

(***************************************************************************)
(* load() reads a station back whose bytes are those of a configuration.   *)
(***************************************************************************)
StationRead(s) ==
    [address |-> Word(eeprom[AddressOffset(s)], eeprom[AddressOffset(s) + 1]),
     name |-> eeprom[AddressOffset(s) + 2]]

LEMMA ReadStation ==
    ASSUME NEW config \in Configs, NEW s \in Stations,
           \A field \in 0 .. 2 :
              eeprom[AddressOffset(s) + field] = ImageByte(config, AddressOffset(s) + field)
    PROVE  StationRead(s) = config[s]
<1>1. /\ eeprom[AddressOffset(s)] = config[s].address % Base
      /\ eeprom[AddressOffset(s) + 1] = config[s].address \div Base
      /\ eeprom[AddressOffset(s) + 2] = config[s].name
  <2>1. ASSUME NEW field \in 0 .. 2
        PROVE  eeprom[AddressOffset(s) + field] =
                 CASE field = 0 -> config[s].address % Base
                   [] field = 1 -> config[s].address \div Base
                   [] OTHER     -> config[s].name
    <3> DEFINE o == AddressOffset(s) + field
    <3>1. o \in Offsets /\ o >= ConfigOffset
      BY StationOffsets
    <3>2. 1 + (o - ConfigOffset) \div StationSize = s
          /\ (o - ConfigOffset) % StationSize = field
      BY StationOffsets
    <3>3. ~(o < ConfigOffset)
      BY <3>1 DEF Offsets, ConfigOffset
    <3>4. eeprom[o] = ImageByte(config, o)
      OBVIOUS
    <3> QED
      BY <3>2, <3>3, <3>4 DEF ImageByte
  <2>2. AddressOffset(s) + 0 = AddressOffset(s)
    BY DEF AddressOffset, ConfigOffset, StationSize, Stations
  <2>3. eeprom[AddressOffset(s) + 0] = config[s].address % Base
    BY <2>1
  <2>4. eeprom[AddressOffset(s) + 1] = config[s].address \div Base
    BY <2>1
  <2>5. eeprom[AddressOffset(s) + 2] = config[s].name
    BY <2>1
  <2> QED
    BY <2>2, <2>3, <2>4, <2>5
<1>2. config[s].address \in 1 .. MaxAddress
      /\ config[s] = [address |-> config[s].address, name |-> config[s].name]
  BY DEF Configs
<1>3. Word(config[s].address % Base, config[s].address \div Base) = config[s].address
  BY <1>2, AddressBytes
<1> QED
  BY <1>1, <1>2, <1>3 DEF StationRead

(***************************************************************************)
(* load() reads back what was saved.                                       *)
(***************************************************************************)
LEMMA LoadInvertsImage ==
    ASSUME NEW config \in Configs, eeprom = Image(config)
    PROVE  Load = config
<1>1. \A o \in DOMAIN Header : eeprom[o] = Header[o]
  <2> SUFFICES ASSUME NEW o \in 0 .. 2
               PROVE  eeprom[o] = Header[o]
    BY DEF Header
  <2>1. o \in Offsets /\ o < ConfigOffset
    BY CommissioningAssumption DEF Offsets, ImageSize, ConfigOffset, StationSize
  <2> QED
    BY <2>1 DEF Image, ImageByte
<1>3. ASSUME NEW s \in Stations PROVE StationRead(s) = config[s]
  <2>1. ASSUME NEW field \in 0 .. 2
        PROVE  eeprom[AddressOffset(s) + field] = ImageByte(config, AddressOffset(s) + field)
    BY StationOffsets DEF Image
  <2> QED
    BY <2>1, ReadStation
<1>4. Load = [s \in Stations |-> StationRead(s)]
  BY <1>1 DEF Load, StationRead
<1>5. config = [s \in Stations |-> config[s]]
  BY DEF Configs
<1> QED
  BY <1>3, <1>4, <1>5
--------------------------------------------------------------------------------
LEMMA DefaultsAreValid == Defaults \in Configs /\ Valid(Defaults)
  BY CommissioningAssumption DEF Defaults, Configs, Valid, InRange

LEMMA BootDraft ==
    ASSUME eeprom \in [Offsets -> Bytes]
    PROVE  DraftAtBoot \in Configs /\ Valid(DraftAtBoot)
<1>1. CASE Valid(Load)
  <2>1. Load # [s \in Stations |-> [address |-> 0, name |-> 0]]
    BY <1>1, CommissioningAssumption DEF Valid, InRange, Stations
  <2>2. Load = [s \in Stations |->
                  [address |-> Word(eeprom[AddressOffset(s)], eeprom[AddressOffset(s) + 1]),
                   name |-> eeprom[AddressOffset(s) + 2]]]
    BY <2>1 DEF Load
  <2>3. ASSUME NEW s \in Stations
        PROVE  Load[s] \in [address : 1 .. MaxAddress, name : Bytes]
    <3>1. \A field \in 0 .. 2 : eeprom[AddressOffset(s) + field] \in Bytes
      BY StationOffsets
    <3>2. AddressOffset(s) + 0 = AddressOffset(s)
      BY DEF AddressOffset, ConfigOffset, StationSize, Stations
    <3>3. eeprom[AddressOffset(s)] \in Bytes /\ eeprom[AddressOffset(s) + 1] \in Bytes
          /\ eeprom[AddressOffset(s) + 2] \in Bytes
      BY <3>1, <3>2
    <3>4. Word(eeprom[AddressOffset(s)], eeprom[AddressOffset(s) + 1]) \in Int
      BY <3>3, CommissioningAssumption DEF Word, Bytes
    <3>5. InRange(Load[s].address)
      BY <1>1 DEF Valid
    <3>6. Load[s].address \in 1 .. MaxAddress
      BY <2>2, <3>4, <3>5, CommissioningAssumption DEF InRange
    <3> QED
      BY <2>2, <3>3, <3>6
  <2>4. Load \in Configs
    BY <2>2, <2>3 DEF Configs
  <2> QED
    BY <1>1, <2>4 DEF DraftAtBoot
<1>2. CASE ~Valid(Load)
  BY <1>2, DefaultsAreValid DEF DraftAtBoot
<1> QED
  BY <1>1, <1>2

(***************************************************************************)
(* The strengthening: the bytes a save in progress has written are those   *)
(* of the draft, those it has not are still those of the last save, and    *)
(* all that a completed one has left are those of its configuration.       *)
(***************************************************************************)
EffectiveValid == Valid(effective)

WrittenSoFar == saving => \A o \in 0 .. written - 1 : eeprom[o] = ImageByte(draft, o)

NotYetWritten ==
    saving /\ ~torn /\ lastSaved # <<>>
        => \A o \in written .. ImageSize - 1 : eeprom[o] = ImageByte(lastSaved[1], o)

LastSaveIntact ==
    lastSaved # <<>> /\ ~saving /\ ~torn
        => \A o \in Offsets : eeprom[o] = ImageByte(lastSaved[1], o)

IInv == TypeOK /\ EffectiveValid /\ WrittenSoFar /\ NotYetWritten /\ LastSaveIntact

LEMMA InitEstablishes == Init => IInv
<1> SUFFICES ASSUME Init PROVE IInv
  OBVIOUS
<1>1. TypeOK
  <2>1. Blank \in Bytes
    BY CommissioningAssumption DEF Blank, Bytes
  <2>2. eeprom \in [Offsets -> Bytes]
    BY <2>1 DEF Init
  <2>3. written \in 0 .. ImageSize - 1
    BY ImageIsNotEmpty, Zenon DEF Init
  <2>4. draft \in Configs /\ effective \in Configs
    BY DefaultsAreValid, Zenon DEF Init
  <2> QED
    BY <2>2, <2>3, <2>4, Zenon DEF Init, TypeOK
<1>2. EffectiveValid
  BY DefaultsAreValid DEF Init, EffectiveValid
<1> QED
  BY <1>1, <1>2 DEF Init, IInv, WrittenSoFar, NotYetWritten, LastSaveIntact

LEMMA StepPreserves == IInv /\ [Next]_vars => IInv'
<1> SUFFICES ASSUME IInv, [Next]_vars PROVE IInv'
  OBVIOUS
<1> USE DEF IInv
<1>1. ASSUME NEW s \in Stations, NEW n \in TypedAddresses, SetAddress(s, n)
      PROVE  IInv'
  <2>1. AsInt(n) \in 1 .. MaxAddress
    <3>1. AsInt(n) \in Int
      BY CommissioningAssumption, TypedIsInt
    <3> QED
      BY <1>1, <3>1, CommissioningAssumption DEF SetAddress, AddressAccepted, InRange
  <2>2. draft' \in Configs
    BY <1>1, <2>1 DEF SetAddress, TypeOK, Configs
  <2> QED
    BY <1>1, <2>2
       DEF SetAddress, TypeOK, EffectiveValid, Valid, WrittenSoFar, NotYetWritten, LastSaveIntact
<1>2. ASSUME NEW s \in Stations, NEW n \in TypedNames, SetName(s, n)
      PROVE  IInv'
  <2>1. n \in Bytes
    BY CommissioningAssumption
  <2>2. draft' \in Configs
    BY <1>2, <2>1 DEF SetName, TypeOK, Configs
  <2> QED
    BY <1>2, <2>2
       DEF SetName, TypeOK, EffectiveValid, Valid, WrittenSoFar, NotYetWritten, LastSaveIntact
<1>3. CASE BeginSave
  <2>1. TypeOK' /\ EffectiveValid'
    BY <1>3, ImageIsNotEmpty DEF BeginSave, TypeOK, EffectiveValid, Valid
  <2>2. WrittenSoFar' /\ LastSaveIntact'
    BY <1>3 DEF BeginSave, WrittenSoFar, LastSaveIntact
  <2>3. NotYetWritten'
    BY <1>3 DEF BeginSave, NotYetWritten, LastSaveIntact, Offsets, ImageByte, Header
  <2> QED
    BY <2>1, <2>2, <2>3
<1>4. CASE WriteByte
  <2>1. written \in Offsets
    BY DEF TypeOK, Offsets
  <2>2. ImageByte(draft, written) \in Bytes
    BY <2>1, ImageBytes DEF TypeOK
  <2>3. eeprom' \in [Offsets -> Bytes]
    BY <1>4, <2>2 DEF WriteByte, NextOffset, TypeOK
  <2>4. \A o \in 0 .. written : eeprom'[o] = ImageByte(draft, o)
    <3> SUFFICES ASSUME NEW o \in 0 .. written
                 PROVE  eeprom'[o] = ImageByte(draft, o)
      OBVIOUS
    <3>1. o \in Offsets
      BY <2>1, ImageIsNotEmpty DEF Offsets
    <3>2. CASE o = written
      BY <1>4, <3>1, <3>2 DEF WriteByte, NextOffset, TypeOK
    <3>3. CASE o # written
      <4>1. o \in 0 .. written - 1
        BY <2>1, <3>3 DEF Offsets
      <4>2. eeprom[o] = ImageByte(draft, o)
        BY <1>4, <4>1 DEF WriteByte, WrittenSoFar
      <4> QED
        BY <1>4, <3>1, <3>3, <4>2 DEF WriteByte, NextOffset, TypeOK
    <3> QED
      BY <3>2, <3>3
  <2>5. CASE written = ImageSize - 1
    <3>1. TypeOK'
      <4>1. draft' \in Configs /\ effective' \in Configs
            /\ saving' = FALSE /\ torn' = FALSE /\ written' = 0
            /\ lastSaved' \in {<<config>> : config \in Configs}
        BY <1>4, <2>5 DEF WriteByte, NextOffset, TypeOK
      <4> QED
        BY <2>3, <4>1, ImageIsNotEmpty, Zenon DEF TypeOK
    <3>2. \A o \in Offsets : eeprom'[o] = ImageByte(draft, o)
      BY <2>4, <2>5 DEF Offsets
    <3>3. LastSaveIntact'
      BY <1>4, <2>5, <3>2 DEF WriteByte, LastSaveIntact, ImageByte, Header
    <3>4. EffectiveValid' /\ WrittenSoFar' /\ NotYetWritten'
      BY <1>4, <2>5 DEF WriteByte, EffectiveValid, Valid, WrittenSoFar, NotYetWritten
    <3> QED
      BY <3>1, <3>3, <3>4
  <2>6. CASE written # ImageSize - 1
    <3>1. TypeOK'
      <4>1. written + 1 \in 0 .. ImageSize - 1
        BY <2>1, <2>6, ImageIsNotEmpty DEF Offsets
      <4>2. written' \in 0 .. ImageSize - 1
        BY <1>4, <2>6, <4>1, Zenon DEF WriteByte
      <4> QED
        BY <1>4, <2>3, <2>6, <4>2, Zenon DEF WriteByte, NextOffset, TypeOK
    <3>2. written' = written + 1 /\ draft' = draft
      BY <1>4, <2>6, Zenon DEF WriteByte
    <3>3. WrittenSoFar'
      <4>1. 0 .. (written + 1) - 1 = 0 .. written
        BY <2>1, ImageIsNotEmpty DEF Offsets
      <4>2. \A o \in 0 .. (written + 1) - 1 : eeprom'[o] = ImageByte(draft, o)
        BY <2>4, <4>1, Zenon
      <4> QED
        BY <3>2, <4>2, Zenon DEF WrittenSoFar, ImageByte, Header
    <3>4. EffectiveValid' /\ LastSaveIntact'
      BY <1>4, <2>6 DEF WriteByte, EffectiveValid, Valid, LastSaveIntact
    <3>5. NotYetWritten'
      <4>1. lastSaved' = lastSaved /\ torn' = torn /\ saving' = saving
        BY <1>4, <2>6, Zenon DEF WriteByte
      <4>2. ASSUME saving, ~torn, lastSaved # <<>>, NEW o \in written + 1 .. ImageSize - 1
            PROVE  eeprom'[o] = ImageByte(lastSaved[1], o)
        <5>1. o \in written .. ImageSize - 1 /\ o \in Offsets /\ o # written
          BY <2>1 DEF Offsets
        <5>2. eeprom[o] = ImageByte(lastSaved[1], o)
          BY <4>2, <5>1 DEF NotYetWritten
        <5> QED
          BY <1>4, <5>1, <5>2 DEF WriteByte, NextOffset, TypeOK
      <4> QED
        BY <3>2, <4>1, <4>2, Zenon
           DEF NotYetWritten, ImageByte, Header, ImageSize, ConfigOffset, StationSize
    <3> QED
      BY <3>1, <3>3, <3>4, <3>5
  <2> QED
    BY <2>5, <2>6
<1>5. CASE PowerCycle
  <2>1. DraftAtBoot \in Configs /\ Valid(DraftAtBoot)
    BY BootDraft DEF TypeOK
  <2>3. TypeOK'
    BY <1>5, <2>1, ImageIsNotEmpty DEF PowerCycle, TypeOK
  <2>4. EffectiveValid'
    BY <1>5, <2>1 DEF PowerCycle, EffectiveValid
  <2>5. WrittenSoFar' /\ NotYetWritten' /\ LastSaveIntact'
    BY <1>5 DEF PowerCycle, WrittenSoFar, NotYetWritten, LastSaveIntact, ImageByte, Header
  <2> QED
    BY <2>3, <2>4, <2>5
<1>6. CASE UNCHANGED vars
  BY <1>6 DEF vars, TypeOK, EffectiveValid, Valid, WrittenSoFar, NotYetWritten, LastSaveIntact
<1> QED
  BY <1>1, <1>2, <1>3, <1>4, <1>5, <1>6 DEF Next

LEMMA Invariance == Spec => []IInv
  BY InitEstablishes, StepPreserves, PTL DEF Spec

(***************************************************************************)
(* The EEPROM holds bytes; draft and stations hold configurations whose    *)
(* addresses are in range.                                                 *)
(***************************************************************************)
THEOREM TypeCorrect == Spec => []TypeOK
<1>1. IInv => TypeOK
  BY DEF IInv
<1> QED
  BY <1>1, Invariance, PTL

(***************************************************************************)
(* The stations work on addresses in range and distinct, which MegaPanel   *)
(* assumes.                                                                *)
(***************************************************************************)
LEMMA StationsAreValid == Spec => []EffectiveValid
<1>1. IInv => EffectiveValid
  BY DEF IInv
<1> QED
  BY <1>1, Invariance, PTL

(***************************************************************************)
(* The next boot finds a valid configuration that was answered "OK".       *)
(***************************************************************************)
THEOREM SavesSurvive == Spec => []ValidSaveSurvives
<1>1. IInv => ValidSaveSurvives
  <2> SUFFICES ASSUME IInv, lastSaved # <<>>, ~saving, ~torn, Valid(lastSaved[1])
               PROVE  DraftAtBoot = lastSaved[1]
    BY DEF ValidSaveSurvives
  <2>1. PICK config \in Configs : lastSaved = <<config>>
    BY DEF IInv, TypeOK
  <2>2. \A o \in Offsets : eeprom[o] = ImageByte(config, o)
    BY <2>1 DEF IInv, LastSaveIntact
  <2>3. eeprom = Image(config)
    BY <2>2 DEF IInv, TypeOK, Image
  <2>4. Load = config
    BY <2>3, LoadInvertsImage
  <2> QED
    BY <2>1, <2>4 DEF DraftAtBoot
<1> QED
  BY <1>1, Invariance, PTL

(***************************************************************************)
(* A save cut off by the power leaves at most one station mixed up.        *)
(***************************************************************************)
LEMMA TornStations ==
    ASSUME IInv, saving, ~torn, lastSaved # <<>>, DraftAtBoot # Defaults
    PROVE  \E t \in Stations : \A s \in Stations :
              /\ s < t => DraftAtBoot[s] = draft[s]
              /\ s > t => DraftAtBoot[s] = lastSaved[1][s]
<1>1. DraftAtBoot = [s \in Stations |-> StationRead(s)]
  <2>1. Valid(Load) /\ DraftAtBoot = Load
    BY DEF DraftAtBoot
  <2>2. Load # [s \in Stations |-> [address |-> 0, name |-> 0]]
    BY <2>1, CommissioningAssumption DEF Valid, InRange, Stations
  <2> QED
    BY <2>1, <2>2 DEF Load, StationRead
<1>2. PICK config \in Configs : lastSaved = <<config>>
  BY DEF IInv, TypeOK
<1>3. draft \in Configs /\ written \in Offsets
  BY DEF IInv, TypeOK, Offsets
<1> DEFINE t == IF written < ConfigOffset THEN 1
                ELSE 1 + (written - ConfigOffset) \div StationSize
<1>4. t \in Stations
  <2>1. CASE written < ConfigOffset
    BY <2>1, CommissioningAssumption DEF Stations
  <2>2. CASE ~(written < ConfigOffset)
    BY <1>3, <2>2, OffsetStation DEF Offsets, ConfigOffset
  <2> QED
    BY <2>1, <2>2
<1>5. ASSUME NEW s \in Stations, s < t PROVE StationRead(s) = draft[s]
  <2>1. ASSUME NEW field \in 0 .. 2
        PROVE  eeprom[AddressOffset(s) + field] = ImageByte(draft, AddressOffset(s) + field)
    <3>1. AddressOffset(s) + field \in 0 .. written - 1
      BY <1>3, <1>5, CommissioningAssumption, SMT
         DEF Stations, AddressOffset, Offsets, ImageSize, ConfigOffset, StationSize
    <3> QED
      BY <3>1 DEF IInv, WrittenSoFar
  <2> HIDE DEF t
  <2> QED
    BY <1>3, <2>1, ReadStation
<1>6. ASSUME NEW s \in Stations, s > t PROVE StationRead(s) = config[s]
  <2>1. ASSUME NEW field \in 0 .. 2
        PROVE  eeprom[AddressOffset(s) + field] = ImageByte(config, AddressOffset(s) + field)
    <3>1. AddressOffset(s) + field \in written .. ImageSize - 1
      BY <1>3, <1>6, CommissioningAssumption, SMT
         DEF Stations, AddressOffset, Offsets, ImageSize, ConfigOffset, StationSize
    <3> QED
      BY <1>2, <3>1 DEF IInv, NotYetWritten
  <2> HIDE DEF t
  <2> QED
    BY <2>1, ReadStation
<1>7. \A s \in Stations : /\ s < t => DraftAtBoot[s] = draft[s]
                          /\ s > t => DraftAtBoot[s] = lastSaved[1][s]
  <2> HIDE DEF t
  <2> QED
    BY <1>1, <1>2, <1>5, <1>6
<1> QED
  BY <1>4, <1>7, Zenon

\* However the power goes during a save, the next boot finds the stations
\* before one of them new and those after it old, or the defaults.
THEOREM CutSavesTearOne == Spec => OneStationTorn
<1> DEFINE Torn == PowerCycle /\ saving /\ ~torn /\ lastSaved # <<>> =>
                     \/ draft' = Defaults
                     \/ \E t \in Stations : \A s \in Stations :
                            /\ s < t => draft'[s] = draft[s]
                            /\ s > t => draft'[s] = lastSaved[1][s]
<1>1. ASSUME IInv PROVE [Torn]_vars
  <2>1. PowerCycle => draft' = DraftAtBoot
    BY DEF PowerCycle
  <2> QED
    BY <1>1, <2>1, TornStations
<1> QED
  BY <1>1, Invariance, PTL DEF OneStationTorn, Torn
================================================================================
